---------------------------- MODULE ToolCompiler ----------------------------
(***************************************************************************)
(* From an API description to the tools of a manifest: the routing and    *)
(* security part of the parsers, the discovery that judges a build before *)
(* it is admitted, the choice of credentials, the compiler and the checks *)
(* of its output.  Everything here is a pure function of its arguments.   *)
(*                                                                         *)
(* A name is the sequence of its words, so that joining with "_" is the   *)
(* concatenation of names.  A JSON schema is the set of values it         *)
(* accepts, Anything for the empty schema.  Operations are known by keys, *)
(* which are numbers so that they have an order.  References between      *)
(* documents, schema dialects and shared definitions are left out.        *)
(***************************************************************************)
EXTENDS Integers, Sequences, FiniteSets, SequencesExt

CONSTANTS
    None,
    Anything,      \* all JSON values: what the empty schema accepts
    Texts,         \* the values of {"type": "string"}
    Null,          \* the JSON value null
    Unsupported,   \* schema of a parameter described by "content"
    Host,          \* [Server -> [name, dotted]]: host of each server URL
    NameRank,      \* [Name -> Nat]: alphabetical order, without case
    Fold(_),       \* casefold of a name
    Hash(_)        \* digest of an operation key, as a word of a name

LocationRank == [cookie |-> 1, header |-> 2, path |-> 3, query |-> 4]
Json == <<"application", "json">>
Form == <<"application", "x-www-form-urlencoded">>
Multipart == <<"multipart", "form-data">>
JsonSuffixed == {<<"application", "problem+json">>, <<"application", "validation+json">>,
                 <<"application", "*+json">>}

Keys(doc) == DOMAIN doc.operations

-----------------------------------------------------------------------------
(* Parsing: servers *)

\* The document's own server list, else the project's default base URL.
Roots(doc, routing) ==
    IF doc.servers # <<>> \/ routing.base = None THEN doc.servers ELSE <<routing.base>>

\* The operation's servers, else those of its path, else the document's.
Candidates(doc, routing, key) ==
    LET op == doc.operations[key]
    IN  IF op.servers # <<>> THEN op.servers ELSE Roots(doc, routing)

Servers(doc, routing) ==
    ToSet(Roots(doc, routing)) \cup UNION {ToSet(doc.operations[k].servers) : k \in Keys(doc)}

\* An inventory operation with a server id is pinned to it; the active server
\* is for operations without servers of their own.
Configured(doc, routing, key) ==
    LET own == doc.operations[key].servers
    IN  IF doc.format = "inventory" /\ own # <<>> THEN own[1]
        ELSE IF key \in DOMAIN routing.mapping THEN routing.mapping[key]
        ELSE IF own = <<>> THEN routing.active
        ELSE None

Selected(doc, routing, key) ==
    LET configured == Configured(doc, routing, key)
        candidates == Candidates(doc, routing, key)
    IN  IF configured = None /\ Len(candidates) = 1 THEN candidates[1] ELSE configured

\* The document has no server and the project no default base URL.
NoServer(doc, routing) == Servers(doc, routing) = {}

\* The active server is unknown; an inventory lists its servers in one place.
ActiveUnknown(doc, routing) ==
    routing.active # None /\ routing.active \notin
        (IF doc.format = "inventory" THEN ToSet(Roots(doc, routing)) ELSE Servers(doc, routing))

\* An operation is sent to a server that is none of its candidates.
NotApplicable(doc, routing) ==
    \E k \in Keys(doc) : LET s == Selected(doc, routing, k)
                         IN  s # None /\ s \notin ToSet(Candidates(doc, routing, k))

\* A server is chosen for an operation that the document does not have.
UnknownMapping(doc, routing) == ~(DOMAIN routing.mapping \subseteq Keys(doc))

\* The document and the routing settings do not fit together.
RoutingRefused(doc, routing) ==
    \/ NoServer(doc, routing) \/ ActiveUnknown(doc, routing)
    \/ NotApplicable(doc, routing) \/ UnknownMapping(doc, routing)

-----------------------------------------------------------------------------
(* Parsing: the rest *)

\* Parameters of an operation override those of its path with the same name
\* and location; an inventory has only the former.
Parameters(op) ==
    {p \in op.inherited : \A q \in op.params : <<q.name, q.location>> # <<p.name, p.location>>}
    \cup op.params

PathNames(op) == {p.name : p \in {x \in Parameters(op) : x.location = "path"}}

MalformedParameters(op) ==
    \/ \E p \in Parameters(op) : p.location = "path" /\ ~p.required
    \/ PathNames(op) # op.path

MalformedBody(op) == op.body # None /\ DOMAIN op.body.content = {}
MalformedResponses(op) == op.responses = <<>>

\* A requirement names a scheme that the document does not define.
UndefinedSchemes(doc, op) ==
    \E i \in DOMAIN op.security : ~(DOMAIN op.security[i] \subseteq DOMAIN doc.schemes)

\* What makes a document unacceptable whatever the routing.
Malformed(doc) ==
    \E k \in Keys(doc) :
        LET op == doc.operations[k]
        IN  \/ MalformedParameters(op) \/ MalformedBody(op)
            \/ MalformedResponses(op) \/ UndefinedSchemes(doc, op)

-----------------------------------------------------------------------------
(* Choosing a credential *)

\* What the compiler reads off a scheme of the document: the kind of credential it
\* takes, None if it is unsupported, and the name of the parameter an API key goes into.
MappingSpec(name, scheme) ==
    [name |-> name,
     expected |-> CASE scheme.type = "http_bearer" -> "bearer"
                    [] scheme.type = "http_basic" -> "basic"
                    [] scheme.type \in {"oauth2_client_credentials", "static_headers"} -> scheme.type
                    [] scheme.type = "api_key" /\ scheme.location = "header" -> "api_key_header"
                    [] scheme.type = "api_key" /\ scheme.location = "query" -> "api_key_query"
                    [] OTHER -> None,
     parameter |-> IF scheme.type = "api_key" THEN scheme.name ELSE None,
     advertised |-> scheme.scopes,
     oauth |-> scheme.type = "oauth2_client_credentials"]

MappingSpecs(doc) == [name \in DOMAIN doc.schemes |-> MappingSpec(name, doc.schemes[name])]

Compatible(credential, spec, scopes) ==
    /\ spec.expected # None /\ credential.type = spec.expected
    /\ credential.scheme # None => Fold(credential.scheme) = Fold(spec.name)
    /\ spec.parameter # None => credential.name # None
                                /\ Fold(credential.name) = Fold(spec.parameter)
    /\ IF spec.oauth THEN scopes \cup credential.scopes \subseteq spec.advertised
       ELSE scopes = {}

\* Compatible credentials, those bound to the scheme by name before others.
Matching(credentials, spec, scopes) ==
    LET fitting == {c \in credentials : Compatible(c, spec, scopes)}
        bound == {c \in fitting : c.scheme # None}
    IN  IF bound # {} THEN bound ELSE fitting

\* One scheme of a requirement with the only credential that serves it, None
\* if none or several do.
Served(spec, asked, matching) ==
    IF Cardinality(matching) # 1 THEN None
    ELSE LET c == CHOOSE x \in matching : TRUE
         IN  [scheme |-> spec.name, credential |-> c.id,
              scopes |-> IF ~spec.oauth THEN {} ELSE IF asked # {} THEN asked ELSE c.scopes]

\* An alternative is served if it asks for one scheme, a defined one, and
\* leaves one credential.
Alternative(specs, alternative, credentials) ==
    IF \E name \in DOMAIN specs : DOMAIN alternative = {name}
    THEN LET name == CHOOSE x \in DOMAIN alternative : TRUE
             asked == alternative[name]
         IN  Served(specs[name], asked, Matching(credentials, specs[name], asked))
    ELSE None

FirstServed(options) ==
    LET served == {i \in DOMAIN options : options[i] # None}
    IN  IF served = {} THEN None
        ELSE options[CHOOSE i \in served : \A j \in served : i <= j]

\* select_auth_alternative: the first alternative that is served.
Selection(specs, security, credentials) ==
    FirstServed([i \in DOMAIN security |-> Alternative(specs, security[i], credentials)])

Anonymous(op) == op.security = <<>> \/ \E i \in DOMAIN op.security : DOMAIN op.security[i] = {}
Active(credentials) == {c \in credentials : ~c.revoked}

-----------------------------------------------------------------------------
(* Discovery: what a build is admitted on *)

\* The project-wide server, only where an operation has a choice and all its
\* candidates are servers of the document.
Inherited(doc, routing, key) ==
    LET candidates == Candidates(doc, routing, key)
    IN  IF /\ routing.active \in ToSet(candidates)
           /\ Len(candidates) > 1
           /\ ToSet(candidates) \subseteq ToSet(doc.servers)
        THEN routing.active ELSE None

Unrouted(routing) == [base |-> routing.base, active |-> None, mapping |-> <<>>]

Discovered(doc, routing, key) ==
    LET mapped == key \in DOMAIN routing.mapping
        configured == IF mapped THEN routing.mapping[key] ELSE Inherited(doc, routing, key)
    IN  IF configured = None THEN Selected(doc, Unrouted(routing), key)
        ELSE IF configured \in ToSet(Candidates(doc, routing, key)) THEN configured
        ELSE None

RoutingComplete(doc, routing) == \A k \in Keys(doc) : Discovered(doc, routing, k) # None

\* The security scheme as discovery records it.
DiscoveredScheme(name, scheme) ==
    [name |-> name, type |-> scheme.type, location |-> scheme.location,
     parameter |-> scheme.name, advertised |-> scheme.scopes]

\* The name of the parameter is not looked at.
ReadinessSpec_AnyName(row) ==
    [name |-> row.name,
     expected |-> CASE row.type = "http_bearer" -> "bearer"
                    [] row.type = "http_basic" -> "basic"
                    [] row.type = "oauth2_client_credentials" -> "oauth2_client_credentials"
                    [] row.type = "static_headers" -> "static_headers"
                    [] row.type = "api_key" /\ row.location = "header" -> "api_key_header"
                    [] row.type = "api_key" /\ row.location = "query" -> "api_key_query"
                    [] OTHER -> None,
     parameter |-> None, advertised |-> row.advertised, oauth |-> row.type = "oauth2_client_credentials"]

\* What readiness reads off that record, in a table of its own.
ReadinessSpec(row) ==
    [name |-> row.name,
     expected |-> CASE row.type = "http_bearer" -> "bearer"
                    [] row.type = "http_basic" -> "basic"
                    [] row.type = "oauth2_client_credentials" -> "oauth2_client_credentials"
                    [] row.type = "static_headers" -> "static_headers"
                    [] row.type = "api_key" /\ row.location = "header" -> "api_key_header"
                    [] row.type = "api_key" /\ row.location = "query" -> "api_key_query"
                    [] OTHER -> None,
     parameter |-> IF row.type = "api_key" THEN row.parameter ELSE None,
     advertised |-> row.advertised,
     oauth |-> row.type = "oauth2_client_credentials"]

ReadinessSpecs(doc) ==
    [name \in DOMAIN doc.schemes |-> ReadinessSpec(DiscoveredScheme(name, doc.schemes[name]))]

\* credential_mapping_readiness: every operation finds a credential, the
\* excluded ones too.
Ready(doc, credentials) ==
    \A k \in Keys(doc) :
        LET op == doc.operations[k]
        IN  Anonymous(op) \/ Selection(ReadinessSpecs(doc), op.security, Active(credentials)) # None

-----------------------------------------------------------------------------
(* Compiling *)

Executable(doc, excluded) == Keys(doc) \ excluded

AuthProfile(selection, scheme) ==
    [scheme |-> selection.scheme, type |-> scheme.type, name |-> scheme.name,
     location |-> IF scheme.type = "api_key" THEN scheme.location ELSE "header",
     credential |-> selection.credential, scopes |-> selection.scopes]

\* map_credentials refuses an operation that needs a credential and finds none.
Unserved(doc, credentials, excluded) ==
    {k \in Executable(doc, excluded) :
        LET op == doc.operations[k]
        IN  ~Anonymous(op) /\ Selection(MappingSpecs(doc), op.security, credentials) = None}

\* The profile of every operation, None for one that needs none.
Profiles(doc, credentials, excluded) ==
    [k \in Executable(doc, excluded) |->
        LET op == doc.operations[k]
            ProfileFor(selection) == IF selection = None THEN None
                                     ELSE AuthProfile(selection, doc.schemes[selection.scheme])
        IN  IF Anonymous(op) THEN None
            ELSE ProfileFor(Selection(MappingSpecs(doc), op.security, credentials))]

\* The scopes are compared with the first alternative that names the chosen
\* scheme, which need not be the alternative that was chosen.
ScopesChanged(op, profile) ==
    LET naming == {i \in DOMAIN op.security : DOMAIN op.security[i] = {profile.scheme}}
        first == CHOOSE i \in naming : \A j \in naming : i <= j
    IN  op.security[first][profile.scheme] \notin {{}, profile.scopes}

\* The first free one of name, location_name, location_name_2, ...
UniqueField(name, location, used) ==
    LET base == IF name \in used THEN <<location>> \o name ELSE name
        Numbered(n) == IF n = 1 THEN base ELSE Append(base, ToString(n))
        free == {n \in 1..(Cardinality(used) + 1) : Numbered(n) \notin used}
    IN  Numbered(CHOOSE n \in free : \A m \in free : n <= m)

\* Headers a caller may not set; the contract and the runtime add Content-Type.
CompilerForbids == {<<"authorization">>, <<"host">>, <<"cookie">>}
ContractForbids == CompilerForbids \cup {<<"content-type">>}

Supplied(p, profile) ==
    p.location = "header" /\ Fold(p.name) = <<"authorization">> /\ profile # None

\* The order in which the compiler takes the parameters.  Two it does not tell apart have
\* one target, which the contract refuses.
Precedes(p, q) ==
    \/ LocationRank[p.location] < LocationRank[q.location]
    \/ p.location = q.location /\ NameRank[Fold(p.name)] < NameRank[Fold(q.name)]

Mapped(op, profile) == {p \in Parameters(op) : ~Supplied(p, profile)}

\* The field of each parameter, free among those of the parameters before it.
FieldNames(op, profile) ==
    LET params == Mapped(op, profile)
        field[p \in params] ==
            UniqueField(p.name, p.location, {field[q] : q \in {r \in params : Precedes(r, p)}})
    IN  field

\* One mapping per parameter, with a field name of its own.
Mappings(op, profile) ==
    LET field == FieldNames(op, profile)
    IN  {[field |-> field[p], param |-> p] : p \in Mapped(op, profile)}

Fields(mappings) == {m.field : m \in mappings}

\* JSON before form before multipart.
RequestMedia(op) ==
    IF Json \in DOMAIN op.body.content THEN Json
    ELSE IF Form \in DOMAIN op.body.content THEN Form
    ELSE IF Multipart \in DOMAIN op.body.content THEN Multipart
    ELSE None

\* A parameter without any schema is described as text, unless it has a
\* description, which keeps its schema from being empty.
FieldSchema(p) == IF p.schema = Anything /\ ~p.described THEN Texts ELSE p.schema

Success(status) == status \in {"200", "201", "2XX", "default"}
SupportedMedia(m) == m = Json \/ m \in JsonSuffixed \/ m[1] = "text"

BodySchema(r) ==
    IF r.media = None THEN {Null}
    ELSE IF r.schema = Anything /\ r.media[1] = "text" THEN Texts
    ELSE r.schema

\* Only the values that one schema alone accepts (oneOf).
Envelope_Exclusive(op) ==
    LET schemas == {BodySchema(r) : r \in {x \in ToSet(op.responses) : Success(x.status)}}
    IN  IF schemas = {} THEN None
        ELSE {v \in UNION schemas : Cardinality({s \in schemas : v \in s}) = 1}

\* The output schema's body: an inclusive union over the successful responses.
Envelope(op) ==
    LET schemas == {BodySchema(r) : r \in {x \in ToSet(op.responses) : Success(x.status)}}
    IN  IF schemas = {} THEN None ELSE UNION schemas

\* The binary fields of a multipart body, and whether they are required.
MultipartFiles(op, media) == IF media = Multipart THEN op.body.files ELSE <<>>

RequestBody(op, media, field) ==
    [field |-> field, media |-> media, required |-> op.body.required,
     schema |-> op.body.content[media], files |-> MultipartFiles(op, media)]

\* The field of the body comes after those of the mappings.
BodyOf(op, mappings) ==
    IF op.body = None THEN None
    ELSE RequestBody(op, RequestMedia(op), UniqueField(<<"body">>, "query", Fields(mappings)))

ParamOf(mappings, f) == (CHOOSE m \in mappings : m.field = f).param
BodyField(body) == IF body = None THEN {} ELSE {body.field}

InputSchema(mappings, body) ==
    [f \in Fields(mappings) \cup BodyField(body) |->
        IF f \in BodyField(body) THEN body.schema ELSE FieldSchema(ParamOf(mappings, f))]

RequiredFields(mappings, body) ==
    {f \in Fields(mappings) : ParamOf(mappings, f).required}
    \cup (IF body # None /\ body.required THEN BodyField(body) ELSE {})

\* _compile_tool, from the mappings of the parameters.
Tool(doc, routing, key, profile, name, mappings) ==
    LET op == doc.operations[key]
        body == BodyOf(op, mappings)
    IN  [name |-> name, key |-> key, server |-> Selected(doc, routing, key),
         path |-> op.path, mappings |-> mappings, body |-> body, profile |-> profile,
         required |-> RequiredFields(mappings, body), inputs |-> InputSchema(mappings, body),
         responses |-> op.responses, output |-> Envelope(op)]

\* Names of the tools: the seed, with the digest of the key where it is not
\* alone or is taken.
ToolNames(doc, keys) ==
    LET Seed(k) == doc.operations[k].seed
        Before(k) == {j \in keys : \/ NameRank[Seed(j)] < NameRank[Seed(k)]
                                   \/ Seed(j) = Seed(k) /\ j < k}
        Crowded(k) == \E j \in keys \ {k} : Seed(j) = Seed(k)
        name[k \in keys] ==
            IF Crowded(k) \/ Seed(k) \in {name[j] : j \in Before(k)}
            THEN Append(Seed(k), Hash(k)) ELSE Seed(k)
    IN  name

\* What the compiler refuses in one operation.
OperationRefused(op, profile) ==
    LET params == Parameters(op)
    IN  \/ \E p \in params : p.schema = Unsupported \/ p.location = "cookie"
        \/ \E p \in params : /\ p.location = "header"
                             /\ Fold(p.name) \in CompilerForbids
                             /\ ~Supplied(p, profile)
        \/ op.body # None /\ RequestMedia(op) = None
        \/ \E r \in ToSet(op.responses) :
                r.media # None /\ Success(r.status) /\ ~SupportedMedia(r.media)

\* Why compilation fails, None if it does not.
CompileFailure(doc, routing, excluded, profiles, names) ==
    LET keys == DOMAIN profiles
        scopesChanged == \E k \in keys : /\ profiles[k] # None
                                         /\ ScopesChanged(doc.operations[k], profiles[k])
    IN  IF ~(excluded \subseteq Keys(doc)) THEN "exclusions"
        ELSE IF scopesChanged THEN "scopes"
        ELSE IF \E j, k \in keys : j # k /\ names[j] = names[k] THEN "names"
        ELSE IF \E k \in keys : Selected(doc, routing, k) = None THEN "routing"
        ELSE IF \E k \in keys : OperationRefused(doc.operations[k], profiles[k]) THEN "operation"
        ELSE None

Trim(host) == [host EXCEPT !.dotted = FALSE]

\* The manifest: tools by key, servers they use (all, if there are no
\* tools), hosts of these.
Listed(tools, servers) ==
    [tools |-> tools, servers |-> servers, hosts |-> {Trim(Host[s]) : s \in servers}]

Manifest(doc, routing, profiles, names) ==
    LET keys == DOMAIN profiles
    IN  Listed({Tool(doc, routing, k, profiles[k], names[k],
                     Mappings(doc.operations[k], profiles[k])) : k \in keys},
               IF keys = {} THEN Servers(doc, routing)
               ELSE {Selected(doc, routing, k) : k \in keys})

-----------------------------------------------------------------------------
(* Checking the manifest *)

\* validate_manifest_contract, the part the compiler does not ensure itself.
ContractHolds(manifest) ==
    \A t \in manifest.tools :
        LET Target(m) == <<m.param.location, Fold(m.param.name)>>
        IN  /\ \A m, n \in t.mappings : m # n => Target(m) # Target(n) /\ m.field # n.field
            /\ \A m \in t.mappings : m.field \notin BodyField(t.body)
            /\ \A m \in t.mappings :
                 LET p == m.param
                 IN  /\ p.location = "header" => Fold(p.name) \notin ContractForbids
                     /\ p.location \in {"path", "header"} => p.style \in {None, "simple"}
                     /\ p.reserved => p.location = "query"

\* validate_build: one tool for every operation that was not excluded, and no other.
CoverageHolds(doc, excluded, manifest) ==
    /\ excluded \subseteq Keys(doc)
    /\ {t.key : t \in manifest.tools} = Executable(doc, excluded)
    /\ \A t, u \in manifest.tools : t.key = u.key \/ t.name = u.name => t = u

\* validate_build, tool by tool: path and server are the operation's, and nothing that is
\* required was dropped or made optional.
OperationKept(doc, routing, manifest, t) ==
    LET op == doc.operations[t.key]
    IN  /\ t.path = op.path
        /\ t.server = Selected(doc, routing, t.key) /\ t.server \in manifest.servers
        /\ \A p \in Parameters(op) : p.required /\ p.location # "cookie" =>
              \E m \in t.mappings : m.param = p
        /\ op.body # None /\ op.body.required => t.body # None /\ t.body.required

\* validate_build: the hosts are those of the servers.  Digests and versions are compared
\* with what the compiler has just taken them from.
BuildHolds(doc, routing, excluded, manifest) ==
    /\ CoverageHolds(doc, excluded, manifest)
    /\ \A t \in manifest.tools : OperationKept(doc, routing, manifest, t)
    /\ manifest.hosts = {Host[s] : s \in manifest.servers}

=============================================================================
