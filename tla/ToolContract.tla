---------------------------- MODULE ToolContract ----------------------------
(***************************************************************************)
(* One build from the judgement that admits it to the calls of its tools: *)
(* discovery and readiness, parsing, compilation, validation with the     *)
(* harness, and then tool calls and their responses.  The judgement is    *)
(* passed on the document without routing, by code of its own; every      *)
(* later stage works on what the stage before it produced.                *)
(***************************************************************************)
EXTENDS ToolRuntime

CONSTANTS
    Project,     \* [doc, routing, credentials, excluded]: what a build starts from
    Value,       \* values callers and servers send
    Response     \* [status, media, body]: what upstream servers answer

\* A server that is named is a URL with a host.
ASSUME ServersAssumption ==
    /\ None \notin DOMAIN Host
    /\ \A p \in Project :
          /\ p.doc.servers \in Seq(DOMAIN Host)
          /\ \A k \in Keys(p.doc) : p.doc.operations[k].servers \in Seq(DOMAIN Host)

\* The alternatives of an operation are in an order.
ASSUME SecurityAssumption ==
    \A p \in Project : \A k \in Keys(p.doc) : DOMAIN p.doc.operations[k].security \subseteq Nat

\* A schema is about the values that are sent; parameters are at places of a request.
ASSUME ValuesAssumption ==
    /\ None \notin Value
    /\ Null \in Value
    /\ \A v \in Value :
          /\ v.kind \in {"scalar", "array", "object"}
          /\ v.kind = "scalar" => 1 \in DOMAIN v.items
    /\ Texts \subseteq Value
    /\ \A p \in Project : \A k \in Keys(p.doc) :
          LET op == p.doc.operations[k]
          IN  /\ \A q \in Parameters(op) :
                    /\ q.location \in DOMAIN LocationRank
                    /\ q.schema = Unsupported \/ q.schema \subseteq Value
              /\ op.body # None => \A m \in DOMAIN op.body.content : op.body.content[m] \subseteq Value
              /\ \A r \in ToSet(op.responses) : r.schema \subseteq Value

\* A text body is a text, and there is an answer like every one that the harness makes up.
ASSUME ResponsesAssumption ==
    /\ \A q \in Response :
          /\ q.status \in {"200", "201", "404"}
          /\ q.media[1] = "text" => q.body \in Texts \cup {Empty}
    /\ \A p \in Project : \A k \in Keys(p.doc) : \A r \in ToSet(p.doc.operations[k].responses) :
          Presentable(r) /\ (r.media # None => SupportedMedia(r.media)) =>
              \E q \in Response : /\ q.status = MadeUp(r).status
                                  /\ q.media = MadeUp(r).media
                                  /\ Decoded(q) = MadeUp(r).data

\* None is no reason to fail and no schema.
ASSUME NoneAssumption ==
    /\ None \notin {"exclusions", "credentials", "scopes", "names", "routing", "operation"}
    /\ \A schema \in SUBSET Value : schema # None

VARIABLES
    setup,       \* the configuration, frozen with the build
    stage,
    failure,     \* the check the build ended with
    manifest,
    call,        \* the tool call in progress: [tool, args, request]
    reply        \* what the last call returned: [kind, data]

contractVars == <<setup, stage, failure, manifest, call, reply>>

NoManifest == [tools |-> {}, servers |-> {}, hosts |-> {}]

ContractInit ==
    /\ setup \in Project
    /\ stage = "requested"
    /\ failure = None
    /\ manifest = NoManifest
    /\ call = None
    /\ reply = None

Fail(reason) == stage' = "failed" /\ failure' = reason
Advance(next) == stage' = next /\ failure' = failure

\* BuildService.create: discovery parses the document with the default base
\* URL alone, then judges routing and credentials.
Admit ==
    /\ stage = "requested"
    /\ LET doc == setup.doc
           refused == \/ Malformed(doc)
                      \/ RoutingRefused(doc, Unrouted(setup.routing))
                      \/ ~RoutingComplete(doc, setup.routing)
                      \/ ~Ready(doc, setup.credentials)
       IN  IF refused THEN stage' = "refused" /\ failure' = failure
           ELSE Advance("admitted")
    /\ UNCHANGED <<setup, manifest, call, reply>>

\* The canonicalization stage: the document with all routing settings.
Parse ==
    /\ stage = "admitted"
    /\ IF RoutingRefused(setup.doc, setup.routing) THEN Fail("routing")
       ELSE Advance("parsed")
    /\ UNCHANGED <<setup, manifest, call, reply>>

\* The compilation stage, with the credentials frozen when the build was made.
Compile ==
    /\ stage = "parsed"
    /\ LET doc == setup.doc
           keys == Executable(doc, setup.excluded)
       IN  \E profiles \in {Profiles(doc, Active(setup.credentials), setup.excluded)} :
           \E names \in {ToolNames(doc, keys)} :
           \E reason \in {CompileFailure(doc, setup.routing, setup.excluded, profiles, names)} :
              IF Unserved(doc, Active(setup.credentials), setup.excluded) # {}
              THEN Fail("credentials") /\ UNCHANGED manifest
              ELSE IF reason # None THEN Fail(reason) /\ UNCHANGED manifest
              ELSE /\ Advance("compiled")
                   /\ manifest' = Manifest(doc, setup.routing, profiles, names)
    /\ UNCHANGED <<setup, call, reply>>

\* ValidationService.validate: the harness runs if no check failed before.
ValidateBuild ==
    /\ stage = "compiled"
    /\ IF /\ ContractHolds(manifest)
          /\ BuildHolds(setup.doc, setup.routing, setup.excluded, manifest)
          /\ Probed(manifest)
       THEN Advance("ready") ELSE Fail("validation")
    /\ UNCHANGED <<setup, manifest, call, reply>>

\* A client calls a tool; arguments that do not fit are refused at once.
Call(t, args) ==
    /\ stage = "ready" /\ call = None /\ reply = None
    /\ InputValid(t, args)
    /\ \E request \in {BuildRequest(t, args)} :
          IF request = None
          THEN reply' = [kind |-> "refused", data |-> None] /\ call' = call
          ELSE /\ call' = [tool |-> t, args |-> args, request |-> request]
               /\ reply' = reply
    /\ UNCHANGED <<setup, stage, failure, manifest>>

\* The upstream answers; only a success is held against the contract.
Respond(response) ==
    /\ call # None /\ reply = None
    /\ LET data == Decoded(response)
           ok == data # None /\ Accepts(call.tool.responses, response.status, response.media, data)
       IN  reply' = IF response.status = "404" THEN [kind |-> "upstream_error", data |-> None]
                    ELSE IF ok THEN [kind |-> "result", data |-> data]
                    ELSE [kind |-> "contract_error", data |-> None]
    /\ UNCHANGED <<setup, stage, failure, manifest, call>>

\* The result is delivered and the next call may come.
Return ==
    /\ reply # None
    /\ call' = None /\ reply' = None
    /\ UNCHANGED <<setup, stage, failure, manifest>>

\* What callers send; arguments that do not fit the input schema are refused at once.
Arguments(t) ==
    UNION {[fields -> UNION {t.inputs[f] : f \in fields}] :
             fields \in {x \in SUBSET DOMAIN t.inputs : t.required \subseteq x}}

ContractNext ==
    \/ Admit \/ Parse \/ Compile \/ ValidateBuild
    \/ \E t \in manifest.tools : \E args \in Arguments(t) : Call(t, args)
    \/ \E response \in Response : Respond(response)
    \/ Return

ContractSpec == ContractInit /\ [][ContractNext]_contractVars

-----------------------------------------------------------------------------
(* Properties *)

\* Routing settings that a document does not bear out: a server, or an
\* operation, that is not there any more.
StaleRouting ==
    LET routing == setup.routing
    IN  \/ routing.active # None /\ routing.active \notin ToSet(Roots(setup.doc, routing))
        \/ ~(DOMAIN routing.mapping \subseteq Keys(setup.doc))

\* An operation lists servers of its own that are all servers of the document:
\* discovery applies the project-wide server to it, the parser does not.  The
\* code disagrees with itself here.
RepeatsRoots ==
    \E k \in Keys(setup.doc) \ DOMAIN setup.routing.mapping :
        /\ setup.doc.operations[k].servers # <<>>
        /\ Inherited(setup.doc, setup.routing, k) # None

\* An operation has two alternatives of one scheme, the earlier with scopes
\* that the later one does not ask for: the later one can be chosen, and the
\* compiler compares it with the earlier one.
SameSchemeTwice ==
    \E k \in Executable(setup.doc, setup.excluded) :
        LET security == setup.doc.operations[k].security
        IN  \E i, j \in DOMAIN security : \E name \in DOMAIN setup.doc.schemes :
                /\ i < j
                /\ DOMAIN security[i] = {name} /\ DOMAIN security[j] = {name}
                /\ security[i][name] \notin {{}, security[j][name]}

\* A build is admitted on a judgement that other code passes, on a document
\* parsed differently.  A build it admits never fails later for want of a
\* credential; for want of a server only if its routing settings are stale or
\* an operation repeats servers of the document; and because of scopes only
\* if an operation has two alternatives of one scheme that ask for different
\* ones.
AdmittedSound ==
    /\ failure # "credentials"
    /\ failure = "routing" => StaleRouting \/ RepeatsRoots
    /\ failure = "scopes" => SameSchemeTwice

\* Every tool of a READY build can be called: there are arguments its input
\* schema and the request builder both take, and a response its contract
\* takes.  Parameters that collide with the credential, headers no caller
\* may set and contracts nothing satisfies end the build.
ReadyCallable ==
    stage = "ready" =>
        /\ {t.key : t \in manifest.tools} = Executable(setup.doc, setup.excluded)
        /\ \A t, u \in manifest.tools : t.name = u.name => t = u
        /\ \A t \in manifest.tools :
             /\ \E args \in Arguments(t) : InputValid(t, args) /\ BuildRequest(t, args) # None
             /\ \E r \in Response : /\ r.status # "404" /\ Decoded(r) # None
                                    /\ Accepts(t.responses, r.status, r.media, Decoded(r))

\* The text of a JSON scalar in a request; null is left empty.
JsonText(part) == IF part.kind = "null" THEN <<>> ELSE part.text

\* What OpenAPI prescribes for a value, by the style of its parameter: the
\* entries deepObject and exploded forms are spread over, or the one entry
\* of the joined items; what is part of a path is percent-encoded.
Prescribed(p, v) ==
    LET style == OrElse(p.style, IF p.location = "query" THEN "form" ELSE "simple")
        explode == OrElse(p.explode, style = "form")
        separator == IF style \in {"simple", "form"} THEN ","
                     ELSE IF style = "pipeDelimited" THEN "|" ELSE " "
        inner == IF style # "simple" THEN separator ELSE IF explode THEN "=" ELSE separator
        parts == ToSet(v.items)
        Coded(text) == IF p.location = "path" THEN Encoded(text) ELSE text
        Cells(part) == IF v.kind = "object" THEN <<Coded(part.key), Coded(JsonText(part))>>
                       ELSE <<Coded(JsonText(part))>>
    IN  IF v.kind = "scalar" THEN {Entry(p.name, Coded(JsonText(v.items[1])))}
        ELSE IF style = "deepObject"
        THEN {Entry(p.name \o <<"[">> \o part.key, JsonText(part)) : part \in parts}
        ELSE IF style = "form" /\ explode
        THEN {Entry(IF v.kind = "object" THEN part.key ELSE p.name, JsonText(part)) : part \in parts}
        ELSE {Entry(p.name, JoinedOrEmpty(separator,
                                [i \in DOMAIN v.items |-> Joined(inner, Cells(v.items[i]))]))}

\* The items of a list in a path that Python writes in another way than JSON: the
\* server is sent None, True or the repr of what is nested.
PythonSpelled(p, v) ==
    p.location = "path" /\ v.kind = "array"
    /\ \E part \in ToSet(v.items) : part.kind \in {"null", "boolean", "list", "object"}

\* The parts of a body: a JSON body is the argument; a form has a field for every
\* scalar of the object, and no other, and a multipart body the content of every
\* file, the required ones at least.
BodyFaithful(op, media, v, sent) ==
    LET isFile == [part \in ToSet(v.items) |->
                     media = Multipart /\ part.key \in DOMAIN op.body.files /\ part.kind # "null"]
        Leaf(part) == IF part.kind = "list" THEN ToSet(part.inner) ELSE {part}
    IN  IF media = Json THEN sent.json = v /\ sent.fields = {} /\ sent.files = {}
        ELSE /\ \A part \in ToSet(v.items) :
                  IF isFile[part] THEN Entry(part.key, Base64[part.text]) \in sent.files
                  ELSE \A leaf \in Leaf(part) : Entry(part.key, JsonText(leaf)) \in sent.fields
             /\ \A e \in sent.fields : \E part \in ToSet(v.items) :
                  /\ ~isFile[part] /\ part.key = e.name
                  /\ \E leaf \in Leaf(part) : ~Nested(leaf) /\ e.text = JsonText(leaf)
             /\ \A e \in sent.files : \E part \in ToSet(v.items) : isFile[part] /\ part.key = e.name
             /\ media = Multipart => \A f \in DOMAIN op.body.files :
                  op.body.files[f] => \E e \in sent.files : e.name = f

\* What leaves the runtime is what the caller and the description say: each
\* argument under the name and at the place of the parameter whose field it
\* came in, in the form OpenAPI prescribes (apart from list items in a path
\* that are spelled by Python), nothing that is not an argument, the body
\* that was given, the credential exactly once and alone under its name, and
\* a server the operation may be sent to.
RequestFaithful ==
    call # None =>
        LET t == call.tool
            r == call.request
            op == setup.doc.operations[t.key]
            lines == [header |-> r.headers, query |-> r.query, path |-> r.path]
            auth == InjectionFor(t.profile)
            Due(p, v) == IF PythonSpelled(p, v) THEN ToSet(Entries(p, v)) ELSE Prescribed(p, v)
            Given(p) == LET m == CHOOSE x \in t.mappings : x.param = p
                        IN  IF m.field \in DOMAIN call.args THEN Due(p, call.args[m.field]) ELSE {}
            Sent(location) == UNION {Given(m.param) : m \in {x \in t.mappings : x.param.location = location}}
            hasBody == t.body # None /\ t.body.field \in DOMAIN call.args
            own == {Entry(<<"Accept">>, Json), Entry(<<"Content-Type">>, Json),
                    Entry(<<"Content-Type">>, Form)}
        IN  /\ r.server \in ToSet(Candidates(setup.doc, setup.routing, t.key))
            /\ \A p \in Parameters(op) :
                  Supplied(p, t.profile) \/ Given(p) \subseteq lines[p.location]
            /\ lines.path = Sent("path")
            /\ lines.query = Sent("query") \cup auth.query
            /\ lines.header \ own = (Sent("header") \ own) \cup auth.headers
            /\ IF hasBody THEN BodyFaithful(op, t.body.media, call.args[t.body.field], r.body)
               ELSE r.body = None
            /\ \A e \in auth.query : {x \in lines.query : x.name = e.name} = {e}
            /\ \A e \in auth.headers :
                  {x \in lines.header : Fold(x.name) = Fold(e.name)} = {e}

\* A result fits the output schema the tool was listed with: dispatch by
\* status and media type never accepts what the envelope excludes.  (A text
\* response without a schema may be empty, which the envelope does not say.)
EnvelopeSound ==
    reply # None /\ reply.kind = "result" =>
        \/ reply.data \in OrElse(call.tool.output, {})
        \/ /\ reply.data = Null
           /\ \E r \in ToSet(call.tool.responses) :
                r.media # None /\ r.schema = Anything /\ r.media[1] = "text"

=============================================================================
