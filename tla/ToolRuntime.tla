---------------------------- MODULE ToolRuntime ----------------------------
(***************************************************************************)
(* A tool call in the generic runtime: the arguments against the input    *)
(* schema, the request that is built from them, the credential that is    *)
(* injected, the response against the declared ones; and the harness that *)
(* probes every tool of a candidate manifest through the same code.       *)
(*                                                                         *)
(* A JSON value is [kind, items]: a scalar has one item, an array and an  *)
(* object one per element, an object's by key.  An item is [key, kind,    *)
(* text, inner]: its text is a sequence of tokens, what JSON writes for   *)
(* it and, if it is a list or an object, what Python does; a list has its *)
(* items in inner.                                                         *)
(***************************************************************************)
EXTENDS ToolCompiler

CONSTANTS
    Quote(_),   \* percent-encoding of a token
    Base64,     \* [text -> content], for the texts that are valid base64
    Empty,      \* a response without a body
    Garbled     \* a body that is no JSON

Delimited == {"form", "spaceDelimited", "pipeDelimited"}
Delimiter(style) ==
    IF style = "form" THEN "," ELSE IF style = "spaceDelimited" THEN " " ELSE "|"

-----------------------------------------------------------------------------
(* Serialization of parameters *)

Joined(delimiter, texts) ==
    FoldLeft(LAMBDA done, t : IF done = None THEN t ELSE done \o <<delimiter>> \o t, None, texts)

Entry(name, text) == [name |-> name, text |-> text]
OrElse(x, default) == IF x = None THEN default ELSE x

\* An empty array or object is the empty text once it is joined.
JoinedOrEmpty(delimiter, texts) == OrElse(Joined(delimiter, texts), <<>>)

\* The text of a scalar; null is empty.
Scalar(part) == IF part.kind = "null" THEN <<>> ELSE part.text

Nested(part) == part.kind \in {"list", "object"}
Flat(v) == \A part \in ToSet(v.items) : ~Nested(part)

Scalars(v) == [i \in DOMAIN v.items |-> Scalar(v.items[i])]

\* The texts of the items, each with its key before it in an object.
Rows(v, texts) ==
    [i \in DOMAIN v.items |->
        IF v.kind = "object" THEN <<v.items[i].key, texts[i]>> ELSE <<texts[i]>>]

JoinedRows(delimiter, within, rows) ==
    JoinedOrEmpty(delimiter, [i \in DOMAIN rows |-> Joined(within, rows[i])])

\* Query entries of a value; None if the style does not fit its kind.
QueryValues(p, v) ==
    LET style == OrElse(p.style, "form")
        spread == style = "form" /\ OrElse(p.explode, TRUE)
        delimited == style \in Delimited
        delimiter == Delimiter(style)
        Text(i) == Scalar(v.items[i])
    IN  CASE ~Flat(v) -> None
          [] Flat(v) /\ v.kind = "scalar" /\ delimited -> <<Entry(p.name, Text(1))>>
          [] Flat(v) /\ v.kind = "array" /\ spread ->
                [i \in DOMAIN v.items |-> Entry(p.name, Text(i))]
          [] Flat(v) /\ v.kind = "object" /\ spread ->
                [i \in DOMAIN v.items |-> Entry(v.items[i].key, Text(i))]
          [] Flat(v) /\ v.kind = "object" /\ style = "deepObject" ->
                [i \in DOMAIN v.items |-> Entry(p.name \o <<"[">> \o v.items[i].key, Text(i))]
          [] Flat(v) /\ v.kind # "scalar" /\ delimited /\ ~spread ->
                <<Entry(p.name, JoinedRows(delimiter, delimiter, Rows(v, Scalars(v))))>>
          [] OTHER -> None

Breaking == {"CR", "LF", "NUL"}
Breaks(text) == ToSet(text) \cap Breaking # {}

\* encode_path_value: what it refuses, and the rest percent-encoded.
Unsafe(text) == text \in {<<".">>, <<"..">>} \/ Breaks(text)
Encoded(text) == [i \in DOMAIN text |-> Quote(text[i])]
EncodedRows(rows) ==
    [i \in DOMAIN rows |-> [j \in DOMAIN rows[i] |-> Encoded(rows[i][j])]]

\* str(): the way Python writes an item.
PythonText(part) ==
    CASE part.kind = "null" -> <<"None">>
      [] part.kind = "boolean" -> IF part.text = <<"true">> THEN <<"True">> ELSE <<"False">>
      [] OTHER -> part.text

\* Comma-separated, name=value when exploded.
Simple(p, v, rows) ==
    IF v.kind = "scalar" THEN rows[1][1]
    ELSE JoinedRows(",", IF OrElse(p.explode, FALSE) THEN "=" ELSE ",", rows)

\* The items of a list are written as Python writes them, nested ones too;
\* everything else must be a scalar.
PathValue(p, v) ==
    LET python == [i \in DOMAIN v.items |-> PythonText(v.items[i])]
        rows == Rows(v, IF v.kind = "array" THEN python ELSE Scalars(v))
        refused == \/ OrElse(p.style, "simple") # "simple"
                   \/ v.kind # "array" /\ ~Flat(v)
                   \/ \E row \in ToSet(rows) : \E text \in ToSet(row) : Unsafe(text)
    IN  IF refused THEN None ELSE Simple(p, v, EncodedRows(rows))

HeaderValue(p, v) ==
    LET text == Simple(p, v, Rows(v, Scalars(v)))
    IN  IF OrElse(p.style, "simple") # "simple" \/ ~Flat(v) THEN None
        ELSE IF Breaks(text) THEN None
        ELSE text

\* One entry, unless the value is refused.
OneEntry(name, text) == IF text = None THEN None ELSE <<Entry(name, text)>>

Entries(p, v) ==
    IF p.location = "query" THEN QueryValues(p, v)
    ELSE OneEntry(p.name, IF p.location = "path" THEN PathValue(p, v) ELSE HeaderValue(p, v))

-----------------------------------------------------------------------------
(* Bodies *)

\* A list in a form is one field per item.
FormValues(part) == IF part.kind = "list" THEN ToSet(part.inner) ELSE {part}

FormFields(parts) ==
    UNION {{Entry(part.key, Scalar(leaf)) : leaf \in FormValues(part)} : part \in parts}

\* The fields of a body that are sent as files: null is no file.
Files(body, v) ==
    {part \in ToSet(v.items) : part.key \in DOMAIN body.files /\ part.kind # "null"}

\* A file that is required and missing, or is no base64.
FilesRefused(body, files) ==
    \/ \E f \in DOMAIN body.files : body.files[f] /\ f \notin {part.key : part \in files}
    \/ \E part \in files : part.kind # "text" \/ part.text \notin DOMAIN Base64

Content(json, fields, files) == [json |-> json, fields |-> fields, files |-> files]

\* JSON bodies are sent as they are; forms take objects of scalars and lists of
\* scalars.
Body(body, v) ==
    LET files == IF body.media = Multipart THEN Files(body, v) ELSE {}
        others == ToSet(v.items) \ files
        refused == \/ v.kind # "object"
                   \/ body.media = Multipart /\ FilesRefused(body, files)
                   \/ \E part \in others : \E leaf \in FormValues(part) : Nested(leaf)
    IN  IF body.media = Json THEN Content(v, {}, {})
        ELSE IF refused THEN None
        ELSE Content(None, FormFields(others), {Entry(part.key, Base64[part.text]) : part \in files})

-----------------------------------------------------------------------------
(* Building a request *)

\* Where the credential of a profile goes.
InjectionFor(profile) ==
    IF profile = None THEN [headers |-> {}, query |-> {}]
    ELSE IF profile.type = "api_key" /\ profile.location = "query"
    THEN [headers |-> {}, query |-> {Entry(profile.name, <<"secret">>)}]
    ELSE IF profile.type \in {"api_key", "static_headers"}
    THEN [headers |-> {Entry(profile.name, <<"secret">>)}, query |-> {}]
    ELSE [headers |-> {Entry(<<"Authorization">>, <<"secret">>)}, query |-> {}]

\* The credential is added whatever the caller has set.
ApplyAuth_Unchecked(headers, query, auth) ==
    [headers |-> headers \cup auth.headers, query |-> query \cup auth.query]

\* The credential is refused, and with it the call, if the caller's entries
\* have its name; header names are compared without case.
ApplyAuth(headers, query, auth) ==
    IF \/ \E e \in headers, f \in auth.headers : Fold(e.name) = Fold(f.name)
       \/ \E e \in query, f \in auth.query : e.name = f.name
    THEN None
    ELSE [headers |-> headers \cup auth.headers, query |-> query \cup auth.query]

\* The parameters that arguments are given for.
Used(t, args) == {m \in t.mappings : m.field \in DOMAIN args}

\* The entries of a place, without their order.
AllEntries(t, args, location) ==
    UNION {ToSet(Entries(m.param, args[m.field])) :
             m \in {x \in Used(t, args) : x.param.location = location}}

\* The arguments fit the tool's input schema.
InputValid(t, args) ==
    /\ t.required \subseteq DOMAIN args /\ DOMAIN args \subseteq DOMAIN t.inputs
    /\ \A f \in DOMAIN args : args[f] \in t.inputs[f]

\* build_request: None if it refuses the arguments.
BuildRequest(t, args) ==
    LET used == Used(t, args)
        hasBody == t.body # None /\ t.body.field \in DOMAIN args
        refused == \/ \E m \in used : Entries(m.param, args[m.field]) = None
                   \/ \E m \in used : m.param.location = "header"
                                      /\ Fold(m.param.name) \in ContractForbids
                   \/ hasBody /\ Body(t.body, args[t.body.field]) = None
        typed == IF hasBody /\ t.body.media # Multipart
                 THEN {Entry(<<"Content-Type">>, t.body.media)} ELSE {}
        lines == {Entry(<<"Accept">>, Json)} \cup AllEntries(t, args, "header") \cup typed
        applied == ApplyAuth(lines, AllEntries(t, args, "query"), InjectionFor(t.profile))
    IN  IF refused \/ applied = None THEN None
        ELSE [server |-> t.server, key |-> t.key, path |-> AllEntries(t, args, "path"),
              headers |-> applied.headers, query |-> applied.query,
              body |-> IF hasBody THEN Body(t.body, args[t.body.field]) ELSE None]

-----------------------------------------------------------------------------
(* Accepting a response *)

\* What the API client makes of a response; None if it cannot read it.
Decoded(response) ==
    IF response.body = Empty THEN Null
    ELSE IF response.media = Json \/ response.media \in JsonSuffixed
    THEN IF response.body = Garbled THEN None ELSE response.body
    ELSE IF response.media[1] = "text" THEN response.body
    ELSE None

Specificity(expected, actual) ==
    IF expected = actual THEN 4
    ELSE IF expected = <<"*", "*">> THEN 1
    ELSE IF expected[1] = actual[1] /\ expected[2] = "*" THEN 2
    ELSE IF expected = <<"application", "*+json">> /\ actual \in JsonSuffixed THEN 3
    ELSE -1

\* The declaration of a status that a body and its media type fall under.
SelectMedia(declared, actual, data) ==
    LET bare == {r \in declared : r.media = None}
        fitting == {r \in declared \ bare : Specificity(r.media, actual) >= 0}
    IN  IF data = Null /\ bare # {} THEN bare
        ELSE {r \in fitting : \A q \in fitting :
                Specificity(q.media, actual) <= Specificity(r.media, actual)}

\* The declarations that count for a status: its own before those of its class
\* before the default; the first that there are decide.
DeclaredFor(responses, status) ==
    LET Of(key) == {r \in ToSet(responses) : r.status = key}
    IN  IF Of(status) # {} THEN Of(status) ELSE IF Of("2XX") # {} THEN Of("2XX") ELSE Of("default")

Accepts(responses, status, media, data) ==
    LET chosen == SelectMedia(DeclaredFor(responses, status), media, data)
    IN  chosen # {} /\ \A r \in chosen : r.media = None \/ data \in r.schema

\* Two declarations of one status with one media type are not loaded.
Loadable(t) ==
    \A i, j \in DOMAIN t.responses :
        i # j => <<t.responses[i].status, t.responses[i].media>>
                 # <<t.responses[j].status, t.responses[j].media>>

-----------------------------------------------------------------------------
(* The validation harness *)

Sample(schema) == IF schema = Anything THEN Null ELSE CHOOSE v \in schema : TRUE

\* Every field that has a value at all, the optional ones too.
SampleArguments(t) == [f \in {x \in DOMAIN t.inputs : t.inputs[x] # {}} |-> Sample(t.inputs[f])]

Concrete(media) ==
    CASE media = <<"application", "*+json">> -> <<"application", "validation+json">>
      [] media[2] = "*" -> <<media[1], "json">>
      [] OTHER -> media

\* The response that is made up from a declaration.
MadeUp(r) ==
    [status |-> IF r.status \in {"2XX", "default"} THEN "200" ELSE r.status,
     media |-> IF r.media = None THEN <<"application", "octet-stream">> ELSE Concrete(r.media),
     data |-> IF r.media = None THEN Null ELSE Sample(r.schema)]

\* There is one for each declaration of a success that has a value at all.
Presentable(r) == Success(r.status) /\ (r.media # None => r.schema # {})

\* One of them is accepted.
Representative(t) ==
    \E r \in ToSet(t.responses) :
        /\ Presentable(r)
        /\ Accepts(t.responses, MadeUp(r).status, MadeUp(r).media, MadeUp(r).data)

\* The candidate is loaded and its tools listed, but none is called.
Probed_Listing(manifest) == \A t \in manifest.tools : Loadable(t)

\* inspect_runtime_candidate: the candidate loads, and a made-up call of
\* every tool is accepted, with a made-up response.
Probed(manifest) ==
    \A t \in manifest.tools :
        /\ Loadable(t)
        /\ InputValid(t, SampleArguments(t))
        /\ Representative(t)
        /\ BuildRequest(t, SampleArguments(t)) # None

=============================================================================
