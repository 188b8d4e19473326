--------------------------- MODULE MCToolContract ---------------------------
(* Families of small projects, each about one part of the chain. *)
EXTENDS ToolContract, TLC

CONSTANTS north, south, west

\* Values: texts that a path must encode or that it refuses, items that Python writes in
\* another way than JSON, values inside values.
V(kind, items) == [kind |-> kind, items |-> items]
Piece(kind, text) == [key |-> <<>>, kind |-> kind, text |-> text, inner |-> <<>>]
Word(text) == Piece("text", text)
Field(key, item) == [item EXCEPT !.key = key]
Both == <<Word(<<"x">>), Word(<<"y">>)>>
Inside == [Piece("list", <<"repr">>) EXCEPT !.inner = Both]
NullValue == V("scalar", <<Piece("null", <<>>)>>)
flag == V("scalar", <<Piece("boolean", <<"true">>)>>)
x == V("scalar", <<Word(<<"x">>)>>)
comma == V("scalar", <<Word(<<"x", ",">>)>>)
dots == V("scalar", <<Word(<<"..">>)>>)
broken == V("scalar", <<Word(<<"x", "LF">>)>>)
list == V("array", Both)
none == V("array", <<>>)
flags == V("array", <<Piece("boolean", <<"true">>), Piece("null", <<>>)>>)
lists == V("array", <<Inside, Word(<<"x", ",">>)>>)
object == V("object", <<Field(<<"key">>, Word(<<"x">>))>>)
blob == V("object", <<Field(<<"id">>, Word(<<"?">>)), Field(<<"key">>, Word(<<"x">>))>>)
absent == V("object", <<Field(<<"id">>, Piece("boolean", <<"false">>)), Field(<<"key">>, Piece("null", <<>>))>>)
repeated == V("object", <<Field(<<"id">>, Inside)>>)
deep == V("object", <<Field(<<"key">>, Piece("object", <<"repr">>))>>)
TextValues == {x, comma, dots, broken}
Values == TextValues \cup {NullValue, flag, list, none, flags, lists, object, blob, absent, repeated, deep}
Base64Texts == [t \in {<<"x">>} |-> <<"content">>]
Quoted(token) == IF token = "," THEN "%2C" ELSE token

\* Names
HeaderNames == {<<"X-Key">>, <<"Authorization">>, <<"Content-Type">>}
Folded(n) == CASE n = <<"X-Key">> -> <<"x-key">>
               [] n = <<"Authorization">> -> <<"authorization">>
               [] n = <<"Content-Type">> -> <<"content-type">>
               [] n = <<"Accept">> -> <<"accept">>
               [] OTHER -> n
Ranked == <<<<"authorization">>, <<"body">>, <<"content-type">>, <<"id">>, <<"key">>, <<"list">>,
            <<"list", "h1">>, <<"query", "id">>, <<"session">>, <<"x-key">>>>
Ranks == [n \in ToSet(Ranked) |-> CHOOSE i \in DOMAIN Ranked : Ranked[i] = n]
HashOf(k) == <<"h1", "h2", "h3">>[k]
Hosts == [s \in {north, south, west} |-> [name |-> s, dotted |-> s = west]]

One(k, v) == [i \in {k} |-> v]
Declared(status, media, schema) == [status |-> status, media |-> media, schema |-> schema]
Ok == Declared("200", Json, Anything)
Plain == [seed |-> <<"list">>, path |-> {}, servers |-> <<>>, inherited |-> {}, params |-> {},
          body |-> None, responses |-> <<Ok>>, security |-> <<>>]
Doc(format, servers, schemes, operations) ==
    [format |-> format, servers |-> servers, schemes |-> schemes, operations |-> operations]
NoSchemes == [n \in {} |-> None]
Case(doc, routing, credentials, excluded) ==
    [doc |-> doc, routing |-> routing, credentials |-> credentials, excluded |-> excluded]
Direct == [base |-> None, active |-> None, mapping |-> <<>>]

\* Routing: lists of servers at both levels against every kind of setting.
RoutingCases ==
    {Case(Doc(format, roots, NoSchemes, <<[Plain EXCEPT !.servers = own], Plain>>),
          [base |-> base, active |-> active, mapping |-> mapping], {}, {}) :
        format \in {"openapi", "inventory"},
        roots \in {<<>>, <<north>>, <<north, south>>},
        own \in {<<>>, <<south>>, <<south, west>>, <<south, north>>},
        base \in {None, west}, active \in {None, north, south},
        mapping \in {<<>>, One(1, north), One(1, south), One(3, north)}}
Routings == {c \in RoutingCases :
    c.doc.format = "inventory" =>
        LET own == c.doc.operations[1].servers
        IN  Len(own) <= 1 /\ ToSet(own) \subseteq ToSet(c.doc.servers)}

\* Security: alternatives of one or two schemes, credentials that are bound,
\* unbound, doubled or revoked.
Scheme(type, location, name, scopes) ==
    [type |-> type, location |-> location, name |-> name, scopes |-> scopes]
Schemes == [n \in {<<"b">>, <<"k">>, <<"o">>, <<"c">>} |->
    CASE n = <<"b">> -> Scheme("http_bearer", None, None, {})
      [] n = <<"k">> -> Scheme("api_key", "header", <<"X-Key">>, {})
      [] n = <<"c">> -> Scheme("api_key", "cookie", <<"key">>, {})
      [] OTHER -> Scheme("oauth2_client_credentials", None, None, {"read"})]
Credential(id, type, scheme, name, scopes, revoked) ==
    [id |-> id, type |-> type, scheme |-> scheme, name |-> name, scopes |-> scopes, revoked |-> revoked]
Credentials ==
    {Credential(1, "bearer", <<"b">>, None, {}, FALSE), Credential(2, "bearer", None, None, {}, FALSE),
     Credential(3, "bearer", None, None, {}, TRUE), Credential(4, "api_key_header", <<"k">>, <<"X-Key">>, {}, FALSE),
     Credential(5, "oauth2_client_credentials", <<"o">>, None, {"read"}, FALSE),
     Credential(6, "api_key_header", <<"k">>, <<"key">>, {}, FALSE)}
Alternatives ==
    {<<One(<<"b">>, {})>>, <<One(<<"k">>, {}), One(<<"b">>, {})>>, <<One(<<"o">>, {"admin"}), One(<<"o">>, {"read"})>>,
     <<One(<<"b">>, {}), NoSchemes>>, <<One(<<"c">>, {}), One(<<"o">>, {})>>,
     <<[n \in {<<"b">>, <<"k">>} |-> {}], One(<<"b">>, {})>>}
Securities ==
    {Case(Doc("openapi", <<north>>, Schemes, <<[Plain EXCEPT !.security = s], Plain>>), Direct, c, e) :
        s \in Alternatives, c \in SUBSET Credentials, e \in {{}, {1}}}

\* Parameters: names that meet in one tool, headers no caller may set, styles,
\* a credential with the name of a parameter.
Param(location, name, required, schema, style) ==
    [name |-> name, location |-> location, required |-> required, schema |-> schema, style |-> style,
     explode |-> None, described |-> FALSE, reserved |-> FALSE]
Params ==
    {Param("path", <<"id">>, TRUE, {x}, None), Param("query", <<"id">>, FALSE, {x, list}, None),
     Param("query", <<"query", "id">>, TRUE, {x, object, deep}, None), Param("query", <<"key">>, FALSE, {x}, "pipeDelimited"),
     Param("query", <<"body">>, FALSE, {object}, None), Param("header", <<"X-Key">>, TRUE, {x, list}, None),
     Param("header", <<"Authorization">>, FALSE, {x}, None), Param("header", <<"Content-Type">>, FALSE, {x}, None),
     [Param("query", <<"session">>, FALSE, {object, list}, "deepObject") EXCEPT !.described = TRUE],
     Param("cookie", <<"session">>, FALSE, {x}, None), Param("header", <<"session">>, FALSE, Unsupported, None)}
Bodies == {None, [required |-> TRUE, content |-> [m \in {Form, Multipart} |-> {x, object}], files |-> One(<<"key">>, TRUE)],
           [required |-> FALSE, content |-> One(Multipart, {object, blob}), files |-> One(<<"key">>, TRUE) @@ One(<<"id">>, FALSE)]}
KeySchemes == [n \in {<<"h">>, <<"q">>} |->
                 Scheme("api_key", IF n = <<"h">> THEN "header" ELSE "query", IF n = <<"h">> THEN <<"X-Key">> ELSE <<"key">>, {})]
KeyCredentials == {Credential(1, "api_key_header", None, <<"X-Key">>, {}, FALSE),
                   Credential(2, "api_key_query", None, <<"key">>, {}, FALSE)}
ParamCases ==
    {Case(Doc("openapi", <<north>>, KeySchemes,
              <<[Plain EXCEPT !.params = pb[1], !.body = pb[2], !.security = s,
                              !.inherited = {Param("query", <<"id">>, TRUE, {x}, None)},
                              !.path = {p.name : p \in {y \in pb[1] : y.location = "path"}}]>>),
          Direct, KeyCredentials, {}) :
        pb \in (kSubset(3, Params) \X {None}) \cup ((UNION {kSubset(k, Params) : k \in 0..2}) \X Bodies),
        s \in {<<>>, <<One(<<"h">>, {})>>, <<One(<<"q">>, {})>>}}

\* Values: every value, beside a text, in every place, style and body.
Styles == [path |-> {None}, header |-> {None, "simple"},
           query |-> {None, "form", "spaceDelimited", "pipeDelimited", "deepObject"}]
Placed ==
    UNION {{[Param(l, <<"id">>, TRUE, {x, v}, s) EXCEPT !.explode = e] :
               s \in Styles[l], e \in {None, TRUE, FALSE}, v \in Values} : l \in DOMAIN Styles}
ValueCases ==
    {Case(Doc("openapi", <<north>>, NoSchemes,
              <<[Plain EXCEPT !.params = {p}, !.path = IF p.location = "path" THEN {p.name} ELSE {}]>>),
          Direct, {}, {}) : p \in Placed}
    \cup {Case(Doc("openapi", <<north>>, NoSchemes,
                   <<[Plain EXCEPT !.body = [required |-> FALSE, content |-> One(m, {object, v}), files |-> f]]>>),
               Direct, {}, {}) :
             m \in {Json, Form, Multipart}, v \in Values, f \in {<<>>, One(<<"key">>, TRUE), One(<<"key">>, FALSE)}}

\* Responses: every pair of declarations, and some media types no tool takes.
Text == <<"text", "plain">>
AnyText == <<"text", "*">>
Vendor == <<"application", "*+json">>
Declarations ==
    {Ok, Declared("200", Json, {object}), Declared("200", None, Anything), Declared("2XX", Vendor, {object, list}),
     Declared("default", Json, {list}), Declared("201", Text, Anything), Declared("201", AnyText, {x}),
     Declared("404", Json, {x}), Declared("200", <<"image", "png">>, Anything), Declared("2XX", Json, {})}
ResponseCases ==
    {Case(Doc("openapi", <<north>>, NoSchemes, <<[Plain EXCEPT !.responses = SetToSeq(ds)]>>), Direct, {}, {}) :
        ds \in UNION {kSubset(k, Declarations) : k \in 0..3}}
Responses ==
    {[status |-> s, media |-> m, body |-> b] : s \in {"200", "201"}, m \in {Json, <<"application", "problem+json">>},
                                               b \in {Empty, Garbled, NullValue, x, list, object}}
    \cup {[status |-> "201", media |-> Text, body |-> b] : b \in {Empty, x}}
    \cup {[status |-> "200", media |-> <<"image", "png">>, body |-> b] : b \in {Empty, x}}
    \cup {[status |-> "200", media |-> <<"application", "validation+json">>, body |-> b] : b \in {list, object}}
    \cup {[status |-> "200", media |-> <<"application", "octet-stream">>, body |-> Empty],
          [status |-> "201", media |-> <<"text", "json">>, body |-> x]}
    \cup {[status |-> "404", media |-> Json, body |-> x]}

\* Names: seeds that coincide, one that looks like a name with a digest, and
\* exclusions of operations that exist or not.
NameCases ==
    {Case(Doc("openapi", <<r>>, NoSchemes, [k \in 1..3 |-> [Plain EXCEPT !.seed = seeds[k]]]), Direct, {}, e) :
        seeds \in [1..3 -> {<<"list">>, <<"list", "h1">>}], e \in SUBSET (1..4), r \in {north, west}}

Projects == Routings \cup Securities \cup ParamCases \cup ValueCases \cup ResponseCases \cup NameCases
=============================================================================
