---------------------------- MODULE MCAlgorithms ----------------------------
(***************************************************************************)
(* Model checking of the parts of the program that run alone: LinkedList,  *)
(* with its refinement of OrderedList, PreparedWrites and the functions of *)
(* CommitCodec, QueryParams and XrpcErrors, as Encodings has them, and of  *)
(* IpldNodes and LexImports, which are functions too.                      *)
(*                                                                         *)
(* Four elements: a list of two can be appended to itself, and an element  *)
(* be moved over two others while another list is in use.  Integers have 4 *)
(* bits in commits and 3 in nodes: enough for both signs and for values    *)
(* that only some widths hold.                                             *)
(***************************************************************************)
EXTENDS LinkedList, Encodings, TLC

CONSTANTS c1, c2, u1, u2, r1, r2

Nodes   == INSTANCE IpldNodes WITH Width <- 3, Bad <- Odd
Lex     == INSTANCE LexImports

\* A record is its own cid; the cid of no record is none.
MCCidOf(record) == record

\* Every parser refuses one text.
MCParses(format, text) == text # "odd"

MCLong == "long"

-----------------------------------------------------------------------------
\* Commits, with a version of every width and texts and links that cannot be
\* encoded, and a field that the decoder does not know.
SomeCommit ==
  [did : {"did", Overlong}, rev : {"", "rev", Overlong}, data : {c1, NoValue},
   prev : {c2, NoValue}, version : -8..7]
CommitInputs ==
  SomeCommit \X {"note", "a longer name"} \X {Commits!Null, Commits!Link(c1)}

-----------------------------------------------------------------------------
\* Types, of the kinds that the repository's structs have, and values of them.
Small == Nodes!IntOf(2, TRUE)
Wide  == Nodes!IntOf(3, FALSE)
Leaf  ==
  {Nodes!Basic(k) : k \in {"bool", "float", "string", "named", "cid", "cidstring", "bytes"}}
    \cup {Small, Wide, Nodes!IntOf(3, TRUE)}
Inner ==
  Nodes!StructOf(<<Nodes!Field("p", Nodes!PointerTo(Small), TRUE), Nodes!Field("c", Nodes!Basic("cid"), FALSE)>>)
Few   == {Small, Nodes!Basic("bytes"), Nodes!Basic("cid"), Inner, Nodes!AnyType}
Around(t) ==
  {t, Nodes!ListOf(t)} \cup (IF t.kind = "any" THEN {} ELSE {Nodes!PointerTo(t)})
Types ==
  Leaf \cup Few
    \cup {Nodes!StructOf(<<Nodes!Field("f", u, o)>>) : u \in UNION {Around(t) : t \in Leaf \cup Few}, o \in BOOLEAN}
    \cup {Nodes!MapOf(t) : t \in Few}
    \cup {Nodes!StructOf(<<Nodes!Field("f", Nodes!MapOf(t), FALSE), Nodes!Field("g", Nodes!AnyType, TRUE)>>)
            : t \in {Wide, Nodes!AnyType}}

\* What an any may hold.
Dynamic ==
  {Small, Wide, Nodes!Basic("string"), Nodes!Basic("cid"), Nodes!Basic("bool"), Nodes!ListOf(Small),
   Nodes!StructOf(<<Nodes!Field("n", Wide, TRUE)>>)}

RECURSIVE ValuesOf(_)
ValuesOf(t) ==
  CASE t.kind = "bool" -> BOOLEAN
    [] t.kind = "float" -> {0, 1}
    [] t.kind \in {"string", "named"} -> {"", "s"}
    [] t.kind = "int" -> IF t.sign THEN -2^(t.bits - 1)..(2^(t.bits - 1) - 1) ELSE 0..(2^t.bits - 1)
    [] t.kind \in {"cid", "cidstring"} -> {Nil, c1}
    [] t.kind = "bytes" -> {Nil, <<>>, <<7>>}
    [] t.kind = "pointer" -> {Nil} \cup {<<x>> : x \in ValuesOf(t.of)}
    [] t.kind = "list" -> {Nil, <<>>} \cup {<<x>> : x \in ValuesOf(t.of)} \cup {<<x, x>> : x \in ValuesOf(t.of)}
    [] t.kind = "map" -> {Nil, <<>>} \cup {[k \in {"k"} |-> x] : x \in ValuesOf(t.of)}
    [] t.kind = "any" -> {Nil} \cup UNION {{<<d, x>> : x \in ValuesOf(d)} : d \in Dynamic}
    [] Len(t.fields) = 1 -> {<<x>> : x \in ValuesOf(t.fields[1].type)}
    [] OTHER -> {<<x, y>> : x \in ValuesOf(t.fields[1].type), y \in ValuesOf(t.fields[2].type)}

NodeInputs == UNION {{<<t, x>> : x \in ValuesOf(t)} : t \in Types}

-----------------------------------------------------------------------------
\* Parameters of an RPC with texts that their formats take and refuse.
Formats == {"", "datetime", "handle", "cid"}
Bounds  == {Nil, 1}
Parameters ==
  [type : {"string"}, format : Formats, required : BOOLEAN, maxLength : Bounds]
      \X {Nil, "", "ok", "odd", "long"}
    \cup [type : {"integer"}, required : BOOLEAN, maximum : Bounds, minimum : Bounds] \X ({Nil} \cup 0..2)
    \cup [type : {"boolean"}, required : BOOLEAN] \X {Nil, TRUE, FALSE}
    \cup [type : {"array"}, required : BOOLEAN, items : [type : {"string", "integer"}, format : Formats] \cup {Nil}]
           \X {Nil, <<>>, <<"ok">>, <<"odd">>, <<"ok", "">>, <<"ok", "odd">>}

QueryInputs == {x \in Parameters : x[2] \in Query!FieldValues(x[1])}

-----------------------------------------------------------------------------
\* Answers to failed RPCs.  An error has up to two responses in it; their codes are
\* those of the package, one of a lexicon, or none, their statuses none, exact ones,
\* others, and one that no answer can have.
Codes     == (DOMAIN Errors!StatusTable \ {"Success"}) \cup {"InvalidResponse", "AccountTakedown", ""}
Responses == {Errors!Response(code, message, status) :
                code \in Codes, message \in {"", "said"}, status \in {0, 401, 404, 418, 501, 599, 600}}
Errs ==
  {<<Errors!Plain>>, <<Errors!Wrapping, Errors!Plain>>}
    \cup UNION {{<<e>>, <<Errors!Wrapping, e>>, Errors!Wrap(e, <<Errors!Plain>>),
                 Errors!Wrap(e, <<Errors!Wrapping, Errors!Response("RepoNotFound", "", 0)>>)} : e \in Responses}

-----------------------------------------------------------------------------
\* Schema files of one or two definitions.
String(format)         == [Lex!Def("string") EXCEPT !.format = format]
Ref(package)           == [Lex!Def("ref") EXCEPT !.ref = package]
Union(packages)        == [Lex!Def("union") EXCEPT !.refs = packages]
Array(item)            == [Lex!Def("array") EXCEPT !.items = {item}]
RecordOf(object)       == [Lex!Def("record") EXCEPT !.record = {object}]
With(type, properties) == [Lex!Def(type) EXCEPT !.properties = properties]
Body(encoding, schema) == [encoding |-> encoding, schema |-> schema]

Single ==
  {Lex!Def(type) : type \in {"integer", "unknown", "blob", "bytes", "cid-link"}}
    \cup {String(""), String("datetime"), String("handle"), String("cid"), Ref(""), Ref("bsky"), Union({"", "bsky"})}
Objects ==
  {With("object", {p}) : p \in Single \cup {Array(item) : item \in Single}}
    \cup {With("object", {Lex!Def("cid-link"), p, Array(String("tid"))}) : p \in Single}
    \cup {With("object", {With("object", {Ref("bsky")})}), With("object", {})}
Params ==
  {{}, {With("params", {})}}
    \cup {{With("params", {p})} : p \in {Lex!Def("integer"), Lex!Def("boolean"), String(""), String("did"),
                                         String("cid"), Array(String("did"))}}
Bodies ==
  {{}} \cup {{Body(e, {})} : e \in Lex!Raw}
    \cup {{Body(Lex!JSON, {s})} : s \in {Ref(""), Ref("bsky"), With("object", {String("handle"), Lex!Def("blob")}),
                                         With("object", {Array(Union({"bsky"}))})}}
Queries       == {[Lex!Def("query") EXCEPT !.parameters = p, !.output = b] : p \in Params, b \in Bodies}
Procedures    == {[Lex!Def("procedure") EXCEPT !.input = a, !.output = b] : a, b \in Bodies}
Subscriptions == {[Lex!Def("subscription") EXCEPT !.parameters = p, !.message = {m}]
                    : p \in Params, m \in {Ref(""), Ref("bsky"), Union({"", "bsky"})}}
Named         == {Lex!Def("token"), String(""), String("tid"), Array(Ref("bsky"))}

LexInputs ==
  {{d} : d \in Objects \cup Queries \cup Procedures \cup Subscriptions \cup Named}
    \cup {{RecordOf(o), n} : o \in Objects, n \in Named \cup {Ref("bsky"), Union({"bsky"})}}
    \cup {{o, q} : o \in {With("object", {Ref("bsky")}), Union({})}, q \in Queries \cup Procedures \cup Subscriptions}
    \cup {{q, p} : q \in Queries \cup Subscriptions, p \in Procedures}

-----------------------------------------------------------------------------
MCInit ==
  /\ Init
  /\ Writes!Init
  /\ given = NoValue
  /\ subject \in {"lists", "writes", "commits", "nodes", "query", "errors", "lexicons"}

ListStep == subject = "lists" /\ Next /\ UNCHANGED <<write, given, subject>>
PickMore ==
  /\ given = NoValue
  /\ \/ subject = "nodes" /\ given' \in NodeInputs
     \/ subject = "lexicons" /\ given' \in LexInputs
  /\ UNCHANGED <<vars, write, subject>>

MCNext ==
  \/ ListStep
  \/ EncodingsNext /\ UNCHANGED vars
  \/ PickMore
MCSpec == MCInit /\ [][MCNext]_<<vars, write, given, subject>>

Symmetry == Permutations(List) \cup Permutations(Elem) \cup Permutations(Value)

-----------------------------------------------------------------------------
\* A value read back from its node has the node of the value, so that its cid is the
\* same (BuildNode, node.go, and the assemblers).
CidIsKept == Given("nodes") => Nodes!CidIsKept(given[1], given[2])

\* A generated file imports what it names, and so does a generated client
\* (NewGenerator, GenTypes and GenClients, generator.go, and addClientImports,
\* imports.go).
ImportsAreUsed ==
  Given("lexicons") => Lex!FileImportsAreUsed(given) /\ Lex!ClientImportsAreUsed(given)
=============================================================================
