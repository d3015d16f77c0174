------------------------------ MODULE LexImports ------------------------------
(***************************************************************************)
(* The import lists of the Go files that lexgen writes.  A file is written  *)
(* in two passes that know nothing of each other: NewGenerator walks the    *)
(* definitions of a schema and collects imports, GenTypes prints code that  *)
(* names packages.  Go refuses a file that names a package it does not      *)
(* import or imports one it does not name, and nothing formats the output.  *)
(* The client files, GenClients, have a collector of their own.             *)
(*                                                                         *)
(* A definition is a record like lex.TypeSchema; the fields that hold other *)
(* definitions are sets of them.  A package is its last name, and the       *)
(* package a reference leads to is "" if it is the file's own.  Two types   *)
(* of one name, of which the code prints the first, are left out.           *)
(***************************************************************************)
EXTENDS FiniteSets

Def(type) ==
  [type |-> type, format |-> "", ref |-> "", refs |-> {}, properties |-> {}, items |-> {},
   parameters |-> {}, input |-> {}, output |-> {}, message |-> {}, record |-> {}]

RPC == {"query", "procedure", "subscription"}
Archive == "application/vnd.ipld.car"
Raw == {"*/*", "video/mp4", Archive}
JSON == "application/json"

\* Bodies of one of the encodings, and the schemas of bodies.
Encoded(bodies, encodings) == {b \in bodies : b.encoding \in encodings} # {}
Schemas(bodies) == UNION {b.schema : b \in bodies}

\* isAtProtoFormat, which is FormatToType without cids.
AtFormats == {"at-identifier", "at-uri", "handle", "record-key", "did", "nsid", "tid", "language"}

If(condition, packages) == IF condition THEN packages ELSE {}

-----------------------------------------------------------------------------
\* What the walk meets, traverse.
Parts(def) ==
  def.properties \cup def.items \cup def.parameters \cup def.message \cup def.record
    \cup Schemas(def.input \cup def.output)
RECURSIVE Met(_)
Met(def) == {def} \cup UNION {Met(part) : part \in Parts(def)}
Visited(file) == UNION {Met(def) : def \in file}

ShouldImportStrconv(def) ==
  \E params \in def.parameters : \E p \in params.properties : p.type \in {"boolean", "integer"}

\* The bodies that make an RPC import io and json.  Wrong: only what comes in.
CarriedIn(def) == def.input
Carried(def) == def.input \cup def.output

RpcImports(def) ==
  {"context", "slog", "http", "xrpc"}
    \cup If(Encoded(Carried(def), Raw), {"io"})
    \cup If(Encoded(Carried(def), {JSON}), {"json"})
    \cup If(def.message # {}, {"websocket", "iter"})

ImportsOf(def) ==
  UNION {
    If(ShouldImportStrconv(def), {"strconv"}),
    If(def.format \in AtFormats, {"syntax"}),
    If(def.parameters # {}, {"url"}),
    If(def.type = "procedure" /\ Schemas({b \in def.input : b.encoding = JSON}) # {}, {"json"}),
    If(def.type = "string" /\ def.format = "cid", {"cid"}),
    If(def.type \in {"blob", "bytes", "cid-link"}, {"util"}),
    If(def.type = "cid-link", {"cid"}),
    If(def.type \in RPC, RpcImports(def)),
    If(def.type = "ref", {def.ref}),
    If(def.type = "union", {"json", "cbor", "errors"} \cup def.refs)}

\* The import list of a file.
Imports(file) == UNION {ImportsOf(def) : def \in Visited(file)} \ {""}

-----------------------------------------------------------------------------
\* The packages in the name of a type, typeName; an inline object is an any.
RECURSIVE TypeName(_)
TypeName(def) ==
  CASE def.type = "string" -> If(def.format \in AtFormats, {"syntax"}) \cup If(def.format = "cid", {"cid"})
    [] def.type = "array" -> UNION {TypeName(item) : item \in def.items}
    [] def.type = "ref" -> {def.ref}
    [] def.type \in {"blob", "bytes"} -> {"util"}
    [] def.type = "cid-link" -> {"cid"}
    [] OTHER -> {}

\* genStruct.
Struct(def) == UNION {TypeName(p) : p \in def.properties}

\* fromQuery and toQuery: a missing parameter is an xrpc error, and a parser lives
\* in the package of its type.
Query(params) ==
  {"url"}
    \cup UNION {If(p.type \in {"integer", "boolean"}, {"strconv", "xrpc"}) : p \in params.properties}
    \cup UNION {TypeName(p) : p \in params.properties}

\* The interface, the handler type, ServeHTTP and Apply of an RPC.  ServeHTTP reads
\* either the parameters or the body, and answers with either messages or a body.
Handler(def) ==
  UNION {
    {"context", "slog", "http", "xrpc"},
    If(Encoded(def.output, Raw), {"io"}),
    If(def.output = {} /\ def.type = "subscription", If(def.message # {}, {"iter"}) \cup UNION {TypeName(m) : m \in def.message}),
    If(def.type = "procedure" /\ def.input # {} /\ Schemas(def.input) = {}, {"io"}),
    If(def.parameters = {} /\ Encoded(def.input, {JSON}), {"json"}),
    If(def.message # {}, {"websocket"}),
    If(def.message = {} /\ Encoded(def.output, {JSON}), {"json"})}

\* The methods of a union read and write JSON and CBOR, and fail if it is empty.
UnionMethods == {"json", "cbor", "errors"}

\* A definition that is printed, GenTypes.
Printed(def) ==
  CASE def.type = "array" -> TypeName(def)
    [] def.type = "params" -> Struct(def) \cup Query(def)
    [] def.type = "object" -> Struct(def)
    [] def.type = "record" -> UNION {Struct(r) : r \in def.record}
    [] def.type = "ref" -> {def.ref}
    [] def.type = "union" -> UnionMethods \cup def.refs
    [] def.type \in RPC -> Handler(def)
    [] OTHER -> {}

\* What NewGenerator lifts out of the definitions it meets: they are printed too.
Lifted(def) ==
  Schemas(def.input \cup def.output) \cup def.parameters \cup def.message
    \cup {d \in Parts(def) : d.type = "union"}

\* The packages that the file names; the type of a raw answer is an io.ReadCloser.
Uses(file) ==
  LET RawAnswer(def) == \E b \in def.output : b.schema = {} /\ b.encoding \in Raw IN
  (UNION {Printed(def) : def \in file \cup UNION {Lifted(d) : d \in Visited(file)}}
    \cup If(\E def \in Visited(file) : RawAnswer(def), {"io"})) \ {""}

-----------------------------------------------------------------------------
\* The bodies a method sends and the bodies it gets.
Sent(def) == IF def.type = "procedure" THEN def.input ELSE {}
Got(def) == IF def.type = "subscription" THEN {} ELSE def.output

\* addClientImports.
ClientImports(def) ==
  {"context", "xrpc", "errors"}
    \cup (IF def.type = "subscription" THEN {"iter"} ELSE {"url"})
    \cup If(Sent(def) # {}, {"bytes"})
    \cup If(Encoded(Sent(def) \cup Got(def), {JSON}), {"json"})
    \cup If(Encoded(Got(def), {Archive}) \/ Encoded(Sent(def), {Archive, "video/mp4"}), {"io"})

\* The signature of a method, genHandlerFunctionDefinition.
Signature(def) ==
  {"context"}
    \cup If(Encoded(def.output, Raw), {"io"})
    \cup If(def.output = {} /\ def.type = "subscription" /\ def.message # {}, {"iter"} \cup UNION {TypeName(m) : m \in def.message})
    \cup If(def.type = "procedure" /\ def.input # {} /\ Schemas(def.input) = {}, {"io"})

\* A method, GenClients: a query for the parameters, the body that is sent, the
\* answer that is read.
Method(def) ==
  Signature(def) \cup {"url"}
    \cup If(def.parameters # {}, {"errors"})
    \cup If(def.type = "subscription", {"errors"})
    \cup If(def.type = "procedure" /\ def.input # {}, {"bytes", "errors"})
    \cup If(def.type = "procedure" /\ Encoded(def.input, {JSON}), {"json"})
    \cup If(def.type = "procedure" /\ Encoded(def.input, Raw), {"io"})
    \cup If(def.type # "subscription" /\ Encoded(def.output, {JSON}), {"json", "errors"})

ClientUses(group) == ({"xrpc"} \cup UNION {Method(def) : def \in group}) \ {""}

-----------------------------------------------------------------------------
\* Properties.

\* The lexicons that the generator is good for.  An object inside another one is
\* walked but not printed; so is the format of a string that has a name.  A link to
\* a cid needs another use of the package util.
Regular(file) ==
  LET all == Visited(file) IN
  /\ \A def \in all : \A part \in def.properties \cup def.items : part.type # "object"
  /\ \A def \in file : def.type \notin {"blob", "bytes", "cid-link"} /\ (def.type = "string" => def.format = "")
  /\ (\E def \in all : def.type = "cid-link") => \E def \in all : def.type \in {"blob", "bytes"}
  /\ \A def \in all : \A body \in def.input \cup def.output : (body.encoding = JSON) = (body.schema # {})
  /\ \A def \in all :
       /\ def.type # "procedure" => def.input = {}
       /\ (def.parameters # {}) => (def.input = {})
       /\ (def.type = "subscription") = (def.message # {})
       /\ def.message # {} => def.output = {}
       /\ def.type = "params" =>
            \A p \in def.properties : \A item \in p.items : item.type = "string"

\* A file imports the packages that it names, and no others (NewGenerator, GenTypes).
FileImportsAreUsed(file) == Regular(file) => Imports(file) = Uses(file)

\* The groups of RPCs that the client generator is good for: some method returns an
\* error of its own, and raw bodies other than archives, and subscriptions, whose
\* messages are of the client's package, are never alone.
RegularGroup(group) ==
  /\ Regular(group)
  /\ \A def \in group : def.type \in RPC
  /\ "errors" \in ClientUses(group)
  /\ (\E def \in group : Encoded(def.output, Raw) \/ Encoded(def.input, {"*/*"})) 
       => \E def \in group : Encoded(def.input \cup def.output, {Archive})
  /\ (\E def \in group : def.type = "subscription") => \E def \in group : def.type # "subscription"
  /\ \A def \in group : \A m \in def.message : TypeName(m) \subseteq {""}

\* A client file imports the packages that it names, and no others
\* (addClientImports, GenClients).
ClientImportsAreUsed(group) ==
  RegularGroup(group) => UNION {ClientImports(def) : def \in group} = ClientUses(group)
===============================================================================
