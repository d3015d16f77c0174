----------------------------- MODULE IpldNodes -----------------------------
(***************************************************************************)
(* Go values as nodes of the IPLD data model, and back                     *)
(* (internal/ipldutil/node.go and assemblers.go), as the DAG-CBOR codec    *)
(* drives them.  A node stands for its encoding: two values have one cid   *)
(* exactly when they have one node.                                        *)
(*                                                                         *)
(* A type is a record with its kind; "named" is a string type with a name  *)
(* of its own.  The value of a pointer or of an any is Nil or a tuple, with*)
(* the dynamic type first for an any; that of a struct is the tuple of its *)
(* fields; that of a map a function.  Arrays, and pointers to pointers,    *)
(* are left out.                                                           *)
(***************************************************************************)
EXTENDS Integers, Sequences, SequencesExt

CONSTANTS
  Width,  \* bits of the widest integers, the data model's
  Nil,    \* nil, and the empty cid
  Bad     \* an error or a panic

Basic(kind)        == [kind |-> kind]
IntOf(bits, sign)  == [kind |-> "int", bits |-> bits, sign |-> sign]
PointerTo(t)       == [kind |-> "pointer", of |-> t]
ListOf(t)          == [kind |-> "list", of |-> t]
MapOf(t)           == [kind |-> "map", of |-> t]
StructOf(fields)   == [kind |-> "struct", fields |-> fields]
Field(name, t, omitempty) == [name |-> name, type |-> t, omitempty |-> omitempty]
AnyType == Basic("any")

\* intN(n) and uintN(n).
Wrap(n, bits, sign) ==
  IF sign THEN ((n + 2^(bits - 1)) % 2^bits) - 2^(bits - 1) ELSE n % 2^bits

RECURSIVE Zero(_)
Zero(t) ==
  CASE t.kind = "bool" -> FALSE
    [] t.kind \in {"int", "float"} -> 0
    [] t.kind \in {"string", "named"} -> ""
    [] t.kind = "struct" -> [i \in DOMAIN t.fields |-> Zero(t.fields[i].type)]
    [] OTHER -> Nil

-----------------------------------------------------------------------------
\* node.go: from a value to its node.

RECURSIVE Node(_, _), Entry(_, _), StructNode(_, _)

\* AsInt: an unsigned number above the largest int64 comes out negative.
AsInt(t, x) == Wrap(x, Width, TRUE)

\* The node of a list, or of a map, from the nodes of what is in it.
Composite(kind, parts) == IF \E i \in DOMAIN parts : parts[i] = Bad THEN Bad ELSE <<kind, parts>>

\* What buildPairs sees of a field: the value behind a pointer or an any.
Behind(f, x) ==
  CASE f.type.kind = "pointer" /\ x # Nil -> <<f.type.of, x[1]>>
    [] f.type.kind = "any" /\ x # Nil     -> x
    [] OTHER                              -> <<f.type, x>>

\* So a pointer to zero is left out as a nil is.  A nil any breaks IsZero.
LeftOut(f, x) == f.omitempty /\ Behind(f, x)[2] = Zero(Behind(f, x)[1]) /\ (f.type.kind = "any" => x # Nil)

Entry(f, x) ==
  LET b == Behind(f, x)
  IN  IF f.type.kind = "pointer" /\ x = Nil THEN <<"null">>
      ELSE IF b[1].kind = "struct" /\ f.type.kind # "any" THEN StructNode(b[1], b[2]) ELSE Node(b[1], b[2])

StructNode(t, x) ==
  LET kept == {i \in DOMAIN t.fields : ~LeftOut(t.fields[i], x[i])}
  IN  Composite("map", [name \in {t.fields[i].name : i \in kept} |->
        LET i == CHOOSE j \in kept : t.fields[j].name = name IN Entry(t.fields[i], x[i])])

\* A node's Kind, and what the codec then takes from it.  The length of a struct
\* that is not the whole value or a field counts the fields that are left out,
\* and the codec refuses that.
Node(t, x) ==
  CASE t.kind \in {"bool", "float", "string"} -> <<t.kind, x>>
    [] t.kind = "named" -> <<"string", x>>
    [] t.kind = "int" -> <<"int", AsInt(t, x)>>
    [] t.kind \in {"cid", "cidstring"} -> IF x = Nil THEN Bad ELSE <<"link", x>>
    [] t.kind = "bytes" -> IF x \in {Nil, <<>>} THEN <<"null">> ELSE <<"bytes", x>>
    [] t.kind = "list" ->
         Composite("list", IF x = Nil THEN <<>> ELSE [i \in DOMAIN x |-> Node(t.of, x[i])])
    [] t.kind = "map" ->
         Composite("map", IF x = Nil THEN <<>> ELSE
           [k \in DOMAIN x |-> IF t.of.kind = "any" THEN (IF x[k] = Nil THEN Bad ELSE Node(x[k][1], x[k][2]))
                               ELSE Node(t.of, x[k])])
    [] t.kind = "struct" ->
         IF \E i \in DOMAIN t.fields : LeftOut(t.fields[i], x[i]) THEN Bad ELSE StructNode(t, x)
    [] OTHER -> Bad

\* BuildNode of a value or of a pointer to it.
BuildNode(t, x) == IF t.kind = "struct" THEN StructNode(t, x) ELSE Node(t, x)

-----------------------------------------------------------------------------
\* assemblers.go: from a node to a value of the type, over its zero.

RECURSIVE Assemble(_, _), AssignStruct(_, _)

\* ptrGuard: what the type points to, if it does, and the value behind that.
Pointed(t) == IF t.kind = "pointer" THEN t.of ELSE t
Guarded(t, x) == IF x = Bad THEN Bad ELSE IF t.kind = "pointer" THEN <<x>> ELSE x

\* Wrong: the number goes through 2 bits.
AssignIntShort(t, n) ==
  CASE t.kind = "int" -> Wrap(Wrap(n, 2, TRUE), t.bits, t.sign)
    [] t.kind = "any" -> <<IntOf(Width, TRUE), n>>
    [] OTHER          -> Bad

AssignInt(t, n) ==
  CASE t.kind = "int" -> Wrap(n, t.bits, t.sign)
    [] t.kind = "any" -> <<IntOf(Width, TRUE), n>>
    [] OTHER          -> Bad

\* AssignBool, AssignFloat, AssignString, AssignBytes: the type itself.  An any
\* takes a string and nothing else of these.
AssignBasic(t, n) ==
  IF t.kind = n[1] THEN n[2]
  ELSE IF t.kind = "any" /\ n[1] = "string" THEN <<Basic("string"), n[2]>> ELSE Bad

\* In an any, a link becomes a map.
AssignLink(t, cid) ==
  CASE t.kind \in {"cid", "cidstring"} -> cid
    [] t.kind = "any" -> <<MapOf(AnyType), [link \in {"$link"} |-> <<Basic("cid"), cid>>]>>
    [] OTHER -> Bad

\* All the parts, or Bad.
Whole(parts) == IF \E i \in DOMAIN parts : parts[i] = Bad THEN Bad ELSE parts

\* valueStructAssembler: every key has to be that of a field.
AssignStruct(t, entries) ==
  IF DOMAIN entries \subseteq {t.fields[i].name : i \in DOMAIN t.fields}
  THEN Whole([i \in DOMAIN t.fields |->
         IF t.fields[i].name \in DOMAIN entries THEN Assemble(t.fields[i].type, entries[t.fields[i].name])
         ELSE Zero(t.fields[i].type)])
  ELSE Bad

\* BeginMap and mapAssembler: a nil map cannot be filled.
AssignMap(t, entries) ==
  CASE t.kind = "struct" -> AssignStruct(t, entries)
    [] t.kind = "map"    -> IF entries = <<>> THEN Nil ELSE Bad
    [] t.kind = "any"    ->
         LET m == Whole([k \in DOMAIN entries |-> Assemble(AnyType, entries[k])])
         IN  IF m = Bad THEN Bad ELSE <<MapOf(AnyType), m>>
    [] OTHER             -> Bad

\* BeginList and listAssembler: no pointer is followed.
AssignList(t, nodes) ==
  CASE t.kind = "list" -> Whole([i \in DOMAIN nodes |-> Assemble(t.of, nodes[i])])
    [] t.kind = "any"  ->
         LET l == Whole([i \in DOMAIN nodes |-> Assemble(AnyType, nodes[i])])
         IN  IF l = Bad THEN Bad ELSE <<ListOf(AnyType), l>>
    [] OTHER           -> Bad

Assemble(t, n) ==
  CASE n[1] = "null"   -> Zero(t)
    [] n[1] = "list"   -> AssignList(t, n[2])
    [] n[1] = "int"    -> Guarded(t, AssignInt(Pointed(t), n[2]))
    [] n[1] = "link"   -> Guarded(t, AssignLink(Pointed(t), n[2]))
    [] n[1] = "map"    -> Guarded(t, AssignMap(Pointed(t), n[2]))
    [] OTHER           -> Guarded(t, AssignBasic(Pointed(t), n))

-----------------------------------------------------------------------------
\* Properties.

RECURSIVE Plain(_), Lossy(_, _)

\* Types without any, maps, and names of their own; lists behind no pointer.
Plain(t) ==
  CASE t.kind = "struct"  -> \A i \in DOMAIN t.fields : Plain(t.fields[i].type)
    [] t.kind = "list"    -> Plain(t.of)
    [] t.kind = "pointer" -> t.of.kind # "list" /\ Plain(t.of)
    [] OTHER              -> t.kind \notin {"any", "map", "named"}

\* What no reader tells from something else: a link where the type says any, which
\* is read as a map, and empty bytes in a field with omitempty, which are written
\* as null and read as nil.
Lossy(t, n) ==
  CASE t.kind = "any"     -> n[1] = "link" \/ (n[1] \in {"map", "list"} /\ \E k \in DOMAIN n[2] : Lossy(t, n[2][k]))
    [] t.kind = "pointer" -> Lossy(t.of, n)
    [] t.kind = "struct" /\ n[1] = "map" ->
         \E f \in ToSet(t.fields) :
           f.name \in DOMAIN n[2] /\ ((n[2][f.name] = <<"null">> /\ f.omitempty) \/ Lossy(f.type, n[2][f.name]))
    [] t.kind \in {"list", "map"} /\ n[1] # "null" -> \E k \in DOMAIN n[2] : Lossy(t.of, n[2][k])
    [] OTHER -> FALSE

\* What was read has the cid of what was written, unless it is lossy: a value of a
\* plain type that has a node is read back and has the same node, and a value of
\* any type that is read back has the same node or none (BuildNode, node.go, and
\* NodeAssembler, assemblers.go).
CidIsKept(t, x) ==
  LET n == BuildNode(t, x)
      y == IF n = Bad THEN Bad ELSE Assemble(t, n)
  IN  n # Bad =>
        /\ Plain(t) => y # Bad
        /\ y # Bad /\ ~Lossy(t, n) => BuildNode(t, y) \in (IF Plain(t) THEN {n} ELSE {n, Bad})
=============================================================================
