----------------------------- MODULE QueryParams -----------------------------
(***************************************************************************)
(* The code that lexgen writes for the parameters of an RPC                *)
(* (lexgen/generator.go): the client puts them into a query, toQuery, and  *)
(* the server takes them out, fromQuery.                                   *)
(*                                                                         *)
(* A property of the lexicon is [type, format, required, maximum, minimum, *)
(* maxLength, items]; the parameters have one field for each.  A text of a *)
(* query is a string, or the number or the boolean it is the text of.      *)
(*                                                                         *)
(* Some properties make code that does not compile: see Compiles.          *)
(***************************************************************************)
EXTENDS Integers, Sequences

CONSTANTS
  None,      \* a nil pointer or slice, no bound, no items
  Parses(_, _),  \* whether the parser of a format takes a text
  Long,      \* a string over every maxLength
  Failed     \* the error of fromQuery

\* The properties, and that nil and the error are no values of theirs.
Property ==
  [type : {"string"}, format : STRING, required : BOOLEAN, maxLength : Int \cup {None}]
    \cup [type : {"integer"}, required : BOOLEAN, maximum : Int \cup {None}, minimum : Int \cup {None}]
    \cup [type : {"boolean"}, required : BOOLEAN]
    \cup [type : {"array"}, required : BOOLEAN, items : [type : STRING, format : STRING] \cup {None}]

QueryParamsAssumption ==
  /\ None # Failed /\ "" \notin {None, Failed}
  /\ \A x \in {None, Failed} : x \notin BOOLEAN \cup Int \cup STRING \cup Seq(STRING) \cup [type : STRING, format : STRING]

\* The formats of FormatToParser, and of those the ones that genArrayParse knows.
Parsed == {"at-identifier", "at-uri", "handle", "record-key", "did", "nsid", "cid", "tid", "language"}
InArrays == Parsed \ {"record-key"}

\* What Go accepts of what is generated: the text for a required boolean lacks its
\* arguments, a bound on a parsed optional string names a variable that is out of
\* scope, the loops of arrays of integers and of booleans are never closed, and an
\* array of record keys is given raw strings.
Compiles(p) ==
  CASE p.type = "boolean" -> ~p.required
    [] p.type = "string"  -> p.maxLength = None \/ p.required \/ p.format \notin Parsed
    [] p.type = "array"   -> p.items # None /\ p.items.type = "string" /\ p.items.format # "record-key"
    [] OTHER              -> p.type = "integer"

-----------------------------------------------------------------------------
\* The type of a field, genStruct: a pointer unless it is required or an array.
Pointer(p) == ~p.required /\ p.type # "array"

\* What the field can hold.
FieldValues(p) ==
  (CASE p.type = "string" -> STRING [] p.type = "integer" -> Int [] p.type = "boolean" -> BOOLEAN [] OTHER -> Seq(STRING))
    \cup (IF Pointer(p) \/ p.type = "array" THEN {None} ELSE {})

Set(v) == IF v = None THEN <<>> ELSE <<v>>

\* toQuery: the texts under the key of a property.
ToQuery(p, v) == IF p.type = "array" THEN (IF v = None THEN <<>> ELSE v) ELSE Set(v)

\* url.Values.Get, with None for the empty text of a missing key.
Get(texts) == IF texts = <<>> THEN None ELSE texts[1]

TooLong(p, text) == p.maxLength # None /\ text = Long
Outside(p, n) == (p.maximum # None /\ n > p.maximum) \/ (p.minimum # None /\ n < p.minimum)

\* Whether the parser that goes with a format, if one does, takes the text.
Fits(format, text) == format \in Parsed => Parses(format, text)

\* Wrong: only the first text of an array is read.
ReadFirst(p, texts) ==
  IF texts = <<>> THEN (IF p.required THEN Failed ELSE None)
  ELSE IF Fits(p.items.format, texts[1]) /\ p.items.format # "cid" THEN <<texts[1]>> ELSE Failed

\* An array, genArrayParse.  For cids every parser is given the whole array, and
\* refuses it.
ReadArray(p, texts) ==
  IF texts = <<>> THEN (IF p.required THEN Failed ELSE None)
  ELSE IF p.items.format \in InArrays
          /\ (p.items.format = "cid" \/ \E i \in DOMAIN texts : ~Fits(p.items.format, texts[i]))
       THEN Failed ELSE texts

\* A string: the empty text counts as a missing one.
ReadString(p, text) ==
  IF text \in {None, ""} THEN (IF p.required THEN Failed ELSE None)
  ELSE IF ~Fits(p.format, text) \/ TooLong(p, text) THEN Failed ELSE text

\* An integer.  When it is required, the code that checks its bounds stands behind
\* a return and never runs.
ReadInteger(p, text) ==
  IF text = None THEN (IF p.required THEN Failed ELSE None)
  ELSE IF ~p.required /\ Outside(p, text) THEN Failed ELSE text

\* fromQuery, for the texts under a property's key.
FromQuery(p, texts) ==
  CASE p.type = "array"   -> ReadArray(p, texts)
    [] p.type = "string"  -> ReadString(p, Get(texts))
    [] p.type = "integer" -> ReadInteger(p, Get(texts))
    [] OTHER              -> Get(texts)

-----------------------------------------------------------------------------
\* Properties.

\* What the lexicon says of a parameter.
Valid(p, v) ==
  CASE p.type = "array"   -> (p.required => v \notin {None, <<>>}) /\ \A i \in DOMAIN ToQuery(p, v) : Fits(p.items.format, v[i])
    [] p.type = "string"  -> IF v \in {None, ""} THEN ~p.required ELSE Fits(p.format, v) /\ ~TooLong(p, v)
    [] p.type = "integer" -> v = None \/ ~Outside(p, v)
    [] OTHER              -> TRUE

\* A query cannot tell nothing from the empty string, or from the empty array.
Same(p, v, u) ==
  \/ v = u
  \/ p.type = "string" /\ {v, u} \subseteq {None, ""}
  \/ p.type = "array" /\ {v, u} \subseteq {None, <<>>}

\* Known defects, which QueryIsRead leaves aside: cids in arrays, and the bounds of
\* required integers.
Sound(p) ==
  /\ p.type = "array" => p.items.format # "cid"
  /\ p.type = "integer" /\ p.required => p.maximum = None /\ p.minimum = None

\* The server reads the parameters that the client has sent if the lexicon allows
\* them, and refuses them otherwise (toQuery and fromQuery, generator.go).
QueryIsRead(p, v) ==
  LET read == FromQuery(p, ToQuery(p, v)) IN
  Compiles(p) /\ Sound(p) => IF Valid(p, v) THEN Same(p, read, v) ELSE read = Failed
=============================================================================
