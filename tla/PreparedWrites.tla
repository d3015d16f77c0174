--------------------------- MODULE PreparedWrites ---------------------------
(***************************************************************************)
(* A prepared write of a repository (internal/repo/ops.go): one of three   *)
(* parts, for a create, an update or a delete, or none yet.  The part says *)
(* again what its action is, so a setter can make the two disagree.  Blobs *)
(* and the status of the validation go where the record goes, and are left *)
(* out.                                                                    *)
(***************************************************************************)
CONSTANTS
  Uri, Cid,
  Record,    \* records that have a cid, and Odd
  CidOf(_),  \* NewCID: of a record other than Odd
  Odd,       \* a record that cannot be encoded
  Nothing    \* a nil part or record, cid.Undef, the empty string, an error

VARIABLE w

Action == {"Create", "Update", "Delete"}

None == [a \in Action |-> Nothing]

\* A part is not nil and neither is an action, a URI or a cid.  NewCID of no record
\* is the cid of a null, or none.
Full    == [action : Action, uri : Uri, record : Record \cup {Nothing}, cid : Cid \cup {Nothing}, swap : Cid \cup {Nothing}]
Removal == [action : Action, uri : Uri, swap : Cid \cup {Nothing}]
PreparedWritesAssumption ==
  /\ Nothing \notin Action \cup Uri \cup Cid \cup Record \cup Full \cup Removal
  /\ \A r \in Record \ {Odd} : CidOf(r) \in Cid
  /\ CidOf(Nothing) \in Cid \cup {Nothing}

\* The part that the methods of a write work on: create, update, delete.
Part(v) ==
  IF v["Create"] # Nothing THEN "Create" ELSE IF v["Update"] # Nothing THEN "Update"
  ELSE IF v["Delete"] # Nothing THEN "Delete" ELSE Nothing

Has(v, field) == Part(v) # Nothing /\ field \in DOMAIN v[Part(v)]

\* GetAction, GetCID, GetURI, GetSwapCID, GetRecord.
Get(v, field) == IF Has(v, field) THEN v[Part(v)][field] ELSE Nothing

\* SetAction, SetRecord, SetCID, SetURI.
Set(v, field, x) == IF Has(v, field) THEN [v EXCEPT ![Part(v)] = [@ EXCEPT ![field] = x]] ELSE v

\* The fields of a part for an action, out of all of them.
PartOf(action, all) ==
  [f \in IF action = "Delete" THEN {"action", "uri", "swap"} ELSE DOMAIN all |-> all[f]]

All(action, uri, record, cid, swap) ==
  [action |-> action, uri |-> uri, record |-> record, cid |-> cid, swap |-> swap]

\* SetInfo: every field of the part there is.
SetInfo(v, all) == IF Part(v) = Nothing THEN v ELSE [v EXCEPT ![Part(v)] = PartOf(Part(v), all)]

\* PrepareWrite; the URI is one that can be parsed.
PrepareWrite(action, uri, record, swap) ==
  [None EXCEPT ![action] = PartOf(action, All(action, uri, record, CidOf(record), swap))]

\* PrepWrite of a part says what the part's own GetAction does: a delete calls
\* itself an update, and becomes one without a record and without a cid.
PrepWrite(action, part) ==
  IF action = "Delete"
  THEN [None EXCEPT !["Update"] = All("Update", part.uri, Nothing, Nothing, part.swap)]
  ELSE [None EXCEPT ![action] = [part EXCEPT !.action = action]]

\* DeriveCID of a create or an update without a cid.  With one it changes nothing:
\* a create answers it, and an update dereferences the missing create and panics.
DeriveCID(v) ==
  IF Has(v, "cid") /\ Get(v, "cid") = Nothing /\ Get(v, "record") # Odd
  THEN Set(v, "cid", CidOf(Get(v, "record"))) ELSE v

\* MarshalCBOR: the fields of the part.
Marshal(v) == IF Part(v) = Nothing THEN Nothing ELSE v[Part(v)]

\* An undefined cid cannot be read.
NoCid(fields) == "cid" \in DOMAIN fields /\ fields.cid = Nothing

\* The write with one part, of the fields that were read; what is missing is zero.
Read(action, fields) ==
  LET all == [f \in DOMAIN All(0, 0, 0, 0, 0) |-> IF f \in DOMAIN fields THEN fields[f] ELSE Nothing]
  IN  IF action # "Delete" /\ NoCid(fields) THEN Nothing ELSE [None EXCEPT ![action] = PartOf(action, all)]

\* Wrong: every write that is not a delete is read as a create.
UnmarshalTwoKinds(fields) ==
  IF fields = Nothing THEN Nothing ELSE Read(IF fields.action = "Delete" THEN "Delete" ELSE "Create", fields)

\* UnmarshalCBOR into an empty write: the action names the part.
Unmarshal(fields) == IF fields = Nothing THEN Nothing ELSE Read(fields.action, fields)

-----------------------------------------------------------------------------
Init == w = None

Fields == {"action", "uri", "record", "cid"}
Values(field) ==
  CASE field = "action" -> Action [] field = "uri" -> Uri
    [] field = "record" -> Record [] field = "cid" -> Cid \cup {Nothing}

Next ==
  \/ \E a \in Action, u \in Uri, r \in Record \ {Odd}, s \in Cid \cup {Nothing} :
       w' = PrepareWrite(a, u, r, s)
  \/ Part(w) # Nothing /\ w' = PrepWrite(Part(w), w[Part(w)])
  \/ \E f \in Fields, x \in UNION {Values(g) : g \in Fields} : x \in Values(f) /\ w' = Set(w, f, x)
  \/ \E a \in Action, u \in Uri, r \in Record, c \in Cid : w' = SetInfo(w, All(a, u, r, c, Nothing))
  \/ w' = DeriveCID(w)
  \/ Unmarshal(Marshal(w)) # Nothing /\ w' = Unmarshal(Marshal(w))

Spec == Init /\ [][Next]_w

-----------------------------------------------------------------------------
\* After any sequence of calls, a write whose action is that of its part, and
\* that has the cid it should have, is the same write when it is written to CBOR
\* and read again (MarshalCBOR and UnmarshalCBOR, ops.go).
WriteIsRead ==
  (Get(w, "action") = Part(w) /\ Part(w) # Nothing /\ (Has(w, "cid") => Get(w, "cid") # Nothing)) =>
    Unmarshal(Marshal(w)) = w
=============================================================================
