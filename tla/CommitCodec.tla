---------------------------- MODULE CommitCodec ----------------------------
(***************************************************************************)
(* The CBOR codecs of commits (internal/repo/cbor.go) and what is signed   *)
(* of them (SignCommitWithSigner, internal/repo/ops.go).                   *)
(*                                                                         *)
(* A stream is a sequence of items <<major type, argument>>: the head of a *)
(* map, then its keys and values in turn.  A cid is one item, and so is    *)
(* whatever a field the reader does not know holds.  TooLong is a text, or *)
(* a byte string, over the limit on its length.                            *)
(***************************************************************************)
EXTENDS Integers, Sequences, SequencesExt

CONSTANTS
  Width,    \* bits of an int64
  TooLong,  \* see above
  Undef     \* cid.Undef

Item(major, arg) == <<major, arg>>
Null == Item("null", "")

\* uint64(n) and int64(n).
Unsig(n) == n % 2^Width
Signed(n) == ((n + 2^(Width - 1)) % 2^Width) - 2^(Width - 1)

Link(cid) == Item("link", cid)
Text(s) == Item("text", s)
Bytes(b) == Item("bytes", b)

\* uint64(-t.Version-1), where -t.Version can overflow.
VersionItem(n) ==
  IF n >= 0 THEN Item("uint", n) ELSE Item("nint", Unsig(Signed(-n) - 1))

\* No previous commit is a null.
ItemOf(field, c) ==
  CASE field \in {"did", "rev"} -> Text(c[field])
    [] field = "sig"            -> Bytes(c.sig)
    [] field = "data"           -> Link(c.data)
    [] field = "prev"           -> IF c.prev = Undef THEN Null ELSE Link(c.prev)
    [] field = "version"        -> VersionItem(c.version)

\* The names of the fields in their order.  Rev is left out when it is empty.
UnsignedNames(c) ==
  IF c.rev = "" THEN <<"did", "data", "prev", "version">> ELSE <<"did", "rev", "data", "prev", "version">>
SignedNames(c) ==
  IF c.rev = "" THEN <<"did", "sig", "data", "prev", "version">> ELSE <<"did", "rev", "sig", "data", "prev", "version">>

Fields(names, c) == [i \in DOMAIN names |-> <<names[i], ItemOf(names[i], c)>>]
UnsignedFields(c) == Fields(UnsignedNames(c), c)
SignedFields(c)   == Fields(SignedNames(c), c)

\* The stream of a map with these fields.
Stream(fields) ==
  [i \in 1..(2 * Len(fields) + 1) |->
     IF i = 1 THEN Item("map", Len(fields))
     ELSE IF i % 2 = 0 THEN Text(fields[i \div 2][1]) ELSE fields[i \div 2][2]]

\* MarshalCBOR of either commit, <<>> for its errors.
Marshal(fields) ==
  IF \E i \in DOMAIN fields : fields[i][2] \in {Text(TooLong), Bytes(TooLong), Link(Undef)}
  THEN <<>> ELSE Stream(fields)

-----------------------------------------------------------------------------
\* The fields of each commit, as the reader finds them before it starts.
UnsignedZero == [did |-> "", rev |-> "", data |-> Undef, prev |-> Undef, version |-> 0]
SignedZero   == [did |-> "", rev |-> "", data |-> Undef, prev |-> Undef, version |-> 0, sig |-> <<>>]

Failed == [failed |-> TRUE]

\* Wrong: a negative number is taken for its distance from zero.
ReadVersionByDistance(item) == IF item[1] = "uint" THEN Signed(item[2]) ELSE -Signed(item[2])

ReadVersion(item) == IF item[1] = "uint" THEN Signed(item[2]) ELSE -1 - Signed(item[2])

\* The items that may stand for a field's value.
Readable(field, item) ==
  /\ field \in {"did", "rev"} => item[1] = "text" /\ item[2] # TooLong
  /\ field = "sig" => item[1] = "bytes" /\ item[2] # TooLong
  /\ field = "data" => item[1] = "link"
  /\ field = "prev" => item[1] \in {"null", "link"}
  /\ field = "version" => item[1] \in {"uint", "nint"} /\ Signed(item[2]) >= 0

\* UnmarshalCBOR into a zeroed commit.  The head says how many fields to read; what
\* follows them is left in the reader.  A field that the commit does not have is passed
\* over with its value.  One that is there twice is read twice; a null leaves prev as it is.
Unmarshal(zero, s) ==
  LET n       == s[1][2]
      name(i) == s[2 * i][2]
      item(i) == s[2 * i + 1]
      Sets(f) == {i \in 1..n : name(i) = f /\ ~(f = "prev" /\ item(i) = Null)}
      last(f) == item(Max(Sets(f)))
  IN  IF \/ s = <<>> \/ s[1][1] # "map" \/ Len(s) < 2 * n + 1
         \/ \E i \in 1..n :
              \/ s[2 * i][1] # "text" \/ name(i) = TooLong
              \/ name(i) \in DOMAIN zero /\ ~Readable(name(i), item(i))
      THEN Failed
      ELSE [f \in DOMAIN zero |->
              IF Sets(f) = {} THEN zero[f] ELSE IF f = "version" THEN ReadVersion(last(f)) ELSE last(f)[2]]

UnmarshalSigned(s) == Unmarshal(SignedZero, s)
UnmarshalUnsigned(s) == Unmarshal(UnsignedZero, s)

-----------------------------------------------------------------------------
Unsigned(c) == [f \in DOMAIN UnsignedZero |-> c[f]]

\* The commit with its signature, which of b is b.
WithSig(c) == [f \in DOMAIN SignedZero |-> IF f = "sig" THEN Marshal(UnsignedFields(c)) ELSE c[f]]

\* The stream of the signed commit, <<>> for an error.
SignCommit(c) == IF Marshal(UnsignedFields(c)) = <<>> THEN <<>> ELSE Marshal(SignedFields(WithSig(c)))

-----------------------------------------------------------------------------
\* Properties.

\* An integer has bits, and no name of a field is over the limit.
CommitCodecAssumption ==
  /\ 2^(Width - 1) \in Nat \ {0} /\ 2^Width = 2 * 2^(Width - 1)
  /\ TooLong \notin DOMAIN SignedZero

IsCommit(c) ==
  /\ DOMAIN c = DOMAIN UnsignedZero /\ c = [f \in DOMAIN c |-> c[f]]
  /\ c.version \in -2^(Width - 1)..(2^(Width - 1) - 1)

\* A commit that can be signed is read back as it was signed, whatever field of
\* another writer stands among its own, so that its reader can encode the bytes
\* that the signature is over; and nothing that was cut off is read at all
\* (MarshalCBOR and UnmarshalCBOR, cbor.go, SignCommitWithSigner, ops.go).
SignedIsRead(c, name, item) ==
  LET s      == SignCommit(c)
      unsig  == Marshal(UnsignedFields(c))
      fields == SignedFields(WithSig(c))
  IN  s # <<>> =>
        /\ UnmarshalUnsigned(unsig) = c
        /\ \A i \in 1..(Len(fields) + 1) :
             LET d == UnmarshalSigned(Stream(InsertAt(fields, i, <<name, item>>)))
             IN  Unsigned(d) = c /\ Marshal(UnsignedFields(d)) = d.sig
        /\ \A n \in 0..(Len(s) - 1) : UnmarshalSigned(SubSeq(s, 1, n)) = Failed
=============================================================================
