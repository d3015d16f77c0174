----------------------------- MODULE Encodings -----------------------------
(***************************************************************************)
(* What one part of the program writes and another one reads: a commit,    *)
(* CommitCodec, a prepared write, PreparedWrites, the parameters of a      *)
(* query, QueryParams, and the answer to a failed RPC, XrpcErrors.         *)
(*                                                                         *)
(* Nothing joins the four in the code.  A behaviour is about one of them,  *)
(* its subject: for a prepared write it is a sequence of calls, and for    *)
(* the others, which are functions, it goes through inputs, one at a time, *)
(* from and back to having none.                                           *)
(***************************************************************************)
EXTENDS Integers, Sequences

CONSTANTS
  Width, Overlong,                            \* CommitCodec's
  WriteUri, WriteCid, Record, CidOf(_), Odd,  \* PreparedWrites's
  Parses(_, _), Long, Rejected,               \* QueryParams's
  NoValue,        \* what is nil, undefined or missing, in all
  CommitInput,    \* commits, with the name and the value of a field of another writer
  QueryInput,     \* properties, with values of their parameters
  SomeResponse,   \* the responses that errors are made of
  SomeError,      \* what a handler may return
  SomeStatus      \* the statuses of answers that are not the JSON of a response

VARIABLES
  write,
  given,    \* the input of a function, or NoValue
  subject

Commits == INSTANCE CommitCodec WITH Undef <- NoValue, TooLong <- Overlong
Writes  == INSTANCE PreparedWrites WITH Uri <- WriteUri, Cid <- WriteCid, Nothing <- NoValue, w <- write
Query   == INSTANCE QueryParams WITH None <- NoValue, Failed <- Rejected
Errors  == INSTANCE XrpcErrors

\* A status that an answer can have has three digits; that of a response may be any.
ASSUME EncodingsAssumption ==
  /\ Commits!CommitCodecAssumption /\ Writes!PreparedWritesAssumption /\ Query!QueryParamsAssumption
  /\ \A x \in CommitInput : Commits!IsCommit(x[1]) /\ x[2] \notin DOMAIN Commits!SignedZero \cup {Overlong}
  /\ \A x \in QueryInput : x[1] \in Query!Property /\ x[2] \in Query!FieldValues(x[1])
  /\ \A e \in SomeResponse : e = Errors!Response(e.code, e.message, e.status) /\ e.status \in Int
  /\ SomeError \subseteq Seq({Errors!Wrapping, Errors!Plain} \cup SomeResponse)
  /\ SomeStatus \subseteq 100..599

\* The answers that WriteError makes of errors, with a code for those without a response,
\* or, with none, of responses whose codes have a status; and those without JSON.
BareAnswer     == {Errors!Bare(status) : status \in SomeStatus}
ErrAnswer      == UNION {{Errors!WriteError(err, default) : err \in SomeError}
                           : default \in DOMAIN Errors!StatusTable \ {"Success"}}
ResponseAnswer == {Errors!WriteErrorResponse(e, "") : e \in {r \in SomeResponse : Errors!StatusOf(r.code) # 0}}

ErrorInput == BareAnswer \cup ErrAnswer \cup ResponseAnswer

Input ==
  IF subject = "commits" THEN CommitInput
  ELSE IF subject = "query" THEN QueryInput
  ELSE IF subject = "errors" THEN ErrorInput ELSE {}

EncodingsInit ==
  /\ Writes!Init
  /\ given = NoValue
  /\ subject \in {"writes", "commits", "query", "errors"}

WriteStep == subject = "writes" /\ Writes!Next /\ UNCHANGED <<given, subject>>
Pick      == given = NoValue /\ given' \in Input /\ UNCHANGED <<write, subject>>
PutBack   == given # NoValue /\ given' = NoValue /\ UNCHANGED <<write, subject>>

EncodingsNext == WriteStep \/ Pick \/ PutBack
EncodingsSpec == EncodingsInit /\ [][EncodingsNext]_<<write, given, subject>>

-----------------------------------------------------------------------------
Given(s) == subject = s /\ given # NoValue

\* Reading a prepared write gives the write that was encoded (PreparedWrite.MarshalCBOR
\* and UnmarshalCBOR, ops.go).
WriteIsRead == Writes!WriteIsRead

\* The read of a commit gives back what was written, and fails where it must, with a
\* field more as without (SignedCommit.MarshalCBOR and UnmarshalCBOR, cbor.go).
SignedIsRead == Given("commits") => Commits!SignedIsRead(given[1], given[2], given[3])

\* A server reads the query of a client (toQuery and fromQuery, generator.go).
QueryIsRead == Given("query") => Query!QueryIsRead(given[1], given[2])

\* A failed RPC tells its caller the same however many clients pass it on (WriteError,
\* error.go, and Client.do, client.go).
ErrorIsRelayed == Given("errors") => Errors!ErrorIsRelayed(given)
=============================================================================
