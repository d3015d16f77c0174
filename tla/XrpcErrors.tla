----------------------------- MODULE XrpcErrors -----------------------------
(***************************************************************************)
(* The errors of RPCs (xrpc/error.go) on their way from a handler, which   *)
(* writes one as an answer, to a client, which makes an error of it again  *)
(* (xrpc/client.go).  Where handlers are backed by clients                 *)
(* (internal/pds/passthrough.go) the way has several legs.                 *)
(*                                                                         *)
(* An error is the sequence of its layers, the outermost first: responses, *)
(* Wrapping, which is any layer that only adds to the one below it, and    *)
(* Plain, which has none below.  An answer is [status, body]; a body is    *)
(* <<code, message>>, or <<>> where it is not the JSON of a response.      *)
(*                                                                         *)
(* The text of a code is the code, and so is the message that stands for   *)
(* it: only whether there is one matters.                                  *)
(***************************************************************************)
EXTENDS Integers, Sequences, SequencesExt

Wrapping == [kind |-> "wrapping"]
Plain    == [kind |-> "plain"]

\* A response with no error inside, as Status, NewInvalidRequest and their like make.
Response(code, message, status) ==
  [kind |-> "response", code |-> code, message |-> message, status |-> status]

\* Wrap, of the package and of a response.
Wrap(response, err) == <<response>> \o err

-----------------------------------------------------------------------------
StatusTable ==
  [Unknown |-> 400, Success |-> 200, InvalidRequest |-> 400, AuthRequired |-> 401, Forbidden |-> 403,
   XRPCNotSupported |-> 404, NotAcceptable |-> 406, PayloadTooLarge |-> 413, UnsupportedMediaType |-> 415,
   RateLimitExceeded |-> 429, InternalServerError |-> 500, MethodNotImplemented |-> 501,
   UpstreamFailure |-> 502, NotEnoughResources |-> 503, UpstreamTimeout |-> 504,
   RepoNotFound |-> 400, RecordNotFound |-> 400]

\* Code.Status: 0 for the codes that have none, those of a lexicon among them.
StatusOf(code) == IF code \in DOMAIN StatusTable THEN StatusTable[code] ELSE 0

\* CodeFromStatus: the code that has the status, or one of its class.
Plainest == DOMAIN StatusTable \ {"Unknown", "RepoNotFound", "RecordNotFound"}
CodeFromStatus(status) ==
  IF \E code \in Plainest : StatusOf(code) = status
  THEN CHOOSE code \in Plainest : StatusOf(code) = status
  ELSE IF status \in 100..199 \cup 300..399 THEN "XRPCNotSupported"
  ELSE IF status \in 200..299 THEN "Success"
  ELSE IF status \in 400..499 THEN "InvalidRequest"
  ELSE "InternalServerError"

\* Code.Message: these have none.
MessageOf(code) ==
  IF code \in (DOMAIN StatusTable \cup {"InvalidResponse"}) \ {"NotAcceptable", "RepoNotFound", "RecordNotFound"}
  THEN code ELSE ""

-----------------------------------------------------------------------------
\* Wrong: a response's own status is forgotten.
StatusByCode(e, default) == IF StatusOf(e.code) # 0 THEN StatusOf(e.code) ELSE StatusOf(default)

\* The status of the answer: the response's own, or its code's, or the default's.
AnswerStatus(e, default) ==
  IF e.status \in 1..599 THEN e.status
  ELSE IF StatusOf(e.code) # 0 THEN StatusOf(e.code)
  ELSE StatusOf(default)

\* writeErrorResponse: what the response does not say is filled in.
WriteErrorResponse(e, default) ==
  LET status  == AnswerStatus(e, default)
      code    == IF e.code = "" THEN CodeFromStatus(status) ELSE e.code
      message == IF e.message = "" THEN MessageOf(code) ELSE e.message
  IN  [status |-> status, body |-> <<code, message>>]

\* WriteError: the outermost response counts.  That errors.Cause be one cannot happen,
\* as it looks into responses too; errors.As finds it.
WriteError(err, default) ==
  LET first == SelectInSeq(err, LAMBDA layer : layer.kind = "response")
  IN  IF first # 0
      THEN WriteErrorResponse(err[first], default)
      ELSE [status |-> StatusOf(default), body |-> <<default, "Server Error">>]

\* The answers with a status and no JSON: of a generated handler that cannot read its
\* request, of the Pipethrough that cannot reach its host, of a router without a route,
\* of a proxy.
Bare(status) == [status |-> status, body |-> <<>>]

\* Client.do: the error that a client makes of an answer, if it takes it for one.
IsError(answer) == answer.status >= 400
Read(answer) ==
  IF answer.body = <<>>
  THEN Wrap(Response("", "", answer.status), <<Plain>>)
  ELSE <<Wrapping, Response(answer.body[1], answer.body[2], answer.status)>>

\* A generated handler whose method is that of a generated client.
Relay(answer) == WriteError(Read(answer), "InvalidRequest")

-----------------------------------------------------------------------------
\* An error keeps its status on every leg, and once it has a code and a message these
\* too; where the code is made up from the status, it stands for the same class of
\* statuses, so that the two do not tell a caller different things (WriteError,
\* error.go, and Client.do, client.go).
ErrorIsRelayed(answer) ==
  IsError(answer) =>
    LET next == Relay(answer)
    IN  /\ next.status = answer.status
        /\ answer.body # <<>> => next = answer
        /\ answer.body = <<>> => StatusOf(next.body[1]) \div 100 = answer.status \div 100
        /\ Relay(next) = next
=============================================================================
