------------------------------ MODULE Parallel ------------------------------
(***************************************************************************)
(* One call of internal/parallel: Do, Map or FirstOf.  The three share     *)
(* their machinery: a context derived from the caller's, one goroutine per *)
(* job, an unbuffered channel, and a closer goroutine that waits on the    *)
(* WaitGroup and closes the channel.  They differ in what a goroutine      *)
(* sends and in what the receiving loop does with it.  The job functions   *)
(* are the caller's: each eventually returns a value or an error.          *)
(***************************************************************************)
CONSTANT Job

\* A job's name never equals one of the constants an error is compared with.
ASSUME JobAssumption ==
  Job \cap {"nil", "zero", "pending", "canceled", "deadline", "none"} = {}

VARIABLES
  op,         \* the entry point: "Do", "Map" or "FirstOf"
  ctx,        \* the derived context: "live", or the error ctx.Err() gives
  cancelled,  \* history: the caller's context ended before the call returned
  pc,         \* where each job's goroutine is
  outcome,    \* what each job function returned
  results,    \* Map: the indices of the results slice that have been written
  chan,       \* the channel: "open" or "closed"
  recv,       \* the receiving loop: "range", "check" or "returned"
  first,      \* FirstOf: the first job error received
  err,        \* the returned error, "pending" before the return
  val         \* FirstOf: the job whose value is returned, "zero" for none

vars == <<op, ctx, cancelled, pc, outcome, results, chan, recv, first, err, val>>

FJ == INSTANCE ForkJoin

TypeOK ==
  /\ op \in FJ!Ops
  /\ ctx \in {"live"} \cup FJ!CtxErrs
  /\ cancelled \in BOOLEAN
  /\ pc \in [Job -> {"ready", "running", "send", "sendCtx", "exit", "done"}]
  /\ outcome \in [Job -> {"none", "ok", "err"}]
  /\ results \in SUBSET Job
  /\ chan \in {"open", "closed"}
  /\ recv \in {"range", "check", "returned"}
  /\ first \in Job \cup {"nil"}
  /\ err \in Job \cup {"pending", "nil"} \cup FJ!CtxErrs
  /\ val \in Job \cup {"zero"}

Init ==
  /\ op \in FJ!Ops
  /\ ctx \in {"live"} \cup FJ!CtxErrs
  /\ cancelled = (ctx # "live")
  /\ pc = [j \in Job |-> "ready"]
  /\ outcome = [j \in Job |-> "none"]
  /\ results = {}
  /\ chan = "open"
  /\ recv = "range"
  /\ first = "nil"
  /\ err = "pending"
  /\ val = "zero"

At(j, from, to) == pc[j] = from /\ pc' = [pc EXCEPT ![j] = to]

\* return e, with the deferred cancel() of the derived context
Return(e, v) ==
  /\ recv' = "returned"
  /\ err' = e
  /\ val' = v
  /\ ctx' = IF ctx = "live" THEN "canceled" ELSE ctx

-----------------------------------------------------------------------------
\* The caller's context is cancelled, or its deadline or the configured
\* timeout passes, while the call is running.
CancelCaller ==
  /\ ctx = "live"
  /\ ctx' \in FJ!CtxErrs
  /\ cancelled' = TRUE
  /\ UNCHANGED <<op, pc, outcome, results, chan, recv, first, err, val>>

\* A goroutine is first scheduled.  Map's looks at the context before it runs
\* the job; Do's and FirstOf's run it in any case.
Start(j) ==
  /\ At(j, "ready", IF op = "Map" /\ ctx # "live" THEN "sendCtx" ELSE "running")
  /\ UNCHANGED <<op, ctx, cancelled, outcome, results, chan, recv, first, err, val>>

\* The job function returns.  Map's goroutine stores a result and sends only
\* errors; the others send whatever they got.
JobReturns(j) ==
  /\ \/ /\ outcome' = [outcome EXCEPT ![j] = "ok"]
        /\ At(j, "running", IF op = "Map" THEN "exit" ELSE "send")
        /\ results' = IF op = "Map" THEN results \cup {j} ELSE results
     \/ /\ outcome' = [outcome EXCEPT ![j] = "err"]
        /\ At(j, "running", "send")
        /\ UNCHANGED results
  /\ UNCHANGED <<op, ctx, cancelled, chan, recv, first, err, val>>

\* Wrong: the select has a default case.
DropAnyTime(j) ==
  /\ At(j, "send", "exit")
  /\ UNCHANGED <<op, ctx, cancelled, outcome, results, chan, recv, first, err, val>>

\* Wrong: a goroutine that gives up skips wg.Done().
DropWithoutDone(j) ==
  /\ ctx # "live"
  /\ At(j, "send", "gone")
  /\ UNCHANGED <<op, ctx, cancelled, outcome, results, chan, recv, first, err, val>>

\* Wrong: the send stands outside a select.
NeverDrop(j) == FALSE

\* The select of a sending goroutine takes <-ctx.Done(): what it was to send
\* is dropped.  Map's `errs <- ctx.Err()` stands outside a select.
DropOnCancel(j) ==
  /\ ctx # "live"
  /\ At(j, "send", "exit")
  /\ UNCHANGED <<op, ctx, cancelled, outcome, results, chan, recv, first, err, val>>

\* The deferred wg.Done().
WgDone(j) ==
  /\ At(j, "exit", "done")
  /\ UNCHANGED <<op, ctx, cancelled, outcome, results, chan, recv, first, err, val>>

\* Wrong: wg.Add is one short.
CloseOneShort ==
  /\ chan = "open"
  /\ \E slow \in Job : \A j \in Job \ {slow} : pc[j] = "done"
  /\ chan' = "closed"
  /\ UNCHANGED <<op, ctx, cancelled, pc, outcome, results, recv, first, err, val>>

\* Wrong: wg.Add stands in the goroutine, so that Wait can overtake it.
CloseUnstarted ==
  /\ chan = "open"
  /\ \A j \in Job : pc[j] \in {"ready", "done"}
  /\ chan' = "closed"
  /\ UNCHANGED <<op, ctx, cancelled, pc, outcome, results, recv, first, err, val>>

\* The closer: wg.Wait() and close(ch).
CloseChannel ==
  /\ chan = "open"
  /\ \A j \in Job : pc[j] = "done"
  /\ chan' = "closed"
  /\ UNCHANGED <<op, ctx, cancelled, pc, outcome, results, recv, first, err, val>>

-----------------------------------------------------------------------------
\* The receiving loops.  The channel is unbuffered: a goroutine blocked on its
\* send and the loop meet in one step.

DoReceive(j) ==
  /\ op = "Do" /\ recv = "range"
  /\ At(j, "send", "exit")
  /\ \/ /\ outcome[j] = "err"
        /\ Return(j, "zero")
     \/ /\ outcome[j] = "ok"
        /\ recv' = "check"
        /\ UNCHANGED <<ctx, err, val>>
  /\ UNCHANGED <<op, cancelled, outcome, results, chan, first>>

\* Do's select after a nil error: ctx.Done(), or round the loop again.
DoCheck ==
  /\ recv = "check"
  /\ \/ /\ ctx # "live"
        /\ Return(ctx, "zero")
     \/ /\ ctx = "live"
        /\ recv' = "range"
        /\ UNCHANGED <<ctx, err, val>>
  /\ UNCHANGED <<op, cancelled, pc, outcome, results, chan, first>>

MapReceive(j) ==
  /\ op = "Map" /\ recv = "range"
  /\ \/ At(j, "send", "exit") /\ Return(j, "zero")
     \/ At(j, "sendCtx", "exit") /\ Return(ctx, "zero")
  /\ UNCHANGED <<op, cancelled, outcome, results, chan, first>>

\* Wrong: the first message is the answer, an error too.
FirstOfAny(j) ==
  /\ op = "FirstOf" /\ recv = "range"
  /\ At(j, "send", "exit")
  /\ Return(IF outcome[j] = "err" THEN j ELSE "nil", IF outcome[j] = "err" THEN "zero" ELSE j)
  /\ UNCHANGED <<op, cancelled, outcome, results, chan, first>>

\* FirstOf keeps the first error and goes on; the first value is its answer.
FirstOfReceive(j) ==
  /\ op = "FirstOf" /\ recv = "range"
  /\ At(j, "send", "exit")
  /\ \/ /\ outcome[j] = "err"
        /\ first' = IF first = "nil" THEN j ELSE first
        /\ UNCHANGED <<ctx, recv, err, val>>
     \/ /\ outcome[j] = "ok"
        /\ Return("nil", j)
        /\ UNCHANGED first
  /\ UNCHANGED <<op, cancelled, outcome, results, chan>>

\* FirstOf's select takes <-ctx.Done().
FirstOfCancelled ==
  /\ op = "FirstOf" /\ recv = "range"
  /\ ctx # "live"
  /\ Return(IF first = "nil" THEN ctx ELSE first, "zero")
  /\ UNCHANGED <<op, cancelled, pc, outcome, results, chan, first>>

\* The channel is closed: the range loops end and return nil.  FirstOf's
\* receive yields the zero payload, whose error is nil.
ReceiveClosed ==
  /\ recv = "range"
  /\ chan = "closed"
  /\ Return("nil", "zero")
  /\ UNCHANGED <<op, cancelled, pc, outcome, results, chan, first>>

-----------------------------------------------------------------------------
Goroutine(j) ==
  Start(j) \/ JobReturns(j) \/ DropOnCancel(j) \/ WgDone(j)

Receive ==
  \/ \E j \in Job : DoReceive(j) \/ MapReceive(j) \/ FirstOfReceive(j)
  \/ DoCheck \/ FirstOfCancelled \/ ReceiveClosed

Next ==
  \/ CancelCaller
  \/ \E j \in Job : Goroutine(j)
  \/ CloseChannel
  \/ Receive

\* The Go scheduler runs every goroutine that can go on, the caller's too, and
\* the job functions return.  Nothing obliges the caller's context to end.
Fairness ==
  /\ \A j \in Job : WF_vars(Goroutine(j))
  /\ WF_vars(CloseChannel)
  /\ WF_vars(Receive)

Spec == Init /\ [][Next]_vars
FairSpec == Spec /\ Fairness

-----------------------------------------------------------------------------
Returned == recv = "returned"

\* Do and Map answer nil only when no goroutine can touch the caller's data
\* any more: the account and actor stores commit the shared transaction then.
\* A channel closed too early breaks it: the loop ends with jobs running.
NilMeansQuiet ==
  Returned /\ err = "nil" /\ op # "FirstOf" =>
     \A j \in Job : pc[j] = "done" /\ outcome[j] # "none"

\* Unless the caller's context ended, a nil answer of Do or Map means that no
\* job failed, and Map's slice is then complete.
NilMeansSuccess ==
  Returned /\ err = "nil" /\ op # "FirstOf" /\ ~cancelled =>
     /\ \A j \in Job : outcome[j] = "ok"
     /\ op = "Map" => results = Job

\* Map returns its results slice while goroutines may be running: with a nil
\* error the slice is never written again.
ResultsStayPut ==
  [][Returned /\ err = "nil" => results' = results]_vars

\* The call keeps the promise of ForkJoin.
Promise == FJ!Spec

\* A call of Do whose context was cancelled before it began, and whose jobs all
\* succeed, answers with the context's error: TestDo_Cancel asserts it, and
\* MCParallel checks it from such contexts.
CancelIsReported ==
  Returned /\ op = "Do" /\ (\A j \in Job : outcome[j] = "ok") => err \in FJ!CtxErrs

\* Every call returns, whatever the jobs do and whenever the context ends.
CallReturns == <>Returned

\* No goroutine of Do or FirstOf outlives its usefulness: all of them exit,
\* and the closer after them.  (Map's `errs <- ctx.Err()` has no way out.)
GoroutinesExit ==
  op # "Map" ~> (chan = "closed" /\ \A j \in Job : pc[j] = "done")

=============================================================================
