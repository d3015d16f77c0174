--------------------------- MODULE ParallelProofs ---------------------------
(***************************************************************************)
(* Proofs about Parallel, for any set of jobs.  The inductive invariant    *)
(* says what the place of a goroutine tells about its job: in particular   *)
(* that, before the call returns and while the context lives, a goroutine  *)
(* that is past its send was received (so Do and Map would have returned   *)
(* its error).                                                             *)
(***************************************************************************)
EXTENDS Parallel, TLAPS

Past(j) == pc[j] \in {"exit", "done"}

\* close(ch) comes last.
ClosedLast == chan = "closed" => \A j \in Job : pc[j] = "done"

\* Where a goroutine is, and what its function returned.
Place(j) ==
  /\ pc[j] \in {"ready", "running", "sendCtx"} => outcome[j] = "none"
  /\ pc[j] = "sendCtx" => op = "Map" /\ ctx # "live"
  /\ pc[j] = "send" => outcome[j] # "none"
  /\ pc[j] = "send" /\ op = "Map" => outcome[j] = "err"
  /\ Past(j) /\ (op # "Map" \/ ~Returned) => outcome[j] # "none"

\* What a goroutine past its send tells while nothing has ended the call.
Received(j) ==
  ~Returned /\ ~cancelled /\ Past(j) =>
     outcome[j] = (IF op = "FirstOf" THEN "err" ELSE "ok")

\* Map's results are those of the jobs that succeeded.
ResultsMatch == op = "Map" => \A j \in Job : j \in results <=> outcome[j] = "ok"

\* The receiving loop's own state.
Loop ==
  /\ Returned <=> err # "pending"
  /\ ~Returned => (cancelled <=> ctx # "live")
  /\ Returned => ctx # "live"
  /\ recv = "check" => op = "Do"
  /\ first \in Job => outcome[first] = "err"
  /\ Returned \/ val = "zero"

\* What is known once Do or Map has returned nil.
NilAnswered ==
  Returned /\ err = "nil" /\ op # "FirstOf" =>
     /\ chan = "closed"
     /\ \A j \in Job : outcome[j] # "none"
     /\ cancelled \/ \A j \in Job : outcome[j] = "ok"

IInv ==
  /\ TypeOK
  /\ ClosedLast
  /\ \A j \in Job : Place(j) /\ Received(j)
  /\ ResultsMatch
  /\ Loop
  /\ NilAnswered
-----------------------------------------------------------------------------
\* The invariant holds before the first goroutine is scheduled.
LEMMA InitIInv == Init => IInv
<1> SUFFICES ASSUME Init PROVE IInv
  OBVIOUS
<1>1. TypeOK
  BY DEF Init, TypeOK, FJ!Ops, FJ!CtxErrs
<1>2. ClosedLast /\ ResultsMatch /\ NilAnswered
  BY DEF Init, ClosedLast, ResultsMatch, NilAnswered, Returned
<1>3. \A j \in Job : Place(j) /\ Received(j)
  BY DEF Init, Place, Received, Past
<1>4. Loop
  BY JobAssumption DEF Init, Loop, Returned
<1> QED
  BY <1>1, <1>2, <1>3, <1>4 DEF IInv

\* Every step keeps the invariant, one step of the proof per action.
LEMMA NextIInv == IInv /\ [Next]_vars => IInv'
<1> SUFFICES ASSUME IInv, [Next]_vars PROVE IInv'
  OBVIOUS
<1> USE JobAssumption
        DEF IInv, TypeOK, ClosedLast, Place, Received, Past, ResultsMatch, Loop,
            NilAnswered, Returned, FJ!Ops, FJ!CtxErrs
<1>1. CASE CancelCaller
  BY <1>1 DEF CancelCaller
<1>2. ASSUME NEW j \in Job, Start(j) PROVE IInv'
  BY <1>2 DEF Start, At
<1>3. ASSUME NEW j \in Job, JobReturns(j) PROVE IInv'
  BY <1>3 DEF JobReturns, At
<1>4. ASSUME NEW j \in Job, DropOnCancel(j) PROVE IInv'
  BY <1>4 DEF DropOnCancel, At
<1>5. ASSUME NEW j \in Job, WgDone(j) PROVE IInv'
  BY <1>5 DEF WgDone, At
<1>6. CASE CloseChannel
  BY <1>6 DEF CloseChannel
<1>7. ASSUME NEW j \in Job, DoReceive(j) PROVE IInv'
  BY <1>7 DEF DoReceive, At, Return
<1>8. CASE DoCheck
  BY <1>8 DEF DoCheck, Return
<1>9. ASSUME NEW j \in Job, MapReceive(j) PROVE IInv'
  <2>1. CASE At(j, "send", "exit") /\ Return(j, "zero")
    BY <1>9, <2>1 DEF MapReceive, At, Return
  <2>2. CASE At(j, "sendCtx", "exit") /\ Return(ctx, "zero")
    BY <1>9, <2>2 DEF MapReceive, At, Return
  <2> QED
    BY <1>9, <2>1, <2>2 DEF MapReceive
<1>10. ASSUME NEW j \in Job, FirstOfReceive(j) PROVE IInv'
  BY <1>10 DEF FirstOfReceive, At, Return
<1>11. CASE FirstOfCancelled
  BY <1>11 DEF FirstOfCancelled, Return
<1>12. CASE ReceiveClosed
  BY <1>12 DEF ReceiveClosed, Return
<1>13. CASE UNCHANGED vars
  BY <1>13 DEF vars
<1> QED
  BY <1>1, <1>2, <1>3, <1>4, <1>5, <1>6, <1>7, <1>8, <1>9, <1>10, <1>11,
     <1>12, <1>13 DEF Next, Goroutine, Receive

-----------------------------------------------------------------------------
\* The invariant holds in every reachable state of every call.
THEOREM Invariance == Spec => []IInv
<1> QED
  BY InitIInv, NextIInv, PTL DEF Spec

\* The variables keep their types.
THEOREM TypeCorrect == Spec => []TypeOK
<1>1. IInv => TypeOK
  BY DEF IInv
<1> QED
  BY <1>1, Invariance, PTL

\* When Do or Map returns nil no job is running any more, even if the context
\* was cancelled on the way: a caller may commit the jobs' transaction.
THEOREM NilIsQuiet == Spec => []NilMeansQuiet
<1>1. IInv => NilMeansQuiet
  BY DEF IInv, ClosedLast, NilAnswered, NilMeansQuiet
<1> QED
  BY <1>1, Invariance, PTL

\* When Do or Map returns nil and the caller's context did not end, every job
\* succeeded and Map's slice is complete.
THEOREM NilIsSuccess == Spec => []NilMeansSuccess
<1>1. IInv => NilMeansSuccess
  BY DEF IInv, TypeOK, ResultsMatch, NilAnswered, NilMeansSuccess
<1> QED
  BY <1>1, Invariance, PTL

\* The slice Map returned with a nil error is the caller's alone.
THEOREM ResultsAreStable == Spec => ResultsStayPut
<1>1. IInv /\ [Next]_vars => [Returned /\ err = "nil" => results' = results]_vars
  <2> SUFFICES ASSUME IInv, Next, Returned, err = "nil"
               PROVE  results' = results
    OBVIOUS
  <2>1. ASSUME NEW j \in Job, JobReturns(j) PROVE results' = results
    <3>1. op = "Map" => pc[j] = "done"
      BY DEF IInv, TypeOK, FJ!Ops, ClosedLast, NilAnswered
    <3> QED
      BY <2>1, <3>1 DEF JobReturns, At
  <2> QED
    BY <2>1 DEF Next, Goroutine, Receive, CancelCaller, Start, DropOnCancel,
       WgDone, CloseChannel, DoReceive, DoCheck, MapReceive, FirstOfReceive,
       FirstOfCancelled, ReceiveClosed
<1> QED
  BY <1>1, Invariance, PTL DEF Spec, ResultsStayPut

-----------------------------------------------------------------------------
\* An error the loop returns is an answer of ForkJoin.
LEMMA FailAnswers ==
  ASSUME IInv, NEW j \in Job, ~Returned, outcome[j] = "err",
         op = "FirstOf" => cancelled,
         Return(j, "zero"), UNCHANGED <<op, outcome, cancelled>>
  PROVE  FJ!Next
BY DEF IInv, Loop, Return, FJ!Next, FJ!Answer, FJ!FailAnswer

\* The context's own error is an answer of ForkJoin: only the caller's context
\* can have ended while the loop still runs.
LEMMA CancelAnswers ==
  ASSUME IInv, ~Returned, ctx # "live",
         Return(ctx, "zero"), UNCHANGED <<op, outcome, cancelled>>
  PROVE  FJ!Next
BY DEF IInv, TypeOK, Loop, Return, FJ!CtxErrs, FJ!Next, FJ!Answer, FJ!CancelAnswer

\* Parallel implements ForkJoin: every step is one of ForkJoin's or leaves its
\* variables alone.
THEOREM KeepsPromise == Spec => Promise
<1>1. Init => FJ!Init
  BY DEF Init, FJ!Init
<1>2. IInv /\ [Next]_vars => [FJ!Next]_(FJ!vars)
  <2> SUFFICES ASSUME IInv, [Next]_vars PROVE FJ!Next \/ UNCHANGED FJ!vars
    OBVIOUS
  <2> USE DEF IInv, TypeOK, Loop, Returned, FJ!vars
  <2>1. CASE CancelCaller
    BY <2>1 DEF CancelCaller, FJ!Next, FJ!Cancel
  <2>2. ASSUME NEW j \in Job, Start(j) \/ DropOnCancel(j) \/ WgDone(j)
        PROVE  UNCHANGED FJ!vars
    BY <2>2 DEF Start, DropOnCancel, WgDone
  <2>3. ASSUME NEW j \in Job, JobReturns(j) PROVE FJ!Next
    <3>1. outcome[j] = "none"
      BY <2>3 DEF JobReturns, At, Place
    <3> QED
      BY <2>3, <3>1 DEF JobReturns, FJ!Next, FJ!Finish
  <2>4. CASE CloseChannel
    BY <2>4 DEF CloseChannel
  <2>5. ASSUME NEW j \in Job, DoReceive(j)
        PROVE  FJ!Next \/ UNCHANGED FJ!vars
    BY <2>5, FailAnswers DEF DoReceive
  <2>6. CASE DoCheck
    BY <2>6, CancelAnswers DEF DoCheck
  <2>7. ASSUME NEW j \in Job, MapReceive(j) PROVE FJ!Next
    <3>1. CASE At(j, "send", "exit") /\ Return(j, "zero")
      BY <2>7, <3>1, FailAnswers DEF MapReceive, At, Place
    <3>2. CASE At(j, "sendCtx", "exit") /\ Return(ctx, "zero")
      BY <2>7, <3>2, CancelAnswers DEF MapReceive, At, Place
    <3> QED
      BY <2>7, <3>1, <3>2 DEF MapReceive
  <2>8. ASSUME NEW j \in Job, FirstOfReceive(j)
        PROVE  FJ!Next \/ UNCHANGED FJ!vars
    BY <2>8 DEF FirstOfReceive, Return, FJ!Next, FJ!Answer, FJ!ValueAnswer
  <2>9. CASE FirstOfCancelled
    BY <2>9, FailAnswers, CancelAnswers DEF FirstOfCancelled
  <2>10. CASE ReceiveClosed
    <3>1. err = "pending" /\ err' = "nil" /\ val' = "zero"
      BY <2>10 DEF ReceiveClosed, Return
    <3>2. FJ!NilAnswer
      BY <2>10, <3>1 DEF ReceiveClosed, ClosedLast, Place, Received, Past,
         FJ!NilAnswer, FJ!AllReturned, FJ!AllOk, FJ!AllFailed, FJ!Ops
    <3> QED
      BY <2>10, <3>1, <3>2 DEF ReceiveClosed, FJ!Next, FJ!Answer
  <2>11. CASE UNCHANGED vars
    BY <2>11 DEF vars
  <2> QED
    BY <2>1, <2>2, <2>3, <2>4, <2>5, <2>6, <2>7, <2>8, <2>9, <2>10, <2>11
    DEF Next, Goroutine, Receive
<1> QED
  BY <1>1, <1>2, Invariance, PTL DEF Spec, Promise, FJ!Spec
=============================================================================
