------------------------------ MODULE ForkJoin ------------------------------
(***************************************************************************)
(* What a caller of internal/parallel is promised, without the goroutines, *)
(* the channel and the WaitGroup: some jobs finish, the context may be     *)
(* cancelled from outside, and one answer comes back.  Parallel implements *)
(* it; the transactions of the account and actor stores rely on it.        *)
(***************************************************************************)
CONSTANT Job

VARIABLES
  op,         \* which entry point was called
  outcome,    \* what each job function returned, "none" while it has not
  cancelled,  \* the caller's context ended before the answer
  err,        \* the error of the answer, "pending" before it
  val         \* the job whose value FirstOf answers with, "zero" for none

vars == <<op, outcome, cancelled, err, val>>

Ops     == {"Do", "Map", "FirstOf"}
CtxErrs == {"canceled", "deadline"}

AllReturned == \A j \in Job : outcome[j] # "none"
AllOk       == \A j \in Job : outcome[j] = "ok"
AllFailed   == \A j \in Job : outcome[j] = "err"

Init ==
  /\ op \in Ops
  /\ outcome = [j \in Job |-> "none"]
  /\ cancelled \in BOOLEAN
  /\ err = "pending"
  /\ val = "zero"

\* A job function returns, before or after the answer.
Finish(j) ==
  /\ outcome[j] = "none"
  /\ \E o \in {"ok", "err"} : outcome' = [outcome EXCEPT ![j] = o]
  /\ UNCHANGED <<op, cancelled, err, val>>

\* The caller's context is cancelled or runs into its deadline.
Cancel ==
  /\ err = "pending"
  /\ ~cancelled
  /\ cancelled' = TRUE
  /\ UNCHANGED <<op, outcome, err, val>>

\* "nil" without a value: every job function has returned, and either all
\* succeeded or the context was cancelled, which can hide failures.  A context
\* cancelled beforehand is no exception: the code may answer nil then too (the
\* run parallel_cancelled).  FirstOf answers so when every job failed.
NilAnswer ==
  /\ err' = "nil" /\ val' = "zero"
  /\ AllReturned
  /\ \/ cancelled
     \/ op = "FirstOf" /\ AllFailed
     \/ op # "FirstOf" /\ AllOk

\* The value of a job that succeeded (FirstOf only).
ValueAnswer ==
  /\ op = "FirstOf"
  /\ \E j \in Job : outcome[j] = "ok" /\ err' = "nil" /\ val' = j

\* The error of a job that failed; FirstOf gives up only when cancelled.
FailAnswer ==
  /\ \E j \in Job : outcome[j] = "err" /\ err' = j
  /\ op = "FirstOf" => cancelled
  /\ val' = "zero"

\* The context's own error, only when the caller's context ended.
CancelAnswer ==
  /\ cancelled
  /\ err' \in CtxErrs /\ val' = "zero"

Answer ==
  /\ err = "pending"
  /\ NilAnswer \/ ValueAnswer \/ FailAnswer \/ CancelAnswer
  /\ UNCHANGED <<op, outcome, cancelled>>

Next == (\E j \in Job : Finish(j)) \/ Cancel \/ Answer

Spec == Init /\ [][Next]_vars
=============================================================================
