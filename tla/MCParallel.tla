----------------------------- MODULE MCParallel -----------------------------
(***************************************************************************)
(* Model checking of Parallel.  Three jobs: one can deliver while another  *)
(* is blocked on its send and a third has not started.                     *)
(***************************************************************************)
EXTENDS Parallel

\* Calls made with a context that has been cancelled already, as TestDo_Cancel
\* makes one.
CancelledSpec == Init /\ ctx = "canceled" /\ [][Next]_vars
=============================================================================
