----------------------------- MODULE MCSequencer ----------------------------
(***************************************************************************)
(* Model checking of Sequencer, with one of two casts.  Calls: three, of   *)
(* which two can race while a third starts after one of them has ended,    *)
(* with two subscribers.  Queues: three subscribers, so that a removal by  *)
(* a stale index can take the queue of one that is still open, with two    *)
(* calls.                                                                  *)
(***************************************************************************)
EXTENDS Sequencer, FiniteSets, TLC

VARIABLE cast

MCInit == Init /\ cast \in {"calls", "queues"}

MCNext ==
  /\ Next
  /\ IF cast = "calls"
     THEN Cardinality({s \in Sub : at'[s] # "new"}) <= 2
     ELSE Cardinality({c \in Call : pc'[c] # "new"}) <= 2
  /\ UNCHANGED cast

MCSpec == MCInit /\ [][MCNext]_<<vars, cast>>

Symmetry == Permutations(Call) \cup Permutations(Sub)
=============================================================================
