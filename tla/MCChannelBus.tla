---------------------------- MODULE MCChannelBus ----------------------------
(***************************************************************************)
(* Model checking of ChannelBus.  Two subscriptions and two publishers are *)
(* enough for messages to reach two subscribers in opposite orders and for *)
(* a subscription to close under a publisher; three subscriptions are      *)
(* needed before a stale index removes somebody else's queue.              *)
(*                                                                         *)
(* There are three casts: two publishers with one message each, and        *)
(* subscribers that leave of themselves; one publisher with two messages,  *)
(* and subscribers whose contexts can end; the same with one message and a *)
(* shutdown of the bus.  Whoever is interchangeable begins in a fixed      *)
(* order, which leaves out no behaviour but for the names in it (symmetry  *)
(* sets do not go with liveness).                                          *)
(***************************************************************************)
EXTENDS ChannelBus

VARIABLE cast

SubOrder == SetToSeq(Sub)
PubOrder == SetToSeq(Pub)

MCInit == Init /\ cast \in {"two publishers", "two messages", "shutdown"}

InOrder(started, order) == \A i \in 2..Len(order) : order[i] \in started => order[i - 1] \in started

MCNext ==
  /\ Next
  /\ InOrder({s \in Sub : cons'[s] # "new"}, SubOrder)
  /\ InOrder({p \in Pub : sent'[p] > 0}, PubOrder)
  /\ cast = "two publishers" => ended' = ended
  /\ cast # "two publishers" => \A i \in 2..Len(PubOrder) : sent'[PubOrder[i]] = 0
  /\ cast # "two messages" => \A p \in Pub : sent'[p] <= 1
  /\ cast # "shutdown" => shut' = shut
  /\ UNCHANGED cast

\* Nothing that Fairness asks for is held back by MCNext.
MCSpec == MCInit /\ [][MCNext]_<<vars, cast>> /\ Fairness

\* The bus is never shut down, as in cmd's server.
ServingSpec == MCInit /\ [][Serving /\ UNCHANGED cast]_<<vars, cast>>
=============================================================================
