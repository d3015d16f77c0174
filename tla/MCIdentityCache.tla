-------------------------- MODULE MCIdentityCache ---------------------------
(* IdentityCache for TLC: one did, and handles whose record changes while it *)
(* keeps naming that did.  The TTLs are equal, as the command has them.    *)
EXTENDS IdentityCache, TLC

MCOwner == [h \in Handle |-> [v \in 1..(MaxChange + 1) |-> CHOOSE d \in Did : TRUE]]
Symmetry == Permutations(Proc)
=============================================================================
