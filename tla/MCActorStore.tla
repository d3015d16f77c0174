---------------------------- MODULE MCActorStore ----------------------------
(***************************************************************************)
(* Model checking of what an actor owns: its database, ActorStore, with    *)
(* two transactions at a time over batches that create, update and delete  *)
(* records with and without links; its blob files, BlobStore; and an open  *)
(* Repository.                                                             *)
(*                                                                         *)
(* A transaction opens a Repository only to format one commit, which       *)
(* ActorStore does itself, so nothing joins the three: a behaviour moves   *)
(* one of them, chosen at the start.                                       *)
(***************************************************************************)
EXTENDS ActorStore, Storage, TLC

CONSTANTS u1, u2, s1, t1, t2, c1, v1, v2

VARIABLE half  \* the one that moves

Op(a, u, v) == [action |-> a, key |-> u, value |-> v]

MCEdits == {<<Op("Create", u1, v1), Op("Create", u2, v1)>>, <<Op("Update", u1, v2), Op("Delete", u2, v1)>>}

ASSUME MCAssumption == Blobs!BlobStoreAssumption /\ Repo!RepositoryAssumption

W(a, u, ty) == [action |-> a, uri |-> u, content |-> [type |-> ty, subject |-> s1], swap |-> Absent]

MCBatch ==
  {<<W("create", u1, "follow")>>, <<W("create", u1, "like")>>, <<W("update", u1, "follow")>>,
   <<W("delete", u1, "follow")>>,
   <<W("create", u1, "follow"), W("create", u2, "follow")>>,
   <<[W("update", u1, "like") EXCEPT !.swap = [type |-> "follow", subject |-> s1]]>>}

MCInit == Init /\ Blobs!Init /\ Repo!Init /\ half \in {"records", "blobs", "repository"}

MCNext ==
  /\ \/ half = "records" /\ Next /\ UNCHANGED <<blobs, open>>
     \/ half = "blobs" /\ Blobs!Next /\ UNCHANGED <<vars, open>>
     \/ half = "repository" /\ Repo!Next /\ UNCHANGED <<vars, blobs>>
  /\ UNCHANGED half

MCSpec == MCInit /\ [][MCNext]_<<vars, blobs, open, half>>

Symmetry == Permutations(Tx)
=============================================================================
