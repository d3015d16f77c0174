---------------------------- MODULE MCRepository ----------------------------
(***************************************************************************)
(* Repository for TLC: two keys, two records and batches of two writes.    *)
(***************************************************************************)
EXTENDS Repository

CONSTANTS k1, k2, v1, v2

Op(a, k, v) == [action |-> a, key |-> k, value |-> v]

MCBatch == {<<Op("Create", k1, v1), Op("Create", k2, v1)>>, <<Op("Update", k1, v2), Op("Delete", k2, v1)>>}
=============================================================================
