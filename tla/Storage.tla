------------------------------ MODULE Storage ------------------------------
(***************************************************************************)
(* What an account keeps beside its tables: its blob files, BlobStore, and *)
(* an open Repository.  Nothing joins the two in this code (the functions  *)
(* of internal/actorstore/blob.go 384-390 that would tie a record to its   *)
(* blobs are stubs), so they share no variable and each has its own Spec.  *)
(***************************************************************************)
EXTENDS Naturals, Sequences

CONSTANTS
  Cid, Inode, Nothing, Faults,    \* BlobStore's
  Key, Value, Edits, Revs, Undef  \* Repository's: Edits are its batches, Revs the bound on its revisions

VARIABLES
  data, temp, stored, quar, home, up, mod, broke,  \* BlobStore's
  blocks, repo, tid                                \* Repository's

blobs == <<data, temp, stored, quar, home, up, mod, broke>>
open  == <<blocks, repo, tid>>

Blobs == INSTANCE BlobStore
Repo  == INSTANCE Repository WITH Batch <- Edits, MaxRev <- Revs

\* BlobStore's invariant: without failing files, nobody is left with half a
\* blob (copyFile, PutPermanent and the renames of internal/repo/blobstore.go).
WholeWhenQuiet == Blobs!WholeWhenQuiet

\* Repository's invariant: whatever fails half way in internal/repo/repo.go, no key
\* of the tree and no commit lacks its blocks.
NothingDangles == Repo!NothingDangles
=============================================================================
