----------------------------- MODULE Repository -----------------------------
(***************************************************************************)
(* A repository over a store of blocks (internal/repo/repo.go): a tree of  *)
(* records that is changed in memory, and commits that sign its root.      *)
(* The search tree itself is a library: here it is a function from keys to *)
(* the records they stand for.  Any call of the store or of the signer may *)
(* fail.                                                                   *)
(***************************************************************************)
EXTENDS Naturals, Sequences

CONSTANTS
  Key, Value,  \* paths and records
  Batch,       \* sequences of writes [action, key, value]
  MaxRev,      \* bound on the revisions taken
  Undef        \* no cid

\* What is assumed of them; the module that gives them values checks it.
RepositoryAssumption ==
  /\ MaxRev \in Nat /\ Undef \notin Value
  /\ \A b \in Batch : b \in Seq([action : {"Create", "Update", "Delete"}, key : Key, value : Value])

VARIABLES
  blocks,  \* the store: the cids it holds
  repo,    \* tree, the commit it was loaded from or made last, and dirty
  tid      \* the newest revision

vars == <<blocks, repo, tid>>

\* A cid is what it identifies.
Leaf(v)        == [kind |-> "leaf", value |-> v]
Node(tree)     == [kind |-> "node", tree |-> tree]
Commit(tree, n) == [kind |-> "commit", tree |-> tree, rev |-> n]
EmptyTree      == <<>>

New == [tree |-> EmptyTree, data |-> Undef, dirty |-> TRUE]

Init == blocks = {} /\ repo = New /\ tid = 0

-----------------------------------------------------------------------------
\* Add, Update and Delete of the tree; Undef for their error.
Apply(tree, w) ==
  LET here == w.key \in DOMAIN tree
  IN  IF here = (w.action = "Create") THEN Undef
      ELSE IF w.action = "Delete" THEN [k \in DOMAIN tree \ {w.key} |-> tree[k]]
      ELSE [k \in DOMAIN tree \cup {w.key} |-> IF k = w.key THEN w.value ELSE tree[k]]

\* The records that the first n writes of a batch put into the store.
Leaves(batch, n) == {Leaf(batch[i].value) : i \in {j \in 1..n : batch[j].action # "Delete"}}

SetTree(tree) == repo' = [repo EXCEPT !.tree = tree, !.dirty = TRUE]

Refused(w) == Apply(repo.tree, w) = Undef

\* Wrong: the error of the store is not looked at.
RecordUnchecked(w) ==
  /\ blocks' \in {blocks, blocks \cup Leaves(<<w>>, 1)}
  /\ ~Refused(w) /\ SetTree(Apply(repo.tree, w))
  /\ UNCHANGED tid

\* PutRecord, UpdateRecord and DeleteRecord: the record is stored, then the tree
\* is replaced.  Only a failing delete leaves the repository as it was.
Record(w) ==
  /\ \/ ~Refused(w) /\ blocks' = blocks \cup Leaves(<<w>>, 1) /\ SetTree(Apply(repo.tree, w))
     \/ /\ w.action # "Delete"
        /\ blocks' \in {blocks, blocks \cup Leaves(<<w>>, 1)} /\ SetTree(repo.tree)
  /\ UNCHANGED tid

\* Every write of a batch goes to the tree as it was before the batch, and the
\* result of the last one stays.  The call ends after n writes, perhaps with the
\* record of the next one stored.
ApplyWrites(batch) ==
  /\ \E n \in 0..Len(batch) :
       /\ \A i \in 1..n : ~Refused(batch[i])
       /\ SetTree(IF n = 0 THEN repo.tree ELSE Apply(repo.tree, batch[n]))
       /\ \E m \in {n, n + 1} : m <= Len(batch) /\ blocks' = blocks \cup Leaves(batch, m)
  /\ UNCHANGED tid

\* Commit writes the tree, then the signed commit; either may fail, and so may
\* the signer.
MakeCommit ==
  /\ tid < MaxRev
  /\ \/ UNCHANGED <<blocks, repo, tid>>
     \/ blocks' = blocks \cup {Node(repo.tree)} /\ tid' = tid + 1 /\ UNCHANGED repo
     \/ /\ blocks' = blocks \cup {Node(repo.tree), Commit(repo.tree, tid + 1)}
        /\ repo' = [repo EXCEPT !.data = repo.tree, !.dirty = FALSE]
        /\ tid' = tid + 1

\* The format of a commit for others to store: each write goes to the tree its
\* predecessor left, the tree is written, and the repository keeps its own.
FormatCommit(batch) ==
  LET grow[i \in 0..Len(batch)] ==
        IF i = 0 THEN repo.tree
        ELSE IF grow[i - 1] = Undef THEN Undef ELSE Apply(grow[i - 1], batch[i])
  IN  /\ tid < MaxRev /\ grow[Len(batch)] # Undef
      /\ blocks' = blocks \cup {Node(grow[Len(batch)])}
      /\ tid' = tid + 1 /\ UNCHANGED repo

\* Load opens the tree at the commit's own cid, not at its data.  Read as a node
\* of the tree, a commit has no entries.
Load(c) ==
  /\ c.kind = "commit"
  /\ repo' = [tree |-> EmptyTree, data |-> c.tree, dirty |-> FALSE]
  /\ UNCHANGED <<blocks, tid>>

\* What GetRecord answers: a record, or Undef when the key or its block is missing.
GetRecord(k) ==
  IF k \in DOMAIN repo.tree /\ Leaf(repo.tree[k]) \in blocks THEN repo.tree[k] ELSE Undef

Next ==
  \/ \E a \in {"Create", "Update", "Delete"}, k \in Key, v \in Value :
       Record([action |-> a, key |-> k, value |-> v])
  \/ \E b \in Batch : ApplyWrites(b) \/ FormatCommit(b)
  \/ MakeCommit
  \/ \E c \in blocks : Load(c)

Spec == Init /\ [][Next]_vars

-----------------------------------------------------------------------------
\* Properties.

\* Whatever fails half way, GetRecord finds every key of the tree, and a commit
\* in the store has its tree and its records there too.
NothingDangles ==
  /\ \A k \in DOMAIN repo.tree : GetRecord(k) # Undef
  /\ \A c \in blocks : c.kind = "commit" =>
       Node(c.tree) \in blocks /\ \A k \in DOMAIN c.tree : Leaf(c.tree[k]) \in blocks

\* "is.NoErr(r.GetRecord(ctx, "app.bsky.actor.profile", "self", &p))"
\* (internal/repo/repo_test.go:164, after Load of the commit that holds the
\* record): a repository without changes reads what its commit says.
LoadedIsCommitted ==
  ~repo.dirty => \A k \in DOMAIN repo.data : GetRecord(k) = repo.data[k]
=============================================================================
