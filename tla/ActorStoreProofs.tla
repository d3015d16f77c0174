-------------------------- MODULE ActorStoreProofs --------------------------
(***************************************************************************)
(* Proofs about ActorStore, for any transactions, uris, batches and bound  *)
(* on the revisions: what is committed is one whole operation of           *)
(* RecordIndex.  The invariant says what the view of a transaction that    *)
(* may still commit has become, job by job.                                *)
(***************************************************************************)
EXTENDS ActorStore, FiniteSetTheorems, TLAPS

\* The tree of a repository without records.
Empty == TreeOf(<<>>)

Tables(v) == v = [root |-> v.root, blocks |-> v.blocks, record |-> v.record, backlinks |-> v.backlinks]

\* The fields of a transaction.
Shaped(x) ==
  x = [pc |-> x.pc, op |-> x.op, did |-> x.did, writes |-> x.writes, view |-> x.view,
       todo |-> x.todo, failed |-> x.failed, ended |-> x.ended,
       commit |-> x.commit, new |-> x.new, removed |-> x.removed]

TxShape == tx = [t \in Tx |-> tx[t]] /\ \A t \in Tx : Shaped(tx[t])

\* What is committed: no link without its row, no root without its blocks, and no
\* second root, because the empty tree is there since the first.
DbWhole ==
  /\ Tables(db)
  /\ db.record \in [Uri -> Content \cup {Absent}]
  /\ \A l \in db.backlinks : l.uri \in Uri /\ db.record[l.uri] # Absent
  /\ db.root # {} => (\E r : db.root = {r} /\ Backed(r)) /\ Node(Empty) \in db.blocks

\* Whoever has written holds the lock.
OneWriter ==
  /\ lock \in Tx \cup {Absent}
  /\ \A t \in Tx : tx[t].pc \in {"jobs", "commit"} => lock = t

\* FormatCommit replaces a root.
Replaces == \A t \in Tx : tx[t].pc = "tree" => tx[t].removed # {}

Todo(t, name) == <<name, 0>> \in tx[t].todo

\* The rows of repo_root and the blocks that the view of a new repository has.
RootsSoFar(t) == IF Todo(t, "root") THEN {} ELSE {[did |-> tx[t].did, cid |-> tx[t].commit]}
BlocksSoFar(t) == db.blocks \cup {Node(Empty)} \cup (IF Todo(t, "put") THEN {} ELSE tx[t].new)

\* CreateRepo without records, on its way.
Founding(t) ==
  /\ tx[t].writes = <<>> /\ db.root = {}
  /\ tx[t].todo \subseteq {"root", "put", "delete"} \X {0}
  /\ \E n : tx[t].commit = Commit(n, Empty)
  /\ tx[t].new = {tx[t].commit} /\ tx[t].removed = {}
  /\ tx[t].view = [root |-> RootsSoFar(t), blocks |-> BlocksSoFar(t),
                   record |-> db.record, backlinks |-> db.backlinks]

\* With records there are two blocks to put, which cannot succeed.
CannotFound(t) == Todo(t, "put") /\ Cardinality(tx[t].new) > 1

OfOthers(d, u) == {l \in d.backlinks : l.uri # u}

\* The rows and the links that the view of a removal has left.
RowsSoFar(t, u) == IF Todo(t, "row") THEN db.record ELSE [db.record EXCEPT ![u] = Absent]
LinksSoFar(t, u) == IF Todo(t, "links") THEN db.backlinks ELSE OfOthers(db, u)

\* A record is being removed.
Removing(t) ==
  \E u \in Uri :
    /\ tx[t].writes[1].uri = u
    /\ tx[t].todo \subseteq {"row", "links"} \X {0}
    /\ tx[t].view = [root |-> db.root, blocks |-> db.blocks,
                     record |-> RowsSoFar(t, u), backlinks |-> LinksSoFar(t, u)]

\* The jobs of a transaction that has not failed.
JobsInHand ==
  \A t \in Tx : tx[t].pc = "jobs" /\ ~tx[t].failed =>
    \/ tx[t].op = "process" /\ Todo(t, "delete") /\ tx[t].removed # {}
    \/ tx[t].op = "create" /\ (Founding(t) \/ CannotFound(t))
    \/ tx[t].op = "unindex" /\ Removing(t)

\* What may be committed over the tables d.
Founds(d, v) ==
  /\ d.root = {}
  /\ \E did, n :
       v = [root |-> {[did |-> did, cid |-> Commit(n, Empty)]},
            blocks |-> d.blocks \cup {Node(Empty), Commit(n, Empty)},
            record |-> d.record, backlinks |-> d.backlinks]

Formats(d, v) ==
  \E tree : v = [root |-> d.root, blocks |-> d.blocks \cup {Node(tree)},
                 record |-> d.record, backlinks |-> d.backlinks]

Removes(d, v) ==
  \E u \in Uri : v = [root |-> d.root, blocks |-> d.blocks,
                      record |-> [d.record EXCEPT ![u] = Absent], backlinks |-> OfOthers(d, u)]

Indexes(d, v) ==
  \E w \in Write : w.action # "delete" /\ v = IndexRecord(d, w) /\ v # Absent

Whole(d, v) == Founds(d, v) \/ Formats(d, v) \/ Removes(d, v) \/ Indexes(d, v)

CommitsWhole == \A t \in Tx : tx[t].pc = "commit" /\ ~tx[t].ended => Whole(db, tx[t].view)

IInv ==
  /\ TxShape /\ DbWhole
  /\ OneWriter /\ Replaces
  /\ JobsInHand /\ CommitsWhole

-----------------------------------------------------------------------------
\* The operations of RecordIndex.

\* Every backlink of a record carries the uri of that record.
LEMMA LinksOfUri ==
  ASSUME NEW u, NEW c, NEW l \in Links(u, c)
  PROVE  l.uri = u
BY DEF Links

\* A created record brings its links, an updated one loses those it had.
LEMMA IndexedRow ==
  ASSUME DbWhole, NEW w \in Write, w.action # "delete", IndexRecord(db, w) # Absent
  PROVE  \E links :
           /\ IndexRecord(db, w) =
                [root |-> db.root, blocks |-> db.blocks,
                 record |-> [db.record EXCEPT ![w.uri] = w.content], backlinks |-> links]
           /\ links = db.backlinks \cup Links(w.uri, w.content) \/ links = OfOthers(db, w.uri)
<1>1. CASE w.action = "update"
  BY <1>1 DEF IndexRecord, OfOthers, DbWhole, Tables
<1>2. CASE w.action # "update"
  BY <1>2 DEF IndexRecord, DbWhole, Tables
<1> QED BY <1>1, <1>2

\* Whatever whole operation is committed, the tables stay whole.
LEMMA WholeStaysWhole ==
  ASSUME DbWhole, Whole(db, db')
  PROVE  DbWhole'
<1>1. CASE Founds(db, db')
  <2>1. PICK did, n :
       db' = [root |-> {[did |-> did, cid |-> Commit(n, Empty)]},
            blocks |-> db.blocks \cup {Node(Empty), Commit(n, Empty)},
            record |-> db.record, backlinks |-> db.backlinks]
    BY <1>1 DEF Founds
  <2>2. Commit(n, Empty).tree = Empty
    BY DEF Commit
  <2> QED BY <2>1, <2>2 DEF DbWhole, Tables, Backed
<1>2. CASE Formats(db, db')
  BY <1>2 DEF DbWhole, Tables, Backed, Formats
<1>3. CASE Removes(db, db')
  <2>1. PICK u \in Uri : db' = [root |-> db.root, blocks |-> db.blocks,
                      record |-> [db.record EXCEPT ![u] = Absent], backlinks |-> OfOthers(db, u)]
    BY <1>3 DEF Removes
  <2> QED BY <2>1 DEF DbWhole, Tables, Backed, OfOthers
<1>4. CASE Indexes(db, db')
  <2>1. PICK w \in Write : w.action # "delete" /\ db' = IndexRecord(db, w) /\ db' # Absent
    BY <1>4 DEF Indexes
  <2>2. PICK links :
           /\ db' = [root |-> db.root, blocks |-> db.blocks,
                 record |-> [db.record EXCEPT ![w.uri] = w.content], backlinks |-> links]
           /\ links = db.backlinks \cup Links(w.uri, w.content) \/ links = OfOthers(db, w.uri)
    BY <2>1, IndexedRow
  <2>3. w.uri \in Uri /\ w.content \in Content /\ w.content # Absent
    BY ActorStoreAssumption DEF Write
  <2>4. \A l \in links : l.uri \in Uri /\ (l.uri = w.uri \/ l \in db.backlinks)
    BY <2>2, <2>3, LinksOfUri DEF OfOthers, DbWhole
  <2>5. /\ db'.record \in [Uri -> Content \cup {Absent}]
        /\ \A l \in db'.backlinks : l.uri \in Uri /\ db'.record[l.uri] # Absent
    BY <2>2, <2>3, <2>4 DEF DbWhole
  <2> QED BY <2>2, <2>5 DEF DbWhole, Tables, Backed
<1> QED BY <1>1, <1>2, <1>3, <1>4 DEF Whole

\* A commit and the records' blocks are more than one block.
LEMMA TwoBlocks ==
  ASSUME NEW n, NEW tree, NEW writes \in Seq(Write), writes # <<>>
  PROVE  Cardinality({Commit(n, tree)} \cup {Leaf(writes[i].content) : i \in DOMAIN writes}) > 1
<1> DEFINE L == {Leaf(writes[i].content) : i \in DOMAIN writes}
           f == [i \in 1..Len(writes) |-> Leaf(writes[i].content)]
<1>1. Len(writes) \in Nat /\ DOMAIN writes = 1..Len(writes) /\ 1 \in DOMAIN writes
  OBVIOUS
<1>2. IsFiniteSet(L)
  <2>1. IsFiniteSet(1..Len(writes))
    BY <1>1, FS_Interval
  <2>2. f \in [1..Len(writes) -> L]
    BY <1>1
  <2>3. \A x \in L : \E i \in 1..Len(writes) : f[i] = x
    BY <1>1
  <2>4. f \in Surjection(1..Len(writes), L)
    BY <2>2, <2>3 DEF Surjection
  <2> QED BY <2>1, <2>4, FS_Surjection
<1>3. Leaf(writes[1].content) \in L
  BY <1>1
<1>4. Commit(n, tree) \notin L
  BY DEF Commit, Leaf
<1> HIDE DEF L
<1>5. Cardinality(L) \in Nat /\ Cardinality(L) # 0
  BY <1>2, <1>3, FS_EmptySet, FS_CardinalityType
<1>6. Cardinality(L \cup {Commit(n, tree)}) = Cardinality(L) + 1
  BY <1>2, <1>4, FS_AddElement
<1>7. Cardinality({Commit(n, tree)} \cup L) > 1
  <2>1. L \cup {Commit(n, tree)} = {Commit(n, tree)} \cup L
    OBVIOUS
  <2>2. Cardinality(L) + 1 > 1
    BY <1>5
  <2> QED BY <1>6, <2>1, <2>2
<1> QED BY <1>7 DEF L

\* The empty database and idle transactions satisfy the invariant.
LEMMA InitIInv == Init => IInv
<1> SUFFICES ASSUME Init PROVE IInv
  OBVIOUS
<1>1. \A t \in Tx : tx[t] = IdleTx
  BY DEF Init
<1>2. TxShape
  BY <1>1 DEF Init, IdleTx, TxShape, Shaped
<1>3. DbWhole
  BY DEF Init, EmptyDb, DbWhole, Tables
<1>4. OneWriter /\ Replaces /\ JobsInHand /\ CommitsWhole
  BY <1>1 DEF Init, IdleTx, OneWriter, Replaces, JobsInHand, CommitsWhole
<1> QED BY <1>2, <1>3, <1>4 DEF IInv

\* What the invariant says of one transaction.
TxOk(t) ==
  /\ tx[t].pc \in {"jobs", "commit"} => lock = t
  /\ tx[t].pc = "tree" => tx[t].removed # {}
  /\ tx[t].pc = "jobs" /\ ~tx[t].failed =>
       \/ tx[t].op = "process" /\ Todo(t, "delete") /\ tx[t].removed # {}
       \/ tx[t].op = "create" /\ (Founding(t) \/ CannotFound(t))
       \/ tx[t].op = "unindex" /\ Removing(t)
  /\ tx[t].pc = "commit" /\ ~tx[t].ended => Whole(db, tx[t].view)

\* The invariant, taken apart into what it says of one transaction at a time.
LEMMA EachTx == IInv <=> /\ TxShape /\ DbWhole /\ lock \in Tx \cup {Absent}
                         /\ \A t \in Tx : TxOk(t)
BY DEF IInv, OneWriter, Replaces, JobsInHand, CommitsWhole, TxOk

\* The jobs in the hand of a transaction are about nothing else than its fields
\* and the tables.
LEMMA SameHand ==
  ASSUME NEW t \in Tx, db' = db,
         tx'[t].did = tx[t].did, tx'[t].writes = tx[t].writes, tx'[t].view = tx[t].view,
         tx'[t].todo = tx[t].todo, tx'[t].commit = tx[t].commit, tx'[t].new = tx[t].new,
         tx'[t].removed = tx[t].removed
  PROVE  /\ Founding(t) => Founding(t)'
         /\ CannotFound(t) => CannotFound(t)'
         /\ Removing(t) => Removing(t)'
<1>1. \A name : Todo(t, name)' = Todo(t, name)
  BY DEF Todo
<1>2. RootsSoFar(t)' = RootsSoFar(t) /\ BlocksSoFar(t)' = BlocksSoFar(t)
  BY <1>1 DEF RootsSoFar, BlocksSoFar
<1>3. \A u : RowsSoFar(t, u)' = RowsSoFar(t, u) /\ LinksSoFar(t, u)' = LinksSoFar(t, u)
  BY <1>1 DEF RowsSoFar, LinksSoFar, OfOthers
<1>4. Founding(t) => Founding(t)'
  BY <1>2 DEF Founding
<1>5. CannotFound(t) => CannotFound(t)'
  BY <1>1 DEF CannotFound
<1>6. Removing(t) => Removing(t)'
  BY <1>3 DEF Removing
<1> QED BY <1>4, <1>5, <1>6

\* A step of one transaction that commits nothing, from whose lock the others
\* are kept.
LEMMA OneMoves ==
  ASSUME IInv, NEW t \in Tx, NEW to, Shaped(to),
         db' = db, tx' = [tx EXCEPT ![t] = to],
         \/ lock' = lock
         \/ lock \in {Absent, t} /\ lock' \in {Absent, t},
         TxOk(t)'
  PROVE  IInv'
<1>1. TxShape'
  BY DEF IInv, TxShape, Shaped
<1>2. DbWhole'
  BY DEF IInv, DbWhole, Tables, Backed
<1>3. lock' \in Tx \cup {Absent}
  BY DEF IInv, OneWriter
<1>4. ASSUME NEW s \in Tx PROVE TxOk(s)'
  <2>1. CASE s = t
    BY <2>1
  <2>2. CASE s # t
    <3>1. tx'[s] = tx[s] /\ TxOk(s)
      BY <2>2, EachTx DEF IInv, TxShape
    <3>2. tx[s].pc \in {"jobs", "commit"} => lock = s /\ lock' = lock
      BY <2>2, <3>1, ActorStoreAssumption DEF TxOk
    <3>3. /\ Founding(s) => Founding(s)'
          /\ CannotFound(s) => CannotFound(s)'
          /\ Removing(s) => Removing(s)'
      BY <3>1, SameHand
    <3>4. Whole(db, tx[s].view) => Whole(db, tx[s].view)'
      BY <3>1
    <3> QED BY <3>1, <3>2, <3>3, <3>4 DEF TxOk, Todo
  <2> QED BY <2>1, <2>2
<1> QED BY <1>1, <1>2, <1>3, <1>4 DEF IInv, OneWriter, Replaces, JobsInHand, CommitsWhole, TxOk

-----------------------------------------------------------------------------
\* The steps of a transaction.

\* The writes of a batch are writes.
LEMMA BatchesOfOne ==
  ASSUME NEW b \in Batch, Len(b) = 1
  PROVE  b[1] \in Write
BY ActorStoreAssumption

\* Every step of a transaction that commits nothing keeps the invariant.
LEMMA StepsKeep ==
  ASSUME IInv, NEW t \in Tx, TxStep(t), ~CommitTx(t)
  PROVE  IInv'
<1> USE DEF At, Go
<1>0. TxOk(t) /\ Shaped(tx[t]) /\ DbWhole /\ t # Absent
      /\ \A to : (tx' = [tx EXCEPT ![t] = to]) => tx'[t] = to
  BY EachTx, ActorStoreAssumption DEF TxShape, IInv
<1>1. ASSUME GiveUp(t) PROVE IInv'
  <2>1. Shaped(IdleTx) /\ IdleTx.pc = "idle"
    BY DEF Shaped, IdleTx
  <2>2. db' = db /\ tx' = [tx EXCEPT ![t] = IdleTx] /\ lock' = IF lock = t THEN Absent ELSE lock
    BY <1>1 DEF GiveUp
  <2>3. TxOk(t)'
    BY <1>0, <2>1, <2>2 DEF TxOk
  <2> QED BY <2>1, <2>2, <2>3, OneMoves
<1>2. ASSUME End(t) PROVE IInv'
  <2>0. PICK to : to = [tx[t] EXCEPT !.ended = TRUE]
    OBVIOUS
  <2>1. Shaped(to)
    BY <1>0, <2>0 DEF Shaped
  <2>2. UNCHANGED <<db, lock>> /\ tx' = [tx EXCEPT ![t] = to] /\ tx[t].pc # "idle"
    BY <1>2, <2>0 DEF End
  <2>3. tx'[t] = to /\ to.ended /\ to.pc = tx[t].pc /\ to.op = tx[t].op /\ to.did = tx[t].did
        /\ to.writes = tx[t].writes /\ to.view = tx[t].view /\ to.todo = tx[t].todo
        /\ to.failed = tx[t].failed /\ to.commit = tx[t].commit /\ to.new = tx[t].new
        /\ to.removed = tx[t].removed
    BY <1>0, <2>0, <2>2 DEF Shaped
  <2>4. /\ Founding(t) => Founding(t)'
        /\ CannotFound(t) => CannotFound(t)'
        /\ Removing(t) => Removing(t)'
    BY <2>2, <2>3, SameHand
  <2>5. TxOk(t)'
    BY <1>0, <2>2, <2>3, <2>4 DEF TxOk, Todo
  <2> QED BY <2>1, <2>2, <2>5, OneMoves
<1>3. ASSUME NEW did, NEW b \in Batch \cup {<<>>}, CreateRepo(t, did, b) PROVE IInv'
  <2> DEFINE tree == TreeOf(b)
             cid  == Commit(rev + 1, tree)
             new  == {cid} \cup {Leaf(b[i].content) : i \in DOMAIN b}
  <2>00. PICK view : view = [db EXCEPT !.blocks = @ \cup {Node(tree)}]
    OBVIOUS
  <2>0. PICK to : to = [IdleTx EXCEPT !.pc = "jobs", !.did = did, !.writes = b, !.op = "create",
                        !.view = view,
                        !.todo = CommitJobs(b), !.commit = cid, !.new = new]
    OBVIOUS
  <2>1. /\ lock \in {Absent, t} /\ lock' = t /\ db' = db /\ tx' = [tx EXCEPT ![t] = to]
        /\ Node(tree) \notin db.blocks
    BY <1>3, <2>00, <2>0 DEF CreateRepo, CanWrite
  <2>2. Shaped(to) /\ to.pc = "jobs" /\ to.op = "create" /\ to.did = did /\ to.writes = b
        /\ to.todo = CommitJobs(b) /\ to.commit = cid /\ to.new = new /\ to.removed = {} /\ ~to.failed
        /\ to.view = [root |-> db.root, blocks |-> db.blocks \cup {Node(tree)}, record |-> db.record,
                      backlinks |-> db.backlinks]
    <3>1. view = [root |-> db.root, blocks |-> db.blocks \cup {Node(tree)}, record |-> db.record,
                  backlinks |-> db.backlinks]
      BY <1>0, <2>00 DEF DbWhole, Tables
    <3> HIDE DEF tree, cid, new
    <3> QED BY <2>0, <3>1 DEF IdleTx, Shaped
  <2>3. tx'[t] = to
    BY <1>0, <2>1
  <2>4. <<"root", 0>> \in CommitJobs(b) /\ <<"put", 0>> \in CommitJobs(b)
    BY DEF CommitJobs
  <2>5. CASE b = <<>>
    <3>1. DOMAIN b = {}
      BY <2>5
    <3>2. new = {cid} /\ CommitJobs(b) \subseteq {"root", "put", "delete"} \X {0}
      BY <3>1 DEF CommitJobs
    <3>3. db.root = {} /\ tree = Empty
      BY <1>0, <2>1, <2>5 DEF DbWhole, Empty
    <3>4. Founding(t)'
      <4>1. RootsSoFar(t)' = {} /\ BlocksSoFar(t)' = db.blocks \cup {Node(tree)}
        BY <2>1, <2>2, <2>3, <2>4, <3>3 DEF RootsSoFar, BlocksSoFar, Todo
      <4> QED BY <2>1, <2>2, <2>3, <2>5, <3>2, <3>3, <4>1 DEF Founding
    <3> QED BY <2>1, <2>2, <2>3, <3>4, OneMoves DEF TxOk
  <2>6. CASE b # <<>>
    <3>1. Cardinality(new) > 1
      BY <2>6, ActorStoreAssumption, TwoBlocks
    <3>2. CannotFound(t)'
      BY <2>2, <2>3, <2>4, <3>1 DEF CannotFound, Todo
    <3> QED BY <2>1, <2>2, <2>3, <3>2, OneMoves DEF TxOk
  <2> QED BY <2>5, <2>6
<1>4. ASSUME NEW op, NEW b, NEW swap, CheckSwaps(t, op, b, swap) PROVE IInv'
  <2>0. PICK r, to :
          /\ r \in db.root
          /\ to = [IdleTx EXCEPT !.pc = "tree", !.op = op, !.writes = b, !.view = db, !.removed = {r.cid}]
          /\ tx' = [tx EXCEPT ![t] = to]
    BY <1>4 DEF CheckSwaps
  <2>1. UNCHANGED <<db, lock>>
    BY <1>4 DEF CheckSwaps
  <2>2. Shaped(to) /\ to.pc = "tree" /\ to.removed # {}
    BY <2>0 DEF IdleTx, Shaped
  <2>3. tx'[t] = to
    BY <1>0, <2>0
  <2>4. TxOk(t)'
    BY <2>2, <2>3 DEF TxOk
  <2> QED BY <2>0, <2>1, <2>2, <2>4, OneMoves
<1>5. ASSUME FormatTree(t) PROVE IInv'
  <2> DEFINE tree == TreeOf(tx[t].writes)
             cid  == Commit(rev + 1, tree)
  <2>1. lock \in {Absent, t} /\ lock' = t /\ db' = db /\ tx[t].removed # {}
    BY <1>0, <1>5 DEF FormatTree, CanWrite, TxOk
  <2>2. CASE tx[t].op = "process"
    <3>1. PICK to :
            /\ to = [tx[t] EXCEPT !.pc = "jobs", !.view.blocks = @ \cup {Node(tree)}, !.commit = cid,
                       !.new = {cid} \cup {Leaf(tree[u]) : u \in DOMAIN tree},
                       !.todo = CommitJobs(tx[t].writes)]
            /\ tx' = [tx EXCEPT ![t] = to]
      BY <1>5, <2>2 DEF FormatTree
    <3>2. Shaped(to) /\ to.pc = "jobs" /\ to.op = "process"
          /\ to.removed = tx[t].removed /\ to.todo = CommitJobs(tx[t].writes)
      BY <1>0, <2>2, <3>1 DEF Shaped
    <3>3. <<"delete", 0>> \in CommitJobs(tx[t].writes) /\ tx'[t] = to
      BY <1>0, <3>1 DEF CommitJobs
    <3>4. TxOk(t)'
      BY <2>1, <3>2, <3>3 DEF TxOk, Todo
    <3> QED BY <2>1, <3>1, <3>2, <3>4, OneMoves
  <2>3. CASE tx[t].op # "process"
    <3>0. PICK view : view = [db EXCEPT !.blocks = @ \cup {Node(tree)}]
      OBVIOUS
    <3>1. PICK to :
            /\ to = [IdleTx EXCEPT !.pc = "commit", !.op = "format", !.view = view]
            /\ tx' = [tx EXCEPT ![t] = to]
      BY <1>5, <2>3, <3>0 DEF FormatTree
    <3>2. Shaped(to) /\ to.pc = "commit" /\ to.view = view /\ tx'[t] = to
      BY <1>0, <3>1 DEF Shaped, IdleTx
    <3>3. Formats(db, view)
      BY <1>0, <3>0 DEF Formats, DbWhole, Tables
    <3>4. Formats(db, tx[t].view)'
      BY <2>1, <3>2, <3>3 DEF Formats
    <3>5. TxOk(t)'
      BY <2>1, <3>2, <3>4 DEF TxOk, Whole
    <3> QED BY <2>1, <3>1, <3>2, <3>5, OneMoves
  <2> QED BY <2>2, <2>3
<1>6. ASSUME NEW w \in Write, IndexOne(t, w) PROVE IInv'
  <2>0. PICK to :
          /\ to = [IdleTx EXCEPT !.pc = "commit", !.op = "index", !.view = IndexRecord(db, w)]
          /\ tx' = [tx EXCEPT ![t] = to]
    BY <1>6 DEF IndexOne
  <2>1. /\ lock \in {Absent, t} /\ lock' = t /\ db' = db
        /\ w.action # "delete" /\ IndexRecord(db, w) # Absent
    BY <1>6 DEF IndexOne, CanWrite
  <2>2. Shaped(to) /\ to.pc = "commit" /\ to.view = IndexRecord(db, w) /\ tx'[t] = to
    BY <1>0, <2>0 DEF Shaped, IdleTx
  <2>3. Indexes(db, tx[t].view)'
    BY <2>1, <2>2 DEF Indexes
  <2>4. TxOk(t)'
    BY <2>1, <2>2, <2>3 DEF TxOk, Whole
  <2> QED BY <2>0, <2>1, <2>2, <2>4, OneMoves
<1>7. ASSUME NEW w \in Write, DeleteRecord(t, w) PROVE IInv'
  <2>0. PICK to :
          /\ to = [IdleTx EXCEPT !.pc = "jobs", !.op = "unindex", !.writes = <<w>>, !.view = db,
                                 !.todo = {"row", "links"} \X {0}]
          /\ tx' = [tx EXCEPT ![t] = to]
    BY <1>7 DEF DeleteRecord
  <2>1. lock \in {Absent, t} /\ lock' = t /\ db' = db
    BY <1>7 DEF DeleteRecord, CanWrite
  <2>2. Shaped(to) /\ to.pc = "jobs" /\ to.op = "unindex" /\ to.writes = <<w>> /\ to.view = db
        /\ to.todo = {"row", "links"} \X {0} /\ tx'[t] = to
    BY <1>0, <2>0 DEF Shaped, IdleTx
  <2>3. <<"row", 0>> \in to.todo /\ <<"links", 0>> \in to.todo /\ w.uri \in Uri /\ to.writes[1].uri = w.uri
    BY <2>2 DEF Write
  <2>4. Removing(t)'
    <3>1. RowsSoFar(t, w.uri)' = db.record /\ LinksSoFar(t, w.uri)' = db.backlinks
      BY <2>1, <2>2, <2>3 DEF RowsSoFar, LinksSoFar, Todo
    <3> QED BY <1>0, <2>1, <2>2, <2>3, <3>1 DEF Removing, DbWhole, Tables
  <2>5. TxOk(t)'
    BY <2>1, <2>2, <2>4 DEF TxOk
  <2> QED BY <2>0, <2>1, <2>2, <2>5, OneMoves
<1>8. ASSUME NEW j \in tx[t].todo, JobDone(t, j) PROVE IInv'
  <2>0. PICK to :
          /\ to = [tx[t] EXCEPT !.view = JobResult(t, j), !.todo = @ \ {j}]
          /\ tx' = [tx EXCEPT ![t] = to]
    BY <1>8 DEF JobDone
  <2>1. UNCHANGED <<db, lock>> /\ tx[t].pc = "jobs" /\ JobResult(t, j) # Absent
    BY <1>8 DEF JobDone
  <2>2. Shaped(to) /\ to.pc = "jobs" /\ to.op = tx[t].op /\ to.did = tx[t].did /\ to.writes = tx[t].writes
        /\ to.view = JobResult(t, j) /\ to.todo = tx[t].todo \ {j} /\ to.failed = tx[t].failed
        /\ to.commit = tx[t].commit /\ to.new = tx[t].new /\ to.removed = tx[t].removed
        /\ tx'[t] = to
    BY <1>0, <2>0, <2>1 DEF Shaped
  <2>3. ASSUME tx[t].removed # {} PROVE j # <<"delete", 0>>
    BY <2>1, <2>3 DEF JobResult, DeleteMany
  <2>4. ASSUME CannotFound(t) PROVE CannotFound(t)'
    <3>1. j # <<"put", 0>>
      BY <2>1, <2>4 DEF CannotFound, JobResult, PutMany
    <3> QED BY <2>2, <2>4, <3>1 DEF CannotFound, Todo
  <2>5. ASSUME Founding(t) PROVE Founding(t)'
    <3>0. PICK root, blocks :
            /\ root = RootsSoFar(t) /\ blocks = BlocksSoFar(t)
            /\ tx[t].view = [root |-> root, blocks |-> blocks, record |-> db.record,
                             backlinks |-> db.backlinks]
      BY <2>5 DEF Founding
    <3>v. ASSUME JobResult(t, j) = [root |-> RootsSoFar(t)', blocks |-> BlocksSoFar(t)',
                                    record |-> db.record, backlinks |-> db.backlinks]
          PROVE  Founding(t)'
      BY <2>1, <2>2, <2>5, <3>v DEF Founding
    <3>1. CASE j = <<"root", 0>>
      <4>1. root = {}
        BY <3>0, <3>1 DEF RootsSoFar, Todo
      <4>2. JobResult(t, j) = [root |-> {[did |-> tx[t].did, cid |-> tx[t].commit]}, blocks |-> blocks,
                               record |-> db.record, backlinks |-> db.backlinks]
        BY <3>0, <3>1, <4>1 DEF JobResult, UpdateRoot
      <4>3. ~Todo(t, "root")' /\ Todo(t, "put")' = Todo(t, "put")
        BY <2>2, <3>1 DEF Todo
      <4>4. RootsSoFar(t)' = {[did |-> tx[t].did, cid |-> tx[t].commit]} /\ BlocksSoFar(t)' = blocks
        BY <2>1, <2>2, <3>0, <4>3 DEF RootsSoFar, BlocksSoFar
      <4> QED BY <3>v, <4>2, <4>4
    <3>2. CASE j = <<"put", 0>>
      <4>1. JobResult(t, j) = [root |-> root, blocks |-> blocks \cup tx[t].new,
                               record |-> db.record, backlinks |-> db.backlinks]
        <5>1. JobResult(t, j) = PutMany(tx[t].view, tx[t].new)
          BY <3>2 DEF JobResult
        <5>2. PICK v : v = tx[t].view
          OBVIOUS
        <5>3. v = [root |-> root, blocks |-> blocks, record |-> db.record, backlinks |-> db.backlinks]
          BY <3>0, <5>2
        <5>4. JobResult(t, j) = [v EXCEPT !.blocks = @ \cup tx[t].new]
          BY <2>1, <5>1, <5>2 DEF PutMany
        <5> QED BY <5>3, <5>4
      <4>2. ~Todo(t, "put")' /\ Todo(t, "root")' = Todo(t, "root") /\ Todo(t, "put")
        BY <2>2, <3>2 DEF Todo
      <4>3. RootsSoFar(t)' = root /\ BlocksSoFar(t)' = blocks \cup tx[t].new
        BY <2>1, <2>2, <3>0, <4>2 DEF RootsSoFar, BlocksSoFar
      <4> QED BY <3>v, <4>1, <4>3
    <3>3. CASE j = <<"delete", 0>>
      <4>1. JobResult(t, j) = tx[t].view
        BY <2>1, <3>3 DEF JobResult, DeleteMany
      <4>2. Todo(t, "put")' = Todo(t, "put") /\ Todo(t, "root")' = Todo(t, "root")
        BY <2>2, <3>3 DEF Todo
      <4>3. RootsSoFar(t)' = root /\ BlocksSoFar(t)' = blocks
        BY <2>1, <2>2, <3>0, <4>2 DEF RootsSoFar, BlocksSoFar
      <4> QED BY <3>0, <3>v, <4>1, <4>3
    <3> QED BY <2>5, <3>1, <3>2, <3>3 DEF Founding
  <2>6. ASSUME Removing(t) PROVE Removing(t)'
    <3>1. PICK u, record, backlinks :
            /\ u \in Uri
            /\ tx[t].writes[1].uri = u
            /\ tx[t].todo \subseteq {"row", "links"} \X {0}
            /\ record = RowsSoFar(t, u) /\ backlinks = LinksSoFar(t, u)
            /\ tx[t].view = [root |-> db.root, blocks |-> db.blocks, record |-> record,
                             backlinks |-> backlinks]
      BY <2>6 DEF Removing
    <3>v. ASSUME JobResult(t, j) = [root |-> db.root, blocks |-> db.blocks,
                                    record |-> RowsSoFar(t, u)', backlinks |-> LinksSoFar(t, u)']
          PROVE  Removing(t)'
      BY <2>1, <2>2, <3>1, <3>v DEF Removing
    <3>2. CASE j = <<"row", 0>>
      <4>1. JobResult(t, j) = [root |-> db.root, blocks |-> db.blocks,
                               record |-> [record EXCEPT ![u] = Absent], backlinks |-> backlinks]
        BY <3>1, <3>2 DEF JobResult
      <4>2. ~Todo(t, "row")' /\ Todo(t, "links")' = Todo(t, "links") /\ Todo(t, "row")
        BY <2>2, <3>2 DEF Todo
      <4>3. record = db.record
        BY <3>1, <4>2 DEF RowsSoFar
      <4>4. RowsSoFar(t, u)' = [record EXCEPT ![u] = Absent] /\ LinksSoFar(t, u)' = backlinks
        BY <2>1, <3>1, <4>2, <4>3 DEF RowsSoFar, LinksSoFar, OfOthers
      <4> QED BY <3>v, <4>1, <4>4
    <3>3. CASE j = <<"links", 0>>
      <4>1. JobResult(t, j) = [root |-> db.root, blocks |-> db.blocks,
                               record |-> record, backlinks |-> {l \in backlinks : l.uri # u}]
        <5>1. JobResult(t, j) = [tx[t].view EXCEPT !.backlinks = {l \in @ : l.uri # tx[t].writes[1].uri}]
          BY <3>3 DEF JobResult
        <5>2. PICK v : v = tx[t].view
          OBVIOUS
        <5>3. v = [root |-> db.root, blocks |-> db.blocks, record |-> record, backlinks |-> backlinks]
          BY <3>1, <5>2
        <5>4. JobResult(t, j) = [v EXCEPT !.backlinks = {l \in @ : l.uri # u}]
          BY <3>1, <5>1, <5>2
        <5> QED BY <5>3, <5>4
      <4>2. ~Todo(t, "links")' /\ Todo(t, "row")' = Todo(t, "row") /\ Todo(t, "links")
        BY <2>2, <3>3 DEF Todo
      <4>3. backlinks = db.backlinks
        BY <3>1, <4>2 DEF LinksSoFar
      <4>4. LinksSoFar(t, u)' = {l \in backlinks : l.uri # u} /\ RowsSoFar(t, u)' = record
        BY <2>1, <3>1, <4>2, <4>3 DEF RowsSoFar, LinksSoFar, OfOthers
      <4> QED BY <3>v, <4>1, <4>4
    <3> QED BY <3>1, <3>2, <3>3
  <2>7. TxOk(t)'
    BY <1>0, <2>1, <2>2, <2>3, <2>4, <2>5, <2>6 DEF TxOk, Todo
  <2> QED BY <2>0, <2>1, <2>2, <2>7, OneMoves
<1>9. ASSUME NEW j \in tx[t].todo, JobFails(t, j) PROVE IInv'
  <2>0. PICK to :
          /\ to = [tx[t] EXCEPT !.failed = TRUE, !.todo = @ \ {j}]
          /\ tx' = [tx EXCEPT ![t] = to]
    BY <1>9 DEF JobFails
  <2>1. UNCHANGED <<db, lock>> /\ tx[t].pc = "jobs"
    BY <1>9 DEF JobFails
  <2>2. Shaped(to) /\ to.pc = "jobs" /\ to.failed /\ tx'[t] = to
    BY <1>0, <2>0, <2>1 DEF Shaped
  <2>3. TxOk(t)'
    BY <1>0, <2>1, <2>2 DEF TxOk
  <2> QED BY <2>0, <2>1, <2>2, <2>3, OneMoves
<1>10. ASSUME JobsOk(t) PROVE IInv'
  <2>0. PICK to : to = [tx[t] EXCEPT !.pc = "commit"] /\ tx' = [tx EXCEPT ![t] = to]
    BY <1>10 DEF JobsOk
  <2>1. /\ UNCHANGED <<db, lock>> /\ tx[t].pc = "jobs" /\ tx[t].todo = {}
        /\ tx[t].failed => tx[t].ended
    BY <1>10 DEF JobsOk
  <2>2. Shaped(to) /\ to.pc = "commit" /\ to.view = tx[t].view /\ to.ended = tx[t].ended /\ tx'[t] = to
    BY <1>0, <2>0 DEF Shaped
  <2>3. ASSUME ~tx[t].ended PROVE Whole(db, tx[t].view)
    <3>1. Founding(t) \/ Removing(t)
      BY <1>0, <2>1, <2>3 DEF TxOk, Todo, CannotFound
    <3>2. ASSUME Founding(t) PROVE Founds(db, tx[t].view)
      <4>1. PICK n : tx[t].commit = Commit(n, Empty)
        BY <3>2 DEF Founding
      <4>2. tx[t].view = [root |-> {[did |-> tx[t].did, cid |-> Commit(n, Empty)]},
                          blocks |-> db.blocks \cup {Node(Empty), Commit(n, Empty)},
                          record |-> db.record, backlinks |-> db.backlinks]
        BY <2>1, <3>2, <4>1 DEF Founding, RootsSoFar, BlocksSoFar, Todo
      <4> QED BY <3>2, <4>2 DEF Founding, Founds
    <3>3. ASSUME Removing(t) PROVE Removes(db, tx[t].view)
      BY <2>1, <3>3 DEF Removing, RowsSoFar, LinksSoFar, Removes, Todo
    <3> QED BY <3>1, <3>2, <3>3 DEF Whole
  <2>4. Whole(db, tx[t].view) => Whole(db, tx[t].view)'
    BY <2>1, <2>2
  <2>5. TxOk(t)'
    BY <1>0, <2>1, <2>2, <2>3, <2>4 DEF TxOk
  <2> QED BY <2>0, <2>1, <2>2, <2>5, OneMoves
<1> QED BY <1>1, <1>2, <1>3, <1>4, <1>5, <1>6, <1>7, <1>8, <1>9, <1>10, BatchesOfOne
        DEF TxStep, FormatFails, JobsFailed, CommitFails

\* A commit makes the view the tables: one whole operation.
LEMMA CommitIsWhole ==
  ASSUME IInv, NEW t \in Tx, CommitTx(t)
  PROVE  Whole(db, db')
BY EachTx DEF CommitTx, At, TxOk

\* It frees the lock, and whoever had read the tables before is still reading.
LEMMA CommitKeeps ==
  ASSUME IInv, NEW t \in Tx, CommitTx(t)
  PROVE  IInv'
<1>0. lock = t /\ lock' = Absent /\ TxShape
      /\ \A s \in Tx : TxOk(s)
  BY EachTx DEF CommitTx, At, IInv, OneWriter
<1>1. DbWhole'
  BY CommitIsWhole, WholeStaysWhole DEF IInv
<1>2. ASSUME NEW s \in Tx
      PROVE  /\ Shaped(tx'[s])
             /\ tx'[s].pc \in {"idle", "tree"} \/ tx'[s].pc \notin {"jobs", "commit", "tree"}
             /\ tx'[s].pc = "tree" => tx'[s].removed # {}
  <2>1. CASE s = t
    <3>1. tx'[s] = IdleTx
      BY <2>1 DEF CommitTx
    <3> QED BY <3>1 DEF IdleTx, Shaped
  <2>2. CASE s # t /\ tx[s].pc = "tree"
    <3>1. PICK to : to = [tx[s] EXCEPT !.view = Absent] /\ tx'[s] = to
      BY <2>2 DEF CommitTx
    <3>2. Shaped(to) /\ to.pc = "tree" /\ to.removed = tx[s].removed
      BY <1>0, <2>2, <3>1 DEF Shaped, TxShape
    <3> QED BY <1>0, <2>2, <3>1, <3>2 DEF TxOk
  <2>3. CASE s # t /\ tx[s].pc # "tree"
    <3>1. tx'[s] = tx[s]
      BY <2>3 DEF CommitTx
    <3> QED BY <1>0, <2>3, <3>1 DEF TxOk, TxShape
  <2> QED BY <2>1, <2>2, <2>3
<1>3. TxShape'
  BY <1>2 DEF CommitTx, TxShape
<1> QED BY <1>0, <1>1, <1>2, <1>3 DEF IInv, OneWriter, Replaces, JobsInHand, CommitsWhole

\* Every step of a transaction, its rollback included, keeps the invariant.
LEMMA NextIInv == IInv /\ [Next]_vars => IInv'
<1> SUFFICES ASSUME IInv, [Next]_vars PROVE IInv'
  OBVIOUS
<1>1. CASE UNCHANGED vars
  <2>1. TxShape' /\ OneWriter' /\ Replaces' /\ CommitsWhole'
    BY <1>1 DEF vars, IInv, TxShape, OneWriter, Replaces, CommitsWhole
  <2>2. DbWhole'
    BY <1>1 DEF vars, IInv, DbWhole, Tables, Backed
  <2>3. JobsInHand'
    BY <1>1, SameHand DEF vars, IInv, JobsInHand, Todo
  <2> QED BY <2>1, <2>2, <2>3 DEF IInv
<1>2. ASSUME NEW t \in Tx, TxStep(t) PROVE IInv'
  BY <1>2, StepsKeep, CommitKeeps
<1> QED BY <1>1, <1>2 DEF Next

-----------------------------------------------------------------------------
\* What transactions have committed is whole, whatever jobs failed or were cut off.
THEOREM Invariance == Spec => []IInv
BY InitIInv, NextIInv, PTL DEF Spec

\* CreateRepo, ProcessWrites and UpdateRoot: there is one root at most, with the
\* blocks of its commit and its tree.
THEOREM RootIsOne == Spec => []OneRoot
<1>1. IInv => OneRoot
  <2>1. DbWhole => Cardinality(db.root) \in {0, 1}
    BY FS_EmptySet, FS_Singleton DEF DbWhole
  <2>2. DbWhole => \A r \in db.root : Backed(r)
    BY DEF DbWhole
  <2> QED BY <2>1, <2>2 DEF IInv, OneRoot
<1> QED BY <1>1, Invariance, PTL

\* Indexing and removing a record: no backlink outlives the row it belongs to,
\* whichever statement of a delete ran first or failed.
THEOREM LinksAreBacked == Spec => []LinksHaveRecords
<1>1. IInv => LinksHaveRecords
  BY DEF IInv, DbWhole, LinksHaveRecords
<1> QED BY <1>1, Invariance, PTL

-----------------------------------------------------------------------------
\* Refinement.

\* A whole operation on whole tables is an operation of RecordIndex, or none.
LEMMA WholeImplements ==
  ASSUME DbWhole, Whole(db, db')
  PROVE  [Index!Next]_Index!vars
<1> USE DEF Index!Next, Index!vars, Index!Found, Index!Create, Index!Update, Index!Delete, Index!OfUri
<1>0. db.root # {} => \A r \in db.root : Backed(r)
  BY DEF DbWhole
<1>1. CASE Founds(db, db')
  <2>1. PICK did, n :
       db' = [root |-> {[did |-> did, cid |-> Commit(n, Empty)]},
            blocks |-> db.blocks \cup {Node(Empty), Commit(n, Empty)},
            record |-> db.record, backlinks |-> db.backlinks]
    BY <1>1 DEF Founds
  <2>2. Commit(n, Empty).tree = Empty
    BY DEF Commit
  <2>3. db'.root = {[did |-> did, cid |-> Commit(n, Empty)]}
        /\ Node(Empty) \in db'.blocks /\ Commit(n, Empty) \in db'.blocks
    BY <2>1
  <2>4. ASSUME NEW r \in db'.root PROVE Backed(r)'
    <3>1. r.cid = Commit(n, Empty)
      BY <2>3
    <3> QED BY <2>2, <2>3, <3>1 DEF Backed
  <2>5. db.root = {} /\ db'.record = db.record /\ db'.backlinks = db.backlinks
    BY <1>1, <2>1 DEF Founds
  <2> QED BY <2>3, <2>4, <2>5
<1>2. ASSUME db'.root = db.root, db.blocks \subseteq db'.blocks
      PROVE  (IF db.root = {} THEN "none" ELSE IF \A r \in db.root : Backed(r) THEN "whole" ELSE "broken")'
             = (IF db.root = {} THEN "none" ELSE IF \A r \in db.root : Backed(r) THEN "whole" ELSE "broken")
  BY <1>0, <1>2 DEF Backed
<1>3. CASE Formats(db, db')
  <2>1. db'.root = db.root /\ db.blocks \subseteq db'.blocks
        /\ db'.record = db.record /\ db'.backlinks = db.backlinks
    BY <1>3 DEF Formats
  <2> QED BY <1>2, <2>1
<1>4. CASE Removes(db, db')
  <2>1. PICK u \in Uri : db' = [root |-> db.root, blocks |-> db.blocks,
                      record |-> [db.record EXCEPT ![u] = Absent], backlinks |-> OfOthers(db, u)]
    BY <1>4 DEF Removes
  <2>2. db'.root = db.root /\ db.blocks \subseteq db'.blocks
        /\ db'.record = [db.record EXCEPT ![u] = Absent]
        /\ db'.backlinks = db.backlinks \ {l \in db.backlinks : l.uri = u}
    BY <2>1 DEF OfOthers
  <2> QED BY <1>2, <2>2
<1>5. CASE Indexes(db, db')
  <2>1. PICK w \in Write : w.action # "delete" /\ db' = IndexRecord(db, w) /\ db' # Absent
    BY <1>5 DEF Indexes
  <2>2. PICK links :
           /\ db' = [root |-> db.root, blocks |-> db.blocks,
                 record |-> [db.record EXCEPT ![w.uri] = w.content], backlinks |-> links]
           /\ links = db.backlinks \cup Links(w.uri, w.content) \/ links = OfOthers(db, w.uri)
    BY <2>1, IndexedRow
  <2>3. w.uri \in Uri /\ w.content \in Content
    BY DEF Write
  <2>4. /\ db'.root = db.root /\ db.blocks \subseteq db'.blocks
        /\ db'.record = [db.record EXCEPT ![w.uri] = w.content] /\ db'.backlinks = links
    BY <2>2
  <2>5. CASE links = db.backlinks \cup Links(w.uri, w.content)
    BY <1>2, <2>3, <2>4, <2>5
  <2>6. CASE links = OfOthers(db, w.uri)
    <3>1. links = db.backlinks \ {l \in db.backlinks : l.uri = w.uri}
      BY <2>6 DEF OfOthers
    <3> QED BY <1>2, <2>3, <2>4, <3>1
  <2> QED BY <2>2, <2>5, <2>6
<1> QED BY <1>1, <1>3, <1>4, <1>5 DEF Whole

\* Only a commit changes the tables.
LEMMA StepImplements == IInv /\ [Next]_vars => [Index!Next]_Index!vars
<1> SUFFICES ASSUME IInv, [Next]_vars PROVE [Index!Next]_Index!vars
  OBVIOUS
<1>1. ASSUME NEW t \in Tx, CommitTx(t) PROVE [Index!Next]_Index!vars
  BY <1>1, CommitIsWhole, WholeImplements DEF IInv
<1>2. ASSUME NEW t \in Tx, TxStep(t), ~CommitTx(t) PROVE db' = db
  BY <1>2 DEF TxStep, CreateRepo, CheckSwaps, IndexOne, DeleteRecord, End, FormatTree, FormatFails, JobDone,
     JobFails, JobsOk, JobsFailed, CommitFails, GiveUp
<1>3. ASSUME db' = db PROVE [Index!Next]_Index!vars
  BY <1>3 DEF Index!vars, Backed
<1>4. UNCHANGED vars => db' = db
  BY DEF vars
<1> QED BY <1>1, <1>2, <1>3, <1>4 DEF Next

\* Transact and its callers: each transaction that commits is one operation on the
\* whole index, although parallel.Do runs its statements in any order and hides
\* their failures once the context has ended.
THEOREM Refinement == Spec => ImplementsRecordIndex
<1>1. Init => Index!Init
  BY DEF Init, EmptyDb, Index!Init
<1> QED BY <1>1, Invariance, StepImplements, PTL DEF Spec, ImplementsRecordIndex, Index!Spec
=============================================================================
