----------------------------- MODULE ActorStore -----------------------------
(***************************************************************************)
(* The database of one actor (internal/actorstore): transactions that      *)
(* create the repository, format and apply commits, and index records.     *)
(* The jobs of a transaction run in parallel (internal/parallel); when the *)
(* caller's context ends they may fail unseen.  The database is SQLite: a  *)
(* write needs the only write lock and a snapshot nobody has written past, *)
(* or else fails with a busy error.                                        *)
(***************************************************************************)
EXTENDS FiniteSets, Sequences, Naturals

CONSTANTS
  Tx,       \* concurrent callers of Transact or Tx
  Uri,      \* where records live
  Subject,  \* what follows and likes point at
  Type,     \* record types: "follow", "like" and others
  Batch,    \* batches of writes, non-empty sequences of Write
  MaxRev,   \* bound on the revisions taken
  Absent    \* no row

Content == [type : Type, subject : Subject]
Write   == [action : {"create", "update", "delete"}, uri : Uri, content : Content,
            swap : Content \cup {Absent}]

ASSUME ActorStoreAssumption ==
  /\ Absent \notin Content /\ Absent \notin Tx
  /\ MaxRev \in Nat
  /\ \A b \in Batch : b \in Seq(Write) /\ b # <<>>

VARIABLES
  db,    \* the committed tables: root (rows [did, cid]), blocks (cids),
         \* record (content by uri) and backlinks
  tx,    \* each transaction: its place, request, view of the tables and jobs
  lock,  \* the transaction that holds the write lock
  rev    \* the newest revision number (tid.Next)

vars == <<db, tx, lock, rev>>

\* A content identifier is what it identifies.
Node(tree)      == [kind |-> "node", tree |-> tree]
Commit(n, tree) == [kind |-> "commit", rev |-> n, tree |-> tree]
Leaf(c)         == [kind |-> "leaf", content |-> c]
EmptyTree       == <<>>

\* The links of a record: its type decides their path.
Links(u, c) ==
  CASE c.type \in {"follow", "block"} -> {[uri |-> u, path |-> "subject", to |-> c.subject]}
    [] c.type \in {"like", "repost"}  -> {[uri |-> u, path |-> "subject.uri", to |-> c.subject]}
    [] OTHER -> {}

EmptyDb == [root |-> {}, blocks |-> {}, record |-> [u \in Uri |-> Absent], backlinks |-> {}]
IdleTx  == [pc |-> "idle", op |-> "none", did |-> "none", writes |-> <<>>, view |-> EmptyDb,
            todo |-> {}, failed |-> FALSE, ended |-> FALSE,
            commit |-> Absent, new |-> {}, removed |-> {}]

Init == db = EmptyDb /\ tx = [t \in Tx |-> IdleTx] /\ lock = Absent /\ rev = 0

-----------------------------------------------------------------------------
\* Statements.

\* ON CONFLICT (uri) DO UPDATE; then an update drops the links of its uri and
\* a create adds its own, unless (uri, path) is taken: Absent for the error.
IndexRecord(view, w) ==
  LET links == Links(w.uri, w.content)
      row   == [view EXCEPT !.record[w.uri] = w.content]
  IN  IF w.action = "update"
      THEN [row EXCEPT !.backlinks = {l \in @ : l.uri # w.uri}]
      ELSE IF \E l \in view.backlinks, k \in links : l.uri = k.uri /\ l.path = k.path
      THEN Absent
      ELSE [row EXCEPT !.backlinks = @ \cup links]

\* INSERT INTO repo_root, also when a commit replaces another.
UpdateRoot(view, did, cid) ==
  IF \E r \in view.root : r.did = did THEN Absent
  ELSE [view EXCEPT !.root = @ \cup {[did |-> did, cid |-> cid]}]

\* The rows of a chunk are not separated: two blocks are a syntax error.
PutMany(view, cids) ==
  IF Cardinality(cids) > 1 \/ cids \cap view.blocks # {} THEN Absent
  ELSE [view EXCEPT !.blocks = @ \cup cids]

\* The driver does not take a cid as an argument.
DeleteMany(view, cids) == IF cids = {} THEN view ELSE Absent

\* What a job makes of the transaction's view, Absent for an error.
JobResult(t, j) ==
  LET v == tx[t].view
  IN  CASE j[1] = "root"   -> UpdateRoot(v, tx[t].did, tx[t].commit)
        [] j[1] = "put"    -> PutMany(v, tx[t].new)
        [] j[1] = "delete" -> DeleteMany(v, tx[t].removed)
        [] j[1] = "row"    -> [v EXCEPT !.record[tx[t].writes[1].uri] = Absent]
        [] j[1] = "links"  -> [v EXCEPT !.backlinks = {l \in @ : l.uri # tx[t].writes[1].uri}]
        [] OTHER           -> LET w == tx[t].writes[j[2]]
                           IN  IF w.action # "delete" THEN IndexRecord(v, w)
                               ELSE [v EXCEPT !.record[w.uri] = Absent,
                                              !.backlinks = {l \in @ : l.uri # w.uri}]

\* A job has a name and, when it indexes, the number of its write.
CommitJobs(writes) == {"root", "put", "delete"} \X {0} \cup {"index"} \X DOMAIN writes

\* A tree with the writes applied one after another; Absent when a key that is
\* there is created or one that is not there is updated or deleted.
ApplyTo(tree, w) ==
  LET here == w.uri \in DOMAIN tree
  IN  IF tree = Absent \/ here = (w.action = "create") THEN Absent
      ELSE IF w.action = "delete" THEN [u \in DOMAIN tree \ {w.uri} |-> tree[u]]
      ELSE [u \in DOMAIN tree \cup {w.uri} |-> IF u = w.uri THEN w.content ELSE tree[u]]

TreeOf(writes) ==
  LET grow[i \in 0..Len(writes)] ==
        IF i = 0 THEN EmptyTree ELSE ApplyTo(grow[i - 1], writes[i])
  IN  grow[Len(writes)]

-----------------------------------------------------------------------------
\* A transaction.

At(t, from) == tx[t].pc = from
Go(t, to)   == tx' = [tx EXCEPT ![t] = to]

\* Rollback, or a tx that never got anywhere.
GiveUp(t) ==
  /\ Go(t, IdleTx)
  /\ lock' = IF lock = t THEN Absent ELSE lock
  /\ UNCHANGED <<db, rev>>

\* The view can still be written: nobody else writes or has written since.
CanWrite(t, view) == lock \in {Absent, t} /\ view = db

\* The caller's context ends: the driver will take no commit any more.
End(t) ==
  /\ tx[t].pc # "idle" /\ ~tx[t].ended
  /\ Go(t, [tx[t] EXCEPT !.ended = TRUE])
  /\ UNCHANGED <<db, lock, rev>>

\* BeginTx is deferred: a transaction that dies before its first statement has
\* done nothing and starts here with that statement.

\* Wrong: nodes that are there already are skipped, as PutBlock does.
CreateRepoAgain(t, did, writes) ==
  LET tree == TreeOf(writes)
      cid  == Commit(rev + 1, tree)
  IN  /\ At(t, "idle") /\ CanWrite(t, db) /\ rev < MaxRev /\ tree # Absent
      /\ rev' = rev + 1 /\ lock' = t
      /\ Go(t, [IdleTx EXCEPT !.pc = "jobs", !.did = did, !.writes = writes, !.op = "create",
                  !.view = [db EXCEPT !.blocks = @ \cup {Node(tree)}],
                  !.todo = CommitJobs(writes), !.commit = cid, !.new = {cid}])
      /\ UNCHANGED db

\* CreateRepo under the did of its caller (Transact passes on none): the tree's
\* nodes are inserted at once, everything else is left to the jobs.
CreateRepo(t, did, writes) ==
  LET tree == TreeOf(writes)
      cid  == Commit(rev + 1, tree)
  IN  /\ At(t, "idle") /\ CanWrite(t, db) /\ rev < MaxRev
      /\ tree # Absent /\ Node(tree) \notin db.blocks
      /\ rev' = rev + 1 /\ lock' = t
      /\ Go(t, [IdleTx EXCEPT !.pc = "jobs", !.did = did, !.writes = writes, !.op = "create",
                  !.view = [db EXCEPT !.blocks = @ \cup {Node(tree)}],
                  !.todo = CommitJobs(writes), !.commit = cid,
                  !.new = {cid} \cup {Leaf(writes[i].content) : i \in DOMAIN writes}])
      /\ UNCHANGED db

\* GetRecord joins the row with the block of its cid.
Readable(u) == db.record[u] # Absent /\ Leaf(db.record[u]) \in db.blocks

\* FormatCommit, called by ProcessWrites ("process") or by itself ("format"),
\* reads the root and the swapped records.
CheckSwaps(t, op, writes, swap) ==
  /\ At(t, "idle")
  /\ \E r \in db.root : swap \in {Absent, r.cid} /\
       Go(t, [IdleTx EXCEPT !.pc = "tree", !.op = op, !.writes = writes, !.view = db, !.removed = {r.cid}])
  /\ \A i \in DOMAIN writes :
       LET w == writes[i]
       IN  w.swap # Absent => w.action # "create" /\ Readable(w.uri) /\ db.record[w.uri] = w.swap
  /\ UNCHANGED <<db, lock, rev>>

\* Updates and deletes look for duplicates in a table that does not exist.
TouchesRecords(writes) == \E i \in DOMAIN writes : writes[i].action # "create"

\* FormatCommit writes the tree.  It loads the tree at the commit's cid and so
\* starts from an empty one.
FormatTree(t) ==
  LET tree == TreeOf(tx[t].writes)
      cid  == Commit(rev + 1, tree)
  IN  /\ At(t, "tree") /\ ~tx[t].ended
      /\ CanWrite(t, tx[t].view) /\ rev < MaxRev
      /\ tree # Absent /\ Node(tree) \notin db.blocks
      /\ ~TouchesRecords(tx[t].writes)
      /\ rev' = rev + 1 /\ lock' = t
      /\ \/ tx[t].op = "process" /\
             Go(t, [tx[t] EXCEPT !.pc = "jobs", !.view.blocks = @ \cup {Node(tree)}, !.commit = cid,
                       !.new = {cid} \cup {Leaf(tree[u]) : u \in DOMAIN tree},
                       !.todo = CommitJobs(tx[t].writes)])
         \/ tx[t].op = "format" /\
             Go(t, [IdleTx EXCEPT !.pc = "commit", !.op = "format", !.view = [db EXCEPT !.blocks = @ \cup {Node(tree)}]])
      /\ UNCHANGED db

\* Anything of FormatTree fails, a busy database included.
FormatFails(t) == At(t, "tree") /\ GiveUp(t)

\* A caller indexes one record.
IndexOne(t, w) ==
  /\ At(t, "idle") /\ CanWrite(t, db) /\ w.action # "delete"
  /\ IndexRecord(db, w) # Absent
  /\ Go(t, [IdleTx EXCEPT !.pc = "commit", !.op = "index", !.view = IndexRecord(db, w)])
  /\ lock' = t /\ UNCHANGED <<db, rev>>

\* Wrong: the links are left to a later statement.
DeleteRow(t, w) ==
  /\ At(t, "idle") /\ CanWrite(t, db) /\ w.action = "delete"
  /\ Go(t, [IdleTx EXCEPT !.pc = "jobs", !.op = "unindex", !.writes = <<w>>, !.view = db,
              !.todo = {"row"} \X {0}])
  /\ lock' = t /\ UNCHANGED <<db, rev>>

\* A caller removes one: two statements side by side.
DeleteRecord(t, w) ==
  /\ At(t, "idle") /\ CanWrite(t, db) /\ w.action = "delete"
  /\ Go(t, [IdleTx EXCEPT !.pc = "jobs", !.op = "unindex", !.writes = <<w>>, !.view = db,
              !.todo = {"row", "links"} \X {0}])
  /\ lock' = t /\ UNCHANGED <<db, rev>>

-----------------------------------------------------------------------------
\* The jobs of a transaction under parallel.Do and Map.

JobDone(t, j) ==
  /\ At(t, "jobs") /\ j \in tx[t].todo /\ ~tx[t].ended
  /\ JobResult(t, j) # Absent
  /\ Go(t, [tx[t] EXCEPT !.view = JobResult(t, j), !.todo = @ \ {j}])
  /\ UNCHANGED <<db, lock, rev>>

JobFails(t, j) ==
  /\ At(t, "jobs") /\ j \in tx[t].todo
  /\ Go(t, [tx[t] EXCEPT !.failed = TRUE, !.todo = @ \ {j}])
  /\ UNCHANGED <<db, lock, rev>>

\* A nil answer: every job is through, and failures are hidden by an ended context.
JobsOk(t) ==
  /\ At(t, "jobs") /\ tx[t].todo = {}
  /\ tx[t].failed => tx[t].ended
  /\ Go(t, [tx[t] EXCEPT !.pc = "commit"])
  /\ UNCHANGED <<db, lock, rev>>

\* An error of a job or of the context.
JobsFailed(t) == At(t, "jobs") /\ (tx[t].failed \/ tx[t].ended) /\ GiveUp(t)

\* Wrong: the transaction was begun without the caller's context.
CommitUnbound(t) ==
  /\ At(t, "commit")
  /\ db' = tx[t].view
  /\ Go(t, IdleTx) /\ lock' = Absent
  /\ UNCHANGED rev

\* What a reader of older tables has seen no longer matters: it is Absent.
CommitTx(t) ==
  /\ At(t, "commit") /\ ~tx[t].ended
  /\ db' = tx[t].view
  /\ tx' = [s \in Tx |-> IF s = t THEN IdleTx
                         ELSE IF tx[s].pc = "tree" THEN [tx[s] EXCEPT !.view = Absent] ELSE tx[s]]
  /\ lock' = Absent
  /\ UNCHANGED rev

\* Commit answers with an error, always so when the context has ended.
CommitFails(t) == At(t, "commit") /\ GiveUp(t)

TxStep(t) ==
  \/ \E did \in {"none", "did"}, b \in Batch \cup {<<>>} : ~TouchesRecords(b) /\ CreateRepo(t, did, b)
  \/ \E op \in {"process", "format"}, b \in Batch, swap \in {Absent} \cup {r.cid : r \in db.root} :
       CheckSwaps(t, op, b, swap)
  \/ \E b \in Batch : Len(b) = 1 /\ (IndexOne(t, b[1]) \/ DeleteRecord(t, b[1]))
  \/ End(t) \/ FormatTree(t) \/ FormatFails(t)
  \/ (\E j \in tx[t].todo : JobDone(t, j) \/ JobFails(t, j))
  \/ JobsOk(t) \/ JobsFailed(t) \/ CommitTx(t) \/ CommitFails(t)

Next == \E t \in Tx : TxStep(t)

Spec == Init /\ [][Next]_vars

-----------------------------------------------------------------------------
\* Properties.

\* A root comes with the blocks of its commit and of its tree.
Backed(r) == {r.cid, Node(r.cid.tree)} \subseteq db.blocks

\* GetRootDetailed takes the first row it meets: there is never a second root,
\* although CreateRepo can run under two dids, and the root is never without
\* the blocks that hold the commit and its tree.
OneRoot == Cardinality(db.root) <= 1 /\ \A r \in db.root : Backed(r)

\* GetRecordBacklinks joins backlinks with records: no link outlives its row,
\* whichever of the two deletes of a record runs first, fails or is cut off.
LinksHaveRecords == \A l \in db.backlinks : db.record[l.uri] # Absent

Index == INSTANCE RecordIndex WITH
  repo <- IF db.root = {} THEN "none" ELSE IF \A r \in db.root : Backed(r) THEN "whole" ELSE "broken",
  record <- db.record, backlinks <- db.backlinks

\* Every commit of a transaction is one whole operation of RecordIndex, also
\* when parallel.Do hid the failure of a job because the context had ended.
ImplementsRecordIndex == Index!Spec
=============================================================================
