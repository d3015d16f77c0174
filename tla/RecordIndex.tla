---------------------------- MODULE RecordIndex ----------------------------
(***************************************************************************)
(* What an actor's database promises, without transactions, statements or  *)
(* goroutines: a repository that is absent or whole, and an index of       *)
(* records whose backlinks change together with the rows they belong to.   *)
(***************************************************************************)
CONSTANTS
  Uri, Content,
  Links(_, _),  \* the backlinks of a record under a uri
  Absent

VARIABLES
  repo,      \* "none" or "whole"
  record,    \* the content indexed under each uri
  backlinks  \* records [uri, path, to]

vars == <<repo, record, backlinks>>

Init == repo = "none" /\ record = [u \in Uri |-> Absent] /\ backlinks = {}

\* A repository comes with its root, its commit and its empty tree.
Found == repo = "none" /\ repo' = "whole" /\ UNCHANGED <<record, backlinks>>

OfUri(u) == {l \in backlinks : l.uri = u}

\* A created record brings its links.
Create(u, c) ==
  /\ record' = [record EXCEPT ![u] = c]
  /\ backlinks' = backlinks \cup Links(u, c)
  /\ UNCHANGED repo

\* An updated record loses the links it had.
Update(u, c) ==
  /\ record' = [record EXCEPT ![u] = c]
  /\ backlinks' = backlinks \ OfUri(u)
  /\ UNCHANGED repo

\* A deleted record takes its links with it.
Delete(u) ==
  /\ record' = [record EXCEPT ![u] = Absent]
  /\ backlinks' = backlinks \ OfUri(u)
  /\ UNCHANGED repo

Next ==
  \/ Found
  \/ \E u \in Uri : Delete(u) \/ \E c \in Content : Create(u, c) \/ Update(u, c)

Spec == Init /\ [][Next]_vars
=============================================================================
