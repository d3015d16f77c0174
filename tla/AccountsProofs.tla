--------------------------- MODULE AccountsProofs ---------------------------
(***************************************************************************)
(* Proofs about Accounts, for any requests, logins, renames, dids and      *)
(* names.  The tables alone do not carry an invariant: what holds of them  *)
(* depends on how far each request and each deletion is.                   *)
(***************************************************************************)
EXTENDS Accounts, TLAPS

\* A call that has begun knows its did.
CallsKnow ==
  /\ login \in [Login -> {[pc |-> "idle"]}
                    \cup [pc : {"verified", "left", "stored", "ok", "error"}, did : Did]]
  /\ rename \in [Rename -> {[pc |-> "idle"]}
                    \cup [pc : {"update", "done"}, did : Did, handle : Handle]]

\* The files come in order: the key before the repository, both before the rows.
FilesFirst ==
  \A r \in Req : LET d == req[r].did IN del[d] = "no" =>
    /\ pc[r] \in {"repo", "register", "publish"} => key[d] \in Req
    /\ pc[r] \in {"register", "publish"} => dir[d] = "repo"

\* Only the request that made the repository comes to register, so it finds no rows.
OneRegisters ==
  \A r \in Req : LET d == req[r].did IN del[d] = "no" /\ pc[r] = "register" =>
    /\ account[d] = Absent /\ actor[d] = Absent
    /\ \A q \in Req : q # r /\ req[q].did = d => pc[q] # "register"

\* What OkIsStored says of a request.
Stored(r) ==
  /\ req[r].did \in root /\ <<req[r].did, r>> \in tokens
  /\ ~FreeEmail(req[r].email)
  /\ (\A u \in Rename : rename[u].pc = "idle") => ~FreeHandle(req[r].handle)

\* It holds as soon as the rows are committed, before the answer.
RegisteredIsStored ==
  \A r \in Req : (pc[r] = "publish" \/ reply[r] = "ok") /\ r \notin cancelled
                   /\ (\A d \in Did : del[d] = "no") => Stored(r)

\* A deletion has removed the files and emptied the tables it is past.
EmptiedSoFar ==
  \A d \in Did : d \notin late =>
    /\ del[d] \notin {"no", "failed"} => dir[d] = "none" /\ key[d] = Absent
    /\ del[d] \in {"token", "account", "actor", "done"} => d \notin root
    /\ del[d] \in {"account", "actor", "done"} => \A t \in tokens : t[1] # d
    /\ del[d] \in {"actor", "done"} => account[d] = Absent
    /\ del[d] = "done" => actor[d] = Absent

Types == TypeOK /\ CallsKnow

IInv ==
  /\ Types
  /\ NamesAreUnique /\ AccountHasRepo
  /\ FilesFirst /\ OneRegisters /\ RegisteredIsStored
  /\ EmptiedSoFar

-----------------------------------------------------------------------------
\* Types.

\* The rows a registration commits are of their tables' types.
LEMMA InsertTypes ==
  ASSUME Types, NEW r \in Req, NEW done \in SUBSET Jobs, Insert(r, done)
  PROVE  /\ actor' \in [Did -> Handle \cup {Absent}] /\ off' \in SUBSET Did
         /\ account' \in [Did -> Email \cup {Absent}]
         /\ root' \in SUBSET Did
         /\ tokens' \in SUBSET (Did \X (Req \cup Login))
<1>1. req[r].did \in Did /\ req[r].handle \in Handle /\ req[r].email \in Email
  BY DEF Types, TypeOK
<1> QED BY <1>1 DEF Types, TypeOK, Insert

\* The initial state has the types.
LEMMA InitTypes == Init => Types
BY DEF Init, Requests, Types, TypeOK, CallsKnow, Lookups

\* Every step keeps the types.
LEMMA NextTypes == Types /\ [Next]_vars => Types'
<1> SUFFICES ASSUME Types, [Next]_vars PROVE Types'
  OBVIOUS
<1> USE DEF Types, TypeOK, CallsKnow, tables, files, creates, others, At
<1>1. ASSUME NEW r \in Req, Begin(r) \/ LookupsReturn(r) \/ Check(r) PROVE Types'
  <2>1. CASE Begin(r)
    BY <2>1 DEF Begin
  <2>2. CASE LookupsReturn(r)
    <3>1. UNCHANGED <<tables, files, req, look, cancelled, reply, others, late>>
      BY <2>2 DEF LookupsReturn
    <3>2. pc' \in [Req -> {"idle", "validate", "check", "open", "key", "repo", "register", "publish", "done"}]
      BY <2>2 DEF LookupsReturn
    <3>3. \E e \in {"nil", "error"} : err' = [err EXCEPT ![r] = e]
      BY <2>2 DEF LookupsReturn
    <3>4. err' \in [Req -> {"nil", "error"}]
      BY <3>3
    <3> QED BY <3>1, <3>2, <3>4
  <2>3. CASE Check(r)
    <3>1. UNCHANGED <<tables, files, req, cancelled, others, late>>
      BY <2>3 DEF Check
    <3>2. pc' \in [Req -> {"idle", "validate", "check", "open", "key", "repo", "register", "publish", "done"}]
      BY <2>3 DEF Check
    <3>3. /\ err' \in [Req -> {"nil", "error"}] /\ reply' \in [Req -> {"none", "ok", "error"}]
          /\ look' \in [Req -> [Lookups -> {"look", "decide", "ok", "taken"}]]
      BY <2>3 DEF Check
    <3> QED BY <3>1, <3>2, <3>3
  <2> QED BY <1>1, <2>1, <2>2, <2>3
<1>2. ASSUME NEW r \in Req, OpenStore(r) \/ WriteKey(r) \/ MakeRepo(r) PROVE Types'
  <2>1. req[r].did \in Did
    OBVIOUS
  <2>2. CASE OpenStore(r)
    BY <2>1, <2>2 DEF OpenStore, Writes
  <2>3. CASE WriteKey(r)
    BY <2>1, <2>3 DEF WriteKey, Writes
  <2>4. CASE MakeRepo(r)
    BY <2>1, <2>4 DEF MakeRepo, Writes
  <2> QED BY <1>2, <2>2, <2>3, <2>4
<1>3. ASSUME NEW r \in Req, Register(r) PROVE Types'
  <2>1. PICK done \in SUBSET Jobs : Insert(r, done)
    BY <1>3 DEF Register
  <2>2. /\ actor' \in [Did -> Handle \cup {Absent}] /\ off' \in SUBSET Did
        /\ account' \in [Did -> Email \cup {Absent}]
        /\ root' \in SUBSET Did
        /\ tokens' \in SUBSET (Did \X (Req \cup Login))
    BY <2>1, InsertTypes
  <2>3. req[r].did \in Did
    OBVIOUS
  <2>4. /\ pc' = [pc EXCEPT ![r] = IF req[r].brings THEN "done" ELSE "publish"]
        /\ reply' = [reply EXCEPT ![r] = IF req[r].brings THEN "ok" ELSE reply[r]]
        /\ late' \in SUBSET Did
    BY <1>3, <2>3 DEF Register, Writes
  <2>5. /\ pc' \in [Req -> {"idle", "validate", "check", "open", "key", "repo", "register", "publish", "done"}]
        /\ reply' \in [Req -> {"none", "ok", "error"}]
    BY <2>4
  <2>6. UNCHANGED <<apps, files, req, look, err, cancelled, others>>
    BY <1>3 DEF Register
  <2> QED BY <2>2, <2>4, <2>5, <2>6
<1>4. ASSUME NEW r \in Req, PublishEvents(r) \/ Cancel(r) PROVE Types'
  <2>1. CASE PublishEvents(r)
    BY <2>1 DEF PublishEvents
  <2>2. CASE Cancel(r)
    BY <2>2 DEF Cancel
  <2> QED BY <1>4, <2>1, <2>2
<1>5. ASSUME NEW r \in Req, Fail(r) PROVE Types'
  <2>1. req[r].did \in Did
    OBVIOUS
  <2>2. UNCHANGED <<tables, dir, req, look, err, cancelled, others>>
    BY <1>5 DEF Fail
  <2>3. /\ pc' \in [Req -> {"idle", "validate", "check", "open", "key", "repo", "register", "publish", "done"}]
        /\ reply' \in [Req -> {"none", "ok", "error"}]
    BY <1>5 DEF Fail
  <2>4. key' \in [Did -> Req \cup {Absent, "empty"}] /\ late' \in SUBSET Did
    <3>1. CASE UNCHANGED <<key, late>>
      BY <3>1
    <3>2. CASE key' = [key EXCEPT ![req[r].did] = "empty"] /\ Writes(req[r].did)
      BY <2>1, <3>2 DEF Writes
    <3> QED BY <1>5, <3>1, <3>2 DEF Fail
  <2> QED BY <2>2, <2>3, <2>4
<1>6. ASSUME NEW r \in Req, NEW g \in Lookups, LookUp(r, g) \/ Decide(r, g) PROVE Types'
  <2>1. CASE LookUp(r, g)
    BY <2>1 DEF LookUp
  <2>2. CASE Decide(r, g)
    BY <2>2 DEF Decide
  <2> QED BY <1>6, <2>1, <2>2
<1>7. ASSUME NEW s \in Login, NEW d \in Did, Verify(s, d) PROVE Types'
  BY <1>7 DEF Verify
<1>8. ASSUME NEW s \in Login, StoreToken(s) PROVE Types'
  <2>1. login[s] \in [pc : {"verified", "left", "stored", "ok", "error"}, did : Did]
    BY <1>8 DEF StoreToken
  <2>2. PICK to : /\ to \in {[login[s] EXCEPT !.pc = "stored"], [login[s] EXCEPT !.pc = "error"]}
                  /\ login' = [login EXCEPT ![s] = to]
    BY <1>8 DEF StoreToken
  <2>3. to \in [pc : {"verified", "left", "stored", "ok", "error"}, did : Did]
    BY <2>1, <2>2
  <2>4. \A q \in Login : login'[q] = IF q = s THEN to ELSE login[q]
    BY <2>2
  <2>5. login' \in [Login -> {[pc |-> "idle"]} \cup [pc : {"verified", "left", "stored", "ok", "error"}, did : Did]]
        /\ \A q \in Login : login'[q].pc \in {"idle", "verified", "left", "stored", "ok", "error"}
    BY <2>2, <2>3, <2>4
  <2>6. tokens' \in SUBSET (Did \X (Req \cup Login)) /\ late' \in SUBSET Did
    BY <1>8, <2>1 DEF StoreToken, Writes
  <2>7. UNCHANGED <<actor, off, account, root, apps, files, creates, rename, del>>
    BY <1>8 DEF StoreToken
  <2> QED BY <2>5, <2>6, <2>7
<1>9. ASSUME NEW s \in Login, SessionEnds(s) PROVE Types'
  <2>1. login[s] \in [pc : {"verified", "left", "stored", "ok", "error"}, did : Did]
    BY <1>9 DEF SessionEnds
  <2>2. PICK e \in {"ok", "error", "left"} : login' = [login EXCEPT ![s].pc = e]
    BY <1>9 DEF SessionEnds
  <2>3. PICK to : to = [login[s] EXCEPT !.pc = e] /\ login' = [login EXCEPT ![s] = to]
    BY <2>2
  <2>4. to \in [pc : {"verified", "left", "stored", "ok", "error"}, did : Did]
    BY <2>1, <2>3
  <2>5. \A q \in Login : login'[q] = IF q = s THEN to ELSE login[q]
    BY <2>3
  <2>6. login' \in [Login -> {[pc |-> "idle"]} \cup [pc : {"verified", "left", "stored", "ok", "error"}, did : Did]]
        /\ \A q \in Login : login'[q].pc \in {"idle", "verified", "left", "stored", "ok", "error"}
    BY <2>3, <2>4, <2>5
  <2>7. UNCHANGED <<tables, files, creates, rename, del, late>>
    BY <1>9 DEF SessionEnds
  <2> QED BY <2>6, <2>7
<1>10. ASSUME NEW u \in Rename, SetHandle(u) PROVE Types'
  <2>1. rename[u] \in [pc : {"update", "done"}, did : Did, handle : Handle]
    BY <1>10 DEF SetHandle
  <2>2. UNCHANGED <<off, account, root, tokens, apps, files, creates, login, del, late>>
    BY <1>10 DEF SetHandle
  <2>3. actor' \in [Did -> Handle \cup {Absent}]
    BY <1>10, <2>1 DEF SetHandle
  <2>4. PICK to : to = [rename[u] EXCEPT !.pc = "done"] /\ rename' = [rename EXCEPT ![u] = to]
    BY <1>10 DEF SetHandle
  <2>5. to \in [pc : {"update", "done"}, did : Did, handle : Handle]
    BY <2>1, <2>4
  <2>6. /\ rename' \in [Rename -> {[pc |-> "idle"]} \cup [pc : {"update", "done"}, did : Did, handle : Handle]]
        /\ \A v \in Rename : rename'[v].pc \in {"idle", "update", "done"}
    BY <2>4, <2>5
  <2> QED BY <2>2, <2>3, <2>6
<1>11. ASSUME NEW u \in Rename, NEW d \in Did, NEW h \in Handle, CountHandle(u, d, h) PROVE Types'
  BY <1>11 DEF CountHandle
<1>12. ASSUME NEW d \in Did, Destroy(d) \/ Delete(d) \/ DeleteFails(d) PROVE Types'
  <2>1. CASE Destroy(d)
    BY <2>1 DEF Destroy
  <2>2. CASE DeleteRoot(d) \/ DeleteTokens(d)
    BY <2>2 DEF DeleteRoot, DeleteTokens
  <2>3. CASE DeleteAccountRow(d)
    BY <2>3 DEF DeleteAccountRow
  <2>4. CASE DeleteActor(d)
    BY <2>4 DEF DeleteActor
  <2>5. CASE DeleteFails(d)
    BY <2>5 DEF DeleteFails
  <2> QED BY <1>12, <2>1, <2>2, <2>3, <2>4, <2>5 DEF Delete
<1>13. ASSUME NEW d \in Did, SetActive(d) PROVE Types'
  BY <1>13 DEF SetActive
<1>14. CASE UNCHANGED vars
  BY <1>14 DEF vars
<1>15. ASSUME NEW d \in Did, CreateAppPassword(d) \/ DeleteAppPassword(d) PROVE Types'
  BY <1>15 DEF CreateAppPassword, DeleteAppPassword, Writes
<1> QED BY <1>1, <1>2, <1>3, <1>4, <1>5, <1>6, <1>7, <1>8, <1>9, <1>10, <1>11, <1>12, <1>13,
           <1>14, <1>15 DEF Next, Create
-----------------------------------------------------------------------------
\* Steps.  What an action leaves alone is stated once, so that the parts of the
\* invariant are only looked at where they can be disturbed.

\* The rows a registration leaves.
LEMMA InsertRows ==
  ASSUME Types, NEW r \in Req, NEW done \in SUBSET Jobs, Insert(r, done)
  PROVE  /\ \A d \in Did : d # req[r].did => actor'[d] = actor[d] /\ account'[d] = account[d]
         /\ \A d \in Did : actor[d] # Absent => actor'[d] = actor[d]
         /\ \A d \in Did : account[d] # Absent => account'[d] = account[d]
         /\ \A d \in Did : actor'[d] # actor[d] =>
              actor'[d] = req[r].handle /\ FreeHandle(req[r].handle)
         /\ \A d \in Did : account'[d] # account[d] =>
              account'[d] = req[r].email /\ FreeEmail(req[r].email)
         /\ root \subseteq root' /\ root' \subseteq root \cup {req[r].did}
         /\ tokens \subseteq tokens' /\ tokens' \subseteq tokens \cup {<<req[r].did, r>>}
BY DEF Types, TypeOK, Insert

\* With all four jobs done and no rows of its did before, all it asked for is in use.
LEMMA InsertAll ==
  ASSUME Types, NEW r \in Req, Insert(r, Jobs),
         account[req[r].did] = Absent, actor[req[r].did] = Absent
  PROVE  /\ req[r].did \in root' /\ <<req[r].did, r>> \in tokens'
         /\ \E d \in Did : account'[d] = req[r].email
         /\ \E d \in Did : actor'[d] = req[r].handle
<1>1. req[r].did \in Did
  BY DEF Types, TypeOK
<1>2. req[r].did \in root' /\ <<req[r].did, r>> \in tokens'
  BY DEF Insert, Jobs
<1>3. \E d \in Did : account'[d] = req[r].email
  BY <1>1 DEF Types, TypeOK, Insert, Jobs, FreeEmail
<1>4. \E d \in Did : actor'[d] = req[r].handle
  BY <1>1 DEF Types, TypeOK, Insert, Jobs, FreeHandle
<1> QED BY <1>2, <1>3, <1>4

\* The empty tables satisfy every conjunct of the invariant.
LEMMA InitIInv == Init => IInv
<1> SUFFICES ASSUME Init PROVE IInv
  OBVIOUS
<1>1. Types
  BY InitTypes
<1>2. NamesAreUnique /\ AccountHasRepo /\ EmptiedSoFar
  BY DEF Init, NamesAreUnique, AccountHasRepo, EmptiedSoFar
<1>3. FilesFirst /\ OneRegisters /\ RegisteredIsStored
  BY DEF Init, FilesFirst, OneRegisters, RegisteredIsStored
<1> QED BY <1>1, <1>2, <1>3 DEF IInv

\* A handle or an email goes to a did only while it is free.
LEMMA NextNames == IInv /\ [Next]_vars => NamesAreUnique'
<1> SUFFICES ASSUME IInv, [Next]_vars PROVE NamesAreUnique'
  OBVIOUS
<1> USE DEF IInv
<1>1. ASSUME NEW r \in Req, Register(r) PROVE NamesAreUnique'
  <2>1. PICK done \in SUBSET Jobs : Insert(r, done)
    BY <1>1 DEF Register
  <2> QED BY <2>1, InsertRows DEF NamesAreUnique, FreeHandle, FreeEmail
<1>2. ASSUME NEW u \in Rename, SetHandle(u) PROVE NamesAreUnique'
  <2>1. /\ account' = account
        /\ \/ actor' = actor
           \/ /\ FreeHandle(rename[u].handle)
              /\ actor' = [actor EXCEPT ![rename[u].did] = rename[u].handle]
    BY <1>2 DEF SetHandle
  <2> QED BY <2>1 DEF NamesAreUnique, FreeHandle, Types, TypeOK
<1>3. ASSUME NEW d \in Did, Delete(d) PROVE NamesAreUnique'
  <2>1. /\ actor' \in {actor, [actor EXCEPT ![d] = Absent]}
        /\ account' \in {account, [account EXCEPT ![d] = Absent]}
    BY <1>3 DEF Delete, DeleteRoot, DeleteTokens, DeleteAccountRow, DeleteActor
  <2> QED BY <2>1 DEF NamesAreUnique, Types, TypeOK
<1>4. CASE UNCHANGED <<actor, account>>
  BY <1>4 DEF NamesAreUnique
<1>5. \A r \in Req : (Create(r) /\ ~Register(r)) \/ Cancel(r) \/ Fail(r) => UNCHANGED <<actor, account>>
  <2>1. \A r \in Req : OpenStore(r) \/ WriteKey(r) \/ MakeRepo(r) \/ Cancel(r) \/ Fail(r) => UNCHANGED tables
    BY DEF OpenStore, WriteKey, MakeRepo, Cancel, Fail
  <2>2. \A r \in Req : Begin(r) \/ LookupsReturn(r) \/ Check(r) \/ PublishEvents(r) => UNCHANGED tables
    BY DEF Begin, LookupsReturn, Check, PublishEvents
  <2>3. \A r \in Req, g \in Lookups : LookUp(r, g) \/ Decide(r, g) => UNCHANGED tables
    BY DEF LookUp, Decide
  <2> QED BY <2>1, <2>2, <2>3 DEF Create, tables
<1>6. \A s \in Login : (\E d \in Did : Verify(s, d)) \/ StoreToken(s) \/ SessionEnds(s)
         => UNCHANGED <<actor, account>>
  BY DEF Verify, StoreToken, SessionEnds, tables
<1>7. \A u \in Rename, d \in Did, h \in Handle : CountHandle(u, d, h) => UNCHANGED <<actor, account>>
  BY DEF CountHandle, tables
<1>8. \A d \in Did : \/ Destroy(d) \/ DeleteFails(d) \/ SetActive(d)
                   \/ CreateAppPassword(d) \/ DeleteAppPassword(d) => UNCHANGED <<actor, account>>
  BY DEF Destroy, DeleteFails, SetActive, CreateAppPassword, DeleteAppPassword, tables
<1>9. UNCHANGED vars => UNCHANGED <<actor, account>>
  BY DEF vars, tables
<1> QED BY <1>1, <1>2, <1>3, <1>4, <1>5, <1>6, <1>7, <1>8, <1>9 DEF Next

\* A step that neither makes files nor rows of an account that is not being
\* deleted, and takes no request on.
Quiet ==
  /\ req' = req
  /\ \A d \in Did : del'[d] = "no" =>
       /\ del[d] = "no" /\ dir'[d] = dir[d] /\ key'[d] = key[d]
       /\ actor'[d] = Absent <=> actor[d] = Absent
       /\ account'[d] = Absent <=> account[d] = Absent
  /\ \A r \in Req : pc'[r] \in {"repo", "register", "publish"} => pc'[r] = pc[r]

\* All that a request does outside its transaction and its files is quiet, and so are
\* the steps of logins, renames and deletions that insert no row.
LEMMA QuietSteps ==
  ASSUME Types
  PROVE  /\ \A r \in Req : Begin(r) \/ LookupsReturn(r) \/ Check(r) \/ PublishEvents(r) \/ Cancel(r)
                          \/ (\E g \in Lookups : LookUp(r, g) \/ Decide(r, g)) => Quiet
         /\ \A s \in Login : (\E d \in Did : Verify(s, d)) \/ StoreToken(s) \/ SessionEnds(s) => Quiet
         /\ \A u \in Rename : SetHandle(u) \/ (\E d \in Did, h \in Handle : CountHandle(u, d, h)) => Quiet
         /\ \A d \in Did : \/ Destroy(d) \/ Delete(d) \/ DeleteFails(d) \/ SetActive(d)
                          \/ CreateAppPassword(d) \/ DeleteAppPassword(d) => Quiet
         /\ UNCHANGED vars => Quiet
<1> USE DEF Types, TypeOK, tables, files, creates, others, At, Quiet
<1>1. ASSUME NEW r \in Req,
             Begin(r) \/ LookupsReturn(r) \/ Check(r) \/ PublishEvents(r) \/ Cancel(r)
               \/ (\E g \in Lookups : LookUp(r, g) \/ Decide(r, g))
      PROVE  Quiet
  <2>1. UNCHANGED <<tables, files, req, del>>
    BY <1>1 DEF Begin, LookupsReturn, Check, PublishEvents, Cancel, LookUp, Decide
  <2>2. pc' = pc \/ \E to \in {"validate", "check", "open", "done"} : pc' = [pc EXCEPT ![r] = to]
    BY <1>1 DEF Begin, LookupsReturn, Check, PublishEvents, Cancel, LookUp, Decide
  <2> QED BY <2>1, <2>2
<1>2. ASSUME NEW s \in Login, (\E d \in Did : Verify(s, d)) \/ StoreToken(s) \/ SessionEnds(s)
      PROVE  Quiet
  <2>1. UNCHANGED <<actor, account, files, creates, del>>
    BY <1>2 DEF Verify, StoreToken, SessionEnds
  <2> QED BY <2>1
<1>3. ASSUME NEW u \in Rename, NEW d \in Did, NEW h \in Handle, CountHandle(u, d, h) PROVE Quiet
  BY <1>3 DEF CountHandle
<1>4. ASSUME NEW u \in Rename, SetHandle(u), CallsKnow PROVE Quiet
  <2>1. rename[u].did \in Did /\ rename[u].handle \in Handle
    BY <1>4 DEF SetHandle, CallsKnow
  <2>2. UNCHANGED <<account, files, req, pc, del>>
    BY <1>4 DEF SetHandle
  <2>3. \A d \in Did : actor'[d] = Absent <=> actor[d] = Absent
    BY <1>4, <2>1, AccountsAssumption DEF SetHandle
  <2> QED BY <2>2, <2>3
<1>5. ASSUME NEW d \in Did, Destroy(d) PROVE Quiet
  BY <1>5 DEF Destroy
<1>6. ASSUME NEW d \in Did, Delete(d) \/ DeleteFails(d) PROVE Quiet
  <2>1. UNCHANGED <<files, req, pc>>
    BY <1>6 DEF Delete, DeleteRoot, DeleteTokens, DeleteAccountRow, DeleteActor, DeleteFails
  <2>2. \E to \in {"token", "account", "actor", "done", "failed"} : del' = [del EXCEPT ![d] = to]
    BY <1>6 DEF Delete, DeleteRoot, DeleteTokens, DeleteAccountRow, DeleteActor, DeleteFails
  <2>3. \A e \in Did : e # d => actor'[e] = actor[e] /\ account'[e] = account[e]
    BY <1>6 DEF Delete, DeleteRoot, DeleteTokens, DeleteAccountRow, DeleteActor, DeleteFails
  <2> QED BY <2>1, <2>2, <2>3
<1>7. ASSUME NEW d \in Did, SetActive(d) \/ CreateAppPassword(d) \/ DeleteAppPassword(d)
      PROVE  Quiet
  BY <1>7 DEF SetActive, CreateAppPassword, DeleteAppPassword
<1>8. UNCHANGED vars => Quiet
  BY DEF vars
<1> QED BY <1>1, <1>2, <1>3, <1>4, <1>5, <1>6, <1>7, <1>8 DEF Types

\* Files come before rows, whatever fails in between.
Files == AccountHasRepo /\ FilesFirst /\ OneRegisters

\* Every step keeps the order of the files and of the rows after them.
LEMMA NextFiles == IInv /\ [Next]_vars => Files'
<1> SUFFICES ASSUME IInv, [Next]_vars PROVE Files'
  OBVIOUS
<1> USE DEF IInv, Files
<1>0. ASSUME Quiet PROVE Files'
  BY <1>0 DEF Quiet, AccountHasRepo, FilesFirst, OneRegisters, Types, TypeOK
<1>1. ASSUME NEW r \in Req, OpenStore(r) PROVE Files'
  <2>1. UNCHANGED <<actor, account, key, req, del>> /\ pc' = [pc EXCEPT ![r] = "key"]
    BY <1>1 DEF OpenStore, At, tables, others
  <2>2. \A d \in Did : dir[d] = "repo" => dir'[d] = "repo"
    BY <1>1 DEF OpenStore, Types, TypeOK
  <2> QED BY <2>1, <2>2 DEF AccountHasRepo, FilesFirst, OneRegisters, Types, TypeOK
<1>2. ASSUME NEW r \in Req, WriteKey(r) PROVE Files'
  <2>1. UNCHANGED <<actor, account, dir, req, del>> /\ pc' = [pc EXCEPT ![r] = "repo"]
    BY <1>2 DEF WriteKey, At, tables, others
  <2>2. key' = [key EXCEPT ![req[r].did] = r]
    BY <1>2 DEF WriteKey
  <2> QED BY <2>1, <2>2 DEF AccountHasRepo, FilesFirst, OneRegisters, Types, TypeOK
<1>3. ASSUME NEW r \in Req, MakeRepo(r) PROVE Files'
  <2>1. /\ UNCHANGED <<actor, account, key, req, del>>
        /\ pc[r] = "repo" /\ pc' = [pc EXCEPT ![r] = "register"]
    BY <1>3 DEF MakeRepo, At, tables, others
  <2>2. \A d \in Did : dir[d] = "repo" => dir'[d] = "repo"
    BY <1>3 DEF MakeRepo, Types, TypeOK
  <2>3. del[req[r].did] = "no" => dir[req[r].did] = "db" /\ dir'[req[r].did] = "repo"
    BY <1>3 DEF MakeRepo, Types, TypeOK
  <2>4. AccountHasRepo' /\ FilesFirst'
    BY <2>1, <2>2, <2>3 DEF AccountHasRepo, FilesFirst, Types, TypeOK
  <2>5. OneRegisters'
    BY <2>1, <2>3 DEF AccountHasRepo, FilesFirst, OneRegisters, Types, TypeOK
  <2> QED BY <2>4, <2>5
<1>4. ASSUME NEW r \in Req, Register(r) PROVE Files'
  <2>1. PICK done \in SUBSET Jobs : Insert(r, done)
    BY <1>4 DEF Register
  <2>2. /\ UNCHANGED <<dir, key, req, del>> /\ pc[r] = "register"
        /\ \E to \in {"publish", "done"} : pc' = [pc EXCEPT ![r] = to]
    BY <1>4 DEF Register, At, files, others
  <2>3. \A d \in Did : d # req[r].did => actor'[d] = actor[d] /\ account'[d] = account[d]
    BY <2>1, InsertRows
  <2>4. AccountHasRepo' /\ FilesFirst'
    BY <2>2, <2>3 DEF AccountHasRepo, FilesFirst, Types, TypeOK
  <2>5. OneRegisters'
    BY <2>2, <2>3 DEF OneRegisters, Types, TypeOK
  <2> QED BY <2>4, <2>5
<1>5. ASSUME NEW r \in Req, Fail(r) PROVE Files'
  <2>1. UNCHANGED <<actor, account, dir, req, del>> /\ pc' = [pc EXCEPT ![r] = "done"]
    BY <1>5 DEF Fail, tables, others
  <2>2. \A d \in Did : key[d] \in Req => key'[d] = key[d]
    BY <1>5, AccountsAssumption DEF Fail, Types, TypeOK
  <2> QED BY <2>1, <2>2 DEF AccountHasRepo, FilesFirst, OneRegisters, Types, TypeOK
<1> QED BY <1>0, <1>1, <1>2, <1>3, <1>4, <1>5, QuietSteps DEF Next, Create

\* A step that takes nothing from the tables, answers nobody and begins no rename.
Keeps ==
  /\ req' = req /\ cancelled \subseteq cancelled'
  /\ \A d \in Did : del'[d] = "no" => del[d] = "no"
  /\ (\A d \in Did : del[d] = "no") =>
       /\ root \subseteq root' /\ tokens \subseteq tokens'
       /\ \A d \in Did : account[d] # Absent => account'[d] = account[d]
       /\ \A u \in Rename : rename[u].pc # "idle" => rename'[u].pc # "idle"
       /\ (\A u \in Rename : rename[u].pc = "idle") =>
            \A d \in Did : actor[d] # Absent => actor'[d] = actor[d]

\* What is stored stays stored.
LEMMA KeepsStored ==
  ASSUME Types, Keeps, NEW r \in Req, Stored(r),
         \A d \in Did : del'[d] = "no"
  PROVE  Stored(r)'
<1>0. /\ \A d \in Did : del[d] = "no"
      /\ req[r].handle # Absent /\ req[r].email # Absent
  BY AccountsAssumption DEF Types, TypeOK, Keeps
<1>1. req'[r].did \in root' /\ <<req'[r].did, r>> \in tokens'
  BY <1>0 DEF Keeps, Stored
<1>2. \E d \in Did : account'[d] = req'[r].email
  BY <1>0 DEF Keeps, Stored, FreeEmail
<1>3. ASSUME \A u \in Rename : rename'[u].pc = "idle" PROVE \E d \in Did : actor'[d] = req'[r].handle
  <2>1. \A u \in Rename : rename[u].pc = "idle"
    BY <1>0, <1>3 DEF Keeps
  <2> QED BY <1>0, <2>1 DEF Keeps, Stored, FreeHandle
<1> QED BY <1>1, <1>2, <1>3 DEF Stored, FreeEmail, FreeHandle

\* While nothing is deleted, no step takes away what an answered request rests on.
LEMMA NextKeeps == Types /\ [Next]_vars => Keeps
<1> SUFFICES ASSUME Types, [Next]_vars PROVE Keeps
  OBVIOUS
<1> USE DEF Types, TypeOK, tables, files, creates, others, At, Keeps
<1>1. ASSUME NEW r \in Req, (Create(r) /\ ~Register(r)) \/ Fail(r) \/ Cancel(r) PROVE Keeps
  <2>1. UNCHANGED <<tables, req, others>> /\ cancelled \subseteq cancelled'
    BY <1>1 DEF Create, Begin, LookupsReturn, Check, OpenStore, WriteKey, MakeRepo, PublishEvents,
         LookUp, Decide, Fail, Cancel
  <2> QED BY <2>1
<1>2. ASSUME NEW r \in Req, Register(r) PROVE Keeps
  <2>1. PICK done \in SUBSET Jobs : Insert(r, done)
    BY <1>2 DEF Register
  <2>2. UNCHANGED <<req, cancelled, others>>
    BY <1>2 DEF Register
  <2> QED BY <2>1, <2>2, InsertRows
<1>3. ASSUME NEW s \in Login, (\E d \in Did : Verify(s, d)) \/ StoreToken(s) \/ SessionEnds(s)
      PROVE  Keeps
  <2>1. UNCHANGED <<actor, account, root, req, cancelled, rename, del>> /\ tokens \subseteq tokens'
    BY <1>3 DEF Verify, StoreToken, SessionEnds
  <2> QED BY <2>1
<1>4. ASSUME NEW u \in Rename, SetHandle(u) PROVE Keeps
  <2>1. /\ UNCHANGED <<account, root, tokens, req, cancelled, del>>
        /\ rename[u].pc = "update" /\ rename' = [rename EXCEPT ![u].pc = "done"]
    BY <1>4 DEF SetHandle
  <2>2. \A v \in Rename : rename[v].pc # "idle" => rename'[v].pc # "idle"
    BY <2>1 DEF CallsKnow
  <2> QED BY <2>1, <2>2
<1>5. ASSUME NEW u \in Rename, NEW d \in Did, NEW h \in Handle, CountHandle(u, d, h) PROVE Keeps
  <2>1. UNCHANGED <<tables, req, cancelled, del>>
    BY <1>5 DEF CountHandle
  <2>2. \A v \in Rename : rename[v].pc # "idle" => rename'[v].pc # "idle"
    BY <1>5 DEF CountHandle, CallsKnow
  <2> QED BY <2>1, <2>2
<1>6. ASSUME NEW d \in Did, Destroy(d) PROVE Keeps
  BY <1>6 DEF Destroy
<1>7. ASSUME NEW d \in Did, Delete(d) \/ DeleteFails(d) PROVE Keeps
  <2>1. UNCHANGED <<req, cancelled>>
    BY <1>7 DEF Delete, DeleteRoot, DeleteTokens, DeleteAccountRow, DeleteActor, DeleteFails
  <2>2. del[d] # "no" /\ \E to \in {"token", "account", "actor", "done", "failed"} : del' = [del EXCEPT ![d] = to]
    BY <1>7 DEF Delete, DeleteRoot, DeleteTokens, DeleteAccountRow, DeleteActor, DeleteFails
  <2> QED BY <2>1, <2>2
<1>8. ASSUME NEW d \in Did, SetActive(d) \/ CreateAppPassword(d) \/ DeleteAppPassword(d)
      PROVE  Keeps
  BY <1>8 DEF SetActive, CreateAppPassword, DeleteAppPassword
<1>9. CASE UNCHANGED vars
  BY <1>9 DEF vars
<1> QED BY <1>1, <1>2, <1>3, <1>4, <1>5, <1>6, <1>7, <1>8, <1>9 DEF Next

\* The answer of a request whose context lives is given after all four jobs.
LEMMA NextStored == IInv /\ [Next]_vars => RegisteredIsStored'
<1> SUFFICES ASSUME IInv, [Next]_vars,
                    NEW r \in Req, (pc[r] = "publish" \/ reply[r] = "ok")', (r \notin cancelled)',
                    (\A d \in Did : del[d] = "no")'
             PROVE  Stored(r)'
  BY DEF RegisteredIsStored
<1> USE DEF IInv
<1>1. Keeps
  BY NextKeeps
<1>2. r \notin cancelled /\ \A d \in Did : del[d] = "no"
  BY <1>1 DEF Keeps
<1>3. CASE pc[r] = "publish" \/ reply[r] = "ok"
  BY <1>1, <1>2, <1>3, KeepsStored DEF RegisteredIsStored
<1>4. CASE ~(pc[r] = "publish" \/ reply[r] = "ok")
  <2>1. Register(r)
    <3>1. ASSUME NEW q \in Req, Create(q) \/ Cancel(q) \/ Fail(q) PROVE Register(r)
      <4>1. CASE Create(q) /\ ~Register(q)
        <5>1. UNCHANGED reply \/ reply' = [reply EXCEPT ![q] = "error"] \/ PublishEvents(q)
          BY <4>1 DEF Create, Begin, LookupsReturn, Check, OpenStore, WriteKey, MakeRepo, LookUp, Decide
        <5>2. UNCHANGED pc \/ \E to \in {"validate", "check", "open", "key", "repo", "register", "done"} :
                                 pc' = [pc EXCEPT ![q] = to]
          BY <4>1 DEF Create, Begin, LookupsReturn, Check, OpenStore, WriteKey, MakeRepo, PublishEvents,
               LookUp, Decide, At
        <5> QED BY <1>4, <5>1, <5>2 DEF PublishEvents, At, Types, TypeOK
      <4>2. CASE Register(q)
        <5>1. \E to \in {"publish", "done"} : pc' = [pc EXCEPT ![q] = to]
          BY <4>2 DEF Register, At
        <5>2. UNCHANGED reply \/ reply' = [reply EXCEPT ![q] = "ok"]
          BY <4>2 DEF Register
        <5>3. q = r
          BY <1>4, <5>1, <5>2 DEF Types, TypeOK
        <5> QED BY <4>2, <5>3
      <4>3. CASE Cancel(q) \/ Fail(q)
        BY <1>4, <4>3 DEF Cancel, Fail, Types, TypeOK
      <4> QED BY <3>1, <4>1, <4>2, <4>3
    <3>2. UNCHANGED <<pc, reply>> => Register(r)
      BY <1>4
    <3>3. \A s \in Login : (\E d \in Did : Verify(s, d)) \/ StoreToken(s) \/ SessionEnds(s) => UNCHANGED <<pc, reply>>
      BY DEF Verify, StoreToken, SessionEnds, creates
    <3>4. \A u \in Rename : SetHandle(u) \/ (\E d \in Did, h \in Handle : CountHandle(u, d, h)) => UNCHANGED <<pc, reply>>
      BY DEF SetHandle, CountHandle, creates
    <3>5. \A d \in Did : \/ Destroy(d) \/ Delete(d) \/ DeleteFails(d) \/ SetActive(d)
                       \/ CreateAppPassword(d) \/ DeleteAppPassword(d) => UNCHANGED <<pc, reply>>
      BY DEF Destroy, Delete, DeleteRoot, DeleteTokens, DeleteAccountRow, DeleteActor, DeleteFails, SetActive,
             CreateAppPassword, DeleteAppPassword, creates
    <3>6. UNCHANGED vars => UNCHANGED <<pc, reply>>
      BY DEF vars, creates
    <3> QED BY <3>1, <3>2, <3>3, <3>4, <3>5, <3>6 DEF Next
  <2>2. Insert(r, Jobs)
    BY <1>2, <2>1 DEF Register
  <2>3. account[req[r].did] = Absent /\ actor[req[r].did] = Absent
    BY <1>2, <2>1 DEF Register, At, OneRegisters, Types, TypeOK
  <2>4. req' = req
    BY <2>1 DEF Register
  <2> QED BY <2>2, <2>3, <2>4, InsertAll DEF Stored, FreeEmail, FreeHandle
<1> QED BY <1>3, <1>4

\* Only a call that counts as late puts a row or a file back.
LEMMA NextEmptied == IInv /\ [Next]_vars => EmptiedSoFar'
<1> SUFFICES ASSUME IInv, [Next]_vars PROVE EmptiedSoFar'
  OBVIOUS
<1> USE DEF IInv, Types, TypeOK
<1>1. ASSUME NEW r \in Req, Register(r) PROVE EmptiedSoFar'
  <2>1. PICK done \in SUBSET Jobs : Insert(r, done)
    BY <1>1 DEF Register
  <2>2. /\ UNCHANGED <<del, files>>
        /\ late' = IF del[req[r].did] # "no" THEN late \cup {req[r].did} ELSE late
    BY <1>1 DEF Register, Writes, others
  <2>3. /\ \A d \in Did : d # req[r].did => actor'[d] = actor[d] /\ account'[d] = account[d]
        /\ root' \subseteq root \cup {req[r].did}
        /\ tokens' \subseteq tokens \cup {<<req[r].did, r>>}
    BY <2>1, InsertRows
  <2> QED BY <2>2, <2>3 DEF EmptiedSoFar, files
<1>2. ASSUME NEW s \in Login, StoreToken(s) PROVE EmptiedSoFar'
  BY <1>2 DEF StoreToken, EmptiedSoFar, Writes, files
<1>3. ASSUME NEW u \in Rename, SetHandle(u) PROVE EmptiedSoFar'
  BY <1>3 DEF SetHandle, EmptiedSoFar, files
<1>4. ASSUME NEW d \in Did, Destroy(d) PROVE EmptiedSoFar'
  BY <1>4 DEF Destroy, EmptiedSoFar, tables
<1>5. ASSUME NEW d \in Did, DeleteRoot(d) PROVE EmptiedSoFar'
  BY <1>5 DEF DeleteRoot, EmptiedSoFar, files
<1>6. ASSUME NEW d \in Did, DeleteTokens(d) PROVE EmptiedSoFar'
  BY <1>6 DEF DeleteTokens, EmptiedSoFar, files
<1>7. ASSUME NEW d \in Did, DeleteAccountRow(d) PROVE EmptiedSoFar'
  BY <1>7 DEF DeleteAccountRow, EmptiedSoFar, files
<1>8. ASSUME NEW d \in Did, DeleteActor(d) PROVE EmptiedSoFar'
  BY <1>8 DEF DeleteActor, EmptiedSoFar, files
<1>9. ASSUME NEW d \in Did, DeleteFails(d) PROVE EmptiedSoFar'
  BY <1>9 DEF DeleteFails, EmptiedSoFar, tables, files
<1>10. UNCHANGED <<actor, account, root, tokens, files, del, late>> => EmptiedSoFar'
  BY DEF EmptiedSoFar, files
<1>11. ASSUME NEW r \in Req, Begin(r) \/ LookupsReturn(r) \/ Check(r) \/ PublishEvents(r) \/ Cancel(r)
                             \/ (\E g \in Lookups : LookUp(r, g) \/ Decide(r, g))
       PROVE  EmptiedSoFar'
  BY <1>10, <1>11 DEF Begin, LookupsReturn, Check, PublishEvents, LookUp, Decide, Cancel, tables, others
<1>12. ASSUME NEW s \in Login, (\E d \in Did : Verify(s, d)) \/ SessionEnds(s) PROVE EmptiedSoFar'
  BY <1>10, <1>12 DEF Verify, SessionEnds, tables
<1>13. ASSUME NEW u \in Rename, NEW d \in Did, NEW h \in Handle, CountHandle(u, d, h) PROVE EmptiedSoFar'
  BY <1>10, <1>13 DEF CountHandle, tables
<1>14. ASSUME NEW d \in Did, SetActive(d) PROVE EmptiedSoFar'
  BY <1>10, <1>14 DEF SetActive, others
<1>15. CASE UNCHANGED vars
  BY <1>10, <1>15 DEF vars, tables, others
\* Files of one did are written, and the did is late if its deletion has begun.
<1>16. ASSUME NEW r \in Req, OpenStore(r) \/ WriteKey(r) \/ MakeRepo(r) \/ Fail(r) PROVE EmptiedSoFar'
  <2>1. UNCHANGED <<actor, account, root, tokens, del>>
    BY <1>16 DEF OpenStore, WriteKey, MakeRepo, Fail, tables, others
  <2>2. \A d \in Did : d # req[r].did => dir'[d] = dir[d] /\ key'[d] = key[d]
    BY <1>16 DEF OpenStore, WriteKey, MakeRepo, Fail
  <2>3. \/ UNCHANGED <<dir, key, late>>
        \/ late' = IF del[req[r].did] # "no" THEN late \cup {req[r].did} ELSE late
    BY <1>16 DEF OpenStore, WriteKey, MakeRepo, Fail, Writes
  <2> QED BY <2>1, <2>2, <2>3 DEF EmptiedSoFar
<1>17. ASSUME NEW d \in Did, CreateAppPassword(d) \/ DeleteAppPassword(d) PROVE EmptiedSoFar'
  <2>1. UNCHANGED <<actor, account, root, tokens, files, del>> /\ late \subseteq late'
    BY <1>17 DEF CreateAppPassword, DeleteAppPassword, Writes, others
  <2> QED BY <2>1 DEF EmptiedSoFar, files
<1> QED BY <1>1, <1>2, <1>3, <1>4, <1>5, <1>6, <1>7, <1>8, <1>9, <1>11, <1>12, <1>13, <1>14,
           <1>15, <1>16, <1>17 DEF Next, Create, Delete

\* Every step keeps the whole invariant.
LEMMA NextIInv == IInv /\ [Next]_vars => IInv'
BY NextTypes, NextNames, NextFiles, NextStored, NextEmptied DEF IInv, Files

-----------------------------------------------------------------------------
\* What requests, logins, renames and deletions find in the tables, in whatever
\* order their statements are run.
THEOREM Invariance == Spec => []IInv
BY InitIInv, NextIInv, PTL DEF Spec

\* The three stores and the calls' own state keep their types.
THEOREM TypeCorrect == Spec => []TypeOK
<1>1. IInv => TypeOK
  BY DEF IInv, Types
<1> QED BY <1>1, Invariance, PTL

\* The unique indexes of the schema: two accounts never share a handle or an
\* email, however CreateAccount's look-ups and UpdateHandle's count interleave.
THEOREM UniqueNames == Spec => []NamesAreUnique
<1>1. IInv => NamesAreUnique
  BY DEF IInv
<1> QED BY <1>1, Invariance, PTL

\* CreateAccount commits rows after the files it made: whatever fails, an account
\* that nobody deletes has its repository and a key that was written.
THEOREM RepoBehindAccount == Spec => []AccountHasRepo
<1>1. IInv => AccountHasRepo
  BY DEF IInv
<1> QED BY <1>1, Invariance, PTL

\* An answer of CreateAccount with tokens was given after the root, the refresh
\* token, the handle and the email were stored, also when a brought did is
\* registered by two requests that ask for different names.
THEOREM OkStored == Spec => []OkIsStored
<1>1. IInv => OkIsStored
  BY DEF IInv, RegisteredIsStored, Stored, OkIsStored
<1> QED BY <1>1, Invariance, PTL

\* A deletion that is through has removed the files and all rows in its tables,
\* repeated or not, but for what a call that runs beside it writes.
THEOREM DeletedGone == Spec => []DeletedIsGone
<1>1. IInv => DeletedIsGone
  BY DEF IInv, EmptiedSoFar, DeletedIsGone
<1> QED BY <1>1, Invariance, PTL
=============================================================================
