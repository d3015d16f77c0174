------------------------------ MODULE Accounts ------------------------------
(***************************************************************************)
(* Accounts across their three stores: the account database (accountstore),*)
(* the actor's directory with its key and repository (actorstore), and the *)
(* handlers of pds that drive them: CreateAccount, CreateSession,          *)
(* DeleteAccount.  A statement or transaction of the database is atomic;   *)
(* everything between two of them can interleave with other requests, fail *)
(* or never happen.                                                        *)
(***************************************************************************)
EXTENDS FiniteSets

CONSTANTS
  Req,      \* calls of CreateAccount
  Login,    \* calls of CreateSession
  Rename,   \* calls of UpdateHandle
  Did, Handle, Email,
  Doomed,   \* the dids whose account the administrator deletes
  Absent    \* no row, no file

ASSUME AccountsAssumption ==
  Absent \notin Handle \cup Email \cup Req /\ Doomed \subseteq Did

VARIABLES
  actor,      \* table actor: the handle of each did
  off,        \* table actor: dids whose deactivatedAt is set
  account,    \* table account: the email of each did
  root,       \* table repo_root: its dids
  tokens,     \* table refresh_token: <<did, the call that stored it>>
  apps,       \* table app_password: its dids
  dir,        \* the actor's directory: "none", "db" (no repository) or "repo"
  key,        \* the key file: the request whose signing key is in it, "empty" if
              \* it was made and not written
  req,        \* what each CreateAccount call asks for
  pc,         \* where it is
  look,       \* where its two look-up goroutines are
  err,        \* the variable err that the goroutines share with their caller
  cancelled,  \* requests whose context has ended
  reply,      \* its answer
  login,      \* where each CreateSession call is, and for whom
  rename,     \* where each UpdateHandle call is, and for what
  del,        \* where DeleteAccount of each did is
  late        \* history: dids written to after their deletion began

tables  == <<actor, off, account, root, tokens, apps>>
files   == <<dir, key>>
creates == <<req, pc, look, err, cancelled, reply>>
others  == <<login, rename, del>>
vars == <<tables, files, creates, others, late>>

Lookups == {"handle", "email"}
Jobs    == {"actor", "token", "root", "account"}

TypeOK ==
  /\ actor \in [Did -> Handle \cup {Absent}] /\ off \in SUBSET Did
  /\ account \in [Did -> Email \cup {Absent}]
  /\ root \in SUBSET Did
  /\ tokens \in SUBSET (Did \X (Req \cup Login))
  /\ apps \in SUBSET Did
  /\ dir \in [Did -> {"none", "db", "repo"}] /\ key \in [Did -> Req \cup {Absent, "empty"}]
  /\ req \in [Req -> [did : Did, handle : Handle, email : Email, brings : BOOLEAN]]
  /\ pc \in [Req -> {"idle", "validate", "check", "open", "key", "repo", "register",
                     "publish", "done"}]
  /\ look \in [Req -> [Lookups -> {"look", "decide", "ok", "taken"}]]
  /\ err \in [Req -> {"nil", "error"}]
  /\ cancelled \in SUBSET Req
  /\ reply \in [Req -> {"none", "ok", "error"}]
  /\ \A s \in Login : login[s].pc \in {"idle", "verified", "left", "stored", "ok", "error"}
  /\ \A u \in Rename : rename[u].pc \in {"idle", "update", "done"}
  /\ del \in [Did -> {"no", "root", "token", "account", "actor", "done", "failed"}]
  /\ late \in SUBSET Did

\* A did made by the directory service is new; one that the caller brings was
\* proved to be his by the request's token, and he may bring it twice.
Requests ==
  {q \in [Req -> [did : Did, handle : Handle, email : Email, brings : BOOLEAN]] :
     \A a, b \in Req : a # b /\ q[a].did = q[b].did => q[a].brings /\ q[b].brings}

Init ==
  /\ actor = [d \in Did |-> Absent] /\ off = {}
  /\ account = [d \in Did |-> Absent]
  /\ root = {} /\ tokens = {} /\ apps = {}
  /\ dir = [d \in Did |-> "none"] /\ key = [d \in Did |-> Absent]
  /\ req \in Requests
  /\ pc = [r \in Req |-> "idle"]
  /\ look = [r \in Req |-> [g \in Lookups |-> "look"]]
  /\ err = [r \in Req |-> "nil"]
  /\ cancelled = {}
  /\ reply = [r \in Req |-> "none"]
  /\ login = [s \in Login |-> [pc |-> "idle"]]
  /\ rename = [u \in Rename |-> [pc |-> "idle"]]
  /\ del = [d \in Did |-> "no"]
  /\ late = {}

\* Something is written for d; it is late when d's deletion has begun.
Writes(d) == late' = IF del[d] # "no" THEN late \cup {d} ELSE late

\* The caller of the look-ups can still read err.
Looking(r) == pc[r] \in {"validate", "check"}

At(r, from, to) == pc[r] = from /\ pc' = [pc EXCEPT ![r] = to]

\* GetAccount without options: account LEFT JOIN actor, not deactivated.
Visible(d) == account[d] # Absent /\ actor[d] # Absent /\ d \notin off
Owned(h)   == \E d \in Did : Visible(d) /\ actor[d] = h
Found(r, g) ==
  IF g = "handle" THEN Owned(req[r].handle)
  ELSE \E d \in Did : Visible(d) /\ account[d] = req[r].email

\* The unique indexes on lower(handle) and lower(email).
FreeHandle(h) == \A d \in Did : actor[d] # h
FreeEmail(e)  == \A d \in Did : account[d] # e

-----------------------------------------------------------------------------
\* CreateAccount.

Begin(r) ==
  /\ At(r, "idle", "validate")
  /\ UNCHANGED <<tables, files, req, look, err, cancelled, reply, others, late>>

\* The caller goes away.  Only these steps look at the context; a step that
\* does not is as good as after the next one that does.
Cancel(r) ==
  /\ pc[r] \in {"validate", "repo", "register"} /\ r \notin cancelled
  /\ cancelled' = cancelled \cup {r}
  /\ UNCHANGED <<tables, files, req, pc, look, err, reply, others, late>>

\* `_, err = pds.Accounts.GetAccount(...)` assigns the caller's err.  A query
\* whose context has ended, by the caller or by the return of parallel.Do, may
\* fail like one that finds nothing.
LookUp(r, g) ==
  /\ Looking(r) /\ look[r][g] = "look"
  /\ look' = [look EXCEPT ![r][g] = "decide"]
  /\ \E found \in {Found(r, g)} \cup (IF r \in cancelled \/ pc[r] # "validate" THEN {FALSE} ELSE {}) :
       err' = [err EXCEPT ![r] = IF found THEN "nil" ELSE "error"]
  /\ UNCHANGED <<tables, files, req, pc, cancelled, reply, others, late>>

\* `if err == nil` reads whatever is in err by now.
Decide(r, g) ==
  /\ Looking(r) /\ look[r][g] = "decide"
  /\ look' = [look EXCEPT ![r][g] = IF err[r] = "nil" THEN "taken" ELSE "ok"]
  /\ UNCHANGED <<tables, files, req, pc, err, cancelled, reply, others, late>>

\* parallel.Do answers the first error, or nil when both have returned: none of
\* them failed, or the context ended and hid it.
LookupsReturn(r) ==
  /\ At(r, "validate", "check")
  /\ \/ (\E g \in Lookups : look[r][g] = "taken") /\ err' = [err EXCEPT ![r] = "error"]
     \/ /\ \A g \in Lookups : look[r][g] \in {"ok", "taken"}
        /\ r \in cancelled \/ \A g \in Lookups : look[r][g] = "ok"
        /\ err' = [err EXCEPT ![r] = "nil"]
  /\ UNCHANGED <<tables, files, req, look, cancelled, reply, others, late>>

\* `if err != nil` after parallel.Do, and then the did: brought, or a new one.
\* What look-ups that are still running do to err from here on is left out: `return
\* nil, err` reads it again and may so answer neither tokens nor an error, and the
\* check after the next assignment may fail the request, like Fail at "open".
Check(r) ==
  /\ \/ err[r] = "nil" /\ At(r, "check", "open") /\ UNCHANGED reply
     \/ err[r] = "error" /\ At(r, "check", "done") /\ reply' = [reply EXCEPT ![r] = "error"]
  /\ err' = [err EXCEPT ![r] = "nil"]
  /\ look' = [look EXCEPT ![r] = [g \in Lookups |-> "look"]]
  /\ UNCHANGED <<tables, files, req, cancelled, others, late>>

\* ActorStore.migrate: the directory and its database, then the key over
\* whatever key was there.
OpenStore(r) ==
  /\ At(r, "open", "key")
  /\ dir' = [dir EXCEPT ![req[r].did] = IF @ = "none" THEN "db" ELSE @]
  /\ Writes(req[r].did)
  /\ UNCHANGED <<tables, key, req, look, err, cancelled, reply, others>>

WriteKey(r) ==
  /\ At(r, "key", "repo")
  /\ dir[req[r].did] # "none"
  /\ key' = [key EXCEPT ![req[r].did] = r]
  /\ Writes(req[r].did)
  /\ UNCHANGED <<tables, dir, req, look, err, cancelled, reply, others>>

\* Wrong: an account is registered whether or not its repository was made.
MakeRepoIgnored(r) ==
  /\ At(r, "repo", "register")
  /\ \/ dir' = [dir EXCEPT ![req[r].did] = "repo"]
     \/ UNCHANGED dir
  /\ UNCHANGED <<tables, key, req, look, err, cancelled, reply, others, late>>

\* CreateRepo inserts the root; a repository that is there already makes it
\* fail, and so does an ended context.  After Destroy the open database is a
\* file without a name, and the directory may be another request's by now.
MakeRepo(r) ==
  /\ At(r, "repo", "register")
  /\ r \notin cancelled
  /\ LET d == req[r].did
     IN  \/ dir[d] = "db" /\ dir' = [dir EXCEPT ![d] = "repo"]
         \/ del[d] # "no" /\ UNCHANGED dir
  /\ Writes(req[r].did)
  /\ UNCHANGED <<tables, key, req, look, err, cancelled, reply, others>>

\* What a committed transaction leaves when the jobs in `done` ran.  INSERT ...
\* ON CONFLICT DO NOTHING: a did, handle or email in use makes a job do nothing.
Insert(r, done) ==
  LET d == req[r].did
      newActor   == "actor" \in done /\ actor[d] = Absent /\ FreeHandle(req[r].handle)
      newAccount == "account" \in done /\ account[d] = Absent /\ FreeEmail(req[r].email)
  IN  /\ actor' = IF newActor THEN [actor EXCEPT ![d] = req[r].handle] ELSE actor
      /\ off' = IF newActor
                THEN (IF req[r].brings THEN off \cup {d} ELSE off \ {d}) ELSE off
      /\ account' = IF newAccount THEN [account EXCEPT ![d] = req[r].email] ELSE account
      /\ root' = IF "root" \in done THEN root \cup {d} ELSE root
      /\ tokens' = IF "token" \in done THEN tokens \cup {<<d, r>>} ELSE tokens

\* Wrong: the transaction is committed whatever the jobs returned.
RegisterAnyway(r) ==
  /\ \E done \in SUBSET Jobs : Insert(r, done)
  /\ IF req[r].brings
     THEN At(r, "register", "done") /\ reply' = [reply EXCEPT ![r] = "ok"]
     ELSE At(r, "register", "publish") /\ UNCHANGED reply
  /\ Writes(req[r].did)
  /\ UNCHANGED <<apps, files, req, look, err, cancelled, others>>

\* AccountStore.CreateAccount.  ForkJoin: a nil answer means that every job
\* succeeded, or that the context ended and hid the errors of some.
Register(r) ==
  /\ \E done \in SUBSET Jobs : (done = Jobs \/ r \in cancelled) /\ Insert(r, done)
  /\ IF req[r].brings
     THEN At(r, "register", "done") /\ reply' = [reply EXCEPT ![r] = "ok"]
     ELSE At(r, "register", "publish") /\ UNCHANGED reply
  /\ Writes(req[r].did)
  /\ UNCHANGED <<apps, files, req, look, err, cancelled, others>>

\* The three events are published and the tokens returned.
PublishEvents(r) ==
  /\ At(r, "publish", "done")
  /\ reply' = [reply EXCEPT ![r] = "ok"]
  /\ UNCHANGED <<tables, files, req, look, err, cancelled, others, late>>

\* A step that can fail fails: the directory service, the file system, a
\* transaction (rolled back), the bus.  Nothing done before is undone.
Fail(r) ==
  /\ pc[r] \in {"open", "key", "repo", "register", "publish"}
  /\ pc' = [pc EXCEPT ![r] = "done"]
  /\ reply' = [reply EXCEPT ![r] = "error"]
  /\ LET d == req[r].did
     IN  \/ UNCHANGED <<key, late>>
         \/ /\ pc[r] = "key" /\ dir[d] # "none" /\ key[d] = Absent
            /\ key' = [key EXCEPT ![d] = "empty"]
            /\ Writes(d)
  /\ UNCHANGED <<tables, dir, req, look, err, cancelled, others>>

-----------------------------------------------------------------------------
\* CreateSession.

\* Login finds the account, deactivated or not, and verifies the password.
Verify(s, d) ==
  /\ login[s].pc = "idle"
  /\ account[d] # Absent /\ actor[d] # Absent
  /\ login' = [login EXCEPT ![s] = [pc |-> "verified", did |-> d]]
  /\ UNCHANGED <<tables, files, creates, rename, del, late>>

\* AccountStore.CreateSession; "left" once the call has answered without it.
StoreToken(s) ==
  /\ login[s].pc \in {"verified", "left"}
  /\ login' = [login EXCEPT ![s].pc = IF @ = "left" THEN "error" ELSE "stored"]
  /\ tokens' = tokens \cup {<<login[s].did, s>>}
  /\ Writes(login[s].did)
  /\ UNCHANGED <<actor, off, account, root, apps, files, creates, rename, del>>

\* The job beside it resolves the did document.  It may fail first, and the token
\* be stored after the error was answered, or never.
SessionEnds(s) ==
  /\ \/ login[s].pc = "stored" /\ \E e \in {"ok", "error"} : login' = [login EXCEPT ![s].pc = e]
     \/ login[s].pc = "verified" /\ login' = [login EXCEPT ![s].pc = "left"]
  /\ UNCHANGED <<tables, files, creates, rename, del, late>>

-----------------------------------------------------------------------------
\* UpdateHandle: SELECT COUNT, then UPDATE, which the unique index can refuse.

CountHandle(u, d, h) ==
  /\ rename[u].pc = "idle"
  /\ rename' = [rename EXCEPT ![u] =
                  [pc |-> IF FreeHandle(h) THEN "update" ELSE "done", did |-> d, handle |-> h]]
  /\ UNCHANGED <<tables, files, creates, login, del, late>>

\* Wrong: the schema has no unique index on the handle.
SetHandleUnindexed(u) ==
  /\ rename[u].pc = "update"
  /\ rename' = [rename EXCEPT ![u].pc = "done"]
  /\ LET d == rename[u].did
         can == actor[d] # Absent
     IN  actor' = IF can THEN [actor EXCEPT ![d] = rename[u].handle] ELSE actor
  /\ UNCHANGED <<off, account, root, tokens, apps, files, creates, login, del, late>>

SetHandle(u) ==
  /\ rename[u].pc = "update"
  /\ rename' = [rename EXCEPT ![u].pc = "done"]
  /\ LET d == rename[u].did
         can == actor[d] # Absent /\ FreeHandle(rename[u].handle)
     IN  actor' = IF can THEN [actor EXCEPT ![d] = rename[u].handle] ELSE actor
  /\ UNCHANGED <<off, account, root, tokens, apps, files, creates, login, del, late>>

\* DeactivateAccount and ActivateAccount.
SetActive(d) ==
  /\ actor[d] # Absent
  /\ off' = IF d \in off THEN off \ {d} ELSE off \cup {d}
  /\ UNCHANGED <<actor, account, root, tokens, apps, files, creates, others, late>>

\* CreateAppPassword and DeleteAppPassword, of one name; the primary key is did and
\* name.
CreateAppPassword(d) ==
  /\ d \notin apps /\ apps' = apps \cup {d}
  /\ Writes(d)
  /\ UNCHANGED <<actor, off, account, root, tokens, files, creates, others>>

DeleteAppPassword(d) ==
  /\ d \in apps /\ apps' = apps \ {d}
  /\ UNCHANGED <<actor, off, account, root, tokens, files, creates, others, late>>

-----------------------------------------------------------------------------
\* DeleteAccount: the directory first, then a DELETE per table, each committed
\* by itself; app_password is none of them.  Calling it again starts over.

Destroy(d) ==
  /\ d \in Doomed /\ del[d] \in {"no", "failed"}
  /\ del' = [del EXCEPT ![d] = "root"]
  /\ dir' = [dir EXCEPT ![d] = "none"] /\ key' = [key EXCEPT ![d] = Absent]
  /\ late' = late \ {d}
  /\ UNCHANGED <<tables, creates, login, rename>>

DeleteRoot(d) ==
  /\ del[d] = "root" /\ del' = [del EXCEPT ![d] = "token"]
  /\ root' = root \ {d}
  /\ UNCHANGED <<actor, off, account, tokens, apps, files, creates, login, rename, late>>

\* Wrong: refresh_token is not among the tables.
DeleteTokensForgotten(d) ==
  /\ del[d] = "token" /\ del' = [del EXCEPT ![d] = "account"]
  /\ UNCHANGED <<tables, files, creates, login, rename, late>>

DeleteTokens(d) ==
  /\ del[d] = "token" /\ del' = [del EXCEPT ![d] = "account"]
  /\ tokens' = {t \in tokens : t[1] # d}
  /\ UNCHANGED <<actor, off, account, root, apps, files, creates, login, rename, late>>

DeleteAccountRow(d) ==
  /\ del[d] = "account" /\ del' = [del EXCEPT ![d] = "actor"]
  /\ account' = [account EXCEPT ![d] = Absent]
  /\ UNCHANGED <<actor, off, root, tokens, apps, files, creates, login, rename, late>>

DeleteActor(d) ==
  /\ del[d] = "actor" /\ del' = [del EXCEPT ![d] = "done"]
  /\ actor' = [actor EXCEPT ![d] = Absent] /\ off' = off \ {d}
  /\ UNCHANGED <<account, root, tokens, apps, files, creates, login, rename, late>>

DeleteFails(d) ==
  /\ del[d] \in {"root", "token", "account", "actor"}
  /\ del' = [del EXCEPT ![d] = "failed"]
  /\ UNCHANGED <<tables, files, creates, login, rename, late>>

-----------------------------------------------------------------------------
Create(r) ==
  \/ Begin(r) \/ LookupsReturn(r) \/ Check(r) \/ OpenStore(r) \/ WriteKey(r) \/ MakeRepo(r)
  \/ Register(r) \/ PublishEvents(r)
  \/ \E g \in Lookups : LookUp(r, g) \/ Decide(r, g)

Delete(d) == DeleteRoot(d) \/ DeleteTokens(d) \/ DeleteAccountRow(d) \/ DeleteActor(d)

Next ==
  \/ \E r \in Req : Create(r) \/ Cancel(r) \/ Fail(r)
  \/ \E s \in Login : (\E d \in Did : Verify(s, d)) \/ StoreToken(s) \/ SessionEnds(s)
  \/ \E u \in Rename : SetHandle(u) \/ \E d \in Did, h \in Handle : CountHandle(u, d, h)
  \/ \E d \in Did : \/ Destroy(d) \/ Delete(d) \/ DeleteFails(d) \/ SetActive(d)
                    \/ CreateAppPassword(d) \/ DeleteAppPassword(d)

Spec == Init /\ [][Next]_vars

-----------------------------------------------------------------------------
\* No two dids share a handle or an email, although UpdateHandle, CreateAccount
\* and their checks interleave freely.
NamesAreUnique ==
  \A d, e \in Did : d # e =>
    /\ actor[d] # Absent => actor[d] # actor[e]
    /\ account[d] # Absent => account[d] # account[e]

\* An account whose deletion has not begun has its repository: rows are written
\* after the files, whatever fails in between.
AccountHasRepo ==
  \A d \in Did : del[d] = "no" /\ (account[d] # Absent \/ actor[d] # Absent)
                   => dir[d] = "repo" /\ key[d] \in Req

\* A request that was answered with tokens has its root and its refresh token in
\* the tables, and its handle and email in use, if its context lived and nobody
\* deleted, renamed or hid an account.
OkIsStored ==
  \A r \in Req : reply[r] = "ok" /\ r \notin cancelled /\ (\A d \in Did : del[d] = "no") =>
    /\ req[r].did \in root /\ <<req[r].did, r>> \in tokens
    /\ ~FreeEmail(req[r].email)
    /\ (\A u \in Rename : rename[u].pc = "idle") => ~FreeHandle(req[r].handle)

\* Once DeleteAccount is through, the account's files are gone and its rows in the
\* tables it names, unless another call wrote something for the did after the
\* deletion had begun.  Of the did's app passwords it says nothing.
DeletedIsGone ==
  \A d \in Did : del[d] = "done" /\ d \notin late =>
    /\ dir[d] = "none" /\ key[d] = Absent
    /\ actor[d] = Absent /\ account[d] = Absent /\ d \notin root
    /\ \A t \in tokens : t[1] # d

\* What the comment on AccountStore.CreateAccount says, "create a new account and
\* actor": an answer with tokens means that both rows are there.
CreatedIsRegistered ==
  \A r \in Req : reply[r] = "ok" /\ r \notin cancelled /\ del[req[r].did] = "no" =>
    actor[req[r].did] # Absent /\ account[req[r].did] # Absent
=============================================================================
