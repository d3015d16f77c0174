--------------------------- MODULE IdentityCache ----------------------------
(***************************************************************************)
(* The command line's caches of identities: did_doc and did_handle         *)
(* (internal/didcache) over http_cache (internal/httpcache) over the       *)
(* network (atp), all in one file that every run of the command shares.    *)
(* A run of view opens the file, makes its tables if the file was not there, *)
(* purges it when asked to, and looks one identifier up.                   *)
(*                                                                         *)
(* The versions of a name are numbered from 1: what a handle's owner or    *)
(* the directory of dids says changes with time.  Version 0 of a did is    *)
(* the empty document.                                                     *)
(***************************************************************************)
EXTENDS Integers, Sequences, FiniteSets

CONSTANTS
  Did, Handle, \* identifiers
  Owner,       \* Owner[h][v]: the did that version v of handle h names
  Proc,        \* runs of the command at one time
  DocTTL,      \* didcache's maxTTL
  HttpTTL,     \* httpcache's TTL
  MaxHold,     \* bound: how long a run holds an answer before it stores it
  MaxTime, MaxChange, MaxRun, MaxPurge \* bounds: clock, changes of the world, runs, purges

ASSUME IdentityCacheAssumption ==
  /\ {DocTTL, HttpTTL, MaxHold, MaxTime, MaxChange, MaxRun, MaxPurge} \subseteq Nat /\ HttpTTL > 0
  /\ IsFiniteSet(Did) /\ IsFiniteSet(Handle) /\ Did \cap Handle = {}
  /\ \A h \in Handle, v \in 1..(MaxChange + 1) : Owner[h][v] \in Did

VARIABLES
  now,      \* the clock
  ended,    \* per identifier: when each version but the current one ended
  file,     \* the file exists
  tables,   \* tables in it
  docs,     \* did_doc
  names,    \* did_handle
  https,    \* http_cache: the oldest row of a key, the only one that is read
  pc,       \* where each run is
  run,      \* its local state
  runs, purges, \* runs and purging runs so far
  halfMade, \* history: tables are missing because the run that made them died
  purgedAt  \* history: start of the last purge that was not disturbed

world == <<now, ended>>
cache == <<file, tables, docs, names, https>>
hist  == <<halfMade, purgedAt>>
count == <<runs, purges>>
vars  == <<world, cache, pc, run, count, hist>>

Key    == Did \cup Handle
Tables == {"did_doc", "did_handle", "http_cache"}
None   == [ver |-> -1, at |-> -1]
Row    == [ver : Nat, at : Nat] \cup {None}

Cur(k) == Len(ended[k]) + 1
\* The last moment at which version v of k was true.
Until(k, v) == IF v = Cur(k) THEN now ELSE ended[k][v]

Making   == {"open", "mk_doc", "mk_name", "mk_http"}
Purging  == {"clear_doc", "clear_name", "clear_http", "dir_name", "dir_doc", "dir_forget"}
Holding  == {"keep_name", "put", "keep_doc"}
Looking  == {"name", "ask", "doc", "http", "fetch"} \cup Holding
Active   == {p \in Proc : pc[p] \in Making \cup Purging \cup Looking}

\* want: the identifier; made: the file was not there; did: the did looked up;
\* got, since: the version in hand, fetched when; bad: a delete has failed;
\* from: when it began to purge; alone: no other run has been active since.
NoRun == [want |-> None, purge |-> FALSE, made |-> FALSE, bad |-> FALSE, did |-> None,
          got |-> 0, since |-> 0, from |-> 0, alone |-> FALSE]

TypeOK ==
  /\ now \in 0..MaxTime
  /\ ended \in [Key -> Seq(0..MaxTime)]
  /\ file \in BOOLEAN
  /\ tables \in SUBSET Tables
  /\ docs \in [Did -> Row] /\ https \in [Did -> Row] /\ names \in [Handle -> Row]
  /\ pc \in [Proc -> {"idle", "ok"} \cup Making \cup Purging \cup Looking]
  /\ \A p \in Proc : /\ run[p].want \in Key \cup {None} /\ run[p].did \in Did \cup {None}
                     /\ {run[p].got, run[p].since, run[p].from} \subseteq Nat
                     /\ {run[p].purge, run[p].made, run[p].bad, run[p].alone} \subseteq BOOLEAN
  /\ runs \in 0..MaxRun /\ purges \in 0..MaxPurge
  /\ halfMade \in BOOLEAN
  /\ purgedAt \in Nat

Init ==
  /\ now = 0
  /\ ended = [k \in Key |-> <<>>]
  /\ file = FALSE /\ tables = {}
  /\ docs = [d \in Did |-> None] /\ https = [d \in Did |-> None]
  /\ names = [h \in Handle |-> None]
  /\ pc = [p \in Proc |-> "idle"]
  /\ run = [p \in Proc |-> NoRun]
  /\ runs = 0 /\ purges = 0
  /\ halfMade = FALSE
  /\ purgedAt = 0

-----------------------------------------------------------------------------
(* The world: time passes, a handle changes hands, a document is updated.  *)

\* The clock starts with the first answer: only differences of times matter.
Tick ==
  /\ now < MaxTime
  /\ \/ \E p \in Proc : pc[p] \in Holding
     \/ \E d \in Did : docs[d] # None \/ https[d] # None
     \/ \E h \in Handle : names[h] # None
  /\ \A p \in Proc : pc[p] \in Holding => now - run[p].since < MaxHold
  /\ now' = now + 1
  /\ UNCHANGED <<ended, cache, pc, run, count, hist>>

Change(k) ==
  /\ Cardinality({e \in Key \X (1..MaxChange) : e[2] \in DOMAIN ended[e[1]]}) < MaxChange
  /\ ended' = [ended EXCEPT ![k] = Append(@, now)]
  /\ UNCHANGED <<now, cache, pc, run, count, hist>>

-----------------------------------------------------------------------------
(* A run's steps *)
Goto(p, to, r) ==
  /\ pc' = [pc EXCEPT ![p] = to]
  /\ run' = [run EXCEPT ![p] = r]

Fail(p) == Goto(p, "idle", NoRun) /\ UNCHANGED <<world, cache, count>>

\* Where view goes when the caches are ready.
Entry(k) == IF k \in Handle THEN "name" ELSE "doc"
DidOf(k) == IF k \in Did THEN k ELSE None

\* init: whether the file exists is read before it is opened.
Begin(p, k, purge) ==
  /\ p \notin Active /\ runs < MaxRun
  /\ runs' = runs + 1
  /\ purges < MaxPurge \/ ~purge
  /\ purges' = IF purge THEN purges + 1 ELSE purges
  /\ pc' = [pc EXCEPT ![p] = "open"]
  /\ run' = [q \in Proc |->
               IF q = p THEN [NoRun EXCEPT !.want = k, !.purge = purge, !.made = ~file,
                                           !.did = DidOf(k)]
                        ELSE [run[q] EXCEPT !.alone = FALSE]]
  /\ UNCHANGED <<world, cache, hist>>

Ready(r) == IF r.purge THEN "clear_doc" ELSE Entry(r.want)

\* Wrong: the existence of the file is read after it was created.
OpenFirst(p) ==
  /\ pc[p] = "open"
  /\ file' = TRUE
  /\ Goto(p, Ready(run[p]), run[p])
  /\ UNCHANGED <<world, tables, docs, names, https, count, hist>>

\* sqlite.Open sets the journal mode, which creates the file.
Open(p) ==
  /\ pc[p] = "open"
  /\ file' = TRUE
  /\ Goto(p, IF run[p].made THEN "mk_doc" ELSE Ready(run[p]), run[p])
  /\ UNCHANGED <<world, tables, docs, names, https, count, hist>>

\* InitializeSchema and Migrate: CREATE TABLE IF NOT EXISTS, one by one.
Make(p) ==
  /\ \E s \in {<<"mk_doc", "did_doc", "mk_name">>, <<"mk_name", "did_handle", "mk_http">>,
               <<"mk_http", "http_cache", Ready(run[p])>>} :
       /\ pc[p] = s[1]
       /\ tables' = tables \cup {s[2]}
       /\ Goto(p, s[3], [run[p] EXCEPT !.made = s[3] \in Making])
  /\ halfMade' = (halfMade /\ tables' # Tables)
  /\ UNCHANGED <<world, file, docs, names, https, count, purgedAt>>

-----------------------------------------------------------------------------
(* Purging: init deletes the rows of all three tables; view then calls     *)
(* Directory.Purge for its identifier and only logs what fails there.      *)

\* The start of a purge; a deletion that fails is reported after the next one.
ClearDoc(p) ==
  /\ pc[p] = "clear_doc"
  /\ \E fails \in {"did_doc" \notin tables, TRUE} :
       /\ docs' = IF fails THEN docs ELSE [d \in Did |-> None]
       /\ Goto(p, "clear_name",
               [run[p] EXCEPT !.bad = fails, !.from = now, !.alone = Active = {p}])
  /\ UNCHANGED <<world, file, tables, names, https, count, hist>>

\* didcache.Purge makes both deletes and then reports the first error.
ClearName(p) ==
  /\ pc[p] = "clear_name"
  /\ \/ /\ "did_handle" \in tables
        /\ names' = [h \in Handle |-> None]
        /\ IF run[p].bad THEN Goto(p, "idle", NoRun) ELSE Goto(p, "clear_http", run[p])
     \/ Goto(p, "idle", NoRun) /\ UNCHANGED names
  /\ UNCHANGED <<world, file, tables, docs, https, count, hist>>

AfterPurge(p) == IF run[p].want \in Handle THEN "dir_name" ELSE "dir_doc"

\* Wrong: the responses survive the purge.
ClearNoHttp(p) ==
  /\ pc[p] = "clear_http" /\ "http_cache" \in tables
  /\ Goto(p, AfterPurge(p), [run[p] EXCEPT !.purge = FALSE, !.from = 0, !.alone = FALSE])
  /\ purgedAt' = IF run[p].alone THEN run[p].from ELSE purgedAt
  /\ UNCHANGED <<world, cache, count, halfMade>>

ClearHttp(p) ==
  /\ pc[p] = "clear_http" /\ "http_cache" \in tables
  /\ https' = [d \in Did |-> None]
  /\ Goto(p, AfterPurge(p), [run[p] EXCEPT !.purge = FALSE, !.from = 0, !.alone = FALSE])
  /\ purgedAt' = IF run[p].alone THEN run[p].from ELSE purgedAt
  /\ UNCHANGED <<world, file, tables, docs, names, count, halfMade>>

ClearHttpFails(p) == pc[p] = "clear_http" /\ Fail(p) /\ UNCHANGED hist

\* Directory.Purge of a handle: the cached did's document goes first.
DirName(p) ==
  /\ pc[p] = "dir_name"
  /\ LET row == names[run[p].want] IN
     IF row = None THEN Goto(p, "dir_forget", run[p])
     ELSE Goto(p, "dir_doc", [run[p] EXCEPT !.did = Owner[run[p].want][row.ver]])
  /\ UNCHANGED <<world, cache, count, hist>>

DirDoc(p) ==
  /\ pc[p] = "dir_doc"
  /\ \/ /\ docs' = [docs EXCEPT ![run[p].did] = None]
        /\ Goto(p, IF run[p].want \in Did THEN "doc" ELSE "dir_forget", run[p])
     \/ Goto(p, Entry(run[p].want), run[p]) /\ UNCHANGED docs
  /\ UNCHANGED <<world, file, tables, names, https, count, hist>>

DirForget(p) ==
  /\ pc[p] = "dir_forget"
  /\ \/ names' = [names EXCEPT ![run[p].want] = None]
     \/ UNCHANGED names
  /\ Goto(p, "name", run[p])
  /\ UNCHANGED <<world, file, tables, docs, https, count, hist>>

-----------------------------------------------------------------------------
(* Looking up *)

\* A row counts until its age exceeds the TTL.
Fresh(row) == row # None /\ now <= row.at + DocTTL

\* HandleResolver.ResolveHandle: GetDID, and the network when that is no use.
GetName(p) ==
  /\ pc[p] = "name"
  /\ LET row == names[run[p].want] IN
     IF Fresh(row)
     THEN Goto(p, "doc", [run[p] EXCEPT !.want = None, !.did = Owner[run[p].want][row.ver],
                                        !.got = row.ver])
     ELSE Goto(p, "ask", run[p])
  /\ UNCHANGED <<world, cache, count, hist>>

\* DNS or the well-known file, whichever answers first, or neither.
Ask(p) ==
  /\ pc[p] = "ask"
  /\ LET v == Cur(run[p].want) IN
     Goto(p, "keep_name", [run[p] EXCEPT !.did = Owner[run[p].want][v],
                                         !.got = v, !.since = now])
  /\ UNCHANGED <<world, cache, count, hist>>

StoreName(p) ==
  /\ pc[p] = "keep_name" /\ "did_handle" \in tables
  /\ names' = [names EXCEPT ![run[p].want] = [ver |-> run[p].got, at |-> now]]
  /\ Goto(p, "doc", [run[p] EXCEPT !.want = None, !.since = 0])
  /\ UNCHANGED <<world, file, tables, docs, https, count, hist>>

\* The lookup answers.
Answer(p) == Goto(p, "ok", NoRun) /\ UNCHANGED hist

\* CachedDoc.  What was stored of an empty document may not parse again.
GetDoc(p) ==
  /\ pc[p] = "doc"
  /\ LET row == docs[run[p].did] IN
     \/ Fresh(row) /\ Answer(p)
     \/ /\ ~Fresh(row) \/ row.ver = 0
        /\ Goto(p, "http", [run[p] EXCEPT !.want = None, !.got = 0]) /\ UNCHANGED hist
  /\ UNCHANGED <<world, cache, count>>

\* Wrong: a response is served at the end of its TTL too.
GetHttpLate(p) ==
  /\ pc[p] = "http"
  /\ LET row == https[run[p].did] IN
     IF row # None /\ now <= row.at + HttpTTL
     THEN Goto(p, "keep_doc", [run[p] EXCEPT !.got = row.ver, !.since = now])
     ELSE Goto(p, "fetch", run[p])
  /\ UNCHANGED <<world, cache, count, hist>>

\* Cache.RoundTrip: the request is answered from its row for HttpTTL.
GetHttp(p) ==
  /\ pc[p] = "http"
  /\ LET row == https[run[p].did] IN
     IF row # None /\ now < row.at + HttpTTL
     THEN Goto(p, "keep_doc", [run[p] EXCEPT !.got = row.ver, !.since = now])
     ELSE Goto(p, "fetch", run[p])
  /\ UNCHANGED <<world, cache, count, hist>>

\* resolveDidPlc does not look at the status: a 404 or an overload with a JSON
\* body decodes into the empty document.  httpcache passes those by.
Fetch(p) ==
  /\ pc[p] = "fetch"
  /\ \/ Goto(p, "put", [run[p] EXCEPT !.got = Cur(run[p].did), !.since = now])
     \/ Goto(p, "keep_doc", [run[p] EXCEPT !.got = 0, !.since = now])
  /\ UNCHANGED <<world, cache, count, hist>>

\* put inserts a row; get keeps reading the oldest one.
Put(p) ==
  /\ pc[p] = "put" /\ "http_cache" \in tables
  /\ https' = [https EXCEPT ![run[p].did] =
                 IF @ = None THEN [ver |-> run[p].got, at |-> now] ELSE @]
  /\ Goto(p, "keep_doc", run[p])
  /\ UNCHANGED <<world, file, tables, docs, names, count, hist>>

\* Wrong: the row's time is set only when it is inserted.
StoreDocOnce(p) ==
  /\ pc[p] = "keep_doc" /\ "did_doc" \in tables
  /\ docs' = [docs EXCEPT ![run[p].did] =
                [ver |-> run[p].got, at |-> IF @ = None THEN now ELSE @.at]]
  /\ Answer(p)
  /\ UNCHANGED <<world, file, tables, names, https, count>>

\* CacheDoc: the last one to store wins.
StoreDoc(p) ==
  /\ pc[p] = "keep_doc" /\ "did_doc" \in tables
  /\ docs' = [docs EXCEPT ![run[p].did] = [ver |-> run[p].got, at |-> now]]
  /\ Answer(p)
  /\ UNCHANGED <<world, file, tables, names, https, count>>

\* The network gives no answer, or a statement fails: no table, or a busy file.
LookupFails(p) == pc[p] \in {"ask", "fetch"} \cup Holding /\ Fail(p) /\ UNCHANGED hist

\* The process is killed, or init gives up; "cache clear" ends once it has purged.
Crash(p) ==
  /\ p \in Active
  /\ Goto(p, "idle", NoRun)
  /\ halfMade' = (halfMade \/ (pc[p] \in Making \ {"open"} /\ tables # Tables))
  /\ UNCHANGED <<world, cache, count, purgedAt>>

-----------------------------------------------------------------------------
Step(p) ==
  \/ \E k \in Key, purge \in BOOLEAN : Begin(p, k, purge)
  \/ Open(p) \/ Make(p)
  \/ ClearDoc(p) \/ ClearName(p) \/ ClearHttp(p) \/ ClearHttpFails(p)
  \/ DirName(p) \/ DirDoc(p) \/ DirForget(p)
  \/ GetName(p) \/ Ask(p) \/ StoreName(p)
  \/ GetDoc(p) \/ GetHttp(p) \/ Fetch(p) \/ Put(p) \/ StoreDoc(p)
  \/ LookupFails(p) \/ Crash(p)

Next == Tick \/ (\E k \in Key : Change(k)) \/ (\E p \in Proc : Step(p))

Spec == Init /\ [][Next]_vars

-----------------------------------------------------------------------------
(* Properties *)
Answers(p)  == pc[p] # "ok" /\ pc'[p] = "ok"
Told(p)     == IF pc[p] = "doc" THEN docs[run[p].did].ver ELSE run[p].got
Resolves(p) == pc[p] \in {"name", "keep_name"} /\ pc'[p] = "doc"

\* Expiry bounds the age of what a run is told, whatever the runs' order and
\* crashes: a did that a handle is resolved to was its owner within one TTL, a
\* document was the directory's within the TTLs of both caches, because a
\* refresh of the one may come from the other; and the time runs hold answers
\* before they store them.
AnswersAreFresh == [][\A p \in Proc :
  /\ Resolves(p) => now - Until(run[p].want, run'[p].got) <= DocTTL + MaxHold
  /\ Answers(p) /\ Told(p) # 0 =>
       now - Until(run[p].did, Told(p)) <= DocTTL + HttpTTL + 2 * MaxHold - 1]_vars

\* An expired document may be refilled from http_cache.  Runs that overlap may
\* store documents and responses in any order, a purge may take the one and leave
\* the other, and the response of one run may stand beside the document of
\* another: still, a response that is served when the document has expired, and
\* for longer than runs hold an answer, is not the older of the two.
RefillsGoForward ==
  \A d \in Did :
    docs[d] # None /\ https[d] # None /\ https[d].at + HttpTTL > docs[d].at + DocTTL + MaxHold
      => https[d].ver >= docs[d].ver

\* After a purge that no other run was in the midst of, nobody is told what had
\* ceased to be true when it began (the purge flag and "cache clear").
PurgeForgets == [][\A p \in Proc :
  /\ Resolves(p) => Until(run[p].want, run'[p].got) >= purgedAt
  /\ Answers(p) /\ Told(p) # 0 => Until(run[p].did, Told(p)) >= purgedAt]_vars

\* Only the run that found no file makes the tables: another finds them missing
\* only while that one is at it, or when it died before it was through.
TablesAreMade ==
  (\E p \in Proc : pc[p] \in Looking) /\ tables # Tables =>
     halfMade \/ \E q \in Proc : pc[q] \in Making /\ run[q].made
=============================================================================
