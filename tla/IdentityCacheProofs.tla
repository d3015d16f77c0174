------------------------ MODULE IdentityCacheProofs -------------------------
(* Theorems about IdentityCache, for any identifiers, number of runs, TTLs *)
(* and bounds.                                                             *)
EXTENDS IdentityCache, FiniteSetTheorems, SequenceTheorems, TLAPS

Places == {"idle", "ok"} \cup Making \cup Purging \cup Looking
Runs   == [want : Key \cup {None}, purge : BOOLEAN, made : BOOLEAN, bad : BOOLEAN,
           did : Did \cup {None}, got : Nat, since : Nat, from : Nat, alone : BOOLEAN]

Types ==
  /\ now \in Nat /\ purgedAt \in Nat /\ purgedAt <= now
  /\ ended \in [Key -> Seq(Nat)]
  /\ file \in BOOLEAN /\ halfMade \in BOOLEAN /\ tables \subseteq Tables
  /\ docs \in [Did -> Row] /\ https \in [Did -> Row] /\ names \in [Handle -> Row]
  /\ pc \in [Proc -> Places] /\ run \in [Proc -> Runs]

\* Versions end in the past, and no more of them than the bound.
World ==
  \A k \in Key : /\ Len(ended[k]) <= MaxChange
                 /\ \A i \in DOMAIN ended[k] : ended[k][i] <= now

\* Version v of k was true at t or later, and at the last purge or later.
Known(k, v, t) == v \in 1..Cur(k) /\ Until(k, v) >= t /\ Until(k, v) >= purgedAt

\* What a row says was true when the answer it came from was given, and of a
\* document also: no later version than the one that began before it was stored.
NameRow(h, row) == row # None => row.at <= now /\ Known(h, row.ver, row.at - MaxHold)
HttpRow(d, row) == row # None => row.at <= now /\ Known(d, row.ver, row.at - MaxHold)
DocRow(d, row)  == row # None =>
  /\ row.at <= now
  /\ row.ver # 0 => Known(d, row.ver, row.at - 2 * MaxHold - HttpTTL + 1)
  /\ \A i \in 1..(row.ver - 1) : ended[d][i] <= row.at

Rows == /\ \A h \in Handle : NameRow(h, names[h])
        /\ \A d \in Did : HttpRow(d, https[d]) /\ DocRow(d, docs[d])

\* The identifiers that a run has where it is.
Shape(place, r) ==
  /\ place \in Making \cup Purging => r.want \in Key /\ (r.want \in Did => r.did = r.want)
  /\ place \in {"name", "ask", "keep_name", "dir_name", "dir_forget"} => r.want \in Handle
  /\ place \in {"keep_name", "doc", "http", "fetch", "put", "keep_doc", "dir_doc"} => r.did \in Did
  /\ r.alone => place \in {"clear_name", "clear_http"}

\* The answer in hand.
Hand(place, r) ==
  /\ place \in Holding => r.since <= now /\ now <= r.since + MaxHold
  /\ place = "keep_name" => Known(r.want, r.got, r.since)
  /\ place = "put" => Known(r.did, r.got, r.since)
  /\ place = "keep_doc" /\ r.got # 0 => Known(r.did, r.got, r.since - HttpTTL + 1 - MaxHold)
  /\ place \in {"clear_name", "clear_http"} => r.from <= now

\* What a run that has come so far knows of the file.
Begun(place, r) ==
  /\ place \in Making \ {"open"} => r.made
  /\ place = "mk_name" => "did_doc" \in tables
  /\ place = "mk_http" => {"did_doc", "did_handle"} \subseteq tables
  /\ place = "open" /\ ~r.made => file
  /\ place \in Places \ {"idle", "ok", "open"} => file

RunOk(place, r) == Shape(place, r) /\ Hand(place, r) /\ Begun(place, r)

\* Tables are missing while they are being made, or since they could not be.
Files == file /\ tables # Tables => halfMade \/ \E q \in Proc : pc[q] \in Making \ {"open"}

\* A purge that is alone has emptied what it has passed.
Alone ==
  \A p \in Proc : run[p].alone =>
    /\ \A q \in Proc : q # p => pc[q] \in {"idle", "ok"}
    /\ run[p].bad => pc[p] = "clear_name"
    /\ ~run[p].bad => \A d \in Did : docs[d] = None
    /\ pc[p] = "clear_http" => \A h \in Handle : names[h] = None

\* The inductive invariant.
IInv == /\ Types /\ World /\ Rows /\ Files /\ Alone
        /\ \A p \in Proc : RunOk(pc[p], run[p])
-----------------------------------------------------------------------------
\* The bound on the changes of the world bounds the versions of every name.
LEMMA ChangesAreBounded ==
  ASSUME Types, NEW k \in Key, Change(k)
  PROVE  Len(ended[k]) < MaxChange
<1> SUFFICES ASSUME Len(ended[k]) >= MaxChange PROVE FALSE
  BY IdentityCacheAssumption DEF Types
<1> DEFINE I == 1..MaxChange
           S == {e \in Key \X I : e[2] \in DOMAIN ended[e[1]]}
           T == {<<k, i>> : i \in I}
           f == [i \in I |-> <<k, i>>]
<1>1. MaxChange \in Nat /\ IsFiniteSet(Key)
  BY FS_Union, IdentityCacheAssumption DEF Key
<1>2. IsFiniteSet(I) /\ Cardinality(I) = MaxChange
  <2>1. 1 \in Int /\ MaxChange \in Int /\ (1 > MaxChange => MaxChange = 0) /\ MaxChange - 1 + 1 = MaxChange
    BY <1>1
  <2> QED BY <2>1, FS_Interval
<1>3. IsFiniteSet(S)
  <2>1. IsFiniteSet(Key \X I)
    BY <1>1, <1>2, FS_Product
  <2>2. S \subseteq Key \X I
    OBVIOUS
  <2> QED BY <2>1, <2>2, FS_Subset
<1>4. IsFiniteSet(T) /\ Cardinality(T) = Cardinality(I)
  <2>1. f \in Bijection(I, T)
    BY DEF Bijection, Injection, Surjection, IsInjective
  <2> QED BY <2>1, <1>2, FS_Bijection DEF ExistsBijection
<1>5. T \subseteq S
  <2>1. \A i \in I : i \in DOMAIN ended[k]
    BY <1>1 DEF Types
  <2> QED BY <2>1
<1>6. MaxChange <= Cardinality(S)
  BY <1>2, <1>3, <1>4, <1>5, FS_Subset
<1>7. Cardinality(S) < MaxChange
  BY DEF Change
<1> QED BY <1>1, <1>3, <1>6, <1>7, FS_CardinalityType

\* Time and the changes of the world: no version that has been true is forgotten,
\* and none comes to have ended earlier.
LEMMA WorldMoves ==
  ASSUME Types, World, purgedAt' = purgedAt,
         Tick \/ \E k \in Key : Change(k)
  PROVE  /\ now' \in Nat /\ now <= now' /\ ended' \in [Key -> Seq(Nat)] /\ World'
         /\ \A k \in Key, i \in Nat : i \in DOMAIN ended[k] =>
              i \in DOMAIN ended'[k] /\ ended'[k][i] = ended[k][i]
         /\ \A k \in Key, v \in Int, t \in Int : Known(k, v, t) => Known(k, v, t)'
<1>0. \A k \in Key : ended[k] \in Seq(Nat) /\ Len(ended[k]) \in Nat /\ DOMAIN ended[k] = 1..Len(ended[k])
  BY DEF Types
<1>1. CASE Tick
  <2>1. now' = now + 1 /\ ended' = ended
    BY <1>1 DEF Tick
  <2>2. \A k \in Key, v \in Int, t \in Int : Known(k, v, t) => Known(k, v, t)'
    BY <1>0, <2>1 DEF Known, Until, Cur, Types
  <2> QED BY <1>0, <2>1, <2>2 DEF Types, World
<1>2. ASSUME NEW c \in Key, Change(c)
      PROVE  /\ now' = now /\ ended' \in [Key -> Seq(Nat)]
             /\ ended'[c] = Append(ended[c], now) /\ Len(ended[c]) < MaxChange
             /\ \A k \in Key \ {c} : ended'[k] = ended[k]
  <2>1. now' = now /\ ended' = [ended EXCEPT ![c] = Append(ended[c], now)]
    BY <1>2 DEF Change
  <2>2. Append(ended[c], now) \in Seq(Nat)
    BY <1>0, AppendProperties DEF Types
  <2>3. Len(ended[c]) < MaxChange
    BY <1>2, ChangesAreBounded
  <2> QED BY <2>1, <2>2, <2>3 DEF Types
<1>3. ASSUME NEW c \in Key, Change(c)
      PROVE  /\ Len(ended'[c]) = Len(ended[c]) + 1 /\ DOMAIN ended'[c] = 1..(Len(ended[c]) + 1)
             /\ \A i \in 1..Len(ended[c]) : ended'[c][i] = ended[c][i]
             /\ ended'[c][Len(ended[c]) + 1] = now
  <2>1. ended[c] \in Seq(Nat) /\ now \in Nat /\ ended'[c] = Append(ended[c], now) /\ ended'[c] \in Seq(Nat)
    BY <1>2, <1>3 DEF Types
  <2>2. /\ Len(Append(ended[c], now)) = Len(ended[c]) + 1
        /\ \A i \in 1..Len(ended[c]) : Append(ended[c], now)[i] = ended[c][i]
        /\ Append(ended[c], now)[Len(ended[c]) + 1] = now
    BY <2>1, AppendProperties
  <2>3. DOMAIN ended'[c] = 1..Len(ended'[c])
    BY <2>1
  <2> QED BY <2>1, <2>2, <2>3
<1>4. ASSUME NEW c \in Key, Change(c) PROVE World'
  <2>1. MaxChange \in Nat
    BY IdentityCacheAssumption
  <2>2. ASSUME NEW k \in Key, k # c
        PROVE  Len(ended'[k]) <= MaxChange /\ \A i \in DOMAIN ended'[k] : ended'[k][i] <= now'
    BY <1>2, <1>4, <2>2 DEF World
  <2>3. Len(ended'[c]) <= MaxChange
    BY <1>0, <1>2, <1>3, <1>4, <2>1
  <2>4. \A i \in DOMAIN ended'[c] : ended'[c][i] <= now'
    <3>1. \A i \in 1..Len(ended[c]) : ended'[c][i] <= now'
      BY <1>0, <1>2, <1>3, <1>4 DEF World
    <3>2. ended'[c][Len(ended[c]) + 1] <= now'
      BY <1>2, <1>3, <1>4 DEF Types
    <3> QED BY <1>0, <1>3, <1>4, <3>1, <3>2
  <2> QED BY <2>2, <2>3, <2>4 DEF World
<1>5. ASSUME NEW c \in Key, Change(c), NEW k \in Key, NEW v \in Int, NEW t \in Int, Known(k, v, t)
      PROVE  Known(k, v, t)'
  <2>1. CASE k = c
    <3>0. PICK n \in Nat : n = Len(ended[c])
      BY <1>0
    <3>1. /\ Len(ended'[c]) = n + 1 /\ now' = now /\ purgedAt' = purgedAt
          /\ \A i \in 1..n : ended'[c][i] = ended[c][i]
          /\ ended'[c][n + 1] = now
      BY <1>2, <1>3, <1>5, <3>0
    <3>2. v \in 1..(n + 1)
      BY <1>5, <2>1, <3>0 DEF Known, Cur
    <3>3. Until(c, v) >= t /\ Until(c, v) >= purgedAt
      BY <1>5, <2>1 DEF Known
    <3>4. CASE v = n + 1
      BY <3>0, <3>1, <3>2, <3>3, <3>4, <2>1 DEF Known, Until, Cur
    <3>5. CASE v \in 1..n
      BY <3>0, <3>1, <3>2, <3>3, <3>5, <2>1 DEF Known, Until, Cur
    <3> QED BY <3>0, <3>2, <3>4, <3>5
  <2>2. CASE k # c
    BY <1>2, <1>5, <2>2 DEF Known, Until, Cur
  <2> QED BY <2>1, <2>2
<1>6. CASE \E c \in Key : Change(c)
  <2>1. PICK c \in Key : Change(c)
    BY <1>6
  <2>2. \A k \in Key, i \in Nat : i \in DOMAIN ended[k] =>
              i \in DOMAIN ended'[k] /\ ended'[k][i] = ended[k][i]
    <3>1. \A i \in Nat : i \in DOMAIN ended[c] => i \in DOMAIN ended'[c] /\ ended'[c][i] = ended[c][i]
      BY <1>0, <1>3, <2>1
    <3>2. \A k \in Key \ {c} : ended'[k] = ended[k]
      BY <1>2, <2>1
    <3> QED BY <3>1, <3>2
  <2>3. now' \in Nat /\ now <= now' /\ ended' \in [Key -> Seq(Nat)]
    BY <1>2, <2>1 DEF Types
  <2> QED BY <1>4, <1>5, <2>1, <2>2, <2>3
<1> QED BY <1>1, <1>6

\* Nothing but the time of the answers in hand depends on the world going on.
LEMMA WorldKeeps ==
  ASSUME IInv, Tick \/ \E k \in Key : Change(k)
  PROVE  IInv'
<1>1. UNCHANGED <<cache, pc, run, count, hist>>
  BY DEF Tick, Change
<1>2. /\ now' \in Nat /\ now <= now' /\ ended' \in [Key -> Seq(Nat)] /\ World'
      /\ \A k \in Key, i \in Nat : i \in DOMAIN ended[k] =>
              i \in DOMAIN ended'[k] /\ ended'[k][i] = ended[k][i]
      /\ \A k \in Key, v \in Int, t \in Int : Known(k, v, t) => Known(k, v, t)'
  BY <1>1, WorldMoves DEF IInv, hist
<1>3. Types'
  BY <1>1, <1>2 DEF IInv, Types, cache, hist
<1>4. Rows'
  <2>1. /\ MaxHold \in Nat /\ HttpTTL \in Nat /\ Handle \subseteq Key /\ Did \subseteq Key
        /\ now \in Nat
    BY IdentityCacheAssumption DEF Key, IInv, Types
  <2>2. ASSUME NEW h \in Handle PROVE NameRow(h, names[h])'
    <3>1. PICK row \in Row : row = names[h] /\ row = names'[h]
      BY <1>1 DEF IInv, Types, cache
    <3>2. NameRow(h, row)
      BY <3>1 DEF IInv, Rows
    <3>3. row # None => row.at \in Nat /\ row.ver \in Nat
      BY DEF Row
    <3> QED BY <1>2, <2>1, <3>1, <3>2, <3>3 DEF NameRow
  <2>3. ASSUME NEW d \in Did PROVE HttpRow(d, https[d])'
    <3>1. PICK row \in Row : row = https[d] /\ row = https'[d]
      BY <1>1 DEF IInv, Types, cache
    <3>2. HttpRow(d, row)
      BY <3>1 DEF IInv, Rows
    <3>3. row # None => row.at \in Nat /\ row.ver \in Nat
      BY DEF Row
    <3> QED BY <1>2, <2>1, <3>1, <3>2, <3>3 DEF HttpRow
  <2>4. ASSUME NEW d \in Did PROVE DocRow(d, docs[d])'
    <3>1. PICK row \in Row : row = docs[d] /\ row = docs'[d]
      BY <1>1 DEF IInv, Types, cache
    <3>2. DocRow(d, row)
      BY <3>1 DEF IInv, Rows
    <3>3. row # None => row.at \in Nat /\ row.ver \in Nat
      BY DEF Row
    <3>4. ASSUME row # None PROVE row.ver \in 0..Cur(d)
      BY <2>1, <3>2, <3>3, <3>4 DEF DocRow, Known, IInv, Types, Cur
    <3>5. ASSUME row # None, NEW i \in 1..(row.ver - 1)
          PROVE  i \in DOMAIN ended[d] /\ i \in Nat
      BY <2>1, <3>3, <3>4, <3>5 DEF IInv, Types, Cur
    <3>6. ASSUME row # None, NEW i \in 1..(row.ver - 1) PROVE ended'[d][i] <= row.at
      BY <1>2, <2>1, <3>2, <3>5, <3>6 DEF DocRow
    <3>7. ASSUME row # None, row.ver # 0
          PROVE  Known(d, row.ver, row.at - 2 * MaxHold - HttpTTL + 1)'
      <4>1. PICK t \in Int : t = row.at - 2 * MaxHold - HttpTTL + 1
        BY <2>1, <3>3, <3>7
      <4>2. Known(d, row.ver, t)
        BY <3>2, <3>7, <4>1 DEF DocRow
      <4> QED BY <1>2, <2>1, <3>3, <3>7, <4>1, <4>2
    <3>8. row # None => row.at <= now'
      BY <1>2, <2>1, <3>2, <3>3 DEF DocRow
    <3> QED BY <3>1, <3>6, <3>7, <3>8 DEF DocRow
  <2> QED BY <2>2, <2>3, <2>4 DEF Rows
<1>5. ASSUME NEW p \in Proc PROVE RunOk(pc[p], run[p])'
  <2>0. PICK place \in Places, r \in Runs : /\ pc[p] = place /\ pc'[p] = place
                                          /\ run[p] = r /\ run'[p] = r
    BY <1>1 DEF IInv, Types
  <2>1. RunOk(place, r)
    BY <2>0 DEF IInv
  <2>2. Shape(place, r)' /\ Begun(place, r)'
    BY <1>1, <2>1 DEF RunOk, Shape, Begun, cache
  <2>3. /\ MaxHold \in Nat /\ HttpTTL \in Nat /\ Handle \subseteq Key /\ Did \subseteq Key
        /\ now \in Nat /\ r.since \in Nat /\ r.got \in Nat /\ r.from \in Nat
    BY IdentityCacheAssumption DEF Key, IInv, Types, Runs
  <2>4. Hand(place, r) /\ Shape(place, r)
    BY <2>1 DEF RunOk
  <2>5. place \in Holding => r.since <= now' /\ now' <= r.since + MaxHold
    <3>1. CASE Tick
      BY <2>0, <2>3, <2>4, <3>1 DEF Tick, Hand
    <3>2. CASE \E k \in Key : Change(k)
      BY <2>4, <3>2 DEF Change, Hand
    <3> QED BY <3>1, <3>2
  <2>6. place = "keep_name" => Known(r.want, r.got, r.since)'
    BY <1>2, <2>3, <2>4 DEF Hand, Shape
  <2>7. place = "put" => Known(r.did, r.got, r.since)'
    BY <1>2, <2>3, <2>4 DEF Hand, Shape
  <2>8. ASSUME place = "keep_doc", r.got # 0 PROVE Known(r.did, r.got, r.since - HttpTTL + 1 - MaxHold)'
    <3>1. PICK t \in Int : t = r.since - HttpTTL + 1 - MaxHold
      BY <2>3
    <3>2. Known(r.did, r.got, t) /\ r.did \in Did
      BY <2>4, <2>8, <3>1 DEF Hand, Shape
    <3> QED BY <1>2, <2>3, <3>1, <3>2
  <2>9. place \in {"clear_name", "clear_http"} => r.from <= now'
    BY <1>2, <2>3, <2>4 DEF Hand
  <2>10. Hand(place, r)'
    BY <2>5, <2>6, <2>7, <2>8, <2>9 DEF Hand
  <2> QED BY <2>0, <2>2, <2>10 DEF RunOk
<1>6. Files' /\ Alone'
  BY <1>1 DEF IInv, Files, Alone, cache, hist
<1> QED BY <1>2, <1>3, <1>4, <1>5, <1>6 DEF IInv

\* A step of a run, with the rows and the run after it as they should be, leaves
\* the other runs and the rest of the invariant as they are, but for who is alone
\* and for the tables that are missing.
LEMMA GotoKeeps ==
  ASSUME IInv, NEW p \in Proc, NEW to \in Places, NEW r \in Runs, Goto(p, to, r),
         UNCHANGED <<world, purgedAt>>,
         file => file', file' \in BOOLEAN, tables \subseteq tables', tables' \subseteq Tables,
         halfMade' \in BOOLEAN, RunOk(to, r)',
         docs' \in [Did -> Row], https' \in [Did -> Row], names' \in [Handle -> Row],
         \A h \in Handle : NameRow(h, names'[h]),
         \A d \in Did : HttpRow(d, https'[d]) /\ DocRow(d, docs'[d])
  PROVE  /\ Types' /\ World' /\ Rows'
         /\ \A q \in Proc : RunOk(pc[q], run[q])'
         /\ pc'[p] = to /\ run'[p] = r
         /\ \A q \in Proc \ {p} : pc'[q] = pc[q] /\ run'[q] = run[q]
<1>0. now' = now /\ ended' = ended
  BY DEF world
<1>1. pc' \in [Proc -> Places] /\ run' \in [Proc -> Runs] /\ pc'[p] = to /\ run'[p] = r
      /\ \A q \in Proc \ {p} : pc'[q] = pc[q] /\ run'[q] = run[q]
  BY DEF Goto, IInv, Types
<1>2. Types' /\ World'
  BY <1>0, <1>1 DEF IInv, Types, World
<1>3. Rows'
  BY <1>0 DEF Rows, NameRow, HttpRow, DocRow, Known, Until, Cur
<1>4. ASSUME NEW q \in Proc PROVE RunOk(pc[q], run[q])'
  <2>1. CASE q = p
    BY <1>1, <2>1
  <2>2. CASE q # p
    <3>1. PICK place \in Places, s \in Runs :
            /\ place = pc[q] /\ place = pc'[q] /\ s = run[q] /\ s = run'[q]
      BY <1>1, <2>2 DEF IInv, Types
    <3>2. RunOk(place, s)
      BY <3>1 DEF IInv
    <3>3. RunOk(place, s)'
      BY <1>0, <3>2 DEF RunOk, Shape, Hand, Begun, Known, Until, Cur
    <3> QED BY <3>1, <3>3
  <2> QED BY <2>1, <2>2
<1> QED BY <1>1, <1>2, <1>3, <1>4

\* A step outside start-up of a run that is not to be alone.
LEMMA StepKeeps ==
  ASSUME IInv, NEW p \in Proc, NEW to \in Places, NEW r \in Runs, Goto(p, to, r),
         pc[p] \notin {"idle", "ok"} \cup Making, ~r.alone,
         UNCHANGED <<world, file, tables, halfMade, purgedAt>>,
         RunOk(to, r),
         docs' \in [Did -> Row], https' \in [Did -> Row], names' \in [Handle -> Row],
         \A h \in Handle : NameRow(h, names'[h]),
         \A d \in Did : HttpRow(d, https'[d]) /\ DocRow(d, docs'[d])
  PROVE  IInv'
<1>1. RunOk(to, r)'
  BY DEF RunOk, Shape, Hand, Begun, Known, Until, Cur, world
<1>2. file' \in BOOLEAN /\ tables' \subseteq Tables /\ halfMade' \in BOOLEAN
  BY DEF IInv, Types
<1>3. /\ Types' /\ World' /\ Rows'
      /\ \A q \in Proc : RunOk(pc[q], run[q])'
      /\ pc'[p] = to /\ run'[p] = r
      /\ \A q \in Proc \ {p} : pc'[q] = pc[q] /\ run'[q] = run[q]
  BY <1>1, <1>2, GotoKeeps
<1>4. Files'
  BY <1>3 DEF IInv, Files
<1>5. \A q \in Proc : q # p => ~run[q].alone
  BY DEF IInv, Alone
<1>6. Alone'
  BY <1>3, <1>5 DEF Alone
<1> QED BY <1>3, <1>4, <1>6 DEF IInv

\* Of a run that is through, or was killed, nothing is asked.
LEMMA Ended == NoRun \in Runs /\ ~NoRun.alone /\ RunOk("idle", NoRun) /\ RunOk("ok", NoRun)
BY DEF NoRun, Runs, RunOk, Shape, Hand, Begun, Making, Purging, Looking, Holding, Places

\* A handle is resolved to a did that some version of it named.
LEMMA OwnerIsDid ==
  ASSUME IInv, NEW h \in Handle, NEW v \in 1..Cur(h)
  PROVE  Owner[h][v] \in Did
<1>1. h \in Key /\ MaxChange \in Nat
  BY IdentityCacheAssumption DEF Key
<1>2. Len(ended[h]) <= MaxChange /\ Len(ended[h]) \in Nat
  BY <1>1 DEF IInv, World, Types
<1>3. v \in 1..(MaxChange + 1)
  BY <1>1, <1>2 DEF Cur
<1> QED BY <1>3, IdentityCacheAssumption

\* The last moment of a version is a time.
LEMMA UntilIsTime ==
  ASSUME IInv, NEW k \in Key, NEW v \in 1..Cur(k)
  PROVE  Until(k, v) \in Nat
<1>1. PICK e \in Seq(Nat) : e = ended[k]
  BY DEF IInv, Types
<1>2. Len(e) \in Nat /\ v \in 1..(Len(e) + 1) /\ now \in Nat
  BY <1>1 DEF Cur, IInv, Types
<1>3. v # Len(e) + 1 => v \in 1..Len(e)
  BY <1>2
<1>4. v # Len(e) + 1 => e[v] \in Nat
  BY <1>3, ElementOfSeq
<1> QED BY <1>1, <1>2, <1>4 DEF Until, Cur

\* What is known of a run before it takes a step.
LEMMA Before ==
  ASSUME IInv, NEW p \in Proc
  PROVE  /\ run[p] \in Runs /\ RunOk(pc[p], run[p])
         /\ docs \in [Did -> Row] /\ https \in [Did -> Row] /\ names \in [Handle -> Row]
         /\ now \in Nat /\ purgedAt \in Nat /\ purgedAt <= now
         /\ \A h \in Handle : NameRow(h, names[h])
         /\ \A d \in Did : HttpRow(d, https[d]) /\ DocRow(d, docs[d])
         /\ \A k \in Key : Cur(k) \in Nat \ {0}
         /\ \A k \in Key : Known(k, Cur(k), now)
BY DEF IInv, Types, Rows, Known, Cur, Until

\* A run that gives up, outside start-up.
LEMMA GivesUp ==
  ASSUME IInv, NEW p \in Proc, Goto(p, "idle", NoRun),
         pc[p] \notin {"idle", "ok"} \cup Making,
         UNCHANGED <<world, file, tables, halfMade, purgedAt, docs, https>>,
         names' \in {names, [h \in Handle |-> None]}
  PROVE  IInv'
<1>1. "idle" \in Places /\ names' \in [Handle -> Row]
  BY Before DEF Places, Row
<1>2. \A h \in Handle : NameRow(h, names'[h])
  BY Before DEF NameRow
<1> QED BY <1>1, <1>2, Ended, Before, StepKeeps

-----------------------------------------------------------------------------
\* Directory.Purge takes rows away and gives no answer.
LEMMA DirectoryKeeps ==
  ASSUME IInv, NEW p \in Proc, DirName(p) \/ DirDoc(p) \/ DirForget(p)
  PROVE  IInv'
<1> DEFINE s == run[p]
<1>1. /\ pc[p] \in {"dir_name", "dir_doc", "dir_forget"} /\ file /\ ~s.alone
      /\ s.want \in Key /\ (s.want \in Did => s.did = s.want)
      /\ pc[p] \in {"dir_name", "dir_forget"} => s.want \in Handle
      /\ pc[p] = "dir_doc" => s.did \in Did
  BY Before DEF DirName, DirDoc, DirForget, RunOk, Shape, Begun, Purging, Places
<1>2. UNCHANGED <<world, file, tables, halfMade, purgedAt, https>>
  BY DEF DirName, DirDoc, DirForget, cache, hist
<1>3. pc[p] \notin {"idle", "ok"} \cup Making
  BY <1>1 DEF Making
<1>4. CASE DirName(p)
  <2>1. UNCHANGED <<docs, names>>
    BY <1>4 DEF DirName, cache
  <2>2. CASE names[s.want] = None
    <3>1. Goto(p, "dir_forget", s) /\ s.want \in Handle
      BY <1>1, <1>4, <2>2 DEF DirName
    <3>2. RunOk("dir_forget", s)
      BY <1>1, <3>1 DEF RunOk, Shape, Hand, Begun, Making, Holding
    <3> QED BY <1>1, <1>2, <1>3, <2>1, <3>1, <3>2, Before, StepKeeps DEF Places, Purging
  <2>3. CASE names[s.want] # None
    <3>1. PICK did : did = Owner[s.want][names[s.want].ver]
      OBVIOUS
    <3>2. s.want \in Handle /\ did \in Did
      <4>1. s.want \in Handle
        BY <1>1, <1>4 DEF DirName
      <4>2. names[s.want].ver \in 1..Cur(s.want)
        BY <2>3, <4>1, Before DEF NameRow, Known
      <4> QED BY <3>1, <4>1, <4>2, OwnerIsDid
    <3>3. PICK r : r = [s EXCEPT !.did = did]
      OBVIOUS
    <3>4. Goto(p, "dir_doc", r)
      BY <1>4, <2>3, <3>1, <3>3 DEF DirName
    <3>5. r \in Runs /\ ~r.alone /\ r.want = s.want /\ r.did = did
      BY <1>1, <3>2, <3>3, Before DEF Runs
    <3>6. RunOk("dir_doc", r)
      BY <1>1, <3>2, <3>5, IdentityCacheAssumption DEF RunOk, Shape, Hand, Begun, Making, Holding
    <3> QED BY <1>2, <1>3, <2>1, <3>4, <3>5, <3>6, Before, StepKeeps DEF Places, Purging
  <2> QED BY <2>2, <2>3
<1>5. CASE DirDoc(p)
  <2>1. PICK to : Goto(p, to, s) /\ to \in {"doc", "dir_forget", "name"}
                  /\ (s.want \in Did => to = "doc") /\ names' = names
    BY <1>1, <1>5, IdentityCacheAssumption DEF DirDoc, Entry, Key
  <2>2. to # "doc" => s.want \in Handle
    BY <1>1, <2>1 DEF Key
  <2>3. s.did \in Did
    BY <1>1, <1>5 DEF DirDoc
  <2>4. RunOk(to, s)
    BY <1>1, <2>1, <2>2, <2>3 DEF RunOk, Shape, Hand, Begun, Making, Holding, Purging
  <2>5. docs' \in [Did -> Row] /\ \A d \in Did : docs'[d] \in {docs[d], None}
    BY <1>5, Before DEF DirDoc, Row
  <2>6. \A d \in Did : DocRow(d, docs'[d])
    BY <2>5, Before DEF DocRow
  <2>7. to \in Places
    BY <2>1 DEF Places, Purging, Looking
  <2> QED BY <1>1, <1>2, <1>3, <2>1, <2>4, <2>5, <2>6, <2>7, Before, StepKeeps
<1>6. CASE DirForget(p)
  <2>1. Goto(p, "name", s) /\ docs' = docs /\ s.want \in Handle
    BY <1>1, <1>6 DEF DirForget
  <2>2. RunOk("name", s)
    BY <1>1, <2>1 DEF RunOk, Shape, Hand, Begun, Making, Holding, Purging
  <2>3. names' \in [Handle -> Row] /\ \A h \in Handle : names'[h] \in {names[h], None}
    BY <1>6, Before DEF DirForget, Row
  <2>4. \A h \in Handle : NameRow(h, names'[h])
    BY <2>3, Before DEF NameRow
  <2> QED BY <1>1, <1>2, <1>3, <2>1, <2>2, <2>3, <2>4, Before, StepKeeps DEF Places, Looking
<1> QED BY <1>4, <1>5, <1>6

\* Looking up takes what is known from the rows, or from the network, to the run.
LEMMA LookingKeeps ==
  ASSUME IInv, NEW p \in Proc,
         GetName(p) \/ Ask(p) \/ GetDoc(p) \/ GetHttp(p) \/ Fetch(p)
  PROVE  IInv'
<1> DEFINE s == run[p]
<1>0. HttpTTL \in Nat /\ MaxHold \in Nat /\ Handle \subseteq Key /\ Did \subseteq Key
  BY IdentityCacheAssumption DEF Key
<1>1. /\ pc[p] \in {"name", "ask", "doc", "http", "fetch"} /\ file /\ ~s.alone
      /\ pc[p] \in {"name", "ask"} => s.want \in Handle
      /\ pc[p] \notin {"name", "ask"} => s.did \in Did
  BY Before DEF GetName, Ask, GetDoc, GetHttp, Fetch, RunOk, Shape, Begun, Looking, Places
<1>2. UNCHANGED <<world, file, tables, halfMade, purgedAt, docs, https, names>>
  BY DEF GetName, Ask, GetDoc, GetHttp, Fetch, Answer, cache, hist
<1>3. pc[p] \notin {"idle", "ok"} \cup Making
  BY <1>1 DEF Making
<1>4. SUFFICES \E to \in Places, r \in Runs : Goto(p, to, r) /\ ~r.alone /\ RunOk(to, r)
  BY <1>2, <1>3, Before, StepKeeps
<1>5. s \in Runs /\ now \in Nat
  BY Before
<1>6. CASE GetName(p)
  <2>1. s.want \in Handle
    BY <1>1, <1>6 DEF GetName
  <2>2. CASE Fresh(names[s.want])
    <3>1. names[s.want] \in Row /\ names[s.want] # None
      BY <2>1, <2>2, Before DEF Fresh
    <3>2. names[s.want].ver \in 1..Cur(s.want) /\ names[s.want].ver \in Nat
      BY <2>1, <3>1, Before DEF NameRow, Known, Row
    <3>3. PICK did \in Did : did = Owner[s.want][names[s.want].ver]
      BY <2>1, <3>2, OwnerIsDid
    <3>4. PICK r : r = [s EXCEPT !.want = None, !.did = did, !.got = names[s.want].ver]
      OBVIOUS
    <3>5. r \in Runs /\ r.did = did /\ ~r.alone
      BY <1>1, <1>5, <3>2, <3>4 DEF Runs
    <3>6. Goto(p, "doc", r)
      BY <1>6, <2>2, <3>3, <3>4 DEF GetName
    <3>7. RunOk("doc", r)
      BY <1>1, <3>5 DEF RunOk, Shape, Hand, Begun, Making, Holding, Purging
    <3> QED BY <3>5, <3>6, <3>7 DEF Places, Looking
  <2>3. CASE ~Fresh(names[s.want])
    <3>1. Goto(p, "ask", s)
      BY <1>6, <2>3 DEF GetName
    <3>2. RunOk("ask", s)
      BY <1>1, <2>1 DEF RunOk, Shape, Hand, Begun, Making, Holding, Purging
    <3> QED BY <1>1, <1>5, <3>1, <3>2 DEF Places, Looking
  <2> QED BY <2>2, <2>3
<1>7. CASE Ask(p)
  <2>1. s.want \in Handle
    BY <1>1, <1>7 DEF Ask
  <2>2. PICK v : v = Cur(s.want)
    OBVIOUS
  <2>3. v \in Nat /\ v \in 1..Cur(s.want) /\ Known(s.want, v, now)
    BY <1>0, <2>1, <2>2, Before DEF Known
  <2>4. PICK did \in Did : did = Owner[s.want][v]
    BY <2>1, <2>3, OwnerIsDid
  <2>5. PICK r : r = [s EXCEPT !.did = did, !.got = v, !.since = now]
    OBVIOUS
  <2>6. /\ r \in Runs /\ r.want = s.want /\ r.did = did /\ r.got = v /\ r.since = now /\ ~r.alone
    BY <1>1, <1>5, <2>3, <2>5 DEF Runs
  <2>7. Goto(p, "keep_name", r)
    BY <1>7, <2>2, <2>4, <2>5 DEF Ask
  <2>8. Hand("keep_name", r)
    BY <1>0, <1>5, <2>3, <2>6 DEF Hand
  <2>9. RunOk("keep_name", r)
    BY <1>1, <2>1, <2>6, <2>8 DEF RunOk, Shape, Begun, Making, Purging
  <2> QED BY <2>6, <2>7, <2>9 DEF Places, Looking, Holding
<1>8. CASE GetDoc(p)
  <2>1. CASE Answer(p)
    BY <2>1, Ended DEF Answer, Places
  <2>2. CASE Goto(p, "http", [s EXCEPT !.want = None, !.got = 0])
    <3>1. PICK r : r = [s EXCEPT !.want = None, !.got = 0]
      OBVIOUS
    <3>2. r \in Runs /\ r.did = s.did /\ ~r.alone /\ s.did \in Did
      BY <1>1, <1>5, <1>8, <3>1 DEF Runs, GetDoc
    <3>3. RunOk("http", r)
      BY <1>1, <3>2 DEF RunOk, Shape, Hand, Begun, Making, Holding, Purging
    <3> QED BY <2>2, <3>1, <3>2, <3>3 DEF Places, Looking
  <2> QED BY <1>8, <2>1, <2>2 DEF GetDoc
<1>9. CASE GetHttp(p)
  <2>1. s.did \in Did /\ https[s.did] \in Row /\ HttpRow(s.did, https[s.did])
    BY <1>1, <1>9, Before DEF GetHttp
  <2>2. CASE https[s.did] # None /\ now < https[s.did].at + HttpTTL
    <3>1. PICK row : row = https[s.did]
      OBVIOUS
    <3>2. /\ row.ver \in Nat /\ row.at \in Nat /\ now < row.at + HttpTTL
          /\ Known(s.did, row.ver, row.at - MaxHold)
      BY <2>1, <2>2, <3>1 DEF Row, HttpRow
    <3>3. PICK r : r = [s EXCEPT !.got = row.ver, !.since = now]
      OBVIOUS
    <3>4. r \in Runs /\ r.did = s.did /\ r.got = row.ver /\ r.since = now /\ ~r.alone
      BY <1>1, <1>5, <3>2, <3>3 DEF Runs
    <3>5. Goto(p, "keep_doc", r)
      BY <1>9, <2>2, <3>1, <3>3 DEF GetHttp
    <3>6. Until(s.did, row.ver) \in Int
      BY <1>0, <2>1, <3>2, UntilIsTime DEF Known
    <3>7. Known(s.did, row.ver, now - HttpTTL + 1 - MaxHold)
      BY <1>0, <1>5, <3>2, <3>6 DEF Known
    <3>8. Hand("keep_doc", r)
      BY <1>0, <1>5, <3>4, <3>7 DEF Hand
    <3>9. RunOk("keep_doc", r)
      BY <1>1, <2>1, <3>4, <3>8 DEF RunOk, Shape, Begun, Making, Purging
    <3> QED BY <3>4, <3>5, <3>9 DEF Places, Looking, Holding
  <2>3. CASE ~(https[s.did] # None /\ now < https[s.did].at + HttpTTL)
    <3>1. Goto(p, "fetch", s)
      BY <1>9, <2>3 DEF GetHttp
    <3>2. RunOk("fetch", s)
      BY <1>1, <2>1 DEF RunOk, Shape, Hand, Begun, Making, Holding, Purging
    <3> QED BY <1>1, <1>5, <3>1, <3>2 DEF Places, Looking
  <2> QED BY <2>2, <2>3
<1>10. CASE Fetch(p)
  <2>1. s.did \in Did
    BY <1>1, <1>10 DEF Fetch
  <2>2. PICK v : v = Cur(s.did)
    OBVIOUS
  <2>3. v \in Nat /\ Known(s.did, v, now)
    BY <1>0, <2>1, <2>2, Before
  <2>4. PICK to, r : /\ Goto(p, to, r)
                     /\ \/ to = "put" /\ r = [s EXCEPT !.got = v, !.since = now]
                        \/ to = "keep_doc" /\ r = [s EXCEPT !.got = 0, !.since = now]
    BY <1>10, <2>2 DEF Fetch
  <2>5. /\ r \in Runs /\ r.did = s.did /\ r.since = now /\ ~r.alone
        /\ to = "put" => r.got = v
        /\ to = "keep_doc" => r.got = 0
    <3>1. PICK x \in Nat : /\ r = [s EXCEPT !.got = x, !.since = now]
                          /\ (to = "put" => x = v) /\ (to = "keep_doc" => x = 0)
      BY <2>3, <2>4
    <3>2. r = [s EXCEPT !.got = x, !.since = now]
      BY <3>1
    <3>3. r \in Runs /\ r.did = s.did /\ r.since = now /\ r.alone = s.alone /\ r.got = x
      BY <1>5, <3>2 DEF Runs
    <3>4. ~r.alone
      BY <1>1, <3>3
    <3> QED BY <3>1, <3>3, <3>4
  <2>6. Hand(to, r)
    BY <1>0, <1>5, <2>3, <2>4, <2>5 DEF Hand
  <2>7. RunOk(to, r)
    BY <1>1, <2>1, <2>4, <2>5, <2>6 DEF RunOk, Shape, Begun, Making, Purging
  <2> QED BY <2>4, <2>5, <2>7 DEF Places, Looking, Holding
<1> QED BY <1>6, <1>7, <1>8, <1>9, <1>10

\* What a run stores is as old as it can have become in its hands.
LEMMA StoringKeeps ==
  ASSUME IInv, NEW p \in Proc, StoreName(p) \/ Put(p) \/ StoreDoc(p)
  PROVE  IInv'
<1>0. HttpTTL \in Nat /\ HttpTTL > 0 /\ MaxHold \in Nat /\ Handle \subseteq Key /\ Did \subseteq Key
  BY IdentityCacheAssumption DEF Key
<1>1. PICK s \in Runs : s = run[p] /\ RunOk(pc[p], s)
  BY Before
<1>2. /\ pc[p] \in {"keep_name", "put", "keep_doc"} /\ file /\ ~s.alone
      /\ pc[p] = "keep_name" => s.want \in Handle
      /\ pc[p] # "keep_name" => s.did \in Did
      /\ s.since <= now /\ now <= s.since + MaxHold /\ s.since \in Nat /\ s.got \in Nat /\ now \in Nat
  BY <1>1, Before DEF StoreName, Put, StoreDoc, RunOk, Shape, Hand, Begun, Looking, Holding, Places, Runs
<1>3. UNCHANGED <<world, file, tables, halfMade, purgedAt>>
  BY DEF StoreName, Put, StoreDoc, Answer, hist
<1>4. pc[p] \notin {"idle", "ok"} \cup Making
  BY <1>2 DEF Making
<1>5. PICK row : row = [ver |-> s.got, at |-> now]
  OBVIOUS
<1>6. row \in Row /\ row.ver = s.got /\ row.at = now
  BY <1>2, <1>5 DEF Row
<1>7. CASE StoreName(p)
  <2>1. pc[p] = "keep_name" /\ s.want \in Handle /\ UNCHANGED <<docs, https>>
    BY <1>2, <1>7 DEF StoreName
  <2>2. names' = [names EXCEPT ![s.want] = row]
    BY <1>1, <1>5, <1>7 DEF StoreName
  <2>3. Known(s.want, s.got, s.since)
    BY <1>1, <2>1 DEF RunOk, Hand
  <2>4. Until(s.want, s.got) \in Nat
    BY <1>0, <2>1, <2>3, UntilIsTime DEF Known
  <2>5. Known(s.want, s.got, now - MaxHold)
    BY <1>0, <1>2, <2>3, <2>4 DEF Known
  <2>6. \A h \in Handle : NameRow(h, names'[h])
    BY <1>2, <1>6, <2>2, <2>5, Before DEF NameRow
  <2>7. names' \in [Handle -> Row]
    BY <1>6, <2>2, Before
  <2>8. PICK r : r = [s EXCEPT !.want = None, !.since = 0]
    OBVIOUS
  <2>9. r \in Runs /\ r.did = s.did /\ r.alone = s.alone
    BY <1>1, <2>8 DEF Runs
  <2>10. RunOk("doc", r)
    BY <1>1, <1>2, <2>1, <2>9 DEF RunOk, Shape, Hand, Begun, Making, Purging, Holding
  <2>11. Goto(p, "doc", r)
    BY <1>1, <1>7, <2>8 DEF StoreName
  <2> QED BY <1>2, <1>3, <1>4, <2>1, <2>6, <2>7, <2>9, <2>10, <2>11, Before, StepKeeps DEF Places, Looking
<1>8. CASE Put(p)
  <2>1. pc[p] = "put" /\ s.did \in Did /\ UNCHANGED <<docs, names>>
    BY <1>2, <1>8 DEF Put
  <2>2. https' = [https EXCEPT ![s.did] = IF @ = None THEN row ELSE @] /\ Goto(p, "keep_doc", s)
    BY <1>1, <1>5, <1>8 DEF Put
  <2>3. Known(s.did, s.got, s.since)
    BY <1>1, <2>1 DEF RunOk, Hand
  <2>4. Until(s.did, s.got) \in Nat
    BY <1>0, <2>1, <2>3, UntilIsTime DEF Known
  <2>5. Known(s.did, s.got, now - MaxHold) /\ Known(s.did, s.got, s.since - HttpTTL + 1 - MaxHold)
    BY <1>0, <1>2, <2>3, <2>4 DEF Known
  <2>6. https' \in [Did -> Row] /\ \A d \in Did : https'[d] = https[d] \/ (d = s.did /\ https'[d] = row)
    BY <1>6, <2>1, <2>2, Before
  <2>7. \A d \in Did : HttpRow(d, https'[d])
    BY <1>2, <1>6, <2>5, <2>6, Before DEF HttpRow
  <2>8. RunOk("keep_doc", s)
    BY <1>1, <1>2, <2>1, <2>5 DEF RunOk, Shape, Hand, Begun, Making, Purging
  <2> QED BY <1>1, <1>2, <1>3, <1>4, <2>1, <2>2, <2>6, <2>7, <2>8, Before, StepKeeps DEF Places, Looking, Holding
<1>9. CASE StoreDoc(p)
  <2>1. pc[p] = "keep_doc" /\ s.did \in Did /\ UNCHANGED <<https, names>> /\ Goto(p, "ok", NoRun)
    BY <1>2, <1>9 DEF StoreDoc, Answer
  <2>2. docs' = [docs EXCEPT ![s.did] = row]
    BY <1>1, <1>5, <1>9 DEF StoreDoc
  <2>3. ASSUME s.got # 0
        PROVE  /\ Known(s.did, s.got, now - 2 * MaxHold - HttpTTL + 1)
               /\ \A i \in 1..(s.got - 1) : ended[s.did][i] <= now
    <3>1. Known(s.did, s.got, s.since - HttpTTL + 1 - MaxHold)
      BY <1>1, <2>1, <2>3 DEF RunOk, Hand
    <3>2. Until(s.did, s.got) \in Nat
      BY <1>0, <2>1, <3>1, UntilIsTime DEF Known
    <3>3. \A i \in 1..(s.got - 1) : i \in DOMAIN ended[s.did]
      BY <1>0, <2>1, <3>1 DEF Known, Cur, IInv, Types
    <3>4. \A i \in DOMAIN ended[s.did] : ended[s.did][i] <= now
      BY <1>0, <2>1 DEF IInv, World, Key
    <3>5. {now, s.since, MaxHold, HttpTTL} \subseteq Int /\ now <= s.since + MaxHold
      BY <1>0, <1>1, <1>2, <2>1, IdentityCacheAssumption DEF IInv, Types, Runs, RunOk, Hand, Holding
    <3>6. Known(s.did, s.got, now - 2 * MaxHold - HttpTTL + 1)
      BY <3>1, <3>2, <3>5 DEF Known
    <3> QED BY <3>3, <3>4, <3>6
  <2>4. DocRow(s.did, row)
    BY <1>2, <1>6, <2>3 DEF DocRow
  <2>5. docs' \in [Did -> Row] /\ \A d \in Did : DocRow(d, docs'[d])
    BY <1>6, <2>1, <2>2, <2>4, Before
  <2> QED BY <1>3, <1>4, <2>1, <2>5, Ended, Before, StepKeeps DEF Places
<1> QED BY <1>7, <1>8, <1>9

-----------------------------------------------------------------------------
\* Where start-up goes when the tables are there.
LEMMA ReadyIsShaped ==
  ASSUME NEW r \in Runs, r.want \in Key, r.want \in Did => r.did = r.want, ~r.alone
  PROVE  /\ Ready(r) \in {"clear_doc", "name", "doc"}
         /\ Shape(Ready(r), r) /\ Hand(Ready(r), r)
<1>1. Ready(r) \in {"clear_doc", "name", "doc"}
  BY DEF Ready, Entry
<1>2. Ready(r) = "name" => r.want \in Handle
  BY DEF Ready, Entry
<1>3. Ready(r) = "doc" => r.did \in Did
  BY DEF Ready, Entry, Key
<1> QED BY <1>1, <1>2, <1>3 DEF Shape, Hand, Making, Purging, Holding

\* Opening the file creates it; the run that found none goes on to make the tables.
LEMMA OpenKeeps ==
  ASSUME IInv, NEW p \in Proc, Open(p)
  PROVE  IInv'
<1>1. PICK s \in Runs : s = run[p] /\ RunOk(pc[p], s)
  BY Before
<1>2. /\ pc[p] = "open" /\ file' = TRUE /\ ~s.alone
      /\ s.want \in Key /\ (s.want \in Did => s.did = s.want)
      /\ ~s.made => file
  BY <1>1 DEF Open, RunOk, Shape, Begun, Making
<1>3. UNCHANGED <<world, tables, docs, names, https, halfMade, purgedAt>>
  BY DEF Open, hist
<1>4. PICK to : to = (IF s.made THEN "mk_doc" ELSE Ready(s)) /\ Goto(p, to, s)
  BY <1>1 DEF Open
<1>5. to \in {"mk_doc", "clear_doc", "name", "doc"}
  BY <1>2, <1>4, ReadyIsShaped
<1>6. RunOk(to, s)'
  <2>1. Shape(to, s) /\ Hand(to, s)
    BY <1>2, <1>4, ReadyIsShaped DEF Shape, Hand, Making, Purging, Holding
  <2>2. Begun(to, s)'
    BY <1>2, <1>4, <1>5, ReadyIsShaped DEF Begun, Making
  <2> QED BY <1>3, <2>1, <2>2 DEF RunOk, Shape, Hand, Known, Until, Cur, world
<1>7. /\ Types' /\ World' /\ Rows'
      /\ \A q \in Proc : RunOk(pc[q], run[q])'
      /\ pc'[p] = to /\ run'[p] = s
      /\ \A q \in Proc \ {p} : pc'[q] = pc[q] /\ run'[q] = run[q]
  <2>1. to \in Places
    BY <1>5 DEF Places, Making, Purging, Looking
  <2>2. tables' \subseteq Tables /\ halfMade' \in BOOLEAN /\ file' \in BOOLEAN
    BY <1>2, <1>3 DEF IInv, Types
  <2> QED BY <1>2, <1>3, <1>4, <1>6, <2>1, <2>2, Before, GotoKeeps
<1>8. Files'
  <2>1. CASE s.made
    BY <1>4, <1>7, <2>1 DEF Files, Making
  <2>2. CASE ~s.made
    BY <1>2, <1>3, <1>7, <2>2 DEF IInv, Files
  <2> QED BY <2>1, <2>2
<1>9. Alone'
  BY <1>2, <1>7 DEF IInv, Alone
<1> QED BY <1>7, <1>8, <1>9 DEF IInv

\* The tables are made one after the other, and the last makes them complete.
LEMMA MakeKeeps ==
  ASSUME IInv, NEW p \in Proc, Make(p)
  PROVE  IInv'
<1>1. PICK s \in Runs : s = run[p] /\ RunOk(pc[p], s)
  BY Before
<1>2. PICK to, t :
        /\ \/ pc[p] = "mk_doc" /\ t = "did_doc" /\ to = "mk_name"
           \/ pc[p] = "mk_name" /\ t = "did_handle" /\ to = "mk_http"
           \/ pc[p] = "mk_http" /\ t = "http_cache" /\ to = Ready(s)
        /\ tables' = tables \cup {t}
        /\ Goto(p, to, [s EXCEPT !.made = to \in Making])
  BY <1>1 DEF Make
<1>3. PICK b \in BOOLEAN : b = (to \in Making)
  <2>1. CASE to \in Making
    <3>1. TRUE = (to \in Making)
      BY <2>1, Zenon
    <3> QED BY <3>1, Zenon
  <2>2. CASE to \notin Making
    <3>1. (to \in Making) = FALSE
      BY <2>2, SMT
    <3> QED BY <3>1, Zenon
  <2> QED BY <2>1, <2>2
<1>4. PICK r : r = [s EXCEPT !.made = b] /\ Goto(p, to, r)
  BY <1>2, <1>3
<1>5. r \in Runs /\ r.made = b /\ r.want = s.want /\ r.did = s.did /\ r.alone = s.alone /\ r.purge = s.purge
  BY <1>4 DEF Runs
<1>6. /\ file /\ ~s.alone /\ s.want \in Key /\ (s.want \in Did => s.did = s.want)
      /\ pc[p] = "mk_name" => "did_doc" \in tables
      /\ pc[p] = "mk_http" => {"did_doc", "did_handle"} \subseteq tables
  BY <1>1, <1>2 DEF RunOk, Shape, Begun, Making, Places
<1>7. /\ UNCHANGED <<world, file, docs, names, https, purgedAt>>
      /\ halfMade' = (halfMade /\ tables' # Tables)
  BY DEF Make
<1>8. Ready(s) = Ready(r)
  BY <1>5 DEF Ready, Entry
<1>9. to = Ready(r) => to \in {"clear_doc", "name", "doc"} /\ Shape(to, r) /\ Hand(to, r)
  BY <1>5, <1>6, ReadyIsShaped
<1>10. RunOk(to, r)'
  <2>1. CASE pc[p] = "mk_http"
    <3>1. to = Ready(r)
      BY <1>2, <1>8, <2>1
    <3>2. Begun(to, r)'
      BY <1>6, <1>7, <1>9, <3>1 DEF Begun, Making
    <3> QED BY <1>7, <1>9, <3>1, <3>2 DEF RunOk, Shape, Hand, Known, Until, Cur, world
  <2>2. CASE pc[p] # "mk_http"
    <3>1. to \in {"mk_name", "mk_http"} /\ r.made
      BY <1>2, <1>3, <1>5, <2>2 DEF Making
    <3>2. Begun(to, r)'
      BY <1>2, <1>6, <1>7, <2>2, <3>1 DEF Begun, Making
    <3>3. Shape(to, r)' /\ Hand(to, r)'
      BY <1>5, <1>6, <3>1 DEF Shape, Hand, Making, Holding
    <3> QED BY <3>2, <3>3 DEF RunOk
  <2> QED BY <2>1, <2>2
<1>11. tables' \subseteq Tables /\ tables \subseteq Tables /\ halfMade' \in BOOLEAN /\ file' \in BOOLEAN
  BY <1>2, <1>7 DEF IInv, Types, Tables
<1>12. /\ Types' /\ World' /\ Rows'
       /\ \A q \in Proc : RunOk(pc[q], run[q])'
       /\ pc'[p] = to /\ run'[p] = r
       /\ \A q \in Proc \ {p} : pc'[q] = pc[q] /\ run'[q] = run[q]
  <2>1. to \in Places
    BY <1>2, <1>8, <1>9 DEF Places, Making, Purging, Looking
  <2> QED BY <1>2, <1>4, <1>5, <1>7, <1>10, <1>11, <2>1, Before, GotoKeeps
<1>13. Files'
  <2>1. CASE pc[p] = "mk_http"
    <3>1. tables' = Tables
      BY <1>2, <1>6, <1>11, <2>1 DEF Tables
    <3> QED BY <3>1 DEF Files
  <2>2. CASE pc[p] # "mk_http"
    BY <1>2, <1>12, <2>2 DEF Files, Making
  <2> QED BY <2>1, <2>2
<1>14. Alone'
  BY <1>2, <1>5, <1>6, <1>12 DEF IInv, Alone
<1> QED BY <1>12, <1>13, <1>14 DEF IInv

-----------------------------------------------------------------------------
\* While a run does something, no other is alone.
LEMMA OthersAreNotAlone ==
  ASSUME IInv, NEW p \in Proc, pc[p] \notin {"idle", "ok"}
  PROVE  \A q \in Proc : q # p => ~run[q].alone
BY DEF IInv, Alone

\* A purge that begins while no other run does anything is alone.
LEMMA ClearDocKeeps ==
  ASSUME IInv, NEW p \in Proc, ClearDoc(p)
  PROVE  IInv'
<1>1. PICK s \in Runs : s = run[p] /\ RunOk(pc[p], s)
  BY Before
<1>2. PICK x \in BOOLEAN : /\ docs' = IF x THEN docs ELSE [d \in Did |-> None]
                          /\ Goto(p, "clear_name",
                                  [s EXCEPT !.bad = x, !.from = now, !.alone = Active = {p}])
  <2>1. PICK x \in {"did_doc" \notin tables, TRUE} :
          /\ docs' = IF x THEN docs ELSE [d \in Did |-> None]
          /\ Goto(p, "clear_name",
                  [s EXCEPT !.bad = x, !.from = now, !.alone = Active = {p}])
    BY <1>1 DEF ClearDoc
  <2>2. x \in BOOLEAN
    BY <2>1
  <2> QED BY <2>1, <2>2
<1>3. PICK b \in BOOLEAN : b = (Active = {p})
  <2>1. CASE Active = {p}
    <3>1. TRUE = (Active = {p})
      BY <2>1, Zenon
    <3> QED BY <3>1, Zenon
  <2>2. CASE Active # {p}
    <3>1. (Active = {p}) = FALSE
      BY <2>2, SMT
    <3> QED BY <3>1, Zenon
  <2> QED BY <2>1, <2>2
<1>4. PICK r : r = [s EXCEPT !.bad = x, !.from = now, !.alone = b] /\ Goto(p, "clear_name", r)
  BY <1>2, <1>3
<1>5. now \in Nat
  BY Before
<1>6. r \in Runs /\ r.bad = x /\ r.from = now /\ r.alone = b /\ r.want = s.want /\ r.did = s.did
  BY <1>4, <1>5 DEF Runs
<1>7. /\ pc[p] = "clear_doc" /\ file /\ s.want \in Key /\ (s.want \in Did => s.did = s.want)
      /\ UNCHANGED <<world, file, tables, names, https, halfMade, purgedAt>>
  BY <1>1 DEF ClearDoc, RunOk, Shape, Begun, Purging, Places, hist
<1>8. RunOk("clear_name", r)'
  BY <1>5, <1>6, <1>7 DEF RunOk, Shape, Hand, Begun, Making, Holding, world
<1>9. docs' \in [Did -> Row] /\ \A d \in Did : DocRow(d, docs'[d])
  BY <1>2, Before DEF Row, DocRow
<1>10. /\ Types' /\ World' /\ Rows'
       /\ \A q \in Proc : RunOk(pc[q], run[q])'
       /\ pc'[p] = "clear_name" /\ run'[p] = r
       /\ \A q \in Proc \ {p} : pc'[q] = pc[q] /\ run'[q] = run[q]
  <2>1. tables' \subseteq Tables /\ halfMade' \in BOOLEAN /\ file' \in BOOLEAN
    BY <1>7 DEF IInv, Types
  <2>2. "clear_name" \in Places /\ file \in BOOLEAN /\ UNCHANGED <<world, purgedAt>>
    BY <1>7 DEF Places, Purging
  <2>3. /\ https' \in [Did -> Row] /\ names' \in [Handle -> Row]
        /\ \A h \in Handle : NameRow(h, names'[h])
        /\ \A d \in Did : HttpRow(d, https'[d]) /\ DocRow(d, docs'[d])
    BY <1>7, <1>9, Before
  <2> QED BY <1>4, <1>6, <1>7, <1>8, <1>9, <2>1, <2>2, <2>3, GotoKeeps
<1>11. Files'
  BY <1>7, <1>10 DEF IInv, Files, Making
<1>12. Alone'
  <2>1. ASSUME b, NEW q \in Proc, q # p PROVE pc'[q] \in {"idle", "ok"}
    <3>1. Active = {p}
      BY <1>3, <2>1, Zenon
    <3>2. q \notin Active
      BY <2>1, <3>1
    <3>3. pc[q] \in Places /\ pc'[q] = pc[q]
      BY <1>10, <2>1 DEF IInv, Types
    <3> QED BY <3>2, <3>3 DEF Active, Places
  <2>2. ~x => \A d \in Did : docs'[d] = None
    BY <1>2
  <2>3. \A q \in Proc : q # p => ~run'[q].alone
    BY <1>7, <1>10, OthersAreNotAlone
  <2> QED BY <1>6, <1>10, <2>1, <2>2, <2>3 DEF Alone
<1> QED BY <1>10, <1>11, <1>12 DEF IInv

\* The names go next, unless the purge gives up.
LEMMA ClearNameKeeps ==
  ASSUME IInv, NEW p \in Proc, ClearName(p)
  PROVE  IInv'
<1>1. pc[p] = "clear_name" /\ UNCHANGED <<world, file, tables, docs, https, halfMade, purgedAt>>
  BY DEF ClearName, hist
<1>2. CASE Goto(p, "idle", NoRun)
  <2>1. names' \in {names, [h \in Handle |-> None]}
    BY DEF ClearName
  <2> QED BY <1>1, <1>2, <2>1, GivesUp DEF Making
<1>3. CASE Goto(p, "clear_http", run[p]) /\ ~run[p].bad /\ names' = [h \in Handle |-> None]
  <2>1. PICK s \in Runs : s = run[p] /\ RunOk("clear_name", s)
    BY <1>1, Before
  <2>2. RunOk("clear_http", s)'
    BY <1>1, <2>1 DEF RunOk, Shape, Hand, Begun, Making, Purging, Holding, Places, world
  <2>3. names' \in [Handle -> Row] /\ \A h \in Handle : NameRow(h, names'[h])
    BY <1>3 DEF Row, NameRow
  <2>4. /\ Types' /\ World' /\ Rows'
        /\ \A q \in Proc : RunOk(pc[q], run[q])'
        /\ pc'[p] = "clear_http" /\ run'[p] = s
        /\ \A q \in Proc \ {p} : pc'[q] = pc[q] /\ run'[q] = run[q]
    <3>1. tables' \subseteq Tables /\ halfMade' \in BOOLEAN /\ file' \in BOOLEAN
      BY <1>1 DEF IInv, Types
    <3> QED BY <1>1, <1>3, <2>1, <2>2, <2>3, <3>1, Before, GotoKeeps DEF Places, Purging
  <2>5. Files'
    BY <1>1, <2>4 DEF IInv, Files, Making
  <2>6. Alone'
    <3>1. \A q \in Proc : q # p => ~run'[q].alone
      BY <1>1, <2>4, OthersAreNotAlone
    <3>2. s.alone => /\ \A q \in Proc : q # p => pc'[q] \in {"idle", "ok"}
                     /\ \A d \in Did : docs'[d] = None
      BY <1>1, <1>3, <2>1, <2>4 DEF IInv, Alone
    <3> QED BY <1>3, <2>1, <2>4, <3>1, <3>2 DEF Alone
  <2> QED BY <2>4, <2>5, <2>6 DEF IInv
<1> QED BY <1>2, <1>3 DEF ClearName

\* When the responses are gone, a purge that was alone has left nothing that is
\* older than itself.
LEMMA ClearHttpKeeps ==
  ASSUME IInv, NEW p \in Proc, ClearHttp(p)
  PROVE  IInv'
<1>1. PICK s \in Runs : s = run[p] /\ RunOk(pc[p], s)
  BY Before
<1>2. /\ pc[p] = "clear_http" /\ file /\ s.want \in Key /\ (s.want \in Did => s.did = s.want)
      /\ s.from \in Nat /\ s.from <= now
      /\ UNCHANGED <<world, file, tables, docs, names, halfMade>>
      /\ https' = [d \in Did |-> None]
      /\ purgedAt' = IF s.alone THEN s.from ELSE purgedAt
  BY <1>1 DEF ClearHttp, RunOk, Shape, Hand, Begun, Purging, Places, Runs
<1>3. PICK to : to \in {"dir_name", "dir_doc"} /\ to = AfterPurge(p)
  BY DEF AfterPurge
<1>4. PICK r : r = [s EXCEPT !.purge = FALSE, !.from = 0, !.alone = FALSE] /\ Goto(p, to, r)
  BY <1>1, <1>3 DEF ClearHttp
<1>5. r \in Runs /\ r.want = s.want /\ r.did = s.did /\ ~r.alone
  BY <1>4 DEF Runs
<1>6. /\ to = "dir_name" => s.want \in Handle
      /\ to = "dir_doc" => s.want \in Did
  BY <1>1, <1>2, <1>3 DEF AfterPurge, Key
<1>7. to \in Places
  BY <1>3 DEF Places, Purging
<1>8. RunOk(to, r)
  BY <1>2, <1>3, <1>5, <1>6 DEF RunOk, Shape, Hand, Begun, Making, Holding
<1>9. https' \in [Did -> Row] /\ \A d \in Did : https'[d] = None
  BY <1>2 DEF Row
<1>10. CASE ~s.alone
  <2>1. UNCHANGED <<world, file, tables, halfMade, purgedAt, docs, names>>
    BY <1>2, <1>10
  <2>2. \A d \in Did : HttpRow(d, https'[d])
    BY <1>9 DEF HttpRow
  <2>3. pc[p] \notin {"idle", "ok"} \cup Making
    BY <1>2 DEF Making
  <2> QED BY <1>4, <1>5, <1>7, <1>8, <1>9, <2>1, <2>2, <2>3, Before, StepKeeps
<1>11. CASE s.alone
  <2>1. /\ \A q \in Proc : q # p => pc[q] \in {"idle", "ok"} /\ ~run[q].alone
        /\ \A d \in Did : docs[d] = None
        /\ \A h \in Handle : names[h] = None
    BY <1>1, <1>2, <1>11, OthersAreNotAlone DEF IInv, Alone
  <2>2. /\ pc' \in [Proc -> Places] /\ run' \in [Proc -> Runs] /\ pc'[p] = to /\ run'[p] = r
        /\ \A q \in Proc \ {p} : pc'[q] = pc[q] /\ run'[q] = run[q]
    BY <1>4, <1>5, <1>7 DEF Goto, IInv, Types
  <2>3. purgedAt' \in Nat /\ purgedAt' <= now'
    BY <1>2, <1>11 DEF world
  <2>4. Types' /\ World'
    BY <1>2, <1>9, <2>2, <2>3 DEF IInv, Types, World, world
  <2>5. Rows'
    BY <1>2, <1>9, <2>1 DEF Rows, NameRow, HttpRow, DocRow
  <2>6. Files'
    BY <1>2, <2>1, <2>2 DEF IInv, Files, Making
  <2>7. Alone'
    BY <1>5, <2>1, <2>2 DEF Alone
  <2>8. RunOk(to, r)'
    BY <1>2, <1>3, <1>8 DEF RunOk, Shape, Hand, Begun, Holding
  <2>9. ASSUME NEW q \in Proc, q # p PROVE RunOk(pc[q], run[q])'
    <3>1. PICK place \in {"idle", "ok"}, t \in Runs :
            place = pc[q] /\ place = pc'[q] /\ t = run[q] /\ t = run'[q]
      BY <2>1, <2>2, <2>9 DEF IInv, Types
    <3>2. RunOk(place, t)
      BY <3>1 DEF IInv
    <3>3. RunOk(place, t)'
      BY <3>2 DEF RunOk, Shape, Hand, Begun, Making, Purging, Looking, Holding
    <3> QED BY <3>1, <3>3
  <2> QED BY <2>2, <2>4, <2>5, <2>6, <2>7, <2>8, <2>9 DEF IInv
<1> QED BY <1>10, <1>11

\* A run that is killed while it makes the tables leaves them missing for good.
LEMMA CrashKeeps ==
  ASSUME IInv, NEW p \in Proc, Crash(p)
  PROVE  IInv'
<1>1. /\ p \in Active /\ Goto(p, "idle", NoRun)
      /\ halfMade' = (halfMade \/ (pc[p] \in Making \ {"open"} /\ tables # Tables))
      /\ UNCHANGED <<world, file, tables, docs, names, https, purgedAt>>
  BY DEF Crash, cache
<1>2. pc[p] \notin {"idle", "ok"}
  BY <1>1 DEF Active, Making, Purging, Looking, Holding
<1>3. tables' \subseteq Tables /\ halfMade' \in BOOLEAN /\ file' \in BOOLEAN
  BY <1>1 DEF IInv, Types
<1>4. RunOk("idle", NoRun)' /\ "idle" \in Places
  BY <1>1, Ended DEF RunOk, Shape, Hand, Begun, Known, Until, Cur, world, Places
<1>5. /\ Types' /\ World' /\ Rows'
      /\ \A q \in Proc : RunOk(pc[q], run[q])'
      /\ pc'[p] = "idle" /\ run'[p] = NoRun
      /\ \A q \in Proc \ {p} : pc'[q] = pc[q] /\ run'[q] = run[q]
  <2>1. /\ docs' \in [Did -> Row] /\ https' \in [Did -> Row] /\ names' \in [Handle -> Row]
        /\ \A h \in Handle : NameRow(h, names'[h])
        /\ \A d \in Did : HttpRow(d, https'[d]) /\ DocRow(d, docs'[d])
    BY <1>1, Before
  <2> QED BY <1>1, <1>3, <1>4, <2>1, Ended, GotoKeeps
<1>6. Files'
  BY <1>1, <1>5 DEF IInv, Files
<1>7. Alone'
  BY <1>2, <1>5, OthersAreNotAlone, Ended DEF Alone
<1> QED BY <1>5, <1>6, <1>7 DEF IInv

\* A run begins: whoever was alone is so no longer.
LEMMA BeginKeeps ==
  ASSUME IInv, NEW p \in Proc, NEW k \in Key, NEW purge \in BOOLEAN,
         Begin(p, k, purge)
  PROVE  IInv'
<1>1. UNCHANGED <<world, file, tables, docs, names, https, halfMade, purgedAt>>
  BY DEF Begin, cache, hist
<1>2. pc[p] \in {"idle", "ok"}
  BY DEF Begin, Active, IInv, Types, Places
<1>3. PICK did : did = DidOf(k) /\ did \in Did \cup {None} /\ (k \in Did => did = k)
  BY DEF DidOf
<1>4. PICK made \in BOOLEAN : made = (~file) /\ (~made => file)
  BY DEF IInv, Types
<1>5. PICK r : r = [NoRun EXCEPT !.want = k, !.purge = purge, !.made = made, !.did = did]
  OBVIOUS
<1>6. r \in Runs /\ r.want = k /\ r.made = made /\ r.did = did /\ ~r.alone
  BY <1>3, <1>5 DEF Runs, NoRun
<1>7. /\ pc' = [pc EXCEPT ![p] = "open"]
      /\ run' = [q \in Proc |-> IF q = p THEN r ELSE [run[q] EXCEPT !.alone = FALSE]]
  BY <1>3, <1>4, <1>5 DEF Begin
<1>8. ASSUME NEW q \in Proc, q # p
      PROVE  /\ run'[q] \in Runs /\ pc'[q] = pc[q] /\ ~run'[q].alone /\ RunOk(pc[q], run[q])'
  <2>1. PICK place \in Places, s \in Runs : place = pc[q] /\ s = run[q] /\ RunOk(place, s)
    BY Before DEF IInv, Types
  <2>2. PICK t : t = [s EXCEPT !.alone = FALSE] /\ run'[q] = t
    BY <1>7, <1>8, <2>1
  <2>3. /\ t \in Runs /\ t.want = s.want /\ t.did = s.did /\ t.made = s.made /\ ~t.alone
        /\ t.got = s.got /\ t.since = s.since /\ t.from = s.from
    BY <2>2 DEF Runs
  <2>4. RunOk(place, t)'
    BY <1>1, <2>1, <2>3 DEF RunOk, Shape, Hand, Begun, Known, Until, Cur, world
  <2>5. pc'[q] = place
    BY <1>7, <1>8, <2>1 DEF IInv, Types
  <2> QED BY <2>1, <2>2, <2>3, <2>4, <2>5
<1>9. RunOk("open", r)'
  BY <1>1, <1>3, <1>4, <1>6 DEF RunOk, Shape, Hand, Begun, Making, Holding
<1>10. run' \in [Proc -> Runs] /\ pc' \in [Proc -> Places] /\ run'[p] = r /\ pc'[p] = "open"
  BY <1>6, <1>7, <1>8 DEF IInv, Types, Places, Making
<1>11. Types' /\ World' /\ Rows'
  BY <1>1, <1>10 DEF IInv, Types, World, Rows, NameRow, HttpRow, DocRow, Known, Until, Cur, world
<1>12. Files'
  BY <1>1, <1>2, <1>8 DEF IInv, Files, Making
<1>13. Alone'
  BY <1>6, <1>8, <1>10 DEF Alone
<1>14. \A q \in Proc : RunOk(pc[q], run[q])'
  BY <1>8, <1>9, <1>10
<1> QED BY <1>11, <1>12, <1>13, <1>14 DEF IInv

-----------------------------------------------------------------------------
\* Before the first run there is no file and nothing is known.
LEMMA InitIInv == Init => IInv
<1> SUFFICES ASSUME Init PROVE IInv
  OBVIOUS
<1>1. Types
  <2>1. now \in Nat /\ purgedAt \in Nat /\ purgedAt <= now /\ ended \in [Key -> Seq(Nat)]
    BY DEF Init
  <2>2. file \in BOOLEAN /\ halfMade \in BOOLEAN /\ tables \subseteq Tables
    BY DEF Init
  <2>3. docs \in [Did -> Row] /\ https \in [Did -> Row] /\ names \in [Handle -> Row]
    BY DEF Init, Row
  <2>4. pc \in [Proc -> Places] /\ run \in [Proc -> Runs]
    BY Ended DEF Init, Places
  <2> QED BY <2>1, <2>2, <2>3, <2>4 DEF Types
<1>2. World
  BY IdentityCacheAssumption DEF Init, World
<1>3. Rows
  BY DEF Init, Rows, NameRow, HttpRow, DocRow
<1>4. Files /\ Alone
  BY Ended DEF Init, Files, Alone
<1>5. \A p \in Proc : RunOk(pc[p], run[p])
  BY Ended DEF Init
<1> QED BY <1>1, <1>2, <1>3, <1>4, <1>5 DEF IInv

\* Every step of the world and of a run keeps the invariant.
LEMMA NextIInv == IInv /\ [Next]_vars => IInv'
<1> SUFFICES ASSUME IInv, [Next]_vars PROVE IInv'
  OBVIOUS
<1>1. CASE UNCHANGED vars
  <2>1. Types' /\ World' /\ Files' /\ Alone'
    BY <1>1 DEF IInv, Types, World, Files, Alone, vars, world, cache, hist
  <2>2. Rows'
    BY <1>1 DEF IInv, Rows, NameRow, HttpRow, DocRow, Known, Until, Cur, vars, world, cache, hist
  <2>3. \A p \in Proc : RunOk(pc[p], run[p])'
    BY <1>1 DEF IInv, RunOk, Shape, Hand, Begun, Known, Until, Cur, vars, world, cache, hist
  <2> QED BY <2>1, <2>2, <2>3 DEF IInv
<1>2. ASSUME NEW p \in Proc, ClearHttpFails(p) \/ LookupFails(p) PROVE IInv'
  <2>1. /\ Goto(p, "idle", NoRun) /\ pc[p] \notin {"idle", "ok"} \cup Making
        /\ UNCHANGED <<world, file, tables, halfMade, purgedAt, docs, https, names>>
    BY <1>2 DEF ClearHttpFails, LookupFails, Fail, hist, cache, Making, Holding
  <2> QED BY <2>1, GivesUp
<1>3. ASSUME NEW p \in Proc, Step(p) PROVE IInv'
  BY <1>2, <1>3, BeginKeeps, OpenKeeps, MakeKeeps, ClearDocKeeps, ClearNameKeeps, ClearHttpKeeps,
     DirectoryKeeps, LookingKeeps, StoringKeeps, CrashKeeps DEF Step
<1> QED BY <1>1, <1>3, WorldKeeps DEF Next

\* The inductive invariant holds of every run of the command, killed or not.
THEOREM Invariance == Spec => []IInv
<1>1. IInv /\ [Next]_vars => IInv'
  BY NextIInv
<1> QED BY <1>1, InitIInv, PTL DEF Spec

\* Only the run that found no file makes the tables; whoever looks something up
\* meanwhile finds them missing only while it is at it or since it died (init).
THEOREM TablesAreMadeOnce == Spec => []TablesAreMade
<1>1. ASSUME IInv PROVE TablesAreMade
  <2>1. SUFFICES ASSUME NEW p \in Proc, pc[p] \in Looking, tables # Tables
                 PROVE  halfMade \/ \E q \in Proc : pc[q] \in Making /\ run[q].made
    BY DEF TablesAreMade
  <2>2. file
    BY <1>1, <2>1 DEF IInv, RunOk, Begun, Looking, Holding, Places
  <2>3. halfMade \/ \E q \in Proc : pc[q] \in Making \ {"open"}
    BY <1>1, <2>1, <2>2 DEF IInv, Files
  <2>4. \A q \in Proc : pc[q] \in Making \ {"open"} => run[q].made
    BY <1>1 DEF IInv, RunOk, Begun
  <2> QED BY <2>3, <2>4
<1> QED BY <1>1, Invariance, PTL

\* A response that outlives the document beside it by more than runs hold answers
\* is not older than it (get of httpcache answers for an expired row of didcache).
THEOREM RefillsAreNotOlder ==
  ASSUME HttpTTL <= DocTTL
  PROVE  Spec => []RefillsGoForward
<1>1. ASSUME IInv PROVE RefillsGoForward
  <2>0. HttpTTL \in Nat /\ DocTTL \in Nat /\ MaxHold \in Nat /\ Did \subseteq Key
    BY IdentityCacheAssumption DEF Key
  <2> SUFFICES ASSUME NEW d \in Did, docs[d] # None, https[d] # None,
                      https[d].at + HttpTTL > docs[d].at + DocTTL + MaxHold,
                      https[d].ver < docs[d].ver
               PROVE  FALSE
    <3>1. \A e \in Did : docs[e] # None /\ https[e] # None => docs[e].ver \in Nat /\ https[e].ver \in Nat
      BY <1>1 DEF IInv, Types, Row
    <3> QED BY <3>1 DEF RefillsGoForward
  <2>1. PICK doc, resp : doc = docs[d] /\ resp = https[d]
    OBVIOUS
  <2>2. {doc.ver, doc.at, resp.ver, resp.at} \subseteq Nat
    BY <1>1, <2>1 DEF IInv, Types, Row
  <2>3. resp.at - MaxHold > doc.at /\ resp.ver < doc.ver
    BY <2>0, <2>1, <2>2
  <2>4. Known(d, resp.ver, resp.at - MaxHold)
    BY <1>1, <2>1 DEF IInv, Rows, HttpRow
  <2>5. doc.ver # 0 /\ doc.ver \in 1..Cur(d) /\ \A i \in 1..(doc.ver - 1) : ended[d][i] <= doc.at
    BY <1>1, <2>1, <2>2, <2>3 DEF IInv, Rows, DocRow, Known
  <2>6. resp.ver \in 1..(doc.ver - 1) /\ resp.ver # Cur(d)
    BY <2>2, <2>3, <2>4, <2>5 DEF Known
  <2>7. Until(d, resp.ver) = ended[d][resp.ver] /\ Until(d, resp.ver) <= doc.at
    BY <2>5, <2>6 DEF Until
  <2>8. Until(d, resp.ver) \in Nat /\ Until(d, resp.ver) >= resp.at - MaxHold
    BY <1>1, <2>0, <2>4, UntilIsTime DEF Known
  <2> QED BY <2>0, <2>2, <2>3, <2>7, <2>8
<1> QED BY <1>1, Invariance, PTL

-----------------------------------------------------------------------------
\* A run moves only by its own step.
LEMMA OwnStep ==
  ASSUME IInv, [Next]_vars, NEW p \in Proc, pc'[p] # pc[p]
  PROVE  Step(p)
<1>1. ASSUME NEW q \in Proc, Step(q), q # p PROVE pc'[p] = pc[p]
  <2>1. (\E to, r : Goto(q, to, r)) \/ pc' = [pc EXCEPT ![q] = "open"]
    BY <1>1 DEF Step, Begin, Open, Make, ClearDoc, ClearName, ClearHttp, ClearHttpFails, DirName,
       DirDoc, DirForget, GetName, Ask, StoreName, GetDoc, GetHttp, Fetch, Put, StoreDoc,
       LookupFails, Crash, Answer, Fail
  <2> QED BY <1>1, <2>1 DEF Goto, IInv, Types
<1>2. ~(Tick \/ \E k \in Key : Change(k)) /\ ~UNCHANGED vars
  BY DEF Tick, Change, vars
<1> QED BY <1>1, <1>2 DEF Next

\* Where a handle is resolved, and where a lookup answers.
LEMMA AnswerSteps ==
  ASSUME IInv, [Next]_vars, NEW p \in Proc
  PROVE  /\ Resolves(p) => (GetName(p) /\ Fresh(names[run[p].want])) \/ StoreName(p)
         /\ Answers(p) => (GetDoc(p) /\ Fresh(docs[run[p].did])) \/ StoreDoc(p)
<1>1. \A to, r : Goto(p, to, r) => pc'[p] = to
  BY DEF Goto, IInv, Types
<1>2. ASSUME Resolves(p) PROVE (GetName(p) /\ Fresh(names[run[p].want])) \/ StoreName(p)
  <2>1. Step(p) /\ pc[p] \in {"name", "keep_name"} /\ pc'[p] = "doc"
    BY <1>2, OwnStep DEF Resolves
  <2>2. p \in Active
    BY <2>1 DEF Active, Looking, Holding
  <2>3. ~LookupFails(p) /\ ~Crash(p)
    BY <1>1, <2>1 DEF LookupFails, Crash, Fail
  <2>4. GetName(p) \/ StoreName(p)
    <3>1. \A k \in Key, purge \in BOOLEAN : ~Begin(p, k, purge)
      BY <2>2 DEF Begin
    <3>2. ~Open(p) /\ ~Make(p) /\ ~ClearDoc(p) /\ ~ClearName(p) /\ ~ClearHttp(p) /\ ~ClearHttpFails(p)
      BY <2>1 DEF Open, Make, ClearDoc, ClearName, ClearHttp, ClearHttpFails
    <3>3. ~DirName(p) /\ ~DirDoc(p) /\ ~DirForget(p)
      BY <2>1 DEF DirName, DirDoc, DirForget
    <3>4. ~Ask(p) /\ ~GetDoc(p) /\ ~GetHttp(p) /\ ~Fetch(p) /\ ~Put(p) /\ ~StoreDoc(p)
      BY <2>1 DEF Ask, GetDoc, GetHttp, Fetch, Put, StoreDoc
    <3> QED BY <2>1, <2>3, <3>1, <3>2, <3>3, <3>4 DEF Step
  <2>5. GetName(p) => Fresh(names[run[p].want])
    BY <1>1, <2>1 DEF GetName
  <2> QED BY <2>4, <2>5
<1>3. ASSUME Answers(p) PROVE (GetDoc(p) /\ Fresh(docs[run[p].did])) \/ StoreDoc(p)
  <2>1. Step(p) /\ pc'[p] = "ok"
    BY <1>3, OwnStep DEF Answers
  <2>2. \A k \in Key, purge \in BOOLEAN : ~Begin(p, k, purge)
    BY <2>1 DEF Begin, IInv, Types
  <2>3. ~Open(p) /\ ~Make(p)
    BY <1>1, <2>1 DEF Open, Make, Ready, Entry
  <2>4. ~ClearDoc(p) /\ ~ClearName(p) /\ ~ClearHttp(p) /\ ~ClearHttpFails(p)
    BY <1>1, <2>1 DEF ClearDoc, ClearName, ClearHttp, ClearHttpFails, AfterPurge, Fail
  <2>5. ~DirName(p) /\ ~DirDoc(p) /\ ~DirForget(p)
    BY <1>1, <2>1 DEF DirName, DirDoc, DirForget, Entry
  <2>6. ~GetName(p) /\ ~Ask(p) /\ ~StoreName(p)
    BY <1>1, <2>1 DEF GetName, Ask, StoreName
  <2>7. ~GetHttp(p) /\ ~Fetch(p) /\ ~Put(p) /\ ~LookupFails(p) /\ ~Crash(p)
    BY <1>1, <2>1 DEF GetHttp, Fetch, Put, LookupFails, Crash, Fail
  <2>8. GetDoc(p) => Fresh(docs[run[p].did])
    BY <1>1, <2>1 DEF GetDoc
  <2> QED BY <2>1, <2>2, <2>3, <2>4, <2>5, <2>6, <2>7, <2>8 DEF Step
<1> QED BY <1>2, <1>3

\* A handle is resolved to what it named within one TTL, and since the last purge.
LEMMA Resolved ==
  ASSUME IInv, [Next]_vars, NEW p \in Proc, Resolves(p)
  PROVE  run[p].want \in Key /\ Known(run[p].want, run'[p].got, now - DocTTL - MaxHold)
<1>0. DocTTL \in Nat /\ MaxHold \in Nat /\ Handle \subseteq Key
  BY IdentityCacheAssumption DEF Key
<1>1. PICK s \in Runs : s = run[p] /\ RunOk(pc[p], s)
  BY Before
<1>2. s.want \in Handle /\ now \in Nat
  BY <1>1, Before DEF RunOk, Shape, Resolves
<1>3. CASE GetName(p) /\ Fresh(names[run[p].want])
  <2>1. PICK row : row = names[s.want]
    OBVIOUS
  <2>2. /\ Known(s.want, row.ver, row.at - MaxHold) /\ row.at \in Nat /\ row.ver \in Nat
        /\ now <= row.at + DocTTL
    BY <1>1, <1>2, <1>3, <2>1, Before DEF NameRow, Row, Fresh
  <2>3. run'[p].got = row.ver
    <3>1. PICK did, r : /\ did = Owner[s.want][row.ver]
                        /\ r = [s EXCEPT !.want = None, !.did = did, !.got = row.ver]
      OBVIOUS
    <3>2. Goto(p, "doc", r)
      BY <1>1, <1>3, <2>1, <3>1 DEF GetName
    <3>3. r.got = row.ver
      BY <1>1, <3>1 DEF Runs
    <3> QED BY <3>2, <3>3 DEF Goto, IInv, Types
  <2>4. Until(s.want, row.ver) \in Nat
    BY <1>0, <1>2, <2>2, UntilIsTime DEF Known
  <2>5. purgedAt \in Nat
    BY Before
  <2>6. Known(s.want, row.ver, now - DocTTL - MaxHold)
    BY <1>0, <1>2, <2>2, <2>4, <2>5 DEF Known
  <2> QED BY <1>0, <1>1, <1>2, <2>3, <2>6
<1>4. CASE StoreName(p)
  <2>1. pc[p] = "keep_name"
    BY <1>4 DEF StoreName
  <2>2. /\ Known(s.want, s.got, s.since) /\ s.since \in Nat /\ s.got \in Nat
        /\ now <= s.since + MaxHold
    BY <1>1, <2>1 DEF RunOk, Hand, Holding, Runs
  <2>3. run'[p].got = s.got
    <3>1. PICK r : r = [s EXCEPT !.want = None, !.since = 0]
      OBVIOUS
    <3>2. Goto(p, "doc", r)
      BY <1>1, <1>4, <3>1 DEF StoreName
    <3>3. r.got = s.got
      BY <1>1, <3>1 DEF Runs
    <3> QED BY <3>2, <3>3 DEF Goto, IInv, Types
  <2>4. Until(s.want, s.got) \in Nat
    BY <1>0, <1>2, <2>2, UntilIsTime DEF Known
  <2>5. Known(s.want, s.got, now - DocTTL - MaxHold)
    BY <1>0, <1>2, <2>2, <2>4 DEF Known
  <2> QED BY <1>0, <1>1, <1>2, <2>3, <2>5
<1> QED BY <1>3, <1>4, AnswerSteps

\* A document is told that was the directory's within the TTLs of both caches, and
\* since the last purge.
LEMMA Answered ==
  ASSUME IInv, [Next]_vars, NEW p \in Proc, Answers(p), Told(p) # 0
  PROVE  /\ run[p].did \in Key
         /\ Known(run[p].did, Told(p), now - DocTTL - HttpTTL - 2 * MaxHold + 1)
<1>0. DocTTL \in Nat /\ HttpTTL \in Nat /\ MaxHold \in Nat /\ Did \subseteq Key
  BY IdentityCacheAssumption DEF Key
<1>1. PICK s \in Runs : s = run[p] /\ RunOk(pc[p], s)
  BY Before
<1>2. pc[p] \in {"doc", "keep_doc"} /\ s.did \in Did /\ now \in Nat
  BY <1>1, Before, AnswerSteps DEF RunOk, Shape, GetDoc, StoreDoc
<1>3. CASE GetDoc(p) /\ Fresh(docs[run[p].did])
  <2>1. PICK row : row = docs[s.did]
    OBVIOUS
  <2>2. Told(p) = row.ver
    BY <1>1, <1>3, <2>1 DEF GetDoc, Told
  <2>3. /\ Known(s.did, row.ver, row.at - 2 * MaxHold - HttpTTL + 1)
        /\ row.at \in Nat /\ row.ver \in Nat /\ now <= row.at + DocTTL
    BY <1>1, <1>2, <1>3, <2>1, <2>2, Before DEF DocRow, Row, Fresh
  <2>4. Until(s.did, row.ver) \in Nat
    BY <1>0, <1>2, <2>3, UntilIsTime DEF Known
  <2>5. Known(s.did, row.ver, now - DocTTL - HttpTTL - 2 * MaxHold + 1)
    BY <1>0, <1>2, <2>3, <2>4 DEF Known
  <2> QED BY <1>0, <1>1, <1>2, <2>2, <2>5
<1>4. CASE StoreDoc(p)
  <2>1. pc[p] = "keep_doc" /\ Told(p) = s.got
    BY <1>1, <1>4 DEF StoreDoc, Told
  <2>2. /\ Known(s.did, s.got, s.since - HttpTTL + 1 - MaxHold)
        /\ s.since \in Nat /\ s.got \in Nat /\ now <= s.since + MaxHold
    BY <1>1, <2>1 DEF RunOk, Hand, Holding, Runs
  <2>3. Until(s.did, s.got) \in Nat
    BY <1>0, <1>2, <2>2, UntilIsTime DEF Known
  <2>4. Known(s.did, s.got, now - DocTTL - HttpTTL - 2 * MaxHold + 1)
    BY <1>0, <1>2, <2>2, <2>3 DEF Known
  <2> QED BY <1>0, <1>1, <1>2, <2>1, <2>4
<1> QED BY <1>3, <1>4, AnswerSteps

\* Expiry bounds the age of every answer, whatever runs share the file (GetDID,
\* CachedDoc and RoundTrip, each with a TTL of its own).
THEOREM AnswersStayFresh == Spec => AnswersAreFresh
<1>1. ASSUME IInv, [Next]_vars
      PROVE  \A p \in Proc :
               /\ Resolves(p) => now - Until(run[p].want, run'[p].got) <= DocTTL + MaxHold
               /\ Answers(p) /\ Told(p) # 0 =>
                    now - Until(run[p].did, Told(p)) <= DocTTL + HttpTTL + 2 * MaxHold - 1
  <2>0. {DocTTL, HttpTTL, MaxHold, now} \subseteq Nat
    BY <1>1, IdentityCacheAssumption DEF IInv, Types
  <2>1. ASSUME NEW p \in Proc, Resolves(p)
        PROVE  now - Until(run[p].want, run'[p].got) <= DocTTL + MaxHold
    <3>1. PICK k, v : k = run[p].want /\ v = run'[p].got
      OBVIOUS
    <3>2. k \in Key /\ Known(k, v, now - DocTTL - MaxHold)
      BY <1>1, <2>1, <3>1, Resolved
    <3>3. Until(k, v) \in Nat /\ Until(k, v) >= now - DocTTL - MaxHold
      BY <1>1, <3>2, UntilIsTime DEF Known
    <3> QED BY <2>0, <3>1, <3>3
  <2>2. ASSUME NEW p \in Proc, Answers(p), Told(p) # 0
        PROVE  now - Until(run[p].did, Told(p)) <= DocTTL + HttpTTL + 2 * MaxHold - 1
    <3>1. PICK k, v : k = run[p].did /\ v = Told(p)
      OBVIOUS
    <3>2. k \in Key /\ Known(k, v, now - DocTTL - HttpTTL - 2 * MaxHold + 1)
      BY <1>1, <2>2, <3>1, Answered
    <3>3. Until(k, v) \in Nat /\ Until(k, v) >= now - DocTTL - HttpTTL - 2 * MaxHold + 1
      BY <1>1, <3>2, UntilIsTime DEF Known
    <3> QED BY <2>0, <3>1, <3>3
  <2> QED BY <2>1, <2>2
<1> QED BY <1>1, Invariance, PTL DEF Spec, AnswersAreFresh

\* After a purge that no other run disturbed, nobody is told what had ceased to be
\* true when it began (Purge of didcache, then of httpcache).
THEOREM PurgesForget == Spec => PurgeForgets
<1>1. ASSUME IInv, [Next]_vars
      PROVE  \A p \in Proc :
               /\ Resolves(p) => Until(run[p].want, run'[p].got) >= purgedAt
               /\ Answers(p) /\ Told(p) # 0 => Until(run[p].did, Told(p)) >= purgedAt
  BY <1>1, Resolved, Answered DEF Known
<1> QED BY <1>1, Invariance, PTL DEF Spec, PurgeForgets
=============================================================================
