--------------------------- MODULE SequencerProofs --------------------------
(***************************************************************************)
(* Proofs about Sequencer, for any calls, subscribers and number of        *)
(* restarts.  The inductive invariant ties the three places a number       *)
(* lives, the counter, the calls on their way and the table, and says      *)
(* where the bus's slice of queues can be relied on.                       *)
(***************************************************************************)
EXTENDS Sequencer, SequenceTheorems, TLAPS

\* Calls on their way have numbers of their own, none above the counter.
Numbers ==
  /\ \A c \in InFlight : n[c] <= seq
  /\ \A c, d \in InFlight : c # d => n[c] # n[d]
  /\ ~up => InFlight = {}

\* Who has a row: it is there before the answer, and stays whatever that is.
Table ==
  \A i \in DOMAIN rows : /\ rows[i].seq = n[rows[i].evt]
                         /\ pc[rows[i].evt] \in {"stored", "ok", "failed"}

\* Nothing stored is ahead of the counter, or under a number still to be stored.
Free ==
  /\ clean => \A i \in DOMAIN rows : rows[i].seq <= seq
  /\ StoreNeverConflicts

\* The slice of queues while removals take the newest one: each queue stands at
\* its own index, and every subscriber that has not gone is there.
Registered ==
  /\ \A i \in DOMAIN queues : /\ ix[queues[i]] = i - 1
                              /\ at[queues[i]] \in {"open", "closing"}
  /\ \A s \in Sub : at[s] \in {"open", "closing"} => \E i \in DOMAIN queues : queues[i] = s

Bus ==
  /\ ~up => \A s \in Sub : at[s] = "new"
  /\ lifo => Registered

\* What a subscriber was given, and what it still has to be given.
Streams ==
  /\ \A s \in Sub : at[s] # "open" => stream[s] = <<>>
  /\ \A c \in Call : /\ \A s \in owed[c] : at[s] = "open"
                     /\ todo[c] # {} => pc[c] = "deliver"
  /\ \A s \in Sub : \A i \in DOMAIN stream[s] :
       /\ stream[s][i].seq = n[stream[s][i].evt]
       /\ stream[s][i].seq <= seq
       /\ pc[stream[s][i].evt] \notin {"new", "numbered"}
       /\ s \notin todo[stream[s][i].evt]

\* Numbers and events are given once, and those on their way are fresh.
Unique ==
  /\ \A s \in Sub : \A i \in DOMAIN stream[s] : \A c \in InFlight :
       stream[s][i].evt # c => stream[s][i].seq # n[c]
  /\ \A s \in Sub : \A i, j \in DOMAIN stream[s] :
       i # j => /\ stream[s][i].seq # stream[s][j].seq
                /\ stream[s][i].evt # stream[s][j].evt

Reached(c, s) == s \in todo[c] \/ \E i \in DOMAIN stream[s] : stream[s][i].evt = c

\* Subscribers whose queue the range of a publication meets.
Met(s) == lifo \/ \E i \in DOMAIN queues : queues[i] = s

\* Publications that have the slice of queues, or have a row.
Sent(c) == \/ pc[c] \in {"deliver", "store", "stored", "ok"}
           \/ \E k \in DOMAIN rows : rows[k].evt = c

\* A publication has reached, or will reach, everyone it is owed to; one with a
\* row has, even if its call failed afterwards.
Seen == \A c \in Call : Sent(c) => \A s \in owed[c] : Met(s) => Reached(c, s)

\* What began later than a call ended.
History ==
  /\ \A c \in Call : born[c] \subseteq Ended /\ (pc[c] = "new" => born[c] = {})
  /\ clean => \A b \in Call : \A i \in DOMAIN rows : rows[i].evt \in born[b] => rows[i].seq < n[b]
  /\ \A s \in Sub : \A i, j \in DOMAIN stream[s] :
       i < j => stream[s][j].evt \notin born[stream[s][i].evt]

IInv == /\ TypeOK /\ Numbers /\ Table /\ Free
        /\ Bus /\ Streams /\ Unique /\ Seen /\ History
-----------------------------------------------------------------------------
\* A sequence with one more element.
LEMMA AppendFacts ==
  ASSUME NEW S, NEW q \in Seq(S), NEW x \in S
  PROVE  /\ Append(q, x) \in Seq(S)
         /\ Len(Append(q, x)) = Len(q) + 1
         /\ DOMAIN Append(q, x) = DOMAIN q \cup {Len(q) + 1}
         /\ Len(q) + 1 \notin DOMAIN q
         /\ \A i \in DOMAIN q : Append(q, x)[i] = q[i]
         /\ Append(q, x)[Len(q) + 1] = x
  OBVIOUS

\* What the type invariant says of the entries of the table and the streams.
LEMMA Entries ==
  ASSUME TypeOK
  PROVE  /\ \A i \in DOMAIN rows : /\ rows[i] \in Row
                                   /\ rows[i].seq \in Nat /\ rows[i].evt \in Call
         /\ \A t \in Sub : \A i \in DOMAIN stream[t] :
              /\ stream[t][i] \in Row
              /\ stream[t][i].seq \in Nat /\ stream[t][i].evt \in Call
<1>1. ASSUME NEW q \in Seq(Row), NEW i \in DOMAIN q PROVE q[i] \in Row
  BY <1>1
<1>2. \A r \in Row : r.seq \in Nat /\ r.evt \in Call
  BY DEF Row
<1>3. rows \in Seq(Row) /\ \A t \in Sub : stream[t] \in Seq(Row)
  BY DEF TypeOK
<1> QED
  BY <1>1, <1>2, <1>3

\* What is left of the slice after a removal.
LEMMA SwapRemoved ==
  ASSUME NEW S, NEW arr \in Seq(S), NEW i \in Int, i < Len(arr), arr # <<>>
  PROVE  /\ SwapRemove(i, arr) \in Seq(S)
         /\ Len(SwapRemove(i, arr)) = Len(arr) - 1
         /\ \A k \in 1..(Len(arr) - 1) :
              /\ k = i + 1 => SwapRemove(i, arr)[k] = arr[Len(arr)]
              /\ k # i + 1 => SwapRemove(i, arr)[k] = arr[k]
<1> DEFINE m == Len(arr)
           swapped == [arr EXCEPT ![i + 1] = arr[m]]
<1>1. m \in Nat /\ m >= 1 /\ arr[m] \in S
  BY EmptySeq
<1>2. swapped \in Seq(S) /\ Len(swapped) = m
  <2>1. CASE i + 1 \in 1..m
    BY <1>1, <2>1, ExceptSeq
  <2>2. CASE i + 1 \notin 1..m
    <3>1. arr \in [1..m -> S]
      BY <1>1
    <3>2. swapped \in [1..m -> S]
      BY <2>2, <3>1
    <3>3. \A k \in 1..m : swapped[k] = arr[k]
      BY <2>2, <3>1
    <3>4. swapped = arr
      BY <3>1, <3>2, <3>3
    <3> QED BY <1>1, <3>4
  <2> QED BY <2>1, <2>2
<1>3. \A k \in 1..m : swapped[k] = IF k = i + 1 THEN arr[m] ELSE arr[k]
  OBVIOUS
<1> HIDE DEF swapped
<1>4. /\ SubSeq(swapped, 1, m - 1) \in Seq(S)
      /\ Len(SubSeq(swapped, 1, m - 1)) = m - 1
      /\ \A k \in 1..(m - 1) : SubSeq(swapped, 1, m - 1)[k] = swapped[k]
  BY <1>1, <1>2
<1> QED BY <1>1, <1>3, <1>4 DEF SwapRemove, swapped

\* A step keeps Seen if it brings nobody new into it and takes nothing back.
LEMMA SeenKept ==
  ASSUME Seen,
         \A d \in Call : Sent(d)' => Sent(d),
         \A d \in Call : Sent(d)' => \A t \in owed'[d] :
           /\ t \in owed[d]
           /\ Met(t)' => Met(t)
           /\ Reached(d, t) => Reached(d, t)'
  PROVE  Seen'
BY DEF Seen

\* What a removal leaves was in the slice before.
LEMMA NothingNew ==
  ASSUME NEW S, NEW arr \in Seq(S), NEW i \in Nat, i < Len(arr)
  PROVE  /\ SwapRemove(i, arr) \in Seq(S)
         /\ \A k \in DOMAIN SwapRemove(i, arr) :
              \E j \in DOMAIN arr : SwapRemove(i, arr)[k] = arr[j]
<1> DEFINE left == SwapRemove(i, arr)
<1>1. Len(arr) \in Nat /\ i \in Int /\ arr # <<>>
  OBVIOUS
<1>2. /\ left \in Seq(S) /\ Len(left) = Len(arr) - 1
      /\ \A k \in 1..(Len(arr) - 1) : /\ k = i + 1 => left[k] = arr[Len(arr)]
                                      /\ k # i + 1 => left[k] = arr[k]
  BY <1>1, SwapRemoved
<1> HIDE DEF left
<1>3. ASSUME NEW k \in DOMAIN left PROVE \E j \in DOMAIN arr : left[k] = arr[j]
  <2>1. k \in 1..(Len(arr) - 1) /\ k \in DOMAIN arr /\ Len(arr) \in DOMAIN arr
    BY <1>1, <1>2
  <2>2. left[k] = arr[Len(arr)] \/ left[k] = arr[k]
    BY <1>2, <2>1
  <2> QED
    BY <2>1, <2>2
<1> QED
  BY <1>2, <1>3 DEF left

\* Removing the newest queue, at its own index, keeps the slice exact.
LEMMA NewestRemoved ==
  ASSUME NEW s \in Sub, queues \in Seq(Sub), ix \in [Sub -> Nat], DOMAIN at = Sub,
         Registered, ix[s] < Len(queues), queues[Len(queues)] = s,
         queues' = SwapRemove(ix[s], queues),
         at' = [at EXCEPT ![s] = "gone"], ix' = [ix EXCEPT ![s] = 0]
  PROVE  Registered'
<1>1. Len(queues) \in Nat /\ ix[s] \in Nat /\ ix[s] \in Int /\ queues # <<>>
  OBVIOUS
<1>2. Len(queues) \in DOMAIN queues /\ ix[s] = Len(queues) - 1
  BY <1>1 DEF Registered
<1>3. /\ queues' \in Seq(Sub) /\ Len(queues') = Len(queues) - 1
      /\ \A k \in 1..(Len(queues) - 1) :
           /\ k = ix[s] + 1 => queues'[k] = queues[Len(queues)]
           /\ k # ix[s] + 1 => queues'[k] = queues[k]
  <2> DEFINE left == SwapRemove(ix[s], queues)
  <2>1. /\ left \in Seq(Sub) /\ Len(left) = Len(queues) - 1
        /\ \A k \in 1..(Len(queues) - 1) : /\ k = ix[s] + 1 => left[k] = queues[Len(queues)]
                                           /\ k # ix[s] + 1 => left[k] = queues[k]
    BY <1>1, SwapRemoved
  <2>2. queues' = left
    OBVIOUS
  <2> HIDE DEF left
  <2> QED
    BY <2>1, <2>2
<1>4. \A k \in DOMAIN queues' : /\ k \in DOMAIN queues /\ queues'[k] = queues[k]
                                /\ queues[k] \in Sub /\ queues[k] # s
  <2> SUFFICES ASSUME NEW k \in DOMAIN queues'
               PROVE  k \in DOMAIN queues /\ queues'[k] = queues[k] /\ queues[k] \in Sub /\ queues[k] # s
    OBVIOUS
  <2>1. k \in 1..Len(queues) /\ k \in 1..(Len(queues) - 1) /\ k # Len(queues) /\ k # ix[s] + 1
    BY <1>1, <1>2, <1>3
  <2>2. ix[queues[k]] = k - 1
    BY <1>1, <2>1 DEF Registered
  <2>3. queues'[k] = queues[k]
    BY <1>1, <1>3, <2>1
  <2>4. k \in DOMAIN queues /\ queues[k] \in Sub
    BY <2>1
  <2>5. queues[k] # s
    BY <1>2, <2>1, <2>2
  <2> QED
    BY <2>3, <2>4, <2>5
<1>5. \A k \in DOMAIN queues' : ix'[queues'[k]] = k - 1 /\ at'[queues'[k]] \in {"open", "closing"}
  BY <1>4 DEF Registered
<1>6. ASSUME NEW t \in Sub, at'[t] \in {"open", "closing"}
      PROVE  \E k \in DOMAIN queues' : queues'[k] = t
  <2>1. t # s /\ at[t] \in {"open", "closing"}
    BY <1>6
  <2>2. PICK k \in DOMAIN queues : queues[k] = t
    BY <2>1 DEF Registered
  <2>3. k \in DOMAIN queues'
    BY <1>1, <1>3, <2>1, <2>2
  <2> QED
    BY <1>4, <2>2, <2>3
<1> QED
  BY <1>5, <1>6 DEF Registered

\* The invariant holds before the first start, with an empty table.
LEMMA InitIInv == Init => IInv
<1> USE SequencerAssumption
<1> SUFFICES ASSUME Init PROVE IInv
  OBVIOUS
<1>1. TypeOK
  <2>1. <<>> \in Seq(Row) /\ <<>> \in Seq(Sub) /\ 0 \in 0..MaxLife
    OBVIOUS
  <2> QED
    BY <2>1 DEF Init, TypeOK
<1>2. Numbers /\ Table /\ Free /\ Bus
  BY DEF Init, Numbers, Table, Free, InFlight, Unstored, StoreNeverConflicts, Bus, Registered
<1>3. Streams /\ Unique /\ Seen /\ History
  BY DEF Init, Streams, Unique, Seen, Sent, History
<1> QED
  BY <1>1, <1>2, <1>3 DEF IInv

\* Every step keeps the invariant, one step of the proof per action and one
\* below it per part of the invariant.
LEMMA NextIInv == IInv /\ [Next]_vars => IInv'
<1> SUFFICES ASSUME IInv, [Next]_vars PROVE IInv'
  OBVIOUS
<1> USE SequencerAssumption
<1> USE DEF IInv, TypeOK, Unstored, InFlight, Ended, Stored, callVars, busVars
<1>e. /\ \A i \in DOMAIN rows : rows[i].seq \in Nat /\ rows[i].evt \in Call
      /\ \A t \in Sub : \A i \in DOMAIN stream[t] :
           stream[t][i].seq \in Nat /\ stream[t][i].evt \in Call
  BY Entries
<1>1. CASE Start
  <2>1. TypeOK'
    <3>1. seq' \in Nat /\ life' \in 0..MaxLife
      BY <1>1, <1>e DEF Start
    <3> QED
      BY <1>1, <3>1 DEF Start
  <2>2. Numbers' /\ Table'
    BY <1>1 DEF Start, Numbers, Table
  <2>3. Free'
    BY <1>1 DEF Start, Numbers, Free, StoreNeverConflicts
  <2>4. Bus'
    BY <1>1 DEF Start, Bus, Registered
  <2>5. Streams' /\ Unique'
    <3>1. \A t \in Sub : stream[t] = <<>>
      BY <1>1 DEF Start, Bus, Streams
    <3> QED
      BY <1>1, <3>1 DEF Start, Streams, Unique
  <2>6. Seen'
    <3>1. UNCHANGED <<pc, rows, owed, todo, stream, lifo, queues>>
      BY <1>1 DEF Start
    <3>2. \A d \in Call : Sent(d)' => Sent(d)
      BY <3>1 DEF Sent
    <3>3. \A d \in Call, t \in Sub : (Met(t)' <=> Met(t)) /\ (Reached(d, t)' <=> Reached(d, t))
      BY <3>1 DEF Met, Reached
    <3>4. \A d \in Call : owed'[d] = owed[d] /\ owed[d] \subseteq Sub
      BY <3>1
    <3> QED
      BY <3>2, <3>3, <3>4, SeenKept
  <2>7. History'
    BY <1>1 DEF Start, History
  <2> QED
    BY <2>1, <2>2, <2>3, <2>4, <2>5, <2>6, <2>7
<1>2. CASE Crash
  <2>1. TypeOK'
    <3>1. <<>> \in Seq(Row) /\ <<>> \in Seq(Sub)
      OBVIOUS
    <3> QED
      BY <1>2, <3>1 DEF Crash
  <2>2. Numbers' /\ Table'
    BY <1>2, <1>e DEF Crash, Numbers, Table
  <2>3. Free'
    BY <1>2 DEF Crash, Free, StoreNeverConflicts
  <2>4. Bus'
    BY <1>2 DEF Crash, Bus, Registered
  <2>5. Streams' /\ Unique'
    BY <1>2 DEF Crash, Streams, Unique
  <2>6. Seen'
    BY <1>2 DEF Crash, Seen
  <2>7. History'
    BY <1>2 DEF Crash, History
  <2> QED
    BY <2>1, <2>2, <2>3, <2>4, <2>5, <2>6, <2>7
<1>3. ASSUME NEW s \in Sub, Subscribe(s) PROVE IInv'
  <2>0. /\ at[s] = "new" /\ at' = [at EXCEPT ![s] = "open"]
        /\ ix' = [ix EXCEPT ![s] = Len(queues)] /\ queues' = Append(queues, s)
        /\ UNCHANGED <<rows, life, up, seq, callVars, jam, lifo, stream, clean>>
    BY <1>3 DEF Subscribe, SubAt
  <2>q. /\ queues' \in Seq(Sub) /\ Len(queues) \in Nat
        /\ DOMAIN queues' = DOMAIN queues \cup {Len(queues) + 1}
        /\ \A i \in DOMAIN queues : queues'[i] = queues[i] /\ queues[i] \in Sub
        /\ queues'[Len(queues) + 1] = s
    BY <2>0, AppendFacts
  <2>1. TypeOK'
    BY <2>0, <2>q
  <2>2. Numbers' /\ Table' /\ Free'
    BY <2>0 DEF Numbers, Table, Free, StoreNeverConflicts
  <2>3. Bus'
    <3>1. up
      BY <1>3 DEF Subscribe
    <3>2. lifo => Registered'
      BY <2>0, <2>q DEF Bus, Registered
    <3> QED
      BY <2>0, <3>1, <3>2 DEF Bus
  <2>4. Streams' /\ Unique'
    BY <2>0 DEF Streams, Unique
  <2>5. Seen'
    <3>1. \A c \in Call : \A t \in owed[c] : t # s /\ t \in Sub
      BY <2>0 DEF Streams
    <3>2. \A t \in Sub : t # s /\ Met(t)' => Met(t)
      BY <2>0, <2>q DEF Met
    <3>3. \A d \in Call : owed'[d] = owed[d] /\ (Sent(d)' <=> Sent(d))
      BY <2>0 DEF Sent
    <3>4. \A d \in Call, t \in Sub : Reached(d, t)' <=> Reached(d, t)
      BY <2>0 DEF Reached
    <3> QED
      BY <3>1, <3>2, <3>3, <3>4, SeenKept
  <2>6. History'
    BY <2>0 DEF History
  <2> QED
    BY <2>1, <2>2, <2>3, <2>4, <2>5, <2>6
<1>4. ASSUME NEW s \in Sub, CloseQueue(s) PROVE IInv'
  <2>0. /\ at[s] = "open" /\ at' = [at EXCEPT ![s] = "closing"]
        /\ owed' = [c \in Call |-> owed[c] \ {s}]
        /\ stream' = [stream EXCEPT ![s] = <<>>]
        /\ UNCHANGED <<rows, life, up, seq, pc, n, todo, born, ix, queues, jam, lifo, clean>>
    BY <1>4 DEF CloseQueue, SubAt
  <2>1. TypeOK'
    <3>1. <<>> \in Seq(Row)
      OBVIOUS
    <3> QED
      BY <2>0, <3>1
  <2>2. Numbers' /\ Table' /\ Free'
    BY <2>0 DEF Numbers, Table, Free, StoreNeverConflicts
  <2>3. Bus'
    <3>1. \A i \in DOMAIN queues : queues[i] \in Sub
      OBVIOUS
    <3> QED
      BY <2>0, <3>1 DEF Bus, Registered
  <2>4. Streams'
    BY <2>0 DEF Streams
  <2>5. Unique'
    BY <2>0 DEF Unique
  <2>6. Seen'
    <3>1. \A c \in Call : \A t \in owed'[c] : t \in owed[c] /\ t # s /\ t \in Sub
      BY <2>0
    <3>2. \A t \in Sub : t # s => stream'[t] = stream[t]
      BY <2>0
    <3>3. \A d \in Call : Sent(d)' <=> Sent(d)
      BY <2>0 DEF Sent
    <3>4. \A d \in Call, t \in Sub : t # s => (Reached(d, t)' <=> Reached(d, t)) /\ (Met(t)' <=> Met(t))
      BY <2>0, <3>2 DEF Reached, Met
    <3> QED
      BY <3>1, <3>3, <3>4, SeenKept
  <2>7. History'
    BY <2>0 DEF History
  <2> QED
    BY <2>1, <2>2, <2>3, <2>4, <2>5, <2>6, <2>7
<1>5. ASSUME NEW s \in Sub, Remove(s) PROVE IInv'
  <2>0. /\ at[s] = "closing" /\ at' = [at EXCEPT ![s] = "gone"]
        /\ ix' = [ix EXCEPT ![s] = 0]
        /\ UNCHANGED <<rows, life, up, seq, callVars, stream, clean>>
    BY <1>5 DEF Remove, SubAt
  <2>q. \/ /\ ix[s] >= Len(queues) /\ jam' = TRUE /\ UNCHANGED <<queues, lifo>>
        \/ /\ ix[s] < Len(queues)
           /\ queues' = SwapRemove(ix[s], queues)
           /\ lifo' \in BOOLEAN /\ (lifo' <=> lifo /\ queues[Len(queues)] = s)
           /\ UNCHANGED jam
    <3>1. ix[s] \in Nat /\ Len(queues) \in Nat
      OBVIOUS
    <3>2. CASE ix[s] >= Len(queues)
      BY <1>5, <3>2 DEF Remove
    <3>3. CASE ~(ix[s] >= Len(queues))
      <4>1. ix[s] < Len(queues)
        BY <3>1, <3>3
      <4>2. /\ queues' = SwapRemove(ix[s], queues) /\ UNCHANGED jam
            /\ lifo' = (lifo /\ queues[Len(queues)] = s)
        BY <1>5, <3>3 DEF Remove
      <4> QED
        BY <4>1, <4>2
    <3> QED
      BY <3>2, <3>3
  <2>d. /\ Len(queues) \in Nat /\ ix[s] \in Nat
        /\ queues \in Seq(Sub) /\ ix \in [Sub -> Nat] /\ DOMAIN at = Sub
    OBVIOUS
  <2>1. TypeOK'
    <3>1. queues' \in Seq(Sub) /\ jam' \in BOOLEAN /\ lifo' \in BOOLEAN
      <4>1. CASE ix[s] >= Len(queues) /\ jam' = TRUE /\ UNCHANGED <<queues, lifo>>
        BY <4>1
      <4>2. CASE /\ ix[s] < Len(queues) /\ queues' = SwapRemove(ix[s], queues)
                 /\ lifo' \in BOOLEAN /\ UNCHANGED jam
        BY <2>d, <4>2, NothingNew
      <4> QED
        BY <2>q, <4>1, <4>2
    <3> QED
      BY <2>0, <3>1
  <2>2. Numbers' /\ Table' /\ Free'
    BY <2>0 DEF Numbers, Table, Free, StoreNeverConflicts
  <2>3. Bus'
    <3>1. up
      BY <2>0 DEF Bus
    <3>2. ASSUME lifo' PROVE Registered'
      <4>1. lifo /\ Registered
        BY <2>q, <3>2 DEF Bus
      <4>2. PICK i \in DOMAIN queues : queues[i] = s
        BY <2>0, <4>1 DEF Registered
      <4>3. ix[s] = i - 1 /\ ix[s] < Len(queues)
        BY <2>d, <4>1, <4>2 DEF Registered
      <4>4. ~(ix[s] >= Len(queues))
        BY <2>d, <4>3
      <4>5. queues[Len(queues)] = s /\ queues' = SwapRemove(ix[s], queues)
        BY <2>q, <3>2, <4>4
      <4> QED
        BY <2>0, <2>d, <4>1, <4>3, <4>5, NewestRemoved
    <3> QED
      BY <2>0, <3>1, <3>2 DEF Bus
  <2>4. Streams' /\ Unique'
    BY <2>0 DEF Streams, Unique
  <2>5. Seen'
    <3>1. \A t \in Sub : Met(t)' => Met(t)
      <4>1. CASE UNCHANGED <<queues, lifo>>
        BY <4>1 DEF Met
      <4>2. CASE ix[s] < Len(queues) /\ queues' = SwapRemove(ix[s], queues)
                 /\ (lifo' => lifo)
        <5>1. \A k \in DOMAIN queues' : \E i \in DOMAIN queues : queues'[k] = queues[i]
          BY <2>d, <4>2, NothingNew
        <5> QED
          BY <4>2, <5>1 DEF Met
      <4> QED
        BY <2>q, <4>1, <4>2
    <3>2. \A d \in Call : owed'[d] = owed[d] /\ owed[d] \subseteq Sub /\ (Sent(d)' <=> Sent(d))
      BY <2>0 DEF Sent
    <3>3. \A d \in Call, t \in Sub : Reached(d, t)' <=> Reached(d, t)
      BY <2>0 DEF Reached
    <3> QED
      BY <3>1, <3>2, <3>3, SeenKept
  <2>6. History'
    BY <2>0 DEF History
  <2> QED
    BY <2>1, <2>2, <2>3, <2>4, <2>5, <2>6
<1>6. ASSUME NEW c \in Call, Number(c) PROVE IInv'
  <2>0. /\ pc[c] = "new" /\ pc' = [pc EXCEPT ![c] = "numbered"]
        /\ seq' = seq + 1 /\ n' = [n EXCEPT ![c] = seq + 1]
        /\ born' = [born EXCEPT ![c] = Ended] /\ owed' = [owed EXCEPT ![c] = OpenSubs]
        /\ UNCHANGED <<rows, life, todo, busVars, stream, clean>> /\ up /\ up'
    BY <1>6 DEF Number
  <2>1. TypeOK'
    BY <1>6 DEF Number, OpenSubs
  <2>2. Numbers'
    BY <2>0 DEF Numbers
  <2>3. Table'
    BY <2>0, <1>e DEF Table
  <2>r. \A i \in DOMAIN rows : rows[i].evt # c
    BY <2>0 DEF Table
  <2>t. \A t \in Sub : \A i \in DOMAIN stream[t] : stream[t][i].evt # c
    BY <2>0 DEF Streams
  <2>4. Free'
    <3>1. clean => \A i \in DOMAIN rows : rows[i].seq <= seq + 1 /\ rows[i].seq # seq + 1
      BY <1>e DEF Free
    <3> QED
      BY <2>0, <3>1 DEF Free, StoreNeverConflicts
  <2>5. Bus'
    BY <2>0 DEF Bus, Registered
  <2>6. Streams'
    <3>1. \A t \in Sub : \A i \in DOMAIN stream[t] : stream[t][i].seq <= seq + 1
      BY <1>e DEF Streams
    <3>2. \A d \in Call : \A t \in owed'[d] : at[t] = "open"
      BY <2>0 DEF Streams, OpenSubs
    <3> QED
      BY <2>0, <1>e, <2>t, <3>1, <3>2 DEF Streams
  <2>7. Unique'
    <3>1. \A t \in Sub : \A i \in DOMAIN stream[t] : stream[t][i].seq # seq + 1
      BY <1>e DEF Streams
    <3> QED
      BY <2>0, <3>1 DEF Unique
  <2>8. Seen'
    <3>1. \A d \in Call : d # c => owed'[d] = owed[d] /\ (Sent(d)' <=> Sent(d))
      BY <2>0 DEF Sent
    <3>2. ~Sent(c)'
      BY <2>0, <2>r DEF Sent
    <3>3. \A d \in Call, t \in Sub : Reached(d, t)' <=> Reached(d, t)
      BY <2>0 DEF Reached
    <3>4. \A t \in Sub : Met(t)' <=> Met(t)
      BY <2>0 DEF Met
    <3>5. \A d \in Call : owed[d] \subseteq Sub
      OBVIOUS
    <3> QED
      BY <3>1, <3>2, <3>3, <3>4, <3>5, SeenKept
  <2>9. History'
    <3>1. \A b \in Call : b # c => born'[b] = born[b] /\ n'[b] = n[b] /\ pc'[b] = pc[b]
      BY <2>0
    <3>2. c \notin Ended /\ n'[c] = seq + 1 /\ born'[c] = Ended /\ pc'[c] = "numbered"
      BY <2>0
    <3>3. \A b \in Call : born'[b] \subseteq Ended' /\ (pc'[b] = "new" => born'[b] = {})
      BY <3>1, <3>2 DEF History
    <3>4. clean => \A i \in DOMAIN rows : rows[i].seq < seq + 1
      BY <1>e DEF Free
    <3>5. clean => \A b \in Call : \A i \in DOMAIN rows : rows[i].evt \in born'[b] => rows[i].seq < n'[b]
      <4> SUFFICES ASSUME clean, NEW b \in Call, NEW i \in DOMAIN rows, rows[i].evt \in born'[b]
                   PROVE  rows[i].seq < n'[b]
        OBVIOUS
      <4>1. CASE b = c
        BY <3>2, <3>4, <4>1
      <4>2. CASE b # c
        BY <3>1, <4>2 DEF History
      <4> QED
        BY <4>1, <4>2
    <3>6. \A t \in Sub : \A i, j \in DOMAIN stream[t] :
            i < j => stream[t][j].evt \notin born'[stream[t][i].evt]
      BY <1>e, <2>t, <3>1 DEF History
    <3> QED
      BY <2>0, <3>3, <3>5, <3>6 DEF History
  <2> QED
    BY <2>1, <2>2, <2>3, <2>4, <2>5, <2>6, <2>7, <2>8, <2>9
<1>7. ASSUME NEW c \in Call, Publish(c) PROVE IInv'
  <2>0. /\ pc[c] = "numbered" /\ pc' = [pc EXCEPT ![c] = "deliver"]
        /\ todo' = [todo EXCEPT ![c] = Queued]
        /\ UNCHANGED <<rows, life, up, seq, n, born, owed, busVars, stream, clean>>
    BY <1>7 DEF Publish
  <2>1. TypeOK'
    <3>1. Queued \subseteq Sub
      BY DEF Queued
    <3> QED
      BY <2>0, <3>1
  <2>2. Numbers' /\ Table' /\ Free'
    BY <2>0, <1>e DEF Numbers, Table, Free, StoreNeverConflicts
  <2>3. Bus'
    BY <2>0 DEF Bus, Registered
  <2>4. Streams'
    <3>1. \A t \in Sub : \A i \in DOMAIN stream[t] : stream[t][i].evt # c
      BY <2>0 DEF Streams
    <3> QED
      BY <2>0, <1>e, <3>1 DEF Streams
  <2>5. Unique'
    BY <2>0 DEF Unique
  <2>6. Seen'
    <3>1. \A t \in owed[c] : Met(t) => t \in Queued
      <4> SUFFICES ASSUME NEW t \in owed[c], Met(t) PROVE t \in Queued
        OBVIOUS
      <4>1. \E i \in DOMAIN queues : queues[i] = t
        BY DEF Met, Bus, Registered, Streams
      <4> QED
        BY <4>1 DEF Queued
    <3>2. \A t \in Sub : Met(t)' <=> Met(t)
      BY <2>0 DEF Met
    <3>3. \A t \in owed[c] : Met(t)' => Reached(c, t)'
      BY <2>0, <3>1, <3>2 DEF Reached
    <3>4. ASSUME NEW d \in Call, d # c, Sent(d)', NEW t \in owed[d], Met(t)'
          PROVE  Reached(d, t)'
      <4>1. Sent(d)
        BY <2>0, <3>4 DEF Sent
      <4>2. t \in Sub
        BY <3>4
      <4>3. Reached(d, t)
        BY <3>2, <3>4, <4>1, <4>2 DEF Seen
      <4> QED
        BY <2>0, <3>4, <4>3 DEF Reached
    <3>5. owed' = owed
      BY <2>0
    <3> QED
      BY <3>3, <3>4, <3>5 DEF Seen
  <2>7. History'
    BY <2>0 DEF History
  <2> QED
    BY <2>1, <2>2, <2>3, <2>4, <2>5, <2>6, <2>7
<1>8. ASSUME NEW c \in Call, Marshal(c) PROVE IInv'
  <2>0. /\ pc[c] = "deliver" /\ todo[c] = {} /\ pc' = [pc EXCEPT ![c] = "store"]
        /\ UNCHANGED <<rows, life, up, seq, n, todo, born, owed, busVars, stream, clean>>
    BY <1>8 DEF Marshal
  <2>1. TypeOK'
    BY <2>0
  <2>2. Numbers' /\ Table' /\ Free'
    BY <2>0, <1>e DEF Numbers, Table, Free, StoreNeverConflicts
  <2>3. Bus'
    BY <2>0 DEF Bus, Registered
  <2>4. Streams' /\ Unique'
    BY <2>0, <1>e DEF Streams, Unique
  <2>5. Seen'
    <3>1. \A d \in Call : Sent(d)' => Sent(d)
      BY <2>0 DEF Sent
    <3>2. \A d \in Call, t \in Sub : (Met(t)' <=> Met(t)) /\ (Reached(d, t)' <=> Reached(d, t))
      BY <2>0 DEF Met, Reached
    <3>3. \A d \in Call : owed'[d] = owed[d] /\ owed[d] \subseteq Sub
      BY <2>0
    <3> QED
      BY <3>1, <3>2, <3>3, SeenKept
  <2>6. History'
    BY <2>0 DEF History
  <2> QED
    BY <2>1, <2>2, <2>3, <2>4, <2>5, <2>6
<1>9. ASSUME NEW c \in Call, Store(c) PROVE IInv'
  <2> DEFINE row == [seq |-> n[c], evt |-> c]
  <2>0. /\ pc[c] = "store" /\ pc' = [pc EXCEPT ![c] = "stored"]
        /\ rows' = Append(rows, row)
        /\ UNCHANGED <<life, up, seq, n, todo, born, owed, busVars, stream, clean>>
    BY <1>9 DEF Store
  <2>r. /\ row \in Row /\ row.seq = n[c] /\ row.evt = c
        /\ rows' \in Seq(Row)
        /\ DOMAIN rows' = DOMAIN rows \cup {Len(rows) + 1}
        /\ \A i \in DOMAIN rows : rows'[i] = rows[i]
        /\ rows'[Len(rows) + 1] = row
    <3>1. row \in Row
      BY DEF Row
    <3> QED
      BY <2>0, <3>1, AppendFacts
  <2> HIDE DEF row
  <2>1. TypeOK'
    BY <2>0, <2>r
  <2>2. Numbers'
    BY <2>0 DEF Numbers
  <2>3. Table'
    BY <2>0, <2>r, <1>e DEF Table
  <2>4. Free'
    <3>1. clean' => \A i \in DOMAIN rows' : rows'[i].seq <= seq'
      BY <2>0, <2>r DEF Free, Numbers
    <3>2. \A d \in Unstored' : d \in Unstored /\ n'[d] # n[c]
      BY <2>0 DEF Numbers
    <3>3. StoreNeverConflicts'
      BY <2>0, <2>r, <3>2 DEF Free, StoreNeverConflicts
    <3> QED
      BY <3>1, <3>3 DEF Free
  <2>5. Bus'
    BY <2>0 DEF Bus, Registered
  <2>6. Streams' /\ Unique'
    BY <2>0, <1>e DEF Streams, Unique
  <2>7. Seen'
    <3>1. \A d \in Call, t \in Sub : (Met(t)' <=> Met(t)) /\ (Reached(d, t)' <=> Reached(d, t))
      BY <2>0 DEF Met, Reached
    <3>2. \A d \in Call : owed'[d] = owed[d] /\ owed[d] \subseteq Sub
      BY <2>0
    <3>3. \A d \in Call : Sent(d)' => Sent(d)
      BY <2>0, <2>r DEF Sent
    <3> QED
      BY <3>1, <3>2, <3>3, SeenKept
  <2>8. History'
    <3>1. c \notin Ended /\ Ended' = Ended
      BY <2>0
    <3>2. \A b \in Call : c \notin born[b]
      BY <3>1 DEF History
    <3>3. clean => \A b \in Call : \A i \in DOMAIN rows' : rows'[i].evt \in born[b] => rows'[i].seq < n[b]
      BY <2>r, <3>2 DEF History
    <3> QED
      BY <2>0, <3>1, <3>3 DEF History
  <2> QED
    BY <2>1, <2>2, <2>3, <2>4, <2>5, <2>6, <2>7, <2>8
<1>10. ASSUME NEW c \in Call, Return(c) PROVE IInv'
  <2>0. /\ pc[c] = "stored" /\ pc' = [pc EXCEPT ![c] = "ok"]
        /\ UNCHANGED <<rows, life, up, seq, n, todo, born, owed, busVars, stream, clean>>
    BY <1>10 DEF Return
  <2>1. TypeOK'
    BY <2>0
  <2>2. Numbers' /\ Table' /\ Free'
    BY <2>0, <1>e DEF Numbers, Table, Free, StoreNeverConflicts
  <2>3. Bus'
    BY <2>0 DEF Bus, Registered
  <2>4. Streams' /\ Unique'
    BY <2>0, <1>e DEF Streams, Unique
  <2>5. Seen'
    <3>1. \A d \in Call : Sent(d)' => Sent(d)
      BY <2>0 DEF Sent
    <3>2. \A d \in Call, t \in Sub : (Met(t)' <=> Met(t)) /\ (Reached(d, t)' <=> Reached(d, t))
      BY <2>0 DEF Met, Reached
    <3>3. \A d \in Call : owed'[d] = owed[d] /\ owed[d] \subseteq Sub
      BY <2>0
    <3> QED
      BY <3>1, <3>2, <3>3, SeenKept
  <2>6. History'
    BY <2>0 DEF History
  <2> QED
    BY <2>1, <2>2, <2>3, <2>4, <2>5, <2>6
<1>11. ASSUME NEW c \in Call, Fail(c) PROVE IInv'
  <2>0. /\ pc[c] \in {"deliver", "store", "stored"} /\ pc' = [pc EXCEPT ![c] = "failed"]
        /\ todo' = [todo EXCEPT ![c] = {}]
        /\ UNCHANGED <<rows, life, up, seq, n, born, owed, busVars, stream, clean>>
    BY <1>11 DEF Fail
  <2>1. TypeOK'
    BY <2>0
  <2>2. Numbers' /\ Table' /\ Free'
    BY <2>0, <1>e DEF Numbers, Table, Free, StoreNeverConflicts
  <2>3. Bus'
    BY <2>0 DEF Bus, Registered
  <2>4. Streams' /\ Unique'
    BY <2>0, <1>e DEF Streams, Unique
  <2>5. Seen'
    <3>1. \A i \in DOMAIN rows : rows[i].evt = c => todo[c] = {}
      BY <2>0 DEF Table, Streams
    <3>2. \A d \in Call : Sent(d)' => Sent(d) /\ todo'[d] = todo[d]
      BY <2>0, <3>1 DEF Sent
    <3>3. \A d \in Call, t \in Sub : Sent(d)' /\ Reached(d, t) => Reached(d, t)'
      BY <2>0, <3>2 DEF Reached
    <3>4. \A t \in Sub : Met(t)' <=> Met(t)
      BY <2>0 DEF Met
    <3>5. \A d \in Call : owed'[d] = owed[d] /\ owed[d] \subseteq Sub
      BY <2>0
    <3> QED
      BY <3>2, <3>3, <3>4, <3>5, SeenKept
  <2>6. History'
    BY <2>0 DEF History
  <2> QED
    BY <2>1, <2>2, <2>3, <2>4, <2>5, <2>6
<1>12. ASSUME NEW c \in Call, NEW s \in Sub, Deliver(c, s) PROVE IInv'
  <2> DEFINE row == [seq |-> n[c], evt |-> c]
  <2>0. /\ s \in todo[c] /\ at[s] = "open" /\ pc[c] = "deliver"
        /\ todo' = [todo EXCEPT ![c] = @ \ {s}]
        /\ stream' = [stream EXCEPT ![s] = Append(@, row)]
        /\ UNCHANGED <<rows, life, up, seq, pc, n, born, owed, busVars, clean>>
    BY <1>12 DEF Deliver, Streams
  <2>r. /\ row \in Row /\ row.seq = n[c] /\ row.evt = c
        /\ stream'[s] \in Seq(Row) /\ Len(stream[s]) \in Nat
        /\ DOMAIN stream'[s] = DOMAIN stream[s] \cup {Len(stream[s]) + 1}
        /\ \A i \in DOMAIN stream[s] : stream'[s][i] = stream[s][i] /\ i < Len(stream[s]) + 1
        /\ stream'[s][Len(stream[s]) + 1] = row
    <3>1. row \in Row /\ stream[s] \in Seq(Row)
      BY DEF Row
    <3>2. stream'[s] = Append(stream[s], row)
      BY <2>0
    <3>3. Len(stream[s]) \in Nat /\ \A i \in DOMAIN stream[s] : i < Len(stream[s]) + 1
      BY <3>1
    <3> QED
      BY <3>1, <3>2, <3>3, AppendFacts
  <2>t. \A t \in Sub : t # s => stream'[t] = stream[t]
    BY <2>0
  <2> HIDE DEF row
  <2>1. TypeOK'
    BY <2>0, <2>r
  <2>2. Numbers' /\ Table' /\ Free'
    BY <2>0 DEF Numbers, Table, Free, StoreNeverConflicts
  <2>3. Bus'
    BY <2>0 DEF Bus, Registered
  <2>5. \A i \in DOMAIN stream[s] : stream[s][i].evt # c /\ stream[s][i].seq # n[c]
    BY <2>0, <1>e DEF Streams, Unique
  <2>4. Streams'
    <3>1. \A d \in Call : todo'[d] \subseteq todo[d]
      BY <2>0
    <3>2. s \notin todo'[c] /\ n[c] <= seq
      BY <2>0 DEF Numbers
    <3>3. ASSUME NEW t \in Sub, NEW i \in DOMAIN stream'[t]
          PROVE  /\ stream'[t][i].seq = n[stream'[t][i].evt]
                 /\ stream'[t][i].seq <= seq
                 /\ pc[stream'[t][i].evt] \notin {"new", "numbered"}
                 /\ t \notin todo'[stream'[t][i].evt]
      <4>1. CASE t # s \/ i \in DOMAIN stream[s]
        <5>1. i \in DOMAIN stream[t] /\ stream'[t][i] = stream[t][i]
          BY <2>r, <2>t, <3>3, <4>1
        <5> QED
          BY <1>e, <3>1, <5>1 DEF Streams
      <4>2. CASE t = s /\ i = Len(stream[s]) + 1
        BY <2>0, <2>r, <3>2, <4>2
      <4> QED
        BY <2>r, <3>3, <4>1, <4>2
    <3>4. \A d \in Call : todo'[d] # {} => pc[d] = "deliver"
      BY <3>1 DEF Streams
    <3> QED
      BY <2>0, <2>t, <3>3, <3>4 DEF Streams
  <2>6. Unique'
    <3>1. ASSUME NEW t \in Sub, NEW i \in DOMAIN stream'[t], NEW d \in InFlight,
                 stream'[t][i].evt # d
          PROVE  stream'[t][i].seq # n[d]
      <4>1. CASE t # s
        BY <2>t, <3>1, <4>1 DEF Unique
      <4>2. CASE t = s /\ i \in DOMAIN stream[s]
        BY <2>r, <3>1, <4>2 DEF Unique
      <4>3. CASE t = s /\ i = Len(stream[s]) + 1
        BY <2>0, <2>r, <3>1, <4>3 DEF Numbers
      <4> QED
        BY <2>r, <3>1, <4>1, <4>2, <4>3
    <3>2. \A i, j \in DOMAIN stream'[s] :
            i # j => /\ stream'[s][i].seq # stream'[s][j].seq
                     /\ stream'[s][i].evt # stream'[s][j].evt
      <4> SUFFICES ASSUME NEW i \in DOMAIN stream'[s], NEW j \in DOMAIN stream'[s], i # j
                   PROVE  /\ stream'[s][i].seq # stream'[s][j].seq
                          /\ stream'[s][i].evt # stream'[s][j].evt
        OBVIOUS
      <4>1. CASE i \in DOMAIN stream[s] /\ j \in DOMAIN stream[s]
        BY <2>r, <4>1 DEF Unique
      <4>2. CASE i = Len(stream[s]) + 1 \/ j = Len(stream[s]) + 1
        BY <2>r, <2>5, <4>2
      <4> QED
        BY <2>r, <4>1, <4>2
    <3>3. ASSUME NEW t \in Sub, NEW i \in DOMAIN stream'[t], NEW j \in DOMAIN stream'[t], i # j
          PROVE  /\ stream'[t][i].seq # stream'[t][j].seq
                 /\ stream'[t][i].evt # stream'[t][j].evt
      <4>1. CASE t = s
        BY <3>2, <3>3, <4>1
      <4>2. CASE t # s
        BY <2>t, <3>3, <4>2 DEF Unique
      <4> QED
        BY <4>1, <4>2
    <3>4. InFlight' = InFlight /\ UNCHANGED n
      BY <2>0
    <3> QED
      BY <3>1, <3>3, <3>4 DEF Unique
  <2>7. Seen'
    <3>1. \A d \in Call, t \in Sub : Reached(d, t) => Reached(d, t)'
      <4> SUFFICES ASSUME NEW d \in Call, NEW t \in Sub, Reached(d, t) PROVE Reached(d, t)'
        OBVIOUS
      <4>1. CASE t \in todo[d] /\ ~(d = c /\ t = s)
        <5>1. t \in todo'[d]
          BY <2>0, <4>1
        <5> QED
          BY <5>1 DEF Reached
      <4>2. CASE d = c /\ t = s
        <5>1. \E i \in DOMAIN stream'[s] : stream'[s][i].evt = c
          BY <2>r
        <5> QED
          BY <4>2, <5>1 DEF Reached
      <4>3. CASE \E i \in DOMAIN stream[t] : stream[t][i].evt = d
        <5>1. \E i \in DOMAIN stream'[t] : stream'[t][i].evt = d
          BY <2>r, <2>t, <4>3
        <5> QED
          BY <5>1 DEF Reached
      <4> QED
        BY <4>1, <4>2, <4>3 DEF Reached
    <3>2. \A t \in Sub : Met(t)' <=> Met(t)
      BY <2>0 DEF Met
    <3>3. \A d \in Call : owed'[d] = owed[d] /\ owed[d] \subseteq Sub /\ (Sent(d)' <=> Sent(d))
      BY <2>0 DEF Sent
    <3> QED
      BY <3>1, <3>2, <3>3, SeenKept
  <2>8. History'
    <3>1. \A b \in Call : c \notin born[b]
      BY <2>0 DEF History
    <3>2. \A i, j \in DOMAIN stream'[s] :
            i < j => stream'[s][j].evt \notin born[stream'[s][i].evt]
      <4> SUFFICES ASSUME NEW i \in DOMAIN stream'[s], NEW j \in DOMAIN stream'[s], i < j
                   PROVE  stream'[s][j].evt \notin born[stream'[s][i].evt]
        OBVIOUS
      <4>1. i \in DOMAIN stream[s]
        <5>1. DOMAIN stream[s] = 1..Len(stream[s])
          OBVIOUS
        <5> QED
          BY <2>r, <5>1
      <4>2. CASE j \in DOMAIN stream[s]
        BY <2>r, <4>1, <4>2 DEF History
      <4>3. CASE j = Len(stream[s]) + 1
        BY <1>e, <2>r, <3>1, <4>1, <4>3
      <4> QED
        BY <2>r, <4>2, <4>3
    <3> QED
      BY <2>0, <2>t, <3>2 DEF History
  <2> QED
    BY <2>1, <2>2, <2>3, <2>4, <2>6, <2>7, <2>8
<1>13. CASE UNCHANGED vars
  <2>1. TypeOK' /\ Numbers' /\ Table' /\ Free' /\ Bus'
    BY <1>13 DEF vars, Numbers, Table, Free, StoreNeverConflicts, Bus, Registered
  <2>2. Streams' /\ Unique' /\ Seen' /\ History'
    BY <1>13 DEF vars, Streams, Unique, Seen, Sent, Met, Reached, History
  <2> QED
    BY <2>1, <2>2
<1> QED
  BY <1>1, <1>2, <1>3, <1>4, <1>5, <1>6, <1>7, <1>8, <1>9, <1>10, <1>11, <1>12,
     <1>13 DEF Next
-----------------------------------------------------------------------------
\* The invariant holds in every reachable state.
THEOREM Invariance == Spec => []IInv
<1>1. IInv /\ [Next]_vars => IInv'
  BY NextIInv
<1> QED
  BY InitIInv, <1>1, PTL DEF Spec

\* Every variable keeps its type.
THEOREM TypeCorrect == Spec => []TypeOK
<1>1. IInv => TypeOK
  BY DEF IInv
<1> QED
  BY Invariance, <1>1, PTL

\* store never meets its own number, unless New hid a read error.
THEOREM NumbersAreFree == Spec => []StoreNeverConflicts
<1>1. IInv => StoreNeverConflicts
  BY DEF IInv, Free
<1> QED
  BY Invariance, <1>1, PTL

\* No subscriber gets a number or an event twice.
THEOREM StreamsHaveNoDuplicates == Spec => []StreamsAreUnique
<1>1. IInv => StreamsAreUnique
  BY DEF IInv, Unique, StreamsAreUnique, OpenSubs
<1> QED
  BY Invariance, <1>1, PTL

\* Calls of Pub that do not overlap keep their order in the streams, and their
\* numbers in the table unless New hid a read error.
THEOREM OrderIsKept == Spec => []RealTimeOrder
<1>1. IInv => RealTimeOrder
  <2> SUFFICES ASSUME IInv PROVE RealTimeOrder
    OBVIOUS
  <2>1. \A i \in DOMAIN rows : rows[i].evt \in Call /\ rows[i].seq = n[rows[i].evt]
    BY Entries DEF IInv, Table
  <2> QED
    BY <2>1 DEF IInv, History, RealTimeOrder, OpenSubs
<1> QED
  BY Invariance, <1>1, PTL

\* A stored event was seen by the subscribers that stayed and whose queues were
\* left in the slice, as all are while removals happen newest first.
THEOREM StoredEventsWereSeen == Spec => []StoredWasSeen
<1>1. IInv => StoredWasSeen
  <2> SUFFICES ASSUME IInv, NEW k \in DOMAIN rows, NEW s \in owed[rows[k].evt],
                      lifo \/ s \in Queued
               PROVE  \E i \in DOMAIN stream[s] : stream[s][i].evt = rows[k].evt
    BY DEF StoredWasSeen
  <2>1. rows[k].evt \in Call /\ todo[rows[k].evt] = {}
    BY Entries DEF IInv, Table, Streams
  <2>2. Met(s)
    BY DEF Met, Queued
  <2>3. Reached(rows[k].evt, s)
    BY <2>1, <2>2 DEF IInv, Seen, Sent
  <2> QED
    BY <2>1, <2>3 DEF Reached
<1> QED
  BY Invariance, <1>1, PTL

\* A subscriber never gets a number that names another event in the table,
\* unless New hid a read error.
THEOREM NumbersDoNotReturn == Spec => NoStoredNumberAgain
<1>1. IInv /\ [Next]_vars => [GivenIsUnstored]_vars
  <2> SUFFICES ASSUME IInv, Next, NEW s \in Sub, clean,
                      Len(stream'[s]) > Len(stream[s])
               PROVE  ~Stored(stream'[s][Len(stream'[s])].seq)
    BY DEF GivenIsUnstored
  <2>1. stream[s] \in Seq(Row) /\ stream \in [Sub -> Seq(Row)]
    BY DEF IInv, TypeOK
  <2>2. stream'[s] # stream[s] /\ stream'[s] # <<>>
    BY <2>1
  <2>3. \E c \in Call : Deliver(c, s)
    BY <2>1, <2>2 DEF Next, Start, Crash, Subscribe, CloseQueue, Remove, Number, Publish,
       Marshal, Store, Return, Fail, Deliver
  <2>4. PICK c \in Call : Deliver(c, s)
    BY <2>3
  <2>5. /\ [seq |-> n[c], evt |-> c] \in Row
        /\ stream'[s] = Append(stream[s], [seq |-> n[c], evt |-> c])
    BY <2>4 DEF Deliver, IInv, TypeOK, Row
  <2>6. stream'[s][Len(stream'[s])].seq = n[c]
    BY <2>1, <2>5, AppendFacts
  <2>7. c \in Unstored
    BY <2>4 DEF Deliver, IInv, Streams, Unstored
  <2> QED
    BY <2>6, <2>7 DEF IInv, Free, StoreNeverConflicts
<1> QED
  BY Invariance, <1>1, PTL DEF Spec, NoStoredNumberAgain
=============================================================================
