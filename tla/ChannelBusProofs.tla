-------------------------- MODULE ChannelBusProofs --------------------------
(***************************************************************************)
(* Proofs about ChannelBus, for any subscriptions and publishers and any   *)
(* number of messages.  A publisher holds the read lock while it goes      *)
(* through the slice, so the slice it ranges over is the one that is       *)
(* there; everything else follows from where each queue stands in it.      *)
(***************************************************************************)
EXTENDS ChannelBus, SequenceTheorems, TLAPS

\* A publisher's record, as wide as TypeOK lets it be.
PubState == [pc : {"idle", "rlock", "send"}, snap : Seq(Slot), pos : Nat]

Types ==
  /\ TypeOK
  /\ pub \in [Pub -> PubState]

\* A publisher that sends ranges over the slice as it is; one that does not is at
\* its start.  bus.Close comes after them all.
Publishing ==
  \A p \in Pub :
    /\ pub[p].pc = "send" => pub[p].snap = queues
    /\ pub[p].pc # "send" => pub[p] = [Idle EXCEPT !.pc = pub[p].pc]
    /\ pub[p].pc # "idle" => sent[p] >= 1 /\ shut.pc = "idle"

\* A pump is started with its queue, and holds a message exactly while it hands
\* one on.
PumpsHold ==
  \A s \in Sub : /\ pump[s] = "send" <=> held[s] # NoMsg
                 /\ cons[s] \in {"new", "lock"} => pump[s] = "none"

\* Consumers that have a queue, and those that have begun to close it.
Holders == {"range", "close", "closePub", "remove", "removeLock"}

\* The channels a consumer has closed by where it is; remove wants a queue.
Closing ==
  \A s \in Sub :
    /\ cons[s] \in {"closePub", "remove", "removeLock", "stuck", "gone"} => s \in doneCh
    /\ cons[s] = "removeLock" => ix[s] >= 0
    /\ shut.pc = "idle" /\ s \in doneCh => cons[s] \in {"closePub", "remove", "removeLock", "stuck", "gone"}
    /\ shut.pc = "idle" /\ s \in pubCh => cons[s] \in {"remove", "removeLock", "stuck", "gone"}

\* Nobody stands in the slice twice.
Distinct ==
  /\ \A i, j \in DOMAIN queues : i # j => queues[i].sub # queues[j].sub
  /\ \A i \in DOMAIN queues : cons[queues[i].sub] \notin {"new", "lock"}

-----------------------------------------------------------------------------
\* array.Remove puts the last element where the removed one was.
LEMMA SwapRemoved ==
  ASSUME NEW S, NEW arr \in Seq(S), NEW i \in Int, i < Len(arr), arr # <<>>
  PROVE  /\ SwapRemove(i, arr) \in Seq(S)
         /\ Len(SwapRemove(i, arr)) = Len(arr) - 1
         /\ DOMAIN SwapRemove(i, arr) = 1..(Len(arr) - 1)
         /\ \A k \in 1..(Len(arr) - 1) :
              SwapRemove(i, arr)[k] = IF k = i + 1 THEN arr[Len(arr)] ELSE arr[k]
<1> DEFINE n == Len(arr)
           swapped == [arr EXCEPT ![i + 1] = arr[n]]
<1>1. n \in Nat /\ n >= 1 /\ arr[n] \in S
  BY EmptySeq
<1>2. swapped \in Seq(S) /\ Len(swapped) = n
  <2>1. CASE i + 1 \in 1..n
    BY <1>1, <2>1, ExceptSeq
  <2>2. CASE i + 1 \notin 1..n
    <3>1. arr \in [1..n -> S]
      BY <1>1
    <3>2. swapped \in [1..n -> S]
      BY <2>2, <3>1
    <3>3. \A k \in 1..n : swapped[k] = arr[k]
      BY <2>2, <3>1
    <3>4. swapped = arr
      BY <3>1, <3>2, <3>3
    <3> QED BY <1>1, <3>4
  <2> QED BY <2>1, <2>2
<1>3. \A k \in 1..n : swapped[k] = IF k = i + 1 THEN arr[n] ELSE arr[k]
  OBVIOUS
<1> HIDE DEF swapped
<1>4. /\ SubSeq(swapped, 1, n - 1) \in Seq(S)
      /\ Len(SubSeq(swapped, 1, n - 1)) = n - 1
      /\ \A k \in 1..(n - 1) : SubSeq(swapped, 1, n - 1)[k] = swapped[k]
  BY <1>1, <1>2
<1> QED BY <1>1, <1>3, <1>4 DEF SwapRemove, swapped

\* A bus without subscribers satisfies the base of the invariant.
LEMMA InitTypes == Init => Types /\ Publishing /\ PumpsHold /\ Closing /\ Distinct
<1> SUFFICES ASSUME Init PROVE Types /\ Publishing /\ PumpsHold /\ Closing /\ Distinct
  OBVIOUS
<1>1. \A p \in Pub : pub[p] = Idle
  BY DEF Init
<1>2. Idle \in [pc : {"idle", "rlock", "send"}, snap : Seq(Slot), pos : Nat]
      /\ Idle.pc = "idle" /\ Idle.snap = <<>> /\ Idle.pos = 1 /\ Idle = [Idle EXCEPT !.pc = "idle"]
  BY DEF Idle
<1>3. TypeOK
  <2>1. \A p \in Pub : /\ pub[p].pc \in {"idle", "rlock", "send"}
                      /\ pub[p].snap \in Seq(Slot)
                      /\ pub[p].pos \in 1..(Len(pub[p].snap) + 1)
    BY <1>1, <1>2
  <2> QED BY <2>1, BusAssumption DEF Init, TypeOK, NoMsg, Panics
<1>4. Types
  BY <1>2, <1>3 DEF Init, Types, PubState
<1>5. Publishing
  BY <1>1, <1>2 DEF Publishing
<1>6. PumpsHold /\ Closing /\ Distinct
  BY DEF Init, PumpsHold, Closing, Distinct
<1> QED BY <1>4, <1>5, <1>6

Base == Types /\ Publishing /\ PumpsHold /\ Closing /\ Distinct

\* A publisher that stands at a queue has a message, and the queue a subscriber.
LEMMA Offered ==
  ASSUME Types, Publishing, NEW p \in Pub, Sending(p)
  PROVE  /\ pub[p].pos \in DOMAIN queues /\ Target(p) = queues[pub[p].pos].sub
         /\ Target(p) \in Sub
         /\ <<p, sent[p]>> \in Msg /\ sent[p] \in 1..MaxMsg
<1>1. pub[p].pc = "send" /\ pub[p].snap = queues /\ sent[p] >= 1
  BY DEF Sending, Publishing
<1>2. pub[p].pos \in 1..Len(queues)
  BY <1>1 DEF Sending, Types, TypeOK
<1>3. queues \in Seq(Slot) /\ sent[p] \in 0..MaxMsg /\ MaxMsg \in Nat
  BY BusAssumption DEF Types, TypeOK
<1>4. queues[pub[p].pos] \in Slot
  BY <1>2, <1>3
<1> QED BY <1>1, <1>2, <1>3, <1>4 DEF Target, Msg, Slot

\* A publisher moves on within its types.
LEMMA PubMoves ==
  ASSUME Types, NEW p \in Pub, NEW to \in PubState, to.pos \in 1..(Len(to.snap) + 1),
         pub' = [pub EXCEPT ![p] = to]
  PROVE  /\ pub' \in [Pub -> PubState]
         /\ \A q \in Pub : /\ pub'[q].pc \in {"idle", "rlock", "send"}
                         /\ pub'[q].snap \in Seq(Slot)
                         /\ pub'[q].pos \in 1..(Len(pub'[q].snap) + 1)
<1>1. to.pc \in {"idle", "rlock", "send"} /\ to.snap \in Seq(Slot)
  BY DEF PubState
<1> QED BY <1>1 DEF Types, TypeOK

\* Every step keeps the types.
LEMMA NextTypes == Base /\ [Next]_vars => Types'
<1> SUFFICES ASSUME Base, [Next]_vars PROVE Types'
  OBVIOUS
<1>0. Types /\ Publishing /\ TypeOK
  BY DEF Base, Types
<1> USE DEF ConsAt, PumpAt, subVars, pubVars
<1>1. ASSUME NEW s \in Sub, SubscribeLock(s) PROVE Types'
  BY <1>0, <1>1 DEF SubscribeLock, Types, TypeOK
<1>2. ASSUME NEW s \in Sub, EndContext(s) PROVE Types'
  BY <1>0, <1>2 DEF EndContext, Types, TypeOK
<1>3. ASSUME NEW s \in Sub, PumpExit(s) PROVE Types'
  BY <1>0, <1>3 DEF PumpExit, Types, TypeOK
<1>4. ASSUME NEW s \in Sub, Subscriber(s) PROVE Types'
  <2>1. queues' \in Seq(Slot) /\ ix' \in [Sub -> Int]
    <3>1. Len(queues) \in Nat /\ [sub |-> s, ix |-> Len(queues)] \in Slot
      BY <1>0 DEF TypeOK, Slot
    <3> QED BY <1>0, <1>4, <3>1 DEF Subscriber, TypeOK
  <2> QED BY <1>0, <1>4, <2>1 DEF Subscriber, Types, TypeOK
<1>5. ASSUME NEW s \in Sub, Deliver(s) PROVE Types'
  <2>1. held[s] \in Msg
    BY <1>5 DEF Deliver, Base, Types, TypeOK, PumpsHold
  <2> QED BY <1>0, <1>5, <2>1 DEF Deliver, Types, TypeOK
<1>6. ASSUME NEW s \in Sub, Leave(s) PROVE Types'
  BY <1>0, <1>6 DEF Leave, Types, TypeOK
<1>7. ASSUME NEW s \in Sub, CloseDone(s) PROVE Types'
  BY <1>0, <1>7 DEF CloseDone, Types, TypeOK
<1>8. ASSUME NEW s \in Sub, ClosePub(s) PROVE Types'
  BY <1>0, <1>8 DEF ClosePub, Types, TypeOK
<1>9. ASSUME NEW s \in Sub, RemoveLock(s) PROVE Types'
  BY <1>0, <1>9 DEF RemoveLock, Types, TypeOK
<1>10. ASSUME NEW s \in Sub, RemoveSelf(s) PROVE Types'
  <2>1. CASE ix[s] >= Len(queues)
    BY <1>0, <1>10, <2>1 DEF RemoveSelf, Types, TypeOK
  <2>2. CASE ~(ix[s] >= Len(queues))
    <3>1. ix[s] \in Int /\ ix[s] >= 0 /\ ix[s] < Len(queues) /\ queues \in Seq(Slot) /\ queues # <<>>
      BY <1>0, <1>10, <2>2 DEF RemoveSelf, Base, Closing, TypeOK
    <3>2. queues' \in Seq(Slot)
      BY <1>10, <2>2, <3>1, SwapRemoved DEF RemoveSelf
    <3>3. lifo' \in BOOLEAN
      BY <1>10, <2>2 DEF RemoveSelf
    <3>4. cons' \in [Sub -> {"new", "lock", "range", "close", "closePub", "remove", "removeLock", "stuck", "gone"}]
          /\ ix' \in [Sub -> Int] /\ waiting' \in SUBSET Sub
      BY <1>0, <1>10, <2>2 DEF RemoveSelf, TypeOK
    <3> QED BY <1>0, <1>10, <3>2, <3>3, <3>4 DEF RemoveSelf, Types, TypeOK
  <2> QED BY <2>1, <2>2
<1>11. ASSUME NEW p \in Pub, Publish(p) PROVE Types'
  <2>1. PICK to : to = [pub[p] EXCEPT !.pc = "rlock"] /\ pub' = [pub EXCEPT ![p] = to]
    BY <1>11 DEF Publish
  <2>2. pub[p] \in PubState /\ pub[p].pos \in 1..(Len(pub[p].snap) + 1)
    BY <1>0 DEF Types, TypeOK
  <2>3. to \in PubState /\ to.pos \in 1..(Len(to.snap) + 1)
    BY <2>1, <2>2 DEF PubState
  <2>4. sent' \in [Pub -> 0..MaxMsg]
    BY <1>0, <1>11, BusAssumption DEF Publish, TypeOK
  <2> QED BY <1>0, <1>11, <2>1, <2>3, <2>4, PubMoves DEF Publish, Types, TypeOK
<1>12. ASSUME NEW p \in Pub, PubLock(p) PROVE Types'
  <2>1. PICK to : to = [pub[p] EXCEPT !.pc = "send", !.snap = queues] /\ pub' = [pub EXCEPT ![p] = to]
    BY <1>12 DEF PubLock
  <2>2. pub[p] \in PubState /\ pub[p].pos = 1 /\ queues \in Seq(Slot) /\ Len(queues) \in Nat
    <3>1. pub[p] \in PubState /\ queues \in Seq(Slot)
      BY <1>0 DEF Types, TypeOK
    <3>2. pub[p] = [Idle EXCEPT !.pc = "rlock"]
      BY <1>0, <1>12 DEF Publishing, PubLock
    <3> QED BY <3>1, <3>2 DEF Idle
  <2>3. to.pc = "send" /\ to.snap = queues /\ to.pos = 1 /\ to \in PubState
    BY <2>1, <2>2 DEF PubState
  <2>4. to.pos \in 1..(Len(to.snap) + 1)
    BY <2>2, <2>3
  <2>5. UNCHANGED <<queues, waiting, subVars, sent, accepted, lifo, shut, panic>>
    BY <1>12 DEF PubLock
  <2> QED BY <1>0, <2>1, <2>3, <2>4, <2>5, PubMoves DEF Types, TypeOK, subVars
<1>13. ASSUME NEW p \in Pub, PubOffer(p) PROVE Types'
  <2>1. Target(p) \in Sub /\ <<p, sent[p]>> \in Msg
    BY <1>0, <1>13, Offered DEF PubOffer
  <2>2. held' \in [Sub -> Msg \cup {NoMsg}] /\ pump' \in [Sub -> {"none", "select", "send", "exited"}]
    BY <1>0, <1>13, <2>1 DEF PubOffer, TypeOK
  <2>3. PICK to : to = [pub[p] EXCEPT !.pos = @ + 1] /\ pub' = [pub EXCEPT ![p] = to]
    BY <1>13 DEF PubOffer
  <2>4. pub[p] \in PubState /\ pub[p].pos \in 1..Len(pub[p].snap)
    BY <1>0, <1>13 DEF Types, TypeOK, PubOffer, Sending, PubState
  <2>5. to \in PubState /\ to.pos \in 1..(Len(to.snap) + 1)
    BY <2>3, <2>4 DEF PubState
  <2>6. UNCHANGED <<queues, waiting, ix, cons, ended, doneCh, pubCh, received, since,
                    sent, accepted, lifo, shut, panic>>
    BY <1>13 DEF PubOffer
  <2> QED BY <1>0, <2>2, <2>3, <2>5, <2>6, PubMoves DEF Types, TypeOK
<1>14. ASSUME NEW p \in Pub, PubPanic(p) PROVE Types'
  BY <1>0, <1>14 DEF PubPanic, Panic, Panics, Types, TypeOK
<1>15. ASSUME NEW p \in Pub, PubReturn(p) PROVE Types'
  <2>1. <<p, sent[p]>> \in Msg
    <3>1. pub[p].pc # "idle"
      BY <1>15 DEF PubReturn
    <3>2. sent[p] >= 1 /\ sent[p] \in 0..MaxMsg /\ MaxMsg \in Nat
      BY <1>0, <3>1, BusAssumption DEF Publishing, TypeOK
    <3> QED BY <3>2 DEF Msg
  <2>2. Idle \in PubState /\ Idle.pos \in 1..(Len(Idle.snap) + 1)
    BY DEF Idle, PubState
  <2> QED BY <1>0, <1>15, <2>1, <2>2, PubMoves DEF PubReturn, Types, TypeOK
<1>16. ASSUME NEW p \in Pub, PubCancelled(p) PROVE Types'
  <2>1. Idle \in PubState /\ Idle.pos \in 1..(Len(Idle.snap) + 1)
    BY DEF Idle, PubState
  <2> QED BY <1>0, <1>16, <2>1, PubMoves DEF PubCancelled, Types, TypeOK
<1>17. CASE ShutStart
  <2>1. Len(queues) \in Nat
    BY <1>0 DEF TypeOK
  <2>2. shut' \in [pc : {"idle", "loop", "closed", "failed"}, n : Nat, i : Nat] /\ lifo' \in BOOLEAN
    BY <1>17, <2>1 DEF ShutStart
  <2> QED BY <1>0, <1>17, <2>2 DEF ShutStart, Types, TypeOK
<1>18. CASE ShutQueue
  <2> DEFINE slot == queues[shut.i + 1]
             left == SwapRemove(slot.ix, queues)
  <2>1. shut' \in [pc : {"idle", "loop", "closed", "failed"}, n : Nat, i : Nat]
    <3>1. shut' = [shut EXCEPT !.i = @ + 1]
      BY <1>18 DEF ShutQueue
    <3>2. shut \in [pc : {"idle", "loop", "closed", "failed"}, n : Nat, i : Nat]
      BY <1>0 DEF TypeOK
    <3> QED BY <3>1, <3>2
  <2>2. panic' \in Panics
    <3>1. panic' \in {panic, "index out of range", "close of closed channel"}
      BY <1>18 DEF ShutQueue, Panic
    <3> QED BY <1>0, <3>1 DEF TypeOK, Panics
  <2>3. doneCh' \in SUBSET Sub /\ pubCh' \in SUBSET Sub /\ queues' \in Seq(Slot)
    <3>1. CASE shut.i >= Len(queues)
      BY <1>0, <1>18, <3>1 DEF ShutQueue, TypeOK
    <3>2. CASE ~(shut.i >= Len(queues))
      <4>1. slot \in Slot /\ queues # <<>>
        BY <1>0, <3>2 DEF TypeOK
      <4>2. slot.sub \in Sub /\ slot.ix \in Int
        BY <4>1 DEF Slot
      <4>3. CASE slot.ix < 0 \/ slot.ix >= Len(queues) \/ slot.sub \in doneCh
        BY <1>0, <1>18, <3>2, <4>2, <4>3 DEF ShutQueue, TypeOK
      <4>4. CASE ~(slot.ix < 0 \/ slot.ix >= Len(queues) \/ slot.sub \in doneCh)
        <5>1. queues \in Seq(Slot) /\ slot.ix < Len(queues)
          BY <1>0, <4>2, <4>4 DEF TypeOK
        <5>2. left \in Seq(Slot)
          BY <4>1, <4>2, <5>1, SwapRemoved
        <5>3. queues' = [k \in DOMAIN left |-> IF k = shut.i + 1 THEN [left[k] EXCEPT !.ix = -1] ELSE left[k]]
              /\ doneCh' = doneCh \cup {slot.sub} /\ pubCh' = pubCh \cup {slot.sub}
          BY <1>18, <3>2, <4>4 DEF ShutQueue
        <5> HIDE DEF left
        <5>4. \A k \in DOMAIN left : queues'[k] \in Slot
          <6>1. \A x \in Slot : [x EXCEPT !.ix = -1] \in Slot
            BY DEF Slot
          <6>2. \A k \in DOMAIN left : left[k] \in Slot
            BY <5>2
          <6> QED BY <5>3, <6>1, <6>2
        <5>5. queues' \in [1..Len(left) -> Slot] /\ Len(left) \in Nat
          BY <5>2, <5>3, <5>4
        <5>6. queues' \in Seq(Slot)
          BY <5>5
        <5> QED BY <1>0, <4>2, <5>3, <5>6 DEF TypeOK
      <4> QED BY <4>3, <4>4
    <3> QED BY <3>1, <3>2
  <2>4. UNCHANGED <<waiting, ix, cons, pump, held, ended, received, since, pubVars, lifo>>
    BY <1>18 DEF ShutQueue
  <2> QED BY <1>0, <2>1, <2>2, <2>3, <2>4 DEF Types, TypeOK
<1>19. CASE ShutEnd
  BY <1>0, <1>19 DEF ShutEnd, Types, TypeOK
<1>20. CASE UNCHANGED vars
  BY <1>0, <1>20 DEF vars, Types, TypeOK
<1> QED BY <1>1, <1>2, <1>3, <1>4, <1>5, <1>6, <1>7, <1>8, <1>9, <1>10, <1>11, <1>12, <1>13, <1>14,
           <1>15, <1>16, <1>17, <1>18, <1>19, <1>20
        DEF Next, Serving, Shutdown, Pump, Consumer, Publisher

\* The slice changes under the write lock only, or once nobody publishes.
LEMMA NextPublishing == Base /\ [Next]_vars => Publishing'
<1> SUFFICES ASSUME Base, [Next]_vars PROVE Publishing'
  OBVIOUS
<1>0. Types /\ Publishing
  BY DEF Base
<1> USE DEF ConsAt, PumpAt, subVars, pubVars, PubState
<1>1. ASSUME UNCHANGED <<queues, pub, sent>>, shut'.pc = "idle" \/ \A p \in Pub : pub[p].pc = "idle"
      PROVE  Publishing'
  BY <1>0, <1>1 DEF Publishing
<1>2. ASSUME UNCHANGED <<pub, sent>>, shut'.pc = shut.pc, \A p \in Pub : pub[p].pc # "send"
      PROVE  Publishing'
  BY <1>0, <1>2 DEF Publishing
<1>3. ASSUME UNCHANGED <<queues, pub, sent, shut>> PROVE Publishing'
  BY <1>0, <1>3 DEF Publishing
<1>4. ASSUME NEW s \in Sub, Subscriber(s) \/ RemoveSelf(s) PROVE Publishing'
  BY <1>2, <1>4 DEF Subscriber, RemoveSelf, CanLock, Readers
<1>5. ASSUME NEW s \in Sub, SubscribeLock(s) \/ EndContext(s) \/ PumpExit(s) \/ Deliver(s) \/ Leave(s)
                \/ CloseDone(s) \/ ClosePub(s) \/ RemoveLock(s)
      PROVE  Publishing'
  BY <1>3, <1>5 DEF SubscribeLock, EndContext, PumpExit, Deliver, Leave, CloseDone, ClosePub, RemoveLock
<1>6. ASSUME NEW p \in Pub, Publish(p) PROVE Publishing'
  <2>1. PICK to : to = [pub[p] EXCEPT !.pc = "rlock"] /\ pub' = [pub EXCEPT ![p] = to]
    BY <1>6 DEF Publish
  <2>2. pub[p] \in PubState /\ pub[p] = [Idle EXCEPT !.pc = "idle"] /\ sent[p] \in Nat
    BY <1>0, <1>6, BusAssumption DEF Types, TypeOK, Publish, Publishing
  <2>3. to = [Idle EXCEPT !.pc = "rlock"] /\ to.pc = "rlock"
    BY <2>1, <2>2 DEF Idle
  <2>4. sent' = [sent EXCEPT ![p] = @ + 1] /\ UNCHANGED <<queues, shut>> /\ shut.pc = "idle"
    BY <1>6 DEF Publish
  <2>5. ASSUME NEW q \in Pub, q # p
        PROVE  pub'[q] = pub[q] /\ sent'[q] = sent[q]
    BY <1>0, <2>1, <2>4, <2>5 DEF Types, TypeOK
  <2>6. pub'[p] = to /\ sent'[p] >= 1
    BY <1>0, <2>1, <2>2, <2>4 DEF Types, TypeOK
  <2>7. ASSUME NEW q \in Pub
        PROVE  /\ pub'[q].pc = "send" => pub'[q].snap = queues'
               /\ pub'[q].pc # "send" => pub'[q] = [Idle EXCEPT !.pc = pub'[q].pc]
               /\ pub'[q].pc # "idle" => sent'[q] >= 1 /\ shut'.pc = "idle"
    <3>1. CASE q = p
      BY <2>3, <2>4, <2>6, <3>1
    <3>2. CASE q # p
      BY <1>0, <2>4, <2>5, <3>2 DEF Publishing
    <3> QED BY <3>1, <3>2
  <2> QED BY <2>7 DEF Publishing
<1>7. ASSUME NEW p \in Pub, PubLock(p) PROVE Publishing'
  <2>1. PICK to : to = [pub[p] EXCEPT !.pc = "send", !.snap = queues] /\ pub' = [pub EXCEPT ![p] = to]
    BY <1>7 DEF PubLock
  <2>2. pub[p] \in PubState /\ pub[p].pc = "rlock" /\ UNCHANGED <<queues, sent, shut>>
    BY <1>0, <1>7 DEF Types, PubLock
  <2>3. to.pc = "send" /\ to.snap = queues
    BY <2>1, <2>2
  <2>4. pub'[p] = to /\ \A q \in Pub : q # p => pub'[q] = pub[q]
    BY <1>0, <2>1 DEF Types
  <2>5. ASSUME NEW q \in Pub
        PROVE  /\ pub'[q].pc = "send" => pub'[q].snap = queues'
               /\ pub'[q].pc # "send" => pub'[q] = [Idle EXCEPT !.pc = pub'[q].pc]
               /\ pub'[q].pc # "idle" => sent'[q] >= 1 /\ shut'.pc = "idle"
    <3>1. CASE q = p
      BY <1>0, <2>2, <2>3, <2>4, <3>1 DEF Publishing
    <3>2. CASE q # p
      BY <1>0, <2>2, <2>4, <3>2 DEF Publishing
    <3> QED BY <3>1, <3>2
  <2> QED BY <2>5 DEF Publishing
<1>8. ASSUME NEW p \in Pub, PubOffer(p) PROVE Publishing'
  <2>1. PICK to : to = [pub[p] EXCEPT !.pos = @ + 1] /\ pub' = [pub EXCEPT ![p] = to]
    BY <1>8 DEF PubOffer
  <2>2. pub[p] \in PubState /\ pub[p].pc = "send" /\ UNCHANGED <<queues, sent, shut>>
    BY <1>0, <1>8 DEF Types, PubOffer, Sending
  <2>3. to.pc = "send" /\ to.snap = pub[p].snap
    BY <2>1, <2>2
  <2>4. pub'[p] = to /\ \A q \in Pub : q # p => pub'[q] = pub[q]
    BY <1>0, <2>1 DEF Types
  <2>5. ASSUME NEW q \in Pub
        PROVE  /\ pub'[q].pc = "send" => pub'[q].snap = queues'
               /\ pub'[q].pc # "send" => pub'[q] = [Idle EXCEPT !.pc = pub'[q].pc]
               /\ pub'[q].pc # "idle" => sent'[q] >= 1 /\ shut'.pc = "idle"
    <3>1. CASE q = p
      BY <1>0, <2>2, <2>3, <2>4, <3>1 DEF Publishing
    <3>2. CASE q # p
      BY <1>0, <2>2, <2>4, <3>2 DEF Publishing
    <3> QED BY <3>1, <3>2
  <2> QED BY <2>5 DEF Publishing
<1>9. ASSUME NEW p \in Pub, PubReturn(p) \/ PubCancelled(p) PROVE Publishing'
  <2>1. pub' = [pub EXCEPT ![p] = Idle] /\ UNCHANGED <<queues, sent, shut>>
    BY <1>9 DEF PubReturn, PubCancelled
  <2>2. Idle.pc = "idle" /\ Idle = [Idle EXCEPT !.pc = "idle"]
    BY DEF Idle
  <2>3. pub'[p] = Idle /\ \A q \in Pub : q # p => pub'[q] = pub[q]
    BY <1>0, <2>1 DEF Types
  <2> QED BY <1>0, <2>1, <2>2, <2>3 DEF Publishing
<1>10. ASSUME NEW p \in Pub, PubPanic(p) PROVE Publishing'
  BY <1>3, <1>10 DEF PubPanic
<1>11. CASE ShutStart
  BY <1>1, <1>11 DEF ShutStart
<1>12. CASE ShutQueue
  <2>1. shut'.pc = shut.pc /\ shut.pc = "loop" /\ UNCHANGED <<pub, sent>>
    BY <1>0, <1>12 DEF ShutQueue, Types, TypeOK
  <2> QED BY <1>0, <1>2, <2>1 DEF Publishing
<1>13. CASE ShutEnd
  <2>1. shut.pc = "loop" /\ UNCHANGED <<queues, pub, sent>>
    BY <1>13 DEF ShutEnd
  <2> QED BY <1>0, <1>1, <2>1 DEF Publishing
<1>14. CASE UNCHANGED vars
  BY <1>3, <1>14 DEF vars
<1> QED BY <1>4, <1>5, <1>6, <1>7, <1>8, <1>9, <1>10, <1>11, <1>12, <1>13, <1>14
        DEF Next, Serving, Shutdown, Pump, Consumer, Publisher

\* Every step keeps what is said of the pumps.
LEMMA NextPumps == Base /\ [Next]_vars => PumpsHold'
<1> SUFFICES ASSUME Base, [Next]_vars PROVE PumpsHold'
  OBVIOUS
<1>0. Types /\ PumpsHold
  BY DEF Base
<1> USE DEF ConsAt, PumpAt, subVars, pubVars
<1>1. ASSUME UNCHANGED <<pump, held>>,
             \A s \in Sub : cons'[s] \in {"new", "lock"} => cons[s] \in {"new", "lock"}
      PROVE  PumpsHold'
  BY <1>0, <1>1 DEF PumpsHold
<1>2. ASSUME NEW s \in Sub, PumpExit(s) \/ Deliver(s) \/ Subscriber(s) PROVE PumpsHold'
  <2>1. CASE PumpExit(s)
    BY <1>0, <2>1 DEF PumpExit, PumpsHold, Types, TypeOK
  <2>2. CASE Deliver(s)
    BY <1>0, <2>2 DEF Deliver, PumpsHold, Types, TypeOK
  <2>3. CASE Subscriber(s)
    BY <1>0, <2>3 DEF Subscriber, PumpsHold, Types, TypeOK
  <2> QED BY <1>2, <2>1, <2>2, <2>3
<1>3. ASSUME NEW p \in Pub, PubOffer(p) PROVE PumpsHold'
  <2>1. Target(p) \in Sub /\ <<p, sent[p]>> # NoMsg
    BY <1>3, Offered DEF PubOffer, Base, NoMsg
  <2> QED BY <1>0, <1>3, <2>1 DEF PubOffer, PumpsHold, Types, TypeOK
<1>4. ASSUME NEW s \in Sub, SubscribeLock(s) \/ EndContext(s) \/ Leave(s)
                \/ CloseDone(s) \/ ClosePub(s) \/ RemoveLock(s) \/ RemoveSelf(s)
      PROVE  PumpsHold'
  <2>1. UNCHANGED <<pump, held>>
    BY <1>4 DEF SubscribeLock, EndContext, Leave, CloseDone, ClosePub, RemoveLock, RemoveSelf
  <2>2. UNCHANGED cons \/ SubscribeLock(s)
          \/ \E to \in {"close", "closePub", "remove", "removeLock", "stuck", "gone"} : cons' = [cons EXCEPT ![s] = to]
    BY <1>4 DEF EndContext, Leave, CloseDone, ClosePub, RemoveLock, RemoveSelf
  <2>3. SubscribeLock(s) => cons[s] = "new" /\ cons' = [cons EXCEPT ![s] = "lock"]
    BY DEF SubscribeLock
  <2> QED BY <1>0, <1>1, <2>1, <2>2, <2>3 DEF Types, TypeOK
<1>5. ASSUME NEW p \in Pub, Publish(p) \/ PubLock(p) \/ PubPanic(p) \/ PubReturn(p) \/ PubCancelled(p)
      PROVE  PumpsHold'
  BY <1>1, <1>5 DEF Publish, PubLock, PubPanic, PubReturn, PubCancelled
<1>6. CASE Shutdown
  BY <1>1, <1>6 DEF Shutdown, ShutStart, ShutQueue, ShutEnd
<1>7. CASE UNCHANGED vars
  BY <1>1, <1>7 DEF vars
<1> QED BY <1>2, <1>3, <1>4, <1>5, <1>6, <1>7 DEF Next, Serving, Pump, Consumer, Publisher

\* Every step keeps what is said of the closed channels.
LEMMA NextClosing == Base /\ [Next]_vars => Closing'
<1> SUFFICES ASSUME Base, [Next]_vars PROVE Closing'
  OBVIOUS
<1>0. Types /\ Closing
  BY DEF Base
<1>t. /\ cons \in [Sub -> {"new", "lock", "range", "close", "closePub", "remove", "removeLock", "stuck", "gone"}]
      /\ ix \in [Sub -> Int] /\ doneCh \subseteq Sub /\ pubCh \subseteq Sub
  BY <1>0 DEF Types, TypeOK
<1> USE DEF ConsAt, PumpAt, subVars, pubVars
<1>1. ASSUME UNCHANGED <<cons, ix, doneCh, pubCh>>, shut'.pc = "idle" => shut.pc = "idle"
      PROVE  Closing'
  BY <1>0, <1>1 DEF Closing
<1>2. ASSUME NEW s \in Sub, SubscribeLock(s) \/ Deliver(s) \/ Leave(s) PROVE Closing'
  <2>1. UNCHANGED <<ix, doneCh, pubCh, shut>> /\ cons[s] \in {"new", "range"}
        /\ \E to \in {"lock", "range", "close"} : cons' = [cons EXCEPT ![s] = to]
    BY <1>2 DEF SubscribeLock, Deliver, Leave
  <2> QED BY <1>0, <1>t, <2>1 DEF Closing
<1>3. ASSUME NEW s \in Sub, Subscriber(s) PROVE Closing'
  <2>1. UNCHANGED <<doneCh, pubCh, shut>> /\ cons[s] = "lock" /\ cons' = [cons EXCEPT ![s] = "range"]
        /\ ix' = [ix EXCEPT ![s] = Len(queues)]
    BY <1>3 DEF Subscriber
  <2> QED BY <1>0, <1>t, <2>1 DEF Closing
<1>4. ASSUME NEW s \in Sub, CloseDone(s) PROVE Closing'
  <2>1. UNCHANGED <<ix, pubCh, shut>> /\ cons[s] = "close"
        /\ \/ s \in doneCh /\ cons' = [cons EXCEPT ![s] = "gone"] /\ UNCHANGED doneCh
           \/ cons' = [cons EXCEPT ![s] = "closePub"] /\ doneCh' = doneCh \cup {s}
    BY <1>4 DEF CloseDone
  <2> QED BY <1>0, <1>t, <2>1 DEF Closing
<1>5. ASSUME NEW s \in Sub, ClosePub(s) PROVE Closing'
  <2>1. UNCHANGED <<ix, doneCh, shut>> /\ cons[s] = "closePub"
        /\ \/ s \in pubCh /\ cons' = [cons EXCEPT ![s] = "gone"] /\ UNCHANGED pubCh
           \/ cons' = [cons EXCEPT ![s] = "remove"] /\ pubCh' = pubCh \cup {s}
    BY <1>5 DEF ClosePub
  <2> QED BY <1>0, <1>t, <2>1 DEF Closing
<1>6. ASSUME NEW s \in Sub, RemoveLock(s) PROVE Closing'
  <2>1. UNCHANGED <<ix, doneCh, pubCh, shut>> /\ cons[s] = "remove"
        /\ \/ cons' = [cons EXCEPT ![s] = "gone"]
           \/ ~(ix[s] < 0) /\ cons' = [cons EXCEPT ![s] = "removeLock"]
    BY <1>6 DEF RemoveLock
  <2> QED BY <1>0, <1>t, <2>1 DEF Closing
<1>7. ASSUME NEW s \in Sub, RemoveSelf(s) PROVE Closing'
  <2>1. cons[s] = "removeLock" /\ \E to \in {"stuck", "gone"} : cons' = [cons EXCEPT ![s] = to]
    BY <1>7 DEF RemoveSelf
  <2>2. cons'[s] \in {"stuck", "gone"} /\ s \in doneCh /\ \A q \in Sub : q # s => cons'[q] = cons[q]
    BY <1>0, <1>t, <2>1 DEF Closing
  <2>3. \A q \in Sub : q # s => ix'[q] = ix[q]
    <3>1. ix' = ix \/ ix' = [ix EXCEPT ![s] = -1]
      BY <1>7 DEF RemoveSelf
    <3>2. CASE ix' = ix
      BY <3>2
    <3>3. CASE ix' = [ix EXCEPT ![s] = -1]
      BY <1>t, <3>3
    <3> QED BY <3>1, <3>2, <3>3
  <2>4. UNCHANGED <<doneCh, pubCh, shut>>
    BY <1>7 DEF RemoveSelf
  <2> QED BY <1>0, <2>2, <2>3, <2>4 DEF Closing
<1>8. ASSUME NEW s \in Sub, EndContext(s) \/ PumpExit(s) PROVE Closing'
  BY <1>1, <1>8 DEF EndContext, PumpExit
<1>9. ASSUME NEW p \in Pub, Publish(p) \/ PubLock(p) \/ PubOffer(p) \/ PubPanic(p) \/ PubReturn(p) \/ PubCancelled(p)
      PROVE  Closing'
  BY <1>1, <1>9 DEF Publish, PubLock, PubOffer, PubPanic, PubReturn, PubCancelled
<1>10. CASE ShutStart \/ ShutEnd
  <2>1. UNCHANGED <<cons, ix, doneCh, pubCh>> /\ shut'.pc # "idle"
    BY <1>0, <1>10 DEF ShutStart, ShutEnd, Types, TypeOK
  <2> QED BY <1>1, <2>1
<1>11. CASE ShutQueue
  <2>1. shut'.pc = "loop" /\ UNCHANGED <<cons, ix>> /\ doneCh \subseteq doneCh'
    BY <1>0, <1>11 DEF ShutQueue, Types, TypeOK
  <2> QED BY <1>0, <2>1 DEF Closing
<1>12. CASE UNCHANGED vars
  BY <1>1, <1>12 DEF vars
<1> QED BY <1>2, <1>3, <1>4, <1>5, <1>6, <1>7, <1>8, <1>9, <1>10, <1>11, <1>12
        DEF Next, Serving, Shutdown, Pump, Consumer, Publisher

\* Every change of the slice, by however wrong an index, moves or drops queues; only
\* a new subscriber adds one.
LEMMA NextDistinct == Base /\ [Next]_vars => Distinct'
<1> SUFFICES ASSUME Base, [Next]_vars PROVE Distinct'
  OBVIOUS
<1>0. Types /\ Distinct /\ Closing /\ queues \in Seq(Slot)
      /\ \A i \in DOMAIN queues : queues[i] \in Slot /\ queues[i].sub \in Sub
  <2>1. Types /\ Distinct /\ Closing /\ queues \in Seq(Slot)
    BY DEF Base, Types, TypeOK
  <2>2. \A i \in DOMAIN queues : queues[i] \in Slot
    BY <2>1
  <2> QED BY <2>1, <2>2 DEF Slot
<1> USE DEF ConsAt, PumpAt, subVars, pubVars
<1>1. ASSUME UNCHANGED queues, \A s \in Sub : cons'[s] \in {"new", "lock"} => cons[s] \in {"new", "lock"}
      PROVE  Distinct'
  BY <1>0, <1>1 DEF Distinct
<1>2. ASSUME NEW s \in Sub, Subscriber(s) PROVE Distinct'
  <2>1. cons[s] = "lock" /\ queues' = Append(queues, [sub |-> s, ix |-> Len(queues)])
        /\ cons' = [cons EXCEPT ![s] = "range"]
    BY <1>2 DEF Subscriber
  <2>2. DOMAIN queues' = 1..(Len(queues) + 1) /\ DOMAIN queues = 1..Len(queues) /\ Len(queues) \in Nat
    BY <1>0, <2>1
  <2>3. \A i \in DOMAIN queues : queues'[i] = queues[i]
    BY <1>0, <2>1
  <2>4. queues'[Len(queues) + 1].sub = s
    BY <1>0, <2>1
  <2>5. \A i \in DOMAIN queues : queues[i].sub # s
    BY <1>0, <2>1 DEF Distinct
  <2> QED BY <1>0, <2>1, <2>2, <2>3, <2>4, <2>5 DEF Distinct, Types, TypeOK
<1>3. ASSUME NEW k \in Int, k < Len(queues), queues # <<>>, NEW new, DOMAIN new = DOMAIN SwapRemove(k, queues),
             \A i \in DOMAIN new : new[i].sub = SwapRemove(k, queues)[i].sub
      PROVE  /\ \A i, j \in DOMAIN new : i # j => new[i].sub # new[j].sub
             /\ \A i \in DOMAIN new : \E j \in DOMAIN queues : new[i].sub = queues[j].sub
  <2>1. DOMAIN new = 1..(Len(queues) - 1) /\ DOMAIN queues = 1..Len(queues)
        /\ \A i \in 1..(Len(queues) - 1) :
              new[i].sub = (IF i = k + 1 THEN queues[Len(queues)] ELSE queues[i]).sub
    BY <1>0, <1>3, SwapRemoved
  <2>2. Len(queues) \in Nat
    BY <1>0
  <2> QED BY <1>0, <2>1, <2>2 DEF Distinct
<1>4. ASSUME NEW s \in Sub, RemoveSelf(s) PROVE Distinct'
  <2>1. \E to \in {"stuck", "gone"} : cons' = [cons EXCEPT ![s] = to]
    BY <1>4 DEF RemoveSelf
  <2>2. CASE queues' = queues
    BY <1>0, <1>1, <2>1, <2>2 DEF Types, TypeOK
  <2>3. CASE queues' # queues
    <3>1. queues' = SwapRemove(ix[s], queues) /\ ~(ix[s] >= Len(queues)) /\ ix[s] >= 0
      BY <1>0, <1>4, <2>3 DEF RemoveSelf, Closing
    <3>2. ix[s] \in Int /\ ix[s] < Len(queues) /\ queues # <<>>
      BY <1>0, <3>1 DEF Types, TypeOK
    <3>3. /\ \A i, j \in DOMAIN queues' : i # j => queues'[i].sub # queues'[j].sub
          /\ \A i \in DOMAIN queues' : \E j \in DOMAIN queues : queues'[i].sub = queues[j].sub
      BY <1>3, <3>1, <3>2
    <3>4. \A i \in DOMAIN queues' : queues'[i].sub \in Sub /\ cons[queues'[i].sub] \notin {"new", "lock"}
      BY <1>0, <3>3 DEF Distinct
    <3>5. \A q \in Sub : cons[q] \notin {"new", "lock"} => cons'[q] \notin {"new", "lock"}
      BY <1>0, <2>1 DEF Types, TypeOK
    <3> QED BY <3>3, <3>4, <3>5 DEF Distinct
  <2> QED BY <2>2, <2>3
<1>5. CASE ShutQueue
  <2> DEFINE slot == queues[shut.i + 1]
             left == SwapRemove(slot.ix, queues)
  <2>1. UNCHANGED cons
    BY <1>5 DEF ShutQueue
  <2>2. CASE queues' = queues
    BY <1>1, <2>1, <2>2
  <2>3. CASE queues' # queues
    <3>1. /\ ~(shut.i >= Len(queues)) /\ ~(slot.ix >= Len(queues))
          /\ queues' = [k \in DOMAIN left |-> IF k = shut.i + 1 THEN [left[k] EXCEPT !.ix = -1] ELSE left[k]]
      BY <1>5, <2>3 DEF ShutQueue
    <3>2. shut.i \in Nat
      BY <1>0 DEF Types, TypeOK
    <3>3. slot \in Slot /\ slot.ix \in Int /\ slot.ix < Len(queues) /\ queues # <<>>
      BY <1>0, <3>1, <3>2 DEF Slot
    <3>4. left \in Seq(Slot)
      BY <1>0, <3>3, SwapRemoved
    <3> HIDE DEF slot, left
    <3>5. \A x \in Slot : [x EXCEPT !.ix = -1].sub = x.sub
      BY DEF Slot
    <3>6. DOMAIN queues' = DOMAIN left /\ \A i \in DOMAIN queues' : queues'[i].sub = left[i].sub
      BY <3>1, <3>4, <3>5
    <3>7. /\ \A i, j \in DOMAIN queues' : i # j => queues'[i].sub # queues'[j].sub
          /\ \A i \in DOMAIN queues' : \E j \in DOMAIN queues : queues'[i].sub = queues[j].sub
      BY <1>3, <3>3, <3>6 DEF left
    <3> QED BY <1>0, <2>1, <3>7 DEF Distinct
  <2> QED BY <2>2, <2>3
<1>6. ASSUME NEW s \in Sub, SubscribeLock(s) \/ Deliver(s) \/ Leave(s)
                \/ CloseDone(s) \/ ClosePub(s) \/ RemoveLock(s)
      PROVE  Distinct'
  <2>1. UNCHANGED queues
    BY <1>6 DEF SubscribeLock, Deliver, Leave, CloseDone, ClosePub, RemoveLock
  <2>2. SubscribeLock(s) \/ \E to \in {"range", "close", "closePub", "remove", "removeLock", "gone"} :
                               cons' = [cons EXCEPT ![s] = to]
    BY <1>6 DEF Deliver, Leave, CloseDone, ClosePub, RemoveLock
  <2>3. SubscribeLock(s) => cons[s] = "new" /\ cons' = [cons EXCEPT ![s] = "lock"]
    BY DEF SubscribeLock
  <2> QED BY <1>0, <1>1, <2>1, <2>2, <2>3 DEF Types, TypeOK
<1>7. ASSUME NEW s \in Sub, EndContext(s) \/ PumpExit(s) PROVE Distinct'
  BY <1>1, <1>7 DEF EndContext, PumpExit
<1>8. ASSUME NEW p \in Pub, Publish(p) \/ PubLock(p) \/ PubOffer(p) \/ PubPanic(p) \/ PubReturn(p) \/ PubCancelled(p)
      PROVE  Distinct'
  BY <1>1, <1>8 DEF Publish, PubLock, PubOffer, PubPanic, PubReturn, PubCancelled
<1>9. CASE ShutStart \/ ShutEnd
  BY <1>1, <1>9 DEF ShutStart, ShutEnd
<1>10. CASE UNCHANGED vars
  BY <1>1, <1>10 DEF vars
<1> QED BY <1>2, <1>4, <1>5, <1>6, <1>7, <1>8, <1>9, <1>10
        DEF Next, Serving, Shutdown, Pump, Consumer, Publisher

\* Every step keeps the base of the invariant.
LEMMA NextBase == Base /\ [Next]_vars => Base'
BY NextTypes, NextPublishing, NextPumps, NextClosing, NextDistinct DEF Base

-----------------------------------------------------------------------------
\* While the newest queue is always the one removed, bus.Close has not begun,
\* the slice holds exactly the queues that are not yet removed, each at its own
\* index, and nobody has panicked in remove.
Registered ==
  /\ shut.pc = "idle"
  /\ \A i \in DOMAIN queues : ix[queues[i].sub] = i - 1 /\ cons[queues[i].sub] \in Holders
  /\ \A s \in Sub : cons[s] \in Holders => \E i \in DOMAIN queues : queues[i].sub = s
  /\ \A s \in Sub : cons[s] # "stuck"

Registry == lifo => Registered

\* A removal that keeps lifo drops the last queue, whose index is the last.
LEMMA NextRegistry == Base /\ Registry /\ [Next]_vars => Registry'
<1> SUFFICES ASSUME Base, Registry, [Next]_vars, lifo' PROVE Registered'
  BY DEF Registry
<1>t. /\ cons \in [Sub -> {"new", "lock", "range", "close", "closePub", "remove", "removeLock", "stuck", "gone"}]
      /\ ix \in [Sub -> Int] /\ queues \in Seq(Slot) /\ Len(queues) \in Nat
      /\ \A i \in DOMAIN queues : queues[i].sub \in Sub
      /\ lifo \in BOOLEAN
  <2>1. queues \in Seq(Slot)
    BY DEF Base, Types, TypeOK
  <2>2. \A i \in DOMAIN queues : queues[i] \in Slot
    BY <2>1
  <2> QED BY <2>1, <2>2 DEF Base, Types, TypeOK, Slot
<1> USE DEF ConsAt, PumpAt, subVars, pubVars
<1>1. ASSUME lifo, UNCHANGED <<queues, ix, cons, shut>> PROVE Registered'
  BY <1>1 DEF Registry, Registered
<1>2. ASSUME NEW s \in Sub, SubscribeLock(s) PROVE Registered'
  <2>1. lifo /\ UNCHANGED <<queues, ix, shut>> /\ cons[s] = "new" /\ cons' = [cons EXCEPT ![s] = "lock"]
    BY <1>2 DEF SubscribeLock
  <2> QED BY <1>t, <2>1 DEF Registry, Registered, Holders
<1>3. ASSUME NEW s \in Sub, Subscriber(s) PROVE Registered'
  <2> DEFINE n == Len(queues)
  <2>1. /\ lifo /\ UNCHANGED shut /\ cons[s] = "lock" /\ cons' = [cons EXCEPT ![s] = "range"]
        /\ ix' = [ix EXCEPT ![s] = n] /\ queues' = Append(queues, [sub |-> s, ix |-> n])
    BY <1>3 DEF Subscriber
  <2>2. DOMAIN queues' = 1..(n + 1) /\ DOMAIN queues = 1..n /\ queues'[n + 1].sub = s
        /\ \A i \in DOMAIN queues : queues'[i] = queues[i]
    BY <1>t, <2>1
  <2>3. \A i \in DOMAIN queues : queues[i].sub # s
    BY <2>1 DEF Base, Distinct
  <2>4. Registered
    BY <2>1 DEF Registry
  <2>5. \A i \in DOMAIN queues' : ix'[queues'[i].sub] = i - 1 /\ cons'[queues'[i].sub] \in Holders
    <3> SUFFICES ASSUME NEW i \in DOMAIN queues'
                 PROVE  ix'[queues'[i].sub] = i - 1 /\ cons'[queues'[i].sub] \in Holders
      OBVIOUS
    <3>1. CASE i = n + 1
      BY <1>t, <2>1, <2>2, <3>1 DEF Holders
    <3>2. CASE i \in DOMAIN queues
      BY <1>t, <2>1, <2>2, <2>3, <2>4, <3>2 DEF Registered
    <3> QED BY <1>t, <2>2, <3>1, <3>2
  <2>6. \A q \in Sub : cons'[q] \in Holders => \E i \in DOMAIN queues' : queues'[i].sub = q
    <3> SUFFICES ASSUME NEW q \in Sub, cons'[q] \in Holders
                 PROVE  \E i \in DOMAIN queues' : queues'[i].sub = q
      OBVIOUS
    <3>1. CASE q = s
      BY <1>t, <2>2, <3>1
    <3>2. CASE q # s
      <4>1. cons[q] \in Holders
        BY <1>t, <2>1, <3>2
      <4>2. PICK i \in DOMAIN queues : queues[i].sub = q
        BY <2>4, <4>1 DEF Registered
      <4> QED BY <1>t, <2>2, <4>2
    <3> QED BY <3>1, <3>2
  <2>7. shut'.pc = "idle" /\ \A q \in Sub : cons'[q] # "stuck"
    BY <1>t, <2>1, <2>4 DEF Registered
  <2> QED BY <2>5, <2>6, <2>7 DEF Registered
<1>4. ASSUME NEW s \in Sub, Deliver(s) \/ Leave(s) \/ CloseDone(s) \/ ClosePub(s) \/ RemoveLock(s)
      PROVE  Registered'
  <2>1. lifo /\ UNCHANGED <<queues, ix, shut>>
    BY <1>4 DEF Deliver, Leave, CloseDone, ClosePub, RemoveLock
  <2>2. Registered
    BY <2>1 DEF Registry
  <2>3. cons[s] \in Holders /\ \E to \in Holders : cons' = [cons EXCEPT ![s] = to]
    <3>1. CASE Deliver(s) \/ Leave(s)
      BY <3>1 DEF Deliver, Leave, Holders
    <3>2. CASE CloseDone(s)
      <4>1. s \notin doneCh
        BY <2>2, <3>2 DEF CloseDone, Base, Closing, Registered
      <4> QED BY <3>2, <4>1 DEF CloseDone, Holders
    <3>3. CASE ClosePub(s)
      <4>1. s \notin pubCh
        BY <2>2, <3>3 DEF ClosePub, Base, Closing, Registered
      <4> QED BY <3>3, <4>1 DEF ClosePub, Holders
    <3>4. CASE RemoveLock(s)
      <4>1. cons[s] \in Holders
        BY <3>4 DEF RemoveLock, Holders
      <4>2. PICK i \in DOMAIN queues : queues[i].sub = s
        BY <2>2, <4>1 DEF Registered
      <4>3. ix[s] = i - 1 /\ i \in 1..Len(queues)
        BY <1>t, <2>2, <4>2 DEF Registered
      <4>4. ~(ix[s] < 0)
        BY <1>t, <4>3
      <4> QED BY <3>4, <4>1, <4>4 DEF RemoveLock, Holders
    <3> QED BY <1>4, <3>1, <3>2, <3>3, <3>4
  <2>4. \A q \in Sub : cons'[q] # "stuck" /\ (cons'[q] \in Holders <=> cons[q] \in Holders)
    BY <1>t, <2>2, <2>3 DEF Registered, Holders
  <2> QED BY <1>t, <2>1, <2>2, <2>4 DEF Registered
<1>5. ASSUME NEW s \in Sub, RemoveSelf(s) PROVE Registered'
  <2> DEFINE n == Len(queues)
  <2>1. lifo /\ cons[s] = "removeLock" /\ UNCHANGED shut
    BY <1>5, <1>t DEF RemoveSelf
  <2>2. Registered
    BY <2>1 DEF Registry
  <2>3. PICK k \in DOMAIN queues : queues[k].sub = s
    BY <2>1, <2>2 DEF Registered, Holders
  <2>4. ix[s] = k - 1 /\ k \in 1..n
    BY <1>t, <2>2, <2>3 DEF Registered
  <2>5. /\ cons' = [cons EXCEPT ![s] = "gone"] /\ queues[n].sub = s
        /\ queues' = SwapRemove(ix[s], queues) /\ ix' = [ix EXCEPT ![s] = -1]
    <3>1. ~(ix[s] >= n)
      BY <1>t, <2>4
    <3> QED BY <1>5, <3>1 DEF RemoveSelf
  <2>6. k = n
    BY <1>t, <2>3, <2>4, <2>5 DEF Base, Distinct
  <2>7. DOMAIN queues = 1..n /\ DOMAIN queues' = 1..(n - 1) /\ \A i \in 1..(n - 1) : queues'[i] = queues[i]
    <3>1. ix[s] \in Int /\ ix[s] < n /\ queues # <<>>
      BY <1>t, <2>4
    <3> QED BY <1>t, <2>4, <2>5, <2>6, <3>1, SwapRemoved
  <2>8. \A i \in 1..(n - 1) : queues[i].sub # s
    <3>1. n \in Nat /\ n \in DOMAIN queues /\ \A i \in 1..(n - 1) : i \in DOMAIN queues /\ i # n
      BY <1>t, <2>4, <2>6, <2>7
    <3>2. \A i, j \in DOMAIN queues : i # j => queues[i].sub # queues[j].sub
      BY DEF Base, Distinct
    <3> QED BY <2>5, <3>1, <3>2
  <2>9. \A i \in DOMAIN queues' : ix'[queues'[i].sub] = i - 1 /\ cons'[queues'[i].sub] \in Holders
    <3> SUFFICES ASSUME NEW i \in DOMAIN queues'
                 PROVE  ix'[queues'[i].sub] = i - 1 /\ cons'[queues'[i].sub] \in Holders
      OBVIOUS
    <3>1. i \in 1..(n - 1) /\ i \in DOMAIN queues /\ queues'[i] = queues[i] /\ queues[i].sub # s
      BY <1>t, <2>7, <2>8
    <3>2. queues[i].sub \in Sub /\ ix[queues[i].sub] = i - 1 /\ cons[queues[i].sub] \in Holders
      BY <1>t, <2>2, <3>1 DEF Registered
    <3> QED BY <1>t, <2>5, <3>1, <3>2
  <2>10. \A q \in Sub : cons'[q] \in Holders => \E i \in DOMAIN queues' : queues'[i].sub = q
    <3> SUFFICES ASSUME NEW q \in Sub, cons'[q] \in Holders
                 PROVE  \E i \in DOMAIN queues' : queues'[i].sub = q
      OBVIOUS
    <3>1. q # s /\ cons[q] \in Holders
      BY <1>t, <2>5 DEF Holders
    <3>2. PICK i \in DOMAIN queues : queues[i].sub = q
      BY <2>2, <3>1 DEF Registered
    <3>3. i \in 1..(n - 1)
      BY <1>t, <2>5, <2>7, <3>1, <3>2
    <3> QED BY <2>7, <3>2, <3>3
  <2>11. shut'.pc = "idle" /\ \A q \in Sub : cons'[q] # "stuck"
    BY <1>t, <2>1, <2>2, <2>5 DEF Registered
  <2> QED BY <2>9, <2>10, <2>11 DEF Registered
<1>6. ASSUME NEW s \in Sub, EndContext(s) \/ PumpExit(s) PROVE Registered'
  BY <1>1, <1>6 DEF EndContext, PumpExit
<1>7. ASSUME NEW p \in Pub, Publish(p) \/ PubLock(p) \/ PubOffer(p) \/ PubPanic(p) \/ PubReturn(p) \/ PubCancelled(p)
      PROVE  Registered'
  BY <1>1, <1>7 DEF Publish, PubLock, PubOffer, PubPanic, PubReturn, PubCancelled
<1>8. CASE ShutStart
  BY <1>8 DEF ShutStart
<1>9. CASE ShutQueue \/ ShutEnd
  <2>1. lifo /\ shut.pc = "loop"
    BY <1>9 DEF ShutQueue, ShutEnd
  <2> QED BY <2>1 DEF Registry, Registered
<1>10. CASE UNCHANGED vars
  BY <1>1, <1>10 DEF vars
<1> QED BY <1>2, <1>3, <1>4, <1>5, <1>6, <1>7, <1>8, <1>9, <1>10
        DEF Next, Serving, Shutdown, Pump, Consumer, Publisher

\* A publisher panics at a queue that has not left the slice yet, and once the
\* process has died nothing moves.
LEMMA NextWindow == Base /\ Registry /\ PanicWindow /\ [Next]_vars => PanicWindow'
<1> SUFFICES ASSUME Base, Registry, PanicWindow, [Next]_vars PROVE PanicWindow'
  OBVIOUS
<1> USE DEF subVars, pubVars
<1>1. CASE UNCHANGED vars
  BY <1>1 DEF vars, PanicWindow
<1>2. ASSUME Running, panic' = panic PROVE PanicWindow'
  BY <1>2 DEF Running, PanicWindow
<1>3. ASSUME NEW p \in Pub, PubPanic(p) PROVE PanicWindow'
  <2>1. /\ Target(p) \in pubCh /\ Sending(p) /\ panic' = "send on closed channel"
        /\ UNCHANGED <<queues, cons, pubCh, lifo, shut>>
    BY <1>3 DEF PubPanic, Panic
  <2>2. CASE ~lifo
    BY <2>1, <2>2 DEF PanicWindow
  <2>3. CASE lifo
    <3>1. pub[p].pos \in DOMAIN queues /\ Target(p) = queues[pub[p].pos].sub /\ Target(p) \in Sub
      BY <2>1, Offered DEF Base
    <3>2. cons[Target(p)] \in Holders /\ shut.pc = "idle"
      BY <2>3, <3>1 DEF Registry, Registered
    <3>3. cons[Target(p)] \in {"remove", "removeLock"}
      BY <2>1, <3>1, <3>2 DEF Base, Closing, Holders
    <3> QED BY <2>1, <3>3 DEF PanicWindow
  <2> QED BY <2>2, <2>3
<1>4. CASE ShutQueue
  <2>1. shut.pc = "loop" /\ lifo' = lifo
    BY <1>4 DEF ShutQueue
  <2>2. ~lifo
    BY <2>1 DEF Registry, Registered
  <2> QED BY <2>1, <2>2 DEF PanicWindow
<1>5. ASSUME Running, NEW s \in Sub, SubscribeLock(s) \/ EndContext(s) \/ Pump(s) \/ Consumer(s) PROVE PanicWindow'
  <2>1. panic' = panic
    BY <1>5 DEF SubscribeLock, EndContext, Pump, PumpExit, Consumer, Subscriber, Deliver, Leave, CloseDone,
                ClosePub, RemoveLock, RemoveSelf
  <2> QED BY <1>2, <1>5, <2>1
<1>6. ASSUME Running, NEW p \in Pub, Publish(p) \/ PubLock(p) \/ PubOffer(p) \/ PubReturn(p) \/ PubCancelled(p)
      PROVE  PanicWindow'
  BY <1>2, <1>6 DEF Publish, PubLock, PubOffer, PubReturn, PubCancelled
<1>7. ASSUME Running, ShutStart \/ ShutEnd PROVE PanicWindow'
  BY <1>2, <1>7 DEF ShutStart, ShutEnd
<1> QED BY <1>1, <1>3, <1>4, <1>5, <1>6, <1>7 DEF Next, Serving, Shutdown, Publisher

-----------------------------------------------------------------------------
\* The message publisher p is sending has not been offered to s: p waits for the
\* lock, or has not come to s in the slice.
Fresh(s, p) ==
  \/ pub[p].pc = "rlock"
  \/ pub[p].pc = "send" /\ \A i \in 1..(pub[p].pos - 1) : queues[i].sub # s

\* What a subscriber has been given was sent, and before the call that has not
\* come to it.
SentBefore ==
  \A s \in Sub, m \in Msg : Given(s, m) =>
     m[2] <= sent[m[1]] /\ (Fresh(s, m[1]) => m[2] < sent[m[1]])

\* What is received is in order, and what is held comes after it.
InOrder ==
  \A s \in Sub :
    /\ \A i, j \in DOMAIN received[s] :
          i < j /\ received[s][i][1] = received[s][j][1] => received[s][i][2] < received[s][j][2]
    /\ held[s] # NoMsg => \A i \in DOMAIN received[s] :
          received[s][i][1] = held[s][1] => received[s][i][2] < held[s][2]

\* A publisher that has passed an open queue has given it the message.
Carried ==
  \A p \in Pub : pub[p].pc = "send" =>
     \A i \in 1..(pub[p].pos - 1) : Open(queues[i].sub) => Given(queues[i].sub, <<p, sent[p]>>)

\* A call of Pub that returned nil is over.
Returned == \A m \in accepted : m[2] <= sent[m[1]]

\* How the messages of a subscriber change in a step.
LEMMA GivenGrows ==
  ASSUME Base, [Next]_vars
  PROVE  /\ \A s \in Sub, m \in Msg : Given(s, m) => Given(s, m)'
         /\ \A s \in Sub, m \in Msg : Given(s, m)' =>
              \/ Given(s, m)
              \/ \E p \in Pub : PubOffer(p) /\ s = Target(p) /\ m = <<p, sent[p]>>
<1> USE DEF subVars, pubVars, ConsAt, PumpAt
<1>t. /\ held \in [Sub -> Msg \cup {NoMsg}] /\ received \in [Sub -> Seq(Msg)]
      /\ \A s \in Sub : pump[s] = "send" <=> held[s] # NoMsg
  BY DEF Base, Types, TypeOK, PumpsHold
<1>m. NoMsg \notin Msg
  BY DEF Msg, NoMsg
<1>1. CASE UNCHANGED <<held, received>>
  BY <1>1 DEF Given
<1>2. ASSUME NEW s \in Sub, Deliver(s)
      PROVE  \A q \in Sub, m \in Msg : Given(q, m)' <=> Given(q, m)
  <2>1. /\ pump[s] = "send" /\ held' = [held EXCEPT ![s] = NoMsg]
        /\ received' = [received EXCEPT ![s] = Append(received[s], held[s])]
    BY <1>2 DEF Deliver
  <2>2. held[s] \in Msg /\ received[s] \in Seq(Msg)
    BY <1>t, <2>1
  <2>3. Range(Append(received[s], held[s])) = Range(received[s]) \cup {held[s]}
    <3>1. /\ DOMAIN Append(received[s], held[s]) = 1..(Len(received[s]) + 1)
          /\ DOMAIN received[s] = 1..Len(received[s]) /\ Len(received[s]) \in Nat
          /\ \A i \in 1..Len(received[s]) : Append(received[s], held[s])[i] = received[s][i]
          /\ Append(received[s], held[s])[Len(received[s]) + 1] = held[s]
      BY <2>2
    <3> QED BY <3>1 DEF Range
  <2>4. ASSUME NEW q \in Sub, NEW m \in Msg PROVE Given(q, m)' <=> Given(q, m)
    <3>1. CASE q = s
      <4>1. held'[s] = NoMsg /\ received'[s] = Append(received[s], held[s])
        BY <1>t, <2>1
      <4> QED BY <1>m, <2>3, <3>1, <4>1 DEF Given
    <3>2. CASE q # s
      <4>1. held'[q] = held[q] /\ received'[q] = received[q]
        BY <1>t, <2>1, <3>2
      <4> QED BY <4>1 DEF Given
    <3> QED BY <3>1, <3>2
  <2> QED BY <2>4
<1>3. ASSUME NEW p \in Pub, PubOffer(p)
      PROVE  /\ \A s \in Sub, m \in Msg : Given(s, m) => Given(s, m)'
             /\ \A s \in Sub, m \in Msg : Given(s, m)' => Given(s, m) \/ (s = Target(p) /\ m = <<p, sent[p]>>)
  <2>1. /\ pump[Target(p)] = "select" /\ held' = [held EXCEPT ![Target(p)] = <<p, sent[p]>>]
        /\ UNCHANGED received /\ Sending(p)
    BY <1>3 DEF PubOffer
  <2>2. Target(p) \in Sub
    BY <2>1, Offered DEF Base
  <2>3. held[Target(p)] = NoMsg /\ held'[Target(p)] = <<p, sent[p]>>
        /\ \A s \in Sub : s # Target(p) => held'[s] = held[s]
    BY <1>t, <2>1, <2>2
  <2>4. \A s \in Sub, m \in Msg : Given(s, m) => Given(s, m)'
    BY <1>m, <2>1, <2>3 DEF Given
  <2>5. \A s \in Sub, m \in Msg : Given(s, m)' => Given(s, m) \/ (s = Target(p) /\ m = <<p, sent[p]>>)
    <3> SUFFICES ASSUME NEW s \in Sub, NEW m \in Msg, Given(s, m)'
                 PROVE  Given(s, m) \/ (s = Target(p) /\ m = <<p, sent[p]>>)
      OBVIOUS
    <3>1. CASE s = Target(p)
      <4>1. m = <<p, sent[p]>> \/ m \in Range(received[s])
        BY <2>1, <2>3, <3>1 DEF Given
      <4> QED BY <3>1, <4>1 DEF Given
    <3>2. CASE s # Target(p)
      BY <2>1, <2>3, <3>2 DEF Given
    <3> QED BY <3>1, <3>2
  <2> QED BY <2>4, <2>5
<1>4. ASSUME NEW s \in Sub, SubscribeLock(s) \/ EndContext(s) \/ PumpExit(s) \/ Subscriber(s) \/ Leave(s)
                \/ CloseDone(s) \/ ClosePub(s) \/ RemoveLock(s) \/ RemoveSelf(s)
      PROVE  UNCHANGED <<held, received>>
  BY <1>4 DEF SubscribeLock, EndContext, PumpExit, Subscriber, Leave, CloseDone, ClosePub, RemoveLock, RemoveSelf
<1>5. ASSUME NEW p \in Pub, Publish(p) \/ PubLock(p) \/ PubPanic(p) \/ PubReturn(p) \/ PubCancelled(p)
      PROVE  UNCHANGED <<held, received>>
  BY <1>5 DEF Publish, PubLock, PubPanic, PubReturn, PubCancelled
<1>6. ASSUME ShutStart \/ ShutQueue \/ ShutEnd \/ UNCHANGED vars PROVE UNCHANGED <<held, received>>
  BY <1>6 DEF ShutStart, ShutQueue, ShutEnd, vars
<1> QED BY <1>1, <1>2, <1>3, <1>4, <1>5, <1>6 DEF Next, Serving, Shutdown, Pump, Consumer, Publisher

\* Only a call of Pub raises sent, and what is fresh stays sent or becomes so.
LEMMA FreshSteps ==
  ASSUME Base, [Next]_vars, NEW s \in Sub, NEW p \in Pub
  PROVE  /\ sent'[p] >= sent[p] /\ sent'[p] \in Nat /\ sent[p] \in Nat
         /\ Fresh(s, p)' => Fresh(s, p) \/ sent'[p] > sent[p]
         /\ PubOffer(p) /\ s = Target(p) => Fresh(s, p) /\ ~Fresh(s, p)'
<1> USE DEF subVars, pubVars, ConsAt, PumpAt
<1>t. /\ sent \in [Pub -> 0..MaxMsg] /\ MaxMsg \in Nat /\ pub \in [Pub -> PubState]
      /\ \A q \in Pub : pub[q].pos \in Nat /\ (pub[q].pc # "send" => pub[q].pos = 1)
  <2>1. /\ sent \in [Pub -> 0..MaxMsg] /\ MaxMsg \in Nat /\ pub \in [Pub -> PubState]
    BY BusAssumption DEF Base, Types, TypeOK
  <2>2. \A q \in Pub : pub[q].pc # "send" => pub[q].pos = 1
    BY DEF Base, Publishing, Idle
  <2> QED BY <2>1, <2>2 DEF PubState
<1>1. ASSUME UNCHANGED <<sent, pub>>, UNCHANGED queues \/ pub[p].pc # "send"
      PROVE  sent' = sent /\ Fresh(s, p)' = Fresh(s, p)
  BY <1>1 DEF Fresh
<1>2. ASSUME NEW q \in Pub, Publish(q)
      PROVE  sent'[p] >= sent[p] /\ sent'[p] \in Nat /\ (Fresh(s, p)' => Fresh(s, p) \/ sent'[p] > sent[p])
  <2>1. /\ sent' = [sent EXCEPT ![q] = sent[q] + 1] /\ UNCHANGED queues
        /\ pub' = [pub EXCEPT ![q].pc = "rlock"]
    BY <1>2 DEF Publish
  <2>2. q # p => pub'[p] = pub[p]
    BY <1>t, <2>1
  <2> QED BY <1>t, <2>1, <2>2 DEF Fresh
<1>3. ASSUME NEW q \in Pub, PubLock(q)
      PROVE  sent' = sent /\ (Fresh(s, p)' => Fresh(s, p))
  <2>1. pub[q].pc = "rlock" /\ UNCHANGED <<queues, sent>> /\ pub' = [pub EXCEPT ![q].pc = "send", ![q].snap = queues]
    BY <1>3 DEF PubLock
  <2>2. q # p => pub'[p] = pub[p]
    BY <1>t, <2>1
  <2> QED BY <2>1, <2>2 DEF Fresh
<1>4. ASSUME NEW q \in Pub, PubOffer(q)
      PROVE  sent' = sent /\ (Fresh(s, p)' => Fresh(s, p)) /\ (q = p /\ s = Target(p) => Fresh(s, p) /\ ~Fresh(s, p)')
  <2>1. Sending(q) /\ UNCHANGED <<queues, sent>> /\ pub' = [pub EXCEPT ![q].pos = pub[q].pos + 1]
    BY <1>4 DEF PubOffer
  <2>2. pub[q].pc = "send" /\ pub[q].pos \in DOMAIN queues /\ Target(q) = queues[pub[q].pos].sub
    BY <2>1, Offered DEF Base, Sending
  <2>3. DOMAIN queues = 1..Len(queues) /\ Len(queues) \in Nat
    BY DEF Base, Types, TypeOK
  <2>4. \A i \in 1..(pub[q].pos - 1) : queues[i].sub # Target(q)
    BY <1>t, <2>2, <2>3 DEF Base, Distinct
  <2>5. CASE q = p
    <3>1. pub'[p].pc = "send" /\ pub'[p].pos = pub[p].pos + 1
      BY <1>t, <2>1, <2>2, <2>5 DEF PubState
    <3>2. Fresh(s, p) <=> \A i \in 1..(pub[p].pos - 1) : queues[i].sub # s
      BY <2>2, <2>5 DEF Fresh
    <3>3. Fresh(s, p)' <=> \A i \in 1..(pub[p].pos + 1 - 1) : queues[i].sub # s
      <4>1. queues' = queues /\ pub'[p].pc # "rlock"
        BY <2>1, <3>1
      <4>2. Fresh(s, p)' <=> \A i \in 1..(pub'[p].pos - 1) : queues[i].sub # s
        BY <3>1, <4>1 DEF Fresh
      <4>3. pub'[p].pos - 1 = pub[p].pos + 1 - 1
        BY <1>t, <3>1
      <4> QED BY <4>2, <4>3
    <3>4. pub[p].pos \in Nat /\ pub[p].pos >= 1 /\ queues[pub[p].pos].sub = Target(p)
      BY <1>t, <2>2, <2>3, <2>5
    <3>5. Fresh(s, p)' => Fresh(s, p)
      BY <3>2, <3>3, <3>4
    <3>6. s = Target(p) => Fresh(s, p)
      BY <2>4, <2>5, <3>2
    <3>7. s = Target(p) => ~Fresh(s, p)'
      <4>1. pub[p].pos \in 1..(pub[p].pos + 1 - 1)
        BY <3>4
      <4> QED BY <3>3, <3>4, <4>1
    <3> QED BY <2>1, <3>5, <3>6, <3>7
  <2>6. CASE q # p
    <3>1. pub'[p] = pub[p]
      BY <1>t, <2>1, <2>6
    <3> QED BY <2>1, <2>6, <3>1 DEF Fresh
  <2> QED BY <2>5, <2>6
<1>5. ASSUME NEW q \in Pub, PubReturn(q) \/ PubCancelled(q)
      PROVE  sent' = sent /\ (Fresh(s, p)' => Fresh(s, p))
  <2>1. UNCHANGED <<queues, sent>> /\ pub' = [pub EXCEPT ![q] = Idle]
    BY <1>5 DEF PubReturn, PubCancelled
  <2>2. pub'[q].pc = "idle" /\ (q # p => pub'[p] = pub[p])
    BY <1>t, <2>1 DEF Idle
  <2> QED BY <2>1, <2>2 DEF Fresh
<1>6. ASSUME NEW q \in Sub, Subscriber(q) \/ RemoveSelf(q)
      PROVE  UNCHANGED <<sent, pub>> /\ pub[p].pc # "send"
  BY <1>6 DEF Subscriber, RemoveSelf, CanLock, Readers
<1>7. ASSUME NEW q \in Sub, SubscribeLock(q) \/ EndContext(q) \/ PumpExit(q) \/ Deliver(q) \/ Leave(q)
                \/ CloseDone(q) \/ ClosePub(q) \/ RemoveLock(q)
      PROVE  UNCHANGED <<sent, pub, queues>>
  BY <1>7 DEF SubscribeLock, EndContext, PumpExit, Deliver, Leave, CloseDone, ClosePub, RemoveLock
<1>8. ASSUME ShutQueue PROVE UNCHANGED <<sent, pub>> /\ pub[p].pc # "send"
  BY <1>8 DEF ShutQueue, Base, Publishing
<1>9. ASSUME ShutStart \/ ShutEnd \/ UNCHANGED vars \/ \E q \in Pub : PubPanic(q) PROVE UNCHANGED <<sent, pub, queues>>
  BY <1>9 DEF ShutStart, ShutEnd, PubPanic, vars
<1>10. PubOffer(p) /\ s = Target(p) => Fresh(s, p) /\ ~Fresh(s, p)'
  BY <1>4
<1>11. /\ sent'[p] >= sent[p] /\ sent'[p] \in Nat
       /\ Fresh(s, p)' => Fresh(s, p) \/ sent'[p] > sent[p]
  <2>1. CASE sent' = sent /\ (Fresh(s, p)' => Fresh(s, p))
    BY <1>t, <2>1
  <2>2. CASE \E q \in Pub : Publish(q)
    BY <1>2, <2>2
  <2> QED BY <1>1, <1>3, <1>4, <1>5, <1>6, <1>7, <1>8, <1>9, <2>1, <2>2
          DEF Next, Serving, Shutdown, Pump, Consumer, Publisher
<1> QED BY <1>t, <1>10, <1>11

\* No step gives a subscriber a message that Pub was not called with.
LEMMA NextSentBefore == Base /\ SentBefore /\ [Next]_vars => SentBefore'
<1> SUFFICES ASSUME Base, SentBefore, [Next]_vars, NEW s \in Sub, NEW m \in Msg, Given(s, m)'
             PROVE  m[2] <= sent'[m[1]] /\ (Fresh(s, m[1])' => m[2] < sent'[m[1]])
  BY DEF SentBefore
<1> DEFINE p == m[1]
<1>1. p \in Pub /\ m[2] \in Int
  BY BusAssumption DEF Msg
<1>2. /\ sent'[p] >= sent[p] /\ sent'[p] \in Nat /\ sent[p] \in Nat
      /\ Fresh(s, p)' => Fresh(s, p) \/ sent'[p] > sent[p]
  BY <1>1, FreshSteps
<1>3. CASE Given(s, m)
  <2>1. m[2] <= sent[p] /\ (Fresh(s, p) => m[2] < sent[p])
    BY <1>3 DEF SentBefore
  <2> QED BY <1>1, <1>2, <2>1
<1>4. CASE \E q \in Pub : PubOffer(q) /\ s = Target(q) /\ m = <<q, sent[q]>>
  <2>1. PubOffer(p) /\ s = Target(p) /\ m[2] = sent[p]
    BY <1>4
  <2>2. ~Fresh(s, p)'
    BY <1>1, <2>1, FreshSteps
  <2> QED BY <1>1, <1>2, <2>1, <2>2
<1> QED BY <1>3, <1>4, GivenGrows

\* A pump takes a message no older than any its consumer has.
LEMMA NextInOrder == Base /\ SentBefore /\ InOrder /\ [Next]_vars => InOrder'
<1> SUFFICES ASSUME Base, SentBefore, InOrder, [Next]_vars PROVE InOrder'
  OBVIOUS
<1> USE DEF subVars, pubVars, ConsAt, PumpAt
<1>t. held \in [Sub -> Msg \cup {NoMsg}] /\ received \in [Sub -> Seq(Msg)]
  BY DEF Base, Types, TypeOK
<1>1. CASE UNCHANGED <<held, received>>
  BY <1>1 DEF InOrder
<1>2. ASSUME NEW s \in Sub, Deliver(s) PROVE InOrder'
  <2> DEFINE got == received[s]
             n == Len(got)
  <2>1. /\ pump[s] = "send" /\ held' = [held EXCEPT ![s] = NoMsg]
        /\ received' = [received EXCEPT ![s] = Append(got, held[s])]
    BY <1>2 DEF Deliver
  <2>2. held[s] # NoMsg /\ held[s] \in Msg /\ got \in Seq(Msg)
    BY <1>t, <2>1 DEF Base, PumpsHold
  <2>3. /\ held'[s] = NoMsg /\ received'[s] = Append(got, held[s])
        /\ \A q \in Sub : q # s => held'[q] = held[q] /\ received'[q] = received[q]
    BY <1>t, <2>1
  <2>4. /\ n \in Nat /\ DOMAIN got = 1..n /\ DOMAIN received'[s] = 1..(n + 1)
        /\ received'[s][n + 1] = held[s] /\ \A i \in 1..n : received'[s][i] = got[i]
    BY <2>2, <2>3
  <2>5. ASSUME NEW i \in DOMAIN received'[s], NEW j \in DOMAIN received'[s], i < j,
               received'[s][i][1] = received'[s][j][1]
        PROVE  received'[s][i][2] < received'[s][j][2]
    <3>1. i \in 1..n /\ (j \in 1..n \/ j = n + 1)
      BY <2>4, <2>5
    <3>2. CASE j \in 1..n
      BY <2>4, <2>5, <3>1, <3>2 DEF InOrder
    <3>3. CASE j = n + 1
      BY <2>2, <2>4, <2>5, <3>1, <3>3 DEF InOrder
    <3> QED BY <3>1, <3>2, <3>3
  <2>6. ASSUME NEW q \in Sub
        PROVE  /\ \A i, j \in DOMAIN received'[q] :
                    i < j /\ received'[q][i][1] = received'[q][j][1] => received'[q][i][2] < received'[q][j][2]
               /\ held'[q] # NoMsg => \A i \in DOMAIN received'[q] :
                    received'[q][i][1] = held'[q][1] => received'[q][i][2] < held'[q][2]
    <3>1. CASE q = s
      BY <2>3, <2>5, <3>1
    <3>2. CASE q # s
      BY <2>3, <3>2 DEF InOrder
    <3> QED BY <3>1, <3>2
  <2> QED BY <2>6 DEF InOrder
<1>3. ASSUME NEW p \in Pub, PubOffer(p) PROVE InOrder'
  <2> DEFINE s == Target(p)
  <2>1. /\ held' = [held EXCEPT ![s] = <<p, sent[p]>>] /\ UNCHANGED received /\ Sending(p)
    BY <1>3 DEF PubOffer
  <2>2. s \in Sub
    BY <2>1, Offered DEF Base
  <2>3. held'[s] = <<p, sent[p]>> /\ \A q \in Sub : q # s => held'[q] = held[q]
    BY <1>t, <2>1, <2>2
  <2>4. Fresh(s, p)
    BY <1>3, <2>2, FreshSteps
  <2>5. ASSUME NEW i \in DOMAIN received[s], received[s][i][1] = p
        PROVE  received[s][i][2] < sent[p]
    <3>1. received[s][i] \in Msg /\ Given(s, received[s][i])
      BY <1>t, <2>2, <2>5 DEF Given, Range
    <3> QED BY <2>2, <2>4, <2>5, <3>1 DEF SentBefore
  <2> HIDE DEF s
  <2>6. \A i \in DOMAIN received[s] : received[s][i][1] = held'[s][1] => received[s][i][2] < held'[s][2]
    BY <2>3, <2>5
  <2>7. ASSUME NEW q \in Sub
        PROVE  /\ \A i, j \in DOMAIN received[q] :
                     i < j /\ received[q][i][1] = received[q][j][1] => received[q][i][2] < received[q][j][2]
               /\ held'[q] # NoMsg => \A i \in DOMAIN received[q] :
                     received[q][i][1] = held'[q][1] => received[q][i][2] < held'[q][2]
    <3>1. CASE q = s
      BY <2>6, <3>1 DEF InOrder
    <3>2. CASE q # s
      BY <2>3, <3>2 DEF InOrder
    <3> QED BY <3>1, <3>2
  <2> QED BY <2>1, <2>7 DEF InOrder
<1>4. ASSUME NEW s \in Sub, SubscribeLock(s) \/ EndContext(s) \/ PumpExit(s) \/ Subscriber(s) \/ Leave(s)
                \/ CloseDone(s) \/ ClosePub(s) \/ RemoveLock(s) \/ RemoveSelf(s)
      PROVE  UNCHANGED <<held, received>>
  BY <1>4 DEF SubscribeLock, EndContext, PumpExit, Subscriber, Leave, CloseDone, ClosePub, RemoveLock, RemoveSelf
<1>5. ASSUME NEW p \in Pub, Publish(p) \/ PubLock(p) \/ PubPanic(p) \/ PubReturn(p) \/ PubCancelled(p)
      PROVE  UNCHANGED <<held, received>>
  BY <1>5 DEF Publish, PubLock, PubPanic, PubReturn, PubCancelled
<1>6. ASSUME ShutStart \/ ShutQueue \/ ShutEnd \/ UNCHANGED vars PROVE UNCHANGED <<held, received>>
  BY <1>6 DEF ShutStart, ShutQueue, ShutEnd, vars
<1> QED BY <1>1, <1>2, <1>3, <1>4, <1>5, <1>6 DEF Next, Serving, Shutdown, Pump, Consumer, Publisher

\* A subscription opens in Subscriber, and a channel that is closed stays closed.
LEMMA OpenSteps ==
  ASSUME Base, [Next]_vars, NEW s \in Sub, Open(s)'
  PROVE  Open(s) \/ Subscriber(s)
<1> SUFFICES ASSUME ~Subscriber(s) PROVE Open(s)
  OBVIOUS
<1> USE DEF subVars, pubVars, ConsAt, PumpAt
<1>t. cons \in [Sub -> {"new", "lock", "range", "close", "closePub", "remove", "removeLock", "stuck", "gone"}]
  BY DEF Base, Types, TypeOK
<1>0. s \notin doneCh' /\ cons'[s] \notin {"new", "lock"}
  BY DEF Open
<1>1. CASE doneCh \subseteq doneCh' /\ cons'[s] = cons[s]
  BY <1>0, <1>1 DEF Open
<1>2. ASSUME NEW q \in Sub, Consumer(q) \/ SubscribeLock(q), q # s PROVE Open(s)
  <2>1. doneCh \subseteq doneCh'
    BY <1>2 DEF SubscribeLock, Consumer, Subscriber, Deliver, Leave, CloseDone, ClosePub, RemoveLock, RemoveSelf
  <2>2. PICK to : cons' = [cons EXCEPT ![q] = to]
    <3>1. CASE SubscribeLock(q) \/ Subscriber(q) \/ Deliver(q) \/ Leave(q)
      BY <3>1 DEF SubscribeLock, Subscriber, Deliver, Leave
    <3>2. CASE CloseDone(q) \/ ClosePub(q) \/ RemoveLock(q) \/ RemoveSelf(q)
      BY <3>2 DEF CloseDone, ClosePub, RemoveLock, RemoveSelf
    <3> QED BY <1>2, <3>1, <3>2 DEF Consumer
  <2>3. cons'[s] = cons[s]
    BY <1>t, <1>2, <2>2
  <2> QED BY <1>1, <2>1, <2>3
<1>3. CASE Deliver(s) \/ Leave(s) \/ CloseDone(s) \/ ClosePub(s) \/ RemoveLock(s) \/ RemoveSelf(s)
  <2>1. cons[s] \notin {"new", "lock"}
    BY <1>3 DEF Deliver, Leave, CloseDone, ClosePub, RemoveLock, RemoveSelf
  <2>2. doneCh \subseteq doneCh'
    BY <1>3 DEF Deliver, Leave, CloseDone, ClosePub, RemoveLock, RemoveSelf
  <2> QED BY <1>0, <2>1, <2>2 DEF Open
<1>4. CASE SubscribeLock(s)
  BY <1>t, <1>0, <1>4 DEF SubscribeLock
<1>5. ASSUME NEW q \in Sub, EndContext(q) \/ PumpExit(q) PROVE Open(s)
  BY <1>1, <1>5 DEF EndContext, PumpExit
<1>6. ASSUME NEW p \in Pub, Publish(p) \/ PubLock(p) \/ PubOffer(p) \/ PubPanic(p) \/ PubReturn(p) \/ PubCancelled(p)
      PROVE  Open(s)
  BY <1>1, <1>6 DEF Publish, PubLock, PubOffer, PubPanic, PubReturn, PubCancelled
<1>7. CASE ShutStart \/ ShutQueue \/ ShutEnd \/ UNCHANGED vars
  <2>1. doneCh \subseteq doneCh' /\ cons'[s] = cons[s]
    BY <1>7 DEF ShutStart, ShutQueue, ShutEnd, vars
  <2> QED BY <1>1, <2>1
<1> QED BY <1>2, <1>3, <1>4, <1>5, <1>6, <1>7 DEF Next, Serving, Shutdown, Pump, Consumer, Publisher

\* While a publisher sends, the slice and its own call stay, and it goes from one
\* queue to the next.
LEMMA SendSteps ==
  ASSUME Base, [Next]_vars, NEW p \in Pub, pub'[p].pc = "send"
  PROVE  \/ pub'[p].pos = 1
         \/ pub'[p] = pub[p] /\ UNCHANGED queues /\ sent'[p] = sent[p]
         \/ PubOffer(p)
<1> USE DEF subVars, pubVars, ConsAt, PumpAt
<1>t. /\ sent \in [Pub -> 0..MaxMsg] /\ pub \in [Pub -> PubState]
      /\ pub[p].pc # "send" => pub[p].pos = 1
  <2>1. sent \in [Pub -> 0..MaxMsg] /\ pub \in [Pub -> PubState]
    BY DEF Base, Types, TypeOK
  <2>2. pub[p].pc # "send" => pub[p].pos = 1
    BY DEF Base, Publishing, Idle
  <2> QED BY <2>1, <2>2
<1> DEFINE Goal == \/ pub'[p].pos = 1
                   \/ pub'[p] = pub[p] /\ UNCHANGED queues /\ sent'[p] = sent[p]
                   \/ PubOffer(p)
<1>1. ASSUME UNCHANGED <<sent, pub>>, UNCHANGED queues \/ pub[p].pc # "send" PROVE Goal
  BY <1>1
<1>2. ASSUME NEW q \in Pub, Publish(q) \/ PubLock(q) \/ PubOffer(q) \/ PubReturn(q) \/ PubCancelled(q) PROVE Goal
  <2>1. CASE q = p /\ PubOffer(q)
    BY <2>1
  <2>2. CASE q # p
    <3>1. UNCHANGED queues
      BY <1>2 DEF Publish, PubLock, PubOffer, PubReturn, PubCancelled
    <3>2. pub'[p] = pub[p] /\ sent'[p] = sent[p]
      BY <1>t, <1>2, <2>2 DEF Publish, PubLock, PubOffer, PubReturn, PubCancelled
    <3> QED BY <3>1, <3>2
  <2>3. CASE q = p /\ (Publish(q) \/ PubLock(q))
    <3>1. pub[p].pos = 1 /\ pub'[p].pos = pub[p].pos
      BY <1>t, <2>3 DEF Publish, PubLock, PubState
    <3> QED BY <3>1
  <2>4. CASE q = p /\ (PubReturn(q) \/ PubCancelled(q))
    BY <1>t, <2>4 DEF PubReturn, PubCancelled, Idle
  <2> QED BY <1>2, <2>1, <2>2, <2>3, <2>4
<1>6. ASSUME NEW q \in Sub, Subscriber(q) \/ RemoveSelf(q)
      PROVE  UNCHANGED <<sent, pub>> /\ pub[p].pc # "send"
  BY <1>6 DEF Subscriber, RemoveSelf, CanLock, Readers
<1>7. ASSUME NEW q \in Sub, SubscribeLock(q) \/ EndContext(q) \/ PumpExit(q) \/ Deliver(q) \/ Leave(q)
                \/ CloseDone(q) \/ ClosePub(q) \/ RemoveLock(q)
      PROVE  UNCHANGED <<sent, pub, queues>>
  BY <1>7 DEF SubscribeLock, EndContext, PumpExit, Deliver, Leave, CloseDone, ClosePub, RemoveLock
<1>8. ASSUME ShutQueue PROVE UNCHANGED <<sent, pub>> /\ pub[p].pc # "send"
  BY <1>8 DEF ShutQueue, Base, Publishing
<1>9. ASSUME ShutStart \/ ShutEnd \/ UNCHANGED vars \/ \E q \in Pub : PubPanic(q) PROVE UNCHANGED <<sent, pub, queues>>
  BY <1>9 DEF ShutStart, ShutEnd, PubPanic, vars
<1>10. Goal
  BY <1>1, <1>2, <1>6, <1>7, <1>8, <1>9 DEF Next, Serving, Shutdown, Pump, Consumer, Publisher
<1> QED BY <1>10

\* A publisher goes past an open queue only by giving it the message.
LEMMA NextCarried == Base /\ Carried /\ [Next]_vars => Carried'
<1> SUFFICES ASSUME Base, Carried, [Next]_vars,
                    NEW p \in Pub, pub'[p].pc = "send",
                    NEW i \in 1..(pub'[p].pos - 1), Open(queues[i].sub)'
             PROVE  Given(queues[i].sub, <<p, sent[p]>>)'
  BY DEF Carried
<1>t. /\ pub \in [Pub -> PubState] /\ queues \in Seq(Slot) /\ Len(queues) \in Nat
      /\ \A q \in Pub : pub[q].pos \in Nat /\ pub[q].pos >= 1 /\ pub[q].pos <= Len(pub[q].snap) + 1
      /\ \A k \in DOMAIN queues : queues[k].sub \in Sub
      /\ sent \in [Pub -> 0..MaxMsg] /\ MaxMsg \in Nat
  <2>1. pub \in [Pub -> PubState] /\ queues \in Seq(Slot) /\ \A q \in Pub : pub[q].pos \in 1..(Len(pub[q].snap) + 1)
    BY DEF Base, Types, TypeOK
  <2>2. \A k \in DOMAIN queues : queues[k] \in Slot
    BY <2>1
  <2>3. \A q \in Pub : pub[q].pos \in Nat
    BY <2>1 DEF PubState
  <2>4. \A q \in Pub : pub[q].snap \in Seq(Slot) /\ Len(pub[q].snap) \in Nat
    BY <2>1 DEF PubState
  <2>5. sent \in [Pub -> 0..MaxMsg] /\ MaxMsg \in Nat
    BY BusAssumption DEF Base, Types, TypeOK
  <2> QED BY <2>1, <2>2, <2>3, <2>4, <2>5 DEF Slot
\* What was carried before the step still is.
<1>1. ASSUME pub[p].pc = "send", i < pub[p].pos, queues' = queues, sent'[p] = sent[p], ~ \E s \in Sub : Subscriber(s)
      PROVE  Given(queues[i].sub, <<p, sent[p]>>)'
  <2>1. i \in 1..(pub[p].pos - 1) /\ i \in DOMAIN queues
    BY <1>t, <1>1 DEF Base, Publishing
  <2>2. queues[i].sub \in Sub /\ Open(queues[i].sub)'
    BY <1>t, <1>1, <2>1
  <2>3. Open(queues[i].sub)
    BY <1>1, <2>2, OpenSteps
  <2>4. Given(queues[i].sub, <<p, sent[p]>>)
    BY <1>1, <2>1, <2>3 DEF Carried
  <2>5. <<p, sent[p]>> \in Msg
    BY <1>t, <1>1 DEF Base, Publishing, Msg
  <2>6. Given(queues[i].sub, <<p, sent[p]>>)'
    <3>1. PICK s \in Sub, m \in Msg : s = queues[i].sub /\ m = <<p, sent[p]>>
      BY <2>2, <2>5
    <3>2. Given(s, m) /\ s = queues'[i].sub /\ m = <<p, sent'[p]>>
      BY <1>1, <2>4, <3>1
    <3>3. Given(s, m)'
      BY <3>2, GivenGrows
    <3> QED BY <3>2, <3>3
  <2> QED BY <1>1, <2>6
<1>2. CASE pub'[p].pos = 1
  BY <1>2
<1>3. CASE pub'[p] = pub[p] /\ UNCHANGED queues /\ sent'[p] = sent[p]
  <2>1. ~ \E s \in Sub : Subscriber(s)
    BY <1>3 DEF Subscriber, CanLock, Readers
  <2> QED BY <1>1, <1>3, <1>t, <2>1
<1>4. CASE PubOffer(p)
  <2>1. /\ Sending(p) /\ UNCHANGED <<queues, sent, cons>> /\ pub' = [pub EXCEPT ![p].pos = pub[p].pos + 1]
        /\ held' = [held EXCEPT ![Target(p)] = <<p, sent[p]>>]
    BY <1>4 DEF PubOffer
  <2>2. pub[p].pc = "send" /\ pub[p].pos \in DOMAIN queues /\ Target(p) = queues[pub[p].pos].sub /\ Target(p) \in Sub
    BY <2>1, Offered DEF Base, Sending
  <2>3. pub'[p].pos = pub[p].pos + 1
    BY <1>t, <2>1 DEF PubState
  <2>4. CASE i = pub[p].pos
    <3>1. held'[Target(p)] = <<p, sent[p]>>
      BY <2>1, <2>2 DEF Base, Types, TypeOK
    <3> QED BY <2>1, <2>2, <2>4, <3>1 DEF Given
  <2>5. CASE i < pub[p].pos
    <3>1. ~ \E s \in Sub : Subscriber(s)
      BY <2>2 DEF Subscriber, CanLock, Readers
    <3> QED BY <1>1, <2>1, <2>2, <2>5, <3>1
  <2>6. i \in 1..pub[p].pos
    BY <1>t, <2>3
  <2> QED BY <1>t, <2>4, <2>5, <2>6
<1> QED BY <1>2, <1>3, <1>4, SendSteps

\* Only a call that was made returns nil.
LEMMA NextReturned == Base /\ Returned /\ [Next]_vars => Returned'
<1> SUFFICES ASSUME Base, Returned, [Next]_vars, NEW m \in accepted' PROVE m[2] <= sent'[m[1]]
  BY DEF Returned
<1>t. sent \in [Pub -> 0..MaxMsg] /\ MaxMsg \in Nat /\ accepted \subseteq Msg
  BY BusAssumption DEF Base, Types, TypeOK
<1>1. \A p \in Pub : sent'[p] >= sent[p] /\ sent'[p] \in Nat /\ sent[p] \in Nat
  <2> SUFFICES ASSUME NEW p \in Pub PROVE sent'[p] >= sent[p] /\ sent'[p] \in Nat /\ sent[p] \in Nat
    OBVIOUS
  <2>1. CASE sent' = sent
    BY <1>t, <2>1
  <2>2. CASE \E q \in Pub : Publish(q)
    BY <1>t, <2>2 DEF Publish
  <2> QED BY <2>1, <2>2 DEF Next, Serving, Shutdown, Pump, Consumer, Publisher, vars, subVars, pubVars, SubscribeLock,
          EndContext, PumpExit, Subscriber, Deliver, Leave, CloseDone, ClosePub, RemoveLock, RemoveSelf, PubLock,
          PubOffer, PubPanic, PubReturn, PubCancelled, ShutStart, ShutQueue, ShutEnd
<1>2. CASE m \in accepted
  BY <1>1, <1>2, <1>t DEF Returned, Msg
<1>3. CASE m \notin accepted
  <2>1. PICK p \in Pub : PubReturn(p)
    BY <1>3 DEF Next, Serving, Shutdown, Pump, Consumer, Publisher, vars, subVars, pubVars, SubscribeLock,
          EndContext, PumpExit, Subscriber, Deliver, Leave, CloseDone, ClosePub, RemoveLock, RemoveSelf, PubLock,
          PubOffer, PubPanic, Publish, PubCancelled, ShutStart, ShutQueue, ShutEnd
  <2>2. m = <<p, sent[p]>> /\ sent' = sent
    BY <1>3, <2>1 DEF PubReturn
  <2> QED BY <1>1, <2>2
<1> QED BY <1>2, <1>3

\* The publisher that returns has passed every queue, and every open subscriber is
\* in the slice; one that registers later has a since of its own.
LEMMA NextLoss == Base /\ Registry /\ Carried /\ Returned /\ NoSilentLoss /\ [Next]_vars => NoSilentLoss'
<1> SUFFICES ASSUME Base, Registry, Carried, Returned, NoSilentLoss, [Next]_vars, lifo',
                    NEW s \in Sub, NEW m \in accepted', Open(s)', since'[s][m[1]] < m[2]
             PROVE  Given(s, m)'
  BY DEF NoSilentLoss
<1> USE DEF subVars, pubVars, ConsAt, PumpAt
<1>t. /\ sent \in [Pub -> 0..MaxMsg] /\ MaxMsg \in Nat /\ accepted \subseteq Msg
      /\ since \in [Sub -> [Pub -> 0..MaxMsg]] /\ pub \in [Pub -> PubState] /\ accepted' \subseteq Msg
  BY BusAssumption, NextBase DEF Base, Types, TypeOK
<1>l. lifo
  BY DEF Next, Serving, Shutdown, Pump, Consumer, Publisher, vars, SubscribeLock, EndContext, PumpExit, Subscriber,
         Deliver, Leave, CloseDone, ClosePub, RemoveLock, RemoveSelf, Publish, PubLock, PubOffer, PubPanic, PubReturn,
         PubCancelled, ShutStart, ShutQueue, ShutEnd
<1>1. CASE Subscriber(s)
  <2>1. accepted' = accepted /\ since'[s] = sent
    BY <1>1, <1>t DEF Subscriber
  <2>2. m[2] <= sent[m[1]] /\ sent[m[1]] < m[2] /\ m[1] \in Pub /\ m[2] \in Int
    BY <1>t, <2>1 DEF Returned, Msg
  <2> QED BY <1>t, <2>2
<1>2. CASE ~Subscriber(s)
  <2>1. Open(s)
    BY <1>2, OpenSteps
  <2>2. CASE m \in accepted
    <3>1. since'[s] = since[s]
      <4>1. ASSUME NEW q \in Sub, Subscriber(q) PROVE since'[s] = since[s]
        BY <1>2, <1>t, <4>1 DEF Subscriber
      <4> QED BY <4>1 DEF Next, Serving, Shutdown, Pump, Consumer, Publisher, vars, SubscribeLock, EndContext, PumpExit,
         Deliver, Leave, CloseDone, ClosePub, RemoveLock, RemoveSelf, Publish, PubLock, PubOffer, PubPanic, PubReturn,
         PubCancelled, ShutStart, ShutQueue, ShutEnd
    <3>2. Given(s, m)
      BY <1>l, <2>1, <2>2, <3>1 DEF NoSilentLoss
    <3> QED BY <1>t, <2>2, <3>2, GivenGrows
  <2>3. CASE m \notin accepted
    <3>1. PICK p \in Pub : PubReturn(p)
      BY <2>3 DEF Next, Serving, Shutdown, Pump, Consumer, Publisher, vars, SubscribeLock,
          EndContext, PumpExit, Subscriber, Deliver, Leave, CloseDone, ClosePub, RemoveLock, RemoveSelf, PubLock,
          PubOffer, PubPanic, Publish, PubCancelled, ShutStart, ShutQueue, ShutEnd
    <3>2. /\ m = <<p, sent[p]>> /\ UNCHANGED <<held, received>>
          /\ pub[p].pc = "send" /\ ~(pub[p].pos <= Len(pub[p].snap))
      BY <2>3, <3>1 DEF PubReturn, Sending
    <3>3. pub[p].snap = queues /\ Len(queues) \in Nat /\ pub[p].pos \in Nat /\ DOMAIN queues = 1..Len(queues)
      BY <1>t, <3>2 DEF Base, Publishing, Types, TypeOK, PubState
    <3>4. cons[s] \in Holders
      <4>1. cons[s] \in {"new", "lock", "range", "close", "closePub", "remove", "removeLock", "stuck", "gone"}
        BY DEF Base, Types, TypeOK
      <4> QED BY <2>1, <4>1 DEF Open, Base, Closing, Holders
    <3>5. PICK i \in DOMAIN queues : queues[i].sub = s
      BY <1>l, <3>4 DEF Registry, Registered
    <3>6. i \in 1..(pub[p].pos - 1)
      BY <3>2, <3>3
    <3>7. Given(s, m)
      BY <2>1, <3>2, <3>5, <3>6 DEF Carried
    <3> QED BY <3>2, <3>7 DEF Given
  <2> QED BY <2>2, <2>3
<1> QED BY <1>1, <1>2

-----------------------------------------------------------------------------
\* What holds in every state of the bus.
IInv ==
  /\ Base
  /\ Registry /\ PanicWindow
  /\ SentBefore /\ InOrder
  /\ Carried /\ Returned /\ NoSilentLoss

\* A bus without subscribers satisfies the whole invariant.
LEMMA InitIInv == Init => IInv
<1> SUFFICES ASSUME Init PROVE IInv
  OBVIOUS
<1>1. Base
  BY InitTypes DEF Base
<1>2. Registry /\ PanicWindow
  BY DEF Init, Registry, Registered, Holders, PanicWindow
<1>3. \A p \in Pub : pub[p].pc = "idle"
  BY DEF Init, Idle
<1>4. SentBefore
  <2>1. \A s \in Sub, m \in Msg : ~Given(s, m)
    <3> SUFFICES ASSUME NEW s \in Sub, NEW m \in Msg PROVE ~Given(s, m)
      OBVIOUS
    <3>1. held[s] = NoMsg /\ received[s] = <<>>
      BY DEF Init
    <3>2. m # NoMsg
      BY DEF Msg, NoMsg
    <3>3. Range(received[s]) = {}
      BY <3>1 DEF Range
    <3> QED BY <3>1, <3>2, <3>3 DEF Given
  <2> QED BY <2>1 DEF SentBefore
<1>5. InOrder /\ Carried /\ Returned /\ NoSilentLoss
  BY <1>3 DEF Init, InOrder, Carried, Returned, NoSilentLoss
<1> QED BY <1>1, <1>2, <1>4, <1>5 DEF IInv

\* The inductive invariant holds in every state the bus reaches.
THEOREM Invariance == Spec => []IInv
<1>1. Init => IInv
  BY InitIInv
<1>2. IInv /\ [Next]_vars => IInv'
  BY NextBase, NextRegistry, NextWindow, NextSentBefore, NextInOrder, NextCarried, NextReturned, NextLoss DEF IInv
<1> QED BY <1>1, <1>2, PTL DEF Spec

\* Every variable of the bus has its type (pubsub/channels.go).
THEOREM TypeCorrect == Spec => []TypeOK
<1>1. IInv => TypeOK
  BY DEF IInv, Base, Types
<1> QED BY <1>1, Invariance, PTL

\* As long as the newest queue is the one removed, every queue stands at the index
\* its Close removes it by, every open subscriber is in the slice, and remove never
\* panics.
THEOREM ExactRegistry == Spec => []RegistryExact
<1>1. IInv => RegistryExact
  <2> SUFFICES ASSUME IInv, lifo
               PROVE  /\ \A i \in DOMAIN queues : ix[queues[i].sub] = i - 1
                      /\ \A s \in Sub : Open(s) => \E i \in DOMAIN queues : queues[i].sub = s
                      /\ \A s \in Sub : cons[s] # "stuck"
    BY DEF RegistryExact
  <2>1. Registered /\ Base
    BY DEF IInv, Registry
  <2>2. ASSUME NEW s \in Sub, Open(s) PROVE cons[s] \in Holders
    <3>1. cons[s] \in {"new", "lock", "range", "close", "closePub", "remove", "removeLock", "stuck", "gone"}
      BY <2>1 DEF Base, Types, TypeOK
    <3> QED BY <2>1, <2>2, <3>1 DEF Open, Base, Closing, Holders
  <2> QED BY <2>1, <2>2 DEF Registered
<1> QED BY <1>1, Invariance, PTL

\* As long as the newest queue is the one removed, the process dies only where a
\* publisher sends to a queue between its close(q.pub) and its remove.
THEOREM OneWindow == Spec => []PanicWindow
<1>1. IInv => PanicWindow
  BY DEF IInv
<1> QED BY <1>1, Invariance, PTL

\* A message whose Pub returned nil was taken by every subscriber that registered
\* before the call and is still open, as long as the newest queue is the one removed.
THEOREM NothingLost == Spec => []NoSilentLoss
<1>1. IInv => NoSilentLoss
  BY DEF IInv
<1> QED BY <1>1, Invariance, PTL

\* Whatever is removed and whenever, a subscriber gets each publisher's messages in
\* the order of the calls of Pub, each at most once.
THEOREM InSendOrder == Spec => []Fifo
<1>1. IInv => Fifo
  <2> SUFFICES ASSUME IInv, NEW s \in Sub PROVE
        LET got == IF held[s] = NoMsg THEN received[s] ELSE Append(received[s], held[s])
        IN  \A i, j \in DOMAIN got : i < j /\ got[i][1] = got[j][1] => got[i][2] < got[j][2]
    BY DEF Fifo
  <2>1. InOrder /\ received[s] \in Seq(Msg) /\ held[s] \in Msg \cup {NoMsg}
    BY DEF IInv, Base, Types, TypeOK
  <2>2. CASE held[s] = NoMsg
    BY <2>1, <2>2 DEF InOrder
  <2>3. CASE held[s] # NoMsg
    <3> DEFINE n == Len(received[s])
               got == Append(received[s], held[s])
    <3>1. n \in Nat /\ DOMAIN received[s] = 1..n /\ DOMAIN got = 1..(n + 1)
          /\ got[n + 1] = held[s] /\ \A i \in 1..n : got[i] = received[s][i]
      BY <2>1, <2>3
    <3> HIDE DEF got
    <3>2. ASSUME NEW i \in DOMAIN got, NEW j \in DOMAIN got, i < j, got[i][1] = got[j][1]
          PROVE  got[i][2] < got[j][2]
      <4>1. i \in 1..n /\ (j \in 1..n \/ j = n + 1)
        BY <3>1, <3>2
      <4>2. CASE j \in 1..n
        BY <2>1, <3>1, <3>2, <4>1, <4>2 DEF InOrder
      <4>3. CASE j = n + 1
        BY <2>1, <2>3, <3>1, <3>2, <4>1, <4>3 DEF InOrder
      <4> QED BY <4>1, <4>2, <4>3
    <3> QED BY <2>3, <3>2 DEF got
  <2> QED BY <2>2, <2>3
<1> QED BY <1>1, Invariance, PTL
=============================================================================
