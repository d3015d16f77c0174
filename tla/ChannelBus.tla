----------------------------- MODULE ChannelBus -----------------------------
(***************************************************************************)
(* pubsub's in-memory bus.  Every subscriber has a queue value in the      *)
(* bus's slice, a pump goroutine that carries messages from the queue's    *)
(* `pub` channel to its `sub` channel, and a consumer that ranges over     *)
(* `sub` and closes the subscription when it leaves.  A publisher holds    *)
(* the read lock while it offers its message to each queue in turn; adding *)
(* and removing a queue take the write lock.                               *)
(*                                                                         *)
(* Messages are pairs <<publisher, k>>: a publisher's k-th call of Pub.    *)
(***************************************************************************)
EXTENDS Integers, Sequences, SequencesExt, TLC

CONSTANTS
  Sub,      \* subscriptions, each made once
  Pub,      \* publishers, each sending one message at a time
  MaxMsg    \* bound: calls of Pub by each publisher

ASSUME BusAssumption == MaxMsg \in Nat

VARIABLES
  queues,    \* cb.queues: the slice of queue values, [sub, ix] each
  waiting,   \* who waits for the write lock: new readers queue up behind them
  ix,        \* the ix field of the queue each subscriber was handed
  cons,      \* where each consumer is
  pump,      \* where each pump goroutine is
  held,      \* the message a pump has taken and not yet handed on
  ended,     \* subscriptions whose context has ended
  doneCh,    \* queues whose done channel is closed
  pubCh,     \* queues whose pub channel is closed
  received,  \* what each consumer has been given
  pub,       \* per publisher: pc, the slice being ranged over, the position
  sent,      \* per publisher: calls of Pub so far
  accepted,  \* history: messages whose Pub returned nil
  since,     \* history: sent, when the subscription was registered
  lifo,      \* history: every removal so far removed the newest queue
  shut,      \* bus.Close: its pc, N and i
  panic      \* "no", or the panic that ended the process

subVars == <<ix, cons, pump, held, ended, doneCh, pubCh, received, since>>
pubVars == <<pub, sent, accepted>>
vars == <<queues, waiting, subVars, pubVars, lifo, shut, panic>>

NoMsg   == <<>>
Msg     == Pub \X (1..MaxMsg)
Slot    == [sub : Sub, ix : Int]
Panics  == {"no", "send on closed channel", "close of closed channel",
            "index out of range"}

TypeOK ==
  /\ queues \in Seq(Slot)
  /\ waiting \in SUBSET Sub
  /\ ix \in [Sub -> Int]
  /\ cons \in [Sub -> {"new", "lock", "range", "close", "closePub", "remove",
                       "removeLock", "stuck", "gone"}]
  /\ pump \in [Sub -> {"none", "select", "send", "exited"}]
  /\ held \in [Sub -> Msg \cup {NoMsg}]
  /\ ended \in SUBSET Sub /\ doneCh \in SUBSET Sub /\ pubCh \in SUBSET Sub
  /\ received \in [Sub -> Seq(Msg)]
  /\ \A p \in Pub : /\ pub[p].pc \in {"idle", "rlock", "send"}
                    /\ pub[p].snap \in Seq(Slot)
                    /\ pub[p].pos \in 1..(Len(pub[p].snap) + 1)
  /\ sent \in [Pub -> 0..MaxMsg]
  /\ accepted \in SUBSET Msg
  /\ since \in [Sub -> [Pub -> 0..MaxMsg]]
  /\ lifo \in BOOLEAN
  /\ shut \in [pc : {"idle", "loop", "closed", "failed"}, n : Nat, i : Nat]
  /\ panic \in Panics

Idle == [pc |-> "idle", snap |-> <<>>, pos |-> 1]

Init ==
  /\ queues = <<>> /\ waiting = {}
  /\ ix = [s \in Sub |-> -1]
  /\ cons = [s \in Sub |-> "new"]
  /\ pump = [s \in Sub |-> "none"]
  /\ held = [s \in Sub |-> NoMsg]
  /\ ended = {} /\ doneCh = {} /\ pubCh = {}
  /\ received = [s \in Sub |-> <<>>]
  /\ pub = [p \in Pub |-> Idle]
  /\ sent = [p \in Pub |-> 0]
  /\ accepted = {}
  /\ since = [s \in Sub |-> [p \in Pub |-> 0]]
  /\ lifo = TRUE
  /\ shut = [pc |-> "idle", n |-> 0, i |-> 0]
  /\ panic = "no"

ConsAt(s, from, to) == cons[s] = from /\ cons' = [cons EXCEPT ![s] = to]
PumpAt(s, from, to) == pump[s] = from /\ pump' = [pump EXCEPT ![s] = to]

\* A panic of a publisher or of bus.Close kills the process: the goroutines of
\* parallel.Do have no recover.  A consumer is an HTTP handler, whose panic
\* net/http recovers: it alone ends, with whatever lock it holds.
Panic(what) == panic' = what

\* array.Remove: the last element replaces the one at the 0-based index.
SwapRemove(i, arr) == SubSeq([arr EXCEPT ![i + 1] = arr[Len(arr)]], 1, Len(arr) - 1)

\* Publishers that hold the read lock.
Readers == {p \in Pub : pub[p].pc = "send"}

\* Wrong: the slice is changed without the lock.
CanLockUnlocked(w) == w \in waiting

\* The write lock is free for w once nobody holds the read lock, and nobody
\* panicked under the write lock.
CanLock(w) == w \in waiting /\ Readers = {} /\ \A s \in Sub : cons[s] # "stuck"

-----------------------------------------------------------------------------
\* Subscribing: cb.mu.Lock, append the queue, unlock, start the pump.

SubscribeLock(s) ==
  /\ ConsAt(s, "new", "lock")
  /\ shut.pc = "idle"
  /\ waiting' = waiting \cup {s}
  /\ UNCHANGED <<queues, ix, pump, held, ended, doneCh, pubCh, received, since,
                 pubVars, lifo, shut, panic>>

\* Wrong: the index is taken after the append.
SubscriberLate(s) ==
  /\ CanLock(s)
  /\ ConsAt(s, "lock", "range")
  /\ waiting' = waiting \ {s}
  /\ queues' = Append(queues, [sub |-> s, ix |-> Len(queues) + 1])
  /\ ix' = [ix EXCEPT ![s] = Len(queues) + 1]
  /\ pump' = [pump EXCEPT ![s] = "select"]
  /\ since' = [since EXCEPT ![s] = sent]
  /\ UNCHANGED <<held, ended, doneCh, pubCh, received, pubVars, lifo, shut, panic>>

Subscriber(s) ==
  /\ CanLock(s)
  /\ ConsAt(s, "lock", "range")
  /\ waiting' = waiting \ {s}
  /\ queues' = Append(queues, [sub |-> s, ix |-> Len(queues)])
  /\ ix' = [ix EXCEPT ![s] = Len(queues)]
  /\ pump' = [pump EXCEPT ![s] = "select"]
  /\ since' = [since EXCEPT ![s] = sent]
  /\ UNCHANGED <<held, ended, doneCh, pubCh, received, pubVars, lifo, shut, panic>>

\* The subscriber's context ends at any time.
EndContext(s) ==
  /\ cons[s] # "new"
  /\ s \notin ended
  /\ ended' = ended \cup {s}
  /\ UNCHANGED <<queues, waiting, ix, cons, pump, held, doneCh, pubCh, received,
                 since, pubVars, lifo, shut, panic>>

-----------------------------------------------------------------------------
\* The pump (func start).  Taking a message is PubOffer.

PumpExit(s) ==
  /\ s \in ended \cup doneCh \cup pubCh
  /\ PumpAt(s, "select", "exited")
  /\ UNCHANGED <<queues, waiting, ix, cons, held, ended, doneCh, pubCh, received,
                 since, pubVars, lifo, shut, panic>>

\* q.sub <- msg meets the consumer's receive.  After a message the consumer's
\* yield asks for more or ends the loop.
Deliver(s) ==
  /\ PumpAt(s, "send", "select")
  /\ \E to \in {"range", "close"} : ConsAt(s, "range", to)
  /\ received' = [received EXCEPT ![s] = Append(@, held[s])]
  /\ held' = [held EXCEPT ![s] = NoMsg]
  /\ UNCHANGED <<queues, waiting, ix, ended, doneCh, pubCh, since, pubVars, lifo,
                 shut, panic>>

\* The consumer leaves its loop: its context ended, or the pump closed `sub`.
Leave(s) ==
  /\ s \in ended \/ pump[s] = "exited"
  /\ ConsAt(s, "range", "close")
  /\ UNCHANGED <<queues, waiting, ix, pump, held, ended, doneCh, pubCh, received,
                 since, pubVars, lifo, shut, panic>>

-----------------------------------------------------------------------------
\* queue.Close by the consumer: close(done), close(pub), bus.remove.  Closing a
\* channel that bus.Close has closed panics, which ends the consumer.

\* Wrong: the queue leaves the slice before its channels are closed.
CloseAfterRemove(s) ==
  /\ ConsAt(s, "close", "removeLock")
  /\ waiting' = waiting \cup {s}
  /\ UNCHANGED <<queues, ix, pump, held, ended, doneCh, pubCh, received, since,
                 pubVars, lifo, shut, panic>>

CloseDone(s) ==
  /\ cons[s] = "close"
  /\ IF s \in doneCh
     THEN ConsAt(s, "close", "gone") /\ UNCHANGED doneCh
     ELSE ConsAt(s, "close", "closePub") /\ doneCh' = doneCh \cup {s}
  /\ UNCHANGED <<queues, waiting, ix, pump, held, ended, pubCh, received, since,
                 pubVars, lifo, shut, panic>>

\* Wrong: only the done channel is closed.
ClosePubForgotten(s) ==
  /\ ConsAt(s, "closePub", "remove")
  /\ UNCHANGED <<queues, waiting, ix, pump, held, ended, doneCh, pubCh, received,
                 since, pubVars, lifo, shut, panic>>

ClosePub(s) ==
  /\ cons[s] = "closePub"
  /\ IF s \in pubCh
     THEN ConsAt(s, "closePub", "gone") /\ UNCHANGED pubCh
     ELSE ConsAt(s, "closePub", "remove") /\ pubCh' = pubCh \cup {s}
  /\ UNCHANGED <<queues, waiting, ix, pump, held, ended, doneCh, received, since,
                 pubVars, lifo, shut, panic>>

\* remove returns at once when ix < 0, and asks for the write lock otherwise.
RemoveLock(s) ==
  /\ IF ix[s] < 0
     THEN ConsAt(s, "remove", "gone") /\ UNCHANGED waiting
     ELSE ConsAt(s, "remove", "removeLock") /\ waiting' = waiting \cup {s}
  /\ UNCHANGED <<queues, ix, pump, held, ended, doneCh, pubCh, received, since,
                 pubVars, lifo, shut, panic>>

\* The index is the one the queue was appended at.  array.Remove panics beyond
\* the end of the slice, before the Unlock.
RemoveSelf(s) ==
  /\ CanLock(s)
  /\ cons[s] = "removeLock"
  /\ IF ix[s] >= Len(queues)
     THEN ConsAt(s, "removeLock", "stuck") /\ UNCHANGED <<queues, ix, waiting, lifo>>
     ELSE /\ ConsAt(s, "removeLock", "gone")
          /\ lifo' = (lifo /\ queues[Len(queues)].sub = s)
          /\ queues' = SwapRemove(ix[s], queues)
          /\ ix' = [ix EXCEPT ![s] = -1]
          /\ waiting' = waiting \ {s}
  /\ UNCHANGED <<pump, held, ended, doneCh, pubCh, received, since, pubVars, shut, panic>>

-----------------------------------------------------------------------------
\* Publishing: cb.mu.RLock, offer the message to each queue, RUnlock.

Publish(p) ==
  /\ pub[p].pc = "idle" /\ sent[p] < MaxMsg
  /\ shut.pc = "idle"
  /\ pub' = [pub EXCEPT ![p].pc = "rlock"]
  /\ sent' = [sent EXCEPT ![p] = @ + 1]
  /\ UNCHANGED <<queues, waiting, subVars, accepted, lifo, shut, panic>>

\* A waiting writer holds new readers back.  The range is over the slice as it
\* is now.
PubLock(p) ==
  /\ pub[p].pc = "rlock" /\ waiting = {}
  /\ pub' = [pub EXCEPT ![p].pc = "send", ![p].snap = queues]
  /\ UNCHANGED <<queues, waiting, subVars, sent, accepted, lifo, shut, panic>>

Sending(p) == pub[p].pc = "send" /\ pub[p].pos <= Len(pub[p].snap)
Target(p)  == pub[p].snap[pub[p].pos].sub

\* Wrong: a queue that is not ready is passed over.
PubOfferNonBlocking(p) ==
  /\ Sending(p)
  /\ Target(p) \notin pubCh
  /\ \/ /\ PumpAt(Target(p), "select", "send")
        /\ held' = [held EXCEPT ![Target(p)] = <<p, sent[p]>>]
     \/ /\ pump[Target(p)] # "select"
        /\ UNCHANGED <<pump, held>>
  /\ pub' = [pub EXCEPT ![p].pos = @ + 1]
  /\ UNCHANGED <<queues, waiting, ix, cons, ended, doneCh, pubCh, received, since,
                 sent, accepted, lifo, shut, panic>>

\* Wrong: a send that succeeded is tried again.
PubOfferAgain(p) ==
  /\ Sending(p)
  /\ Target(p) \notin pubCh
  /\ PumpAt(Target(p), "select", "send")
  /\ held' = [held EXCEPT ![Target(p)] = <<p, sent[p]>>]
  /\ \E to \in {pub[p].pos, pub[p].pos + 1} : pub' = [pub EXCEPT ![p].pos = to]
  /\ UNCHANGED <<queues, waiting, ix, cons, ended, doneCh, pubCh, received, since,
                 sent, accepted, lifo, shut, panic>>

\* q.pub <- evt meets the pump's select.
PubOffer(p) ==
  /\ Sending(p)
  /\ Target(p) \notin pubCh
  /\ PumpAt(Target(p), "select", "send")
  /\ held' = [held EXCEPT ![Target(p)] = <<p, sent[p]>>]
  /\ pub' = [pub EXCEPT ![p].pos = @ + 1]
  /\ UNCHANGED <<queues, waiting, ix, cons, ended, doneCh, pubCh, received, since,
                 sent, accepted, lifo, shut, panic>>

\* A send on a channel that is closed, before it or while it waits.
PubPanic(p) ==
  /\ Sending(p)
  /\ Target(p) \in pubCh
  /\ Panic("send on closed channel")
  /\ UNCHANGED <<queues, waiting, subVars, pubVars, lifo, shut>>

\* Pub returns nil after the last queue.
PubReturn(p) ==
  /\ pub[p].pc = "send" /\ ~Sending(p)
  /\ accepted' = accepted \cup {<<p, sent[p]>>}
  /\ pub' = [pub EXCEPT ![p] = Idle]
  /\ UNCHANGED <<queues, waiting, subVars, sent, lifo, shut, panic>>

\* The publisher's context ends, and Pub returns ctx.Err() from the queue it
\* stands at.
PubCancelled(p) ==
  /\ Sending(p)
  /\ pub' = [pub EXCEPT ![p] = Idle]
  /\ UNCHANGED <<queues, waiting, subVars, sent, accepted, lifo, shut, panic>>

-----------------------------------------------------------------------------
\* bus.Close, by the owner once nothing is being published, subscribed or
\* removed: for i < N, N read once, it closes the queue value in the slice, not
\* the subscriber's.  Consumers react between two iterations.

ShutStart ==
  /\ shut.pc = "idle"
  /\ \A p \in Pub : pub[p].pc = "idle"
  /\ \A s \in Sub : cons[s] \in {"range", "gone"}
  /\ shut' = [pc |-> "loop", n |-> Len(queues), i |-> 0]
  /\ lifo' = FALSE
  /\ UNCHANGED <<queues, waiting, subVars, pubVars, panic>>

\* cb.queues[i].Close(): remove by the slot's own index, then `q.ix = -1` in
\* the slot, which by now holds the queue that was the last.
ShutQueue ==
  /\ shut.pc = "loop" /\ shut.i < shut.n
  /\ LET slot == queues[shut.i + 1]
         left == SwapRemove(slot.ix, queues)
     IN  IF shut.i >= Len(queues)
         THEN Panic("index out of range") /\ UNCHANGED <<doneCh, pubCh, queues>>
         ELSE IF slot.sub \in doneCh
         THEN Panic("close of closed channel") /\ UNCHANGED <<doneCh, pubCh, queues>>
         ELSE /\ doneCh' = doneCh \cup {slot.sub}
              /\ pubCh' = pubCh \cup {slot.sub}
              /\ IF slot.ix < 0
                 THEN UNCHANGED <<queues, panic>>
                 ELSE IF slot.ix >= Len(queues)
                 THEN Panic("index out of range") /\ UNCHANGED queues
                 ELSE /\ queues' = [k \in DOMAIN left |->
                                      IF k = shut.i + 1 THEN [left[k] EXCEPT !.ix = -1]
                                      ELSE left[k]]
                      /\ UNCHANGED panic
  /\ shut' = [shut EXCEPT !.i = @ + 1]
  /\ UNCHANGED <<waiting, ix, cons, pump, held, ended, received, since, pubVars, lifo>>

\* "failed to close all subscribers", or a fresh slice.
ShutEnd ==
  /\ shut.pc = "loop" /\ shut.i >= shut.n
  /\ shut' = [shut EXCEPT !.pc = IF queues = <<>> THEN "closed" ELSE "failed"]
  /\ UNCHANGED <<queues, waiting, subVars, pubVars, lifo, panic>>

-----------------------------------------------------------------------------
Pump(s)     == PumpExit(s)
Consumer(s) == Subscriber(s) \/ Deliver(s) \/ Leave(s) \/ CloseDone(s) \/ ClosePub(s)
                 \/ RemoveLock(s) \/ RemoveSelf(s)
Publisher(p) == PubLock(p) \/ PubOffer(p) \/ PubPanic(p) \/ PubReturn(p)

Running == panic = "no"

Serving ==
  /\ Running
  /\ \/ \E s \in Sub : SubscribeLock(s) \/ EndContext(s) \/ Pump(s) \/ Consumer(s)
     \/ \E p \in Pub : Publish(p) \/ PubCancelled(p) \/ Publisher(p)

Shutdown == Running /\ (ShutStart \/ ShutQueue \/ ShutEnd)

Next == Serving \/ Shutdown

\* Goroutines that can go on do, a consumer's yield returns, and a lock that is
\* asked for is granted.  Nobody is obliged to subscribe, to publish, to end a
\* context or to shut the bus down.
Fairness ==
  /\ \A s \in Sub : WF_vars(Running /\ Pump(s)) /\ WF_vars(Running /\ Consumer(s))
  /\ \A p \in Pub : WF_vars(Running /\ Publisher(p))

Spec == Init /\ [][Next]_vars
FairSpec == Spec /\ Fairness

-----------------------------------------------------------------------------
Open(s)     == cons[s] # "new" /\ cons[s] # "lock" /\ s \notin doneCh
Given(s, m) == m = held[s] \/ m \in Range(received[s])

\* A subscriber gets a publisher's messages in the order they were sent, and
\* each at most once; what its pump holds comes after what it has been given.
Fifo ==
  \A s \in Sub : LET got == IF held[s] = NoMsg THEN received[s]
                            ELSE Append(received[s], held[s])
                 IN  \A i, j \in DOMAIN got :
                       i < j /\ got[i][1] = got[j][1] => got[i][2] < got[j][2]

\* A message whose Pub returned nil was taken by every subscriber that had
\* registered before the call and has not closed since, as long as the newest
\* queue is always the one removed.
NoSilentLoss ==
  lifo => \A s \in Sub, m \in accepted :
            Open(s) /\ since[s][m[1]] < m[2] => Given(s, m)

\* The slice is exact while removals happen newest first: each queue stands at
\* the index its subscriber will remove it by, and every open one is there.
RegistryExact ==
  lifo => /\ \A i \in DOMAIN queues : ix[queues[i].sub] = i - 1
          /\ \A s \in Sub : Open(s) => \E i \in DOMAIN queues : queues[i].sub = s
          /\ \A s \in Sub : cons[s] # "stuck"

\* While removals happen newest first, the process can die in one window only:
\* a publisher sends to a queue whose channels are closed and which has not left
\* the slice yet.  Once remove has returned, no publisher can reach the queue.
PanicWindow ==
  lifo /\ panic # "no" =>
     /\ panic = "send on closed channel"
     /\ \E s \in pubCh : cons[s] \in {"remove", "removeLock"}

\* Every call of Pub returns, even if a subscriber goes away without taking its
\* message: it waits for ever only when the process has died or a consumer
\* panicked in remove and left the write lock behind.
PubEnds ==
  \A p \in Pub : pub[p].pc # "idle" ~>
     (pub[p].pc = "idle" \/ ~Running \/ \E s \in Sub : cons[s] = "stuck")

\* Whoever asks for the write lock gets it: a subscriber may come and go while
\* publishers are half way through the slice.  A publisher that waits for the
\* very consumer that waits to remove its queue would be a deadlock; the closed
\* channels are what resolves it (at the price of PanicWindow).
LockIsGranted ==
  \A s \in Sub : s \in waiting ~>
     (s \notin waiting \/ ~Running \/ \E q \in Sub : cons[q] = "stuck")

\* What the comment on channelBusPublisher.Close says: publishing reaches "all
\* existing channels".  Every open subscription is in the slice pub ranges over.
OpenIsRegistered ==
  \A s \in Sub : Open(s) => \E i \in DOMAIN queues : queues[i].sub = s
=============================================================================
