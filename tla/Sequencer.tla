----------------------------- MODULE Sequencer ------------------------------
(***************************************************************************)
(* internal/sequencer: events get the next number of an in-memory counter, *)
(* go to the live subscribers and are then stored in repo_seq.  The        *)
(* counter is rebuilt from the table when the process starts.  Of the bus  *)
(* (ChannelBus has it in detail) the slice of queues and its locks are     *)
(* here: a publication goes to the queues that are in the slice when it    *)
(* takes the read lock, may stop half way when the publisher's context     *)
(* ends, and holds back whoever adds or removes a queue.                   *)
(*                                                                         *)
(* Each element of Call is one call of Seq.Pub, with an event of its own;  *)
(* each element of Sub subscribes once in a life of the process.           *)
(***************************************************************************)
EXTENDS Integers, Sequences

CONSTANTS
  Call,      \* calls of Pub
  Sub,       \* subscribers
  MaxLife,   \* bound: starts of the process
  ReadFaults \* whether the table may be unreadable when the process starts

ASSUME SequencerAssumption == MaxLife \in Nat /\ ReadFaults \in BOOLEAN

VARIABLES
  rows,    \* table repo_seq, in insertion order
  life,    \* starts of the process so far
  up,      \* the process runs
  seq,     \* s.seq, the atomic counter
  pc,      \* where each call is
  n,       \* the number each call was given
  todo,    \* subscribers a publishing call has yet to reach
  at,      \* where each subscriber is
  ix,      \* the index its queue was appended at
  queues,  \* the bus's slice of queues, by subscriber
  jam,     \* a removal panicked and left the bus's write lock held
  stream,  \* per open subscriber: the events it was given
  born,    \* history: per call, the calls that had ended when it began
  owed,    \* history: per call, the subscribers open when it began and ever since
  lifo,    \* history: every removal in this life removed the newest queue
  clean    \* history: every start so far could read the table

callVars == <<pc, n, todo, born, owed>>
busVars  == <<at, ix, queues, jam, lifo>>
vars == <<rows, life, up, seq, callVars, busVars, stream, clean>>

Row   == [seq : Nat, evt : Call]
Ended == {c \in Call : pc[c] \in {"ok", "failed"}}
\* Calls that have a number and no row yet, and those with no answer yet.
Unstored == {c \in Call : pc[c] \in {"numbered", "deliver", "store"}}
InFlight == Unstored \cup {c \in Call : pc[c] = "stored"}
Stored(k) == \E i \in DOMAIN rows : rows[i].seq = k

TypeOK ==
  /\ rows \in Seq(Row)
  /\ life \in 0..MaxLife
  /\ up \in BOOLEAN
  /\ seq \in Nat
  /\ pc \in [Call -> {"new", "numbered", "deliver", "store", "stored", "ok", "failed"}]
  /\ n \in [Call -> Nat]
  /\ todo \in [Call -> SUBSET Sub]
  /\ at \in [Sub -> {"new", "open", "closing", "gone"}]
  /\ ix \in [Sub -> Nat]
  /\ queues \in Seq(Sub)
  /\ jam \in BOOLEAN /\ lifo \in BOOLEAN
  /\ stream \in [Sub -> Seq(Row)]
  /\ born \in [Call -> SUBSET Call]
  /\ owed \in [Call -> SUBSET Sub]
  /\ clean \in BOOLEAN

Init ==
  /\ rows = <<>>
  /\ life = 0 /\ up = FALSE /\ seq = 0
  /\ pc = [c \in Call |-> "new"]
  /\ n = [c \in Call |-> 0]
  /\ todo = [c \in Call |-> {}]
  /\ at = [s \in Sub |-> "new"]
  /\ ix = [s \in Sub |-> 0]
  /\ queues = <<>> /\ jam = FALSE /\ lifo = TRUE
  /\ stream = [s \in Sub |-> <<>>]
  /\ born = [c \in Call |-> {}]
  /\ owed = [c \in Call |-> {}]
  /\ clean = TRUE

-----------------------------------------------------------------------------
\* Wrong: the counter starts at the number of rows.
StartCount ==
  /\ ~up /\ life < MaxLife
  /\ seq' = Len(rows)
  /\ up' = TRUE /\ life' = life + 1
  /\ UNCHANGED <<rows, callVars, busVars, stream, clean>>

\* New: the counter starts at the largest stored number.  Any error of curr
\* counts as an empty table, sql.ErrNoRows of an empty one too.
Start ==
  /\ ~up /\ life < MaxLife
  /\ \/ /\ IF rows = <<>> THEN seq' = 0
           ELSE \E i \in DOMAIN rows : /\ \A k \in DOMAIN rows : rows[k].seq <= rows[i].seq
                                       /\ seq' = rows[i].seq
        /\ UNCHANGED clean
     \/ ReadFaults /\ seq' = 0 /\ clean' = FALSE
  /\ up' = TRUE /\ life' = life + 1
  /\ UNCHANGED <<rows, callVars, busVars, stream>>

\* The process dies at any time: calls on their way, stored or not, and the bus
\* with its subscriptions are lost.
Crash ==
  /\ up /\ up' = FALSE
  /\ pc' = [c \in Call |-> IF c \in InFlight THEN "failed" ELSE pc[c]]
  /\ todo' = [c \in Call |-> {}]
  /\ at' = [s \in Sub |-> "new"]
  /\ ix' = [s \in Sub |-> 0]
  /\ queues' = <<>> /\ jam' = FALSE /\ lifo' = TRUE
  /\ stream' = [s \in Sub |-> <<>>]
  /\ owed' = [c \in Call |-> {}]
  /\ UNCHANGED <<rows, life, seq, n, born, clean>>

-----------------------------------------------------------------------------
\* Nobody holds the bus's read lock, nor, after a panic, the write lock.
LockFree == ~jam /\ \A c \in Call : pc[c] # "deliver"

SubAt(s, from, to) == at[s] = from /\ at' = [at EXCEPT ![s] = to]

\* The last queue replaces the one at the 0-based index.
SwapRemove(i, arr) == SubSeq([arr EXCEPT ![i + 1] = arr[Len(arr)]], 1, Len(arr) - 1)

\* ChannelBus.Subscriber: a queue at the end of the slice, with its index.
Subscribe(s) ==
  /\ up /\ LockFree
  /\ SubAt(s, "new", "open")
  /\ ix' = [ix EXCEPT ![s] = Len(queues)]
  /\ queues' = Append(queues, s)
  /\ UNCHANGED <<rows, life, up, seq, callVars, jam, lifo, stream, clean>>

\* queue.Close, before bus.remove: the channels are closed and the queue is
\* still in the slice.  The consumer has gone, and its stream with it.
CloseQueue(s) ==
  /\ SubAt(s, "open", "closing")
  /\ owed' = [c \in Call |-> owed[c] \ {s}]
  /\ stream' = [stream EXCEPT ![s] = <<>>]
  /\ UNCHANGED <<rows, life, up, seq, pc, n, todo, born, ix, queues, jam, lifo, clean>>

\* bus.remove takes out what stands at the index the queue was appended at, or
\* panics beyond the end of the slice, under the lock.
Remove(s) ==
  /\ LockFree
  /\ SubAt(s, "closing", "gone")
  /\ IF ix[s] >= Len(queues)
     THEN jam' = TRUE /\ UNCHANGED <<queues, lifo>>
     ELSE /\ queues' = SwapRemove(ix[s], queues)
          /\ lifo' = (lifo /\ queues[Len(queues)] = s)
          /\ UNCHANGED jam
  /\ ix' = [ix EXCEPT ![s] = 0]
  /\ UNCHANGED <<rows, life, up, seq, callVars, stream, clean>>

-----------------------------------------------------------------------------
OpenSubs == {s \in Sub : at[s] = "open"}
Queued   == {queues[i] : i \in DOMAIN queues}

\* Wrong: the number is read, and the counter raised only by whoever stores.
NumberRead(c) ==
  /\ up /\ pc[c] = "new"
  /\ n' = [n EXCEPT ![c] = seq + 1]
  /\ pc' = [pc EXCEPT ![c] = "numbered"]
  /\ born' = [born EXCEPT ![c] = Ended]
  /\ owed' = [owed EXCEPT ![c] = OpenSubs]
  /\ UNCHANGED <<rows, life, up, seq, todo, busVars, stream, clean>>

\* Pub: s.seq.Add(1) and SetSeq.
Number(c) ==
  /\ up /\ pc[c] = "new"
  /\ seq' = seq + 1
  /\ n' = [n EXCEPT ![c] = seq + 1]
  /\ pc' = [pc EXCEPT ![c] = "numbered"]
  /\ born' = [born EXCEPT ![c] = Ended]
  /\ owed' = [owed EXCEPT ![c] = OpenSubs]
  /\ UNCHANGED <<rows, life, up, todo, busVars, stream, clean>>

\* pub.Pub takes the read lock; it ranges over the slice as it is then.
Publish(c) ==
  /\ pc[c] = "numbered" /\ ~jam
  /\ pc' = [pc EXCEPT ![c] = "deliver"]
  /\ todo' = [todo EXCEPT ![c] = Queued]
  /\ UNCHANGED <<rows, life, up, seq, n, born, owed, busVars, stream, clean>>

\* A queue that is still open takes the event.  At a closed one the publisher
\* panics, or its context has ended: Fail, or Crash if nobody recovers the panic.
Deliver(c, s) ==
  /\ s \in todo[c] /\ at[s] = "open"
  /\ todo' = [todo EXCEPT ![c] = @ \ {s}]
  /\ stream' = [stream EXCEPT ![s] = Append(@, [seq |-> n[c], evt |-> c])]
  /\ UNCHANGED <<rows, life, up, seq, pc, n, born, owed, busVars, clean>>

\* Wrong: the event is stored while it is still being published.
MarshalEarly(c) ==
  /\ pc[c] = "deliver"
  /\ pc' = [pc EXCEPT ![c] = "store"]
  /\ UNCHANGED <<rows, life, up, seq, n, todo, born, owed, busVars, stream, clean>>

\* Everyone has been reached; the event is marshalled.
Marshal(c) ==
  /\ pc[c] = "deliver" /\ todo[c] = {}
  /\ pc' = [pc EXCEPT ![c] = "store"]
  /\ UNCHANGED <<rows, life, up, seq, n, todo, born, owed, busVars, stream, clean>>

\* store: the INSERT commits; the primary key refuses it when the number is
\* taken.
Store(c) ==
  /\ pc[c] = "store"
  /\ ~Stored(n[c])
  /\ rows' = Append(rows, [seq |-> n[c], evt |-> c])
  /\ pc' = [pc EXCEPT ![c] = "stored"]
  /\ UNCHANGED <<life, up, seq, n, todo, born, owed, busVars, stream, clean>>

\* Pub answers nil.
Return(c) ==
  /\ pc[c] = "stored"
  /\ pc' = [pc EXCEPT ![c] = "ok"]
  /\ UNCHANGED <<rows, life, up, seq, n, todo, born, owed, busVars, stream, clean>>

\* The publisher panics or its context ends at a queue, the encoder fails, or the
\* statement does, which may be after its row was committed: Pub has no nil answer.
Fail(c) ==
  /\ pc[c] \in {"deliver", "store", "stored"}
  /\ pc' = [pc EXCEPT ![c] = "failed"]
  /\ todo' = [todo EXCEPT ![c] = {}]
  /\ UNCHANGED <<rows, life, up, seq, n, born, owed, busVars, stream, clean>>

-----------------------------------------------------------------------------
Next ==
  \/ Start \/ Crash
  \/ \E s \in Sub : Subscribe(s) \/ CloseQueue(s) \/ Remove(s)
  \/ \E c \in Call : \/ Number(c) \/ Publish(c) \/ Marshal(c) \/ Store(c) \/ Return(c)
                     \/ Fail(c) \/ \E s \in Sub : Deliver(c, s)

Spec == Init /\ [][Next]_vars

-----------------------------------------------------------------------------
\* The INSERT of a call never meets its own number in the table, not even after
\* crashes that left gaps, as long as New could always read the table.
StoreNeverConflicts ==
  clean => \A c \in Unstored : ~Stored(n[c])

\* A live subscriber never gets one number twice, nor one event twice.
StreamsAreUnique ==
  \A s \in OpenSubs : \A i, j \in DOMAIN stream[s] :
          i # j => /\ stream[s][i].seq # stream[s][j].seq
                   /\ stream[s][i].evt # stream[s][j].evt

\* No subscriber gets the events of two calls of Pub, one of which had ended
\* before the other began, the other way round; and in the table the one that
\* had ended has the smaller number, as long as New could always read the table
\* (a counter that starts over gives later calls smaller numbers).
RealTimeOrder ==
  /\ \A s \in OpenSubs : \A i, j \in DOMAIN stream[s] :
             i < j => stream[s][j].evt \notin born[stream[s][i].evt]
  /\ clean => \A i, j \in DOMAIN rows :
             rows[i].evt \in born[rows[j].evt] => rows[i].seq < rows[j].seq

\* An event in the table, whatever its call answered, had been given to every
\* subscriber that was open when its Pub began and still is.  A subscriber whose
\* queue somebody else's stale index took out of the slice is none of these;
\* while removals happen newest first there is no such subscriber.
StoredWasSeen ==
  \A k \in DOMAIN rows : \A s \in owed[rows[k].evt] :
    lifo \/ s \in Queued
      => \E i \in DOMAIN stream[s] : stream[s][i].evt = rows[k].evt

\* What a subscriber is given is not in the table yet.
GivenIsUnstored ==
  \A s \in Sub : clean /\ Len(stream'[s]) > Len(stream[s])
                => ~Stored(stream'[s][Len(stream'[s])].seq)

\* As long as New could always read the table, a subscriber is not given a
\* number under which another event is stored.  (A number whose event was never
\* stored does come again after a restart.)
NoStoredNumberAgain == [][GivenIsUnstored]_vars
=============================================================================
