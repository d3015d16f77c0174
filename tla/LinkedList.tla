----------------------------- MODULE LinkedList -----------------------------
(***************************************************************************)
(* queue.List and queue.ListQueue: a list is a ring of elements linked     *)
(* both ways and closed by the list's root, here the list itself.  A list  *)
(* that was never used is the zero value, whose root points nowhere.       *)
(*                                                                         *)
(* Elem is the memory elements are made in; one that is in no list can be  *)
(* a new element, or one that was removed and that somebody still holds:   *)
(* it looks the same.  Calls do not overlap.  The loops of PushBackList    *)
(* and PushFrontList take a step per element.                              *)
(***************************************************************************)
EXTENDS Integers, Sequences, FiniteSets

CONSTANTS List, Elem, Value, Nil

ASSUME ListAssumption ==
  /\ List \cap Elem = {} /\ Nil \notin List \cup Elem
  /\ IsFiniteSet(Elem)

VARIABLES
  next, prev,  \* Element.next and Element.prev, of elements and of roots
  owner,       \* Element.list
  value,       \* Element.Value
  len,         \* List.len
  loop,        \* the call that is copying a list: where from, where to, how many left
  call         \* history: the last call that has ended, as in OrderedList

vars == <<next, prev, owner, value, len, loop, call>>

Node == List \cup Elem
Idle == [left |-> 0]
Copying ==
  [back : BOOLEAN, to : List, other : List, at : Elem \cup {Nil}, left : Nat \ {0},
   new : SUBSET Elem]

TypeOK ==
  /\ next \in [Node -> Node \cup {Nil}] /\ prev \in [Node -> Node \cup {Nil}]
  /\ owner \in [Elem -> List \cup {Nil}]
  /\ value \in [Elem -> Value]
  /\ len \in [List -> Nat]
  /\ loop \in Copying \cup {Idle}

Init ==
  /\ next = [n \in Node |-> Nil] /\ prev = [n \in Node |-> Nil]
  /\ owner = [e \in Elem |-> Nil]
  /\ value \in [Elem -> Value] /\ \A d, e \in Elem : value[d] = value[e]
  /\ len = [l \in List |-> 0]
  /\ loop = Idle
  /\ call = <<"none">>

\* lazyInit: what it leaves in a root's link.
Inited(link, l) == IF next[l] = Nil THEN [link EXCEPT ![l] = l] ELSE link

Front(l) == IF len[l] = 0 THEN Nil ELSE next[l]
Back(l)  == IF len[l] = 0 THEN Nil ELSE prev[l]

\* Element.Next and Element.Prev along the given links.
Step(link, own, e) == IF own[e] # Nil /\ link[e] # own[e] THEN link[e] ELSE Nil

\* Wrong: the successor's back link is forgotten.
InsertOneWay(nxt, prv, l, e, v, at) ==
  /\ owner[e] = Nil
  /\ next' = [nxt EXCEPT ![e] = nxt[at], ![at] = e]
  /\ prev' = [prv EXCEPT ![e] = at]
  /\ owner' = [owner EXCEPT ![e] = l]
  /\ value' = [value EXCEPT ![e] = v]
  /\ len' = [len EXCEPT ![l] = @ + 1]

\* insertValue(v, at), where nxt and prv are the links before it.
Insert(nxt, prv, l, e, v, at) ==
  /\ owner[e] = Nil
  /\ next' = [nxt EXCEPT ![e] = nxt[at], ![at] = e]
  /\ prev' = [prv EXCEPT ![e] = at, ![nxt[at]] = e]
  /\ owner' = [owner EXCEPT ![e] = l]
  /\ value' = [value EXCEPT ![e] = v]
  /\ len' = [len EXCEPT ![l] = @ + 1]

\* remove(e), called on l.
Unlink(l, e) ==
  /\ next' = [next EXCEPT ![prev[e]] = next[e], ![e] = Nil]
  /\ prev' = [prev EXCEPT ![next[e]] = prev[e], ![e] = Nil]
  /\ owner' = [owner EXCEPT ![e] = Nil]
  /\ len' = [len EXCEPT ![l] = @ - 1]
  /\ UNCHANGED <<value, loop>>

\* Wrong: `at.next` is read before e has been taken out.
RelinkEarly(e, at) ==
  /\ IF e = at
     THEN UNCHANGED <<next, prev>>
     ELSE /\ next' = [next EXCEPT ![prev[e]] = next[e], ![e] = next[at], ![at] = e]
          /\ prev' = [prev EXCEPT ![next[e]] = prev[e], ![e] = at, ![next[at]] = e]
  /\ UNCHANGED <<owner, value, len, loop>>

\* move(e, at): `at.next` is read after e has been taken out.
Relink(e, at) ==
  LET nxt == [next EXCEPT ![prev[e]] = next[e]]
      prv == [prev EXCEPT ![next[e]] = prev[e]]
  IN  /\ IF e = at
         THEN UNCHANGED <<next, prev>>
         ELSE /\ next' = [nxt EXCEPT ![e] = nxt[at], ![at] = e]
              /\ prev' = [prv EXCEPT ![e] = at, ![nxt[at]] = e]
      /\ UNCHANGED <<owner, value, len, loop>>

-----------------------------------------------------------------------------
Idling == loop = Idle

PushFront(l, e, v) ==
  /\ Idling /\ Insert(Inited(next, l), Inited(prev, l), l, e, v, l)
  /\ call' = <<"PushFront", l, e>> /\ UNCHANGED loop

PushBack(l, e, v) ==
  /\ Idling /\ Insert(Inited(next, l), Inited(prev, l), l, e, v, Inited(prev, l)[l])
  /\ call' = <<"PushBack", l, e>> /\ UNCHANGED loop

InsertBefore(l, e, v, mark) ==
  /\ Idling /\ owner[mark] = l
  /\ Insert(next, prev, l, e, v, prev[mark])
  /\ call' = <<"InsertBefore", l, e, mark>> /\ UNCHANGED loop

InsertAfter(l, e, v, mark) ==
  /\ Idling /\ owner[mark] = l
  /\ Insert(next, prev, l, e, v, mark)
  /\ call' = <<"InsertAfter", l, e, mark>> /\ UNCHANGED loop

Remove(l, e) ==
  Idling /\ owner[e] = l /\ Unlink(l, e) /\ call' = <<"Remove", l, e>>

\* ListQueue.Pop and PopBack: Remove(Front()) and Remove(Back()), and Remove looks
\* at the element's list.  On an empty list Pop answers false; PopBack would
\* dereference nil, so it is its caller's duty not to call it then.
Take(l, e) == e \in Elem /\ owner[e] = l /\ Unlink(l, e)

Pop(l)     == Idling /\ len[l] # 0 /\ Take(l, Front(l)) /\ call' = <<"Pop", l>>
PopBack(l) == Idling /\ len[l] # 0 /\ Take(l, Back(l)) /\ call' = <<"PopBack", l>>

MoveToFront(l, e) ==
  /\ Idling /\ owner[e] = l /\ next[l] # e
  /\ Relink(e, l) /\ call' = <<"MoveToFront", l, e>>

MoveToBack(l, e) ==
  /\ Idling /\ owner[e] = l /\ prev[l] # e
  /\ Relink(e, prev[l]) /\ call' = <<"MoveToBack", l, e>>

MoveBefore(l, e, mark) ==
  /\ Idling /\ owner[e] = l /\ e # mark /\ owner[mark] = l
  /\ Relink(e, prev[mark]) /\ call' = <<"MoveBefore", l, e, mark>>

MoveAfter(l, e, mark) ==
  /\ Idling /\ owner[e] = l /\ e # mark /\ owner[mark] = l
  /\ Relink(e, mark) /\ call' = <<"MoveAfter", l, e, mark>>

\* Init and ListQueue.Reset: the root is closed on itself.  Assumes that nobody
\* holds an element of the list any more, so that the elements are garbage;
\* ListQueue hands out none.
Clear(l) ==
  LET gone == {e \in Elem : owner[e] = l}
  IN  /\ Idling
      /\ next' = [n \in Node |-> IF n = l THEN l ELSE IF n \in gone THEN Nil ELSE next[n]]
      /\ prev' = [n \in Node |-> IF n = l THEN l ELSE IF n \in gone THEN Nil ELSE prev[n]]
      /\ owner' = [e \in Elem |-> IF e \in gone THEN Nil ELSE owner[e]]
      /\ len' = [len EXCEPT ![l] = 0]
      /\ call' = <<"Clear", l>> /\ UNCHANGED <<value, loop>>

\* PushBackList and PushFrontList: l.lazyInit(), and the head of the loop.  Elem
\* has room for the copies: running out of memory is not modelled.
CopyOf(back, l, other) == <<IF back THEN "PushBackList" ELSE "PushFrontList", l, other>>

\* Wrong: the loop counts the elements of the list it copies into.
StartCopyCountsOwn(back, l, other) ==
  /\ Idling
  /\ Cardinality({e \in Elem : owner[e] = Nil}) >= len[l]
  /\ next' = Inited(next, l) /\ prev' = Inited(prev, l)
  /\ IF len[l] = 0
     THEN UNCHANGED loop /\ call' = CopyOf(back, l, other)
     ELSE /\ loop' = [back |-> back, to |-> l, other |-> other, left |-> len[l],
                      at |-> IF back THEN Front(other) ELSE Back(other), new |-> {}]
          /\ UNCHANGED call
  /\ UNCHANGED <<owner, value, len>>

StartCopy(back, l, other) ==
  /\ Idling
  /\ Cardinality({e \in Elem : owner[e] = Nil}) >= len[other]
  /\ next' = Inited(next, l) /\ prev' = Inited(prev, l)
  /\ IF len[other] = 0
     THEN UNCHANGED loop /\ call' = CopyOf(back, l, other)
     ELSE /\ loop' = [back |-> back, to |-> l, other |-> other, left |-> len[other],
                      at |-> IF back THEN Front(other) ELSE Back(other), new |-> {}]
          /\ UNCHANGED call
  /\ UNCHANGED <<owner, value, len>>

\* One turn of the loop: insert, then `i, e = i-1, e.Next()` (or e.Prev()).
CopyOne(e) ==
  /\ ~Idling
  /\ LET l == loop.to
         at == IF loop.back THEN prev[l] ELSE l
     IN  Insert(next, prev, l, e, value[loop.at], at)
  /\ IF loop.left = 1
     THEN loop' = Idle /\ call' = CopyOf(loop.back, loop.to, loop.other)
     ELSE /\ loop' = [loop EXCEPT !.left = @ - 1, !.new = @ \cup {e},
                        !.at = Step(IF loop.back THEN next' ELSE prev', owner', loop.at)]
          /\ UNCHANGED call

Next ==
  \/ \E l \in List, e \in Elem :
       \/ Remove(l, e) \/ MoveToFront(l, e) \/ MoveToBack(l, e)
       \/ \E v \in Value : PushFront(l, e, v) \/ PushBack(l, e, v)
       \/ \E mark \in Elem :
            \/ MoveBefore(l, e, mark) \/ MoveAfter(l, e, mark)
            \/ \E v \in Value : InsertBefore(l, e, v, mark) \/ InsertAfter(l, e, v, mark)
  \/ \E l \in List : Pop(l) \/ PopBack(l) \/ Clear(l)
  \/ \E l, other \in List, back \in BOOLEAN : StartCopy(back, l, other)
  \/ \E e \in Elem : CopyOne(e)

Spec == Init /\ [][Next]_vars

-----------------------------------------------------------------------------
\* The list whose ring a node is in, if any.
Ring(n) == IF n \in Elem THEN owner[n] ELSE IF next[n] = Nil THEN Nil ELSE n

\* After any sequence of calls the two links of every ring are inverse to each
\* other and stay within their ring, what is in no ring is linked to nothing, and
\* len counts the elements.
RingsAreLinked ==
  /\ \A n \in Node :
       IF Ring(n) = Nil
       THEN next[n] = Nil /\ prev[n] = Nil
       ELSE /\ next[n] \in Node /\ Ring(next[n]) = Ring(n) /\ prev[next[n]] = n
            /\ prev[n] \in Node /\ Ring(prev[n]) = Ring(n) /\ next[prev[n]] = n
  /\ \A e \in Elem : owner[e] # Nil => next[owner[e]] # Nil
  /\ \A l \in List : len[l] = Cardinality({e \in Elem : owner[e] = l})

\* The loops copy into a list from any list, also from the list itself, while it
\* grows under their cursor: they never dereference a nil cursor, and never reach
\* an element they made themselves.
CursorIsOld == loop # Idle => loop.at # Nil /\ loop.at \notin loop.new

\* The elements of a list in the order of Next: len steps from the root.
Walk(l) ==
  LET at[i \in 0..len[l]] ==
        IF i = 0 THEN l ELSE IF at[i - 1] = Nil THEN Nil ELSE next[at[i - 1]]
  IN  [i \in 1..len[l] |-> at[i]]

\* What a caller sees of a list: while a list is being copied into it, what was
\* there before.
Contents(l) ==
  LET new   == IF loop # Idle /\ loop.to = l THEN Cardinality(loop.new) ELSE 0
      shown == IF new = 0 THEN Walk(l)
               ELSE IF loop.back THEN SubSeq(Walk(l), 1, len[l] - new)
               ELSE SubSeq(Walk(l), new + 1, len[l])
  IN  [i \in 1..Len(shown) |->
         <<shown[i], IF shown[i] \in Elem THEN value[shown[i]] ELSE Nil>>]

Abstract == INSTANCE OrderedList WITH items <- [l \in List |-> Contents(l)]

\* Every call does to its lists what the comment on it says, and the copying loops
\* do it as if at once.
ImplementsOrderedList == Abstract!Spec
=============================================================================
