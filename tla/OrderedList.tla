---------------------------- MODULE OrderedList -----------------------------
(***************************************************************************)
(* What package queue promises of its lists, as its comments put it: each  *)
(* list is a sequence of elements, an element is in one list at most, and  *)
(* every call does to the sequence what its name says.  A position is      *)
(* named by the element that is there, as the callers of the package name  *)
(* it.  `call` is the last call that did anything, so that an              *)
(* implementation cannot answer one call with the effect of another.       *)
(***************************************************************************)
EXTENDS Integers, Sequences, FiniteSets

S == INSTANCE SequencesExt

CONSTANTS List, Elem, Value

VARIABLES
  items,  \* of each list: the sequence of its <<element, value>> pairs
  call

vars == <<items, call>>

Entry    == Elem \X Value
Names(s) == {s[i][1] : i \in DOMAIN s}
Has(l, e)  == e \in Names(items[l])
Fresh(e)   == \A l \in List : ~Has(l, e)
Pos(s, e)  == CHOOSE i \in DOMAIN s : s[i][1] = e
EntryOf(l, e) == items[l][Pos(items[l], e)]
Without(l, e) == S!RemoveAt(items[l], Pos(items[l], e))

Becomes(l, s) == items' = [items EXCEPT ![l] = s]

Init == items = [l \in List |-> <<>>] /\ call = <<"none">>

PushFront(l, e, v) ==
  Fresh(e) /\ call' = <<"PushFront", l, e>> /\ Becomes(l, <<<<e, v>>>> \o items[l])

PushBack(l, e, v) ==
  Fresh(e) /\ call' = <<"PushBack", l, e>> /\ Becomes(l, Append(items[l], <<e, v>>))

InsertBefore(l, e, v, mark) ==
  /\ Fresh(e) /\ Has(l, mark) /\ call' = <<"InsertBefore", l, e, mark>>
  /\ Becomes(l, S!InsertAt(items[l], Pos(items[l], mark), <<e, v>>))

InsertAfter(l, e, v, mark) ==
  /\ Fresh(e) /\ Has(l, mark) /\ call' = <<"InsertAfter", l, e, mark>>
  /\ Becomes(l, S!InsertAt(items[l], Pos(items[l], mark) + 1, <<e, v>>))

Remove(l, e) == Has(l, e) /\ call' = <<"Remove", l, e>> /\ Becomes(l, Without(l, e))

Pop(l)     == items[l] # <<>> /\ call' = <<"Pop", l>> /\ Becomes(l, Tail(items[l]))
PopBack(l) == items[l] # <<>> /\ call' = <<"PopBack", l>> /\ Becomes(l, S!Front(items[l]))

MoveToFront(l, e) ==
  /\ Has(l, e) /\ call' = <<"MoveToFront", l, e>>
  /\ Becomes(l, <<EntryOf(l, e)>> \o Without(l, e))

MoveToBack(l, e) ==
  /\ Has(l, e) /\ call' = <<"MoveToBack", l, e>>
  /\ Becomes(l, Append(Without(l, e), EntryOf(l, e)))

MoveBefore(l, e, mark) ==
  /\ Has(l, e) /\ Has(l, mark) /\ e # mark /\ call' = <<"MoveBefore", l, e, mark>>
  /\ LET rest == Without(l, e)
     IN  Becomes(l, S!InsertAt(rest, Pos(rest, mark), EntryOf(l, e)))

MoveAfter(l, e, mark) ==
  /\ Has(l, e) /\ Has(l, mark) /\ e # mark /\ call' = <<"MoveAfter", l, e, mark>>
  /\ LET rest == Without(l, e)
     IN  Becomes(l, S!InsertAt(rest, Pos(rest, mark) + 1, EntryOf(l, e)))

Clear(l) == call' = <<"Clear", l>> /\ Becomes(l, <<>>)

\* New elements with the values of a list, in its order.
Copies(l) ==
  {s \in [1..Len(items[l]) -> Entry] :
     /\ \A i \in DOMAIN s : Fresh(s[i][1]) /\ s[i][2] = items[l][i][2]
     /\ \A i, j \in DOMAIN s : i # j => s[i][1] # s[j][1]}

PushBackList(l, other) ==
  call' = <<"PushBackList", l, other>> /\ \E s \in Copies(other) : Becomes(l, items[l] \o s)

PushFrontList(l, other) ==
  call' = <<"PushFrontList", l, other>> /\ \E s \in Copies(other) : Becomes(l, s \o items[l])

Next ==
  \E l \in List :
    \/ \E e \in Elem, v \in Value :
         \/ PushFront(l, e, v) \/ PushBack(l, e, v)
         \/ \E mark \in Elem : InsertBefore(l, e, v, mark) \/ InsertAfter(l, e, v, mark)
    \/ \E e \in Elem : Remove(l, e) \/ MoveToFront(l, e) \/ MoveToBack(l, e)
    \/ \E e, mark \in Elem : MoveBefore(l, e, mark) \/ MoveAfter(l, e, mark)
    \/ Pop(l) \/ PopBack(l) \/ Clear(l)
    \/ \E other \in List : PushBackList(l, other) \/ PushFrontList(l, other)

Spec == Init /\ [][Next]_vars
=============================================================================
