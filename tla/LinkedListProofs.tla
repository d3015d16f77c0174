-------------------------- MODULE LinkedListProofs --------------------------
(***************************************************************************)
(* Proofs about LinkedList, for any lists, elements and values: its rings  *)
(* stay whole, its copying loops never reach an element they made, and it  *)
(* implements OrderedList.                                                 *)
(*                                                                         *)
(* The rings (IInv).  The invariant speaks of neighbours only, so it is    *)
(* inductive as it stands.  Every operation is lazyInit, an insertion, a   *)
(* removal, or a removal followed by an insertion: one lemma each.         *)
(*                                                                         *)
(* The order (OInv).  Neighbours do not say that a walk from the root      *)
(* meets all elements of its list, once each.  OInv says it: there is a    *)
(* sequence S[l] of the elements of each list along which the links lead.  *)
(* A call replaces one of the sequences as OrderedList replaces its items, *)
(* and a loop that is copying is described by where in S its old elements, *)
(* its copies and its cursor are.                                          *)
(***************************************************************************)
EXTENDS LinkedList, FiniteSetTheorems, SequenceTheorems, WellFoundedInduction, TLAPS

RingOf(nxt, own, n) == IF n \in Elem THEN own[n] ELSE IF nxt[n] = Nil THEN Nil ELSE n

\* RingsAreLinked of given links, without the lengths.
Links(nxt, prv, own) ==
  /\ nxt \in [Node -> Node \cup {Nil}] /\ prv \in [Node -> Node \cup {Nil}]
  /\ own \in [Elem -> List \cup {Nil}]

Linked(nxt, prv, own) ==
  /\ \A n \in Node :
       IF RingOf(nxt, own, n) = Nil
       THEN nxt[n] = Nil /\ prv[n] = Nil
       ELSE /\ nxt[n] \in Node /\ RingOf(nxt, own, nxt[n]) = RingOf(nxt, own, n)
            /\ prv[nxt[n]] = n
            /\ prv[n] \in Node /\ RingOf(nxt, own, prv[n]) = RingOf(nxt, own, n)
            /\ nxt[prv[n]] = n
  /\ \A e \in Elem : own[e] # Nil => nxt[own[e]] # Nil

Owned(own, l) == {e \in Elem : own[e] = l}
Counted(own, ln) == \A l \in List : ln[l] = Cardinality(Owned(own, l))

\* lazyInit keeps the rings whole and gives the list one.
LEMMA LazyInit ==
  ASSUME NEW l \in List, Links(next, prev, owner), Linked(next, prev, owner)
  PROVE  /\ Links(Inited(next, l), Inited(prev, l), owner)
         /\ Linked(Inited(next, l), Inited(prev, l), owner)
         /\ RingOf(Inited(next, l), owner, l) = l
<1>0. l \in Node /\ l \notin Elem /\ l # Nil
  BY ListAssumption DEF Node
<1>1. CASE next[l] # Nil
  BY <1>0, <1>1 DEF Inited, RingOf
<1>2. CASE next[l] = Nil
  <2> DEFINE n2 == [next EXCEPT ![l] = l]
             p2 == [prev EXCEPT ![l] = l]
  <2>1. Inited(next, l) = n2 /\ Inited(prev, l) = p2
    BY <1>2 DEF Inited
  <2>2. Links(n2, p2, owner) /\ n2[l] = l /\ p2[l] = l
    BY <1>0 DEF Links, Node
  <2>3. \A e \in Elem : owner[e] # l
    BY <1>0, <1>2 DEF Linked
  <2>4. \A n \in Node : n # l => n2[n] = next[n] /\ p2[n] = prev[n]
    BY DEF Links
  <2>5. \A n \in Node : n # l => RingOf(n2, owner, n) = RingOf(next, owner, n)
    BY <2>4 DEF RingOf
  <2>6. RingOf(n2, owner, l) = l
    BY <1>0, <2>2 DEF RingOf
  <2>7. \A n \in Node : RingOf(next, owner, n) # l
    BY <1>0, <1>2, <2>3 DEF RingOf
  <2>8. ASSUME NEW n \in Node
        PROVE  IF RingOf(n2, owner, n) = Nil
               THEN n2[n] = Nil /\ p2[n] = Nil
               ELSE /\ n2[n] \in Node /\ RingOf(n2, owner, n2[n]) = RingOf(n2, owner, n)
                    /\ p2[n2[n]] = n
                    /\ p2[n] \in Node /\ RingOf(n2, owner, p2[n]) = RingOf(n2, owner, n)
                    /\ n2[p2[n]] = n
    <3>1. CASE n = l
      BY <3>1, <1>0, <2>2, <2>6
    <3>2. CASE n # l /\ RingOf(next, owner, n) = Nil
      BY <3>2, <2>4, <2>5 DEF Linked
    <3>3. CASE n # l /\ RingOf(next, owner, n) # Nil
      <4>1. /\ next[n] \in Node /\ RingOf(next, owner, next[n]) = RingOf(next, owner, n)
            /\ prev[next[n]] = n
            /\ prev[n] \in Node /\ RingOf(next, owner, prev[n]) = RingOf(next, owner, n)
            /\ next[prev[n]] = n
        BY <3>3 DEF Linked
      <4>2. next[n] # l /\ prev[n] # l
        <5>1. RingOf(next, owner, l) = Nil
          BY <1>0, <1>2 DEF RingOf
        <5> QED BY <5>1, <4>1, <3>3
      <4> QED BY <4>1, <4>2, <3>3, <2>4, <2>5
    <3> QED BY <3>1, <3>2, <3>3
  <2>9. \A e \in Elem : owner[e] # Nil => n2[owner[e]] # Nil
    BY <2>3, <2>4 DEF Linked, Links, Node
  <2>10. Linked(n2, p2, owner)
    BY <2>8, <2>9 DEF Linked
  <2> QED BY <2>1, <2>2, <2>6, <2>10
<1> QED BY <1>1, <1>2

\* An element of no list, inserted behind a node of a ring.
LEMMA InsertLinks ==
  ASSUME NEW nxt, NEW prv, NEW own, NEW l \in List, NEW e \in Elem, NEW at \in Node,
         Links(nxt, prv, own), Linked(nxt, prv, own),
         own[e] = Nil, RingOf(nxt, own, at) = l
  PROVE  LET n2 == [nxt EXCEPT ![e] = nxt[at], ![at] = e]
             p2 == [prv EXCEPT ![e] = at, ![nxt[at]] = e]
             o2 == [own EXCEPT ![e] = l]
         IN  Links(n2, p2, o2) /\ Linked(n2, p2, o2)
<1> DEFINE n2 == [nxt EXCEPT ![e] = nxt[at], ![at] = e]
           p2 == [prv EXCEPT ![e] = at, ![nxt[at]] = e]
           o2 == [own EXCEPT ![e] = l]
           s  == nxt[at]
<1>1. /\ l # Nil /\ l \in Node /\ e \in Node /\ e # l /\ RingOf(nxt, own, e) = Nil
      /\ \A m \in List : m \notin Elem
  BY ListAssumption DEF RingOf, Node
<1>2. s \in Node /\ RingOf(nxt, own, s) = l /\ prv[s] = at /\ at # e /\ s # e
  BY <1>1 DEF Linked
<1>3. Links(n2, p2, o2)
  BY <1>1, <1>2 DEF Links, Node
<1>4. /\ n2[e] = s /\ n2[at] = e /\ p2[e] = at /\ p2[s] = e
      /\ \A n \in Node : n # e /\ n # at => n2[n] = nxt[n]
      /\ \A n \in Node : n # e /\ n # s => p2[n] = prv[n]
      /\ o2[e] = l /\ \A d \in Elem : d # e => o2[d] = own[d]
  BY <1>1, <1>2 DEF Links
<1>5. RingOf(n2, o2, e) = l
  BY <1>4 DEF RingOf
<1>6. \A n \in Node : n # e => RingOf(n2, o2, n) = RingOf(nxt, own, n)
  <2>1. \A n \in Node : n \notin Elem => (n2[n] = Nil <=> nxt[n] = Nil)
    BY <1>1, <1>2, <1>4, ListAssumption DEF Node
  <2>2. ASSUME NEW n \in Node, n # e
        PROVE  RingOf(n2, o2, n) = RingOf(nxt, own, n)
    <3> HIDE DEF n2, p2, o2
    <3>1. n \in Elem => o2[n] = own[n]
      BY <2>2, <1>4
    <3> QED BY <2>1, <3>1 DEF RingOf
  <2> QED BY <2>2
<1>7. ASSUME NEW n \in Node
      PROVE  IF RingOf(n2, o2, n) = Nil
             THEN n2[n] = Nil /\ p2[n] = Nil
             ELSE /\ n2[n] \in Node /\ RingOf(n2, o2, n2[n]) = RingOf(n2, o2, n)
                  /\ p2[n2[n]] = n
                  /\ p2[n] \in Node /\ RingOf(n2, o2, p2[n]) = RingOf(n2, o2, n)
                  /\ n2[p2[n]] = n
  <2>1. CASE n = e
    BY <2>1, <1>1, <1>2, <1>4, <1>5, <1>6
  <2>2. CASE n # e /\ RingOf(nxt, own, n) = Nil
    BY <2>2, <1>1, <1>2, <1>4, <1>6 DEF Linked
  <2>3. CASE n # e /\ RingOf(nxt, own, n) # Nil
    <3>1. /\ nxt[n] \in Node /\ RingOf(nxt, own, nxt[n]) = RingOf(nxt, own, n)
          /\ prv[nxt[n]] = n
          /\ prv[n] \in Node /\ RingOf(nxt, own, prv[n]) = RingOf(nxt, own, n)
          /\ nxt[prv[n]] = n
      BY <2>3 DEF Linked
    <3>2. nxt[n] # e /\ prv[n] # e
      BY <3>1, <2>3, <1>1
    <3>3. RingOf(n2, o2, n) = RingOf(nxt, own, n)
      BY <2>3, <1>6
    <3>4. n2[n] \in Node /\ RingOf(n2, o2, n2[n]) = RingOf(n2, o2, n) /\ p2[n2[n]] = n
      <4>1. CASE n = at
        BY <3>1, <3>3, <4>1, <1>1, <1>2, <1>4, <1>5
      <4>2. CASE n # at
        <5>1. n2[n] = nxt[n] /\ nxt[n] # s
          BY <2>3, <3>1, <4>2, <1>2, <1>4
        <5> QED BY <3>1, <3>2, <3>3, <5>1, <1>4, <1>6
      <4> QED BY <4>1, <4>2
    <3>5. p2[n] \in Node /\ RingOf(n2, o2, p2[n]) = RingOf(n2, o2, n) /\ n2[p2[n]] = n
      <4>1. CASE n = s
        BY <3>1, <3>3, <4>1, <1>1, <1>2, <1>4, <1>5
      <4>2. CASE n # s
        <5>1. p2[n] = prv[n] /\ prv[n] # at
          BY <2>3, <3>1, <4>2, <1>2, <1>4
        <5> QED BY <3>1, <3>2, <3>3, <5>1, <1>4, <1>6
      <4> QED BY <4>1, <4>2
    <3> QED BY <3>3, <3>4, <3>5, <2>3
  <2> QED BY <2>1, <2>2, <2>3
<1>8. ASSUME NEW d \in Elem, o2[d] # Nil
      PROVE  n2[o2[d]] # Nil
  <2>1. o2[d] \in List /\ o2[d] \in Node /\ o2[d] # e
    BY <1>8, <1>1, <1>3 DEF Links, Node
  <2>2. nxt[l] # Nil
    BY <1>1, ListAssumption DEF RingOf, Linked
  <2>3. nxt[o2[d]] # Nil
    BY <1>8, <1>4, <2>2 DEF Linked
  <2> QED BY <2>1, <2>3, <1>1, <1>4, ListAssumption DEF Node
<1> QED BY <1>3, <1>7, <1>8 DEF Linked

\* An element taken out of its ring.
LEMMA UnlinkLinks ==
  ASSUME NEW nxt, NEW prv, NEW own, NEW e \in Elem,
         Links(nxt, prv, own), Linked(nxt, prv, own), own[e] # Nil
  PROVE  LET n2 == [nxt EXCEPT ![prv[e]] = nxt[e], ![e] = Nil]
             p2 == [prv EXCEPT ![nxt[e]] = prv[e], ![e] = Nil]
             o2 == [own EXCEPT ![e] = Nil]
         IN  /\ Links(n2, p2, o2) /\ Linked(n2, p2, o2)
             /\ \A n \in Node : n # e => RingOf(n2, o2, n) = RingOf(nxt, own, n)
<1> DEFINE n2 == [nxt EXCEPT ![prv[e]] = nxt[e], ![e] = Nil]
           p2 == [prv EXCEPT ![nxt[e]] = prv[e], ![e] = Nil]
           o2 == [own EXCEPT ![e] = Nil]
           a  == prv[e]
           s  == nxt[e]
           l  == own[e]
<1>1. /\ l \in List /\ l \in Node /\ e \in Node /\ e # l /\ l # Nil /\ Nil \notin Node
      /\ RingOf(nxt, own, e) = l
  BY ListAssumption DEF RingOf, Node, Links
<1>2. /\ s \in Node /\ RingOf(nxt, own, s) = l /\ prv[s] = e
      /\ a \in Node /\ RingOf(nxt, own, a) = l /\ nxt[a] = e
  BY <1>1 DEF Linked
<1>3. (a = e <=> s = e) /\ a # Nil /\ s # Nil
  BY <1>1, <1>2
<1>4. Links(n2, p2, o2)
  BY <1>1, <1>2 DEF Links, Node
<1>5. /\ n2[e] = Nil /\ p2[e] = Nil /\ o2[e] = Nil
      /\ a # e => n2[a] = s /\ p2[s] = a
      /\ \A n \in Node : n # e /\ n # a => n2[n] = nxt[n]
      /\ \A n \in Node : n # e /\ n # s => p2[n] = prv[n]
      /\ \A d \in Elem : d # e => o2[d] = own[d]
  BY <1>1, <1>2, <1>3 DEF Links
<1>6. RingOf(n2, o2, e) = Nil
  BY <1>5 DEF RingOf
<1>7. \A n \in Node : n # e => RingOf(n2, o2, n) = RingOf(nxt, own, n)
  <2>1. \A n \in Node : n # e => (n2[n] = Nil <=> nxt[n] = Nil)
    BY <1>1, <1>2, <1>3, <1>5
  <2> QED BY <2>1, <1>5 DEF RingOf
<1>8. ASSUME NEW n \in Node
      PROVE  IF RingOf(n2, o2, n) = Nil
             THEN n2[n] = Nil /\ p2[n] = Nil
             ELSE /\ n2[n] \in Node /\ RingOf(n2, o2, n2[n]) = RingOf(n2, o2, n)
                  /\ p2[n2[n]] = n
                  /\ p2[n] \in Node /\ RingOf(n2, o2, p2[n]) = RingOf(n2, o2, n)
                  /\ n2[p2[n]] = n
  <2>1. CASE n = e
    BY <2>1, <1>5, <1>6
  <2>2. CASE n # e /\ RingOf(nxt, own, n) = Nil
    BY <2>2, <1>1, <1>2, <1>5, <1>7 DEF Linked
  <2>3. CASE n # e /\ RingOf(nxt, own, n) # Nil
    <3>1. /\ nxt[n] \in Node /\ RingOf(nxt, own, nxt[n]) = RingOf(nxt, own, n)
          /\ prv[nxt[n]] = n
          /\ prv[n] \in Node /\ RingOf(nxt, own, prv[n]) = RingOf(nxt, own, n)
          /\ nxt[prv[n]] = n
      BY <2>3 DEF Linked
    <3>2. nxt[n] = e <=> n = a
      BY <3>1, <1>2
    <3>3. prv[n] = e <=> n = s
      BY <3>1, <1>2
    <3>4. n2[n] \in Node /\ RingOf(n2, o2, n2[n]) = RingOf(n2, o2, n) /\ p2[n2[n]] = n
      <4>1. CASE n = a
        BY <3>1, <4>1, <2>3, <1>1, <1>2, <1>3, <1>5, <1>7
      <4>2. CASE n # a
        <5>1. n2[n] = nxt[n] /\ nxt[n] # e /\ nxt[n] # s
          BY <2>3, <3>1, <3>2, <4>2, <1>2, <1>5
        <5> QED BY <2>3, <3>1, <5>1, <1>5, <1>7
      <4> QED BY <4>1, <4>2
    <3>5. p2[n] \in Node /\ RingOf(n2, o2, p2[n]) = RingOf(n2, o2, n) /\ n2[p2[n]] = n
      <4>1. CASE n = s
        BY <3>1, <4>1, <2>3, <1>1, <1>2, <1>3, <1>5, <1>7
      <4>2. CASE n # s
        <5>1. p2[n] = prv[n] /\ prv[n] # e /\ prv[n] # a
          BY <2>3, <3>1, <3>3, <4>2, <1>2, <1>5
        <5> QED BY <2>3, <3>1, <5>1, <1>5, <1>7
      <4> QED BY <4>1, <4>2
    <3> QED BY <3>4, <3>5, <2>3, <1>7
  <2> QED BY <2>1, <2>2, <2>3
<1>9. ASSUME NEW d \in Elem, o2[d] # Nil
      PROVE  n2[o2[d]] # Nil
  <2>1. d # e /\ o2[d] = own[d] /\ own[d] \in List /\ own[d] \in Node /\ own[d] # e
    BY <1>9, <1>5, ListAssumption DEF Links, Node
  <2>2. nxt[own[d]] # Nil
    BY <1>9, <2>1 DEF Linked
  <2>3. CASE own[d] = a
    BY <2>1, <2>3, <1>1, <1>2, <1>3, <1>5
  <2>4. CASE own[d] # a
    BY <2>1, <2>2, <2>4, <1>5
  <2> QED BY <2>3, <2>4
<1> QED BY <1>4, <1>7, <1>8, <1>9 DEF Linked

\* A list closed on its root, and its elements left behind.
LEMMA ClearLinks ==
  ASSUME NEW l \in List, Links(next, prev, owner), Linked(next, prev, owner), Clear(l)
  PROVE  Links(next', prev', owner') /\ Linked(next', prev', owner')
<1> DEFINE gone == {e \in Elem : owner[e] = l}
<1>1. l \in Node /\ l \notin Elem /\ l # Nil /\ \A m \in List : m \notin Elem
  BY ListAssumption DEF Node
<1>2. Links(next', prev', owner')
  BY <1>1 DEF Clear, Links, Node
<1>3. /\ next'[l] = l /\ prev'[l] = l
      /\ \A n \in gone : next'[n] = Nil /\ prev'[n] = Nil /\ owner'[n] = Nil
      /\ \A n \in Node : n # l /\ n \notin gone => next'[n] = next[n] /\ prev'[n] = prev[n]
      /\ \A e \in Elem : e \notin gone => owner'[e] = owner[e]
  BY <1>1 DEF Clear, Node
<1>4. RingOf(next', owner', l) = l
  BY <1>1, <1>3 DEF RingOf
<1>5. \A n \in gone : RingOf(next', owner', n) = Nil
  BY <1>3 DEF RingOf
<1>6. ASSUME NEW n \in Node, n # l, n \notin gone
      PROVE  /\ RingOf(next', owner', n) = RingOf(next, owner, n)
             /\ RingOf(next, owner, n) # l
  BY <1>1, <1>3, <1>6 DEF RingOf
<1>7. ASSUME NEW n \in Node, RingOf(next, owner, n) = l
      PROVE  n = l \/ n \in gone
  BY <1>1, <1>7 DEF RingOf
<1>8. ASSUME NEW n \in Node
      PROVE  IF RingOf(next', owner', n) = Nil
             THEN next'[n] = Nil /\ prev'[n] = Nil
             ELSE /\ next'[n] \in Node /\ RingOf(next', owner', next'[n]) = RingOf(next', owner', n)
                  /\ prev'[next'[n]] = n
                  /\ prev'[n] \in Node /\ RingOf(next', owner', prev'[n]) = RingOf(next', owner', n)
                  /\ next'[prev'[n]] = n
  <2>1. CASE n = l
    BY <2>1, <1>1, <1>3, <1>4
  <2>2. CASE n \in gone
    BY <2>2, <1>3, <1>5
  <2>3. CASE n # l /\ n \notin gone /\ RingOf(next, owner, n) = Nil
    BY <2>3, <1>3, <1>6 DEF Linked
  <2>4. CASE n # l /\ n \notin gone /\ RingOf(next, owner, n) # Nil
    <3>1. /\ next[n] \in Node /\ RingOf(next, owner, next[n]) = RingOf(next, owner, n)
          /\ prev[next[n]] = n
          /\ prev[n] \in Node /\ RingOf(next, owner, prev[n]) = RingOf(next, owner, n)
          /\ next[prev[n]] = n
      BY <2>4 DEF Linked
    <3>2. RingOf(next, owner, n) # l
      BY <2>4, <1>6
    <3>3. \A m \in gone : RingOf(next, owner, m) = l
      BY DEF RingOf
    <3>4. next[n] \notin gone /\ prev[n] \notin gone
      BY <3>1, <3>2, <3>3
    <3>5. next[n] # l /\ prev[n] # l
      <4>1. next[l] # Nil => RingOf(next, owner, l) = l
        BY <1>1 DEF RingOf
      <4>2. next[l] = Nil => RingOf(next, owner, l) = Nil
        BY <1>1 DEF RingOf
      <4> QED BY <4>1, <4>2, <3>1, <3>2, <2>4
    <3> QED BY <3>1, <3>4, <3>5, <2>4, <1>3, <1>6
  <2> QED BY <2>1, <2>2, <2>3, <2>4
<1>9. ASSUME NEW e \in Elem, owner'[e] # Nil
      PROVE  next'[owner'[e]] # Nil
  <2>1. e \notin gone /\ owner'[e] = owner[e] /\ owner[e] \in List /\ owner[e] # l
    BY <1>9, <1>3 DEF Links
  <2> QED BY <2>1, <1>1, <1>3, <1>9 DEF Linked, Node
<1> QED BY <1>2, <1>8, <1>9 DEF Linked

-----------------------------------------------------------------------------
\* An element that joins a list is one more, one that leaves is one less.
LEMMA CountInsert ==
  ASSUME NEW own, NEW ln, NEW e \in Elem, NEW l \in List,
         own \in [Elem -> List \cup {Nil}], ln \in [List -> Nat], Counted(own, ln),
         own[e] = Nil
  PROVE  LET o2 == [own EXCEPT ![e] = l]
             n2 == [ln EXCEPT ![l] = @ + 1]
         IN  n2 \in [List -> Nat] /\ Counted(o2, n2)
<1> DEFINE o2 == [own EXCEPT ![e] = l]
           n2 == [ln EXCEPT ![l] = @ + 1]
<1>1. \A m \in List : IsFiniteSet(Owned(own, m))
  BY ListAssumption, FS_Subset DEF Owned
<1>2. Nil \notin List
  BY ListAssumption
<1>3. Owned(o2, l) = Owned(own, l) \cup {e} /\ e \notin Owned(own, l)
  BY <1>2 DEF Owned
<1>4. Cardinality(Owned(o2, l)) = Cardinality(Owned(own, l)) + 1
  BY <1>1, <1>3, FS_AddElement
<1>5. \A m \in List : m # l => Owned(o2, m) = Owned(own, m)
  BY <1>2 DEF Owned
<1>6. ASSUME NEW m \in List PROVE n2[m] = Cardinality(Owned(o2, m))
  BY <1>4, <1>5 DEF Counted
<1>7. n2 \in [List -> Nat]
  OBVIOUS
<1> QED BY <1>6, <1>7 DEF Counted

\* Taking an element out of its ring leaves one member fewer.
LEMMA CountUnlink ==
  ASSUME NEW own, NEW ln, NEW e \in Elem, NEW l \in List,
         own \in [Elem -> List \cup {Nil}], ln \in [List -> Nat], Counted(own, ln),
         own[e] = l
  PROVE  LET o2 == [own EXCEPT ![e] = Nil]
             n2 == [ln EXCEPT ![l] = @ - 1]
         IN  n2 \in [List -> Nat] /\ Counted(o2, n2)
<1> DEFINE o2 == [own EXCEPT ![e] = Nil]
           n2 == [ln EXCEPT ![l] = @ - 1]
<1>1. \A m \in List : IsFiniteSet(Owned(own, m))
  BY ListAssumption, FS_Subset DEF Owned
<1>2. Nil \notin List
  BY ListAssumption
<1>3. Owned(o2, l) = Owned(own, l) \ {e} /\ e \in Owned(own, l)
  BY <1>2 DEF Owned
<1>4. Cardinality(Owned(o2, l)) = Cardinality(Owned(own, l)) - 1
  BY <1>1, <1>3, FS_RemoveElement
<1>5. \A m \in List : m # l => Owned(o2, m) = Owned(own, m)
  BY <1>2 DEF Owned
<1>6. ASSUME NEW m \in List PROVE n2[m] = Cardinality(Owned(o2, m))
  BY <1>4, <1>5 DEF Counted
<1>7. IsFiniteSet(Owned(o2, l))
  BY <1>1, <1>3, FS_Subset
<1>8. Cardinality(Owned(o2, l)) \in Nat
  BY <1>7, FS_CardinalityType
<1>9. n2 \in [List -> Nat]
  BY <1>6, <1>8
<1> QED BY <1>6, <1>9 DEF Counted

-----------------------------------------------------------------------------
\* The inductive invariant.  A copying loop has initialised the list it copies to;
\* nothing else is needed of it, in particular not where its cursor is.
LoopOK ==
  loop # Idle =>
    /\ DOMAIN loop = {"back", "to", "other", "at", "left", "new"}
    /\ loop.to \in List /\ next[loop.to] # Nil

IInv ==
  /\ Links(next, prev, owner) /\ Linked(next, prev, owner)
  /\ len \in [List -> Nat] /\ Counted(owner, len)
  /\ LoopOK

\* Fresh lists satisfy the invariant.
LEMMA InvInit == Init => IInv
<1> SUFFICES ASSUME Init PROVE IInv
  OBVIOUS
<1>1. Links(next, prev, owner)
  BY DEF Init, Links
<1>2. Linked(next, prev, owner)
  BY DEF Init, Linked, RingOf, Node
<1>3. \A l \in List : Owned(owner, l) = {}
  BY ListAssumption DEF Init, Owned
<1>4. Counted(owner, len) /\ len \in [List -> Nat]
  BY <1>3, FS_EmptySet DEF Init, Counted
<1> QED BY <1>1, <1>2, <1>4 DEF Init, IInv, LoopOK

\* A call of insertValue behind a node of the list's ring.
LEMMA InsertInv ==
  ASSUME IInv, NEW nxt, NEW prv, NEW l \in List, NEW e \in Elem, NEW v, NEW at \in Node,
         Links(nxt, prv, owner), Linked(nxt, prv, owner), RingOf(nxt, owner, at) = l,
         Insert(nxt, prv, l, e, v, at)
  PROVE  /\ Links(next', prev', owner') /\ Linked(next', prev', owner')
         /\ len' \in [List -> Nat] /\ Counted(owner', len')
<1>1. owner[e] = Nil
  BY DEF Insert
<1>2. Links(next', prev', owner') /\ Linked(next', prev', owner')
  BY <1>1, InsertLinks DEF Insert
<1>3. len' \in [List -> Nat] /\ Counted(owner', len')
  BY <1>1, CountInsert DEF Insert, IInv, Links
<1> QED BY <1>2, <1>3

\* A call of remove with an element of the list.
LEMMA UnlinkInv ==
  ASSUME IInv, NEW l \in List, NEW e \in Elem, owner[e] = l, Unlink(l, e)
  PROVE  /\ Links(next', prev', owner') /\ Linked(next', prev', owner')
         /\ len' \in [List -> Nat] /\ Counted(owner', len')
<1>1. owner[e] # Nil
  BY ListAssumption
<1>2. Links(next', prev', owner') /\ Linked(next', prev', owner')
  BY <1>1, UnlinkLinks DEF Unlink, IInv
<1>3. len' \in [List -> Nat] /\ Counted(owner', len')
  BY CountUnlink DEF Unlink, IInv, Links
<1> QED BY <1>2, <1>3

\* move(e, at) is a removal and an insertion.
LEMMA RelinkSteps ==
  ASSUME IInv, NEW e \in Elem, NEW at \in Node, e # at, Relink(e, at)
  PROVE  LET n2 == [next EXCEPT ![prev[e]] = next[e], ![e] = Nil]
             p2 == [prev EXCEPT ![next[e]] = prev[e], ![e] = Nil]
         IN  /\ next' = [n2 EXCEPT ![e] = n2[at], ![at] = e]
             /\ prev' = [p2 EXCEPT ![e] = at, ![n2[at]] = e]
<1> DEFINE n2  == [next EXCEPT ![prev[e]] = next[e], ![e] = Nil]
           p2  == [prev EXCEPT ![next[e]] = prev[e], ![e] = Nil]
           nxt == [next EXCEPT ![prev[e]] = next[e]]
           prv == [prev EXCEPT ![next[e]] = prev[e]]
<1>1. /\ next' = [nxt EXCEPT ![e] = nxt[at], ![at] = e]
      /\ prev' = [prv EXCEPT ![e] = at, ![nxt[at]] = e]
  BY DEF Relink
<1>2. n2 = [nxt EXCEPT ![e] = Nil] /\ p2 = [prv EXCEPT ![e] = Nil]
  OBVIOUS
<1>3. n2[at] = nxt[at]
  BY <1>2 DEF IInv, Links
<1> HIDE DEF nxt, prv, n2, p2
<1>4. [n2 EXCEPT ![e] = nxt[at], ![at] = e] = [nxt EXCEPT ![e] = nxt[at], ![at] = e]
  BY <1>2
<1>5. [p2 EXCEPT ![e] = at, ![nxt[at]] = e] = [prv EXCEPT ![e] = at, ![nxt[at]] = e]
  BY <1>2
<1> QED BY <1>1, <1>3, <1>4, <1>5 DEF n2, p2

\* A call of move: the element is taken out, and put behind a node of its own list.
LEMMA RelinkInv ==
  ASSUME IInv, NEW e \in Elem, NEW at \in Node, owner[e] # Nil,
         RingOf(next, owner, at) = owner[e], Relink(e, at)
  PROVE  /\ Links(next', prev', owner') /\ Linked(next', prev', owner')
         /\ len' = len /\ owner' = owner
<1>1. len' = len /\ owner' = owner
  BY DEF Relink
<1>2. CASE e = at
  BY <1>1, <1>2 DEF Relink, IInv
<1>3. CASE e # at
  <2> DEFINE n2 == [next EXCEPT ![prev[e]] = next[e], ![e] = Nil]
             p2 == [prev EXCEPT ![next[e]] = prev[e], ![e] = Nil]
             o2 == [owner EXCEPT ![e] = Nil]
             l  == owner[e]
             n3 == [n2 EXCEPT ![e] = n2[at], ![at] = e]
             p3 == [p2 EXCEPT ![e] = at, ![n2[at]] = e]
             o3 == [o2 EXCEPT ![e] = l]
  <2>1. /\ Links(n2, p2, o2) /\ Linked(n2, p2, o2) /\ RingOf(n2, o2, at) = l
    BY <1>3, UnlinkLinks DEF IInv
  <2>2. l \in List /\ o2[e] = Nil
    BY DEF IInv, Links
  <2>3. Links(n3, p3, o3) /\ Linked(n3, p3, o3)
    BY <2>1, <2>2, InsertLinks
  <2>4. o3 = owner
    BY DEF IInv, Links
  <2>5. next' = n3 /\ prev' = p3
    BY <1>3, RelinkSteps
  <2> QED BY <1>1, <2>3, <2>4, <2>5
<1> QED BY <1>1, <1>2, <1>3

\* Neighbours of an element of a list are in the list's ring.
LEMMA Neighbours ==
  ASSUME IInv, NEW l \in List
  PROVE  /\ \A e \in Elem : owner[e] = l =>
              /\ prev[e] \in Node /\ RingOf(next, owner, prev[e]) = l
              /\ e \in Node /\ RingOf(next, owner, e) = l
              /\ owner[e] # Nil /\ next[l] # Nil
         /\ l \in Node
         /\ next[l] # Nil => /\ RingOf(next, owner, l) = l
                             /\ prev[l] \in Node /\ RingOf(next, owner, prev[l]) = l
  BY ListAssumption DEF IInv, Linked, RingOf, Node

\* Every call, and every step of a copying loop, keeps the invariant.
LEMMA InvNext == IInv /\ [Next]_vars => IInv'
<1> SUFFICES ASSUME IInv, [Next]_vars PROVE IInv'
  OBVIOUS
<1> DEFINE Rings ==
      /\ Links(next, prev, owner) /\ Linked(next, prev, owner)
      /\ len \in [List -> Nat] /\ Counted(owner, len)
<1>0. Rings
  BY DEF IInv
<1>1. ASSUME NEW l \in List, NEW e \in Elem, Remove(l, e)
      PROVE  IInv'
  <2>1. Rings'
    BY <1>1, UnlinkInv DEF Remove
  <2> QED BY <2>1, <1>1 DEF Remove, Unlink, Idling, IInv, LoopOK
<1>2. ASSUME NEW l \in List, Pop(l) \/ PopBack(l)
      PROVE  IInv'
  <2>1. PICK e \in Elem : owner[e] = l /\ Unlink(l, e)
    BY <1>2 DEF Pop, PopBack, Take
  <2>2. Rings'
    BY <2>1, UnlinkInv
  <2> QED BY <2>1, <2>2, <1>2 DEF Pop, PopBack, Unlink, Idling, IInv, LoopOK
<1>3. ASSUME NEW l \in List, NEW e \in Elem, MoveToFront(l, e) \/ MoveToBack(l, e)
      PROVE  IInv'
  <2>1. PICK at \in Node : owner[e] # Nil /\ RingOf(next, owner, at) = owner[e] /\ Relink(e, at)
    BY <1>3, Neighbours DEF MoveToFront, MoveToBack
  <2>2. Rings'
    BY <2>1, <1>0, RelinkInv
  <2> QED BY <2>1, <2>2, <1>3 DEF MoveToFront, MoveToBack, Relink, Idling, IInv, LoopOK
<1>4. ASSUME NEW l \in List, NEW e \in Elem, NEW mark \in Elem,
             MoveBefore(l, e, mark) \/ MoveAfter(l, e, mark)
      PROVE  IInv'
  <2>1. PICK at \in Node : owner[e] # Nil /\ RingOf(next, owner, at) = owner[e] /\ Relink(e, at)
    BY <1>4, Neighbours DEF MoveBefore, MoveAfter
  <2>2. Rings'
    BY <2>1, <1>0, RelinkInv
  <2> QED BY <2>1, <2>2, <1>4 DEF MoveBefore, MoveAfter, Relink, Idling, IInv, LoopOK
<1>5. ASSUME NEW l \in List, NEW e \in Elem, NEW v \in Value, PushFront(l, e, v) \/ PushBack(l, e, v)
      PROVE  IInv'
  <2> DEFINE nxt == Inited(next, l)
             prv == Inited(prev, l)
  <2>1. Links(nxt, prv, owner) /\ Linked(nxt, prv, owner) /\ RingOf(nxt, owner, l) = l
    BY <1>0, LazyInit
  <2>2. l \in Node /\ l # Nil
    BY ListAssumption DEF Node
  <2>3. prv[l] \in Node /\ RingOf(nxt, owner, prv[l]) = l
    BY <2>1, <2>2 DEF Linked
  <2>4. PICK at \in Node : RingOf(nxt, owner, at) = l /\ Insert(nxt, prv, l, e, v, at)
    BY <1>5, <2>1, <2>2, <2>3 DEF PushFront, PushBack
  <2>5. Rings'
    <3> HIDE DEF nxt, prv
    <3> QED BY <2>1, <2>4, InsertInv
  <2> QED BY <2>5, <1>5 DEF PushFront, PushBack, Idling, IInv, LoopOK
<1>6. ASSUME NEW l \in List, NEW e \in Elem, NEW mark \in Elem, NEW v \in Value,
             InsertBefore(l, e, v, mark) \/ InsertAfter(l, e, v, mark)
      PROVE  IInv'
  <2>1. PICK at \in Node : RingOf(next, owner, at) = l /\ Insert(next, prev, l, e, v, at)
    BY <1>6, Neighbours DEF InsertBefore, InsertAfter
  <2>2. Rings'
    BY <2>1, <1>0, InsertInv
  <2> QED BY <2>2, <1>6 DEF InsertBefore, InsertAfter, Idling, IInv, LoopOK
<1>7. ASSUME NEW l \in List, Clear(l)
      PROVE  IInv'
  <2>1. Links(next', prev', owner') /\ Linked(next', prev', owner')
    BY <1>0, <1>7, ClearLinks
  <2>2. len' \in [List -> Nat]
    BY <1>0, <1>7 DEF Clear
  <2>3. Counted(owner', len')
    <3>1. Owned(owner', l) = {} /\ len'[l] = 0
      BY <1>0, <1>7, ListAssumption DEF Clear, Owned
    <3>2. \A m \in List : m # l => Owned(owner', m) = Owned(owner, m) /\ len'[m] = len[m]
      BY <1>0, <1>7, ListAssumption DEF Clear, Owned
    <3> QED BY <1>0, <3>1, <3>2, FS_EmptySet DEF Counted
  <2> QED BY <2>1, <2>2, <2>3, <1>7 DEF Clear, Idling, IInv, LoopOK
<1>8. ASSUME NEW l \in List, NEW other \in List, NEW back \in BOOLEAN, StartCopy(back, l, other)
      PROVE  IInv'
  <2>1. next' = Inited(next, l) /\ prev' = Inited(prev, l) /\ owner' = owner /\ len' = len
    BY <1>8 DEF StartCopy
  <2>2. Rings' /\ RingOf(next', owner', l) = l
    BY <1>0, <2>1, LazyInit
  <2>3. next'[l] # Nil
    BY <2>2, ListAssumption DEF RingOf
  <2>4. LoopOK'
    BY <2>3, <1>8 DEF StartCopy, Idling, LoopOK
  <2> QED BY <2>2, <2>4 DEF IInv
<1>9. ASSUME NEW e \in Elem, CopyOne(e)
      PROVE  IInv'
  <2> DEFINE l == loop.to
  <2>1. /\ l \in List /\ next[l] # Nil
        /\ DOMAIN loop = {"back", "to", "other", "at", "left", "new"}
    BY <1>9 DEF CopyOne, Idling, IInv, LoopOK
  <2>2. PICK at \in Node : /\ RingOf(next, owner, at) = l
                           /\ Insert(next, prev, l, e, value[loop.at], at)
    BY <1>9, <2>1, Neighbours DEF CopyOne
  <2>3. Rings'
    BY <1>0, <2>1, <2>2, InsertInv
  <2>4. owner'[e] = l /\ l # Nil
    BY <1>0, <2>1, <2>2, ListAssumption DEF Insert, Links
  <2>5. next'[l] # Nil
    BY <2>3, <2>4 DEF Linked
  <2>6. LoopOK'
    <3>1. loop' = Idle \/ (loop'.to = l /\ DOMAIN loop' = DOMAIN loop)
      BY <1>9, <2>1 DEF CopyOne
    <3> QED BY <3>1, <2>1, <2>5 DEF LoopOK
  <2> QED BY <2>3, <2>6 DEF IInv
<1>10. CASE UNCHANGED vars
  BY <1>10 DEF vars, IInv, LoopOK, Links, Linked, Counted, RingOf, Owned
<1> QED
  BY <1>1, <1>2, <1>3, <1>4, <1>5, <1>6, <1>7, <1>8, <1>9, <1>10 DEF Next

\* For all lists, elements and values: whatever sequence of calls is made on the lists
\* of package queue, the links of every ring are inverse to each other and stay within
\* the ring, and List.len counts its elements.
THEOREM RingsStayLinked == Spec => []RingsAreLinked
<1>1. IInv => RingsAreLinked
  BY DEF IInv, Links, Linked, Counted, RingsAreLinked, Ring, RingOf, Owned
<1> QED BY <1>1, InvInit, InvNext, PTL DEF Spec

-----------------------------------------------------------------------------
\* A set of numbers has a smallest: what inductions below are made of.
LEMMA Smallest ==
  ASSUME NEW T \in SUBSET Nat, T # {}
  PROVE  \E n \in T : \A m \in T : n <= m
<1> DEFINE R == {ss \in Nat \X Nat : ss[1] < ss[2]}
<1>1. IsWellFoundedOn(R, Nat)
  BY NatLessThanWellFounded DEF OpToRel
<1>2. PICK x \in T : \A y \in T : ~(<<y, x>> \in R)
  <2> HIDE DEF R
  <2> QED BY <1>1, WFMin
<1>3. ASSUME NEW y \in T PROVE x <= y
  <2>1. ~(<<y, x>> \in R)
    BY <1>2
  <2> QED BY <2>1
<1> QED BY <1>3

\* Insertion into a sequence and removal from one, as the community modules define them.
LEMMA InsertedAt ==
  ASSUME NEW T, NEW s \in Seq(T), NEW x \in T, NEW k \in 1..(Len(s) + 1)
  PROVE  /\ Abstract!S!InsertAt(s, k, x) \in Seq(T)
         /\ Len(Abstract!S!InsertAt(s, k, x)) = Len(s) + 1
         /\ \A i \in 1..(Len(s) + 1) :
              Abstract!S!InsertAt(s, k, x)[i] = IF i < k THEN s[i] ELSE IF i = k THEN x ELSE s[i - 1]
<1> DEFINE a == SubSeq(s, 1, k - 1)
           b == SubSeq(s, k, Len(s))
<1>1. Abstract!S!InsertAt(s, k, x) = a \o <<x>> \o b
  BY DEF Abstract!S!InsertAt
<1>2. Len(s) \in Nat /\ k \in Int /\ k - 1 \in Int /\ 1 \in Int /\ \A i \in 1..Len(s) : s[i] \in T
  BY LenProperties, ElementOfSeq
<1>3. /\ a \in Seq(T) /\ Len(a) = k - 1
      /\ \A i \in 1..(k - 1) : a[i] = s[i]
  <2>1. \A i \in 1..(k - 1) : s[i] \in T
    BY <1>2
  <2> HIDE DEF a
  <2>2. /\ SubSeq(s, 1, k - 1) \in Seq(T)
        /\ Len(SubSeq(s, 1, k - 1)) = IF 1 <= k - 1 THEN k - 1 - 1 + 1 ELSE 0
        /\ \A i \in 1..(k - 1 - 1 + 1) : SubSeq(s, 1, k - 1)[i] = s[1 + i - 1]
    BY <2>1, <1>2, SubSeqProperties
  <2> QED BY <2>2, <1>2 DEF a
<1>4. /\ b \in Seq(T) /\ Len(b) = Len(s) + 1 - k
      /\ \A i \in 1..(Len(s) + 1 - k) : b[i] = s[k + i - 1]
  <2>1. \A i \in k..Len(s) : s[i] \in T
    BY <1>2
  <2>2. /\ SubSeq(s, k, Len(s)) \in Seq(T)
        /\ Len(SubSeq(s, k, Len(s))) = IF k <= Len(s) THEN Len(s) - k + 1 ELSE 0
        /\ \A i \in 1..(Len(s) - k + 1) : SubSeq(s, k, Len(s))[i] = s[k + i - 1]
    BY <2>1, <1>2, SubSeqProperties
  <2> HIDE DEF b
  <2> QED BY <2>2, <1>2 DEF b
<1> HIDE DEF a, b
<1>5. <<x>> \in Seq(T) /\ Len(<<x>>) = 1 /\ <<x>>[1] = x
  OBVIOUS
<1>6. /\ a \o <<x>> \in Seq(T) /\ Len(a \o <<x>>) = k
      /\ \A i \in 1..k : (a \o <<x>>)[i] = IF i < k THEN s[i] ELSE x
  <2>1. /\ a \o <<x>> \in Seq(T) /\ Len(a \o <<x>>) = Len(a) + 1
        /\ \A i \in 1..(Len(a) + 1) : (a \o <<x>>)[i] = IF i <= Len(a) THEN a[i] ELSE <<x>>[i - Len(a)]
    BY <1>3, <1>5, ConcatProperties
  <2> QED BY <2>1, <1>2, <1>3, <1>5
<1>7. /\ (a \o <<x>>) \o b \in Seq(T) /\ Len((a \o <<x>>) \o b) = k + Len(b)
      /\ \A i \in 1..(k + Len(b)) :
           ((a \o <<x>>) \o b)[i] = IF i <= k THEN (a \o <<x>>)[i] ELSE b[i - k]
  <2> DEFINE c == a \o <<x>>
  <2> HIDE DEF c
  <2>1. c \in Seq(T) /\ Len(c) = k
    BY <1>6 DEF c
  <2>2. /\ c \o b \in Seq(T) /\ Len(c \o b) = Len(c) + Len(b)
        /\ \A i \in 1..(Len(c) + Len(b)) : (c \o b)[i] = IF i <= Len(c) THEN c[i] ELSE b[i - Len(c)]
    BY <2>1, <1>4, ConcatProperties
  <2> QED BY <2>1, <2>2 DEF c
<1> DEFINE c == a \o <<x>>
           d == c \o b
<1>8. ASSUME NEW i \in 1..(Len(s) + 1)
      PROVE  d[i] = IF i < k THEN s[i] ELSE IF i = k THEN x ELSE s[i - 1]
  <2>1. \A j \in 1..k : c[j] = IF j < k THEN s[j] ELSE x
    BY <1>6
  <2>2. \A j \in 1..(k + Len(b)) : d[j] = IF j <= k THEN c[j] ELSE b[j - k]
    BY <1>7
  <2> HIDE DEF c, d
  <2>3. i \in 1..(k + Len(b)) /\ i \in Int
    BY <1>2, <1>4
  <2>4. d[i] = IF i <= k THEN c[i] ELSE b[i - k]
    BY <2>2, <2>3
  <2>5. CASE i <= k
    <3>1. i \in 1..k
      BY <2>5
    <3> QED BY <3>1, <2>1, <2>4, <2>5, <1>2
  <2>6. CASE i > k
    <3>1. i - k \in 1..(Len(s) + 1 - k) /\ k + (i - k) - 1 = i - 1
      BY <2>6, <1>2
    <3>2. b[i - k] = s[i - 1]
      BY <3>1, <1>4
    <3> QED BY <3>2, <2>4, <2>6, <1>2
  <2> QED BY <2>3, <2>5, <2>6, <1>2
<1>9. Abstract!S!InsertAt(s, k, x) = d /\ d \in Seq(T) /\ Len(d) = Len(s) + 1
  BY <1>1, <1>2, <1>4, <1>7
<1> HIDE DEF d
<1> QED BY <1>8, <1>9

\* What RemoveAt of SequencesExt returns.
LEMMA RemovedAt ==
  ASSUME NEW T, NEW s \in Seq(T), NEW k \in 1..Len(s)
  PROVE  /\ Abstract!S!RemoveAt(s, k) \in Seq(T)
         /\ Len(Abstract!S!RemoveAt(s, k)) = Len(s) - 1
         /\ \A i \in 1..(Len(s) - 1) :
              Abstract!S!RemoveAt(s, k)[i] = IF i < k THEN s[i] ELSE s[i + 1]
<1> DEFINE a == SubSeq(s, 1, k - 1)
           b == SubSeq(s, k + 1, Len(s))
<1>1. Abstract!S!RemoveAt(s, k) = a \o b
  BY DEF Abstract!S!RemoveAt
<1>2. Len(s) \in Nat /\ k \in Int /\ k - 1 \in Int /\ 1 \in Int /\ \A i \in 1..Len(s) : s[i] \in T
  BY LenProperties, ElementOfSeq
<1>3. /\ a \in Seq(T) /\ Len(a) = k - 1
      /\ \A i \in 1..(k - 1) : a[i] = s[i]
  <2>1. \A i \in 1..(k - 1) : s[i] \in T
    BY <1>2
  <2>2. /\ SubSeq(s, 1, k - 1) \in Seq(T)
        /\ Len(SubSeq(s, 1, k - 1)) = IF 1 <= k - 1 THEN k - 1 - 1 + 1 ELSE 0
        /\ \A i \in 1..(k - 1 - 1 + 1) : SubSeq(s, 1, k - 1)[i] = s[1 + i - 1]
    BY <2>1, <1>2, SubSeqProperties
  <2> HIDE DEF a
  <2> QED BY <2>2, <1>2 DEF a
<1>4. /\ b \in Seq(T) /\ Len(b) = Len(s) - k
      /\ \A i \in 1..(Len(s) - k) : b[i] = s[k + i]
  <2>1. \A i \in (k + 1)..Len(s) : s[i] \in T
    BY <1>2
  <2>2. /\ SubSeq(s, k + 1, Len(s)) \in Seq(T)
        /\ Len(SubSeq(s, k + 1, Len(s))) = IF k + 1 <= Len(s) THEN Len(s) - (k + 1) + 1 ELSE 0
        /\ \A i \in 1..(Len(s) - (k + 1) + 1) : SubSeq(s, k + 1, Len(s))[i] = s[k + 1 + i - 1]
    BY <2>1, <1>2, SubSeqProperties
  <2> HIDE DEF b
  <2> QED BY <2>2, <1>2 DEF b
<1> HIDE DEF a, b
<1> DEFINE d == a \o b
<1>5. /\ d \in Seq(T) /\ Len(d) = Len(a) + Len(b)
      /\ \A i \in 1..(Len(a) + Len(b)) : d[i] = IF i <= Len(a) THEN a[i] ELSE b[i - Len(a)]
  BY <1>3, <1>4, ConcatProperties
<1>6. ASSUME NEW i \in 1..(Len(s) - 1)
      PROVE  d[i] = IF i < k THEN s[i] ELSE s[i + 1]
  <2> HIDE DEF d
  <2>1. d[i] = IF i <= k - 1 THEN a[i] ELSE b[i - (k - 1)]
    BY <1>2, <1>3, <1>4, <1>5
  <2>2. CASE i < k
    BY <2>1, <2>2, <1>2, <1>3
  <2>3. CASE i >= k
    <3>1. i - (k - 1) \in 1..(Len(s) - k) /\ k + (i - (k - 1)) = i + 1
      BY <2>3, <1>2
    <3>2. b[i - (k - 1)] = s[i + 1]
      BY <3>1, <1>4
    <3> QED BY <3>2, <2>1, <2>3, <1>2
  <2>4. i \in Int
    OBVIOUS
  <2> QED BY <2>2, <2>3, <2>4, <1>2
<1>7. Abstract!S!RemoveAt(s, k) = d /\ d \in Seq(T) /\ Len(d) = Len(s) - 1
  BY <1>1, <1>2, <1>3, <1>4, <1>5
<1> HIDE DEF d
<1> QED BY <1>6, <1>7

\* The i-th node of the ring of l whose elements are s, counted from the root.
Nth(s, l, i) == IF i \in 1..Len(s) THEN s[i] ELSE l

\* From the root of l, the links `nxt` lead through the elements of s, which are all
\* that l owns, and back.
Ordered(nxt, own, l, s) ==
  /\ s \in Seq(Elem)
  /\ \A i \in 1..Len(s) : own[s[i]] = l
  /\ \A i, j \in 1..Len(s) : s[i] = s[j] => i = j
  /\ \A e \in Elem : own[e] = l => \E i \in 1..Len(s) : s[i] = e
  /\ nxt[l] # Nil => \A i \in 0..Len(s) : nxt[Nth(s, l, i)] = Nth(s, l, i + 1)

\* The nodes of a ring are its root and its elements.
LEMMA NthNode ==
  ASSUME NEW s \in Seq(Elem), NEW l \in List
  PROVE  /\ l \in Node /\ l \notin Elem /\ l # Nil /\ Nth(s, l, 0) = l /\ Nth(s, l, Len(s) + 1) = l
         /\ \A i \in Int : Nth(s, l, i) \in Node /\ (Nth(s, l, i) \in Elem <=> i \in 1..Len(s))
         /\ \A i \in 1..Len(s) : Nth(s, l, i) = s[i] /\ s[i] \in Elem
  BY ListAssumption DEF Nth, Node

\* An element put behind the k-th node is the (k+1)-th of the order.
LEMMA InsertKeeps ==
  ASSUME NEW nxt, NEW prv, NEW own, NEW l \in List, NEW s, NEW e \in Elem, NEW k \in 0..Len(s),
         Links(nxt, prv, own), Ordered(nxt, own, l, s), nxt[l] # Nil, own[e] = Nil
  PROVE  Ordered([nxt EXCEPT ![e] = nxt[Nth(s, l, k)], ![Nth(s, l, k)] = e], [own EXCEPT ![e] = l], l,
                 Abstract!S!InsertAt(s, k + 1, e))
<1> DEFINE at == Nth(s, l, k)
           n2 == [nxt EXCEPT ![e] = nxt[at], ![at] = e]
           o2 == [own EXCEPT ![e] = l]
           t  == Abstract!S!InsertAt(s, k + 1, e)
<1>1. s \in Seq(Elem) /\ Len(s) \in Nat /\ k \in Int /\ k + 1 \in 1..(Len(s) + 1)
  BY DEF Ordered
<1>2. /\ t \in Seq(Elem) /\ Len(t) = Len(s) + 1
      /\ \A i \in 1..(Len(s) + 1) :
           t[i] = IF i < k + 1 THEN s[i] ELSE IF i = k + 1 THEN e ELSE s[i - 1]
  <2> DEFINE j == k + 1
  <2>1. j \in 1..(Len(s) + 1)
    BY <1>1
  <2> HIDE DEF j
  <2>2. /\ Abstract!S!InsertAt(s, j, e) \in Seq(Elem)
        /\ Len(Abstract!S!InsertAt(s, j, e)) = Len(s) + 1
        /\ \A i \in 1..(Len(s) + 1) :
              Abstract!S!InsertAt(s, j, e)[i] = IF i < j THEN s[i] ELSE IF i = j THEN e ELSE s[i - 1]
    BY <2>1, <1>1, InsertedAt
  <2> QED BY <2>2 DEF j
<1>3. /\ l \in Node /\ l \notin Elem /\ l # Nil /\ at \in Node
      /\ \A i \in Int : Nth(s, l, i) \in Node
  BY <1>1, NthNode
<1>4. \A i \in 1..Len(s) : s[i] # e /\ s[i] \in Elem
  BY <1>1, <1>3 DEF Ordered
<1>5. /\ \A n \in Elem : o2[n] = IF n = e THEN l ELSE own[n]
      /\ e # at /\ n2[e] = nxt[at] /\ n2[at] = e
      /\ \A n \in Node : n # e /\ n # at => n2[n] = nxt[n]
  <2>1. e # at
    BY <1>1, <1>3, <1>4 DEF Nth
  <2> QED BY <2>1, <1>3 DEF Links, Node
<1> HIDE DEF t, n2, o2, at
<1>6. ASSUME NEW i \in 1..Len(t)
      PROVE  /\ o2[t[i]] = l
             /\ (i = k + 1 /\ t[i] = e)
                \/ \E a \in 1..Len(s) : t[i] = s[a] /\ i = IF a < k + 1 THEN a ELSE a + 1
  <2>1. CASE i = k + 1
    BY <2>1, <1>1, <1>2, <1>5
  <2>2. CASE i # k + 1
    <3>1. PICK a \in 1..Len(s) : t[i] = s[a] /\ i = IF a < k + 1 THEN a ELSE a + 1
      <4>1. CASE i < k + 1
        <5>1. i \in 1..Len(s) /\ t[i] = s[i]
          BY <4>1, <1>1, <1>2
        <5> QED BY <5>1, <4>1
      <4>2. CASE i > k + 1
        <5>1. i - 1 \in 1..Len(s) /\ t[i] = s[i - 1] /\ ~(i - 1 < k + 1) /\ i = (i - 1) + 1
          BY <4>2, <1>1, <1>2
        <5> QED BY <5>1
      <4> QED BY <2>2, <4>1, <4>2, <1>1, <1>2
    <3>2. own[s[a]] = l /\ s[a] # e /\ s[a] \in Elem
      BY <1>4 DEF Ordered
    <3> QED BY <3>1, <3>2, <1>5
  <2> QED BY <2>1, <2>2
<1>7. ASSUME NEW i \in 1..Len(t), NEW j \in 1..Len(t), t[i] = t[j]
      PROVE  i = j
  <2>1. CASE i = k + 1
    BY <2>1, <1>4, <1>6, <1>7
  <2>2. CASE i # k + 1
    <3>1. PICK a \in 1..Len(s) : t[i] = s[a] /\ i = IF a < k + 1 THEN a ELSE a + 1
      BY <2>2, <1>6
    <3>2. j # k + 1
      <4>1. j = k + 1 => t[j] = e
        BY <1>1, <1>2
      <4> QED BY <4>1, <3>1, <1>4, <1>7
    <3>3. PICK b \in 1..Len(s) : t[j] = s[b] /\ j = IF b < k + 1 THEN b ELSE b + 1
      BY <3>2, <1>6
    <3>4. s[a] = s[b]
      BY <3>1, <3>3, <1>7
    <3>5. a = b
      BY <3>4 DEF Ordered
    <3> QED BY <3>1, <3>3, <3>5
  <2> QED BY <2>1, <2>2
<1>8. ASSUME NEW n \in Elem, o2[n] = l
      PROVE  \E i \in 1..Len(t) : t[i] = n
  <2>1. CASE n = e
    <3>1. k + 1 \in 1..Len(t) /\ t[k + 1] = e
      BY <1>1, <1>2
    <3> QED BY <2>1, <3>1
  <2>2. CASE n # e
    <3>1. PICK i \in 1..Len(s) : s[i] = n
      BY <2>2, <1>5, <1>8 DEF Ordered
    <3>2. CASE i < k + 1
      BY <3>1, <3>2, <1>1, <1>2
    <3>3. CASE i >= k + 1
      <4>1. i + 1 \in 1..Len(t) /\ t[i + 1] = s[i]
        BY <3>3, <1>1, <1>2
      <4> QED BY <3>1, <4>1
    <3> QED BY <3>2, <3>3, <1>1
  <2> QED BY <2>1, <2>2
<1>9. ASSUME NEW i \in Int
      PROVE  Nth(t, l, i) = IF i < k + 1 THEN Nth(s, l, i) ELSE IF i = k + 1 THEN e ELSE Nth(s, l, i - 1)
  <2>1. CASE i \in 1..Len(t)
    BY <2>1, <1>1, <1>2 DEF Nth
  <2>2. CASE i \notin 1..Len(t)
    BY <2>2, <1>1, <1>2 DEF Nth
  <2> QED BY <2>1, <2>2
<1>10. ASSUME NEW i \in 0..Len(t)
       PROVE  n2[Nth(t, l, i)] = Nth(t, l, i + 1)
  <2>0. \A j \in 0..Len(s) : nxt[Nth(s, l, j)] = Nth(s, l, j + 1)
    BY DEF Ordered
  <2>1. i \in Int /\ i + 1 \in Int
    BY <1>2
  <2>2. \A j \in 0..Len(s) : Nth(s, l, j) # e /\ (Nth(s, l, j) = at => j = k)
    <3>1. \A j, m \in 0..Len(s) : Nth(s, l, j) = Nth(s, l, m) => j = m
      <4>1. l \notin Elem
        BY <1>3
      <4> QED BY <4>1, <1>1, <1>4 DEF Nth, Ordered
    <3> QED BY <3>1, <1>3, <1>4 DEF Nth, at
  <2>3. CASE i < k
    BY <2>0, <2>1, <2>2, <2>3, <1>1, <1>3, <1>5, <1>9
  <2>4. CASE i = k
    BY <2>1, <2>4, <1>1, <1>5, <1>9 DEF at
  <2>5. CASE i = k + 1
    <3>1. Nth(t, l, i) = e /\ Nth(t, l, i + 1) = Nth(s, l, k + 1)
      BY <2>1, <2>5, <1>1, <1>9
    <3> QED BY <3>1, <2>0, <1>5 DEF at
  <2>6. CASE i > k + 1
    <3>1. i - 1 \in 0..Len(s) /\ i - 1 # k /\ (i - 1) + 1 = i /\ (i + 1) - 1 = i
      BY <2>1, <2>6, <1>1, <1>2
    <3>2. Nth(t, l, i) = Nth(s, l, i - 1) /\ Nth(t, l, i + 1) = Nth(s, l, i)
      BY <2>1, <2>6, <3>1, <1>1, <1>9
    <3> QED BY <3>1, <3>2, <2>0, <2>2, <1>3, <1>5
  <2> QED BY <2>1, <2>3, <2>4, <2>5, <2>6, <1>1
<1>11. Ordered(n2, o2, l, t)
  BY <1>2, <1>6, <1>7, <1>8, <1>10 DEF Ordered
<1> QED BY <1>11 DEF n2, o2, t, at

\* Removal of the k-th element.
LEMMA UnlinkKeeps ==
  ASSUME NEW nxt, NEW prv, NEW own, NEW l \in List, NEW s, NEW k \in 1..Len(s),
         Links(nxt, prv, own), Ordered(nxt, own, l, s), nxt[l] # Nil
  PROVE  Ordered([nxt EXCEPT ![Nth(s, l, k - 1)] = nxt[s[k]], ![s[k]] = Nil], [own EXCEPT ![s[k]] = Nil], l,
                 Abstract!S!RemoveAt(s, k))
<1> DEFINE e  == s[k]
           at == Nth(s, l, k - 1)
           n2 == [nxt EXCEPT ![at] = nxt[e], ![e] = Nil]
           o2 == [own EXCEPT ![e] = Nil]
           t  == Abstract!S!RemoveAt(s, k)
<1>1. s \in Seq(Elem) /\ Len(s) \in Nat /\ k \in Int /\ e \in Elem
  BY DEF Ordered
<1>2. /\ t \in Seq(Elem) /\ Len(t) = Len(s) - 1
      /\ \A i \in 1..(Len(s) - 1) : t[i] = IF i < k THEN s[i] ELSE s[i + 1]
  BY <1>1, RemovedAt
<1>3. /\ l \in Node /\ l \notin Elem /\ l # Nil /\ at \in Node
      /\ \A i \in Int : Nth(s, l, i) \in Node
  BY <1>1, NthNode
<1>4. \A i, m \in 0..Len(s) : Nth(s, l, i) = Nth(s, l, m) => i = m
  <2>1. \A i \in 1..Len(s) : s[i] \in Elem
    BY <1>1
  <2> QED BY <2>1, <1>1, <1>3 DEF Nth, Ordered
<1>5. Nth(s, l, k) = e /\ k - 1 \in 0..Len(s) /\ k \in 0..Len(s)
  BY <1>1 DEF Nth
<1>6. /\ \A n \in Elem : o2[n] = IF n = e THEN Nil ELSE own[n]
      /\ e # at /\ n2[at] = nxt[e]
      /\ \A n \in Node : n # e /\ n # at => n2[n] = nxt[n]
  <2>1. e # at
    BY <1>1, <1>4, <1>5
  <2> QED BY <2>1, <1>1, <1>3 DEF Links, Node
<1> HIDE DEF t, n2, o2, at, e
<1>7. \A i \in 1..Len(t) : t[i] # e /\ own[t[i]] = l /\ t[i] \in Elem
  BY <1>1, <1>2 DEF Ordered, e
<1>8. \A i, j \in 1..Len(t) : t[i] = t[j] => i = j
  <2> SUFFICES ASSUME NEW i \in 1..Len(t), NEW j \in 1..Len(t), t[i] = t[j] PROVE i = j
    OBVIOUS
  <2>1. PICK a \in 1..Len(s) : t[i] = s[a] /\ a = IF i < k THEN i ELSE i + 1
    BY <1>1, <1>2
  <2>2. PICK b \in 1..Len(s) : t[j] = s[b] /\ b = IF j < k THEN j ELSE j + 1
    BY <1>1, <1>2
  <2>3. s[a] = s[b]
    BY <2>1, <2>2
  <2>4. a = b
    BY <2>3 DEF Ordered
  <2> QED BY <2>1, <2>2, <2>4, <1>1, <1>2
<1>9. ASSUME NEW n \in Elem, o2[n] = l
      PROVE  \E i \in 1..Len(t) : t[i] = n
  <2>1. n # e /\ own[n] = l
    BY <1>3, <1>6, <1>9
  <2>2. PICK i \in 1..Len(s) : s[i] = n
    BY <2>1 DEF Ordered
  <2>3. i # k
    BY <2>1, <2>2 DEF e
  <2>4. CASE i < k
    <3>1. i \in 1..Len(t) /\ t[i] = s[i]
      BY <2>4, <1>1, <1>2
    <3> QED BY <3>1, <2>2
  <2>5. CASE i > k
    <3>1. i - 1 \in 1..Len(t) /\ t[i - 1] = s[i]
      BY <2>5, <1>1, <1>2
    <3> QED BY <3>1, <2>2
  <2> QED BY <2>3, <2>4, <2>5, <1>1
<1>10. ASSUME NEW i \in Int
       PROVE  Nth(t, l, i) = IF i < k THEN Nth(s, l, i) ELSE Nth(s, l, i + 1)
  <2>1. CASE i \in 1..Len(t)
    BY <2>1, <1>1, <1>2 DEF Nth
  <2>2. CASE i \notin 1..Len(t)
    BY <2>2, <1>1, <1>2 DEF Nth
  <2> QED BY <2>1, <2>2
<1>11. ASSUME NEW i \in 0..Len(t)
       PROVE  n2[Nth(t, l, i)] = Nth(t, l, i + 1)
  <2>0. \A j \in 0..Len(s) : nxt[Nth(s, l, j)] = Nth(s, l, j + 1)
    BY DEF Ordered
  <2>1. i \in Int /\ i + 1 \in Int
    BY <1>2
  <2>2. \A j \in 0..Len(s) : (Nth(s, l, j) = e => j = k) /\ (Nth(s, l, j) = at => j = k - 1)
    BY <1>4, <1>5 DEF at
  <2>3. CASE i < k - 1
    <3>1. i \in 0..Len(s) /\ i # k /\ i # k - 1 /\ i < k /\ i + 1 < k
      BY <2>1, <2>3, <1>1, <1>2
    <3>2. Nth(t, l, i) = Nth(s, l, i) /\ Nth(t, l, i + 1) = Nth(s, l, i + 1)
      BY <2>1, <3>1, <1>10
    <3> QED BY <3>1, <3>2, <2>0, <2>2, <1>3, <1>6
  <2>4. CASE i = k - 1
    <3>1. Nth(t, l, i) = at /\ Nth(t, l, i + 1) = Nth(s, l, k + 1)
      BY <2>1, <2>4, <1>1, <1>10 DEF at
    <3> QED BY <3>1, <2>0, <1>5, <1>6
  <2>5. CASE i > k - 1
    <3>1. i + 1 \in 0..Len(s) /\ i + 1 # k /\ i + 1 # k - 1 /\ ~(i < k) /\ ~(i + 1 < k)
      BY <2>1, <2>5, <1>1, <1>2
    <3>2. Nth(t, l, i) = Nth(s, l, i + 1) /\ Nth(t, l, i + 1) = Nth(s, l, i + 1 + 1)
      BY <2>1, <3>1, <1>10
    <3> QED BY <3>1, <3>2, <2>0, <2>2, <1>3, <1>6
  <2> QED BY <2>1, <2>3, <2>4, <2>5, <1>1
<1>12. \A i \in 1..Len(t) : o2[t[i]] = l
  BY <1>6, <1>7
<1>13. Ordered(n2, o2, l, t)
  BY <1>2, <1>8, <1>9, <1>11, <1>12 DEF Ordered
<1> QED BY <1>13 DEF n2, o2, t, at, e

\* No node of the ring of l changes its link.
SameRing(nxt, own, n2, o2, l) ==
  /\ n2[l] = nxt[l]
  /\ \A e \in Elem : own[e] = l => n2[e] = nxt[e]
  /\ \A e \in Elem : own[e] = l <=> o2[e] = l

\* A ring of which nothing changes keeps its order.
LEMMA OthersKeep ==
  ASSUME NEW nxt, NEW own, NEW n2, NEW o2, NEW l \in List, NEW s,
         Ordered(nxt, own, l, s), SameRing(nxt, own, n2, o2, l)
  PROVE  Ordered(n2, o2, l, s)
<1>1. s \in Seq(Elem) /\ \A i \in 1..Len(s) : s[i] \in Elem /\ own[s[i]] = l
  BY DEF Ordered
<1>2. \A i \in 0..Len(s) : n2[Nth(s, l, i)] = nxt[Nth(s, l, i)]
  BY <1>1 DEF Nth, SameRing
<1> QED BY <1>1, <1>2 DEF Ordered, SameRing

\* Every list has its elements in the order that S says, as many as it counts.
Orders(nxt, own, ln, S) ==
  /\ S \in [List -> Seq(Elem)]
  /\ \A l \in List : Ordered(nxt, own, l, S[l]) /\ ln[l] = Len(S[l])

\* lazyInit changes no order, and leaves no nil link in the root.
LEMMA InitedOrders ==
  ASSUME NEW l \in List, Links(next, prev, owner), Linked(next, prev, owner), NEW S, Orders(next, owner, len, S)
  PROVE  Orders(Inited(next, l), owner, len, S) /\ Inited(next, l)[l] # Nil
<1>0. l \in Node /\ l \notin Elem /\ l # Nil
  BY ListAssumption DEF Node
<1>1. CASE next[l] # Nil
  BY <1>1 DEF Inited
<1>2. CASE next[l] = Nil
  <2> DEFINE n2 == [next EXCEPT ![l] = l]
  <2>1. Inited(next, l) = n2
    BY <1>2 DEF Inited
  <2>2. n2[l] = l /\ \A n \in Node : n # l => n2[n] = next[n]
    BY <1>0 DEF Links
  <2>3. \A e \in Elem : owner[e] # l
    BY <1>0, <1>2 DEF Linked
  <2> HIDE DEF n2
  <2>4. ASSUME NEW m \in List, m # l PROVE Ordered(n2, owner, m, S[m])
    <3>1. Ordered(next, owner, m, S[m])
      BY DEF Orders
    <3>2. n2[m] = next[m] /\ \A e \in Elem : n2[e] = next[e]
      BY <1>0, <2>2, <2>4 DEF Node
    <3>3. SameRing(next, owner, n2, owner, m)
      BY <3>2 DEF SameRing
    <3> QED BY <3>1, <3>3, OthersKeep
  <2>5. Ordered(n2, owner, l, S[l])
    <3>1. Ordered(next, owner, l, S[l])
      BY DEF Orders
    <3>2. Len(S[l]) = 0
      <4>1. \A i \in 1..Len(S[l]) : S[l][i] \in Elem /\ owner[S[l][i]] = l
        BY <3>1 DEF Ordered
      <4>2. Len(S[l]) \in Nat
        BY <3>1 DEF Ordered
      <4> QED BY <4>1, <4>2, <2>3
    <3>3. \A i \in 0..Len(S[l]) : n2[Nth(S[l], l, i)] = Nth(S[l], l, i + 1)
      BY <3>2, <2>2 DEF Nth
    <3> QED BY <3>1, <3>3 DEF Ordered
  <2> QED BY <1>0, <2>1, <2>2, <2>4, <2>5 DEF Orders
<1> QED BY <1>1, <1>2

\* Where the nodes of a list's order are.
LEMMA RingNodes ==
  ASSUME NEW nxt, NEW own, NEW l \in List, NEW s, Ordered(nxt, own, l, s), nxt[l] # Nil
  PROVE  \A k \in Int : RingOf(nxt, own, Nth(s, l, k)) = l /\ Nth(s, l, k) \in Node
<1>1. l \notin Elem /\ l \in Node /\ s \in Seq(Elem)
  BY ListAssumption DEF Ordered, Node
<1> QED BY <1>1 DEF Ordered, Nth, RingOf, Node

\* Backwards the links lead through the same order.
LEMMA PrevNode ==
  ASSUME NEW nxt, NEW prv, NEW own, Linked(nxt, prv, own), NEW l \in List, NEW s,
         Ordered(nxt, own, l, s), nxt[l] # Nil
  PROVE  /\ \A k \in 0..Len(s) : prv[Nth(s, l, k + 1)] = Nth(s, l, k)
         /\ prv[l] = Nth(s, l, Len(s))
         /\ \A k \in 1..Len(s) : prv[s[k]] = Nth(s, l, k - 1)
<1>1. l # Nil /\ s \in Seq(Elem) /\ Len(s) \in Nat
  BY ListAssumption DEF Ordered
<1>2. ASSUME NEW k \in 0..Len(s) PROVE prv[Nth(s, l, k + 1)] = Nth(s, l, k)
  <2>1. RingOf(nxt, own, Nth(s, l, k)) = l /\ Nth(s, l, k) \in Node
    BY RingNodes
  <2>2. nxt[Nth(s, l, k)] = Nth(s, l, k + 1)
    BY DEF Ordered
  <2> QED BY <1>1, <2>1, <2>2 DEF Linked
<1>3. Nth(s, l, Len(s) + 1) = l
  BY <1>1 DEF Nth
<1>4. ASSUME NEW k \in 1..Len(s) PROVE prv[s[k]] = Nth(s, l, k - 1)
  <2>1. k - 1 \in 0..Len(s) /\ (k - 1) + 1 = k /\ Nth(s, l, k) = s[k]
    BY <1>1 DEF Nth
  <2> QED BY <2>1, <1>2
<1>5. Len(s) \in 0..Len(s)
  BY <1>1
<1> QED BY <1>2, <1>3, <1>4, <1>5

\* The element e joins l behind its k-th node.
LEMMA InsertOrders ==
  ASSUME NEW nxt, NEW prv, NEW own, NEW ln \in [List -> Nat], NEW S, NEW l \in List, NEW e \in Elem,
         Links(nxt, prv, own), Orders(nxt, own, ln, S), nxt[l] # Nil, own[e] = Nil,
         NEW k \in 0..Len(S[l])
  PROVE  Orders([nxt EXCEPT ![e] = nxt[Nth(S[l], l, k)], ![Nth(S[l], l, k)] = e], [own EXCEPT ![e] = l],
                [ln EXCEPT ![l] = @ + 1], [S EXCEPT ![l] = Abstract!S!InsertAt(@, k + 1, e)])
<1> DEFINE at == Nth(S[l], l, k)
           n2 == [nxt EXCEPT ![e] = nxt[at], ![at] = e]
           o2 == [own EXCEPT ![e] = l]
           t  == Abstract!S!InsertAt(S[l], k + 1, e)
           c2 == [ln EXCEPT ![l] = @ + 1]
           T  == [S EXCEPT ![l] = t]
<1>1. S \in [List -> Seq(Elem)] /\ Ordered(nxt, own, l, S[l]) /\ ln[l] = Len(S[l]) /\ S[l] \in Seq(Elem)
  BY DEF Orders
<1>2. Ordered(n2, o2, l, t)
  BY <1>1, InsertKeeps
<1>3. t \in Seq(Elem) /\ Len(t) = Len(S[l]) + 1
  <2>1. k + 1 \in 1..(Len(S[l]) + 1)
    BY <1>1
  <2> QED BY <1>1, <2>1, InsertedAt
<1>4. RingOf(nxt, own, at) = l /\ at \in Node /\ l # Nil /\ l \in Node /\ l \notin Elem
  BY <1>1, RingNodes, NthNode
<1>5. /\ \A n \in Node : n # e /\ n # at => n2[n] = nxt[n]
      /\ \A d \in Elem : o2[d] = IF d = e THEN l ELSE own[d]
  BY <1>4 DEF Links, Node
<1> HIDE DEF t, n2, o2, at
<1>6. ASSUME NEW m \in List, m # l PROVE Ordered(n2, o2, m, S[m])
  <2>1. Ordered(nxt, own, m, S[m]) /\ m # Nil /\ m \notin Elem /\ m \in Node
    BY ListAssumption DEF Orders, Node
  <2>2. m # at /\ \A d \in Elem : own[d] = m => d # at
    BY <1>4, <1>6, <2>1 DEF RingOf
  <2>3. n2[m] = nxt[m]
    BY <2>1, <2>2, <1>5
  <2>4. \A d \in Elem : own[d] = m => n2[d] = nxt[d]
    BY <2>1, <2>2, <1>5 DEF Node
  <2>5. \A d \in Elem : own[d] = m <=> o2[d] = m
    BY <2>1, <1>5, <1>6
  <2>6. SameRing(nxt, own, n2, o2, m)
    BY <2>3, <2>4, <2>5 DEF SameRing
  <2> QED BY <2>1, <2>6, OthersKeep
<1>7. T \in [List -> Seq(Elem)] /\ T[l] = t /\ \A m \in List : m # l => T[m] = S[m]
  BY <1>1, <1>3
<1>8. c2[l] = Len(t) /\ \A m \in List : m # l => c2[m] = ln[m]
  BY <1>1, <1>3
<1> HIDE DEF T, c2
<1>9. Orders(n2, o2, c2, T)
  BY <1>2, <1>6, <1>7, <1>8 DEF Orders
<1> QED BY <1>9 DEF n2, o2, c2, T, t, at

\* The k-th element leaves l.
LEMMA UnlinkOrders ==
  ASSUME NEW nxt, NEW prv, NEW own, NEW ln \in [List -> Nat], NEW S, NEW l \in List,
         Links(nxt, prv, own), Linked(nxt, prv, own), Orders(nxt, own, ln, S),
         NEW k \in 1..Len(S[l]), NEW e \in Elem, S[l][k] = e
  PROVE  Orders([nxt EXCEPT ![prv[e]] = nxt[e], ![e] = Nil], [own EXCEPT ![e] = Nil],
                [ln EXCEPT ![l] = @ - 1], [S EXCEPT ![l] = Abstract!S!RemoveAt(@, k)])
<1> DEFINE at == Nth(S[l], l, k - 1)
           n2 == [nxt EXCEPT ![at] = nxt[e], ![e] = Nil]
           o2 == [own EXCEPT ![e] = Nil]
           t  == Abstract!S!RemoveAt(S[l], k)
           c2 == [ln EXCEPT ![l] = @ - 1]
           T  == [S EXCEPT ![l] = t]
<1>1. /\ S \in [List -> Seq(Elem)] /\ Ordered(nxt, own, l, S[l]) /\ ln[l] = Len(S[l]) /\ S[l] \in Seq(Elem)
      /\ e \in Elem /\ own[e] = l /\ e \in Node
  BY DEF Orders, Ordered, Node
<1>2. l # Nil /\ l \in Node /\ l \notin Elem /\ nxt[l] # Nil
  BY <1>1, NthNode DEF Linked
<1>3. prv[e] = at
  BY <1>1, <1>2, PrevNode
<1>4. Ordered(n2, o2, l, t)
  BY <1>1, <1>2, UnlinkKeeps
<1>5. t \in Seq(Elem) /\ Len(t) = Len(S[l]) - 1
  BY <1>1, RemovedAt
<1>6. RingOf(nxt, own, at) = l /\ at \in Node
  <2>1. k - 1 \in Int
    OBVIOUS
  <2> QED BY <2>1, <1>1, <1>2, RingNodes
<1>7. /\ \A n \in Node : n # e /\ n # at => n2[n] = nxt[n]
      /\ \A d \in Elem : o2[d] = IF d = e THEN Nil ELSE own[d]
  BY <1>1, <1>6 DEF Links
<1> HIDE DEF t, n2, o2, at
<1>8. ASSUME NEW m \in List, m # l PROVE Ordered(n2, o2, m, S[m])
  <2>1. Ordered(nxt, own, m, S[m]) /\ m # Nil /\ m \notin Elem /\ m \in Node
    BY ListAssumption DEF Orders, Node
  <2>2. m # at /\ m # e /\ \A d \in Elem : own[d] = m => d # at /\ d # e
    BY <1>1, <1>2, <1>6, <1>8, <2>1 DEF RingOf
  <2>3. n2[m] = nxt[m]
    BY <2>1, <2>2, <1>7
  <2>4. \A d \in Elem : own[d] = m => n2[d] = nxt[d]
    BY <2>1, <2>2, <1>7 DEF Node
  <2>5. \A d \in Elem : own[d] = m <=> o2[d] = m
    BY <2>1, <1>1, <1>7, <1>8
  <2>6. SameRing(nxt, own, n2, o2, m)
    BY <2>3, <2>4, <2>5 DEF SameRing
  <2> QED BY <2>1, <2>6, OthersKeep
<1>9. T \in [List -> Seq(Elem)] /\ T[l] = t /\ \A m \in List : m # l => T[m] = S[m]
  BY <1>1, <1>5
<1>10. c2[l] = Len(t) /\ \A m \in List : m # l => c2[m] = ln[m]
  BY <1>1, <1>5
<1> HIDE DEF T, c2
<1>11. Orders(n2, o2, c2, T)
  BY <1>4, <1>8, <1>9, <1>10 DEF Orders
<1> QED BY <1>3, <1>11 DEF n2, o2, c2, T, t, at

\* The order after the i-th element has been moved behind the j-th node.
Moved(s, i, j) ==
  IF j = i THEN s
  ELSE Abstract!S!InsertAt(Abstract!S!RemoveAt(s, i), IF j < i THEN j + 1 ELSE j, s[i])

\* The i-th element of l moves behind the j-th node.
LEMMA RelinkOrders ==
  ASSUME IInv, NEW S, Orders(next, owner, len, S), NEW l \in List, NEW i \in 1..Len(S[l]),
         NEW j \in 0..Len(S[l]), Relink(S[l][i], Nth(S[l], l, j))
  PROVE  Orders(next', owner', len', [S EXCEPT ![l] = Moved(S[l], i, j)])
<1> DEFINE e  == S[l][i]
           at == Nth(S[l], l, j)
           n2 == [next EXCEPT ![prev[e]] = next[e], ![e] = Nil]
           o2 == [owner EXCEPT ![e] = Nil]
           c2 == [len EXCEPT ![l] = @ - 1]
           t  == Abstract!S!RemoveAt(S[l], i)
           T  == [S EXCEPT ![l] = t]
           p  == IF j < i THEN j ELSE j - 1
<1>1. /\ S \in [List -> Seq(Elem)] /\ S[l] \in Seq(Elem) /\ Len(S[l]) \in Nat /\ i \in Int /\ j \in Int
      /\ len \in [List -> Nat] /\ owner \in [Elem -> List \cup {Nil}]
      /\ e \in Elem /\ owner[e] = l /\ Ordered(next, owner, l, S[l]) /\ len[l] = Len(S[l])
  BY DEF Orders, Ordered, IInv, Links
<1>2. owner' = owner /\ len' = len
  BY DEF Relink
<1>3. \A a, b \in 0..Len(S[l]) : Nth(S[l], l, a) = Nth(S[l], l, b) => a = b
  <2>1. l \notin Elem
    BY ListAssumption
  <2> QED BY <1>1, <2>1 DEF Ordered, Nth
<1>4. Nth(S[l], l, i) = e /\ i \in 0..Len(S[l])
  BY <1>1 DEF Nth
<1>5. CASE j = i
  <2>1. next' = next
    BY <1>4, <1>5 DEF Relink
  <2>2. [S EXCEPT ![l] = Moved(S[l], i, j)] = S
    BY <1>1, <1>5 DEF Moved
  <2> QED BY <1>2, <2>1, <2>2
<1>6. CASE j # i
  <2>1. e # at /\ at \in Node
    <3>1. at \in Node
      BY <1>1, NthNode
    <3> QED BY <3>1, <1>3, <1>4, <1>6
  <2>2. next' = [n2 EXCEPT ![e] = n2[at], ![at] = e]
    <3> HIDE DEF e, at
    <3> QED BY <1>1, <2>1, RelinkSteps DEF e, at
  <2>3. Orders(n2, o2, c2, T)
    BY <1>1, UnlinkOrders DEF IInv
  <2>4. Links(n2, [prev EXCEPT ![next[e]] = prev[e], ![e] = Nil], o2) /\ n2[l] # Nil
    <3>1. owner[e] # Nil /\ l \notin Elem /\ l \in Node /\ next[l] # Nil /\ e \in Node
      BY <1>1, ListAssumption DEF IInv, Linked, Node
    <3>2. Links(n2, [prev EXCEPT ![next[e]] = prev[e], ![e] = Nil], o2)
      <4>1. Links(next, prev, owner) /\ Linked(next, prev, owner) /\ e \in Elem
        BY <1>1 DEF IInv
      <4> HIDE DEF e
      <4> QED BY <4>1, <3>1, UnlinkLinks
    <3>3. next[e] # Nil
      <4>1. RingOf(next, owner, e) = l /\ l # Nil
        BY <1>1, ListAssumption DEF RingOf
      <4>2. next[e] \in Node
        BY <4>1, <3>1 DEF IInv, Linked
      <4> QED BY <4>2, ListAssumption DEF Node
    <3>4. e # l /\ next \in [Node -> Node \cup {Nil}]
      BY <3>1, <1>1 DEF IInv, Links
    <3> HIDE DEF e
    <3> QED BY <3>1, <3>2, <3>3, <3>4
  <2>5. /\ t \in Seq(Elem) /\ Len(t) = Len(S[l]) - 1 /\ T[l] = t
        /\ \A a \in 1..(Len(S[l]) - 1) : t[a] = IF a < i THEN S[l][a] ELSE S[l][a + 1]
    BY <1>1, RemovedAt
  <2>6. p \in 0..Len(t) /\ Nth(t, l, p) = at
    <3>1. p \in 0..Len(t)
      BY <1>1, <1>6, <2>5
    <3> HIDE DEF t
    <3>2. CASE j < i
      BY <3>2, <1>1, <2>5 DEF Nth
    <3>3. CASE j > i
      BY <3>3, <1>1, <2>5 DEF Nth
    <3> QED BY <3>1, <3>2, <3>3, <1>1, <1>6
  <2>7. o2[e] = Nil /\ c2 \in [List -> Nat]
    BY <1>1
  <2> DEFINE n3 == [n2 EXCEPT ![e] = n2[at], ![at] = e]
             o3 == [o2 EXCEPT ![e] = l]
             c3 == [c2 EXCEPT ![l] = @ + 1]
             U  == [T EXCEPT ![l] = Abstract!S!InsertAt(@, p + 1, e)]
  <2>8. Orders(n3, o3, c3, U)
    <3> HIDE DEF n2, o2, c2, T, p, e, at, t
    <3> QED BY <1>1, <2>3, <2>4, <2>5, <2>6, <2>7, InsertOrders
  <2>9. o3 = owner
    BY <1>1
  <2>10. c3 = len
    <3>1. len[l] \in Nat /\ c2[l] = len[l] - 1 /\ c3 \in [List -> Int]
      BY <1>1, <2>7
    <3>2. c3[l] = len[l] /\ \A m \in List : m # l => c3[m] = len[m]
      BY <3>1, <1>1
    <3> HIDE DEF c3
    <3> QED BY <3>1, <3>2, <1>1
  <2>11. U = [S EXCEPT ![l] = Moved(S[l], i, j)]
    <3>1. p + 1 = IF j < i THEN j + 1 ELSE j
      BY <1>1
    <3>2. Moved(S[l], i, j) = Abstract!S!InsertAt(t, p + 1, e)
      BY <3>1, <1>6 DEF Moved
    <3> HIDE DEF t, p, e
    <3> QED BY <3>2, <1>1, <2>5
  <2> QED
    <3> HIDE DEF n3, o3, c3, U
    <3> QED BY <1>2, <2>2, <2>8, <2>9, <2>10, <2>11 DEF n3
<1> QED BY <1>5, <1>6

\* A list that is cleared has the empty order.
LEMMA ClearOrders ==
  ASSUME IInv, NEW S, Orders(next, owner, len, S), NEW l \in List, Clear(l)
  PROVE  Orders(next', owner', len', [S EXCEPT ![l] = <<>>])
<1> DEFINE gone == {e \in Elem : owner[e] = l}
           T == [S EXCEPT ![l] = <<>>]
<1>1. l \in Node /\ l \notin Elem /\ l # Nil /\ List \cap Elem = {} /\ Nil \notin List /\ List \subseteq Node
  BY ListAssumption DEF Node
<1>2. /\ S \in [List -> Seq(Elem)] /\ next' = [n \in Node |-> IF n = l THEN l ELSE IF n \in gone THEN Nil ELSE next[n]]
      /\ owner' = [e \in Elem |-> IF e \in gone THEN Nil ELSE owner[e]]
      /\ len' = [len EXCEPT ![l] = 0] /\ len \in [List -> Nat]
  BY DEF Clear, Orders, IInv
<1>3. T \in [List -> Seq(Elem)] /\ T[l] = <<>> /\ \A m \in List : m # l => T[m] = S[m]
  <2>1. <<>> \in Seq(Elem)
    OBVIOUS
  <2> QED BY <2>1, <1>2
<1>4. Ordered(next', owner', l, <<>>)
  <2>1. \A e \in Elem : owner'[e] # l
    BY <1>1, <1>2
  <2>2. next'[l] = l
    BY <1>1, <1>2
  <2>3. <<>> \in Seq(Elem) /\ Len(<<>>) = 0
    OBVIOUS
  <2>4. \A i \in 0..0 : next'[Nth(<<>>, l, i)] = Nth(<<>>, l, i + 1)
    BY <2>2, <2>3 DEF Nth
  <2> QED BY <2>1, <2>3, <2>4 DEF Ordered
<1>5. ASSUME NEW m \in List, m # l PROVE Ordered(next', owner', m, S[m])
  <2>1. Ordered(next, owner, m, S[m]) /\ m \notin gone /\ m \in Node
    BY <1>1 DEF Orders
  <2>2. next'[m] = next[m]
    BY <2>1, <1>2, <1>5
  <2>3. \A e \in Elem : owner[e] = m => next'[e] = next[e]
    BY <1>1, <1>2, <1>5 DEF Node
  <2>4. \A e \in Elem : owner[e] = m <=> owner'[e] = m
    BY <1>1, <1>2, <1>5
  <2>5. SameRing(next, owner, next', owner', m)
    BY <2>2, <2>3, <2>4 DEF SameRing
  <2> QED BY <2>1, <2>5, OthersKeep
<1>6. len'[l] = Len(<<>>) /\ \A m \in List : m # l => len'[m] = len[m]
  BY <1>2
<1> HIDE DEF T
<1>7. Orders(next', owner', len', T)
  BY <1>3, <1>4, <1>5, <1>6 DEF Orders
<1> QED BY <1>7 DEF T

\* The walk from a list's root meets its elements in their order.
LEMMA WalkIs ==
  ASSUME IInv, NEW S, Orders(next, owner, len, S), NEW l \in List
  PROVE  Walk(l) = S[l]
<1> DEFINE at == CHOOSE at : at = [i \in 0..len[l] |->
                   IF i = 0 THEN l ELSE IF at[i - 1] = Nil THEN Nil ELSE next[at[i - 1]]]
           s  == S[l]
<1>1. Walk(l) = [i \in 1..len[l] |-> at[i]]
  BY DEF Walk
<1>2. /\ Ordered(next, owner, l, s) /\ len[l] = Len(s) /\ s \in Seq(Elem) /\ Len(s) \in Nat
      /\ next[l] = Nil => Len(s) = 0
  <2>1. Ordered(next, owner, l, s) /\ len[l] = Len(s) /\ s \in Seq(Elem) /\ Len(s) \in Nat
    BY DEF Orders, Ordered
  <2>2. ASSUME Len(s) # 0 PROVE next[l] # Nil
    <3>1. 1 \in 1..Len(s)
      BY <2>1, <2>2
    <3>2. s[1] \in Elem /\ owner[s[1]] = l /\ l # Nil
      BY <3>1, <2>1, ListAssumption DEF Ordered
    <3> QED BY <3>2 DEF IInv, Linked
  <2> QED BY <2>1, <2>2
<1>3. /\ \A i \in Int : Nth(s, l, i) \in Node /\ Nth(s, l, i) # Nil
      /\ Nth(s, l, 0) = l
      /\ \A i \in 1..Len(s) : Nth(s, l, i) = s[i]
  BY <1>2, NthNode, ListAssumption DEF Node
<1>4. \A i \in 1..Len(s) : next[Nth(s, l, i - 1)] = Nth(s, l, i)
  <2>1. \A i \in 1..Len(s) : i - 1 \in 0..Len(s) /\ (i - 1) + 1 = i /\ next[l] # Nil
    BY <1>2
  <2> QED BY <2>1, <1>2 DEF Ordered
<1> DEFINE Good(f) == f = [i \in 0..len[l] |->
                   IF i = 0 THEN l ELSE IF f[i - 1] = Nil THEN Nil ELSE next[f[i - 1]]]
<1>5. Good(at)
  <2> DEFINE f == [i \in 0..len[l] |-> Nth(s, l, i)]
  <2>1. \A i \in 1..len[l] : f[i - 1] = Nth(s, l, i - 1)
    BY <1>2
  <2>2. ASSUME NEW i \in 0..len[l]
        PROVE  f[i] = IF i = 0 THEN l ELSE IF f[i - 1] = Nil THEN Nil ELSE next[f[i - 1]]
    <3>1. CASE i = 0
      BY <3>1, <1>3
    <3>2. CASE i # 0
      <4>1. i \in 1..Len(s) /\ f[i] = Nth(s, l, i) /\ i - 1 \in Int
        BY <3>2, <1>2
      <4> QED BY <4>1, <3>2, <2>1, <1>2, <1>3, <1>4
    <3> QED BY <3>1, <3>2
  <2>3. Good(f)
    BY <2>2
  <2> HIDE DEF f
  <2> QED BY <2>3
<1> HIDE DEF at
<1>6. \A i \in 0..len[l] : at[i] = IF i = 0 THEN l ELSE IF at[i - 1] = Nil THEN Nil ELSE next[at[i - 1]]
  BY <1>5
<1>7. \A i \in 0..len[l] : at[i] = Nth(s, l, i)
  <2> DEFINE Bad == {i \in 0..len[l] : at[i] # Nth(s, l, i)}
  <2> SUFFICES ASSUME Bad # {} PROVE FALSE
    OBVIOUS
  <2>1. Bad \in SUBSET Nat
    BY <1>2
  <2>2. PICK n \in Bad : \A m \in Bad : n <= m
    <3> HIDE DEF Bad
    <3> QED BY <2>1, Smallest
  <2>3. n \in 0..len[l] /\ at[n] # Nth(s, l, n)
    OBVIOUS
  <2>4. n # 0
    BY <2>3, <1>2, <1>3, <1>6
  <2>5. n - 1 \in 0..len[l] /\ n \in 1..Len(s) /\ n - 1 \notin Bad /\ n - 1 \in Int
    BY <2>2, <2>3, <2>4, <1>2
  <2>6. at[n - 1] = Nth(s, l, n - 1)
    BY <2>5
  <2> HIDE DEF Bad
  <2> QED BY <2>3, <2>4, <2>5, <2>6, <1>3, <1>4, <1>6
<1>8. \A i \in 1..len[l] : at[i] = s[i]
  BY <1>2, <1>3, <1>7
<1>9. s = [i \in 1..Len(s) |-> s[i]]
  <2> HIDE DEF s
  <2>1. s \in [1..Len(s) -> Elem]
    BY <1>2, LenProperties
  <2> QED BY <2>1
<1>10. Walk(l) = s
  <2> HIDE DEF s
  <2>1. [i \in 1..len[l] |-> at[i]] = [i \in 1..Len(s) |-> s[i]]
    BY <1>2, <1>8
  <2> QED BY <2>1, <1>1, <1>9
<1> QED BY <1>10

Entry == Elem \X Value

\* The elements s with their values, as a caller of a list sees them.
Entries(s, val) == [i \in 1..Len(s) |-> <<s[i], IF s[i] \in Elem THEN val[s[i]] ELSE Nil>>]

\* The entries of a sequence of elements are a sequence of as many pairs.
LEMMA EntriesAre ==
  ASSUME NEW s \in Seq(Elem), NEW val \in [Elem -> Value]
  PROVE  /\ Entries(s, val) \in Seq(Entry) /\ Len(Entries(s, val)) = Len(s)
         /\ DOMAIN Entries(s, val) = 1..Len(s)
         /\ \A i \in 1..Len(s) : /\ Entries(s, val)[i] = <<s[i], val[s[i]]>>
                                 /\ Entries(s, val)[i][1] = s[i] /\ Entries(s, val)[i][2] = val[s[i]]
                                 /\ s[i] \in Elem /\ val[s[i]] \in Value
<1> DEFINE E == Entries(s, val)
<1>1. Len(s) \in Nat /\ \A i \in 1..Len(s) : s[i] \in Elem /\ val[s[i]] \in Value
  OBVIOUS
<1>2. E \in [1..Len(s) -> Entry] /\ \A i \in 1..Len(s) : E[i] = <<s[i], val[s[i]]>>
  BY <1>1 DEF Entries, Entry
<1> HIDE DEF E
<1>3. E \in Seq(Entry) /\ Len(E) = Len(s) /\ DOMAIN E = 1..Len(s)
  BY <1>1, <1>2
<1>4. \A i \in 1..Len(s) : E[i][1] = s[i] /\ E[i][2] = val[s[i]]
  BY <1>2
<1> QED BY <1>1, <1>2, <1>3, <1>4 DEF E

\* Where an element is, by its entry.
LEMMA PosOf ==
  ASSUME NEW s \in Seq(Elem), NEW val \in [Elem -> Value], NEW i \in 1..Len(s),
         \A a, b \in 1..Len(s) : s[a] = s[b] => a = b
  PROVE  Abstract!Pos(Entries(s, val), s[i]) = i
<1> DEFINE E == Entries(s, val)
<1>1. DOMAIN E = 1..Len(s) /\ \A a \in 1..Len(s) : E[a][1] = s[a]
  BY EntriesAre
<1> HIDE DEF E
<1>2. \A a \in DOMAIN E : E[a][1] = s[i] <=> a = i
  BY <1>1
<1>3. i \in DOMAIN E
  BY <1>1
<1> QED BY <1>2, <1>3 DEF Abstract!Pos, E

\* Entries depend on the values of their own elements only.
LEMMA EntriesAgree ==
  ASSUME NEW s \in Seq(Elem), NEW val \in [Elem -> Value], NEW val2 \in [Elem -> Value],
         \A i \in 1..Len(s) : val2[s[i]] = val[s[i]]
  PROVE  Entries(s, val2) = Entries(s, val)
  BY DEF Entries

\* To insert an element is to insert its entry.
LEMMA EntriesInserted ==
  ASSUME NEW s \in Seq(Elem), NEW val \in [Elem -> Value], NEW val2 \in [Elem -> Value],
         \A i \in 1..Len(s) : val2[s[i]] = val[s[i]],
         NEW e \in Elem, NEW k \in 1..(Len(s) + 1)
  PROVE  Entries(Abstract!S!InsertAt(s, k, e), val2)
           = Abstract!S!InsertAt(Entries(s, val), k, <<e, val2[e]>>)
<1> DEFINE t == Abstract!S!InsertAt(s, k, e)
           E == Entries(s, val)
           F == Entries(t, val2)
           x == <<e, val2[e]>>
           G == Abstract!S!InsertAt(E, k, x)
<1>1. /\ t \in Seq(Elem) /\ Len(t) = Len(s) + 1 /\ Len(s) \in Nat
      /\ \A i \in 1..(Len(s) + 1) : t[i] = IF i < k THEN s[i] ELSE IF i = k THEN e ELSE s[i - 1]
  BY InsertedAt
<1>2. /\ E \in Seq(Entry) /\ Len(E) = Len(s)
      /\ \A i \in 1..Len(s) : E[i] = <<s[i], val[s[i]]>>
  BY EntriesAre
<1>3. x \in Entry
  BY DEF Entry
<1>4. /\ F \in Seq(Entry) /\ Len(F) = Len(t)
      /\ \A i \in 1..Len(t) : F[i] = <<t[i], val2[t[i]]>>
  <2> HIDE DEF t
  <2> QED BY <1>1, EntriesAre
<1>5. /\ G \in Seq(Entry) /\ Len(G) = Len(E) + 1
      /\ \A i \in 1..(Len(E) + 1) : G[i] = IF i < k THEN E[i] ELSE IF i = k THEN x ELSE E[i - 1]
  <2> HIDE DEF E, x
  <2>1. E \in Seq(Entry) /\ k \in 1..(Len(E) + 1)
    BY <1>2
  <2> QED BY <2>1, <1>3, InsertedAt
<1> HIDE DEF t, E, F, G, x
<1>6. ASSUME NEW i \in 1..Len(F) PROVE F[i] = G[i]
  <2>0. i \in 1..(Len(s) + 1) /\ i \in Int /\ k \in Int
    BY <1>1, <1>4
  <2>1. /\ F[i] = <<t[i], val2[t[i]]>>
        /\ t[i] = IF i < k THEN s[i] ELSE IF i = k THEN e ELSE s[i - 1]
        /\ G[i] = IF i < k THEN E[i] ELSE IF i = k THEN x ELSE E[i - 1]
    BY <2>0, <1>1, <1>2, <1>4, <1>5
  <2>2. CASE i < k
    <3>1. i \in 1..Len(s)
      BY <2>0, <2>2
    <3>2. E[i] = <<s[i], val[s[i]]>> /\ val2[s[i]] = val[s[i]]
      BY <3>1, <1>2
    <3> QED BY <2>1, <2>2, <3>2
  <2>3. CASE i = k
    BY <2>1, <2>3 DEF x
  <2>4. CASE i > k
    <3>1. i - 1 \in 1..Len(s)
      BY <2>0, <2>4
    <3>2. E[i - 1] = <<s[i - 1], val[s[i - 1]]>> /\ val2[s[i - 1]] = val[s[i - 1]]
      BY <3>1, <1>2
    <3>3. F[i] = <<s[i - 1], val2[s[i - 1]]>> /\ G[i] = E[i - 1]
      BY <2>0, <2>1, <2>4
    <3> QED BY <3>2, <3>3
  <2> QED BY <2>0, <2>2, <2>3, <2>4
<1>7. F = G
  <2>1. Len(F) = Len(G)
    BY <1>1, <1>2, <1>4, <1>5
  <2> QED BY <2>1, <1>4, <1>5, <1>6, SeqEqual
<1> QED BY <1>7 DEF t, E, F, G, x

\* To remove an element is to remove its entry.
LEMMA EntriesRemoved ==
  ASSUME NEW s \in Seq(Elem), NEW val \in [Elem -> Value], NEW k \in 1..Len(s)
  PROVE  Entries(Abstract!S!RemoveAt(s, k), val) = Abstract!S!RemoveAt(Entries(s, val), k)
<1> DEFINE t == Abstract!S!RemoveAt(s, k)
           E == Entries(s, val)
           F == Entries(t, val)
           G == Abstract!S!RemoveAt(E, k)
<1>1. /\ t \in Seq(Elem) /\ Len(t) = Len(s) - 1 /\ Len(s) \in Nat /\ k \in Int
      /\ \A i \in 1..(Len(s) - 1) : t[i] = IF i < k THEN s[i] ELSE s[i + 1]
  BY RemovedAt
<1>2. /\ E \in Seq(Entry) /\ Len(E) = Len(s)
      /\ \A i \in 1..Len(s) : E[i] = <<s[i], val[s[i]]>>
  BY EntriesAre
<1>3. /\ F \in Seq(Entry) /\ Len(F) = Len(t)
      /\ \A i \in 1..Len(t) : F[i] = <<t[i], val[t[i]]>>
  <2> HIDE DEF t
  <2> QED BY <1>1, EntriesAre
<1>4. /\ G \in Seq(Entry) /\ Len(G) = Len(E) - 1
      /\ \A i \in 1..(Len(E) - 1) : G[i] = IF i < k THEN E[i] ELSE E[i + 1]
  <2> HIDE DEF E
  <2> QED BY <1>2, RemovedAt
<1> HIDE DEF t, E, F, G
<1>5. ASSUME NEW i \in 1..Len(F) PROVE F[i] = G[i]
  <2>0. i \in 1..(Len(s) - 1) /\ i \in 1..Len(s) /\ i + 1 \in 1..Len(s) /\ i \in Int
    BY <1>1, <1>3
  <2>1. CASE i < k
    BY <2>0, <2>1, <1>1, <1>2, <1>3, <1>4
  <2>2. CASE i >= k
    BY <2>0, <2>2, <1>1, <1>2, <1>3, <1>4
  <2> QED BY <2>0, <2>1, <2>2, <1>1
<1>6. F = G
  <2>1. Len(F) = Len(G)
    BY <1>1, <1>2, <1>3, <1>4
  <2> QED BY <2>1, <1>3, <1>4, <1>5, SeqEqual
<1> QED BY <1>6 DEF t, E, F, G

\* Insertion and removal at the ends.
LEMMA Ends ==
  ASSUME NEW T, NEW s \in Seq(T), NEW x \in T
  PROVE  /\ Abstract!S!InsertAt(s, 1, x) = <<x>> \o s
         /\ Abstract!S!InsertAt(s, Len(s) + 1, x) = Append(s, x)
         /\ s # <<>> => /\ Abstract!S!RemoveAt(s, 1) = Tail(s)
                        /\ Abstract!S!RemoveAt(s, Len(s)) = Abstract!S!Front(s)
<1>0. Len(s) \in Nat /\ <<x>> \in Seq(T)
  OBVIOUS
<1>1. SubSeq(s, 1, Len(s)) = s
  BY SubSeqFull
<1>2. Abstract!S!InsertAt(s, 1, x) = <<x>> \o s
  <2>1. SubSeq(s, 1, 1 - 1) = <<>>
    BY SubSeqEmpty
  <2>2. <<>> \o <<x>> = <<x>>
    BY <1>0, ConcatEmptySeq
  <2> QED BY <2>1, <2>2, <1>1 DEF Abstract!S!InsertAt
<1>3. Abstract!S!InsertAt(s, Len(s) + 1, x) = Append(s, x)
  <2>1. SubSeq(s, Len(s) + 1, Len(s)) = <<>> /\ (Len(s) + 1) - 1 = Len(s)
    BY <1>0, SubSeqEmpty
  <2>2. Append(s, x) = s \o <<x>> /\ s \o <<x>> \in Seq(T)
    BY AppendIsConcat, AppendProperties
  <2>3. (s \o <<x>>) \o <<>> = s \o <<x>>
    BY <2>2, ConcatEmptySeq
  <2> QED BY <2>1, <2>2, <2>3, <1>1 DEF Abstract!S!InsertAt
<1>4. ASSUME s # <<>>
      PROVE  /\ Abstract!S!RemoveAt(s, 1) = Tail(s)
             /\ Abstract!S!RemoveAt(s, Len(s)) = Abstract!S!Front(s)
  <2>1. SubSeq(s, 1, 1 - 1) = <<>> /\ SubSeq(s, Len(s) + 1, Len(s)) = <<>>
    BY <1>0, SubSeqEmpty
  <2>2. Tail(s) = SubSeq(s, 1 + 1, Len(s)) /\ Tail(s) \in Seq(T)
    BY <1>4, TailIsSubSeq, HeadTailProperties
  <2>3. SubSeq(s, 1, Len(s) - 1) \in Seq(T)
    <3>1. \A i \in 1..(Len(s) - 1) : s[i] \in T
      BY <1>0
    <3> QED BY <3>1, <1>0, SubSeqProperties
  <2>4. <<>> \o Tail(s) = Tail(s) /\ SubSeq(s, 1, Len(s) - 1) \o <<>> = SubSeq(s, 1, Len(s) - 1)
    BY <2>2, <2>3, ConcatEmptySeq
  <2> QED BY <2>1, <2>2, <2>4 DEF Abstract!S!RemoveAt, Abstract!S!Front
<1> QED BY <1>2, <1>3, <1>4

\* What a caller sees of a list whose elements are s.
Shown(l, s) ==
  LET new == IF loop # Idle /\ loop.to = l THEN Cardinality(loop.new) ELSE 0
  IN  IF new = 0 THEN s
      ELSE IF loop.back THEN SubSeq(s, 1, len[l] - new)
      ELSE SubSeq(s, new + 1, len[l])

ContentsAreShown ==
  \A S : IInv /\ Orders(next, owner, len, S) =>
    \A l \in List : Contents(l) = Entries(Shown(l, S[l]), value)

\* The walk along the links shows the order.
LEMMA ContentsShown == ContentsAreShown
<1> SUFFICES ASSUME NEW S, IInv, Orders(next, owner, len, S), NEW l \in List
             PROVE  Contents(l) = Entries(Shown(l, S[l]), value)
  BY DEF ContentsAreShown
<1>1. Walk(l) = S[l]
  BY WalkIs
<1> QED BY <1>1 DEF Contents, Entries, Shown

\* The same, after a step.
LEMMA ContentsShownNext == ContentsAreShown'
  BY ContentsShown, PTL

\* The abstract lists are the orders S.
Seen(S) == \A l \in List : Contents(l) = Entries(S[l], value)

\* While nobody is copying, the abstract lists are the orders,
LEMMA IdleSeen ==
  ASSUME NEW S, IInv, Orders(next, owner, len, S), loop = Idle
  PROVE  Seen(S)
  BY ContentsShown DEF ContentsAreShown, Seen, Shown

\* and so they are after a step that leaves nobody copying.
LEMMA IdleSeenNext ==
  ASSUME NEW S, IInv', Orders(next', owner', len', S), loop' = Idle
  PROVE  Seen(S)'
  BY ContentsShownNext DEF ContentsAreShown, Seen, Shown

\* The terms of OrderedList in those of LinkedList.
LEMMA Terms ==
  ASSUME NEW S, Orders(next, owner, len, S), Seen(S), value \in [Elem -> Value], NEW l \in List
  PROVE  /\ \A e \in Elem : Abstract!Has(l, e) <=> owner[e] = l
         /\ \A i \in 1..Len(S[l]) :
              /\ Abstract!Pos(Contents(l), S[l][i]) = i
              /\ Abstract!EntryOf(l, S[l][i]) = <<S[l][i], value[S[l][i]]>>
              /\ Abstract!Without(l, S[l][i]) = Entries(Abstract!S!RemoveAt(S[l], i), value)
<1> DEFINE E == Entries(S[l], value)
<1>1. /\ S[l] \in Seq(Elem) /\ Ordered(next, owner, l, S[l])
      /\ [m \in List |-> Contents(m)][l] = E /\ Contents(l) = E
  BY DEF Orders, Seen
<1>2. DOMAIN E = 1..Len(S[l]) /\ \A i \in 1..Len(S[l]) : E[i] = <<S[l][i], value[S[l][i]]>> /\ E[i][1] = S[l][i]
  BY <1>1, EntriesAre
<1> HIDE DEF E
<1>3. ASSUME NEW e \in Elem PROVE Abstract!Has(l, e) <=> owner[e] = l
  <2>1. Abstract!Has(l, e) <=> \E i \in 1..Len(S[l]) : S[l][i] = e
    BY <1>1, <1>2 DEF Abstract!Has, Abstract!Names
  <2> QED BY <2>1, <1>1 DEF Ordered
<1>4. ASSUME NEW i \in 1..Len(S[l])
      PROVE  /\ Abstract!Pos(Contents(l), S[l][i]) = i
             /\ Abstract!EntryOf(l, S[l][i]) = <<S[l][i], value[S[l][i]]>>
             /\ Abstract!Without(l, S[l][i]) = Entries(Abstract!S!RemoveAt(S[l], i), value)
  <2>1. Abstract!Pos(E, S[l][i]) = i
    BY <1>1, PosOf DEF Ordered, E
  <2>2. Abstract!EntryOf(l, S[l][i]) = <<S[l][i], value[S[l][i]]>>
    BY <2>1, <1>1, <1>2 DEF Abstract!EntryOf
  <2>3. Abstract!Without(l, S[l][i]) = Abstract!S!RemoveAt(E, i)
    BY <2>1, <1>1 DEF Abstract!Without
  <2>4. Abstract!S!RemoveAt(E, i) = Entries(Abstract!S!RemoveAt(S[l], i), value)
    BY <1>1, EntriesRemoved DEF E
  <2> QED BY <2>1, <2>2, <2>3, <2>4, <1>1
<1> QED BY <1>3, <1>4

\* An element that is in no ring is in no abstract list.
LEMMA FreshIs ==
  ASSUME NEW S, Orders(next, owner, len, S), Seen(S), value \in [Elem -> Value], NEW e \in Elem,
         owner[e] = Nil
  PROVE  Abstract!Fresh(e)
<1>1. \A l \in List : ~Abstract!Has(l, e)
  BY Terms, ListAssumption
<1> QED BY <1>1 DEF Abstract!Fresh

\* A step that gives l the elements t, in the terms of OrderedList.
LEMMA Became ==
  ASSUME NEW S, Orders(next, owner, len, S), Seen(S), value \in [Elem -> Value], value' \in [Elem -> Value],
         \A d \in Elem : owner[d] # Nil => value'[d] = value[d],
         NEW l \in List, NEW t, Seen([S EXCEPT ![l] = t])'
  PROVE  Abstract!Becomes(l, Entries(t, value'))
<1> DEFINE T == [S EXCEPT ![l] = t]
<1>1. S \in [List -> Seq(Elem)] /\ T[l] = t /\ \A m \in List : m # l => T[m] = S[m]
  BY DEF Orders
<1>2. Contents(l)' = Entries(t, value')
  BY <1>1 DEF Seen
<1>3. ASSUME NEW m \in List, m # l PROVE Contents(m)' = Contents(m)
  <2>1. Contents(m) = Entries(S[m], value) /\ Contents(m)' = Entries(S[m], value')
    BY <1>1, <1>3 DEF Seen
  <2>2. S[m] \in Seq(Elem) /\ \A i \in 1..Len(S[m]) : S[m][i] \in Elem /\ owner[S[m][i]] = m /\ m # Nil
    BY <1>1, ListAssumption DEF Orders, Ordered
  <2>3. \A i \in 1..Len(S[m]) : value'[S[m][i]] = value[S[m][i]]
    BY <2>2
  <2> QED BY <2>1, <2>2, <2>3, EntriesAgree
<1>4. [m \in List |-> Contents(m)'] = [[m \in List |-> Contents(m)] EXCEPT ![l] = Entries(t, value')]
  BY <1>2, <1>3
<1> QED BY <1>4 DEF Abstract!Becomes

\* A call that leaves nobody copying, with the orders S before and T after it.
LEMMA IdleBecame ==
  ASSUME IInv, IInv', loop = Idle, loop' = Idle, value \in [Elem -> Value], value' \in [Elem -> Value],
         \A d \in Elem : owner[d] # Nil => value'[d] = value[d],
         NEW S, Orders(next, owner, len, S), NEW l \in List, NEW t,
         Orders(next', owner', len', [S EXCEPT ![l] = t])
  PROVE  Abstract!Becomes(l, Entries(t, value'))
<1>1. Seen(S)
  BY IdleSeen
<1>2. Seen([S EXCEPT ![l] = t])'
  BY IdleSeenNext
<1> QED BY <1>1, <1>2, Became

\* insertValue behind the k-th node.
LEMMA InsertStep ==
  ASSUME IInv, IInv', loop = Idle, loop' = Idle, value \in [Elem -> Value],
         NEW S, Orders(next, owner, len, S), NEW l \in List, NEW e \in Elem, NEW v \in Value,
         NEW nxt, NEW prv, Links(nxt, prv, owner), Orders(nxt, owner, len, S), nxt[l] # Nil,
         NEW k \in 0..Len(S[l]), Insert(nxt, prv, l, e, v, Nth(S[l], l, k))
  PROVE  /\ value' \in [Elem -> Value]
         /\ \E T : Orders(next', owner', len', T)
         /\ Abstract!Fresh(e)
         /\ Abstract!Becomes(l, Abstract!S!InsertAt(Contents(l), k + 1, <<e, v>>))
<1> DEFINE t == Abstract!S!InsertAt(S[l], k + 1, e)
<1>1. /\ owner[e] = Nil /\ value' = [value EXCEPT ![e] = v]
      /\ owner' = [owner EXCEPT ![e] = l] /\ len' = [len EXCEPT ![l] = @ + 1]
      /\ next' = [nxt EXCEPT ![e] = nxt[Nth(S[l], l, k)], ![Nth(S[l], l, k)] = e]
  BY DEF Insert
<1>2. value' \in [Elem -> Value] /\ value'[e] = v /\ \A d \in Elem : d # e => value'[d] = value[d]
  BY <1>1
<1>3. Orders(next', owner', len', [S EXCEPT ![l] = t])
  <2>1. len \in [List -> Nat]
    BY DEF IInv
  <2> QED BY <2>1, <1>1, InsertOrders
<1>4. S[l] \in Seq(Elem) /\ \A i \in 1..Len(S[l]) : S[l][i] \in Elem /\ owner[S[l][i]] = l /\ l # Nil
  BY ListAssumption DEF Orders, Ordered
<1>5. \A i \in 1..Len(S[l]) : value'[S[l][i]] = value[S[l][i]]
  BY <1>1, <1>2, <1>4
<1>6. k + 1 \in 1..(Len(S[l]) + 1)
  BY <1>4
<1>7. Seen(S)
  BY IdleSeen
<1>8. Entries(t, value') = Abstract!S!InsertAt(Contents(l), k + 1, <<e, v>>)
  <2>1. Entries(t, value') = Abstract!S!InsertAt(Entries(S[l], value), k + 1, <<e, value'[e]>>)
    BY <1>2, <1>4, <1>5, <1>6, EntriesInserted
  <2> QED BY <2>1, <1>2, <1>7 DEF Seen
<1>9. Abstract!Becomes(l, Entries(t, value'))
  <2>1. \A d \in Elem : owner[d] # Nil => value'[d] = value[d]
    BY <1>1, <1>2
  <2> HIDE DEF t
  <2> QED BY <2>1, <1>2, <1>3, IdleBecame
<1>10. Abstract!Fresh(e)
  BY <1>1, <1>7, FreshIs
<1> HIDE DEF t
<1> QED BY <1>2, <1>3, <1>8, <1>9, <1>10

\* remove of the i-th element.
LEMMA UnlinkStep ==
  ASSUME IInv, IInv', loop = Idle, loop' = Idle, value \in [Elem -> Value],
         NEW S, Orders(next, owner, len, S), NEW l \in List,
         NEW i \in 1..Len(S[l]), Unlink(l, S[l][i])
  PROVE  /\ value' \in [Elem -> Value]
         /\ \E T : Orders(next', owner', len', T)
         /\ Abstract!Has(l, S[l][i])
         /\ Abstract!Becomes(l, Abstract!Without(l, S[l][i]))
         /\ Abstract!Becomes(l, Abstract!S!RemoveAt(Contents(l), i))
<1> DEFINE t == Abstract!S!RemoveAt(S[l], i)
           e == S[l][i]
<1>1. /\ value' = value /\ owner' = [owner EXCEPT ![e] = Nil] /\ len' = [len EXCEPT ![l] = @ - 1]
      /\ next' = [next EXCEPT ![prev[e]] = next[e], ![e] = Nil]
  BY DEF Unlink
<1>2. Orders(next', owner', len', [S EXCEPT ![l] = t])
  <2>1. len \in [List -> Nat] /\ Links(next, prev, owner) /\ Linked(next, prev, owner)
    BY DEF IInv
  <2>2. e \in Elem /\ S[l][i] = e
    BY DEF Orders, Ordered
  <2> HIDE DEF e
  <2> QED BY <2>1, <2>2, <1>1, UnlinkOrders
<1>3. Seen(S)
  BY IdleSeen
<1>4. Entries(t, value) = Abstract!Without(l, e)
  BY <1>3, Terms
<1>5. Entries(t, value) = Abstract!S!RemoveAt(Contents(l), i)
  <2>1. S[l] \in Seq(Elem) /\ Contents(l) = Entries(S[l], value)
    BY <1>3 DEF Orders, Seen
  <2> QED BY <2>1, EntriesRemoved
<1>6. Abstract!Becomes(l, Entries(t, value'))
  <2> HIDE DEF t
  <2> QED BY <1>1, <1>2, IdleBecame
<1>7. Abstract!Has(l, e)
  <2>1. e \in Elem /\ owner[e] = l
    BY DEF Orders, Ordered
  <2> HIDE DEF e
  <2> QED BY <2>1, <1>3, Terms
<1> HIDE DEF t
<1> QED BY <1>1, <1>2, <1>4, <1>5, <1>6, <1>7

\* What is taken out and put back is where it was.
LEMMA PutBack ==
  ASSUME NEW T, NEW s \in Seq(T), NEW i \in 1..Len(s)
  PROVE  Abstract!S!InsertAt(Abstract!S!RemoveAt(s, i), i, s[i]) = s
<1> DEFINE r == Abstract!S!RemoveAt(s, i)
           u == Abstract!S!InsertAt(r, i, s[i])
<1>1. /\ r \in Seq(T) /\ Len(r) = Len(s) - 1 /\ Len(s) \in Nat /\ i \in Int /\ s[i] \in T
      /\ \A a \in 1..(Len(s) - 1) : r[a] = IF a < i THEN s[a] ELSE s[a + 1]
  BY RemovedAt
<1>2. /\ u \in Seq(T) /\ Len(u) = Len(s)
      /\ \A a \in 1..Len(s) : u[a] = IF a < i THEN r[a] ELSE IF a = i THEN s[i] ELSE r[a - 1]
  <2>1. i \in 1..(Len(r) + 1) /\ Len(r) + 1 = Len(s)
    BY <1>1
  <2> HIDE DEF r
  <2> QED BY <2>1, <1>1, InsertedAt
<1> HIDE DEF r, u
<1>3. ASSUME NEW a \in 1..Len(u) PROVE u[a] = s[a]
  <2>0. a \in 1..Len(s) /\ a \in Int
    BY <1>2
  <2>1. CASE a < i
    <3>1. a \in 1..(Len(s) - 1)
      BY <2>0, <2>1, <1>1
    <3> QED BY <2>0, <2>1, <3>1, <1>1, <1>2
  <2>2. CASE a = i
    BY <2>0, <2>2, <1>2
  <2>3. CASE a > i
    <3>1. a - 1 \in 1..(Len(s) - 1) /\ ~(a - 1 < i) /\ (a - 1) + 1 = a
      BY <2>0, <2>3, <1>1
    <3>2. r[a - 1] = s[a]
      BY <3>1, <1>1
    <3> QED BY <2>0, <2>3, <3>2, <1>1, <1>2
  <2> QED BY <2>0, <2>1, <2>2, <2>3, <1>1
<1>4. u = s
  BY <1>2, <1>3, SeqEqual
<1> QED BY <1>4 DEF u, r

\* move of the i-th element behind the j-th node.
LEMMA RelinkStep ==
  ASSUME IInv, IInv', loop = Idle, loop' = Idle, value \in [Elem -> Value],
         NEW S, Orders(next, owner, len, S), NEW l \in List,
         NEW i \in 1..Len(S[l]), NEW j \in 0..Len(S[l]), Relink(S[l][i], Nth(S[l], l, j))
  PROVE  /\ value' \in [Elem -> Value]
         /\ \E T : Orders(next', owner', len', T)
         /\ Abstract!Has(l, S[l][i])
         /\ Abstract!Becomes(l, Abstract!S!InsertAt(Abstract!Without(l, S[l][i]), IF j < i THEN j + 1 ELSE j,
                                                    Abstract!EntryOf(l, S[l][i])))
<1> DEFINE r == Abstract!S!RemoveAt(S[l], i)
           e == S[l][i]
           p == IF j < i THEN j + 1 ELSE j
           t == Abstract!S!InsertAt(r, p, e)
<1>1. value' = value
  BY DEF Relink
<1>2. /\ S[l] \in Seq(Elem) /\ Len(S[l]) \in Nat /\ i \in Int /\ j \in Int /\ e \in Elem /\ owner[e] = l
      /\ p \in 1..Len(S[l])
  BY DEF Orders, Ordered
<1>3. r \in Seq(Elem) /\ Len(r) = Len(S[l]) - 1
  BY <1>2, RemovedAt
<1>4. Moved(S[l], i, j) = t
  <2>1. CASE j = i
    BY <2>1, <1>2, PutBack DEF Moved
  <2>2. CASE j # i
    BY <2>2 DEF Moved
  <2> QED BY <2>1, <2>2
<1>5. Orders(next', owner', len', [S EXCEPT ![l] = t])
  <2>1. Orders(next', owner', len', [S EXCEPT ![l] = Moved(S[l], i, j)])
    BY RelinkOrders
  <2> HIDE DEF t
  <2> QED BY <2>1, <1>4
<1>6. Seen(S)
  BY IdleSeen
<1>7. Entries(r, value) = Abstract!Without(l, e) /\ Abstract!EntryOf(l, e) = <<e, value[e]>>
  BY <1>6, Terms
<1>8. Entries(t, value) = Abstract!S!InsertAt(Entries(r, value), p, <<e, value[e]>>)
  <2>1. p \in 1..(Len(r) + 1)
    BY <1>2, <1>3
  <2> HIDE DEF r, p, e
  <2> QED BY <2>1, <1>2, <1>3, EntriesInserted
<1>9. Abstract!Becomes(l, Entries(t, value'))
  <2> HIDE DEF t
  <2> QED BY <1>1, <1>5, IdleBecame
<1>10. Abstract!Has(l, e)
  <2> HIDE DEF e
  <2> QED BY <1>2, <1>6, Terms
<1>11. Abstract!Becomes(l, Abstract!S!InsertAt(Abstract!Without(l, e), p, Abstract!EntryOf(l, e)))
  <2> HIDE DEF t, r, p, e
  <2> QED BY <1>1, <1>7, <1>8, <1>9
<1> HIDE DEF t
<1> QED BY <1>1, <1>5, <1>10, <1>11

Distinct(s) == \A a, b \in 1..Len(s) : s[a] = s[b] => a = b

\* Where the other elements are, when one is taken out.
LEMMA PosOfRest ==
  ASSUME NEW s \in Seq(Elem), NEW val \in [Elem -> Value], NEW i \in 1..Len(s), NEW q \in 1..Len(s), q # i, Distinct(s)
  PROVE  Abstract!Pos(Entries(Abstract!S!RemoveAt(s, i), val), s[q]) = IF q < i THEN q ELSE q - 1
<1> DEFINE r == Abstract!S!RemoveAt(s, i)
           p == IF q < i THEN q ELSE q - 1
<1>0. Len(s) \in Nat /\ i \in Int /\ q \in Int
  OBVIOUS
<1>1. /\ r \in Seq(Elem) /\ Len(r) = Len(s) - 1
      /\ \A a \in 1..(Len(s) - 1) : r[a] = IF a < i THEN s[a] ELSE s[a + 1]
  BY RemovedAt
<1> HIDE DEF r
<1>2. ASSUME NEW a \in 1..Len(r)
      PROVE  \E b \in 1..Len(s) : r[a] = s[b] /\ b = IF a < i THEN a ELSE a + 1
  BY <1>0, <1>1
<1>3. ASSUME NEW a \in 1..Len(r), NEW b \in 1..Len(r), r[a] = r[b]
      PROVE  a = b
  <2>1. PICK c \in 1..Len(s) : r[a] = s[c] /\ c = IF a < i THEN a ELSE a + 1
    BY <1>2
  <2>2. PICK d \in 1..Len(s) : r[b] = s[d] /\ d = IF b < i THEN b ELSE b + 1
    BY <1>2
  <2>3. s[c] = s[d]
    BY <2>1, <2>2, <1>3
  <2>4. c = d
    BY <2>3 DEF Distinct
  <2> QED BY <2>1, <2>2, <2>4, <1>0, <1>1
<1>4. p \in 1..Len(r) /\ r[p] = s[q]
  <2>1. CASE q < i
    BY <2>1, <1>0, <1>1
  <2>2. CASE q > i
    <3>1. q - 1 \in 1..Len(r) /\ ~(q - 1 < i) /\ (q - 1) + 1 = q
      BY <2>2, <1>0, <1>1
    <3>2. r[q - 1] = s[q]
      BY <3>1, <1>0, <1>1
    <3> QED BY <2>2, <3>1, <3>2, <1>0, <1>1
  <2> QED BY <2>1, <2>2, <1>0, <1>1
<1> HIDE DEF p
<1>5. Abstract!Pos(Entries(r, val), r[p]) = p
  BY <1>1, <1>3, <1>4, PosOf
<1> QED BY <1>4, <1>5 DEF r, p

\* A call of which the whole effect is seen at once.
Kept == /\ value' \in [Elem -> Value] /\ \E T : Orders(next', owner', len', T)

\* PushFront and PushBack do what OrderedList says.
LEMMA PushCalls ==
  ASSUME IInv, IInv', value \in [Elem -> Value], NEW S, Orders(next, owner, len, S),
         NEW l \in List, NEW e \in Elem, NEW v \in Value
  PROVE  /\ PushFront(l, e, v) => Kept /\ Abstract!PushFront(l, e, v)
         /\ PushBack(l, e, v) => Kept /\ Abstract!PushBack(l, e, v)
<1> DEFINE nxt == Inited(next, l)
           prv == Inited(prev, l)
           n   == Len(S[l])
<1>1. Links(nxt, prv, owner) /\ Linked(nxt, prv, owner)
  BY LazyInit DEF IInv
<1>2. Orders(nxt, owner, len, S) /\ nxt[l] # Nil
  BY InitedOrders DEF IInv
<1>3. S[l] \in Seq(Elem) /\ Ordered(nxt, owner, l, S[l]) /\ n \in Nat
  BY <1>2 DEF Orders, Ordered
<1>4. prv[l] = Nth(S[l], l, n) /\ Nth(S[l], l, 0) = l
  <2> HIDE DEF nxt, prv
  <2>1. prv[l] = Nth(S[l], l, n)
    BY <1>1, <1>2, <1>3, PrevNode
  <2> QED BY <2>1, <1>3, NthNode
<1>5. ASSUME loop = Idle
      PROVE  Contents(l) \in Seq(Entry) /\ Len(Contents(l)) = n
  <2>1. Contents(l) = Entries(S[l], value)
    BY <1>5, IdleSeen DEF Seen
  <2> QED BY <2>1, <1>3, EntriesAre
<1>6. <<e, v>> \in Entry
  BY DEF Entry
<1>7. [m \in List |-> Contents(m)][l] = Contents(l)
  OBVIOUS
<1> HIDE DEF nxt, prv
<1>8. ASSUME PushFront(l, e, v)
      PROVE  Kept /\ Abstract!PushFront(l, e, v)
  <2>1. loop = Idle /\ loop' = Idle /\ Insert(nxt, prv, l, e, v, l) /\ call' = <<"PushFront", l, e>>
    BY <1>8 DEF PushFront, Idling, nxt, prv
  <2>2. Kept /\ Abstract!Fresh(e) /\ Abstract!Becomes(l, Abstract!S!InsertAt(Contents(l), 0 + 1, <<e, v>>))
    <3>1. 0 \in 0..n
      BY <1>3
    <3> QED BY <2>1, <3>1, <1>1, <1>2, <1>4, InsertStep DEF Kept
  <2>3. Abstract!S!InsertAt(Contents(l), 0 + 1, <<e, v>>) = <<<<e, v>>>> \o Contents(l)
    <3>1. Abstract!S!InsertAt(Contents(l), 1, <<e, v>>) = <<<<e, v>>>> \o Contents(l)
      BY <2>1, <1>5, <1>6, Ends
    <3>2. 0 + 1 = 1
      OBVIOUS
    <3> QED BY <3>1, <3>2
  <2>4. Abstract!Becomes(l, <<<<e, v>>>> \o [m \in List |-> Contents(m)][l])
    BY <2>2, <2>3, <1>7
  <2> QED BY <2>1, <2>2, <2>4 DEF Abstract!PushFront
<1>9. ASSUME PushBack(l, e, v)
      PROVE  Kept /\ Abstract!PushBack(l, e, v)
  <2>1. loop = Idle /\ loop' = Idle /\ Insert(nxt, prv, l, e, v, prv[l]) /\ call' = <<"PushBack", l, e>>
    BY <1>9 DEF PushBack, Idling, nxt, prv
  <2>2. Kept /\ Abstract!Fresh(e) /\ Abstract!Becomes(l, Abstract!S!InsertAt(Contents(l), n + 1, <<e, v>>))
    <3>1. n \in 0..n
      BY <1>3
    <3> QED BY <2>1, <3>1, <1>1, <1>2, <1>4, InsertStep DEF Kept
  <2>3. Abstract!S!InsertAt(Contents(l), n + 1, <<e, v>>) = Append(Contents(l), <<e, v>>)
    BY <2>1, <1>5, <1>6, Ends
  <2>4. Abstract!Becomes(l, Append([m \in List |-> Contents(m)][l], <<e, v>>))
    BY <2>2, <2>3, <1>7
  <2> QED BY <2>1, <2>2, <2>4 DEF Abstract!PushBack
<1> QED BY <1>8, <1>9

\* Where an element of a list is, with its predecessor and its list's ends.
LEMMA Place ==
  ASSUME IInv, NEW S, Orders(next, owner, len, S), NEW l \in List, NEW e \in Elem, owner[e] = l
  PROVE  /\ \E i \in 1..Len(S[l]) : /\ S[l][i] = e /\ prev[e] = Nth(S[l], l, i - 1) /\ e = Nth(S[l], l, i)
                                    /\ i - 1 \in 0..Len(S[l]) /\ i \in 0..Len(S[l])
         /\ prev[l] = Nth(S[l], l, Len(S[l])) /\ l = Nth(S[l], l, 0) /\ next[l] # Nil
         /\ S[l] \in Seq(Elem) /\ Len(S[l]) \in Nat
         /\ \A a, b \in 1..Len(S[l]) : S[l][a] = S[l][b] => a = b
<1>1. /\ Ordered(next, owner, l, S[l]) /\ S[l] \in Seq(Elem) /\ Len(S[l]) \in Nat
      /\ \A a, b \in 1..Len(S[l]) : S[l][a] = S[l][b] => a = b
  <2>1. Ordered(next, owner, l, S[l])
    BY DEF Orders
  <2> QED BY <2>1 DEF Ordered
<1>2. next[l] # Nil /\ Linked(next, prev, owner)
  BY ListAssumption DEF IInv, Linked
<1>3. PICK i \in 1..Len(S[l]) : S[l][i] = e
  BY <1>1 DEF Ordered
<1>4. prev[l] = Nth(S[l], l, Len(S[l])) /\ prev[S[l][i]] = Nth(S[l], l, i - 1)
  BY <1>1, <1>2, PrevNode
<1>5. l = Nth(S[l], l, 0) /\ Nth(S[l], l, i) = S[l][i] /\ i - 1 \in 0..Len(S[l]) /\ i \in 0..Len(S[l])
  BY <1>1 DEF Nth
<1> QED BY <1>1, <1>2, <1>3, <1>4, <1>5

\* InsertBefore and InsertAfter do what OrderedList says.
LEMMA InsertCalls ==
  ASSUME IInv, IInv', value \in [Elem -> Value], NEW S, Orders(next, owner, len, S),
         NEW l \in List, NEW e \in Elem, NEW v \in Value, NEW mark \in Elem
  PROVE  /\ InsertBefore(l, e, v, mark) => Kept /\ Abstract!InsertBefore(l, e, v, mark)
         /\ InsertAfter(l, e, v, mark) => Kept /\ Abstract!InsertAfter(l, e, v, mark)
<1> SUFFICES ASSUME owner[mark] = l, loop = Idle
             PROVE  /\ InsertBefore(l, e, v, mark) => Kept /\ Abstract!InsertBefore(l, e, v, mark)
                    /\ InsertAfter(l, e, v, mark) => Kept /\ Abstract!InsertAfter(l, e, v, mark)
  BY DEF InsertBefore, InsertAfter, Idling
<1>1. PICK i \in 1..Len(S[l]) : /\ S[l][i] = mark /\ prev[mark] = Nth(S[l], l, i - 1) /\ mark = Nth(S[l], l, i)
                                /\ i - 1 \in 0..Len(S[l]) /\ i \in 0..Len(S[l])
  BY Place
<1>2. next[l] # Nil /\ Links(next, prev, owner) /\ Len(S[l]) \in Nat
  BY Place DEF IInv
<1>3. Seen(S)
  BY IdleSeen
<1>4. Abstract!Has(l, mark) /\ Abstract!Pos(Contents(l), mark) = i /\ [m \in List |-> Contents(m)][l] = Contents(l)
  BY <1>1, <1>3, Terms
<1>5. ASSUME InsertBefore(l, e, v, mark)
      PROVE  Kept /\ Abstract!InsertBefore(l, e, v, mark)
  <2>1. loop' = Idle /\ Insert(next, prev, l, e, v, Nth(S[l], l, i - 1)) /\ call' = <<"InsertBefore", l, e, mark>>
    BY <1>1, <1>5 DEF InsertBefore, Idling
  <2>2. Kept /\ Abstract!Fresh(e) /\ Abstract!Becomes(l, Abstract!S!InsertAt(Contents(l), (i - 1) + 1, <<e, v>>))
    BY <2>1, <1>1, <1>2, InsertStep DEF Kept
  <2>3. (i - 1) + 1 = i
    BY <1>2
  <2> QED BY <2>1, <2>2, <2>3, <1>4 DEF Abstract!InsertBefore
<1>6. ASSUME InsertAfter(l, e, v, mark)
      PROVE  Kept /\ Abstract!InsertAfter(l, e, v, mark)
  <2>1. loop' = Idle /\ Insert(next, prev, l, e, v, Nth(S[l], l, i)) /\ call' = <<"InsertAfter", l, e, mark>>
    BY <1>1, <1>6 DEF InsertAfter, Idling
  <2>2. Kept /\ Abstract!Fresh(e) /\ Abstract!Becomes(l, Abstract!S!InsertAt(Contents(l), i + 1, <<e, v>>))
    BY <2>1, <1>1, <1>2, InsertStep DEF Kept
  <2> QED BY <2>1, <2>2, <1>4 DEF Abstract!InsertAfter
<1> QED BY <1>5, <1>6

\* The elements that Front and Back answer.
LEMMA FrontAndBack ==
  ASSUME IInv, NEW S, Orders(next, owner, len, S), NEW l \in List, len[l] # 0
  PROVE  /\ Front(l) = S[l][1] /\ 1 \in 1..Len(S[l])
         /\ Back(l) = S[l][Len(S[l])] /\ Len(S[l]) \in 1..Len(S[l])
<1>1. S[l] \in Seq(Elem) /\ Len(S[l]) \in Nat /\ len[l] = Len(S[l]) /\ Ordered(next, owner, l, S[l])
  BY DEF Orders
<1>2. 1 \in 1..Len(S[l]) /\ Len(S[l]) \in 1..Len(S[l])
  BY <1>1
<1>3. S[l][1] \in Elem /\ owner[S[l][1]] = l
  BY <1>1, <1>2 DEF Ordered
<1>4. next[l] # Nil /\ prev[l] = Nth(S[l], l, Len(S[l])) /\ l = Nth(S[l], l, 0)
  BY <1>3, Place
<1>5. next[l] = Nth(S[l], l, 0 + 1)
  <2>1. 0 \in 0..Len(S[l])
    BY <1>1
  <2> QED BY <2>1, <1>1, <1>4 DEF Ordered
<1> QED BY <1>2, <1>4, <1>5 DEF Front, Back, Nth

\* Remove, Pop and PopBack do what OrderedList says.
LEMMA RemoveCalls ==
  ASSUME IInv, IInv', value \in [Elem -> Value], NEW S, Orders(next, owner, len, S), NEW l \in List
  PROVE  /\ \A e \in Elem : Remove(l, e) => Kept /\ Abstract!Remove(l, e)
         /\ Pop(l) => Kept /\ Abstract!Pop(l)
         /\ PopBack(l) => Kept /\ Abstract!PopBack(l)
<1>1. /\ S[l] \in Seq(Elem) /\ Len(S[l]) \in Nat /\ len[l] = Len(S[l])
      /\ \A a, b \in 1..Len(S[l]) : S[l][a] = S[l][b] => a = b
      /\ Ordered(next, owner, l, S[l])
  <2>1. Ordered(next, owner, l, S[l]) /\ len[l] = Len(S[l])
    BY DEF Orders
  <2> QED BY <2>1 DEF Ordered
<1>2. ASSUME NEW e \in Elem, Remove(l, e)
      PROVE  Kept /\ Abstract!Remove(l, e)
  <2>1. loop = Idle /\ owner[e] = l /\ Unlink(l, e) /\ call' = <<"Remove", l, e>> /\ loop' = loop
    BY <1>2 DEF Remove, Unlink, Idling
  <2>2. PICK i \in 1..Len(S[l]) : S[l][i] = e
    BY <2>1, Place
  <2>3. Kept /\ Abstract!Has(l, e) /\ Abstract!Becomes(l, Abstract!Without(l, e))
    BY <2>1, <2>2, UnlinkStep DEF Kept
  <2> QED BY <2>1, <2>3 DEF Abstract!Remove
<1>3. ASSUME loop = Idle, len[l] # 0
      PROVE  /\ Contents(l) \in Seq(Entry) /\ Contents(l) # <<>> /\ Len(Contents(l)) = Len(S[l])
             /\ [m \in List |-> Contents(m)][l] = Contents(l)
             /\ Abstract!S!RemoveAt(Contents(l), 1) = Tail(Contents(l))
             /\ Abstract!S!RemoveAt(Contents(l), Len(S[l])) = Abstract!S!Front(Contents(l))
  <2>1. Contents(l) = Entries(S[l], value)
    BY <1>3, IdleSeen DEF Seen
  <2>2. Contents(l) \in Seq(Entry) /\ Len(Contents(l)) = Len(S[l])
    BY <2>1, <1>1, EntriesAre
  <2>3. Contents(l) # <<>>
    BY <2>2, <1>1, <1>3
  <2>4. PICK x : x \in Entry
    <3>1. Contents(l)[1] \in Entry
      BY <2>2, <1>1, <1>3
    <3> QED BY <3>1
  <2> QED BY <2>2, <2>3, <2>4, Ends
<1>4. ASSUME Pop(l)
      PROVE  Kept /\ Abstract!Pop(l)
  <2>1. /\ loop = Idle /\ len[l] # 0 /\ Unlink(l, S[l][1]) /\ call' = <<"Pop", l>> /\ loop' = loop
        /\ 1 \in 1..Len(S[l])
    BY <1>4, FrontAndBack DEF Pop, Take, Unlink, Idling
  <2>2. Kept /\ Abstract!Becomes(l, Abstract!S!RemoveAt(Contents(l), 1))
    BY <2>1, UnlinkStep DEF Kept
  <2> QED BY <2>1, <2>2, <1>3 DEF Abstract!Pop
<1>5. ASSUME PopBack(l)
      PROVE  Kept /\ Abstract!PopBack(l)
  <2>1. /\ loop = Idle /\ len[l] # 0 /\ Unlink(l, S[l][Len(S[l])]) /\ call' = <<"PopBack", l>> /\ loop' = loop
        /\ Len(S[l]) \in 1..Len(S[l])
    BY <1>5, FrontAndBack DEF PopBack, Take, Unlink, Idling
  <2>2. Kept /\ Abstract!Becomes(l, Abstract!S!RemoveAt(Contents(l), Len(S[l])))
    BY <2>1, UnlinkStep DEF Kept
  <2> QED BY <2>1, <2>2, <1>3 DEF Abstract!PopBack
<1> QED BY <1>2, <1>4, <1>5

\* The four moves do what OrderedList says.
LEMMA MoveCalls ==
  ASSUME IInv, IInv', value \in [Elem -> Value], NEW S, Orders(next, owner, len, S),
         NEW l \in List, NEW e \in Elem
  PROVE  /\ MoveToFront(l, e) => Kept /\ Abstract!MoveToFront(l, e)
         /\ MoveToBack(l, e) => Kept /\ Abstract!MoveToBack(l, e)
         /\ \A mark \in Elem : /\ MoveBefore(l, e, mark) => Kept /\ Abstract!MoveBefore(l, e, mark)
                               /\ MoveAfter(l, e, mark) => Kept /\ Abstract!MoveAfter(l, e, mark)
<1> SUFFICES ASSUME owner[e] = l, loop = Idle
             PROVE  /\ MoveToFront(l, e) => Kept /\ Abstract!MoveToFront(l, e)
                    /\ MoveToBack(l, e) => Kept /\ Abstract!MoveToBack(l, e)
                    /\ \A mark \in Elem :
                         /\ MoveBefore(l, e, mark) => Kept /\ Abstract!MoveBefore(l, e, mark)
                         /\ MoveAfter(l, e, mark) => Kept /\ Abstract!MoveAfter(l, e, mark)
  BY DEF MoveToFront, MoveToBack, MoveBefore, MoveAfter, Idling
<1> DEFINE n    == Len(S[l])
           rest == Abstract!Without(l, e)
           this == Abstract!EntryOf(l, e)
<1>1. PICK i \in 1..n : S[l][i] = e /\ prev[e] = Nth(S[l], l, i - 1) /\ e = Nth(S[l], l, i)
  BY Place
<1>2. /\ prev[l] = Nth(S[l], l, n) /\ l = Nth(S[l], l, 0) /\ S[l] \in Seq(Elem) /\ n \in Nat
      /\ i \in Int /\ 0 \in 0..n /\ n \in 0..n
      /\ \A a, b \in 1..n : S[l][a] = S[l][b] => a = b
  <2>1. /\ prev[l] = Nth(S[l], l, n) /\ l = Nth(S[l], l, 0) /\ S[l] \in Seq(Elem) /\ n \in Nat
        /\ \A a, b \in 1..n : S[l][a] = S[l][b] => a = b
    BY Place
  <2> QED BY <2>1
<1>3. rest = Entries(Abstract!S!RemoveAt(S[l], i), value) /\ this = <<e, value[e]>>
  BY <1>1, IdleSeen, Terms
<1>4. rest \in Seq(Entry) /\ Len(rest) = n - 1 /\ this \in Entry
  <2>1. Abstract!S!RemoveAt(S[l], i) \in Seq(Elem) /\ Len(Abstract!S!RemoveAt(S[l], i)) = n - 1
    BY <1>2, RemovedAt
  <2> QED BY <2>1, <1>3, EntriesAre DEF Entry
<1>5. ASSUME NEW j \in 0..n, loop' = Idle, Relink(e, Nth(S[l], l, j))
      PROVE  /\ Kept /\ Abstract!Has(l, e)
             /\ Abstract!Becomes(l, Abstract!S!InsertAt(rest, IF j < i THEN j + 1 ELSE j, this))
  BY <1>1, <1>5, RelinkStep DEF Kept
<1> HIDE DEF rest, this
<1>6. ASSUME MoveToFront(l, e)
      PROVE  Kept /\ Abstract!MoveToFront(l, e)
  <2>1. loop' = Idle /\ Relink(e, Nth(S[l], l, 0)) /\ call' = <<"MoveToFront", l, e>>
    BY <1>2, <1>6 DEF MoveToFront, Relink, Idling
  <2>2. Kept /\ Abstract!Has(l, e) /\ Abstract!Becomes(l, Abstract!S!InsertAt(rest, 1, this))
    <3>1. (IF 0 < i THEN 0 + 1 ELSE 0) = 1
      BY <1>2
    <3> QED BY <2>1, <3>1, <1>2, <1>5
  <2>3. Abstract!S!InsertAt(rest, 1, this) = <<this>> \o rest
    BY <1>4, Ends
  <2> QED BY <2>1, <2>2, <2>3 DEF Abstract!MoveToFront, rest, this
<1>7. ASSUME MoveToBack(l, e)
      PROVE  Kept /\ Abstract!MoveToBack(l, e)
  <2>1. loop' = Idle /\ Relink(e, Nth(S[l], l, n)) /\ call' = <<"MoveToBack", l, e>> /\ prev[l] # e
    BY <1>2, <1>7 DEF MoveToBack, Relink, Idling
  <2>2. Kept /\ Abstract!Has(l, e) /\ Abstract!Becomes(l, Abstract!S!InsertAt(rest, Len(rest) + 1, this))
    <3>1. n # i
      BY <2>1, <1>1, <1>2
    <3>2. (IF n < i THEN n + 1 ELSE n) = Len(rest) + 1
      BY <3>1, <1>2, <1>4
    <3> QED BY <2>1, <3>2, <1>2, <1>5
  <2>3. Abstract!S!InsertAt(rest, Len(rest) + 1, this) = Append(rest, this)
    BY <1>4, Ends
  <2> QED BY <2>1, <2>2, <2>3 DEF Abstract!MoveToBack, rest, this
<1>8. ASSUME NEW mark \in Elem, owner[mark] = l, mark # e
      PROVE  /\ Abstract!Has(l, mark)
             /\ \E q \in 1..n : /\ S[l][q] = mark /\ prev[mark] = Nth(S[l], l, q - 1) /\ mark = Nth(S[l], l, q)
                                /\ q - 1 \in 0..n /\ q \in 0..n /\ q # i
                                /\ Abstract!Pos(rest, mark) = IF q < i THEN q ELSE q - 1
  <2>1. Abstract!Has(l, mark)
    BY <1>8, IdleSeen, Terms
  <2>2. PICK q \in 1..n : /\ S[l][q] = mark /\ prev[mark] = Nth(S[l], l, q - 1) /\ mark = Nth(S[l], l, q)
                          /\ q - 1 \in 0..n /\ q \in 0..n
    BY <1>8, Place
  <2>3. q # i
    BY <2>2, <1>1, <1>8
  <2>4. Abstract!Pos(rest, S[l][q]) = IF q < i THEN q ELSE q - 1
    <3>1. Abstract!Pos(Entries(Abstract!S!RemoveAt(S[l], i), value), S[l][q]) = IF q < i THEN q ELSE q - 1
      <4>1. Distinct(S[l])
        BY <1>2 DEF Distinct
      <4>2. S[l] \in Seq(Elem)
        BY <1>2
      <4> QED BY <4>1, <4>2, <2>3, PosOfRest
    <3> QED BY <3>1, <1>3
  <2> QED BY <2>1, <2>2, <2>3, <2>4
<1>9. ASSUME NEW mark \in Elem, MoveBefore(l, e, mark)
      PROVE  Kept /\ Abstract!MoveBefore(l, e, mark)
  <2>1. loop' = Idle /\ Relink(e, prev[mark]) /\ call' = <<"MoveBefore", l, e, mark>> /\ owner[mark] = l /\ mark # e
    BY <1>9 DEF MoveBefore, Relink, Idling
  <2>2. PICK q \in 1..n : /\ prev[mark] = Nth(S[l], l, q - 1) /\ q - 1 \in 0..n /\ q # i
                          /\ Abstract!Pos(rest, mark) = IF q < i THEN q ELSE q - 1
    BY <2>1, <1>8
  <2>3. (IF q - 1 < i THEN (q - 1) + 1 ELSE q - 1) = Abstract!Pos(rest, mark)
    BY <2>2, <1>2
  <2>4. Kept /\ Abstract!Has(l, e) /\ Abstract!Becomes(l, Abstract!S!InsertAt(rest, Abstract!Pos(rest, mark), this))
    BY <2>1, <2>2, <2>3, <1>5
  <2> QED BY <2>1, <2>4, <1>8 DEF Abstract!MoveBefore, rest, this
<1>10. ASSUME NEW mark \in Elem, MoveAfter(l, e, mark)
       PROVE  Kept /\ Abstract!MoveAfter(l, e, mark)
  <2>1. loop' = Idle /\ Relink(e, mark) /\ call' = <<"MoveAfter", l, e, mark>> /\ owner[mark] = l /\ mark # e
    BY <1>10 DEF MoveAfter, Relink, Idling
  <2>2. PICK q \in 1..n : /\ mark = Nth(S[l], l, q) /\ q \in 0..n /\ q # i
                          /\ Abstract!Pos(rest, mark) = IF q < i THEN q ELSE q - 1
    BY <2>1, <1>8
  <2>3. (IF q < i THEN q + 1 ELSE q) = Abstract!Pos(rest, mark) + 1
    BY <2>2, <1>2
  <2>4. Kept /\ Abstract!Has(l, e) /\ Abstract!Becomes(l, Abstract!S!InsertAt(rest, Abstract!Pos(rest, mark) + 1, this))
    <3>1. Relink(e, Nth(S[l], l, q))
      BY <2>1, <2>2
    <3> QED BY <2>1, <2>2, <2>3, <3>1, <1>5
  <2> QED BY <2>1, <2>4, <1>8 DEF Abstract!MoveAfter, rest, this
<1> QED BY <1>6, <1>7, <1>9, <1>10

\* Init and Reset do what OrderedList says.
LEMMA ClearCall ==
  ASSUME IInv, IInv', value \in [Elem -> Value], NEW S, Orders(next, owner, len, S),
         NEW l \in List, Clear(l)
  PROVE  Kept /\ Abstract!Clear(l)
<1>1. loop = Idle /\ loop' = Idle /\ value' = value /\ call' = <<"Clear", l>>
  BY DEF Clear, Idling
<1>2. Orders(next', owner', len', [S EXCEPT ![l] = <<>>])
  BY ClearOrders
<1>3. Abstract!Becomes(l, Entries(<<>>, value'))
  BY <1>1, <1>2, IdleBecame
<1>4. Entries(<<>>, value') = <<>>
  BY DEF Entries
<1> QED BY <1>1, <1>2, <1>3, <1>4 DEF Abstract!Clear, Kept

\* Where a copying loop is.  The list it copies into has the copies at one end: Made
\* of them, the i-th of which CopyAt is.  The elements that were there before, and the
\* elements of any other list, are OldAt.
Made == Cardinality(loop.new)
OldLen(S, m)   == Len(S[m]) - (IF m = loop.to THEN Made ELSE 0)
OldAt(S, m, i) == S[m][IF m = loop.to /\ ~loop.back THEN Made + i ELSE i]
CopyAt(S, i)   == S[loop.to][IF loop.back THEN Len(S[loop.to]) - Made + i ELSE i]

\* The copies are of the first, or the last, old elements of the other list, the
\* cursor is at the next one, and there are as many from there on as the loop has
\* still to copy.
CopyOK(S) ==
  loop # Idle =>
    /\ loop \in Copying
    /\ Made <= Len(S[loop.to]) /\ OldLen(S, loop.other) = Made + loop.left
    /\ loop.new = {CopyAt(S, i) : i \in 1..Made}
    /\ \A i \in 1..Made :
         value[CopyAt(S, i)] = value[OldAt(S, loop.other, IF loop.back THEN i ELSE loop.left + i)]
    /\ loop.at = OldAt(S, loop.other, IF loop.back THEN Made + 1 ELSE loop.left)

\* A loop has made a finite number of copies.
LEMMA MadeNat == ASSUME loop \in Copying PROVE Made \in Nat /\ IsFiniteSet(loop.new)
<1>1. loop.new \subseteq Elem
  BY DEF Copying
<1> QED BY <1>1, ListAssumption, FS_Subset, FS_CardinalityType DEF Made

\* Old elements are in their lists, and are no copies.
LEMMA OldAre ==
  ASSUME NEW S, Orders(next, owner, len, S), loop # Idle, CopyOK(S), NEW m \in List, NEW i \in 1..OldLen(S, m)
  PROVE  OldAt(S, m, i) \in Elem /\ owner[OldAt(S, m, i)] = m /\ OldAt(S, m, i) \notin loop.new
<1>1. loop \in Copying /\ Made <= Len(S[loop.to]) /\ loop.new = {CopyAt(S, j) : j \in 1..Made}
  BY DEF CopyOK
<1>2. Made \in Nat /\ loop.to \in List /\ loop.back \in BOOLEAN
  BY <1>1, MadeNat DEF Copying
<1>3. \A l \in List : /\ S[l] \in Seq(Elem) /\ Len(S[l]) \in Nat
                      /\ \A a \in 1..Len(S[l]) : owner[S[l][a]] = l /\ S[l][a] \in Elem
                      /\ Distinct(S[l])
  BY DEF Orders, Ordered, Distinct
<1> DEFINE p == IF m = loop.to /\ ~loop.back THEN Made + i ELSE i
<1>4. p \in 1..Len(S[m]) /\ OldAt(S, m, i) = S[m][p]
  <2>1. Len(S[m]) \in Nat /\ i \in Int
    BY <1>3
  <2>2. CASE m = loop.to
    BY <2>1, <2>2, <1>1, <1>2 DEF OldLen, OldAt
  <2>3. CASE m # loop.to
    BY <2>1, <2>3, <1>1, <1>2 DEF OldLen, OldAt
  <2> QED BY <2>2, <2>3
<1>5. S[m][p] \in Elem /\ owner[S[m][p]] = m
  BY <1>3, <1>4
<1>6. ASSUME NEW j \in 1..Made, S[m][p] = CopyAt(S, j)
      PROVE  FALSE
  <2> DEFINE q == IF loop.back THEN Len(S[loop.to]) - Made + j ELSE j
  <2>1. q \in 1..Len(S[loop.to]) /\ CopyAt(S, j) = S[loop.to][q]
    <3>1. Len(S[loop.to]) \in Nat /\ j \in Int
      BY <1>2, <1>3
    <3> QED BY <3>1, <1>1, <1>2 DEF CopyAt
  <2>2. m = loop.to
    BY <2>1, <1>2, <1>3, <1>5, <1>6
  <2>3. p = q
    BY <2>1, <2>2, <1>2, <1>3, <1>4, <1>6 DEF Distinct
  <2>4. Len(S[loop.to]) \in Nat /\ i \in Int /\ j \in Int /\ i >= 1 /\ j >= 1 /\ i <= OldLen(S, m)
    BY <1>2, <1>3, <2>2 DEF OldLen
  <2>5. OldLen(S, m) = Len(S[loop.to]) - Made
    BY <2>2 DEF OldLen
  <2> QED BY <2>2, <2>3, <2>4, <2>5, <1>2
<1>7. S[m][p] \notin loop.new
  BY <1>1, <1>6
<1> QED BY <1>4, <1>5, <1>7

\* CursorIsOld, for the cursor that CopyOK speaks of.
LEMMA CursorOld ==
  ASSUME NEW S, Orders(next, owner, len, S), loop # Idle, CopyOK(S)
  PROVE  loop.at \notin loop.new /\ loop.at \in Elem /\ owner[loop.at] = loop.other
<1> DEFINE i == IF loop.back THEN Made + 1 ELSE loop.left
<1>1. /\ loop \in Copying /\ loop.other \in List /\ loop.left \in Nat \ {0}
      /\ OldLen(S, loop.other) = Made + loop.left /\ loop.at = OldAt(S, loop.other, i)
  BY DEF CopyOK, Copying
<1>2. i \in 1..OldLen(S, loop.other)
  BY <1>1, MadeNat
<1> HIDE DEF i
<1> QED BY <1>1, <1>2, OldAre

\* What is shown of a list are the old elements.
ShownAreOld ==
  \A S : IInv /\ Orders(next, owner, len, S) /\ loop # Idle /\ CopyOK(S) =>
    \A m \in List :
      /\ Shown(m, S[m]) \in Seq(Elem) /\ Len(Shown(m, S[m])) = OldLen(S, m) /\ OldLen(S, m) \in Nat
      /\ \A i \in 1..OldLen(S, m) : Shown(m, S[m])[i] = OldAt(S, m, i)

\* What is shown of a list while one is copied,
LEMMA ShownOld == ShownAreOld
<1> SUFFICES ASSUME NEW S, IInv, Orders(next, owner, len, S), loop # Idle, CopyOK(S), NEW m \in List
             PROVE  /\ Shown(m, S[m]) \in Seq(Elem) /\ Len(Shown(m, S[m])) = OldLen(S, m)
                    /\ OldLen(S, m) \in Nat
                    /\ \A i \in 1..OldLen(S, m) : Shown(m, S[m])[i] = OldAt(S, m, i)
  BY DEF ShownAreOld
<1>1. loop \in Copying /\ Made <= Len(S[loop.to]) /\ loop.to \in List /\ loop.back \in BOOLEAN
  BY DEF CopyOK, Copying
<1>2. Made \in Nat
  BY <1>1, MadeNat
<1>3. S[m] \in Seq(Elem) /\ Len(S[m]) \in Nat /\ len[m] = Len(S[m]) /\ \A i \in 1..Len(S[m]) : S[m][i] \in Elem
  BY DEF Orders
<1>4. CASE m # loop.to \/ Made = 0
  <2>1. Shown(m, S[m]) = S[m]
    BY <1>4 DEF Shown, Made
  <2>2. OldLen(S, m) = Len(S[m])
    BY <1>3, <1>4 DEF OldLen
  <2>3. \A i \in 1..Len(S[m]) : OldAt(S, m, i) = S[m][i]
    BY <1>3, <1>4 DEF OldAt
  <2> QED BY <2>1, <2>2, <2>3, <1>3
<1>5. CASE m = loop.to /\ Made # 0 /\ loop.back
  <2>1. Shown(m, S[m]) = SubSeq(S[m], 1, Len(S[m]) - Made)
    BY <1>3, <1>5 DEF Shown, Made
  <2>2. OldLen(S, m) = Len(S[m]) - Made /\ \A i \in 1..Len(S[m]) : OldAt(S, m, i) = S[m][i]
    BY <1>5 DEF OldLen, OldAt
  <2>3. Len(S[m]) - Made \in Nat /\ \A i \in 1..(Len(S[m]) - Made) : S[m][i] \in Elem
    BY <1>1, <1>2, <1>3, <1>5
  <2>4. /\ SubSeq(S[m], 1, Len(S[m]) - Made) \in Seq(Elem)
        /\ Len(SubSeq(S[m], 1, Len(S[m]) - Made)) = Len(S[m]) - Made
        /\ \A i \in 1..(Len(S[m]) - Made) : SubSeq(S[m], 1, Len(S[m]) - Made)[i] = S[m][i]
    <3> DEFINE n == Len(S[m]) - Made
    <3>1. n \in Nat /\ \A i \in 1..n : S[m][i] \in Elem
      BY <2>3
    <3> HIDE DEF n
    <3>2. /\ SubSeq(S[m], 1, n) \in Seq(Elem)
          /\ Len(SubSeq(S[m], 1, n)) = IF 1 <= n THEN n - 1 + 1 ELSE 0
          /\ \A i \in 1..(n - 1 + 1) : SubSeq(S[m], 1, n)[i] = S[m][1 + i - 1]
      BY <3>1, SubSeqProperties
    <3>3. /\ Len(SubSeq(S[m], 1, n)) = n
          /\ \A i \in 1..n : SubSeq(S[m], 1, n)[i] = S[m][i]
      BY <3>1, <3>2
    <3> QED BY <3>2, <3>3 DEF n
  <2> QED BY <2>1, <2>2, <2>3, <2>4, <1>2, <1>3
<1>6. CASE m = loop.to /\ Made # 0 /\ ~loop.back
  <2>1. Shown(m, S[m]) = SubSeq(S[m], Made + 1, Len(S[m]))
    BY <1>3, <1>6 DEF Shown, Made
  <2>2. OldLen(S, m) = Len(S[m]) - Made /\ \A i \in Int : OldAt(S, m, i) = S[m][Made + i]
    BY <1>6 DEF OldLen, OldAt
  <2>3. Len(S[m]) - Made \in Nat
    BY <1>1, <1>2, <1>3, <1>6
  <2>4. /\ SubSeq(S[m], Made + 1, Len(S[m])) \in Seq(Elem)
        /\ Len(SubSeq(S[m], Made + 1, Len(S[m]))) = Len(S[m]) - Made
        /\ \A i \in 1..(Len(S[m]) - Made) : SubSeq(S[m], Made + 1, Len(S[m]))[i] = S[m][Made + i]
    <3> DEFINE n == Len(S[m])
               a == Made + 1
    <3>1. n \in Nat /\ a \in Nat /\ a <= n + 1 /\ \A i \in a..n : S[m][i] \in Elem
      BY <2>3, <1>2, <1>3
    <3>2. n - a + 1 = n - Made /\ \A i \in Int : a + i - 1 = Made + i
      BY <1>2, <3>1
    <3> HIDE DEF n, a
    <3>3. /\ SubSeq(S[m], a, n) \in Seq(Elem)
          /\ Len(SubSeq(S[m], a, n)) = IF a <= n THEN n - a + 1 ELSE 0
          /\ \A i \in 1..(n - a + 1) : SubSeq(S[m], a, n)[i] = S[m][a + i - 1]
      BY <3>1, SubSeqProperties
    <3>4. Len(SubSeq(S[m], a, n)) = n - a + 1
      BY <3>1, <3>3
    <3>5. ASSUME NEW i \in 1..(n - Made) PROVE SubSeq(S[m], a, n)[i] = S[m][Made + i]
      <4>1. i \in 1..(n - a + 1) /\ a + i - 1 = Made + i
        BY <3>2
      <4> QED BY <4>1, <3>3
    <3>6. Len(SubSeq(S[m], a, n)) = n - Made
      BY <3>2, <3>4
    <3> QED BY <3>3, <3>5, <3>6 DEF n, a
  <2> QED BY <2>1, <2>2, <2>3, <2>4
<1> QED BY <1>1, <1>4, <1>5, <1>6

\* and the same after a step.
LEMMA ShownOldNext == ShownAreOld'
  BY ShownOld, PTL

\* What PushBackList and PushFrontList do at last.
CopyCall(back, l, other) ==
  IF back THEN Abstract!PushBackList(l, other) ELSE Abstract!PushFrontList(l, other)

\* The head of a copying loop: a list without elements is copied at once.
LEMMA CopyNothing ==
  ASSUME IInv, IInv', value \in [Elem -> Value], NEW S, Orders(next, owner, len, S),
         NEW l \in List, NEW other \in List, NEW back \in BOOLEAN,
         StartCopy(back, l, other), len[other] = 0
  PROVE  Kept /\ loop' = Idle /\ CopyCall(back, l, other)
<1>1. /\ loop = Idle /\ loop' = Idle /\ value' = value /\ call' = CopyOf(back, l, other)
      /\ next' = Inited(next, l) /\ owner' = owner /\ len' = len
  BY DEF StartCopy, Idling
<1>2. Orders(next', owner', len', S)
  BY <1>1, InitedOrders DEF IInv
<1>3. S \in [List -> Seq(Elem)] /\ S[l] \in Seq(Elem) /\ S[other] \in Seq(Elem) /\ Len(S[other]) = 0
  BY DEF Orders
<1>4. Contents(l) = Entries(S[l], value) /\ Contents(other) = Entries(S[other], value)
  BY <1>1, IdleSeen DEF Seen
<1>5. Contents(l) \in Seq(Entry) /\ Len(Contents(other)) = 0
  BY <1>3, <1>4, EntriesAre
<1>6. Contents(l) \o <<>> = Contents(l) /\ <<>> \o Contents(l) = Contents(l)
  BY <1>5, ConcatEmptySeq
<1>7. Abstract!Becomes(l, Contents(l))
  <2>1. [S EXCEPT ![l] = S[l]] = S
    BY <1>3
  <2>2. Abstract!Becomes(l, Entries(S[l], value'))
    BY <2>1, <1>1, <1>2, IdleBecame
  <2> QED BY <2>2, <1>1, <1>4
<1>8. <<>> \in Abstract!Copies(other)
  <2>1. [m \in List |-> Contents(m)][other] = Contents(other)
    OBVIOUS
  <2>2. <<>> \in [1..0 -> Abstract!Entry] /\ DOMAIN <<>> = {}
    OBVIOUS
  <2> QED BY <2>1, <2>2, <1>5 DEF Abstract!Copies
<1>9. [m \in List |-> Contents(m)][l] = Contents(l)
  OBVIOUS
<1>10. CASE back
  <2>1. Abstract!Becomes(l, [m \in List |-> Contents(m)][l] \o <<>>)
    BY <1>6, <1>7, <1>9
  <2> QED BY <2>1, <1>1, <1>2, <1>8, <1>10 DEF CopyCall, CopyOf, Kept, Abstract!PushBackList
<1>11. CASE ~back
  <2>1. Abstract!Becomes(l, <<>> \o [m \in List |-> Contents(m)][l])
    BY <1>6, <1>7, <1>9
  <2> QED BY <2>1, <1>1, <1>2, <1>8, <1>11 DEF CopyCall, CopyOf, Kept, Abstract!PushFrontList
<1> QED BY <1>10, <1>11

\* The head of a loop that has something to copy: nobody sees it.
LEMMA CopyBegins ==
  ASSUME IInv, IInv', value \in [Elem -> Value], NEW S, Orders(next, owner, len, S),
         NEW l \in List, NEW other \in List, NEW back \in BOOLEAN,
         StartCopy(back, l, other), len[other] # 0
  PROVE  /\ value' = value /\ Orders(next', owner', len', S) /\ CopyOK(S)'
         /\ UNCHANGED Abstract!vars
<1>1. /\ loop = Idle /\ value' = value /\ call' = call
      /\ next' = Inited(next, l) /\ owner' = owner /\ len' = len
      /\ loop' = [back |-> back, to |-> l, other |-> other, left |-> len[other],
                  at |-> IF back THEN Front(other) ELSE Back(other), new |-> {}]
  BY DEF StartCopy, Idling
<1>2. Orders(next', owner', len', S)
  BY <1>1, InitedOrders DEF IInv
<1>3. /\ Front(other) = S[other][1] /\ 1 \in 1..Len(S[other])
      /\ Back(other) = S[other][Len(S[other])] /\ Len(S[other]) \in 1..Len(S[other])
  BY FrontAndBack
<1>4. /\ S \in [List -> Seq(Elem)] /\ S[other] \in Seq(Elem) /\ S[l] \in Seq(Elem)
      /\ len[other] = Len(S[other]) /\ Len(S[other]) \in Nat /\ Len(S[l]) \in Nat
  BY DEF Orders
<1>5. S[other][1] \in Elem /\ S[other][Len(S[other])] \in Elem
  BY <1>3, <1>4
<1>6. loop' \in Copying
  <2>1. len[other] \in Nat \ {0}
    BY <1>4
  <2> QED BY <2>1, <1>1, <1>3, <1>5 DEF Copying
<1>7. loop'.new = {} /\ Cardinality(loop'.new) = 0
  BY <1>1, FS_EmptySet
<1>8. CopyOK(S)'
  <2>1. Made' = 0 /\ 1..0 = {}
    BY <1>7 DEF Made
  <2>2. loop'.to = l /\ loop'.other = other /\ loop'.left = Len(S[other]) /\ loop'.back = back
    BY <1>1, <1>4
  <2>3. OldLen(S, other)' = Len(S[other])
    BY <2>1, <1>4 DEF OldLen
  <2>4. loop'.at = IF back THEN S[other][1] ELSE S[other][Len(S[other])]
    BY <1>1, <1>3
  <2>5. \A i \in Int : OldAt(S, other, i)' = S[other][i]
    BY <2>1 DEF OldAt
  <2> HIDE DEF Made
  <2>6. loop'.at = OldAt(S, other, IF back THEN Made + 1 ELSE loop.left)'
    <3>1. CASE back
      BY <3>1, <2>1, <2>2, <2>4 DEF OldAt
    <3>2. CASE ~back
      BY <3>2, <2>1, <2>2, <2>4, <1>4 DEF OldAt
    <3> QED BY <3>1, <3>2
  <2> QED BY <2>1, <2>2, <2>3, <2>6, <1>4, <1>6, <1>7 DEF CopyOK
<1>9. ASSUME NEW m \in List PROVE Contents(m)' = Contents(m)
  <2>1. Contents(m) = Entries(S[m], value)
    BY <1>1, IdleSeen DEF Seen
  <2>2. Contents(m)' = Entries(Shown(m, S[m])', value')
    BY <1>2, ContentsShownNext DEF ContentsAreShown
  <2>3. Shown(m, S[m])' = S[m]
    BY <1>7 DEF Shown
  <2> QED BY <2>1, <2>2, <2>3, <1>1
<1>10. UNCHANGED Abstract!vars
  BY <1>1, <1>9 DEF Abstract!vars
<1> QED BY <1>1, <1>2, <1>8, <1>10

\* The lists S after a turn of the loop has put e next to the copies there are, and
\* the old elements and the copies in them, which are one more.
Grown(S, T, e) ==
  LET l == loop.to
  IN  /\ T \in [List -> Seq(Elem)] /\ \A m \in List : m # l => T[m] = S[m]
      /\ Len(T[l]) = Len(S[l]) + 1
      /\ \A i \in 1..(Len(S[l]) + 1) :
           T[l][i] = IF loop.back THEN IF i <= Len(S[l]) THEN S[l][i] ELSE e
                     ELSE IF i = 1 THEN e ELSE S[l][i - 1]

NextOld(T, m, i) == T[m][IF m = loop.to /\ ~loop.back THEN Made + 1 + i ELSE i]
NextCopy(T, i)   == T[loop.to][IF loop.back THEN Len(T[loop.to]) - (Made + 1) + i ELSE i]

\* A turn of the loop puts the new element next to the copies.
LEMMA CopyGrows ==
  ASSUME IInv, NEW S, Orders(next, owner, len, S), CopyOK(S), NEW e \in Elem, CopyOne(e)
  PROVE  \E T : Orders(next', owner', len', T) /\ Grown(S, T, e)
<1> DEFINE l == loop.to
           k == IF loop.back THEN Len(S[l]) ELSE 0
           t == Abstract!S!InsertAt(S[l], k + 1, e)
<1>1. loop # Idle /\ loop \in Copying /\ l \in List /\ loop.back \in BOOLEAN /\ next[l] # Nil
  BY DEF CopyOne, Idling, CopyOK, Copying, IInv, LoopOK
<1>2. /\ S \in [List -> Seq(Elem)] /\ S[l] \in Seq(Elem) /\ Len(S[l]) \in Nat
      /\ Ordered(next, owner, l, S[l])
  BY <1>1 DEF Orders
<1>3. prev[l] = Nth(S[l], l, Len(S[l])) /\ l = Nth(S[l], l, 0)
  <2>1. Linked(next, prev, owner)
    BY DEF IInv
  <2>2. prev[l] = Nth(S[l], l, Len(S[l]))
    BY <2>1, <1>1, <1>2, PrevNode
  <2>3. l = Nth(S[l], l, 0)
    BY <1>1, <1>2, NthNode
  <2> QED BY <2>2, <2>3
<1>4. k \in 0..Len(S[l]) /\ Insert(next, prev, l, e, value[loop.at], Nth(S[l], l, k))
  <2>1. Insert(next, prev, l, e, value[loop.at], IF loop.back THEN prev[l] ELSE l)
    BY DEF CopyOne
  <2> QED BY <2>1, <1>1, <1>2, <1>3
<1> HIDE DEF k
<1>5. Orders(next', owner', len', [S EXCEPT ![l] = t])
  <2>1. /\ owner[e] = Nil /\ owner' = [owner EXCEPT ![e] = l] /\ len' = [len EXCEPT ![l] = @ + 1]
        /\ next' = [next EXCEPT ![e] = next[Nth(S[l], l, k)], ![Nth(S[l], l, k)] = e]
    BY <1>4 DEF Insert
  <2>2. len \in [List -> Nat] /\ Links(next, prev, owner)
    BY DEF IInv
  <2> HIDE DEF l
  <2> QED BY <2>1, <2>2, <1>1, <1>4, InsertOrders
<1>6. /\ t \in Seq(Elem) /\ Len(t) = Len(S[l]) + 1
      /\ \A i \in 1..(Len(S[l]) + 1) :
           t[i] = IF i < k + 1 THEN S[l][i] ELSE IF i = k + 1 THEN e ELSE S[l][i - 1]
  <2> DEFINE s == S[l]
             j == k + 1
  <2>1. j \in 1..(Len(s) + 1) /\ s \in Seq(Elem)
    BY <1>2, <1>4
  <2> HIDE DEF s, j
  <2>2. /\ Abstract!S!InsertAt(s, j, e) \in Seq(Elem)
        /\ Len(Abstract!S!InsertAt(s, j, e)) = Len(s) + 1
        /\ \A i \in 1..(Len(s) + 1) :
              Abstract!S!InsertAt(s, j, e)[i] = IF i < j THEN s[i] ELSE IF i = j THEN e ELSE s[i - 1]
    BY <2>1, InsertedAt
  <2> QED BY <2>2 DEF s, j
<1> HIDE DEF t
<1>7. ASSUME NEW i \in 1..(Len(S[l]) + 1)
      PROVE  t[i] = IF loop.back THEN IF i <= Len(S[l]) THEN S[l][i] ELSE e
                    ELSE IF i = 1 THEN e ELSE S[l][i - 1]
  BY <1>1, <1>2, <1>6 DEF k
<1> DEFINE T == [S EXCEPT ![l] = t]
<1>8. T[l] = t /\ T \in [List -> Seq(Elem)] /\ \A m \in List : m # l => T[m] = S[m]
  BY <1>1, <1>2, <1>6
<1> HIDE DEF T
<1>9. Grown(S, T, e)
  BY <1>6, <1>7, <1>8 DEF Grown
<1> QED BY <1>5, <1>9 DEF T

\* The old elements stay where they are among the old.
LEMMA OldStay ==
  ASSUME NEW S, Orders(next, owner, len, S), loop # Idle, CopyOK(S), NEW e \in Elem, NEW T, Grown(S, T, e)
  PROVE  \A m \in List :
           /\ OldLen(S, m) \in Nat
           /\ OldLen(S, m) = Len(T[m]) - (IF m = loop.to THEN Made + 1 ELSE 0)
           /\ \A i \in 1..OldLen(S, m) : NextOld(T, m, i) = OldAt(S, m, i)
<1> SUFFICES ASSUME NEW m \in List
             PROVE  /\ OldLen(S, m) \in Nat
                    /\ OldLen(S, m) = Len(T[m]) - (IF m = loop.to THEN Made + 1 ELSE 0)
                    /\ \A i \in 1..OldLen(S, m) : NextOld(T, m, i) = OldAt(S, m, i)
  OBVIOUS
<1>1. loop \in Copying /\ Made \in Nat /\ Made <= Len(S[loop.to]) /\ loop.back \in BOOLEAN /\ loop.to \in List
  BY MadeNat DEF CopyOK, Copying
<1>2. Len(S[m]) \in Nat /\ Len(S[loop.to]) \in Nat
  BY <1>1 DEF Orders
<1>3. CASE m # loop.to
  BY <1>2, <1>3 DEF Grown, OldLen, NextOld, OldAt
<1>4. CASE m = loop.to
  <2>1. OldLen(S, m) = Len(S[m]) - Made /\ Len(T[m]) = Len(S[m]) + 1
    BY <1>4 DEF OldLen, Grown
  <2>2. ASSUME NEW i \in 1..OldLen(S, m) PROVE NextOld(T, m, i) = OldAt(S, m, i)
    <3>1. i \in Int /\ 1 <= i /\ i <= Len(S[m]) - Made
      BY <2>1, <1>1, <1>2
    <3>2. CASE loop.back
      <4>1. i \in 1..(Len(S[m]) + 1) /\ i <= Len(S[m])
        BY <3>1, <1>1, <1>2
      <4>2. T[m][i] = S[m][i]
        BY <4>1, <3>2, <1>4 DEF Grown
      <4> QED BY <4>2, <3>2 DEF NextOld, OldAt
    <3>3. CASE ~loop.back
      <4>1. Made + 1 + i \in 1..(Len(S[m]) + 1) /\ Made + 1 + i # 1 /\ (Made + 1 + i) - 1 = Made + i
        BY <3>1, <1>1, <1>2
      <4>2. T[m][Made + 1 + i] = S[m][Made + i]
        BY <4>1, <3>3, <1>4 DEF Grown
      <4> QED BY <4>2, <3>3, <1>4 DEF NextOld, OldAt
    <3> QED BY <3>2, <3>3
  <2>3. OldLen(S, m) \in Nat /\ OldLen(S, m) = Len(T[m]) - (Made + 1)
    BY <2>1, <1>1, <1>2, <1>4
  <2> QED BY <2>2, <2>3, <1>4
<1> QED BY <1>3, <1>4

\* The copies are those there were and e, which is the last of them, or the first.
LEMMA CopiesGrow ==
  ASSUME NEW S, Orders(next, owner, len, S), loop # Idle, CopyOK(S), NEW e \in Elem, NEW T, Grown(S, T, e)
  PROVE  /\ loop.back => /\ NextCopy(T, Made + 1) = e
                         /\ \A i \in 1..Made : NextCopy(T, i) = CopyAt(S, i)
         /\ ~loop.back => /\ NextCopy(T, 1) = e
                          /\ \A i \in 1..Made : NextCopy(T, i + 1) = CopyAt(S, i)
         /\ loop.new \cup {e} = {NextCopy(T, i) : i \in 1..(Made + 1)}
<1> DEFINE l == loop.to
           n == Len(S[l])
<1>1. /\ Made \in Nat /\ Made <= n /\ loop.back \in BOOLEAN /\ l \in List /\ n \in Nat
      /\ loop.new = {CopyAt(S, i) : i \in 1..Made}
  BY MadeNat DEF CopyOK, Copying, Orders
<1>2. Len(T[l]) = n + 1
  BY DEF Grown
<1>3. CASE loop.back
  <2>1. ASSUME NEW i \in 1..Made PROVE NextCopy(T, i) = CopyAt(S, i)
    <3>1. /\ (n + 1) - (Made + 1) + i = n - Made + i /\ n - Made + i \in 1..(n + 1)
          /\ n - Made + i <= n
      <4>1. i \in Int /\ 1 <= i /\ i <= Made /\ Made \in Nat /\ n \in Nat /\ Made <= n
        BY <1>1
      <4> HIDE DEF n
      <4> QED BY <4>1
    <3>2. T[l][n - Made + i] = S[l][n - Made + i]
      BY <3>1, <1>3 DEF Grown
    <3> QED BY <3>1, <3>2, <1>2, <1>3 DEF NextCopy, CopyAt
  <2>2. NextCopy(T, Made + 1) = e
    <3>1. (n + 1) - (Made + 1) + (Made + 1) = n + 1 /\ n + 1 \in 1..(n + 1) /\ ~(n + 1 <= n)
      <4>1. Made \in Nat /\ n \in Nat
        BY <1>1
      <4> HIDE DEF n
      <4> QED BY <4>1
    <3>2. T[l][n + 1] = e
      BY <3>1, <1>3 DEF Grown
    <3> QED BY <3>1, <3>2, <1>2, <1>3 DEF NextCopy
  <2>3. 1..(Made + 1) = 1..Made \cup {Made + 1}
    BY <1>1
  <2>4. loop.new \cup {e} = {NextCopy(T, i) : i \in 1..(Made + 1)}
    BY <2>1, <2>2, <2>3, <1>1
  <2> QED BY <2>1, <2>2, <2>4, <1>3
<1>4. CASE ~loop.back
  <2>1. ASSUME NEW i \in 1..Made PROVE NextCopy(T, i + 1) = CopyAt(S, i)
    <3>1. i + 1 \in 1..(n + 1) /\ i + 1 # 1 /\ (i + 1) - 1 = i
      BY <1>1
    <3>2. T[l][i + 1] = S[l][i]
      BY <3>1, <1>4 DEF Grown
    <3> QED BY <3>2, <1>4 DEF NextCopy, CopyAt
  <2>2. NextCopy(T, 1) = e
    <3>1. 1 \in 1..(n + 1)
      BY <1>1
    <3>2. T[l][1] = e
      BY <3>1, <1>4 DEF Grown
    <3> QED BY <3>2, <1>4 DEF NextCopy
  <2>3. ASSUME NEW i \in 1..(Made + 1) PROVE NextCopy(T, i) \in loop.new \cup {e}
    <3>1. CASE i = 1
      BY <3>1, <2>2
    <3>2. CASE i # 1
      <4>1. i - 1 \in 1..Made /\ (i - 1) + 1 = i
        BY <3>2, <1>1
      <4> QED BY <4>1, <2>1, <1>1
    <3> QED BY <3>1, <3>2
  <2>4. ASSUME NEW d \in loop.new \cup {e} PROVE \E i \in 1..(Made + 1) : d = NextCopy(T, i)
    <3>1. CASE d = e
      <4>1. 1 \in 1..(Made + 1)
        BY <1>1
      <4> QED BY <4>1, <3>1, <2>2
    <3>2. CASE d # e
      <4>1. PICK i \in 1..Made : d = CopyAt(S, i)
        BY <3>2, <1>1
      <4>2. i + 1 \in 1..(Made + 1) /\ NextCopy(T, i + 1) = d
        BY <4>1, <2>1, <1>1
      <4> QED BY <4>2
    <3> QED BY <3>1, <3>2
  <2>5. loop.new \cup {e} = {NextCopy(T, i) : i \in 1..(Made + 1)}
    BY <2>3, <2>4
  <2> QED BY <2>1, <2>2, <2>5, <1>4
<1> QED BY <1>1, <1>3, <1>4

\* Where among the old elements of the other list the original of the i-th copy is.
Source(i) == IF loop.back THEN i ELSE loop.left - 1 + i

\* A turn of the loop gives the new element the value at the cursor, and no other
\* element that is in a list a value.
LEMMA CopyValues ==
  ASSUME value \in [Elem -> Value], NEW S, Orders(next, owner, len, S), CopyOK(S),
         NEW e \in Elem, CopyOne(e), NEW T, Grown(S, T, e)
  PROVE  /\ owner[e] = Nil /\ e \notin loop.new
         /\ value' \in [Elem -> Value]
         /\ \A d \in Elem : owner[d] # Nil => value'[d] = value[d]
         /\ \A i \in 1..(Made + 1) :
              /\ Source(i) \in 1..OldLen(S, loop.other)
              /\ value'[NextCopy(T, i)] = value[OldAt(S, loop.other, Source(i))]
<1> DEFINE l == loop.to
           o == loop.other
           Old(i) == OldAt(S, o, i)
<1>1. /\ loop # Idle /\ owner[e] = Nil /\ value' = [value EXCEPT ![e] = value[loop.at]]
  BY DEF CopyOne, Idling, Insert
<1>2. /\ Made \in Nat /\ loop.back \in BOOLEAN /\ l \in List /\ o \in List
      /\ loop.left \in Nat /\ loop.left >= 1
      /\ OldLen(S, o) = Made + loop.left
      /\ loop.new = {CopyAt(S, i) : i \in 1..Made} /\ loop.new \subseteq Elem
      /\ \A i \in 1..Made : value[CopyAt(S, i)] = value[Old(IF loop.back THEN i ELSE loop.left + i)]
      /\ loop.at = Old(IF loop.back THEN Made + 1 ELSE loop.left)
  BY <1>1, MadeNat DEF CopyOK, Copying
<1>3. ASSUME NEW i \in 1..Made PROVE CopyAt(S, i) \in Elem /\ owner[CopyAt(S, i)] = l
  <2>1. S[l] \in Seq(Elem) /\ Len(S[l]) \in Nat /\ \A a \in 1..Len(S[l]) : owner[S[l][a]] = l
    BY <1>2 DEF Orders, Ordered
  <2>2. Made <= Len(S[l])
    BY <1>1 DEF CopyOK
  <2>3. Len(S[l]) - Made + i \in 1..Len(S[l]) /\ i \in 1..Len(S[l])
    <3>1. i \in Int /\ 1 <= i /\ i <= Made
      BY <1>2
    <3> QED BY <3>1, <2>1, <2>2, <1>2
  <2> QED BY <2>1, <2>3, <1>2 DEF CopyAt
<1>4. l # Nil /\ o # Nil
  BY <1>2, ListAssumption
<1>5. e \notin loop.new
  BY <1>1, <1>2, <1>3, <1>4
<1>6. loop.at \in Elem
  BY <1>1, CursorOld
<1>7. /\ value' \in [Elem -> Value] /\ value'[e] = value[loop.at]
      /\ \A d \in Elem : d # e => value'[d] = value[d]
  BY <1>1, <1>6
<1> HIDE DEF Old
<1>8. ASSUME NEW i \in 1..Made PROVE value'[CopyAt(S, i)] = value[CopyAt(S, i)]
  BY <1>1, <1>3, <1>4, <1>7
<1>9. ASSUME NEW i \in 1..(Made + 1)
      PROVE  /\ Source(i) \in 1..OldLen(S, o)
             /\ value'[NextCopy(T, i)] = value[Old(Source(i))]
  <2>0. i \in Int /\ 1 <= i /\ i <= Made + 1
    BY <1>2
  <2>1. Source(i) \in 1..OldLen(S, o)
    BY <2>0, <1>2 DEF Source
  <2>2. CASE loop.back
    <3>0. Source(i) = i
      BY <2>2 DEF Source
    <3>1. CASE i = Made + 1
      <4>1. NextCopy(T, i) = e
        BY <2>2, <3>1, <1>1, CopiesGrow
      <4>2. value[loop.at] = value[Old(i)]
        BY <2>2, <3>1, <1>2
      <4> QED BY <4>1, <4>2, <3>0, <2>1, <1>7
    <3>2. CASE i # Made + 1
      <4>1. i \in 1..Made
        BY <3>2, <2>0, <1>2
      <4>2. NextCopy(T, i) = CopyAt(S, i)
        BY <4>1, <2>2, <1>1, CopiesGrow
      <4>3. value[CopyAt(S, i)] = value[Old(i)]
        BY <4>1, <2>2, <1>2
      <4> QED BY <4>1, <4>2, <4>3, <3>0, <2>1, <1>8
    <3> QED BY <3>1, <3>2
  <2>3. CASE ~loop.back
    <3>1. CASE i = 1
      <4>0. Source(i) = loop.left
        BY <2>3, <3>1, <1>2 DEF Source
      <4>1. NextCopy(T, i) = e
        BY <2>3, <3>1, <1>1, CopiesGrow
      <4>2. value[loop.at] = value[Old(loop.left)]
        BY <2>3, <1>2
      <4> QED BY <4>0, <4>1, <4>2, <2>1, <1>7
    <3>2. CASE i # 1
      <4> DEFINE j == i - 1
      <4>1. j \in 1..Made /\ j + 1 = i /\ Source(i) = loop.left + j
        BY <2>3, <3>2, <2>0, <1>2 DEF Source
      <4> HIDE DEF j
      <4>2. NextCopy(T, j + 1) = CopyAt(S, j)
        BY <4>1, <2>3, <1>1, CopiesGrow
      <4>3. value[CopyAt(S, j)] = value[Old(loop.left + j)]
        BY <4>1, <2>3, <1>2
      <4> QED BY <4>1, <4>2, <4>3, <2>1, <1>8
    <3> QED BY <3>1, <3>2
  <2> QED BY <2>2, <2>3
<1>10. \A d \in Elem : owner[d] # Nil => value'[d] = value[d]
  BY <1>1, <1>7
<1> QED BY <1>1, <1>5, <1>7, <1>9, <1>10 DEF Old

\* What is shown of a list has the entries of its old elements.
LEMMA ContentsOld ==
  ASSUME IInv, value \in [Elem -> Value], NEW S, Orders(next, owner, len, S), loop # Idle, CopyOK(S),
         NEW m \in List
  PROVE  /\ Shown(m, S[m]) \in Seq(Elem) /\ Len(Shown(m, S[m])) = OldLen(S, m) /\ OldLen(S, m) \in Nat
         /\ Contents(m) = Entries(Shown(m, S[m]), value)
         /\ Contents(m) \in Seq(Entry) /\ Len(Contents(m)) = OldLen(S, m)
         /\ \A i \in 1..OldLen(S, m) :
              /\ Shown(m, S[m])[i] = OldAt(S, m, i)
              /\ Contents(m)[i] = <<OldAt(S, m, i), value[OldAt(S, m, i)]>>
<1> DEFINE s == Shown(m, S[m])
<1>1. /\ s \in Seq(Elem) /\ Len(s) = OldLen(S, m) /\ OldLen(S, m) \in Nat
      /\ \A i \in 1..OldLen(S, m) : s[i] = OldAt(S, m, i)
  BY ShownOld DEF ShownAreOld
<1>2. Contents(m) = Entries(s, value)
  BY ContentsShown DEF ContentsAreShown
<1> HIDE DEF s
<1>3. /\ Entries(s, value) \in Seq(Entry) /\ Len(Entries(s, value)) = Len(s)
      /\ \A i \in 1..Len(s) : Entries(s, value)[i] = <<s[i], value[s[i]]>>
  BY <1>1, EntriesAre
<1> QED BY <1>1, <1>2, <1>3 DEF s

\* `e = e.Next()`, or e.Prev(), from an old element that is not the last one to copy.
LEMMA CursorSteps ==
  ASSUME IInv, IInv', value \in [Elem -> Value], NEW S, Orders(next, owner, len, S), CopyOK(S),
         NEW e \in Elem, CopyOne(e), NEW T, Orders(next', owner', len', T), Grown(S, T, e),
         loop.left # 1
  PROVE  /\ Step(IF loop.back THEN next' ELSE prev', owner', loop.at)
              = NextOld(T, loop.other, IF loop.back THEN Made + 2 ELSE loop.left - 1)
         /\ NextOld(T, loop.other, IF loop.back THEN Made + 2 ELSE loop.left - 1) \in Elem
<1> DEFINE o == loop.other
           n == Len(T[o])
           c == IF loop.back THEN Made + 1 ELSE loop.left
           p == IF o = loop.to /\ ~loop.back THEN Made + 1 + c ELSE c
           q == IF loop.back THEN p + 1 ELSE p - 1
<1>1. /\ loop # Idle /\ owner[e] = Nil /\ owner' = [owner EXCEPT ![e] = loop.to]
      /\ Links(next, prev, owner)
  BY DEF CopyOne, Idling, Insert, IInv
<1>2. /\ Made \in Nat /\ loop.back \in BOOLEAN /\ loop.to \in List /\ o \in List /\ o # Nil /\ o \notin Elem
      /\ loop.left \in Nat /\ loop.left >= 2
      /\ OldLen(S, o) = Made + loop.left /\ loop.at = OldAt(S, o, c)
  BY <1>1, MadeNat, ListAssumption DEF CopyOK, Copying
<1>3. loop.at \in Elem /\ owner[loop.at] = o
  BY <1>1, CursorOld
<1>4. owner'[loop.at] = o
  BY <1>1, <1>2, <1>3 DEF Links
<1>5. c \in 1..OldLen(S, o)
  BY <1>2
<1>6. /\ OldLen(S, o) = n - (IF o = loop.to THEN Made + 1 ELSE 0)
      /\ NextOld(T, o, c) = loop.at
  <2>1. /\ OldLen(S, o) = Len(T[o]) - (IF o = loop.to THEN Made + 1 ELSE 0)
        /\ \A i \in 1..OldLen(S, o) : NextOld(T, o, i) = OldAt(S, o, i)
    <3>1. o \in List /\ loop # Idle
      BY <1>1, <1>2
    <3> HIDE DEF o
    <3> QED BY <3>1, OldStay
  <2> HIDE DEF c
  <2> QED BY <2>1, <1>2, <1>5
<1>7. /\ T[o] \in Seq(Elem) /\ n \in Nat /\ \A i \in 1..n : T[o][i] \in Elem
      /\ Ordered(next', owner', o, T[o])
  BY <1>2 DEF Orders
<1>8. p \in 1..n /\ q \in 1..n /\ p \in Int /\ T[o][p] = loop.at
  <2>1. p \in 1..n /\ q \in 1..n /\ p \in Int
    <3>0. /\ Made \in Nat /\ loop.left \in Nat /\ loop.left >= 2 /\ n \in Nat
          /\ Made + loop.left = n - (IF o = loop.to THEN Made + 1 ELSE 0)
          /\ loop.back \in BOOLEAN
      BY <1>2, <1>6, <1>7
    <3> HIDE DEF n, o
    <3>1. CASE loop.back
      BY <3>0, <3>1
    <3>2. CASE ~loop.back /\ o = loop.to
      BY <3>0, <3>2
    <3>3. CASE ~loop.back /\ o # loop.to
      BY <3>0, <3>3
    <3> QED BY <3>0, <3>1, <3>2, <3>3
  <2>2. T[o][p] = loop.at
    BY <1>6 DEF NextOld
  <2> QED BY <2>1, <2>2
<1>9. next'[o] # Nil /\ Linked(next', prev', owner')
  BY <1>2, <1>3, <1>4 DEF IInv, Linked
<1>10. T[o][q] = NextOld(T, o, IF loop.back THEN Made + 2 ELSE loop.left - 1)
  <2>1. q = IF o = loop.to /\ ~loop.back
            THEN Made + 1 + (IF loop.back THEN Made + 2 ELSE loop.left - 1)
            ELSE (IF loop.back THEN Made + 2 ELSE loop.left - 1)
    BY <1>2
  <2> HIDE DEF q
  <2> QED BY <2>1 DEF NextOld
<1>11. (IF loop.back THEN next' ELSE prev')[loop.at] = T[o][q]
  <2> HIDE DEF p
  <2>1. CASE loop.back
    <3>1. p \in 0..n /\ q = p + 1 /\ Nth(T[o], o, p) = T[o][p] /\ Nth(T[o], o, p + 1) = T[o][p + 1]
      BY <2>1, <1>7, <1>8 DEF Nth
    <3>2. next'[Nth(T[o], o, p)] = Nth(T[o], o, p + 1)
      BY <3>1, <1>7, <1>9 DEF Ordered
    <3> QED BY <2>1, <3>1, <3>2, <1>8
  <2>2. CASE ~loop.back
    <3>1. q = p - 1 /\ Nth(T[o], o, p - 1) = T[o][p - 1]
      BY <2>2, <1>8 DEF Nth
    <3>2. prev'[T[o][p]] = Nth(T[o], o, p - 1)
      BY <1>2, <1>7, <1>8, <1>9, PrevNode
    <3> QED BY <2>2, <3>1, <3>2, <1>8
  <2> QED BY <2>1, <2>2, <1>2
<1> HIDE DEF q
<1>12. T[o][q] \in Elem
  BY <1>7, <1>8
<1> QED BY <1>2, <1>4, <1>10, <1>11, <1>12 DEF Step

\* A turn of the loop that is not the last: nobody sees it.
LEMMA CopyGoesOn ==
  ASSUME IInv, IInv', value \in [Elem -> Value], NEW S, Orders(next, owner, len, S), CopyOK(S),
         NEW e \in Elem, CopyOne(e), loop.left # 1
  PROVE  /\ value' \in [Elem -> Value]
         /\ \E T : Orders(next', owner', len', T) /\ CopyOK(T)'
         /\ UNCHANGED Abstract!vars
<1>1. PICK T : Orders(next', owner', len', T) /\ Grown(S, T, e)
  BY CopyGrows
<1> DEFINE to == loop.to
           o  == loop.other
<1>2. /\ loop # Idle /\ call' = call
      /\ loop' = [loop EXCEPT !.left = @ - 1, !.new = @ \cup {e},
                    !.at = Step(IF loop.back THEN next' ELSE prev', owner', loop.at)]
  BY DEF CopyOne, Idling
<1>3. /\ loop \in Copying /\ Made \in Nat /\ IsFiniteSet(loop.new) /\ loop.back \in BOOLEAN
      /\ to \in List /\ o \in List /\ loop.left \in Nat \ {0} /\ loop.new \subseteq Elem
      /\ Made <= Len(S[to]) /\ OldLen(S, o) = Made + loop.left
  BY <1>2, MadeNat DEF CopyOK, Copying
<1>4. /\ owner[e] = Nil /\ e \notin loop.new /\ value' \in [Elem -> Value]
      /\ \A d \in Elem : owner[d] # Nil => value'[d] = value[d]
      /\ \A i \in 1..(Made + 1) :
           Source(i) \in 1..OldLen(S, o) /\ value'[NextCopy(T, i)] = value[OldAt(S, o, Source(i))]
  BY <1>1, CopyValues
<1>5. /\ Step(IF loop.back THEN next' ELSE prev', owner', loop.at)
           = NextOld(T, o, IF loop.back THEN Made + 2 ELSE loop.left - 1)
      /\ NextOld(T, o, IF loop.back THEN Made + 2 ELSE loop.left - 1) \in Elem
  BY <1>1, CursorSteps
<1>6. /\ loop'.back = loop.back /\ loop'.to = to /\ loop'.other = o /\ loop'.left = loop.left - 1
      /\ loop'.new = loop.new \cup {e}
      /\ loop'.at = NextOld(T, o, IF loop.back THEN Made + 2 ELSE loop.left - 1)
      /\ loop' \in Copying
  <2>1. loop.left - 1 \in Nat \ {0} /\ loop.new \cup {e} \in SUBSET Elem
    BY <1>3
  <2> QED BY <2>1, <1>2, <1>3, <1>5 DEF Copying
<1>7. loop' # Idle
  BY <1>6 DEF Copying, Idle
<1>8. Made' = Made + 1
  BY <1>3, <1>4, <1>6, FS_AddElement DEF Made
<1>9. /\ \A m, i : OldAt(T, m, i)' = NextOld(T, m, i)
      /\ \A i : CopyAt(T, i)' = NextCopy(T, i)
  BY <1>6, <1>8 DEF OldAt, NextOld, CopyAt, NextCopy
<1>10. \A m \in List : /\ OldLen(T, m)' = OldLen(S, m) /\ OldLen(S, m) \in Nat
                       /\ \A i \in 1..OldLen(S, m) : NextOld(T, m, i) = OldAt(S, m, i)
  <2>1. \A m \in List : OldLen(T, m)' = Len(T[m]) - (IF m = to THEN Made + 1 ELSE 0)
    BY <1>6, <1>8 DEF OldLen
  <2> QED BY <2>1, <1>1, <1>2, OldStay
<1>11. ASSUME NEW m \in List, NEW i \in 1..OldLen(S, m)
       PROVE  /\ OldAt(T, m, i)' = OldAt(S, m, i)
              /\ value'[OldAt(S, m, i)] = value[OldAt(S, m, i)]
  <2>1. OldAt(S, m, i) \in Elem /\ owner[OldAt(S, m, i)] = m
    BY <1>2, OldAre
  <2>2. m # Nil
    BY ListAssumption
  <2> QED BY <2>1, <2>2, <1>4, <1>9, <1>10
<1>12. CopyOK(T)'
  <2>1. Made + 1 <= Len(T[to])
    <3>1. Len(S[to]) \in Nat /\ Len(T[to]) = Len(S[to]) + 1
      BY <1>1, <1>3 DEF Orders, Grown
    <3> QED BY <3>1, <1>3
  <2>2. OldLen(T, o)' = (Made + 1) + (loop.left - 1)
    BY <1>3, <1>6, <1>10
  <2>3. loop.new \cup {e} = {CopyAt(T, i)' : i \in 1..(Made + 1)}
    BY <1>1, <1>2, <1>9, CopiesGrow
  <2>4. ASSUME NEW i \in 1..(Made + 1)
        PROVE  value'[CopyAt(T, i)'] = value'[OldAt(T, loop.other, IF loop.back THEN i ELSE loop.left + i)']
    <3>1. PICK j \in 1..OldLen(S, o) : j = Source(i) /\ value'[CopyAt(T, i)'] = value[OldAt(S, o, j)]
      BY <1>4, <1>9
    <3>2. OldAt(T, o, j)' = OldAt(S, o, j) /\ value'[OldAt(S, o, j)] = value[OldAt(S, o, j)]
      BY <1>3, <1>6, <1>11
    <3>3. j = IF loop'.back THEN i ELSE loop'.left + i
      BY <3>1, <1>6 DEF Source
    <3> QED BY <3>1, <3>2, <3>3, <1>6
  <2>5. loop'.at = OldAt(T, loop.other, IF loop.back THEN Made + 1 ELSE loop.left)'
    <3>1. PICK j : j = IF loop.back THEN Made + 2 ELSE loop.left - 1
      OBVIOUS
    <3>2. j = IF loop'.back THEN Made' + 1 ELSE loop'.left
      BY <3>1, <1>3, <1>6, <1>8
    <3>3. loop'.at = OldAt(T, o, j)'
      BY <3>1, <1>6, <1>9
    <3> QED BY <3>2, <3>3, <1>6
  <2> HIDE DEF Made
  <2> QED BY <2>1, <2>2, <2>3, <2>4, <2>5, <1>6, <1>8 DEF CopyOK
<1>13. ASSUME NEW m \in List PROVE Contents(m)' = Contents(m)
  <2>1. /\ Shown(m, S[m]) \in Seq(Elem) /\ Len(Shown(m, S[m])) = OldLen(S, m)
        /\ Contents(m) = Entries(Shown(m, S[m]), value)
        /\ \A i \in 1..OldLen(S, m) : Shown(m, S[m])[i] = OldAt(S, m, i)
    BY <1>2, ContentsOld
  <2>2. /\ Shown(m, T[m])' \in Seq(Elem) /\ Len(Shown(m, T[m])') = OldLen(T, m)'
        /\ \A i \in 1..OldLen(T, m)' : Shown(m, T[m])'[i] = OldAt(T, m, i)'
    BY <1>1, <1>7, <1>12, ShownOldNext DEF ShownAreOld
  <2>3. Contents(m)' = Entries(Shown(m, T[m])', value')
    BY <1>1, ContentsShownNext DEF ContentsAreShown
  <2> DEFINE s == Shown(m, S[m])
             t == Shown(m, T[m])'
  <2> HIDE DEF s, t
  <2>4. s = t
    <3>1. Len(s) = Len(t) /\ s \in Seq(Elem) /\ t \in Seq(Elem) /\ Len(s) = OldLen(S, m)
      BY <2>1, <2>2, <1>10 DEF s, t
    <3>2. \A i \in 1..Len(s) : s[i] = t[i]
      BY <2>1, <2>2, <3>1, <1>10, <1>11 DEF s, t
    <3> QED BY <3>1, <3>2, SeqEqual
  <2>5. \A i \in 1..Len(s) : value'[s[i]] = value[s[i]]
    BY <2>1, <1>11 DEF s
  <2>6. Entries(s, value') = Entries(s, value)
    BY <2>1, <2>5, <1>4, EntriesAgree DEF s
  <2> QED BY <2>1, <2>3, <2>4, <2>6 DEF s, t
<1>14. UNCHANGED Abstract!vars
  BY <1>2, <1>13 DEF Abstract!vars
<1> QED BY <1>1, <1>4, <1>12, <1>14

\* The entries of the copies, when the last one is made.
Copied(T) == [i \in 1..(Made + 1) |-> <<NextCopy(T, i), value'[NextCopy(T, i)]>>]

\* The old elements and the copies are what the list consists of.
LEMMA CopyParts ==
  ASSUME NEW S, Orders(next, owner, len, S), loop # Idle, CopyOK(S), NEW e \in Elem, NEW T, Grown(S, T, e)
  PROVE  /\ Made \in Nat /\ OldLen(S, loop.to) \in Nat
         /\ Len(T[loop.to]) = OldLen(S, loop.to) + (Made + 1)
         /\ loop.back => /\ \A i \in 1..OldLen(S, loop.to) : T[loop.to][i] = OldAt(S, loop.to, i)
                         /\ \A i \in 1..(Made + 1) : T[loop.to][OldLen(S, loop.to) + i] = NextCopy(T, i)
         /\ ~loop.back => /\ \A i \in 1..OldLen(S, loop.to) : T[loop.to][Made + 1 + i] = OldAt(S, loop.to, i)
                          /\ \A i \in 1..(Made + 1) : T[loop.to][i] = NextCopy(T, i)
<1> DEFINE l == loop.to
           n == OldLen(S, l)
<1>1. Made \in Nat /\ l \in List /\ loop.back \in BOOLEAN
  BY MadeNat DEF CopyOK, Copying
<1>2. n \in Nat /\ n = Len(T[l]) - (Made + 1) /\ \A i \in 1..n : NextOld(T, l, i) = OldAt(S, l, i)
  BY <1>1, OldStay
<1>3. Len(T[l]) \in Nat
  BY <1>1 DEF Grown
<1> HIDE DEF n
<1>4. Len(T[l]) = n + (Made + 1)
  <2> DEFINE k == Len(T[l])
  <2>1. n \in Nat /\ k \in Nat /\ Made \in Nat /\ n = k - (Made + 1)
    BY <1>1, <1>2, <1>3
  <2> HIDE DEF k
  <2>2. k = n + (Made + 1)
    BY <2>1
  <2> QED BY <2>2 DEF k
<1>5. CASE loop.back
  <2>1. \A i \in 1..n : T[l][i] = OldAt(S, l, i)
    BY <1>2, <1>5 DEF NextOld
  <2>2. ASSUME NEW i \in 1..(Made + 1) PROVE T[l][n + i] = NextCopy(T, i)
    <3>1. Len(T[l]) - (Made + 1) + i = n + i
      BY <1>1, <1>2, <1>4
    <3> QED BY <3>1, <1>5 DEF NextCopy
  <2> QED BY <2>1, <2>2, <1>1, <1>2, <1>4, <1>5 DEF n
<1>6. CASE ~loop.back
  <2>1. \A i \in 1..n : T[l][Made + 1 + i] = OldAt(S, l, i)
    BY <1>2, <1>6 DEF NextOld
  <2>2. \A i \in 1..(Made + 1) : T[l][i] = NextCopy(T, i)
    BY <1>6 DEF NextCopy
  <2> QED BY <2>1, <2>2, <1>1, <1>2, <1>4, <1>6 DEF n
<1> QED BY <1>1, <1>5, <1>6

\* The last turn of the loop makes new elements, with the values of the list copied.
LEMMA CopiesMade ==
  ASSUME IInv, value \in [Elem -> Value], NEW S, Orders(next, owner, len, S), CopyOK(S),
         NEW e \in Elem, CopyOne(e), NEW T, Orders(next', owner', len', T), Grown(S, T, e), loop.left = 1
  PROVE  Copied(T) \in Abstract!Copies(loop.other)
<1> DEFINE o == loop.other
           s == Copied(T)
<1>1. loop # Idle
  BY DEF CopyOne, Idling
<1>2. /\ loop.to \in List /\ loop.back \in BOOLEAN /\ o \in List /\ Made \in Nat /\ loop.new \subseteq Elem
      /\ OldLen(S, o) = Made + 1
  BY <1>1, MadeNat DEF CopyOK, Copying
<1>3. /\ owner[e] = Nil /\ value' \in [Elem -> Value]
      /\ \A i \in 1..(Made + 1) : value'[NextCopy(T, i)] = value[OldAt(S, o, Source(i))]
  BY CopyValues
<1>4. \A i \in 1..(Made + 1) : NextCopy(T, i) \in loop.new \cup {e} /\ NextCopy(T, i) \in Elem
  <2>1. loop.new \cup {e} = {NextCopy(T, i) : i \in 1..(Made + 1)}
    BY <1>1, CopiesGrow
  <2> QED BY <2>1, <1>2
<1>5. /\ Len(Contents(o)) = Made + 1
      /\ \A i \in 1..(Made + 1) : Contents(o)[i][2] = value[OldAt(S, o, i)]
  <2>1. /\ Len(Contents(o)) = OldLen(S, o)
        /\ \A i \in 1..OldLen(S, o) : Contents(o)[i] = <<OldAt(S, o, i), value[OldAt(S, o, i)]>>
    BY <1>1, <1>2, ContentsOld
  <2> QED BY <2>1, <1>2
<1>6. /\ s \in [1..(Made + 1) -> Abstract!Entry] /\ DOMAIN s = 1..(Made + 1)
      /\ \A i \in 1..(Made + 1) : s[i][1] = NextCopy(T, i) /\ s[i][2] = value'[NextCopy(T, i)]
  BY <1>3, <1>4 DEF Copied, Abstract!Entry
<1> HIDE DEF s
<1>7. ASSUME NEW i \in 1..(Made + 1) PROVE Abstract!Fresh(NextCopy(T, i))
  <2> DEFINE c == NextCopy(T, i)
  <2>1. c \in loop.new \cup {e}
    BY <1>4
  <2> HIDE DEF c
  <2>2. ASSUME NEW m \in List PROVE ~Abstract!Has(m, c)
    <3>1. /\ Contents(m) \in Seq(Entry) /\ Len(Contents(m)) = OldLen(S, m)
          /\ \A j \in 1..OldLen(S, m) : Contents(m)[j] = <<OldAt(S, m, j), value[OldAt(S, m, j)]>>
      BY <1>1, ContentsOld
    <3>2. DOMAIN Contents(m) = 1..OldLen(S, m) /\ [l \in List |-> Contents(l)][m] = Contents(m)
      BY <3>1
    <3>3. \A j \in 1..OldLen(S, m) : OldAt(S, m, j) # c
      <4>1. m # Nil
        BY ListAssumption
      <4>2. \A j \in 1..OldLen(S, m) : owner[OldAt(S, m, j)] = m /\ OldAt(S, m, j) \notin loop.new
        BY <1>1, OldAre
      <4> QED BY <4>1, <4>2, <2>1, <1>3
    <3>4. \A j \in 1..OldLen(S, m) : Contents(m)[j][1] # c
      BY <3>1, <3>3
    <3> QED BY <3>2, <3>4 DEF Abstract!Has, Abstract!Names
  <2> QED BY <2>2 DEF Abstract!Fresh, c
<1>8. ASSUME NEW i \in 1..(Made + 1), NEW j \in 1..(Made + 1), NextCopy(T, i) = NextCopy(T, j)
      PROVE  i = j
  <2> DEFINE l == loop.to
             n == OldLen(S, l)
  <2>1. /\ n \in Nat /\ Len(T[l]) = n + (Made + 1) /\ i \in Int /\ j \in Int
        /\ loop.back => \A a \in 1..(Made + 1) : T[l][n + a] = NextCopy(T, a)
        /\ ~loop.back => \A a \in 1..(Made + 1) : T[l][a] = NextCopy(T, a)
    BY <1>1, CopyParts
  <2>2. Distinct(T[l])
    BY <1>2 DEF Orders, Ordered, Distinct
  <2> HIDE DEF n
  <2>3. CASE loop.back
    <3>1. n + i \in 1..Len(T[l]) /\ n + j \in 1..Len(T[l]) /\ T[l][n + i] = T[l][n + j]
      BY <2>1, <2>3, <1>2, <1>8
    <3>2. n + i = n + j
      BY <3>1, <2>2 DEF Distinct
    <3> QED BY <3>2, <2>1
  <2>4. CASE ~loop.back
    <3>1. i \in 1..Len(T[l]) /\ j \in 1..Len(T[l]) /\ T[l][i] = T[l][j]
      BY <2>1, <2>4, <1>2, <1>8
    <3> QED BY <3>1, <2>2 DEF Distinct
  <2> QED BY <2>3, <2>4
<1>9. [m \in List |-> Contents(m)][o] = Contents(o)
  BY <1>2
<1>10. \A i \in 1..(Made + 1) : s[i][2] = Contents(o)[i][2]
  <2>1. \A i \in 1..(Made + 1) : Source(i) = i
    BY DEF Source
  <2> QED BY <2>1, <1>3, <1>5, <1>6
<1>11. \A i \in DOMAIN s : Abstract!Fresh(s[i][1]) /\ s[i][2] = [m \in List |-> Contents(m)][o][i][2]
  BY <1>6, <1>7, <1>9, <1>10
<1>12. \A i, j \in DOMAIN s : i # j => s[i][1] # s[j][1]
  BY <1>6, <1>8
<1>13. s \in [1..Len([m \in List |-> Contents(m)][o]) -> Abstract!Entry]
  BY <1>5, <1>6, <1>9
<1> QED BY <1>11, <1>12, <1>13 DEF Abstract!Copies, s

\* What a list copied into shows at last: what it showed before, and the copies.
LEMMA CopyShows ==
  ASSUME IInv, IInv', value \in [Elem -> Value], NEW S, Orders(next, owner, len, S), CopyOK(S),
         NEW e \in Elem, CopyOne(e), NEW T, Orders(next', owner', len', T), Grown(S, T, e), loop.left = 1,
         NEW l, l = loop.to
  PROVE  /\ loop' = Idle /\ value' \in [Elem -> Value]
         /\ \A m \in List : m # l => Contents(m)' = Contents(m)
         /\ Contents(l)' = IF loop.back THEN Contents(l) \o Copied(T) ELSE Copied(T) \o Contents(l)
<1> DEFINE n == OldLen(S, l)
           C == Contents(l)
           D == Copied(T)
           N == Contents(l)'
<1>1. loop # Idle /\ loop' = Idle
  BY DEF CopyOne, Idling
<1>2. /\ l \in List /\ loop.back \in BOOLEAN /\ Made \in Nat
  BY <1>1, MadeNat DEF CopyOK, Copying
<1>3. /\ value' \in [Elem -> Value]
      /\ \A d \in Elem : owner[d] # Nil => value'[d] = value[d]
  BY CopyValues
<1>4. ASSUME NEW m \in List
      PROVE  /\ Contents(m)' = Entries(T[m], value') /\ T[m] \in Seq(Elem) /\ Len(T[m]) \in Nat
             /\ Contents(m)' \in Seq(Entry) /\ Len(Contents(m)') = Len(T[m])
             /\ \A i \in 1..Len(T[m]) : Contents(m)'[i] = <<T[m][i], value'[T[m][i]]>>
  <2>1. T[m] \in Seq(Elem) /\ Len(T[m]) \in Nat
    BY DEF Orders
  <2>2. Contents(m)' = Entries(T[m], value')
    BY <1>1, IdleSeenNext DEF Seen
  <2> QED BY <2>1, <2>2, <1>3, EntriesAre
<1>5. ASSUME NEW m \in List
      PROVE  /\ Contents(m) \in Seq(Entry) /\ Len(Contents(m)) = OldLen(S, m)
             /\ \A i \in 1..OldLen(S, m) : Contents(m)[i] = <<OldAt(S, m, i), value'[OldAt(S, m, i)]>>
  <2>1. /\ Contents(m) \in Seq(Entry) /\ Len(Contents(m)) = OldLen(S, m)
        /\ \A i \in 1..OldLen(S, m) : Contents(m)[i] = <<OldAt(S, m, i), value[OldAt(S, m, i)]>>
    BY <1>1, ContentsOld
  <2>2. \A i \in 1..OldLen(S, m) : OldAt(S, m, i) \in Elem /\ owner[OldAt(S, m, i)] = m
    BY <1>1, OldAre
  <2>3. m # Nil
    BY ListAssumption
  <2>4. \A i \in 1..OldLen(S, m) : value'[OldAt(S, m, i)] = value[OldAt(S, m, i)]
    BY <2>2, <2>3, <1>3
  <2> QED BY <2>1, <2>4
<1>6. ASSUME NEW m \in List, m # l PROVE Contents(m)' = Contents(m)
  <2>1. T[m] = S[m]
    BY <1>6 DEF Grown
  <2>2. OldLen(S, m) = Len(S[m]) /\ \A i \in 1..Len(S[m]) : OldAt(S, m, i) = S[m][i]
    <3>1. Len(S[m]) \in Nat
      BY DEF Orders
    <3> QED BY <3>1, <1>6 DEF OldLen, OldAt
  <2>3. Len(Contents(m)') = Len(Contents(m)) /\ Len(Contents(m)) = Len(S[m])
    BY <2>1, <2>2, <1>4, <1>5
  <2>4. ASSUME NEW i \in 1..Len(S[m]) PROVE Contents(m)'[i] = Contents(m)[i]
    <3>1. Contents(m)'[i] = <<S[m][i], value'[S[m][i]]>>
      BY <2>1, <1>4
    <3>2. Contents(m)[i] = <<S[m][i], value'[S[m][i]]>>
      BY <2>2, <1>5
    <3> QED BY <3>1, <3>2
  <2>5. Contents(m)' \in Seq(Entry) /\ Contents(m) \in Seq(Entry)
    BY <1>4, <1>5
  <2> QED BY <2>3, <2>4, <2>5, SeqEqual
<1>7. D \in Seq(Entry) /\ Len(D) = Made + 1 /\ \A i \in 1..(Made + 1) : D[i] = <<NextCopy(T, i), value'[NextCopy(T, i)]>>
  <2>1. \A i \in 1..(Made + 1) : NextCopy(T, i) \in Elem
    <3>1. loop.new \cup {e} = {NextCopy(T, i) : i \in 1..(Made + 1)} /\ loop.new \subseteq Elem
      BY <1>1, CopiesGrow DEF CopyOK, Copying
    <3> QED BY <3>1
  <2>2. D \in [1..(Made + 1) -> Entry] /\ \A i \in 1..(Made + 1) : D[i] = <<NextCopy(T, i), value'[NextCopy(T, i)]>>
    BY <2>1, <1>3 DEF Copied, Entry
  <2>3. Made + 1 \in Nat
    BY <1>2
  <2> HIDE DEF D
  <2> QED BY <2>2, <2>3
<1>8. /\ n \in Nat /\ Len(T[l]) = n + (Made + 1)
      /\ loop.back => /\ \A i \in 1..n : T[l][i] = OldAt(S, l, i)
                      /\ \A i \in 1..(Made + 1) : T[l][n + i] = NextCopy(T, i)
      /\ ~loop.back => /\ \A i \in 1..n : T[l][Made + 1 + i] = OldAt(S, l, i)
                       /\ \A i \in 1..(Made + 1) : T[l][i] = NextCopy(T, i)
  BY <1>1, CopyParts
<1>9. /\ C \in Seq(Entry) /\ Len(C) = n
      /\ \A i \in 1..n : C[i] = <<OldAt(S, l, i), value'[OldAt(S, l, i)]>>
  BY <1>2, <1>5
<1>10. /\ N \in Seq(Entry) /\ Len(N) = n + (Made + 1)
       /\ \A i \in 1..(n + (Made + 1)) : N[i] = <<T[l][i], value'[T[l][i]]>>
  BY <1>2, <1>4, <1>8
<1>11. /\ C \o D \in Seq(Entry) /\ Len(C \o D) = n + (Made + 1)
       /\ \A i \in 1..(n + (Made + 1)) : (C \o D)[i] = IF i <= n THEN C[i] ELSE D[i - n]
       /\ D \o C \in Seq(Entry) /\ Len(D \o C) = (Made + 1) + n
       /\ \A i \in 1..((Made + 1) + n) : (D \o C)[i] = IF i <= Made + 1 THEN D[i] ELSE C[i - (Made + 1)]
  <2>1. C \in Seq(Entry) /\ D \in Seq(Entry) /\ Len(C) = n /\ Len(D) = Made + 1
    BY <1>7, <1>9
  <2> HIDE DEF C, D, n
  <2>2. /\ C \o D \in Seq(Entry) /\ Len(C \o D) = n + (Made + 1)
        /\ \A i \in 1..(n + (Made + 1)) : (C \o D)[i] = IF i <= n THEN C[i] ELSE D[i - n]
    BY <2>1, ConcatProperties
  <2>3. /\ D \o C \in Seq(Entry) /\ Len(D \o C) = (Made + 1) + n
        /\ \A i \in 1..((Made + 1) + n) : (D \o C)[i] = IF i <= Made + 1 THEN D[i] ELSE C[i - (Made + 1)]
    <3> DEFINE k == Made + 1
    <3>1. Len(D) = k
      BY <2>1
    <3> HIDE DEF k
    <3>2. /\ D \o C \in Seq(Entry) /\ Len(D \o C) = k + n
          /\ \A i \in 1..(k + n) : (D \o C)[i] = IF i <= k THEN D[i] ELSE C[i - k]
      BY <2>1, <3>1, ConcatProperties
    <3> QED BY <3>2 DEF k
  <2> QED BY <2>2, <2>3
<1> HIDE DEF C, D, N, n
<1>12. CASE loop.back
  <2>1. ASSUME NEW i \in 1..Len(N) PROVE N[i] = (C \o D)[i]
    <3>0. i \in Int /\ i \in 1..(n + (Made + 1))
      BY <1>10
    <3>1. N[i] = <<T[l][i], value'[T[l][i]]>> /\ (C \o D)[i] = IF i <= n THEN C[i] ELSE D[i - n]
      BY <3>0, <1>10, <1>11
    <3>2. CASE i <= n
      <4>1. i \in 1..n
        BY <3>0, <3>2, <1>8
      <4> QED BY <4>1, <3>1, <3>2, <1>8, <1>9, <1>12
    <3>3. CASE ~(i <= n)
      <4>1. i - n \in 1..(Made + 1) /\ n + (i - n) = i
        BY <3>0, <3>3, <1>2, <1>8
      <4>2. T[l][n + (i - n)] = NextCopy(T, i - n)
        BY <4>1, <1>8, <1>12
      <4> QED BY <4>1, <4>2, <3>1, <3>3, <1>7
    <3> QED BY <3>2, <3>3
  <2>2. N = C \o D
    BY <2>1, <1>10, <1>11, SeqEqual
  <2> QED BY <2>2, <1>1, <1>3, <1>6, <1>12 DEF C, D, N
<1>13. CASE ~loop.back
  <2>0. (Made + 1) + n = n + (Made + 1)
    BY <1>2, <1>8
  <2>1. ASSUME NEW i \in 1..Len(N) PROVE N[i] = (D \o C)[i]
    <3>0. i \in Int /\ i \in 1..(n + (Made + 1))
      BY <1>10
    <3>1. N[i] = <<T[l][i], value'[T[l][i]]>> /\ (D \o C)[i] = IF i <= Made + 1 THEN D[i] ELSE C[i - (Made + 1)]
      BY <3>0, <2>0, <1>10, <1>11
    <3>2. CASE i <= Made + 1
      <4>1. i \in 1..(Made + 1)
        BY <3>0, <3>2, <1>2
      <4> QED BY <4>1, <3>1, <3>2, <1>7, <1>8, <1>13
    <3>3. CASE ~(i <= Made + 1)
      <4>1. i - (Made + 1) \in 1..n /\ (Made + 1) + (i - (Made + 1)) = i
        BY <3>0, <3>3, <1>2, <1>8
      <4>2. T[l][(Made + 1) + (i - (Made + 1))] = OldAt(S, l, i - (Made + 1))
        BY <4>1, <1>8, <1>13
      <4> QED BY <4>1, <4>2, <3>1, <3>3, <1>9
    <3> QED BY <3>2, <3>3
  <2>2. N = D \o C
    <3>1. Len(N) = Len(D \o C)
      BY <2>0, <1>10, <1>11
    <3> QED BY <2>1, <3>1, <1>10, <1>11, SeqEqual
  <2> QED BY <2>2, <1>1, <1>3, <1>6, <1>13 DEF C, D, N
<1> QED BY <1>2, <1>12, <1>13

\* The last turn of the loop: the call has done all at once what it says.
LEMMA CopyEnds ==
  ASSUME IInv, IInv', value \in [Elem -> Value], NEW S, Orders(next, owner, len, S), CopyOK(S),
         NEW e \in Elem, CopyOne(e), loop.left = 1
  PROVE  Kept /\ loop' = Idle /\ CopyCall(loop.back, loop.to, loop.other)
<1>1. PICK T : Orders(next', owner', len', T) /\ Grown(S, T, e)
  BY CopyGrows
<1>0. PICK l : l = loop.to
  OBVIOUS
<1> DEFINE o == loop.other
<1>2. loop # Idle /\ call' = CopyOf(loop.back, l, o)
  BY <1>0 DEF CopyOne, Idling
<1>3. l \in List /\ o \in List /\ loop.back \in BOOLEAN
  BY <1>0, <1>2 DEF CopyOK, Copying
<1>4. Copied(T) \in Abstract!Copies(o)
  BY <1>1, CopiesMade
<1>5. /\ loop' = Idle /\ value' \in [Elem -> Value]
      /\ \A m \in List : m # l => Contents(m)' = Contents(m)
      /\ Contents(l)' = IF loop.back THEN Contents(l) \o Copied(T) ELSE Copied(T) \o Contents(l)
  BY <1>0, <1>1, CopyShows
<1>6. [m \in List |-> Contents(m)][l] = Contents(l)
  BY <1>3
<1>7. Abstract!Becomes(l, Contents(l)')
  <2>1. [m \in List |-> Contents(m)'] = [[m \in List |-> Contents(m)] EXCEPT ![l] = Contents(l)']
    BY <1>5
  <2> QED BY <2>1 DEF Abstract!Becomes
<1>8. CASE loop.back
  <2>1. Abstract!Becomes(l, [m \in List |-> Contents(m)][l] \o Copied(T))
    BY <1>5, <1>6, <1>7, <1>8
  <2> QED BY <2>1, <1>0, <1>1, <1>2, <1>4, <1>5, <1>8 DEF CopyCall, CopyOf, Kept, Abstract!PushBackList
<1>9. CASE ~loop.back
  <2>1. Abstract!Becomes(l, Copied(T) \o [m \in List |-> Contents(m)][l])
    BY <1>5, <1>6, <1>7, <1>9
  <2> QED BY <2>1, <1>0, <1>1, <1>2, <1>4, <1>5, <1>9 DEF CopyCall, CopyOf, Kept, Abstract!PushFrontList
<1> QED BY <1>8, <1>9

\* The rings hold the lists in an order, and a copying loop is where it should be.
OInv == /\ IInv /\ value \in [Elem -> Value]
        /\ \E S : Orders(next, owner, len, S) /\ CopyOK(S)

\* Fresh lists are empty, in the links and for OrderedList.
LEMMA OrderInit == Init => OInv /\ Abstract!Init
<1> SUFFICES ASSUME Init PROVE OInv /\ Abstract!Init
  OBVIOUS
<1> DEFINE S == [l \in List |-> <<>>]
<1>1. IInv /\ value \in [Elem -> Value] /\ loop = Idle /\ call = <<"none">>
  BY InvInit DEF Init
<1>2. Orders(next, owner, len, S)
  <2>1. \A l \in List : S[l] = <<>> /\ S[l] \in Seq(Elem) /\ len[l] = 0 /\ next[l] = Nil
    BY DEF Init, Node
  <2>2. \A l \in List, e \in Elem : owner[e] # l
    BY ListAssumption DEF Init
  <2>3. \A l \in List : Ordered(next, owner, l, S[l])
    BY <2>1, <2>2 DEF Ordered
  <2>4. S \in [List -> Seq(Elem)]
    BY <2>1
  <2> QED BY <2>1, <2>3, <2>4 DEF Orders
<1> HIDE DEF S
<1>3. CopyOK(S)
  BY <1>1 DEF CopyOK
<1>4. \A l \in List : Contents(l) = <<>>
  <2>1. ASSUME NEW l \in List PROVE Contents(l) = <<>>
    <3>1. Contents(l) = Entries(S[l], value)
      BY <1>1, <1>2, IdleSeen DEF Seen
    <3>2. S[l] = <<>>
      BY DEF S
    <3> QED BY <3>1, <3>2 DEF Entries
  <2> QED BY <2>1
<1>5. Abstract!Init
  BY <1>1, <1>4 DEF Abstract!Init
<1> QED BY <1>1, <1>2, <1>3, <1>5 DEF OInv

\* A call that has ended leaves the invariant.
LEMMA CallDone == ASSUME IInv', Kept, loop' = Idle PROVE OInv'
  BY DEF Kept, OInv, CopyOK

\* Every step of LinkedList keeps the order, and is a step of OrderedList or none.
LEMMA OrderNext == OInv /\ [Next]_vars => OInv' /\ [Abstract!Next]_(Abstract!vars)
<1> SUFFICES ASSUME OInv, [Next]_vars PROVE OInv' /\ [Abstract!Next]_(Abstract!vars)
  OBVIOUS
<1>1. IInv /\ IInv' /\ value \in [Elem -> Value]
  BY InvNext DEF OInv
<1>2. PICK S : Orders(next, owner, len, S) /\ CopyOK(S)
  BY DEF OInv
<1>3. ASSUME NEW l \in List, NEW e \in Elem, Remove(l, e)
      PROVE  OInv' /\ Abstract!Next
  <2>1. loop' = Idle
    BY <1>3 DEF Remove, Unlink, Idling
  <2>2. Kept /\ Abstract!Remove(l, e)
    BY <1>1, <1>2, <1>3, RemoveCalls
  <2> QED BY <2>1, <2>2, <1>1, CallDone DEF Abstract!Next
<1>4. ASSUME NEW l \in List, Pop(l)
      PROVE  OInv' /\ Abstract!Next
  <2>1. loop' = Idle
    BY <1>4 DEF Pop, Take, Unlink, Idling
  <2>2. Kept /\ Abstract!Pop(l)
    BY <1>1, <1>2, <1>4, RemoveCalls
  <2> QED BY <2>1, <2>2, <1>1, CallDone DEF Abstract!Next
<1>5. ASSUME NEW l \in List, PopBack(l)
      PROVE  OInv' /\ Abstract!Next
  <2>1. loop' = Idle
    BY <1>5 DEF PopBack, Take, Unlink, Idling
  <2>2. Kept /\ Abstract!PopBack(l)
    BY <1>1, <1>2, <1>5, RemoveCalls
  <2> QED BY <2>1, <2>2, <1>1, CallDone DEF Abstract!Next
<1>6. ASSUME NEW l \in List, NEW e \in Elem, MoveToFront(l, e) \/ MoveToBack(l, e)
      PROVE  OInv' /\ Abstract!Next
  <2>1. loop' = Idle
    BY <1>6 DEF MoveToFront, MoveToBack, Relink, Idling
  <2>2. Kept /\ (Abstract!MoveToFront(l, e) \/ Abstract!MoveToBack(l, e))
    BY <1>1, <1>2, <1>6, MoveCalls
  <2> QED BY <2>1, <2>2, <1>1, CallDone DEF Abstract!Next
<1>7. ASSUME NEW l \in List, NEW e \in Elem, NEW mark \in Elem,
             MoveBefore(l, e, mark) \/ MoveAfter(l, e, mark)
      PROVE  OInv' /\ Abstract!Next
  <2>1. loop' = Idle
    BY <1>7 DEF MoveBefore, MoveAfter, Relink, Idling
  <2>2. Kept /\ (Abstract!MoveBefore(l, e, mark) \/ Abstract!MoveAfter(l, e, mark))
    BY <1>1, <1>2, <1>7, MoveCalls
  <2> QED BY <2>1, <2>2, <1>1, CallDone DEF Abstract!Next
<1>8. ASSUME NEW l \in List, NEW e \in Elem, NEW v \in Value, PushFront(l, e, v) \/ PushBack(l, e, v)
      PROVE  OInv' /\ Abstract!Next
  <2>1. loop' = Idle
    BY <1>8 DEF PushFront, PushBack, Idling
  <2>2. Kept /\ (Abstract!PushFront(l, e, v) \/ Abstract!PushBack(l, e, v))
    BY <1>1, <1>2, <1>8, PushCalls
  <2> QED BY <2>1, <2>2, <1>1, CallDone DEF Abstract!Next
<1>9. ASSUME NEW l \in List, NEW e \in Elem, NEW mark \in Elem, NEW v \in Value,
             InsertBefore(l, e, v, mark) \/ InsertAfter(l, e, v, mark)
      PROVE  OInv' /\ Abstract!Next
  <2>1. loop' = Idle
    BY <1>9 DEF InsertBefore, InsertAfter, Idling
  <2>2. Kept /\ (Abstract!InsertBefore(l, e, v, mark) \/ Abstract!InsertAfter(l, e, v, mark))
    BY <1>1, <1>2, <1>9, InsertCalls
  <2> QED BY <2>1, <2>2, <1>1, CallDone DEF Abstract!Next
<1>10. ASSUME NEW l \in List, Clear(l)
       PROVE  OInv' /\ Abstract!Next
  <2>1. loop' = Idle
    BY <1>10 DEF Clear, Idling
  <2>2. Kept /\ Abstract!Clear(l)
    BY <1>1, <1>2, <1>10, ClearCall
  <2> QED BY <2>1, <2>2, <1>1, CallDone DEF Abstract!Next
<1>11. ASSUME NEW l \in List, NEW other \in List, NEW back \in BOOLEAN, CopyCall(back, l, other)
       PROVE  Abstract!Next
  BY <1>11 DEF CopyCall, Abstract!Next
<1>12. ASSUME NEW l \in List, NEW other \in List, NEW back \in BOOLEAN, StartCopy(back, l, other)
       PROVE  OInv' /\ [Abstract!Next]_(Abstract!vars)
  <2>1. CASE len[other] = 0
    <3>1. Kept /\ loop' = Idle /\ CopyCall(back, l, other)
      BY <2>1, <1>1, <1>2, <1>12, CopyNothing
    <3> QED BY <3>1, <1>1, <1>11, CallDone
  <2>2. CASE len[other] # 0
    <3>1. /\ value' = value /\ Orders(next', owner', len', S) /\ CopyOK(S)'
          /\ UNCHANGED Abstract!vars
      BY <2>2, <1>1, <1>2, <1>12, CopyBegins
    <3> QED BY <3>1, <1>1 DEF OInv
  <2> QED BY <2>1, <2>2
<1>13. ASSUME NEW e \in Elem, CopyOne(e)
       PROVE  OInv' /\ [Abstract!Next]_(Abstract!vars)
  <2>1. CASE loop.left = 1
    <3>1. Kept /\ loop' = Idle /\ CopyCall(loop.back, loop.to, loop.other)
      BY <2>1, <1>1, <1>2, <1>13, CopyEnds
    <3>2. loop.to \in List /\ loop.other \in List /\ loop.back \in BOOLEAN
      BY <1>2, <1>13 DEF CopyOne, Idling, CopyOK, Copying
    <3> QED BY <3>1, <3>2, <1>1, <1>11, CallDone
  <2>2. CASE loop.left # 1
    <3>1. /\ value' \in [Elem -> Value]
          /\ \E T : Orders(next', owner', len', T) /\ CopyOK(T)'
          /\ UNCHANGED Abstract!vars
      BY <2>2, <1>1, <1>2, <1>13, CopyGoesOn
    <3> QED BY <3>1, <1>1 DEF OInv
  <2> QED BY <2>1, <2>2
<1>14. CASE UNCHANGED vars
  <2>1. \A m \in List : Contents(m)' = Contents(m)
    BY <1>14 DEF vars, Contents, Walk
  <2>2. UNCHANGED Abstract!vars
    BY <2>1, <1>14 DEF vars, Abstract!vars
  <2>3. CopyOK(S)' /\ Orders(next', owner', len', S) /\ value' = value
    BY <1>2, <1>14 DEF vars, CopyOK, Made, OldLen, OldAt, CopyAt
  <2> QED BY <2>2, <2>3, <1>1 DEF OInv
<1> QED
  BY <1>3, <1>4, <1>5, <1>6, <1>7, <1>8, <1>9, <1>10, <1>12, <1>13, <1>14 DEF Next

\* For all lists, elements and values, PushBackList and PushFrontList, also when a list
\* is copied into itself: the cursor of the loop is never nil, and never at an element
\* the loop has made.
THEOREM CursorStaysOld == Spec => []CursorIsOld
<1>1. OInv => CursorIsOld
  <2>1. ASSUME OInv, loop # Idle PROVE loop.at # Nil /\ loop.at \notin loop.new
    <3>1. PICK S : Orders(next, owner, len, S) /\ CopyOK(S)
      BY <2>1 DEF OInv
    <3>2. loop.at \notin loop.new /\ loop.at \in Elem
      BY <2>1, <3>1, CursorOld
    <3> QED BY <3>2, ListAssumption
  <2> QED BY <2>1 DEF CursorIsOld
<1> QED BY <1>1, OrderInit, OrderNext, PTL DEF Spec

\* For all lists, elements and values: the linked list does what package queue promises
\* of an ordered one, call by call.
THEOREM ListsAreOrdered == Spec => ImplementsOrderedList
  BY OrderInit, OrderNext, PTL DEF Spec, ImplementsOrderedList, Abstract!Spec
=============================================================================
