------------------------ MODULE HistoryResponseProofs ------------------------
(***************************************************************************)
(* The walks over a fragment, the closures made with them, and what a      *)
(* provider chains them to, are right for every history, every part of it  *)
(* that the fragment or the store holds and every order in which the sets  *)
(* are met.                                                                *)
(*                                                                         *)
(* A walk: what it has visited and what it will visit from its queue lead  *)
(* nowhere else (WalkInv), so that when the queue is empty the visited     *)
(* headers are closed.  A closure: a header misses those that it follows   *)
(* until they are provided or delivered (ClosureInv); and the walk from    *)
(* the edges of the fragment visits all of it.  A response: the delta and  *)
(* the start stay apart and hold between them what was asked for; when the *)
(* delta stops growing short of its limit, they meet (DeltaInv).           *)
(***************************************************************************)
EXTENDS HistoryResponse, FiniteSetTheorems, WellFoundedInduction, TLAPS

USE WalkAssumption

-----------------------------------------------------------------------------
(* Finite sets of naturals.                                                *)

(* What of S comes before h.                                               *)
Before(S, h) == {x \in S : x < h}

(* An element has fewer before it than those after it.                     *)
LEMMA ShorterBefore ==
    ASSUME NEW S, S \subseteq Nat, NEW x \in S, NEW h \in S, x < h
    PROVE  Before(S, x) \subseteq Before(S, h) /\ Before(S, x) # Before(S, h)
<1>1. x \in Before(S, h) /\ x \notin Before(S, x)
  BY DEF Before
<1>2. ASSUME NEW z \in Before(S, x) PROVE z \in Before(S, h)
  BY DEF Before
<1> QED
  BY <1>1, <1>2

(* A finite set of naturals has a first one.                               *)
LEMMA FirstOne ==
    ASSUME NEW S \in SUBSET Nat, IsFiniteSet(S), S # {}
    PROVE  \E x \in S : \A y \in S : x <= y
<1> DEFINE T == {Before(S, h) : h \in S}
           R == StrictSubsetOrdering(S)
<1>1. IsWellFoundedOn(R, FiniteSubsetsOf(S))
  BY FS_StrictSubsetOrderingWellFounded
<1>2. T \subseteq FiniteSubsetsOf(S) /\ T # {}
  <2>1. \A h \in S : Before(S, h) \subseteq S /\ IsFiniteSet(Before(S, h))
    BY FS_Subset DEF Before
  <2>2. \A h \in S : Before(S, h) \in FiniteSubsetsOf(S)
    BY <2>1 DEF FiniteSubsetsOf
  <2> QED
    BY <2>2
<1>3. PICK B \in T : \A C \in T : <<C, B>> \notin R
  <2> HIDE DEF T, R
  <2> QED
    BY <1>1, <1>2, WFMin
<1>4. PICK x \in S : B = Before(S, x)
  BY <1>3
<1>5. ASSUME NEW y \in S, y < x
      PROVE  FALSE
  <2>1. Before(S, y) \subseteq Before(S, x) /\ Before(S, y) # Before(S, x)
    BY <1>5, ShorterBefore
  <2>2. <<Before(S, y), B>> \in R
    BY <2>1, <1>4 DEF StrictSubsetOrdering, Before
  <2> QED
    BY <1>3, <2>2
<1> QED
  BY <1>5

-----------------------------------------------------------------------------
(* Queues.                                                                 *)

LEMMA HeadAndTail ==
    ASSUME NEW S, NEW q \in Seq(S), q # <<>>
    PROVE  /\ Head(q) \in S /\ Tail(q) \in Seq(S)
           /\ ToSet(q) = {Head(q)} \cup ToSet(Tail(q))
<1>1. Len(q) \in Nat /\ Len(q) > 0 /\ Head(q) = q[1] /\ Head(q) \in S /\ Tail(q) \in Seq(S)
  OBVIOUS
<1>2. /\ Len(Tail(q)) = Len(q) - 1
      /\ \A i \in 1 .. Len(Tail(q)) : Tail(q)[i] = q[i + 1]
  OBVIOUS
<1>3. ASSUME NEW x \in ToSet(q), x # Head(q)
      PROVE  x \in ToSet(Tail(q))
  <2>1. PICK i \in 1 .. Len(q) : q[i] = x
    BY DEF ToSet
  <2>2. i # 1 /\ i - 1 \in 1 .. Len(Tail(q)) /\ Tail(q)[i - 1] = x
    BY <1>1, <1>2, <1>3, <2>1
  <2>3. DOMAIN Tail(q) = 1 .. Len(Tail(q))
    BY <1>1
  <2> QED
    BY <2>2, <2>3 DEF ToSet
<1>4. ASSUME NEW x \in ToSet(Tail(q))
      PROVE  x \in ToSet(q)
  <2>1. PICK i \in 1 .. Len(Tail(q)) : Tail(q)[i] = x
    BY <1>1 DEF ToSet
  <2>2. i + 1 \in 1 .. Len(q) /\ q[i + 1] = x
    BY <1>1, <1>2, <2>1
  <2> QED
    BY <2>2 DEF ToSet
<1>5. Head(q) \in ToSet(q)
  BY <1>1 DEF ToSet
<1> QED
  BY <1>1, <1>3, <1>4, <1>5

LEMMA ToSetOfBoth ==
    ASSUME NEW S, NEW a \in Seq(S), NEW b \in Seq(S)
    PROVE  a \o b \in Seq(S) /\ ToSet(a \o b) = ToSet(a) \cup ToSet(b)
<1>1. /\ a \o b \in Seq(S) /\ Len(a \o b) = Len(a) + Len(b)
      /\ Len(a) \in Nat /\ Len(b) \in Nat
      /\ \A i \in 1 .. Len(a) : (a \o b)[i] = a[i]
      /\ \A i \in 1 .. Len(b) : (a \o b)[Len(a) + i] = b[i]
  OBVIOUS
<1>2. ASSUME NEW x \in ToSet(a \o b)
      PROVE  x \in ToSet(a) \cup ToSet(b)
  <2>1. PICK i \in 1 .. (Len(a) + Len(b)) : (a \o b)[i] = x
    BY <1>1 DEF ToSet
  <2>2. CASE i <= Len(a)
    BY <1>1, <2>1, <2>2 DEF ToSet
  <2>3. CASE i > Len(a)
    <3>1. i - Len(a) \in 1 .. Len(b) /\ i = Len(a) + (i - Len(a))
      BY <1>1, <2>3
    <3>2. b[i - Len(a)] = x
      BY <1>1, <2>1, <3>1
    <3> QED
      BY <3>1, <3>2 DEF ToSet
  <2> QED
    BY <1>1, <2>2, <2>3
<1>3. ASSUME NEW x \in ToSet(a)
      PROVE  x \in ToSet(a \o b)
  <2>1. PICK i \in 1 .. Len(a) : a[i] = x
    BY DEF ToSet
  <2>2. i \in 1 .. Len(a \o b) /\ (a \o b)[i] = x
    BY <1>1, <2>1
  <2> QED
    BY <1>1, <2>2 DEF ToSet
<1>4. ASSUME NEW x \in ToSet(b)
      PROVE  x \in ToSet(a \o b)
  <2>1. PICK i \in 1 .. Len(b) : b[i] = x
    BY DEF ToSet
  <2>2. Len(a) + i \in 1 .. Len(a \o b) /\ (a \o b)[Len(a) + i] = x
    BY <1>1, <2>1
  <2> QED
    BY <1>1, <2>2 DEF ToSet
<1> QED
  BY <1>1, <1>2, <1>3, <1>4

LEMMA ToSetOfAppend ==
    ASSUME NEW S, NEW a \in Seq(S), NEW x \in S
    PROVE  Append(a, x) \in Seq(S) /\ ToSet(Append(a, x)) = ToSet(a) \cup {x}
<1>1. /\ Append(a, x) \in Seq(S) /\ Len(Append(a, x)) = Len(a) + 1 /\ Len(a) \in Nat
      /\ \A i \in 1 .. Len(a) : Append(a, x)[i] = a[i]
      /\ Append(a, x)[Len(a) + 1] = x
  OBVIOUS
<1>2. \A i \in 1 .. (Len(a) + 1) : i \in 1 .. Len(a) \/ i = Len(a) + 1
  BY <1>1
<1>3. ToSet(a) = {a[i] : i \in 1 .. Len(a)}
  BY DEF ToSet
<1>4. ToSet(Append(a, x)) = {Append(a, x)[i] : i \in 1 .. (Len(a) + 1)}
  BY <1>1 DEF ToSet
<1>5. 1 .. Len(a) \subseteq 1 .. (Len(a) + 1) /\ Len(a) + 1 \in 1 .. (Len(a) + 1)
  BY <1>1
<1> HIDE DEF ToSet
<1> QED
  BY <1>1, <1>2, <1>3, <1>4, <1>5

(* A set in some order: a sequence of its elements.                        *)
LEMMA InSomeOrder ==
    ASSUME NEW S, IsFiniteSet(S), NEW s \in SetToSeqs(S)
    PROVE  s \in Seq(S) /\ ToSet(s) = S
<1> DEFINE n == Cardinality(S)
           dom == 1 .. n
<1>1. n \in Nat
  BY FS_CardinalityType
<1>2. s \in [dom -> S] /\ \A i, j \in dom : i # j => s[i] # s[j]
  BY DEF SetToSeqs
<1>3. s \in Seq(S) /\ DOMAIN s = dom
  BY <1>1, <1>2
<1>4. IsFiniteSet(dom) /\ Cardinality(dom) = n
  BY <1>1, FS_Interval
<1>5. s \in Injection(dom, S)
  BY <1>2 DEF Injection, IsInjective
<1>6. s \in Surjection(dom, S)
  BY <1>4, <1>5, FS_Injection
<1>7. \A x \in S : \E i \in dom : s[i] = x
  BY <1>6 DEF Surjection
<1> QED
  BY <1>2, <1>3, <1>7 DEF ToSet

-----------------------------------------------------------------------------
(* Walks.                                                                  *)

WalkTypeOK ==
    /\ prevOf \in [Header -> SUBSET Header] /\ contents \subseteq Header
    /\ \A h \in Header : prevOf[h] \subseteq 1 .. (h - 1)
    /\ accepted \subseteq Header /\ initial \subseteq Header
    /\ direction \in {"forward", "backward"}
    /\ queue \in Seq(Walkable) /\ yielded \in Seq(Walkable)
    /\ visited = ToSet(yielded)

(* Met: visited, or to be visited.                                         *)
Met == visited \cup ToSet(queue)

WalkInv ==
    /\ WalkTypeOK
    /\ Met \subseteq Reachable
    /\ initial \cap Walkable \subseteq Met
    /\ \A x \in visited, y \in Walkable : Arc(x, y) => y \in Met

LEMMA HeadersAreFinite == IsFiniteSet(Header) /\ Header \subseteq Nat
BY FS_Interval DEF Header

LEMMA ReachableFacts ==
    /\ initial \cap Walkable \subseteq Reachable
    /\ \A x \in Reachable, y \in Walkable : Arc(x, y) => y \in Reachable
    /\ \A S \in SUBSET Walkable :
         /\ initial \cap Walkable \subseteq S
         /\ \A x \in S, y \in Walkable : Arc(x, y) => y \in S
         => Reachable \subseteq S
BY DEF Reachable

LEMMA StartEstablishes ==
    ASSUME Fragments, Start, accepted \subseteq Header, initial \subseteq Header,
           direction \in {"forward", "backward"}
    PROVE  WalkInv
<1>1. /\ prevOf \in [Header -> SUBSET Header] /\ contents \subseteq Header
      /\ \A h \in Header : prevOf[h] \subseteq 1 .. (h - 1)
  BY DEF Fragments, Dags
<1> DEFINE S == initial \cap contents \cap accepted
<1>2. IsFiniteSet(S) /\ S = initial \cap Walkable
  BY <1>1, HeadersAreFinite, FS_Subset DEF Walkable
<1>3. queue \in Seq(S) /\ ToSet(queue) = S
  BY <1>2, InSomeOrder DEF Start, Queues
<1>4. queue \in Seq(Walkable)
  BY <1>2, <1>3
<1>5. yielded = <<>> /\ visited = {} /\ ToSet(<<>>) = {} /\ <<>> \in Seq(Walkable)
  BY DEF Start, ToSet
<1>6. WalkTypeOK
  BY <1>1, <1>4, <1>5 DEF WalkTypeOK
<1> QED
  BY <1>2, <1>3, <1>5, <1>6, ReachableFacts DEF WalkInv, Met

(* One call of next(): the neighbours of a header that was not visited yet *)
(* are met.                                                                *)
LEMMA VisitKeeps ==
    ASSUME WalkInv, VisitNext
    PROVE  WalkInv'
<1> DEFINE h    == Head(queue)
           rest == Tail(queue)
           new  == Enqueued(InFragment(GoFrom(h)), rest)
<1>1. WalkTypeOK /\ queue # <<>>
  BY DEF WalkInv, VisitNext
<1>2. h \in Walkable /\ rest \in Seq(Walkable) /\ ToSet(queue) = {h} \cup ToSet(rest)
  BY <1>1, HeadAndTail DEF WalkTypeOK
<1>3. /\ UNCHANGED <<fragment, arguments>> /\ visited' = visited \cup {h}
      /\ yielded' = Append(yielded, h)
  BY DEF VisitNext
<1>4. PICK s \in SetToSeqs(new) : queue' = rest \o s
  BY DEF VisitNext
<1>5. new \subseteq Walkable /\ \A y \in new : Arc(h, y)
  <2>1. Neighbours(h) \cap contents \subseteq {y \in contents : Arc(h, y)}
    BY DEF Neighbours, NextIn, Arc
  <2> QED
    BY <2>1 DEF Enqueued, InFragment, GoFrom, Walkable
<1>6. ASSUME NEW y \in Walkable, Arc(h, y), h \notin visited
      PROVE  y \in new \cup ToSet(rest)
  <2>1. y \in Neighbours(h)
    BY <1>1, <1>6 DEF Neighbours, NextIn, Arc, Walkable, WalkTypeOK
  <2> QED
    BY <1>6, <2>1 DEF Enqueued, InFragment, GoFrom, Walkable
<1> HIDE DEF h, rest, new
<1>7. IsFiniteSet(new)
  BY <1>1, <1>5, HeadersAreFinite, FS_Subset DEF Walkable, WalkTypeOK
<1>8. s \in Seq(Walkable) /\ ToSet(s) = new
  BY <1>4, <1>5, <1>7, InSomeOrder
<1>9. queue' \in Seq(Walkable) /\ ToSet(queue') = ToSet(rest) \cup new
  BY <1>2, <1>4, <1>8, ToSetOfBoth
<1>10. yielded' \in Seq(Walkable) /\ visited' = ToSet(yielded')
  BY <1>1, <1>2, <1>3, ToSetOfAppend DEF WalkTypeOK
<1>11. Walkable' = Walkable /\ Reachable' = Reachable /\ \A x, y : Arc(x, y)' <=> Arc(x, y)
  BY <1>3 DEF Walkable, Reachable, Arc, fragment, arguments
<1>12. Met' = Met \cup new
  BY <1>2, <1>3, <1>9 DEF Met
<1>13. WalkTypeOK'
  BY <1>1, <1>3, <1>9, <1>10, <1>11 DEF WalkTypeOK, fragment, arguments
<1>14. Met' \subseteq Reachable'
  BY <1>2, <1>5, <1>11, <1>12, ReachableFacts DEF WalkInv, Met
<1>15. ASSUME NEW x \in visited', NEW y \in Walkable, Arc(x, y)
       PROVE  y \in Met'
  BY <1>2, <1>3, <1>6, <1>12, <1>15 DEF WalkInv, Met
<1> QED
  BY <1>3, <1>11, <1>12, <1>13, <1>14, <1>15 DEF WalkInv, arguments

(* When a walk is done it has visited what can be reached.                 *)
LEMMA DoneIsExact ==
    ASSUME WalkInv, Done
    PROVE  visited = Reachable /\ ToSet(yielded) = visited
<1>1. ToSet(queue) = {}
  BY DEF Done, ToSet
<1>2. visited \subseteq Walkable
  <2>1. \A x \in ToSet(yielded) : x \in Walkable
    BY DEF WalkInv, WalkTypeOK, ToSet
  <2> QED
    BY <2>1 DEF WalkInv, WalkTypeOK
<1> QED
  BY <1>1, <1>2, ReachableFacts DEF WalkInv, WalkTypeOK, Met

LEMMA WalkInvariant == Spec => []WalkInv
<1>1. Init => WalkInv
  BY StartEstablishes DEF Init
<1>2. WalkInv /\ UNCHANGED vars => WalkInv'
  BY DEF WalkInv, WalkTypeOK, Met, Reachable, Walkable, Arc, vars, fragment, arguments
<1>3. WalkInv /\ [Next]_vars => WalkInv'
  BY <1>2, VisitKeeps DEF Next
<1> QED
  BY <1>1, <1>3, PTL DEF Spec

(* A walk in either direction, with either method and any filter, yields   *)
(* exactly the headers that can be reached in the fragment, for every      *)
(* history and however much of it is missing.                              *)
THEOREM WalksAreExact == Spec => []ClosureExact
<1>1. WalkInv => ClosureExact
  BY DoneIsExact DEF ClosureExact
<1> QED
  BY <1>1, WalkInvariant, PTL

-----------------------------------------------------------------------------
(* Closures.                                                               *)

WalkFromEdges == direction = "forward" /\ initial = StartingOpHeaders /\ accepted = Header

(* Whom a header follows: provided, missing or delivered.                  *)
MissingIsRight ==
    /\ missingPrev \in [contents -> SUBSET Header]
    /\ \A x \in contents : missingPrev[x] \subseteq prevOf[x] \ provided
    /\ \A x \in contents : \A p \in prevOf[x] :
          p \in provided \/ p \in missingPrev[x] \/ p \in closure

ResultIsRight ==
    /\ closure \subseteq contents
    /\ result \in Seq(contents) /\ ToSet(result) \subseteq closure
    /\ \A h \in closure : h \in ignored \/ h \in ToSet(result)
    /\ CausalOrder

VisitedAreDelivered ==
    \A h \in visited \cap permitted : prevOf[h] \subseteq provided => h \in closure

ClosureInv ==
    WalkInv /\ WalkFromEdges /\ MissingIsRight /\ ResultIsRight /\ VisitedAreDelivered

LEMMA ClosureInitEstablishes ==
    ASSUME ClosureInit
    PROVE  ClosureInv
<1>1. contents \subseteq Header /\ prevOf \in [Header -> SUBSET Header]
  BY DEF ClosureInit, Fragments, Dags
<1>2. initial \subseteq Header
  BY <1>1 DEF ClosureInit, StartingOpHeaders
<1>3. WalkInv
  BY <1>2, StartEstablishes DEF ClosureInit
<1>4. MissingIsRight
  <2>1. \A x \in contents : MissingAtFirst(x) \in SUBSET Header
    BY <1>1 DEF MissingAtFirst
  <2>2. missingPrev = [h \in contents |-> MissingAtFirst(h)]
    BY DEF ClosureInit
  <2>3. missingPrev \in [contents -> SUBSET Header]
    BY <2>1, <2>2
  <2> QED
    BY <2>2, <2>3 DEF MissingIsRight, MissingAtFirst
<1>5. ResultIsRight
  <2>1. result = <<>> /\ closure = {} /\ ToSet(<<>>) = {} /\ <<>> \in Seq(contents)
    BY DEF ClosureInit, ToSet
  <2>2. CausalOrder
    BY <2>1 DEF CausalOrder
  <2> QED
    BY <2>1, <2>2 DEF ResultIsRight
<1>6. VisitedAreDelivered
  BY DEF ClosureInit, Start, VisitedAreDelivered
<1> QED
  BY <1>3, <1>4, <1>5, <1>6 DEF ClosureInv, WalkFromEdges, ClosureInit

(* A delivered header goes at the end of the result, unless it is there.   *)
LEMMA DeliveryKeepsOrder ==
    ASSUME ClosureInv, NEW h \in contents, Deliverable(h),
           UNCHANGED <<fragment, callArguments>>,
           result' = ResultAfter(h), closure' = closure \cup {h}
    PROVE  ResultIsRight'
<1>1. ResultIsRight /\ MissingIsRight
  BY DEF ClosureInv
<1>2. UNCHANGED <<prevOf, contents, provided, ignored>>
  BY DEF fragment, callArguments
<1>3. CASE h \in closure \/ h \in ignored
  <2>1. result' = result
    BY <1>3 DEF ResultAfter
  <2>2. CausalOrder'
    BY <1>1, <1>2, <2>1 DEF ResultIsRight, CausalOrder
  <2> QED
    BY <1>1, <1>2, <1>3, <2>1, <2>2 DEF ResultIsRight
<1>4. CASE h \notin closure /\ h \notin ignored
  <2>1. result' = Append(result, h)
    BY <1>4 DEF ResultAfter
  <2>2. result' \in Seq(contents) /\ ToSet(result') = ToSet(result) \cup {h}
    BY <1>1, <2>1, ToSetOfAppend DEF ResultIsRight
  <2>3. /\ Len(result) \in Nat
        /\ DOMAIN result = 1 .. Len(result)
        /\ DOMAIN result' = 1 .. (Len(result) + 1)
        /\ \A i \in 1 .. Len(result) : result'[i] = result[i]
        /\ result'[Len(result) + 1] = h
    BY <1>1, <2>1 DEF ResultIsRight
  <2>4. \A i \in 1 .. Len(result) : result[i] # h
    BY <1>1, <1>4, <2>3 DEF ResultIsRight, ToSet
  <2>5. ASSUME NEW p \in prevOf[h]
        PROVE  \/ p \in provided
               \/ p \in closure /\ p \in ignored
               \/ \E j \in 1 .. Len(result) : result[j] = p
    BY <1>1, <2>3, <2>5 DEF ResultIsRight, MissingIsRight, Deliverable, ToSet
  <2>6. CausalOrder'
    <3> SUFFICES ASSUME NEW i \in DOMAIN result'
                 PROVE  /\ \A j \in 1 .. (i - 1) : result'[j] # result'[i]
                        /\ \A p \in prevOf[result'[i]] :
                              \/ p \in provided
                              \/ p \in closure' /\ p \in ignored
                              \/ \E j \in 1 .. (i - 1) : result'[j] = p
      BY <1>2 DEF CausalOrder
    <3>1. CASE i = Len(result) + 1
      <4>1. i - 1 = Len(result) /\ result'[i] = h
        BY <2>3, <3>1
      <4> QED
        BY <2>3, <2>4, <2>5, <4>1
    <3>2. CASE i \in 1 .. Len(result)
      <4>1. \A j \in 1 .. (i - 1) : j \in 1 .. Len(result)
        BY <2>3, <3>2
      <4> QED
        BY <1>1, <2>3, <3>2, <4>1 DEF ResultIsRight, CausalOrder
    <3> QED
      BY <2>3, <3>1, <3>2
  <2> QED
    BY <1>1, <1>2, <2>2, <2>6 DEF ResultIsRight
<1> QED
  BY <1>3, <1>4

LEMMA ClosureVisitKeeps ==
    ASSUME ClosureInv, Visit
    PROVE  ClosureInv'
<1> DEFINE h == Head(queue)
<1>1. WalkInv /\ WalkFromEdges /\ MissingIsRight /\ ResultIsRight /\ VisitedAreDelivered
  BY DEF ClosureInv
<1>2. WalkInv'
  BY <1>1, VisitKeeps DEF Visit
<1>3. /\ UNCHANGED <<prevOf, contents, direction, initial, accepted, provided, ignored, permitted>>
      /\ UNCHANGED <<fragment, callArguments>>
      /\ visited' = visited \cup {h} /\ queue # <<>>
  BY DEF Visit, VisitNext, fragment, arguments, callArguments
<1>4. h \in contents
  BY <1>1, <1>3, HeadAndTail DEF WalkInv, WalkTypeOK, Walkable
<1>5. missingPrev' = MissingAfterVisit(h)
  BY DEF Visit
<1>6. /\ Deliverable(h) => result' = ResultAfter(h) /\ closure' = closure \cup {h}
      /\ ~Deliverable(h) => UNCHANGED <<result, closure>>
  BY DEF Visit
<1> HIDE DEF h
<1>7. WalkFromEdges'
  BY <1>1, <1>3 DEF WalkFromEdges, StartingOpHeaders
<1>8. MissingIsRight'
  <2>1. \A x \in contents :
          missingPrev'[x] = IF Deliverable(h) /\ h \in prevOf[x] /\ x \in permitted
                            THEN missingPrev[x] \ {h} ELSE missingPrev[x]
    BY <1>5 DEF MissingAfterVisit
  <2>2. missingPrev' \in [contents -> SUBSET Header]
    BY <1>1, <1>5 DEF MissingAfterVisit, MissingIsRight
  <2>3. closure \subseteq closure' /\ (Deliverable(h) => h \in closure')
    BY <1>6
  <2> QED
    BY <1>1, <1>3, <2>1, <2>2, <2>3 DEF MissingIsRight
<1>9. ResultIsRight'
  <2>1. CASE Deliverable(h)
    BY <1>3, <1>4, <1>6, <2>1, DeliveryKeepsOrder
  <2>2. CASE ~Deliverable(h)
    BY <1>1, <1>3, <1>6, <2>2 DEF ResultIsRight, CausalOrder
  <2> QED
    BY <2>1, <2>2
<1>10. VisitedAreDelivered'
  <2>1. ASSUME h \in permitted, prevOf[h] \subseteq provided
        PROVE  Deliverable(h)
    BY <1>1, <1>4, <2>1 DEF MissingIsRight, Deliverable
  <2> QED
    BY <1>1, <1>3, <1>6, <2>1 DEF VisitedAreDelivered
<1> QED
  BY <1>2, <1>7, <1>8, <1>9, <1>10 DEF ClosureInv

(* The walk from the edges of a fragment leaves nothing of it out: the     *)
(* first header it left out would follow one that it visited.              *)
LEMMA DoneVisitsAll ==
    ASSUME ClosureInv, Done
    PROVE  contents \subseteq visited
<1>1. WalkInv /\ WalkFromEdges
  BY DEF ClosureInv
<1>2. /\ prevOf \in [Header -> SUBSET Header] /\ contents \subseteq Header
      /\ \A x \in Header : prevOf[x] \subseteq 1 .. (x - 1)
      /\ Walkable = contents
  BY <1>1 DEF WalkInv, WalkTypeOK, WalkFromEdges, Walkable
<1>3. Met = visited
  BY DEF Met, Done, ToSet
<1> DEFINE left == contents \ visited
<1> SUFFICES ASSUME left # {}
             PROVE  FALSE
  OBVIOUS
<1>4. left \in SUBSET Nat /\ IsFiniteSet(left)
  BY <1>2, HeadersAreFinite, FS_Subset
<1>5. PICK x \in left : \A y \in left : x <= y
  <2> HIDE DEF left
  <2> QED
    BY <1>4, FirstOne
<1>6. x \in contents /\ x \notin initial
  BY <1>1, <1>2, <1>3 DEF WalkInv
<1>7. prevOf[x] # {} /\ prevOf[x] \subseteq contents
  BY <1>1, <1>6 DEF WalkFromEdges, StartingOpHeaders
<1>8. PICK p \in prevOf[x] : TRUE
  BY <1>7
<1>9. p \in contents /\ p \in Nat /\ x \in Nat /\ p < x
  BY <1>2, <1>6, <1>7, HeadersAreFinite
<1>10. p \in visited
  BY <1>5, <1>9
<1>11. Arc(p, x)
  BY <1>1, <1>8 DEF Arc, WalkFromEdges
<1> QED
  BY <1>1, <1>2, <1>3, <1>5, <1>6, <1>10, <1>11 DEF WalkInv

LEMMA ClosureInvariant == ClosureSpec => []ClosureInv
<1>1. ClosureInit => ClosureInv
  BY ClosureInitEstablishes
<1>2. ASSUME ClosureInv, UNCHANGED closureVars
      PROVE  ClosureInv'
  <2>1. /\ UNCHANGED <<prevOf, contents, direction, initial, accepted, queue, visited, yielded>>
        /\ UNCHANGED <<provided, ignored, permitted, missingPrev, closure, result>>
    BY <1>2 DEF closureVars, callArguments, vars, fragment, arguments
  <2>2. WalkInv'
    BY <1>2, <2>1 DEF ClosureInv, WalkInv, WalkTypeOK, Met, Reachable, Walkable, Arc
  <2>3. WalkFromEdges' /\ MissingIsRight' /\ VisitedAreDelivered'
    BY <1>2, <2>1 DEF ClosureInv, WalkFromEdges, StartingOpHeaders, MissingIsRight,
                      VisitedAreDelivered
  <2>4. ResultIsRight'
    BY <1>2, <2>1 DEF ClosureInv, ResultIsRight, CausalOrder
  <2> QED
    BY <2>2, <2>3, <2>4 DEF ClosureInv
<1>3. ClosureInv /\ [Visit]_closureVars => ClosureInv'
  BY <1>2, ClosureVisitKeeps
<1> QED
  BY <1>1, <1>3, PTL DEF ClosureSpec

LEMMA ClosureInvServes ==
    ASSUME ClosureInv
    PROVE  ClosureServes
<1>1. CausalOrder
  BY DEF ClosureInv, ResultIsRight
<1>2. FirstLayerDelivered
  BY DoneVisitsAll DEF ClosureInv, VisitedAreDelivered, FirstLayerDelivered
<1> QED
  BY <1>1, <1>2 DEF ClosureServes

(* A closure serves whoever asks for it, for every fragment, every set of  *)
(* headers that are provided, ignored or filtered out, and every limit:    *)
(* causalClosure() returns each header once and after those that it        *)
(* follows, and short of the limit it leaves out none that follows from    *)
(* the provided ones alone.                                                *)
THEOREM ClosuresServe == ClosureSpec => []ClosureServes
BY ClosureInvServes, ClosureInvariant, PTL

-----------------------------------------------------------------------------
(* Responses.                                                              *)

(* A walk starts anew, on what the last step found.                        *)
LEMMA WalkStarts ==
    ASSUME prevOf' \in Dags, contents' \subseteq Header, accepted' \subseteq Header,
           initial' \subseteq Header, direction' \in {"forward", "backward"}, StartWalk
    PROVE  WalkInv'
<1>1. prevOf' \in [Header -> SUBSET Header] /\ \A h \in Header : prevOf'[h] \subseteq 1 .. (h - 1)
  BY DEF Dags
<1> DEFINE S == initial' \cap contents' \cap accepted'
<1>2. IsFiniteSet(S) /\ S = initial' \cap Walkable'
  BY HeadersAreFinite, FS_Subset DEF Walkable
<1>3. queue' \in SetToSeqs(S)
  BY DEF StartWalk, Queues
<1> HIDE DEF S
<1>4. queue' \in Seq(S) /\ ToSet(queue') = S
  BY <1>2, <1>3, InSomeOrder
<1>5. queue' \in Seq(Walkable')
  BY <1>2, <1>4
<1>6. yielded' = <<>> /\ visited' = {} /\ ToSet(<<>>) = {} /\ <<>> \in Seq(Walkable')
  BY DEF StartWalk, ToSet
<1>7. WalkTypeOK'
  BY <1>1, <1>5, <1>6 DEF WalkTypeOK
<1>8. S \subseteq Reachable'
  BY <1>2 DEF Reachable
<1> QED
  BY <1>2, <1>4, <1>6, <1>7, <1>8 DEF WalkInv, Met

(* What a walk back from the initial headers yields has only those at its  *)
(* end.                                                                    *)
LEMMA EndsAreInitial ==
    ASSUME WalkInv, direction = "backward",
           NEW h \in Reachable, \A x \in Reachable : h \notin prevOf[x]
    PROVE  h \in initial
<1> SUFFICES ASSUME h \notin initial
             PROVE  FALSE
  OBVIOUS
<1> DEFINE S == Reachable \ {h}
<1>1. S \in SUBSET Walkable
  BY DEF Reachable
<1>2. initial \cap Walkable \subseteq S
  BY ReachableFacts
<1>3. \A x \in S, y \in Walkable : Arc(x, y) => y \in S
  BY ReachableFacts DEF Arc
<1>4. Reachable \subseteq S
  <2> HIDE DEF S
  <2> QED
    BY <1>1, <1>2, <1>3, ReachableFacts
<1> QED
  BY <1>4

(* The delta and the starting fragment: parts of the store without a       *)
(* header in common, that hold what was asked for and what the peer named; *)
(* and that meet, when the delta ends for lack of a gap.                   *)
DeltaInv ==
    /\ D!TypeOK /\ store \subseteq Header
    /\ targets \subseteq Header
    /\ deltaFragment \cap start = {}
    /\ pc # "load" => /\ starts \cap store \subseteq start
                      /\ targets \cap store \subseteq deltaFragment \cup start
    /\ pc = "done" /\ D!BelowLimit(deltaFragment) =>
          D!Missing(deltaFragment) \subseteq start

LEMMA DeltaInit ==
    ASSUME D!Init
    PROVE  DeltaInv
BY ResponseAssumption DEF D!Init, DeltaInv, D!TypeOK

LEMMA NoDeltaInit ==
    ASSUME NoDelta
    PROVE  DeltaInv
BY DEF NoDelta, DeltaInv, D!Missing, D!TypeOK

LEMMA DeltaLoops ==
    ASSUME D!LoopOrReturn(deltaFragment', start'), pc' = "done",
           D!BelowLimit(deltaFragment')
    PROVE  D!Missing(deltaFragment') \subseteq start'
BY DEF D!LoopOrReturn, D!Gap, D!BelowLimit

LEMMA DeltaKeeps ==
    ASSUME DeltaInv, D!Next
    PROVE  DeltaInv' /\ UNCHANGED <<prevOf, store, targets, starts>>
<1>1. UNCHANGED <<prevOf, store, targets, starts>>
  BY DEF D!Next, D!Load, D!Backtrack, D!Extend, D!inputs
<1>2. CASE D!Load
  <2>1. /\ start' = starts \cap store /\ deltaFragment' = (targets \cap store) \ start'
        /\ D!LoopOrReturn(deltaFragment', start')
    BY <1>2 DEF D!Load, D!Loaded
  <2>2. D!Missing(deltaFragment)' = D!Missing(deltaFragment')
    BY <1>1 DEF D!Missing
  <2> QED
    BY <1>1, <2>1, <2>2, DeltaLoops DEF DeltaInv, D!TypeOK, D!LoopOrReturn
<1>3. CASE D!Backtrack
  <2>1. PICK T \in SUBSET store : start' = start \cup T /\ deltaFragment' = deltaFragment \ T
    BY <1>3 DEF D!Backtrack, D!UpTo, D!Above, D!Loaded, D!WithoutStart
  <2>2. pc = "backtrack" /\ pc' = "extend"
    BY <1>3 DEF D!Backtrack
  <2> QED
    BY <1>1, <2>1, <2>2 DEF DeltaInv, D!TypeOK
<1>4. CASE D!Extend
  <2>1. PICK T \in SUBSET (store \ start) : deltaFragment' = deltaFragment \cup T
    BY <1>4 DEF D!Extend, D!UpTo, D!Loaded
  <2>2. pc = "extend" /\ start' = start /\ D!LoopOrReturn(deltaFragment', start')
    BY <1>4 DEF D!Extend
  <2>3. D!Missing(deltaFragment)' = D!Missing(deltaFragment')
    BY <1>1 DEF D!Missing
  <2> QED
    BY <1>1, <2>1, <2>2, <2>3, DeltaLoops DEF DeltaInv, D!TypeOK, D!LoopOrReturn
<1> QED
  BY <1>1, <1>2, <1>3, <1>4 DEF D!Next

(* What precedes the headers of the delta that are asked for is among them *)
(* or follows from what the peer has.                                      *)
LEMMA FilteredIsConnected ==
    ASSUME WalkInv, DeltaInv, contents = deltaFragment, direction = "backward",
           initial = targets, accepted = Header, pc = "done",
           D!BelowLimit(deltaFragment)
    PROVE  D!History(targets \cap store) \subseteq Reachable \cup D!History(start)
<1> DEFINE T == Reachable \cup D!History(start)
<1>1. /\ Walkable = deltaFragment /\ Reachable \subseteq deltaFragment
      /\ prevOf \in [Header -> SUBSET Header] /\ deltaFragment \subseteq Header
  BY DEF Walkable, Reachable, WalkInv, WalkTypeOK
<1>2. start \subseteq D!History(start) /\ D!History(start) \subseteq Header
  BY DEF D!History, DeltaInv, D!TypeOK
<1>3. T \in SUBSET Header
  BY <1>1, <1>2
<1>4. targets \cap store \subseteq T
  BY <1>1, <1>2, ReachableFacts DEF DeltaInv
<1>5. ASSUME NEW h \in Reachable, NEW p \in prevOf[h]
      PROVE  p \in T
  <2>1. p \in Header /\ h \in deltaFragment
    BY <1>1
  <2>2. p \in deltaFragment \cup start
    BY <2>1 DEF DeltaInv, D!Missing
  <2>3. CASE p \in deltaFragment
    BY <1>1, <2>3, ReachableFacts DEF Arc
  <2> QED
    BY <1>2, <2>2, <2>3
<1>6. ASSUME NEW h \in D!History(start), NEW p \in prevOf[h]
      PROVE  p \in T
  BY <1>1, <1>2 DEF D!History, D!Closed
<1>7. D!Closed(T)
  BY <1>5, <1>6 DEF D!Closed
<1> HIDE DEF T
<1>8. D!History(targets \cap store) \subseteq T
  BY <1>3, <1>4, <1>7 DEF D!History
<1> QED
  BY <1>8 DEF T

-----------------------------------------------------------------------------
(* The calls, one after another.                                           *)

Filtering ==
    /\ contents = deltaFragment /\ direction = "backward" /\ initial = targets
    /\ accepted = Header /\ pc = "done"

ResponseInv ==
    /\ WalkInv /\ DeltaInv
    /\ phase \in {"walk", "delta", "filter", "closure"} /\ method \in {"bfs", "full"}
    /\ phase = "closure" \/ (result = <<>> /\ maxOps = 0)
    /\ phase = "filter" => Filtering
    /\ phase = "closure" => ClosureInv /\ ResponseAnswers

LEMMA ResponseInvInit == ResponseInit => ResponseInv
<1>1. CASE WalkCall
  <2>1. WalkInv
    BY <1>1, StartEstablishes DEF WalkCall, Init
  <2> QED
    BY <1>1, <2>1, NoDeltaInit DEF WalkCall, Init, NoClosure, ResponseInv
<1>2. CASE ClosureCall
  <2>1. ClosureInv /\ WalkInv
    BY <1>2, ClosureInitEstablishes DEF ClosureCall, ClosureInv
  <2>2. ResponseAnswers
    BY <1>2 DEF ClosureCall, NoDelta, ResponseAnswers
  <2> QED
    BY <1>2, <2>1, <2>2, NoDeltaInit DEF ClosureCall, ClosureInit, ResponseInv
<1>3. CASE ResponseCall
  <2>1. prevOf \in Dags
    BY <1>3, ResponseAssumption DEF ResponseCall, D!Init
  <2>2. Walkable = {} /\ Reachable = {} /\ ToSet(<<>>) = {} /\ visited = {} /\ queue = <<>>
    BY <1>3 DEF ResponseCall, NoWalk, Walkable, Reachable, ToSet
  <2>3. WalkTypeOK
    BY <1>3, <2>1, <2>2 DEF ResponseCall, NoWalk, WalkTypeOK, Dags
  <2>4. WalkInv
    BY <2>2, <2>3 DEF WalkInv, Met
  <2> QED
    BY <1>3, <2>4, DeltaInit DEF ResponseCall, NoWalk, NoClosure, ResponseInv
<1> QED
  BY <1>1, <1>2, <1>3 DEF ResponseInit

LEMMA FilterBegins ==
    ASSUME ResponseInv, BeginFilter
    PROVE  ResponseInv'
<1>1. UNCHANGED <<prevOf, deltaVars, closureOnlyVars>> /\ phase = "delta" /\ pc = "done"
  BY DEF BeginFilter
<1>2. DeltaInv'
  BY <1>1 DEF ResponseInv, DeltaInv, deltaVars, D!Missing, D!TypeOK
<1>3. prevOf' \in Dags
  BY <1>1 DEF ResponseInv, WalkInv, WalkTypeOK, Dags
<1>4. Filtering'
  BY <1>1 DEF BeginFilter, FilterFrom, Filtering, deltaVars
<1>5. WalkInv'
  <2>1. contents' \subseteq Header /\ initial' \subseteq Header
    BY <1>1, <1>2, <1>4 DEF DeltaInv, D!TypeOK, Filtering
  <2> QED
    BY <1>3, <1>4, <2>1, WalkStarts DEF BeginFilter, Filtering
<1> QED
  BY <1>1, <1>2, <1>4, <1>5 DEF BeginFilter, ResponseInv, closureOnlyVars, callArguments

LEMMA ClosureBegins ==
    ASSUME ResponseInv, BeginClosure
    PROVE  ResponseInv'
<1>1. /\ UNCHANGED <<prevOf, deltaVars>> /\ Filtering /\ WalkInv /\ DeltaInv
      /\ contents' = Reachable
  BY DoneIsExact DEF BeginClosure, ResponseInv
<1>2. DeltaInv'
  BY <1>1 DEF DeltaInv, deltaVars, D!Missing, D!TypeOK
<1>3. Reachable \subseteq deltaFragment /\ prevOf' \in Dags /\ contents' \subseteq Header
  BY <1>1 DEF WalkInv, WalkTypeOK, Dags, Reachable, Walkable, Filtering
<1>4. WalkFromEdges'
  BY DEF BeginClosure, WalkFromEdges
<1>5. WalkInv'
  <2>1. initial' \subseteq Header
    BY <1>3, <1>4 DEF WalkFromEdges, StartingOpHeaders
  <2> QED
    BY <1>3, <1>4, <2>1, WalkStarts DEF BeginClosure, WalkFromEdges
<1>6. MissingIsRight'
  <2>1. missingPrev' = [h \in contents' |-> prevOf[h] \ provided']
    BY DEF BeginClosure
  <2>2. \A x \in contents' : prevOf[x] \in SUBSET Header
    BY <1>1, <1>3 DEF Dags
  <2>3. missingPrev' \in [contents' -> SUBSET Header]
    BY <2>1, <2>2
  <2> QED
    BY <1>1, <2>1, <2>3 DEF MissingIsRight
<1>7. ResultIsRight' /\ VisitedAreDelivered'
  <2>1. result' = <<>> /\ closure' = {} /\ visited' = {} /\ ToSet(<<>>) = {}
    BY DEF BeginClosure, StartWalk, ToSet
  <2> QED
    BY <2>1 DEF ResultIsRight, CausalOrder, VisitedAreDelivered
<1>8. ResponseAnswers'
  <2>1. ASSUME NEW h \in contents', NextIn(h)' = {}
        PROVE  h \in targets'
    <3>1. \A x \in Reachable : h \notin prevOf[x]
      BY <1>1, <2>1 DEF NextIn
    <3> QED
      BY <1>1, <2>1, <3>1, EndsAreInitial DEF Filtering, deltaVars
  <2>2. contents' \cap starts' = {}
    BY <1>1, <1>3 DEF Filtering, DeltaInv, D!TypeOK, deltaVars
  <2>3. ASSUME D!BelowLimit(deltaFragment')
        PROVE  D!History(targets \cap store)' \subseteq contents' \cup D!History(start)'
    <3>1. D!History(targets \cap store) \subseteq Reachable \cup D!History(start)
      BY <1>1, <2>3, FilteredIsConnected DEF Filtering, deltaVars
    <3>2. /\ D!History(targets \cap store)' = D!History(targets \cap store)
          /\ D!History(start)' = D!History(start)
      BY <1>1 DEF D!History, D!Closed, deltaVars
    <3> QED
      BY <1>1, <3>1, <3>2
  <2> QED
    BY <2>1, <2>2, <2>3 DEF ResponseAnswers
<1> QED
  BY <1>2, <1>4, <1>5, <1>6, <1>7, <1>8 DEF BeginClosure, ResponseInv, ClosureInv

LEMMA ResponseStutters ==
    ASSUME ResponseInv, UNCHANGED allVars
    PROVE  ResponseInv'
<1>1. /\ UNCHANGED <<phase, prevOf, store, targets, starts, start, deltaFragment, pc>>
      /\ UNCHANGED <<contents, direction, method, initial, accepted, queue, visited, yielded>>
      /\ UNCHANGED <<provided, maxOps, ignored, permitted, missingPrev, closure, result>>
  BY DEF allVars, deltaVars, walkVars, arguments, closureOnlyVars, callArguments
<1>2. WalkInv'
  BY <1>1 DEF ResponseInv, WalkInv, WalkTypeOK, Met, Reachable, Walkable, Arc
<1>3. DeltaInv' /\ (Filtering <=> Filtering')
  BY <1>1 DEF ResponseInv, DeltaInv, D!Missing, D!TypeOK, Filtering
<1>4. ClosureInv => ClosureInv'
  <2>1. ASSUME ClosureInv PROVE ResultIsRight'
    BY <1>1, <2>1 DEF ClosureInv, ResultIsRight, CausalOrder
  <2> QED
    BY <1>1, <1>2, <2>1 DEF ClosureInv, WalkFromEdges, StartingOpHeaders, MissingIsRight, VisitedAreDelivered
<1>5. ResponseAnswers => ResponseAnswers'
  BY <1>1 DEF ResponseAnswers, NextIn, D!History, D!Closed
<1> QED
  BY <1>1, <1>2, <1>3, <1>4, <1>5 DEF ResponseInv

LEMMA ResponseInvNext ==
    ASSUME ResponseInv, [ResponseNext]_allVars
    PROVE  ResponseInv'
<1>1. CASE WalkStep
  <2>1. /\ UNCHANGED <<phase, prevOf, contents, direction, method, initial, accepted, deltaVars, closureOnlyVars>>
        /\ phase # "closure"
    BY <1>1 DEF WalkStep, VisitNext, fragment, arguments
  <2>2. WalkInv'
    BY <1>1, VisitKeeps DEF WalkStep, ResponseInv
  <2>3. DeltaInv'
    BY <2>1 DEF ResponseInv, DeltaInv, deltaVars, D!Missing, D!TypeOK
  <2> QED
    BY <2>1, <2>2, <2>3 DEF ResponseInv, Filtering, deltaVars, closureOnlyVars, callArguments
<1>2. CASE ClosureStep
  <2>1. /\ UNCHANGED <<phase, prevOf, contents, method, deltaVars>> /\ phase = "closure"
    BY <1>2 DEF ClosureStep, Visit, VisitNext, fragment, arguments
  <2>2. ClosureInv'
    BY <1>2, <2>1, ClosureVisitKeeps DEF ClosureStep, ResponseInv
  <2>3. DeltaInv'
    BY <2>1 DEF ResponseInv, DeltaInv, deltaVars, D!Missing, D!TypeOK
  <2>4. ResponseAnswers'
    BY <2>1 DEF ResponseInv, ResponseAnswers, NextIn, deltaVars, D!History, D!Closed
  <2> QED
    BY <2>1, <2>2, <2>3, <2>4 DEF ResponseInv, ClosureInv
<1>3. CASE DeltaStep
  <2>1. /\ UNCHANGED <<phase, walkVars, closureOnlyVars>> /\ phase = "delta"
        /\ DeltaInv' /\ prevOf' = prevOf
    BY <1>3, DeltaKeeps DEF DeltaStep, ResponseInv
  <2>2. WalkInv'
    BY <2>1 DEF ResponseInv, WalkInv, WalkTypeOK, Met, Reachable, Walkable, Arc, walkVars, arguments
  <2> QED
    BY <2>1, <2>2 DEF ResponseInv, walkVars, arguments, closureOnlyVars, callArguments
<1> QED
  BY <1>1, <1>2, <1>3, FilterBegins, ClosureBegins, ResponseStutters DEF ResponseNext

LEMMA ResponseInvariant == ResponseSpec => []ResponseInv
<1>1. ResponseInv /\ [ResponseNext]_allVars => ResponseInv'
  BY ResponseInvNext
<1> QED
  BY <1>1, ResponseInvInit, PTL DEF ResponseSpec

(* The fragments, the walk and the closure keep their shapes through the   *)
(* calls.                                                                  *)
THEOREM ResponseTypes == ResponseSpec => []ResponseTypeOK
<1>1. ASSUME WalkInv, method \in {"bfs", "full"}
      PROVE  TypeOK
  <2>1. Walkable \subseteq contents /\ queue \in Seq(contents) /\ yielded \in Seq(contents)
    BY <1>1 DEF WalkInv, WalkTypeOK, Walkable
  <2>2. visited \subseteq contents
    BY <1>1, <2>1 DEF WalkInv, WalkTypeOK, ToSet
  <2> QED
    BY <1>1, <2>1, <2>2 DEF TypeOK, WalkInv, WalkTypeOK
<1>2. ASSUME ClosureInv
      PROVE  result \in Seq(closure)
  <2>1. result \in Seq(contents) /\ \A i \in DOMAIN result : result[i] \in closure
    BY <1>2 DEF ClosureInv, ResultIsRight, ToSet
  <2> QED
    BY <2>1
<1>3. ResponseInv => ResponseTypeOK
  BY <1>1, <1>2 DEF ResponseInv, ResponseTypeOK, DeltaInv, ClosureTypeOK, ClosureInv,
                    MissingIsRight, ResultIsRight
<1> QED
  BY <1>3, ResponseInvariant, PTL

(* What createResponse() orders and sends ends in headers that were asked  *)
(* for and has none that the peer named as known; and when compute()       *)
(* stopped short of its limit, all that was asked for and its whole        *)
(* history is in it or follows from the start, for every history, store,   *)
(* request and limit, and every order in which headers are loaded.         *)
THEOREM ResponsesAnswer == ResponseSpec => []ResponseAnswers
<1>1. ResponseInv => ResponseAnswers
  BY DEF ResponseInv, ResponseAnswers
<1> QED
  BY <1>1, ResponseInvariant, PTL

(* The walks and the closures that createResponse() makes on the way are   *)
(* as right as those that are called by themselves.                        *)
THEOREM ResponsesAreExact == ResponseSpec => [](ClosureExact /\ ClosureServes)
<1>1. ResponseInv => ClosureExact
  BY DoneIsExact DEF ResponseInv, ClosureExact
<1>2. ASSUME ResponseInv
      PROVE  ClosureServes
  <2>1. CASE phase = "closure"
    BY <1>2, <2>1, ClosureInvServes DEF ResponseInv
  <2>2. CASE result = <<>> /\ maxOps = 0
    BY <2>2 DEF ClosureServes, CausalOrder, FirstLayerDelivered, LimitReached
  <2> QED
    BY <1>2, <2>1, <2>2 DEF ResponseInv
<1> QED
  BY <1>1, <1>2, ResponseInvariant, PTL
=============================================================================
