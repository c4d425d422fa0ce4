---------------------------- MODULE HistoryProofs ----------------------------
(***************************************************************************)
(* Theorems about the provider of histories and about the fragments that   *)
(* it and the synchronizers pass around.                                   *)
(*                                                                         *)
(* The tables of the provider agree as long as no remote has more than two *)
(* requests unanswered, for any number of remotes and requests, and however*)
(* cancellations and the timer cross with responses that are being made.   *)
(* With two, a queue has one entry at most, and a remote is in one of three*)
(* situations (TableOK).  Cutting a queue at an entry and removing just    *)
(* that entry are then the same: with three requests they are not.         *)
(*                                                                         *)
(* The incremental indexes of a fragment are exact, for every set of       *)
(* headers.  The argument is one induction: IndInv says that each index is *)
(* the one computed from the contents, and every step changes an index     *)
(* precisely where the added or removed header touches it.                 *)
(***************************************************************************)
EXTENDS HistoryFragment, HistoryProvider, FiniteSetTheorems, TLAPS

USE ProviderAssumption

NoRequestOf(x) ==
    currentResponses[x] = None /\ queuedResponses[x] = <<>> /\ Of(responses, x) = {}

OneRequestOf(x) ==
    /\ currentResponses[x] \in Request /\ queuedResponses[x] = <<>>
    /\ Of(responses, x) = {currentResponses[x]}

TwoRequestsOf(x) ==
    /\ currentResponses[x] \in Request
    /\ \E r \in Request \ {currentResponses[x]} :
          queuedResponses[x] = <<r>> /\ Of(responses, x) = {currentResponses[x], r}

TableOK(x) == NoRequestOf(x) \/ OneRequestOf(x) \/ TwoRequestsOf(x)

TablesOK ==
    /\ responses \subseteq Request
    /\ DOMAIN currentResponses = Remote /\ DOMAIN queuedResponses = Remote
    /\ currentResponses = [x \in Remote |-> currentResponses[x]]
    /\ queuedResponses = [x \in Remote |-> queuedResponses[x]]
    /\ \A x \in Remote : TableOK(x)

-----------------------------------------------------------------------------
(* What of a queue of at most one entry is left.                           *)
LEMMA DequeueEmpty ==
    ASSUME NEW R
    PROVE  Dequeue(<<>>, R) = <<>>
BY DEF Dequeue

LEMMA DequeueOther ==
    ASSUME NEW R, NEW r, r \notin R
    PROVE  Dequeue(<<r>>, R) = <<r>>
BY DEF Dequeue

LEMMA DequeueOnly ==
    ASSUME NEW R, NEW r \in R
    PROVE  Dequeue(<<r>>, R) = <<>>
<1>1. DOMAIN <<r>> = {1} /\ <<r>>[1] = r
  OBVIOUS
<1>2. {i \in DOMAIN <<r>> : <<r>>[i] \in R} = {1}
  BY <1>1
<1>3. (CHOOSE i \in {1} : \A j \in {1} : i <= j) = 1
  OBVIOUS
<1>4. Dequeue(<<r>>, R) = SubSeq(<<r>>, 1, 0)
  BY <1>2, <1>3 DEF Dequeue
<1> QED
  BY <1>4

(* Responses leave, at most one of each remote: its next one takes over.   *)
LEMMA RemovalKeeps ==
    ASSUME TablesOK, NEW S, NEW counter, NEW on, NEW calls,
           \A r, s \in S \cap responses : remoteOf[r] = remoteOf[s] => r = s,
           RemoveResponses(S, counter, on, calls)
    PROVE  TablesOK'
<1> DEFINE R        == S \cap responses
           left(x)  == IF Of(R, x) = {} THEN queuedResponses[x] ELSE Dequeue(queuedResponses[x], R)
           starting == {x \in Remote : Of(R, x) # {} /\ left(x) # <<>>}
<1>1. /\ responses' = responses \ R
      /\ queuedResponses' = [x \in Remote |-> IF x \in starting THEN Tail(left(x)) ELSE left(x)]
      /\ currentResponses' =
           [x \in Remote |-> IF x \in starting THEN Head(left(x)) ELSE StillCurrent(x, R)]
  BY DEF RemoveResponses
<1>2. ASSUME NEW x \in Remote
      PROVE  TableOK(x)'
  <2>1. /\ Of(R, x) = Of(responses, x) \cap S
        /\ Of(responses', x) = Of(responses, x) \ S
        /\ Of(responses, x) \subseteq responses
    BY <1>1 DEF Of
  <2>2. \A r, s \in Of(R, x) : r = s
    BY DEF Of
  <2>3. TableOK(x)
    BY DEF TablesOK
  <2>4. /\ queuedResponses'[x] = IF x \in starting THEN Tail(left(x)) ELSE left(x)
        /\ currentResponses'[x] = IF x \in starting THEN Head(left(x)) ELSE StillCurrent(x, R)
        /\ StillCurrent(x, R) = IF currentResponses[x] \in R THEN None ELSE currentResponses[x]
    BY <1>1 DEF StillCurrent
  <2>5. CASE Of(R, x) = {}
    <3>1. x \notin starting /\ left(x) = queuedResponses[x] /\ Of(responses', x) = Of(responses, x)
      BY <2>1, <2>5
    <3>2. currentResponses[x] \notin R
      <4>1. currentResponses[x] \in Of(responses, x) \cup {None} /\ None \notin responses
        BY <2>3 DEF TableOK, NoRequestOf, OneRequestOf, TwoRequestsOf, TablesOK
      <4> QED
        BY <2>1, <2>5, <4>1
    <3>3. queuedResponses'[x] = queuedResponses[x] /\ currentResponses'[x] = currentResponses[x]
      BY <2>4, <3>1, <3>2
    <3> HIDE DEF R, left, starting
    <3> QED
      BY <2>3, <3>1, <3>3 DEF TableOK, NoRequestOf, OneRequestOf, TwoRequestsOf
  <2>6. CASE Of(R, x) # {} /\ OneRequestOf(x)
    <3>0. Of(responses, x) = {currentResponses[x]}
      BY <2>6 DEF OneRequestOf
    <3>1. Of(responses', x) = {} /\ currentResponses[x] \in R
      <4> HIDE DEF R
      <4>1. currentResponses[x] \in Of(R, x) /\ currentResponses[x] \in S
        BY <2>1, <2>6, <3>0
      <4>2. currentResponses[x] \in R
        BY <4>1 DEF Of
      <4> QED
        BY <2>1, <3>0, <4>1, <4>2
    <3>2. left(x) = <<>> /\ x \notin starting
      BY <2>6, DequeueEmpty DEF OneRequestOf
    <3>3. queuedResponses'[x] = <<>> /\ currentResponses'[x] = None
      BY <2>4, <3>1, <3>2
    <3> QED
      BY <3>1, <3>3 DEF TableOK, NoRequestOf
  <2>7. CASE Of(R, x) # {} /\ TwoRequestsOf(x)
    <3>1. PICK r \in Request \ {currentResponses[x]} :
            queuedResponses[x] = <<r>> /\ Of(responses, x) = {currentResponses[x], r}
      BY <2>7 DEF TwoRequestsOf
    <3>2. currentResponses[x] \in Request /\ left(x) = Dequeue(<<r>>, R)
      BY <2>7, <3>1 DEF TwoRequestsOf
    <3>3. CASE r \in S
      <4>1. /\ r \in R /\ currentResponses[x] \notin R
            /\ Of(responses', x) = {currentResponses[x]}
        <5> HIDE DEF R
        <5>1. r \in Of(R, x)
          BY <2>1, <3>1, <3>3
        <5>2. currentResponses[x] \notin S
          BY <2>1, <2>2, <3>1, <5>1
        <5>3. currentResponses[x] \notin R /\ r \in R
          BY <5>1, <5>2 DEF Of, R
        <5> QED
          BY <2>1, <3>1, <3>3, <5>2, <5>3
      <4>2. left(x) = <<>> /\ x \notin starting
        <5>1. Dequeue(<<r>>, R) = <<>>
          <6> HIDE DEF R
          <6> QED
            BY <4>1, DequeueOnly
        <5>2. left(x) = <<>>
          <6> HIDE DEF R, left
          <6> QED
            BY <3>2, <5>1
        <5> QED
          BY <5>2
      <4>3. queuedResponses'[x] = <<>> /\ currentResponses'[x] = currentResponses[x]
        BY <2>4, <4>1, <4>2
      <4> QED
        BY <3>2, <4>1, <4>3 DEF TableOK, OneRequestOf
    <3>4. CASE r \notin S
      <4>1. /\ r \notin R /\ currentResponses[x] \in R
            /\ Of(responses', x) = {r}
        <5> HIDE DEF R
        <5>1. currentResponses[x] \in S
          BY <2>1, <2>7, <3>1, <3>4
        <5>2. currentResponses[x] \in Of(R, x)
          BY <2>1, <3>1, <5>1
        <5>3. currentResponses[x] \in R /\ r \notin R
          BY <2>1, <3>1, <3>4, <5>2 DEF Of, R
        <5> QED
          BY <2>1, <3>1, <3>4, <5>1, <5>3
      <4>2. left(x) = <<r>>
        BY <3>2, <4>1, DequeueOther
      <4>3. <<r>> # <<>> /\ Head(<<r>>) = r /\ Tail(<<r>>) = <<>>
        OBVIOUS
      <4>4. x \in starting
        <5> HIDE DEF R, left
        <5> QED
          BY <2>7, <4>2, <4>3
      <4>5. queuedResponses'[x] = <<>> /\ currentResponses'[x] = r
        <5> HIDE DEF R, left, starting
        <5> QED
          BY <2>4, <4>2, <4>3, <4>4
      <4> QED
        BY <3>1, <4>1, <4>5 DEF TableOK, OneRequestOf
    <3> QED
      BY <3>3, <3>4
  <2>8. CASE Of(R, x) # {} /\ NoRequestOf(x)
    BY <2>1, <2>8 DEF NoRequestOf
  <2> QED
    BY <2>3, <2>5, <2>6, <2>7, <2>8 DEF TableOK
<1> QED
  BY <1>1, <1>2 DEF TablesOK

LEMMA PairSize ==
    ASSUME NEW T, NEW c, NEW q, T = {c, q}
    PROVE  IsFiniteSet(T) /\ (c # q => Cardinality(T) = 2)
<1> DEFINE C == {c}
<1>1. IsFiniteSet(C) /\ Cardinality(C) = 1
  BY FS_Singleton
<1>2. T = C \cup {q} /\ (q \in C <=> c = q)
  OBVIOUS
<1> HIDE DEF C
<1>3. /\ IsFiniteSet(C \cup {q})
      /\ Cardinality(C \cup {q}) = IF q \in C THEN Cardinality(C) ELSE Cardinality(C) + 1
  BY <1>1, FS_AddElement
<1>4. IsFiniteSet(T)
  BY <1>2, <1>3, Zenon
<1>5. Cardinality(T) = Cardinality(C \cup {q})
  BY <1>2, Zenon
<1>6. c # q => Cardinality(T) = 2
  BY <1>1, <1>2, <1>3, <1>5
<1> QED
  BY <1>4, <1>6

(* A request that is taken in is served at once, or waits for the only     *)
(* other one of its remote.                                                *)
LEMMA RequestKeeps ==
    ASSUME MaxOutstanding <= 2, TablesOK, NEW r \in Request, OnReceivingRequest(r), r \notin responses
    PROVE  TablesOK'
<1> DEFINE y == remoteOf[r]
<1>1. y \in Remote /\ responses' = responses \cup {r} /\ TableOK(y)
  BY DEF OnReceivingRequest, TablesOK
<1>2. Cardinality(Of(responses, y)) < 2
  <2>1. Cardinality(Of(responses, y)) < MaxOutstanding
    BY DEF OnReceivingRequest
  <2>2. Cardinality(Of(responses, y)) \in Nat
    <3>1. IsFiniteSet(Of(responses, y))
      <4>1. CASE Of(responses, y) = {}
        BY <4>1, FS_EmptySet
      <4>2. CASE \E c, q : Of(responses, y) = {c, q}
        <5>1. PICK c, q : Of(responses, y) = {c, q}
          BY <4>2
        <5>2. IsFiniteSet({c, q})
          BY PairSize
        <5> QED
          BY ONLY <5>1, <5>2
      <4>3. CASE NoRequestOf(y)
        BY ONLY <4>1, <4>3 DEF NoRequestOf
      <4>4. CASE OneRequestOf(y)
        <5>1. Of(responses, y) = {currentResponses[y], currentResponses[y]}
          BY ONLY <4>4 DEF OneRequestOf
        <5> QED
          BY ONLY <4>2, <5>1
      <4>5. CASE TwoRequestsOf(y)
        BY ONLY <4>2, <4>5 DEF TwoRequestsOf
      <4> QED
        BY ONLY <1>1, <4>3, <4>4, <4>5 DEF TableOK
    <3> QED
      BY <3>1, FS_CardinalityType
  <2> QED
    BY <2>1, <2>2
<1>3. ~TwoRequestsOf(y)
  <2> SUFFICES ASSUME TwoRequestsOf(y)
               PROVE  FALSE
    OBVIOUS
  <2>1. PICK q \in Request \ {currentResponses[y]} : Of(responses, y) = {currentResponses[y], q}
    BY DEF TwoRequestsOf
  <2>2. Cardinality(Of(responses, y)) = 2
    <3>1. currentResponses[y] # q
      OBVIOUS
    <3> HIDE DEF y
    <3> QED
      BY <2>1, <3>1, PairSize
  <2> QED
    BY <1>2, <2>2
<1>4. /\ Of(responses', y) = Of(responses, y) \cup {r}
      /\ \A x \in Remote \ {y} : Of(responses', x) = Of(responses, x)
  BY <1>1 DEF Of, TablesOK
<1>5. CASE NoRequestOf(y)
  <2>1. StartsNow(r)
    BY <1>5 DEF NoRequestOf, StartsNow
  <2>2. queuedResponses' = queuedResponses /\ currentResponses' = [currentResponses EXCEPT ![y] = r]
    BY <2>1 DEF OnReceivingRequest
  <2>3. OneRequestOf(y)'
    BY <1>1, <1>4, <1>5, <2>2 DEF NoRequestOf, OneRequestOf, TablesOK
  <2>4. ASSUME NEW x \in Remote, x # y PROVE TableOK(x)'
    BY <1>4, <2>2, <2>4 DEF TablesOK, TableOK, NoRequestOf, OneRequestOf, TwoRequestsOf
  <2> QED
    BY <1>1, <2>2, <2>3, <2>4 DEF TablesOK, TableOK
<1>6. CASE OneRequestOf(y)
  <2>1. ~StartsNow(r)
    BY <1>6 DEF OneRequestOf, StartsNow
  <2>2. /\ currentResponses' = currentResponses
        /\ queuedResponses' = [queuedResponses EXCEPT ![y] = Append(@, r)]
    BY <2>1 DEF OnReceivingRequest
  <2>3. queuedResponses'[y] = <<r>> /\ r # currentResponses[y]
    BY <1>1, <1>6, <2>2 DEF OneRequestOf, TablesOK, Of
  <2>4. TwoRequestsOf(y)'
    BY <1>4, <1>6, <2>2, <2>3 DEF OneRequestOf, TwoRequestsOf
  <2>5. ASSUME NEW x \in Remote, x # y PROVE TableOK(x)'
    BY <1>4, <2>2, <2>5 DEF TablesOK, TableOK, NoRequestOf, OneRequestOf, TwoRequestsOf
  <2> QED
    BY <1>1, <2>2, <2>4, <2>5 DEF TablesOK, TableOK
<1> QED
  BY <1>1, <1>3, <1>5, <1>6 DEF TableOK

-----------------------------------------------------------------------------
ProviderInv == TablesOK /\ responses \subseteq seen

LEMMA InitEstablishes == Init => ProviderInv
<1> SUFFICES ASSUME Init
             PROVE  ProviderInv
  OBVIOUS
<1>1. \A x \in Remote : NoRequestOf(x)
  BY DEF Init, NoRequestOf, Of
<1> QED
  BY <1>1 DEF Init, ProviderInv, TablesOK, TableOK

LEMMA StepPreserves ==
    ASSUME MaxOutstanding <= 2, ProviderInv, [Next]_vars
    PROVE  ProviderInv'
<1>1. TablesOK /\ responses \subseteq seen /\ responses \subseteq Request
  BY DEF ProviderInv, TablesOK
<1>2. ASSUME UNCHANGED <<responses, currentResponses, queuedResponses>>, seen \subseteq seen'
      PROVE  ProviderInv'
  BY <1>1, <1>2 DEF ProviderInv, TablesOK, TableOK, NoRequestOf, OneRequestOf, TwoRequestsOf
<1>3. ASSUME NEW S, NEW counter, NEW on, NEW calls, RemoveResponses(S, counter, on, calls),
             \A r, s \in S \cap responses : remoteOf[r] = remoteOf[s] => r = s, UNCHANGED seen
      PROVE  ProviderInv'
  <2>1. TablesOK'
    BY <1>1, <1>3, RemovalKeeps
  <2>2. responses' \subseteq responses
    BY <1>3 DEF RemoveResponses
  <2> QED
    BY <1>1, <1>3, <2>1, <2>2 DEF ProviderInv
<1>4. ASSUME NEW r \in Request, OnReceivingRequest(r)
      PROVE  ProviderInv'
  <2>1. r \notin responses
    BY <1>1, <1>4 DEF OnReceivingRequest
  <2>2. TablesOK'
    BY <1>1, <1>4, <2>1, RequestKeeps
  <2> QED
    BY <1>1, <1>4, <2>2 DEF ProviderInv, OnReceivingRequest
<1>5. ASSUME NEW r \in Request, OnReceivingBadRequest(r)
      PROVE  ProviderInv'
  BY <1>2, <1>5 DEF OnReceivingBadRequest, tables
<1>6. ASSUME NEW r \in Request, OnReceivingRequestCancellation(r)
      PROVE  ProviderInv'
  BY <1>3, <1>6 DEF OnReceivingRequestCancellation
<1>7. ASSUME NEW r \in Request, RejectRequest(r) \/ SendEmptyResponse(r)
      PROVE  ProviderInv'
  BY <1>3, <1>7 DEF RejectRequest, SendEmptyResponse
<1>8. ASSUME NEW r \in Request, NEW n \in 1 .. MaxLiterals, PackLiterals(r, n)
      PROVE  ProviderInv'
  BY <1>2, <1>8 DEF PackLiterals, tables
<1>9. ASSUME NEW r \in Request, StartStreamingResponse(r)
      PROVE  ProviderInv'
  <2>1. PICK n \in BatchOf(r) :
          RemoveResponses(IF n = literalsToSend[r] THEN {r} ELSE {},
                          streamingResponses + 1, TRUE, pending \ {r})
    BY <1>9 DEF StartStreamingResponse
  <2> DEFINE S == IF n = literalsToSend[r] THEN {r} ELSE {}
  <2>2. UNCHANGED seen
    BY <1>9 DEF StartStreamingResponse
  <2>3. \A p, s \in S \cap responses : remoteOf[p] = remoteOf[s] => p = s
    OBVIOUS
  <2>4. RemoveResponses(S, streamingResponses + 1, TRUE, pending \ {r})
    BY <2>1
  <2> HIDE DEF S
  <2> QED
    BY <1>3, <2>2, <2>3, <2>4
<1>10. ASSUME ContinueStreamingResponses
       PROVE  ProviderInv'
  <2>1. PICK idx \in [Streaming -> 0 .. MaxLiterals] :
          RemoveResponses({r \in Streaming \ pending : idx[r] = literalsToSend[r]},
                          streamingResponses, timer, pending)
    BY <1>10 DEF ContinueStreamingResponses
  <2>2. UNCHANGED seen
    BY <1>10 DEF ContinueStreamingResponses
  <2>3. \A r, s \in Streaming : remoteOf[r] = remoteOf[s] => r = s
    BY DEF Streaming
  <2> QED
    BY <1>3, <2>1, <2>2, <2>3
<1>11. ASSUME Shutdown
       PROVE  ProviderInv'
  BY <1>2, <1>11 DEF Shutdown, tables
<1>12. ASSUME UNCHANGED vars
       PROVE  ProviderInv'
  BY <1>2, <1>12 DEF vars, tables
<1> QED
  BY <1>4, <1>5, <1>6, <1>7, <1>8, <1>9, <1>10, <1>11, <1>12 DEF Next

LEMMA TablesAgree ==
    ASSUME TablesOK
    PROVE  ServedOrQueued
<1>1. ASSUME NEW x \in Remote
      PROVE  /\ \A r \in Of(responses, x) : (r = currentResponses[x]) # (r \in Queued(x))
             /\ currentResponses[x] \in responses \cup {None}
             /\ Queued(x) \subseteq responses
             /\ IsInjective(queuedResponses[x])
  <2>1. Of(responses, x) \subseteq responses /\ None \notin responses
    BY DEF Of, TablesOK
  <2>2. CASE queuedResponses[x] = <<>> /\ (NoRequestOf(x) \/ OneRequestOf(x))
    <3>1. Queued(x) = {} /\ IsInjective(queuedResponses[x])
      BY <2>2 DEF Queued, ToSet, IsInjective
    <3> QED
      BY <2>1, <2>2, <3>1 DEF NoRequestOf, OneRequestOf
  <2>3. CASE TwoRequestsOf(x)
    <3>1. PICK r \in Request \ {currentResponses[x]} :
            queuedResponses[x] = <<r>> /\ Of(responses, x) = {currentResponses[x], r}
      BY <2>3 DEF TwoRequestsOf
    <3>2. DOMAIN <<r>> = {1} /\ <<r>>[1] = r
      OBVIOUS
    <3>3. Queued(x) = {r} /\ IsInjective(queuedResponses[x])
      BY <3>1, <3>2 DEF Queued, ToSet, IsInjective
    <3> QED
      BY <2>1, <3>1, <3>3
  <2> QED
    BY <2>2, <2>3 DEF TablesOK, TableOK, NoRequestOf, OneRequestOf
<1>2. \A r \in responses : remoteOf[r] \in Remote /\ r \in Of(responses, remoteOf[r])
  BY DEF TablesOK, Of
<1> QED
  BY <1>1, <1>2 DEF ServedOrQueued

(* With at most two unanswered requests a remote, a response in the map is *)
(* the current one of its remote or waits in its queue, once, whatever is  *)
(* cancelled, rejected or completed meanwhile: none is forgotten.          *)
THEOREM NoneIsForgotten ==
    ASSUME MaxOutstanding <= 2
    PROVE  Spec => []ServedOrQueued
<1>1. ProviderInv /\ [Next]_vars => ProviderInv'
  BY StepPreserves
<1>2. ProviderInv => ServedOrQueued
  BY TablesAgree DEF ProviderInv
<1> QED
  BY <1>1, <1>2, InitEstablishes, PTL DEF Spec
-----------------------------------------------------------------------------
(* The fragments.                                                          *)
USE HeaderAssumption

(* An empty fragment has empty indexes.                                    *)
LEMMA FragmentStarts == FragmentInit => IndInv
BY DEF FragmentInit, IndInv, FragmentTypeOK, LookupIndexesExact, FrontierExact,
       PruneKeepsTerminals, NextIn, TerminalOf, MissingOf, RootsOf,
       HeadersForOp

(* What add() does to the contents, seen from the successor relation: only *)
(* the predecessors of the new header gain a successor.                    *)
LEMMA NextInAdd ==
    ASSUME NEW S \in SUBSET Header, NEW h \in Header, NEW p \in Header
    PROVE  NextIn(S \cup {h}, p) =
             IF p \in prevOf[h] THEN NextIn(S, p) \cup {h} ELSE NextIn(S, p)
BY DEF NextIn

(* Likewise for remove().                                                  *)
LEMMA NextInRemove ==
    ASSUME NEW S \in SUBSET Header, NEW h \in Header, NEW p \in Header
    PROVE  NextIn(S \ {h}, p) =
             IF p \in prevOf[h] THEN NextIn(S, p) \ {h} ELSE NextIn(S, p)
BY DEF NextIn

(* The body of remove() keeps every index exact.                           *)
LEMMA RemoveHeaderExact ==
    ASSUME IndInv, NEW h \in contents, RemoveHeader(h)
    PROVE  /\ contents' \subseteq Header
           /\ opHeadersForOp' \in [Op -> SUBSET Header]
           /\ nextOpHeaders' \in [Header -> SUBSET Header]
           /\ LookupIndexesExact'
           /\ FrontierExact'
<1> USE DEF IndInv, FragmentTypeOK
<1>1. h \in Header /\ contents' = contents \ {h} /\ contents' \subseteq Header
  BY DEF RemoveHeader
<1>2. nextOpHeaders' \in [Header -> SUBSET Header]
  BY DEF RemoveHeader, NextAfterRemove
<1>3. \A p \in Header : nextOpHeaders'[p] = NextIn(contents', p)
  <2> SUFFICES ASSUME NEW p \in Header
               PROVE  nextOpHeaders'[p] = NextIn(contents', p)
    OBVIOUS
  <2>1. nextOpHeaders'[p] = IF p \in prevOf[h] THEN nextOpHeaders[p] \ {h}
                                               ELSE nextOpHeaders[p]
    BY DEF RemoveHeader, NextAfterRemove
  <2>2. nextOpHeaders[p] = NextIn(contents, p)
    BY DEF LookupIndexesExact
  <2> QED
    BY <1>1, <2>1, <2>2 DEF NextIn
<1>4. opHeadersForOp' \in [Op -> SUBSET Header]
  BY <1>1 DEF RemoveHeader
<1>5. \A o \in Op : opHeadersForOp'[o] = HeadersForOp(contents', o)
  BY <1>1 DEF RemoveHeader, LookupIndexesExact, HeadersForOp
<1>6. roots' = RootsOf(contents')
  BY <1>1 DEF RemoveHeader, LookupIndexesExact, RootsOf
<1>7. \A p \in Header : p \in Unfollowed(h)
                          <=> p \in prevOf[h] /\ NextIn(contents', p) = {}
  BY <1>3 DEF Unfollowed, RemoveHeader
<1>8. \A p \in Header \ prevOf[h] : NextIn(contents', p) = NextIn(contents, p)
  BY <1>1, NextInRemove
<1>9. \A p \in prevOf[h] : NextIn(contents, p) # {}
  BY <1>1 DEF NextIn
<1>10. terminalOpHeaders' = TerminalOf(contents')
  <2>1. terminalOpHeaders' = (TerminalOf(contents) \ {h})
                               \cup (Unfollowed(h) \cap contents)
    BY DEF RemoveHeader, TerminalAfterRemove, FrontierExact
  <2>2. h \notin Unfollowed(h)
    BY <1>1, <1>7
  <2>3. Unfollowed(h) \subseteq Header
    BY <1>1 DEF Unfollowed
  <2> QED
    BY <1>1, <1>7, <1>8, <1>9, <2>1, <2>2, <2>3 DEF TerminalOf
<1>11. missingPrevOpHeaders' = MissingOf(contents')
  <2>1. missingPrevOpHeaders' =
          (IF NextIn(contents, h) # {} THEN MissingOf(contents) \cup {h}
                                       ELSE MissingOf(contents))
            \ (Unfollowed(h) \ contents)
    BY <1>1 DEF RemoveHeader, MissingAfterRemove, FrontierExact,
                LookupIndexesExact
  <2>2. NextIn(contents', h) = NextIn(contents, h)
    BY <1>1, <1>8
  <2>3. \A p \in Header : NextIn(contents', p) \subseteq NextIn(contents, p)
    BY <1>1 DEF NextIn
  <2> QED
    BY <1>1, <1>7, <1>8, <2>1, <2>2, <2>3 DEF MissingOf
<1> QED
  BY <1>1, <1>2, <1>3, <1>4, <1>5, <1>6, <1>10, <1>11
     DEF LookupIndexesExact, FrontierExact

(* add() keeps every index exact; this is the "lemma" in the comment above *)
(* class HistoryFragment, which looks at missingPrevOpHeaders instead of   *)
(* searching the contents for a successor of the new header.               *)
LEMMA AddExact ==
    ASSUME IndInv, NEW h \in Header, Add(h)
    PROVE  IndInv'
<1> USE DEF IndInv, FragmentTypeOK
<1>1. /\ contents' = contents \cup {h} /\ h \notin contents
      /\ contents' \subseteq Header
      /\ toRemove = {} /\ toRemove' = {}
  BY DEF Add
<1>2. /\ nextOpHeaders' \in [Header -> SUBSET Header]
      /\ \A p \in Header : nextOpHeaders'[p] = NextIn(contents', p)
  <2>1. nextOpHeaders' \in [Header -> SUBSET Header]
    BY <1>1 DEF Add
  <2> SUFFICES ASSUME NEW p \in Header
               PROVE  nextOpHeaders'[p] = NextIn(contents', p)
    BY <2>1
  <2>2. nextOpHeaders'[p] = IF p \in prevOf[h] THEN nextOpHeaders[p] \cup {h}
                                               ELSE nextOpHeaders[p]
    BY DEF Add
  <2>3. nextOpHeaders[p] = NextIn(contents, p)
    BY DEF LookupIndexesExact
  <2> QED
    BY <1>1, <2>2, <2>3 DEF NextIn
<1>3. /\ opHeadersForOp' \in [Op -> SUBSET Header]
      /\ \A o \in Op : opHeadersForOp'[o] = HeadersForOp(contents', o)
  BY <1>1 DEF Add, LookupIndexesExact, HeadersForOp
<1>4. roots' = RootsOf(contents')
  BY <1>1 DEF Add, RootsAfterAdd, LookupIndexesExact, RootsOf
<1>5. h \in missingPrevOpHeaders <=> NextIn(contents, h) # {}
  BY <1>1 DEF FrontierExact, MissingOf
<1>6. NextIn(contents', h) = NextIn(contents, h)
  BY <1>1, NextInAdd
<1>7. \A p \in Header \ prevOf[h] : NextIn(contents', p) = NextIn(contents, p)
  BY <1>1, NextInAdd
<1>8. \A p \in prevOf[h] : NextIn(contents', p) # {}
  BY <1>1 DEF NextIn
<1>9. terminalOpHeaders' = TerminalOf(contents')
  <2>1. terminalOpHeaders' =
          (TerminalOf(contents) \cup (IF NextIn(contents, h) = {} THEN {h} ELSE {}))
            \ (prevOf[h] \cap contents)
    BY <1>5 DEF Add, TerminalAfterAdd, NewPrevs, FrontierExact
  <2> QED
    BY <1>1, <1>6, <1>7, <1>8, <2>1 DEF TerminalOf
<1>10. missingPrevOpHeaders' = MissingOf(contents')
  BY <1>1, <1>6, <1>7, <1>8
     DEF Add, MissingAfterAdd, NewPrevs, FrontierExact, MissingOf
<1>11. roots' \subseteq Header /\ terminalOpHeaders' \subseteq Header
       /\ missingPrevOpHeaders' \subseteq Header
  BY <1>1, <1>4, <1>9, <1>10 DEF RootsOf, TerminalOf, MissingOf
<1>12. PruneKeepsTerminals'
  BY <1>1 DEF PruneKeepsTerminals
<1> QED
  BY <1>1, <1>2, <1>3, <1>4, <1>9, <1>10, <1>11, <1>12
     DEF LookupIndexesExact, FrontierExact

(* Every step of the fragment keeps IndInv.                                *)
LEMMA FragmentSteps == IndInv /\ [FragmentNext]_fragmentVars => IndInv'
<1> SUFFICES ASSUME IndInv, [FragmentNext]_fragmentVars PROVE IndInv'
  OBVIOUS
<1>1. ASSUME NEW h \in Header, Add(h) PROVE IndInv'
  BY <1>1, AddExact
<1>2. ASSUME NEW h \in contents, RemoveHeader(h), toRemove' = toRemove \ {h}
      PROVE  IndInv'
  <2>1. /\ contents' \subseteq Header
        /\ opHeadersForOp' \in [Op -> SUBSET Header]
        /\ nextOpHeaders' \in [Header -> SUBSET Header]
        /\ LookupIndexesExact'
        /\ FrontierExact'
    BY <1>2, RemoveHeaderExact
  <2>2. /\ roots' \subseteq Header /\ terminalOpHeaders' \subseteq Header
        /\ missingPrevOpHeaders' \subseteq Header
    BY <2>1 DEF LookupIndexesExact, FrontierExact, RootsOf, TerminalOf, MissingOf
  <2>3. contents' = contents \ {h}
    BY <1>2 DEF RemoveHeader
  <2>4. PruneKeepsTerminals'
    BY <1>2, <2>3 DEF IndInv, PruneKeepsTerminals, NextIn
  <2> QED
    BY <1>2, <2>1, <2>2, <2>4 DEF IndInv, FragmentTypeOK
<1>3. ASSUME NEW h \in Header, RemoveOpHeader(h) PROVE IndInv'
  BY <1>2, <1>3 DEF RemoveOpHeader
<1>4. ASSUME NEW h \in Header, RemoveNonTerminalOp(h) PROVE IndInv'
  BY <1>2, <1>4 DEF RemoveNonTerminalOp, IndInv, PruneKeepsTerminals
<1>5. CASE StartRemoveNonTerminalOps
  BY <1>5 DEF StartRemoveNonTerminalOps, NonTerminals, indexes, IndInv, FragmentTypeOK,
     LookupIndexesExact, FrontierExact, PruneKeepsTerminals, TerminalOf,
     NextIn, MissingOf, RootsOf, HeadersForOp
<1>6. CASE UNCHANGED fragmentVars
  BY <1>6 DEF fragmentVars, indexes, IndInv, FragmentTypeOK, LookupIndexesExact, FrontierExact,
     PruneKeepsTerminals, TerminalOf, NextIn, MissingOf, RootsOf, HeadersForOp
<1> QED
  BY <1>1, <1>3, <1>4, <1>5, <1>6 DEF FragmentNext

(* IndInv is an invariant of a fragment over any set of headers.           *)
THEOREM FragmentInvariant == FragmentSpec => []IndInv
BY FragmentStarts, FragmentSteps, PTL DEF FragmentSpec

(* The indexes always have the type the code declares for them.            *)
THEOREM FragmentTypes == FragmentSpec => []FragmentTypeOK
BY FragmentInvariant, PTL DEF IndInv

(* terminalOpHeaders and missingPrevOpHeaders, which add() and remove()    *)
(* only ever patch, are the two frontiers of the contents.                 *)
THEOREM FragmentFrontier == FragmentSpec => []FrontierExact
BY FragmentInvariant, PTL DEF IndInv

(* nextOpHeaders, opHeadersForOp and roots are those of the contents.      *)
THEOREM FragmentLookups == FragmentSpec => []LookupIndexesExact
BY FragmentInvariant, PTL DEF IndInv

(* removeNonTerminalOps() ends with exactly the terminal ops.              *)
THEOREM FragmentPrune == FragmentSpec => PruneEndsAtState
<1>1. IndInv /\ [FragmentNext]_fragmentVars /\ IndInv'
        => [toRemove # {} /\ toRemove' = {} => terminalOpHeaders' = contents']_fragmentVars
  <2> SUFFICES ASSUME IndInv, IndInv', FragmentNext, toRemove # {}, toRemove' = {}
               PROVE  terminalOpHeaders' = contents'
    BY DEF fragmentVars
  <2>1. PICK h \in toRemove : /\ RemoveHeader(h) /\ toRemove' = toRemove \ {h}
    BY DEF FragmentNext, Add, RemoveOpHeader, RemoveNonTerminalOp, StartRemoveNonTerminalOps
  <2>2. contents' = contents \ {h} /\ toRemove = {h}
    BY <2>1 DEF RemoveHeader
  <2>3. \A x \in contents' : NextIn(contents', x) = {}
    BY <2>2 DEF IndInv, PruneKeepsTerminals, NextIn
  <2> QED
    BY <2>3 DEF IndInv, FrontierExact, TerminalOf
<1> QED
  BY <1>1, FragmentInvariant, PTL DEF FragmentSpec, PruneEndsAtState
=============================================================================
