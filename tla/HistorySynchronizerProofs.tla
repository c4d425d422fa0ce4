---------------------- MODULE HistorySynchronizerProofs ----------------------
(***************************************************************************)
(* The synchronizer implements Replication, for every history, any number  *)
(* of remotes and requests, and every limit: no interleaving of requests,  *)
(* answers, failures and callbacks saves an op before those it follows.    *)
(*                                                                         *)
(* The argument follows one request.  The ops it asks for follow from the  *)
(* store and from one another; so do those of a response that passes; and  *)
(* they are saved in order, so that of the ones that are before the next   *)
(* all are in the store.  None of this looks at the other requests: the    *)
(* store only grows, and nothing else that a request relies on changes.    *)
(*                                                                         *)
(* The rest is about the tables the requests are kept in, which agree with *)
(* them.                                                                   *)
(***************************************************************************)
EXTENDS HistorySynchronizer, FiniteSetTheorems, WellFoundedInduction, TLAPS

-----------------------------------------------------------------------------
(* Finite sets of naturals, taken in their order: headers are numbered in  *)
(* causal order.                                                           *)

(* What of S comes before h.                                               *)
Before(S, h) == {x \in S : x < h}

(* An element has fewer before it than those after it.                     *)
LEMMA ShorterBefore ==
    ASSUME NEW S, S \subseteq Nat, NEW x \in S, NEW h \in S, x < h
    PROVE  Before(S, x) \subseteq Before(S, h) /\ Before(S, x) # Before(S, h)
<1>1. x \in Before(S, h) /\ x \notin Before(S, x)
  BY DEF Before
<1>2. ASSUME NEW z \in Before(S, x) PROVE z \in Before(S, h)
  BY DEF Before
<1> QED
  BY <1>1, <1>2

(* A finite set of naturals has a first one.                               *)
LEMMA FirstOne ==
    ASSUME NEW S \in SUBSET Nat, IsFiniteSet(S), S # {}
    PROVE  \E x \in S : \A y \in S : x <= y
<1> DEFINE T == {Before(S, h) : h \in S}
           R == StrictSubsetOrdering(S)
<1>1. IsWellFoundedOn(R, FiniteSubsetsOf(S))
  BY FS_StrictSubsetOrderingWellFounded
<1>2. T \subseteq FiniteSubsetsOf(S) /\ T # {}
  <2>1. \A h \in S : Before(S, h) \subseteq S /\ IsFiniteSet(Before(S, h))
    BY FS_Subset DEF Before
  <2>2. \A h \in S : Before(S, h) \in FiniteSubsetsOf(S)
    BY <2>1 DEF FiniteSubsetsOf
  <2> QED
    BY <2>2
<1>3. PICK B \in T : \A C \in T : <<C, B>> \notin R
  <2> HIDE DEF T, R
  <2> QED
    BY <1>1, <1>2, WFMin
<1>4. PICK x \in S : B = Before(S, x)
  BY <1>3
<1>5. ASSUME NEW y \in S, y < x
      PROVE  FALSE
  <2>1. Before(S, y) \subseteq Before(S, x) /\ Before(S, y) # Before(S, x)
    BY <1>5, ShorterBefore
  <2>2. <<Before(S, y), B>> \in R
    BY <2>1, <1>4 DEF StrictSubsetOrdering, Before
  <2> QED
    BY <1>3, <2>2
<1> QED
  BY <1>5

(* In number, too.                                                         *)
LEMMA FewerBefore ==
    ASSUME NEW S \in SUBSET Nat, IsFiniteSet(S), NEW x \in S, NEW h \in S, x < h
    PROVE  Cardinality(Before(S, x)) < Cardinality(Before(S, h))
<1>1. Before(S, x) \subseteq Before(S, h) /\ Before(S, x) # Before(S, h)
  BY ShorterBefore
<1>2. IsFiniteSet(Before(S, h))
  BY FS_Subset DEF Before
<1> QED
  BY <1>1, <1>2, FS_Subset, FS_CardinalityType

(* The first one has none before it.                                       *)
LEMMA FirstHasNoneBefore ==
    ASSUME NEW S \in SUBSET Nat, IsFiniteSet(S), S # {}
    PROVE  \E h \in S : Cardinality(Before(S, h)) = 0
<1>1. PICK h \in S : \A y \in S : h <= y
  BY FirstOne
<1>2. \A y \in S : ~ (y < h)
  BY <1>1
<1>3. Before(S, h) = {}
  BY <1>2 DEF Before
<1> QED
  BY <1>3, FS_EmptySet

(* Unless an element is the last one, another has it and those before it   *)
(* before.                                                                 *)
LEMMA NextHasOneMore ==
    ASSUME NEW S \in SUBSET Nat, IsFiniteSet(S), NEW h \in S,
           Cardinality(Before(S, h)) + 1 # Cardinality(S)
    PROVE  \E y \in S : Cardinality(Before(S, y)) = Cardinality(Before(S, h)) + 1
<1> DEFINE T == {y \in S : h < y}
<1>1. IsFiniteSet(Before(S, h)) /\ h \notin Before(S, h)
  BY FS_Subset DEF Before
<1>2. Cardinality(Before(S, h) \cup {h}) = Cardinality(Before(S, h)) + 1
  BY <1>1, FS_AddElement
<1>3. T # {}
  <2>1. SUFFICES ASSUME T = {} PROVE FALSE
    OBVIOUS
  <2>2. ASSUME NEW z \in S PROVE z < h \/ z = h
    BY <2>1
  <2>3. S = Before(S, h) \cup {h}
    BY <2>2 DEF Before
  <2> QED
    BY <1>2, <2>3
<1>4. PICK y \in T : \A z \in T : y <= z
  <2>1. T \subseteq Nat /\ IsFiniteSet(T)
    BY FS_Subset
  <2> QED
    BY <1>3, <2>1, FirstOne
<1>5. Before(S, y) = Before(S, h) \cup {h}
  <2>1. y \in S /\ h < y
    BY <1>4
  <2>2. ASSUME NEW z \in S PROVE z < y <=> (z < h \/ z = h)
    BY <1>4, <2>1
  <2> QED
    BY <2>2 DEF Before
<1> QED
  BY <1>2, <1>4, <1>5

-----------------------------------------------------------------------------
(* What the invariant says of each request.                                *)

Unanswered(q) == q.status = "sent"
Received(q)   == q.status \in {"blocked", "processing", "accepted"}

(* The ops asked for follow from what is stored and from one another.      *)
AsksInOrder(q, stored) ==
    Unanswered(q) => \A h \in q.ops : prevOf[h] \subseteq stored \cup q.ops

(* So do the ops a response brings.                                        *)
BringsInOrder(q, stored) ==
    Received(q) => \A h \in q.sending : prevOf[h] \subseteq stored \cup q.sending

(* Nothing is saved before the response is processed.                      *)
BeginsAtFirst(q) == q.status \in {"sent", "blocked", "processing"} => q.next = 0

(* The next op is one of the response, and those before it are stored.     *)
SavesInOrder(q, stored) ==
    q.status = "accepted" =>
        /\ \E h \in q.sending : Cardinality(Before(q.sending, h)) = q.next
        /\ \A h \in q.sending : Cardinality(Before(q.sending, h)) < q.next => h \in stored

RequestOK(q, stored) ==
    /\ AsksInOrder(q, stored) /\ BringsInOrder(q, stored)
    /\ BeginsAtFirst(q) /\ SavesInOrder(q, stored)

RequestsOK == \A r \in Id : RequestOK(req[r], store)

USE SynchronizerAssumption

-----------------------------------------------------------------------------
(* The order of the ops of a response.                                     *)

LEMMA HeaderFacts ==
    /\ Header \subseteq Nat /\ IsFiniteSet(Header)
    /\ \A h \in Header : prevOf[h] \subseteq Header /\ \A p \in prevOf[h] : p < h
BY FS_Interval DEF Header

(* The next op is one op, and its place is within the headers.             *)
LEMMA NextOpIsOne ==
    ASSUME NEW q \in RequestInfo, NEW stored, SavesInOrder(q, stored), q.status = "accepted"
    PROVE  /\ NextOp(q) \in q.sending
           /\ \A h \in q.sending : Cardinality(Before(q.sending, h)) = q.next <=> h = NextOp(q)
           /\ q.next < N
<1> DEFINE S == q.sending
<1>1. S \in SUBSET Header /\ q.next \in Nat
  BY DEF RequestInfo
<1>2. S \subseteq Nat /\ IsFiniteSet(S)
  BY <1>1, HeaderFacts, FS_Subset
<1>3. PICK h \in S : Cardinality(Before(S, h)) = q.next
  BY DEF SavesInOrder
<1>4. NextOp(q) \in S /\ Cardinality(Before(S, NextOp(q))) = q.next
  BY <1>3 DEF NextOp, Before
<1>5. ASSUME NEW x \in S, Cardinality(Before(S, x)) = q.next
      PROVE  x = NextOp(q)
  <2>1. ~ (x < NextOp(q)) /\ ~ (NextOp(q) < x)
    BY <1>1, <1>2, <1>4, <1>5, FewerBefore
  <2> QED
    BY <1>2, <1>4, <2>1
<1>6. q.next < Cardinality(S)
  <2>1. Before(S, h) \subseteq S /\ h \in S /\ h \notin Before(S, h)
    BY <1>2 DEF Before
  <2>2. Cardinality(Before(S, h)) < Cardinality(S)
    BY <1>2, <2>1, FS_Subset, FS_CardinalityType
  <2> QED
    BY <1>3, <2>2
<1>7. Cardinality(S) <= N
  <2>1. IsFiniteSet(Header) /\ Cardinality(Header) = N
    BY FS_Interval DEF Header
  <2>2. Cardinality(S) <= Cardinality(Header)
    BY <1>1, <2>1, FS_Subset
  <2> QED
    BY <2>1, <2>2
<1>8. Cardinality(S) \in Nat
  BY <1>2, FS_CardinalityType
<1> QED
  BY <1>1, <1>4, <1>5, <1>6, <1>7, <1>8

-----------------------------------------------------------------------------
(* A request on its own: what keeps it in order.                           *)

(* The store may grow under it.                                            *)
LEMMA StoreMayGrow ==
    ASSUME NEW q, NEW S, NEW T, S \subseteq T, RequestOK(q, S)
    PROVE  RequestOK(q, T)
<1>1. AsksInOrder(q, T)
  BY DEF RequestOK, AsksInOrder
<1>2. BringsInOrder(q, T)
  BY DEF RequestOK, BringsInOrder
<1>3. BeginsAtFirst(q) /\ SavesInOrder(q, T)
  BY DEF RequestOK, SavesInOrder
<1> QED
  BY <1>1, <1>2, <1>3 DEF RequestOK

LEMMA NewRequestType ==
    ASSUME NEW e \in Remote, NEW T \in SUBSET Header, NEW S \in SUBSET Header,
           NEW O \in SUBSET Header, NEW C \in SUBSET Header
    PROVE  NewRequest(e, T, S, O, C) \in RequestInfo
BY DEF NewRequest, RequestInfo, Status

(* An id that is not in use asks for nothing.                              *)
LEMMA NoRequestOK == NoRequest \in RequestInfo /\ \A S : RequestOK(NoRequest, S)
<1> DEFINE q == NewRequest(CHOOSE e \in Remote : TRUE, {}, {}, {}, {})
<1>1. (CHOOSE e \in Remote : TRUE) \in Remote
  OBVIOUS
<1>2. q \in RequestInfo
  BY <1>1, NewRequestType
<1>3. NoRequest = [q EXCEPT !.status = "none"]
  BY DEF NoRequest
<1> HIDE DEF q
<1>4. NoRequest \in RequestInfo /\ NoRequest.status = "none"
  BY <1>2, <1>3 DEF RequestInfo, Status
<1> QED
  BY <1>4 DEF RequestOK, AsksInOrder, BringsInOrder, BeginsAtFirst, SavesInOrder,
              Unanswered, Received

(* findOpsToRequest() starts from stored headers, and takes ops that follow *)
(* from them.                                                              *)
LEMMA NewRequestOK ==
    ASSUME NEW F, NEW O \in OpsToRequest(F), NEW e, NEW T, NEW S, NEW C
    PROVE  O \subseteq Header /\ RequestOK(NewRequest(e, T, S, O, C), store)
<1> DEFINE q == NewRequest(e, T, S, O, C)
<1>1. O \subseteq Header /\ \A h \in O : prevOf[h] \subseteq store \cup O
  BY DEF OpsToRequest, CausalClosure, ClosureOf, StartsFrom
<1>2. q.ops = O /\ q.status = "sent" /\ q.next = 0
  BY DEF NewRequest
<1> HIDE DEF q
<1>3. RequestOK(q, store)
  BY <1>1, <1>2 DEF RequestOK, AsksInOrder, BringsInOrder, BeginsAtFirst, SavesInOrder, Received
<1> QED
  BY <1>1, <1>3 DEF q

(* Of the ops of an honest response that passes, each one follows from the *)
(* store and from the others: those that were asked for as they were asked *)
(* for, the rest because it is justified.                                  *)
LEMMA ResponseInOrder ==
    ASSUME NEW q \in RequestInfo, AsksInOrder(q, store), q.status = "sent",
           NEW H \in Histories(q), NEW W \in Sendings(q, H), Justified(q, W)
    PROVE  /\ H \subseteq Header /\ W \subseteq Header
           /\ \A h \in W : prevOf[h] \subseteq store \cup W
<1>1. q.ops \subseteq Header /\ q.terminal \subseteq Header
  BY DEF RequestInfo
<1>2. H \subseteq Header
  BY <1>1 DEF Histories, Past, Reached
<1>3. \A h \in q.ops : prevOf[h] \subseteq store \cup q.ops
  BY DEF AsksInOrder, Unanswered
<1> DEFINE extra == ClosureOf(H, q.current, Header)
<1>4. extra \subseteq Header
  BY DEF ClosureOf
<1> HIDE DEF extra
<1>5. CASE W = q.ops
  BY <1>1, <1>2, <1>3, <1>5
<1>6. CASE W = q.ops \cup extra
  <2>1. W \subseteq Header
    BY <1>1, <1>4, <1>6
  <2>2. ASSUME NEW h \in W \ q.ops, NEW p \in prevOf[h]
        PROVE  p \in store \cup W
    <3>1. p \in Header
      BY <2>1, HeaderFacts
    <3>2. p \in W \ q.ops \/ p \in Missing(W \ q.ops)
      BY <3>1, <2>2 DEF Missing
    <3> QED
      BY <3>2 DEF Justified
  <2> QED
    BY <1>2, <1>3, <1>6, <2>1, <2>2
<1>7. ASSUME NEW k \in q.ops, W = {h \in q.ops : h <= k}
      PROVE  W \subseteq Header /\ \A h \in W : prevOf[h] \subseteq store \cup W
  <2>1. ASSUME NEW h \in W, NEW p \in prevOf[h]
        PROVE  p \in store \cup W
    <3>1. p \in Nat /\ h \in Nat /\ k \in Nat /\ p < h /\ h <= k
      BY <1>1, <1>7, HeaderFacts
    <3>2. p \in store \cup q.ops
      BY <1>3, <1>7
    <3> QED
      BY <1>7, <3>1, <3>2
  <2> QED
    BY <1>1, <1>7, <2>1
<1> QED
  BY <1>2, <1>5, <1>6, <1>7 DEF Sendings, extra

-----------------------------------------------------------------------------
(* What the actions are made of.                                           *)

TablesOK ==
    /\ requests \subseteq Id
    /\ requestsForOp \in [Header -> SUBSET Id]
    /\ requestsForOpHistory \in [Header -> SUBSET Id]
    /\ requestsBlockedByOpHeader \in [Header -> SUBSET Id]
    /\ requestedOps \subseteq discovered
    /\ activeRequests \in [Remote -> SUBSET Id]

AttemptOK ==
    /\ newRequestsLock \in BOOLEAN /\ needToRetry \in BOOLEAN
    /\ attempt \in Attempt

LEMMA AttemptNewTypes ==
    ASSUME TypeOK, NEW w \in BOOLEAN, AttemptNewRequests(w)
    PROVE  AttemptOK'
BY Zenon DEF TypeOK, AttemptOK, AttemptNewRequests

LEMMA CleanupTypes ==
    ASSUME TypeOK, NEW R, CleanupRequests(R), discovered' = discovered
    PROVE  TablesOK'
<1>1. /\ requests' \subseteq Id /\ requestedOps' \subseteq discovered'
  BY DEF TypeOK, CleanupRequests
<1>2. requestsForOp' \in [Header -> SUBSET Id]
  BY DEF TypeOK, CleanupRequests
<1>3. requestsForOpHistory' \in [Header -> SUBSET Id]
  BY DEF TypeOK, CleanupRequests, Without
<1>4. requestsBlockedByOpHeader' \in [Header -> SUBSET Id]
  BY DEF TypeOK, CleanupRequests, Without
<1>5. activeRequests' \in [Remote -> SUBSET Id]
  BY DEF TypeOK, CleanupRequests
<1> QED
  BY <1>1, <1>2, <1>3, <1>4, <1>5 DEF TablesOK

(* The id of a new request is one that is free.                            *)
LEMMA FreeId ==
    ASSUME UnusedIds # {}
    PROVE  Min(UnusedIds) \in UnusedIds /\ UnusedIds \subseteq Id
<1>1. UnusedIds \subseteq Id
  BY DEF UnusedIds
<1>2. UnusedIds \in SUBSET Nat /\ IsFiniteSet(UnusedIds)
  <2>1. IsFiniteSet(Id) /\ Id \subseteq Nat
    BY FS_Interval DEF Id
  <2> QED
    BY <1>1, <2>1, FS_Subset
<1>3. \E x \in UnusedIds : \A y \in UnusedIds : x =< y
  BY <1>2, FirstOne
<1> QED
  BY <1>1, <1>3 DEF Min

(* A request that is sent is in order, and leaves the others alone.        *)
LEMMA SentInOrder ==
    ASSUME TypeOK, RequestsOK, NEW e \in Remote, NEW T \in SUBSET Header, NEW F,
           NEW O \in OpsToRequest(F), SendRequest(e, T, O),
           UNCHANGED <<stores, histories, requestsBlockedByOpHeader>>
    PROVE  TablesOK' /\ req' \in [Id -> RequestInfo] /\ RequestsOK'
<1> DEFINE r == Min(UnusedIds)
           S == IF T = {} THEN {} ELSE LocalState
           C == StartingOps(attempt.history[e])
           q == NewRequest(e, T, S, O, C)
<1>1. r \in Id
  BY FreeId DEF SendRequest
<1>2. O \subseteq Header /\ RequestOK(q, store)
  BY NewRequestOK
<1>3. S \subseteq Header /\ C \subseteq Header
  BY DEF TypeOK, LocalState, TerminalOf, StartingOps, Missing
<1>4. q \in RequestInfo
  BY <1>2, <1>3, NewRequestType
<1>5. req' = [req EXCEPT ![r] = q]
  BY DEF SendRequest
<1>6. /\ requests' = requests \cup {r} /\ requestedOps' = requestedOps \cup (O \cap discovered)
      /\ activeRequests' = [activeRequests EXCEPT ![e] = @ \cup {r}]
      /\ requestsForOp' = [h \in Header |-> IF h \in O THEN requestsForOp[h] \cup {r}
                                                        ELSE requestsForOp[h]]
      /\ requestsForOpHistory' = [h \in Header |-> IF h \in T
                THEN requestsForOpHistory[h] \cup {r} ELSE requestsForOpHistory[h]]
  BY DEF SendRequest
<1> HIDE DEF r, S, C, q
<1>7. TablesOK'
  BY <1>1, <1>6 DEF TablesOK, TypeOK, histories
<1>8. req' \in [Id -> RequestInfo] /\ RequestsOK'
  BY <1>1, <1>2, <1>4, <1>5 DEF TypeOK, RequestsOK, stores
<1> QED
  BY <1>7, <1>8

-----------------------------------------------------------------------------
(* The steps.                                                              *)

IndInv == TypeOK /\ RequestsOK /\ StoreCausallyClosed

LEMMA InitEstablishes == Init => IndInv
<1> SUFFICES ASSUME Init PROVE IndInv
  OBVIOUS
<1>1. req \in [Id -> RequestInfo] /\ RequestsOK
  BY NoRequestOK DEF Init, RequestsOK
<1>2. attempt \in Attempt
  BY DEF Init, NoAttempt, Attempt
<1>3. TypeOK
  <2>1. newRequestsLock \in BOOLEAN /\ needToRetry \in BOOLEAN
    BY Zenon DEF Init
  <2>2. TablesOK
    BY DEF Init, TablesOK
  <2>3. /\ store \subseteq Header /\ unmarked \subseteq store /\ discovered \subseteq Header
        /\ remoteState \in [Remote -> SUBSET Header]
        /\ gossiped \subseteq Remote \X States /\ failures \in 0 .. MaxFailures
    BY DEF Init
  <2> QED
    BY <1>1, <1>2, <2>1, <2>2, <2>3 DEF TypeOK, TablesOK
<1> QED
  BY <1>1, <1>3 DEF Init, IndInv, StoreCausallyClosed

(* The attempt loop: it changes requests only by sending one.              *)
LEMMA AttemptSteps ==
    ASSUME IndInv,
           \/ BeginAttempt \/ EndAttempt
           \/ \E e \in Remote : RequestFrom(e) \/ RequestFails(e) \/ RequestMore(e)
    PROVE  IndInv' /\ UNCHANGED store
<1> USE DEF IndInv
<1>1. CASE BeginAttempt
  <2>1. attempt' \in Attempt
    <3>1. /\ [e \in Remote |-> RemoteHistory(e)] \in [Remote -> SUBSET Header]
      BY DEF RemoteHistory, Reached
    <3>2. ToFetch \subseteq Header
      BY DEF ToFetch, Missing
    <3> QED
      BY <1>1, <3>1, <3>2 DEF BeginAttempt, Attempt
  <2>2. newRequestsLock' \in BOOLEAN /\ needToRetry' \in BOOLEAN
    BY <1>1 DEF BeginAttempt, TypeOK
  <2> QED
    BY <1>1, <2>1, <2>2 DEF BeginAttempt, TypeOK, RequestsOK, StoreCausallyClosed,
                            stores, histories, pendingTables
<1>2. CASE EndAttempt
  <2>1. attempt' \in Attempt
    BY <1>2 DEF EndAttempt, NoAttempt, Attempt
  <2>2. newRequestsLock' \in BOOLEAN /\ needToRetry' \in BOOLEAN
    BY <1>2, Zenon DEF EndAttempt, TypeOK, Releases
  <2> QED
    BY <1>2, <2>1, <2>2 DEF EndAttempt, TypeOK, RequestsOK, StoreCausallyClosed,
                            stores, histories, pendingTables
<1>3. ASSUME NEW e \in Remote, RequestFrom(e)
      PROVE  IndInv' /\ UNCHANGED store
  <2>1. PICK O \in OpsToRequest(attempt.history[e]) :
          IF attempt.terminal[e] = {} /\ O = {}
          THEN /\ attempt' = [attempt EXCEPT !.todo = @ \ {e}]
               /\ UNCHANGED <<req, requests, activeRequests, pendingTables>>
          ELSE /\ SendRequest(e, attempt.terminal[e], O)
               /\ attempt' = [attempt EXCEPT !.todo = @ \ {e},
                     !.more = IF Cardinality(requestedOps') < MaxPendingOps THEN {e} ELSE {}]
    BY <1>3 DEF RequestFrom
  <2>2. UNCHANGED <<stores, histories, requestsBlockedByOpHeader, newRequestsLock,
                    needToRetry, gossiped, failures>>
    BY <1>3 DEF RequestFrom
  <2>3. attempt.terminal[e] \subseteq Header /\ attempt' \in Attempt
    <3>1. attempt \in Attempt
      BY DEF TypeOK
    <3>2. attempt.terminal[e] \subseteq Header
      BY <3>1 DEF Attempt
    <3>3. CASE attempt' = [attempt EXCEPT !.todo = @ \ {e}]
      BY <3>1, <3>2, <3>3 DEF Attempt
    <3>4. ASSUME NEW M \in SUBSET Remote,
                 attempt' = [attempt EXCEPT !.todo = @ \ {e}, !.more = M]
          PROVE  attempt' \in Attempt
      BY <3>1, <3>4 DEF Attempt
    <3> DEFINE M == IF Cardinality(requestedOps') < MaxPendingOps THEN {e} ELSE {}
    <3>5. M \in SUBSET Remote
      OBVIOUS
    <3>6. \/ attempt' = [attempt EXCEPT !.todo = @ \ {e}]
          \/ attempt' = [attempt EXCEPT !.todo = @ \ {e}, !.more = M]
      BY <2>1
    <3> HIDE DEF M
    <3> QED
      BY <3>2, <3>3, <3>4, <3>5, <3>6
  <2>4. TablesOK' /\ req' \in [Id -> RequestInfo] /\ RequestsOK'
    <3>1. CASE SendRequest(e, attempt.terminal[e], O)
      BY <2>2, <2>3, <3>1, SentInOrder
    <3>2. CASE UNCHANGED <<req, requests, activeRequests, pendingTables>>
      BY <2>2, <3>2 DEF TypeOK, TablesOK, RequestsOK, pendingTables, stores, histories
    <3> QED
      BY <2>1, <3>1, <3>2
  <2> QED
    BY <2>2, <2>3, <2>4 DEF TypeOK, TablesOK, StoreCausallyClosed, stores, histories
<1>4. ASSUME NEW e \in Remote, RequestFails(e)
      PROVE  IndInv' /\ UNCHANGED store
  <2>1. attempt' \in Attempt
    BY <1>4 DEF RequestFails, TypeOK, Attempt
  <2>2. failures' \in 0 .. MaxFailures
    <3>1. failures \in 0 .. MaxFailures /\ failures < MaxFailures /\ failures' = failures + 1
      BY <1>4 DEF RequestFails, TypeOK
    <3> QED
      BY <3>1
  <2> QED
    BY <1>4, <2>1, <2>2 DEF RequestFails, TypeOK, RequestsOK, StoreCausallyClosed,
                            stores, histories, pendingTables
<1>5. ASSUME NEW e \in Remote, RequestMore(e)
      PROVE  IndInv' /\ UNCHANGED store
  <2>1. PICK O \in OpsToRequest(attempt.history[e]) :
          IF CanSendNewRequestTo(e) /\ O # {}
          THEN SendRequest(e, {}, O)
          ELSE UNCHANGED <<req, requests, activeRequests, pendingTables>>
    BY <1>5 DEF RequestMore
  <2>2. UNCHANGED <<stores, histories, requestsBlockedByOpHeader, newRequestsLock,
                    needToRetry, gossiped, failures>>
    BY <1>5 DEF RequestMore
  <2>3. attempt' \in Attempt
    BY <1>5 DEF RequestMore, TypeOK, Attempt
  <2>4. TablesOK' /\ req' \in [Id -> RequestInfo] /\ RequestsOK'
    <3>1. CASE SendRequest(e, {}, O)
      BY <2>2, <3>1, SentInOrder
    <3>2. CASE UNCHANGED <<req, requests, activeRequests, pendingTables>>
      BY <2>2, <3>2 DEF TypeOK, TablesOK, RequestsOK, pendingTables, stores, histories
    <3> QED
      BY <2>1, <3>1, <3>2
  <2> QED
    BY <2>2, <2>3, <2>4 DEF TypeOK, TablesOK, StoreCausallyClosed, stores, histories
<1> QED
  BY <1>1, <1>2, <1>3, <1>4, <1>5

(* News of a history asks for an attempt.                                  *)
LEMMA NewsSteps ==
    ASSUME IndInv, NEW e \in Remote, NEW S \in States, OnNewHistory(e, S)
    PROVE  IndInv' /\ UNCHANGED store
<1> USE DEF IndInv
<1>1. UNCHANGED <<stores, requests, req, pendingTables, requestsBlockedByOpHeader,
                  activeRequests, failures>>
  BY DEF OnNewHistory
<1>2. S \subseteq Header
  OBVIOUS
<1>3. discovered' \subseteq Header /\ discovered \subseteq discovered'
  BY <1>2 DEF OnNewHistory, TypeOK
<1>4. remoteState' \in [Remote -> SUBSET Header]
  BY <1>2 DEF OnNewHistory, TypeOK, TerminalOf
<1>5. gossiped' \subseteq Remote \X States
  BY DEF OnNewHistory, TypeOK
<1>6. AttemptOK'
  BY AttemptNewTypes DEF OnNewHistory
<1>7. TypeOK'
  BY <1>1, <1>3, <1>4, <1>5, <1>6 DEF TypeOK, AttemptOK, stores, pendingTables
<1> QED
  BY <1>1, <1>7 DEF RequestsOK, StoreCausallyClosed, stores

(* The responses, and what is done with them.                              *)
LEMMA ReceivingSteps ==
    ASSUME IndInv, NEW r \in Id, OnReceivingResponse(r)
    PROVE  IndInv' /\ UNCHANGED store
<1> USE DEF IndInv
<1> DEFINE q == req[r]
<1>1. UNCHANGED <<stores, histories, requests, pendingTables, activeRequests, attempts,
                  gossiped, failures>>
  BY DEF OnReceivingResponse
<1>2. q \in RequestInfo /\ q.status = "sent" /\ RequestOK(q, store)
  BY DEF TypeOK, RequestsOK, OnReceivingResponse
<1>3. PICK H \in Histories(q) : \E W \in Sendings(q, H) :
        /\ Justified(q, W)
        /\ req' = [req EXCEPT ![r].history = H, ![r].sending = W,
                              ![r].missing = MissingState(q),
                              ![r].status = IF MissingState(q) = {} THEN "processing"
                                                                    ELSE "blocked"]
  BY DEF OnReceivingResponse
<1>4. PICK W \in Sendings(q, H) :
        /\ Justified(q, W)
        /\ req' = [req EXCEPT ![r].history = H, ![r].sending = W,
                              ![r].missing = MissingState(q),
                              ![r].status = IF MissingState(q) = {} THEN "processing"
                                                                    ELSE "blocked"]
  BY <1>3
<1> DEFINE st == IF MissingState(q) = {} THEN "processing" ELSE "blocked"
           n  == [q EXCEPT !.history = H, !.sending = W, !.missing = MissingState(q),
                           !.status = st]
<1>5. /\ H \subseteq Header /\ W \subseteq Header
      /\ \A h \in W : prevOf[h] \subseteq store \cup W
  BY <1>2, <1>4, ResponseInOrder DEF RequestOK
<1>6. MissingState(q) \subseteq Header /\ st \in {"processing", "blocked"}
  BY <1>2 DEF MissingState, RequestInfo
<1>7. req' = [req EXCEPT ![r] = n]
  BY <1>2, <1>4 DEF TypeOK
<1>8. n \in RequestInfo
  BY <1>2, <1>5, <1>6 DEF RequestInfo, Status
<1>9. n.sending = W /\ n.status = st /\ n.next = 0
  BY <1>2 DEF RequestInfo, RequestOK, BeginsAtFirst
<1> HIDE DEF q, n, st
<1>10. RequestOK(n, store)
  BY <1>5, <1>6, <1>9 DEF RequestOK, AsksInOrder, BringsInOrder, BeginsAtFirst,
                          SavesInOrder, Unanswered
<1>11. req' \in [Id -> RequestInfo] /\ RequestsOK'
  BY <1>1, <1>7, <1>8, <1>10 DEF TypeOK, RequestsOK, stores
<1>12. requestsBlockedByOpHeader' \in [Header -> SUBSET Id]
  BY DEF OnReceivingResponse, TypeOK
<1> QED
  BY <1>1, <1>11, <1>12 DEF TypeOK, StoreCausallyClosed, stores, histories, pendingTables,
                            attempts

LEMMA CancellingSteps ==
    ASSUME IndInv, NEW r \in Id, OnReceivingUnjustifiedResponse(r)
    PROVE  IndInv' /\ UNCHANGED store
<1> USE DEF IndInv
<1>1. /\ UNCHANGED <<stores, histories, attempts, gossiped>>
      /\ CleanupRequests({r}) /\ req' = [req EXCEPT ![r] = NoRequest]
  BY DEF OnReceivingUnjustifiedResponse
<1>2. TablesOK'
  BY <1>1, CleanupTypes DEF histories
<1>3. req' \in [Id -> RequestInfo] /\ RequestsOK'
  BY <1>1, NoRequestOK DEF TypeOK, RequestsOK, stores
<1>4. failures' \in 0 .. MaxFailures
  <2>1. failures \in 0 .. MaxFailures /\ failures < MaxFailures /\ failures' = failures + 1
    BY DEF OnReceivingUnjustifiedResponse, TypeOK
  <2> QED
    BY <2>1
<1> QED
  BY <1>1, <1>2, <1>3, <1>4 DEF TypeOK, TablesOK, StoreCausallyClosed, stores, histories, attempts

LEMMA ProcessingSteps ==
    ASSUME IndInv, NEW r \in Id, ProcessResponse(r)
    PROVE  IndInv' /\ UNCHANGED store
<1> USE DEF IndInv
<1> DEFINE q     == req[r]
           freed == [h \in Header |-> IF h \in q.ops THEN requestsForOp[h] \ {r}
                                                      ELSE requestsForOp[h]]
           table == [h \in Header |-> IF h \in q.sending THEN freed[h] \cup {r} ELSE freed[h]]
           kept  == requestedOps \ {h \in q.ops \cap ImportHistory(r) : freed[h] = {}}
           done  == q.sending = {}
           over  == done \/ r \notin requests
           n     == [q EXCEPT !.status = "accepted"]
<1>1. q \in RequestInfo /\ q.status = "processing" /\ RequestOK(q, store)
  BY DEF TypeOK, RequestsOK, ProcessResponse
<1>2. /\ discovered' = ImportHistory(r)
      /\ requestsForOp' = table
      /\ requestedOps' = kept \cup (q.sending \cap ImportHistory(r))
      /\ requestsForOpHistory' = Without(requestsForOpHistory, {r})
      /\ req' = [req EXCEPT ![r] = IF over THEN NoRequest ELSE n]
      /\ requests' = IF done THEN requests \ {r} ELSE requests
      /\ activeRequests' = IF done THEN [activeRequests EXCEPT ![q.remote] = @ \ {r}]
                                   ELSE activeRequests
      /\ AttemptNewRequests(done)
      /\ UNCHANGED <<stores, remoteState, requestsBlockedByOpHeader, gossiped, failures>>
  BY DEF ProcessResponse
<1>3. q.sending \subseteq Header /\ q.history \subseteq Header /\ q.next = 0
      /\ \A h \in q.sending : prevOf[h] \subseteq store \cup q.sending
  BY <1>1 DEF RequestInfo, RequestOK, BeginsAtFirst, BringsInOrder, Received
<1>4. AttemptOK'
  <2>1. done \in BOOLEAN
    OBVIOUS
  <2> QED
    BY <1>2, <2>1, AttemptNewTypes
<1>5. discovered' \subseteq Header /\ discovered \subseteq discovered'
  BY <1>2, <1>3 DEF ImportHistory, TypeOK
<1>6. TablesOK'
  <2>1. requestsForOp' \in [Header -> SUBSET Id]
    <3>1. freed \in [Header -> SUBSET Id]
      BY DEF TypeOK
    <3> HIDE DEF freed
    <3> QED
      BY <1>2, <3>1
  <2>2. requestsForOpHistory' \in [Header -> SUBSET Id]
    BY <1>2 DEF Without, TypeOK
  <2>3. requestsBlockedByOpHeader' \in [Header -> SUBSET Id] /\ requests' \subseteq Id
    BY <1>2 DEF TypeOK
  <2>4. activeRequests' \in [Remote -> SUBSET Id]
    BY <1>2 DEF TypeOK
  <2>5. requestedOps' \subseteq discovered'
    <3>1. kept \subseteq requestedOps
      OBVIOUS
    <3> HIDE DEF kept
    <3> QED
      BY <1>2, <1>5, <3>1 DEF TypeOK
  <2> QED
    BY <2>1, <2>2, <2>3, <2>4, <2>5 DEF TablesOK
<1>7. n \in RequestInfo /\ n.status = "accepted" /\ n.next = 0 /\ n.sending = q.sending
  BY <1>1, <1>3 DEF RequestInfo, Status
<1> HIDE DEF q, n, table, freed, kept
<1>8. ASSUME q.sending # {}
      PROVE  RequestOK(n, store)
  <2>1. \E h \in q.sending : Cardinality(Before(q.sending, h)) = 0
    BY <1>3, <1>8, HeaderFacts, FS_Subset, FirstHasNoneBefore
  <2>2. \A h \in q.sending : ~ (Cardinality(Before(q.sending, h)) < 0)
    <3>1. \A h \in q.sending : Before(q.sending, h) \subseteq q.sending
      BY DEF Before
    <3>2. IsFiniteSet(q.sending)
      BY <1>3, HeaderFacts, FS_Subset
    <3> QED
      BY <3>1, <3>2, FS_Subset, FS_CardinalityType
  <2> QED
    BY <1>3, <1>7, <2>1, <2>2
       DEF RequestOK, AsksInOrder, BringsInOrder, BeginsAtFirst, SavesInOrder, Unanswered
<1>9. req' \in [Id -> RequestInfo] /\ RequestsOK'
  <2>1. \/ req' = [req EXCEPT ![r] = NoRequest]
        \/ req' = [req EXCEPT ![r] = n] /\ q.sending # {}
    BY <1>2
  <2> QED
    BY <1>2, <1>7, <1>8, <2>1, NoRequestOK DEF TypeOK, RequestsOK, stores
<1> QED
  BY <1>2, <1>4, <1>5, <1>6, <1>9
     DEF TypeOK, TablesOK, AttemptOK, StoreCausallyClosed, stores

LEMMA BufferingSteps ==
    ASSUME IndInv, NEW r \in Id, BufferLiterals(r)
    PROVE  IndInv' /\ UNCHANGED store
<1> USE DEF IndInv
<1>1. /\ req' = [req EXCEPT ![r].buffered = TRUE]
      /\ UNCHANGED <<stores, histories, requests, pendingTables, requestsBlockedByOpHeader,
                     activeRequests, attempts, gossiped, failures>>
  BY DEF BufferLiterals
<1> DEFINE n == [req[r] EXCEPT !.buffered = TRUE]
<1>2. req[r] \in RequestInfo /\ RequestOK(req[r], store)
  BY DEF TypeOK, RequestsOK
<1>3. n \in RequestInfo
  BY <1>2 DEF RequestInfo
<1>4. RequestOK(n, store)
  <2>1. /\ n.status = req[r].status /\ n.ops = req[r].ops /\ n.sending = req[r].sending
        /\ n.next = req[r].next
    BY <1>2 DEF RequestInfo
  <2> HIDE DEF n
  <2> QED
    BY <1>2, <2>1 DEF RequestOK, AsksInOrder, BringsInOrder, BeginsAtFirst, SavesInOrder,
                      Unanswered, Received
<1>5. req' = [req EXCEPT ![r] = n]
  BY <1>1
<1> HIDE DEF n
<1>6. store' = store
  BY <1>1 DEF stores
<1>7. req' \in [Id -> RequestInfo] /\ RequestsOK'
  BY <1>3, <1>4, <1>5, <1>6 DEF TypeOK, RequestsOK
<1> QED
  BY <1>1, <1>7 DEF TypeOK, StoreCausallyClosed, stores, histories, pendingTables, attempts

(* The only step that changes the store: the next op goes in, after those  *)
(* that it follows.                                                        *)
LEMMA SavingSteps ==
    ASSUME IndInv, NEW r \in Id, ProcessLiteral(r)
    PROVE  /\ IndInv'
           /\ \E o \in Header : prevOf[o] \subseteq store /\ store' = store \cup {o}
<1> USE DEF IndInv
<1> DEFINE q == req[r]
           o == NextOp(q)
           n == [q EXCEPT !.next = @ + 1]
           last == q.next + 1 = Cardinality(q.sending)
<1>1. q \in RequestInfo /\ q.status = "accepted" /\ RequestOK(q, store)
  BY DEF TypeOK, RequestsOK, ProcessLiteral
<1>2. /\ store' = store \cup {o}
      /\ unmarked' = IF o \in store THEN unmarked ELSE unmarked \cup {o}
      /\ \/ /\ last
            /\ CleanupRequests({r})
            /\ req' = [req EXCEPT ![r] = NoRequest]
            /\ AttemptNewRequests(TRUE)
         \/ /\ ~last
            /\ req' = [req EXCEPT ![r].next = @ + 1]
            /\ UNCHANGED <<requests, pendingTables, requestsBlockedByOpHeader,
                           activeRequests, attempts>>
      /\ UNCHANGED <<histories, gossiped, failures>>
  BY DEF ProcessLiteral
<1>3. /\ q.sending \in SUBSET Header /\ q.next \in Nat
      /\ \A h \in q.sending : prevOf[h] \subseteq store \cup q.sending
      /\ \A h \in q.sending : Cardinality(Before(q.sending, h)) < q.next => h \in store
  BY <1>1 DEF RequestInfo, RequestOK, BringsInOrder, SavesInOrder, Received
<1>4. /\ o \in q.sending /\ q.next < N
      /\ \A h \in q.sending : Cardinality(Before(q.sending, h)) = q.next <=> h = o
  BY <1>1, NextOpIsOne DEF RequestOK
<1>5. q.sending \subseteq Nat /\ IsFiniteSet(q.sending)
  BY <1>3, HeaderFacts, FS_Subset
<1>6. \A h \in q.sending : Cardinality(Before(q.sending, h)) \in Nat
  <2>1. \A h \in q.sending : Before(q.sending, h) \subseteq q.sending
    BY DEF Before
  <2> QED
    BY <1>5, <2>1, FS_Subset, FS_CardinalityType
<1> HIDE DEF o
<1>7. prevOf[o] \subseteq store
  <2>1. SUFFICES ASSUME NEW p \in prevOf[o], p \in q.sending
                 PROVE  p \in store
    BY <1>3, <1>4
  <2>2. p < o
    BY <1>3, <1>4, HeaderFacts
  <2>3. Cardinality(Before(q.sending, p)) < Cardinality(Before(q.sending, o))
    BY <1>3, <1>4, <1>5, <2>1, <2>2, FewerBefore
  <2> QED
    BY <1>3, <1>4, <2>1, <2>3
<1>8. StoreCausallyClosed'
  BY <1>2, <1>7 DEF StoreCausallyClosed
<1>9. n \in RequestInfo /\ n.next = q.next + 1 /\ n.status = "accepted" /\ n.sending = q.sending
  BY <1>1, <1>3, <1>4 DEF RequestInfo
<1> HIDE DEF n
<1>10. ASSUME ~last
       PROVE  RequestOK(n, store')
  <2>1. Cardinality(Before(q.sending, o)) = q.next
    BY <1>4
  <2>2. \E h \in q.sending : Cardinality(Before(q.sending, h)) = q.next + 1
    BY <1>4, <1>5, <1>10, <2>1, NextHasOneMore
  <2>3. \A h \in q.sending : Cardinality(Before(q.sending, h)) < q.next + 1 => h \in store'
    BY <1>2, <1>3, <1>4, <1>6
  <2>4. \A h \in q.sending : prevOf[h] \subseteq store' \cup q.sending
    BY <1>2, <1>3
  <2> HIDE DEF q, last
  <2> QED
    BY <1>9, <2>2, <2>3, <2>4
       DEF RequestOK, AsksInOrder, BringsInOrder, BeginsAtFirst, SavesInOrder, Unanswered
<1> HIDE DEF last
<1>11. \A x \in Id : RequestOK(req[x], store')
  BY <1>2, StoreMayGrow DEF RequestsOK
<1>12. TablesOK' /\ AttemptOK' /\ req' \in [Id -> RequestInfo] /\ RequestsOK'
  <2>1. CASE last
    <3>1. TablesOK' /\ AttemptOK'
      BY <1>2, <2>1, CleanupTypes, AttemptNewTypes DEF histories
    <3>2. req' \in [Id -> RequestInfo] /\ RequestsOK'
      <4>1. req' = [req EXCEPT ![r] = NoRequest]
        BY <1>2, <2>1
      <4> QED
        BY <1>11, <4>1, NoRequestOK DEF TypeOK, RequestsOK
    <3> QED
      BY <3>1, <3>2
  <2>2. CASE ~last
    <3>1. TablesOK' /\ AttemptOK'
      BY <1>2, <2>2 DEF TypeOK, TablesOK, AttemptOK, pendingTables, attempts, histories
    <3>2. req' \in [Id -> RequestInfo] /\ RequestsOK'
      <4>1. req' = [req EXCEPT ![r] = n]
        BY <1>2, <2>2 DEF n
      <4> HIDE DEF q
      <4> QED
        BY <1>9, <1>10, <1>11, <2>2, <4>1 DEF TypeOK, RequestsOK
    <3> QED
      BY <3>1, <3>2
  <2> QED
    BY <2>1, <2>2
<1>13. store' \subseteq Header /\ unmarked' \subseteq store'
  BY <1>2, <1>3, <1>4 DEF TypeOK
<1>14. TypeOK'
  BY <1>2, <1>12, <1>13 DEF TypeOK, TablesOK, AttemptOK, histories
<1> QED
  BY <1>2, <1>3, <1>4, <1>7, <1>8, <1>12, <1>14

(* The store's callback: a request that is told goes on as it was.         *)
LEMMA CallbackSteps ==
    ASSUME IndInv, NEW h \in Header, OnNewLocalOp(h)
    PROVE  IndInv' /\ UNCHANGED store
<1> USE DEF IndInv
<1>1. /\ unmarked' = unmarked \ {h}
      /\ UNCHANGED <<store, requests, activeRequests, attempts, gossiped, failures>>
  BY DEF OnNewLocalOp
<1>2. CASE MarkOpAsFetched(h)
  <2>1. discovered' \subseteq Header /\ remoteState' \in [Remote -> SUBSET Header]
    BY <1>2 DEF MarkOpAsFetched, TypeOK
  <2>2. TablesOK'
    BY <1>1, <1>2 DEF MarkOpAsFetched, ForgetOpRequests, TypeOK, TablesOK
  <2>3. ASSUME NEW r \in Id
        PROVE  Unblocked(r, h) \in RequestInfo /\ RequestOK(Unblocked(r, h), store)
    <3> DEFINE q == req[r]
               st == IF q.status = "blocked" /\ q.missing \subseteq {h} THEN "processing"
                                                                        ELSE q.status
               n == [q EXCEPT !.missing = @ \ {h}, !.status = st]
    <3>1. q \in RequestInfo /\ RequestOK(q, store)
      BY DEF TypeOK, RequestsOK
    <3>2. Unblocked(r, h) = n
      BY <3>1 DEF Unblocked, RequestInfo
    <3>3. st \in Status /\ (st = q.status \/ (q.status = "blocked" /\ st = "processing"))
      BY <3>1 DEF RequestInfo, Status
    <3> HIDE DEF q, st
    <3>4. n \in RequestInfo
      BY <3>1, <3>3 DEF RequestInfo
    <3>5. n.status = st /\ n.ops = q.ops /\ n.sending = q.sending /\ n.next = q.next
      BY <3>1 DEF RequestInfo
    <3> HIDE DEF n
    <3>6. RequestOK(n, store)
      BY <3>1, <3>3, <3>5 DEF RequestOK, AsksInOrder, BringsInOrder, BeginsAtFirst,
                              SavesInOrder, Unanswered, Received
    <3> QED
      BY <3>2, <3>4, <3>6
  <2>4. req' \in [Id -> RequestInfo] /\ RequestsOK'
    <3>1. req' = [r \in Id |-> IF r \in requestsBlockedByOpHeader[h] \cap requests
                              THEN Unblocked(r, h) ELSE req[r]]
      BY <1>2 DEF MarkOpAsFetched
    <3>2. req' \in [Id -> RequestInfo]
      BY <2>3, <3>1 DEF TypeOK
    <3>3. \A r \in Id : req'[r] = Unblocked(r, h) \/ req'[r] = req[r]
      BY <3>1
    <3>4. \A r \in Id : RequestOK(req'[r], store)
      BY <2>3, <3>3 DEF RequestsOK
    <3> QED
      BY <1>1, <3>2, <3>4 DEF RequestsOK
  <2> QED
    BY <1>1, <2>1, <2>2, <2>4 DEF TypeOK, TablesOK, StoreCausallyClosed, attempts
<1>3. CASE UNCHANGED <<histories, pendingTables, req, requestsBlockedByOpHeader>>
  BY <1>1, <1>3 DEF TypeOK, RequestsOK, StoreCausallyClosed, histories, pendingTables, attempts
<1> QED
  BY <1>2, <1>3 DEF OnNewLocalOp

(* The timer forgets requests.                                             *)
LEMMA TimeoutSteps ==
    ASSUME IndInv, CheckRequestTimeouts
    PROVE  IndInv' /\ UNCHANGED store
<1> USE DEF IndInv
<1>1. PICK R \in SUBSET MayTimeOut :
        /\ failures + Cardinality(R) <= MaxFailures
        /\ failures' = failures + Cardinality(R)
        /\ CleanupRequests(Finished \cup R)
        /\ req' = [r \in Id |-> IF r \in Finished \cup R /\ req[r].status # "processing"
                                THEN NoRequest ELSE req[r]]
        /\ AttemptNewRequests(TRUE)
        /\ UNCHANGED <<stores, histories, gossiped>>
  BY DEF CheckRequestTimeouts
<1>2. TablesOK' /\ AttemptOK'
  BY <1>1, CleanupTypes, AttemptNewTypes DEF histories
<1>3. req' \in [Id -> RequestInfo] /\ RequestsOK'
  <2>1. \A r \in Id : req'[r] = NoRequest \/ req'[r] = req[r]
    BY <1>1
  <2>2. req' \in [Id -> RequestInfo]
    BY <1>1, NoRequestOK DEF TypeOK
  <2>3. \A r \in Id : RequestOK(req'[r], store)
    BY <2>1, NoRequestOK DEF RequestsOK
  <2> QED
    BY <1>1, <2>2, <2>3 DEF RequestsOK, stores
<1>4. failures' \in 0 .. MaxFailures
  <2>1. IsFiniteSet(Id)
    BY FS_Interval DEF Id
  <2>2. R \subseteq Id
    BY DEF MayTimeOut, TypeOK
  <2>3. Cardinality(R) \in Nat
    BY <2>1, <2>2, FS_Subset, FS_CardinalityType
  <2>4. failures \in 0 .. MaxFailures
    BY DEF TypeOK
  <2> QED
    BY <1>1, <2>3, <2>4
<1> QED
  BY <1>1, <1>2, <1>3, <1>4 DEF TypeOK, TablesOK, AttemptOK, StoreCausallyClosed, stores, histories

LEMMA StutteringSteps ==
    ASSUME IndInv, UNCHANGED vars
    PROVE  IndInv' /\ UNCHANGED store
BY DEF IndInv, TypeOK, RequestsOK, StoreCausallyClosed, vars, stores, histories,
       pendingTables, attempts

(* Every step keeps the invariant, and adds at most one op to the store.   *)
LEMMA StepPreserves ==
    ASSUME IndInv, [Next]_vars
    PROVE  /\ IndInv'
           /\ \/ UNCHANGED store
              \/ \E o \in Header : prevOf[o] \subseteq store /\ store' = store \cup {o}
<1>1. CASE \/ BeginAttempt \/ EndAttempt
           \/ \E e \in Remote : RequestFrom(e) \/ RequestFails(e) \/ RequestMore(e)
  BY <1>1, AttemptSteps
<1>2. CASE \E e \in Remote : \E S \in States : OnNewHistory(e, S)
  BY <1>2, NewsSteps
<1>3. CASE \E r \in Id : OnReceivingResponse(r)
  BY <1>3, ReceivingSteps
<1>4. CASE \E r \in Id : OnReceivingUnjustifiedResponse(r)
  BY <1>4, CancellingSteps
<1>5. CASE \E r \in Id : ProcessResponse(r)
  BY <1>5, ProcessingSteps
<1>6. CASE \E r \in Id : BufferLiterals(r)
  BY <1>6, BufferingSteps
<1>7. CASE \E r \in Id : ProcessLiteral(r)
  BY <1>7, SavingSteps
<1>8. CASE \E h \in Header : OnNewLocalOp(h)
  BY <1>8, CallbackSteps
<1>9. CASE CheckRequestTimeouts
  BY <1>9, TimeoutSteps
<1>10. CASE UNCHANGED vars
  BY <1>10, StutteringSteps
<1> QED
  BY <1>1, <1>2, <1>3, <1>4, <1>5, <1>6, <1>7, <1>8, <1>9, <1>10 DEF Next

(* At every moment the variables have their types, every request is in     *)
(* order with the store, and the store is causally closed.                 *)
THEOREM SynchronizerInvariant == Spec => []IndInv
<1>1. IndInv /\ [Next]_vars => IndInv'
  BY StepPreserves
<1> QED
  BY InitEstablishes, <1>1, PTL DEF Spec

(* Whatever requests, answers and timeouts there are, and in whatever order *)
(* they come, the tables of the synchronizer are of their types: an id that *)
(* is in use is one that was given out, and what is on its way is known.   *)
THEOREM SynchronizerTypes == Spec => []TypeOK
BY SynchronizerInvariant, PTL DEF IndInv

(* The store never holds an op without those it follows.                   *)
THEOREM StoreIsCausallyClosed == Spec => []StoreCausallyClosed
BY SynchronizerInvariant, PTL DEF IndInv

(* The synchronizer implements Replication: the ops that it saves come one *)
(* at a time, each after those it follows, and stay.                       *)
THEOREM ReplicationImplemented == Spec => ImplementsReplication
<1>1. Init => Replica!Init
  BY DEF Init, Replica!Init
<1>2. IndInv /\ [Next]_vars => [Replica!Next]_store
  <2> SUFFICES ASSUME IndInv, [Next]_vars PROVE [Replica!Next]_store
    OBVIOUS
  <2>1. CASE UNCHANGED store
    BY <2>1
  <2>2. ASSUME NEW o \in Header, prevOf[o] \subseteq store, store' = store \cup {o}
        PROVE  Replica!Next \/ UNCHANGED store
    <3>1. CASE o \in store
      BY <2>2, <3>1
    <3>2. CASE o \notin store
      BY <2>2, <3>2 DEF Replica!Next, Replica!Receive
    <3> QED
      BY <3>1, <3>2
  <2> QED
    BY <2>1, <2>2, StepPreserves
<1> QED
  BY <1>1, <1>2, SynchronizerInvariant, PTL DEF Spec, ImplementsReplication, Replica!Spec

-----------------------------------------------------------------------------
(* The tables of the synchronizer agree with its requests, for every       *)
(* history and every limit: a request that waits for an op is told when it *)
(* comes, and an op that is marked as on its way is on its way.            *)
(*                                                                         *)
(* The first holds since what a request waits for was known when it was    *)
(* sent, and an op that becomes stored stays known until its callback runs.*)
(* The second needs that no request times out while its response is being  *)
(* processed: what ProcessResponse then writes for it would stay.          *)

(* What a request states it has is known.                                  *)
StatedIsKnown ==
    \A r \in requests : req[r].status = "sent" => req[r].current \subseteq store \cup discovered

WaitsOK == StatedIsKnown /\ BlockedWillBeTold

(* An id has the request that it had.                                      *)
SameRequest(r) ==
    /\ r \in requests
    /\ req'[r].status = req[r].status
    /\ req'[r].current = req[r].current
    /\ req'[r].missing = req[r].missing
    /\ \A h \in Header : r \in requestsBlockedByOpHeader[h] => r \in requestsBlockedByOpHeader'[h]

(* One that asks for something since this step.                            *)
JustSent(r) ==
    req'[r].status = "sent" /\ req'[r].current \subseteq store' \cup discovered'

(* One that does not wait.                                                 *)
Goes(r) == req'[r].status \notin {"sent", "blocked"}

(* Nothing is forgotten, and what is saved gets a callback.                *)
NothingForgotten ==
    /\ store \subseteq store' /\ store' \ store \subseteq unmarked'
    /\ unmarked \subseteq unmarked' /\ discovered \subseteq discovered'

LEMMA QuietSteps ==
    ASSUME TypeOK, WaitsOK, NothingForgotten, requests' \subseteq Id,
           \A r \in requests' : SameRequest(r) \/ JustSent(r) \/ Goes(r)
    PROVE  WaitsOK'
<1>1. StatedIsKnown'
  BY DEF StatedIsKnown, WaitsOK, SameRequest, JustSent, Goes, NothingForgotten
<1>2. ASSUME NEW r \in requests', req'[r].status = "blocked"
      PROVE  /\ req'[r].missing # {}
             /\ \A h \in req'[r].missing :
                   /\ r \in requestsBlockedByOpHeader'[h]
                   /\ h \in discovered'
                   /\ h \in store' => h \in unmarked'
  <2>1. SameRequest(r)
    BY <1>2 DEF JustSent, Goes
  <2>2. r \in requests /\ req[r].status = "blocked" /\ req'[r].missing = req[r].missing
    BY <1>2, <2>1 DEF SameRequest
  <2>3. req[r].missing \subseteq Header
    BY <2>2 DEF TypeOK, RequestInfo
  <2>4. req[r].missing # {}
    BY <2>2 DEF WaitsOK, BlockedWillBeTold
  <2>5. ASSUME NEW h \in req[r].missing
        PROVE  /\ r \in requestsBlockedByOpHeader'[h] /\ h \in discovered'
               /\ h \in store' => h \in unmarked'
    BY <2>1, <2>2, <2>3 DEF WaitsOK, BlockedWillBeTold, SameRequest, NothingForgotten
  <2> QED
    BY <2>2, <2>4, <2>5
<1> QED
  BY <1>1, <1>2 DEF WaitsOK, BlockedWillBeTold

(* Cleaning up takes away only ids that are no longer in use.              *)
LEMMA CleanupKeepsWaits ==
    ASSUME TypeOK, NEW R, CleanupRequests(R), NEW r \in requests'
    PROVE  /\ r \in requests
           /\ \A h \in Header :
                r \in requestsBlockedByOpHeader[h] => r \in requestsBlockedByOpHeader'[h]
BY DEF CleanupRequests, Without

LEMMA SendingKeepsWaits ==
    ASSUME TypeOK, WaitsOK, NEW e \in Remote, NEW T, NEW O, SendRequest(e, T, O),
           UNCHANGED <<stores, histories, requestsBlockedByOpHeader>>
    PROVE  WaitsOK'
<1> DEFINE i == Min(UnusedIds)
           S == IF T = {} THEN {} ELSE LocalState
           C == StartingOps(attempt.history[e])
           q == NewRequest(e, T, S, O, C)
<1>1. i \in Id
  BY FreeId DEF SendRequest
<1>2. C \subseteq store \cup discovered
  BY DEF StartingOps, LocalState, TerminalOf, TypeOK
<1>3. req' = [req EXCEPT ![i] = q] /\ requests' = requests \cup {i}
  BY DEF SendRequest
<1>4. q.status = "sent" /\ q.current = C
  BY DEF NewRequest
<1>5. NothingForgotten
  BY DEF NothingForgotten, stores, histories
<1> HIDE DEF i, S, C, q
<1>6. JustSent(i)
  BY <1>1, <1>2, <1>3, <1>4 DEF JustSent, stores, histories, TypeOK
<1>7. \A r \in requests \ {i} : SameRequest(r)
  BY <1>3 DEF SameRequest, TypeOK
<1>8. requests' \subseteq Id
  BY <1>1, <1>3 DEF TypeOK
<1> QED
  BY <1>3, <1>5, <1>6, <1>7, <1>8, QuietSteps

LEMMA StepKeepsWaits ==
    ASSUME IndInv, WaitsOK, [Next]_vars
    PROVE  WaitsOK'
<1> USE DEF IndInv
<1>0. requests' \subseteq Id
  BY StepPreserves DEF TypeOK
<1>1. ASSUME NEW e \in Remote, NEW S \in States, OnNewHistory(e, S)
      PROVE  WaitsOK'
  <2>1. NothingForgotten
    BY <1>1 DEF OnNewHistory, NothingForgotten, stores
  <2>2. \A r \in requests' : SameRequest(r)
    BY <1>1 DEF OnNewHistory, SameRequest
  <2> QED
    BY <1>0, <2>1, <2>2, QuietSteps
<1>2. ASSUME NEW e \in Remote, RequestFrom(e)
      PROVE  WaitsOK'
  <2>1. UNCHANGED <<stores, histories, requestsBlockedByOpHeader>>
    BY <1>2 DEF RequestFrom
  <2>2. \/ \E O : SendRequest(e, attempt.terminal[e], O)
        \/ UNCHANGED <<req, requests>>
    BY <1>2 DEF RequestFrom
  <2>3. CASE UNCHANGED <<req, requests>>
    BY <2>1, <2>3 DEF WaitsOK, StatedIsKnown, BlockedWillBeTold, stores, histories
  <2> QED
    BY <2>1, <2>2, <2>3, SendingKeepsWaits
<1>3. ASSUME NEW e \in Remote, RequestMore(e)
      PROVE  WaitsOK'
  <2>1. UNCHANGED <<stores, histories, requestsBlockedByOpHeader>>
    BY <1>3 DEF RequestMore
  <2>2. \/ \E O : SendRequest(e, {}, O)
        \/ UNCHANGED <<req, requests>>
    BY <1>3 DEF RequestMore
  <2>3. CASE UNCHANGED <<req, requests>>
    BY <2>1, <2>3 DEF WaitsOK, StatedIsKnown, BlockedWillBeTold, stores, histories
  <2> QED
    BY <2>1, <2>2, <2>3, SendingKeepsWaits
<1>4. ASSUME \/ BeginAttempt \/ EndAttempt \/ UNCHANGED vars
             \/ \E e \in Remote : RequestFails(e)
      PROVE  WaitsOK'
  <2>1. UNCHANGED <<stores, histories, requests, req, requestsBlockedByOpHeader>>
    BY <1>4 DEF BeginAttempt, EndAttempt, RequestFails, vars
  <2> QED
    BY <2>1 DEF WaitsOK, StatedIsKnown, BlockedWillBeTold, stores, histories
<1>5. ASSUME NEW r \in Id, OnReceivingResponse(r)
      PROVE  WaitsOK'
  <2> DEFINE q == req[r]
             M == MissingState(q)
  <2>1. UNCHANGED <<stores, histories, requests>> /\ r \in requests /\ q.status = "sent"
    BY <1>5 DEF OnReceivingResponse
  <2>2. PICK H, W : req' = [req EXCEPT ![r].history = H, ![r].sending = W, ![r].missing = M,
                             ![r].status = IF M = {} THEN "processing" ELSE "blocked"]
    BY <1>5 DEF OnReceivingResponse
  <2>3. requestsBlockedByOpHeader' = [h \in Header |-> IF h \in M
                        THEN requestsBlockedByOpHeader[h] \cup {r}
                        ELSE requestsBlockedByOpHeader[h]]
    BY <1>5 DEF OnReceivingResponse
  <2>4. q \in RequestInfo /\ M \subseteq Header /\ M \cap store = {} /\ M \subseteq discovered
    BY <2>1 DEF TypeOK, RequestInfo, MissingState, WaitsOK, StatedIsKnown
  <2>5. req'[r].missing = M /\ req'[r].status = IF M = {} THEN "processing" ELSE "blocked"
    BY <2>2, <2>4 DEF TypeOK, RequestInfo
  <2>6. \A x \in Id \ {r} : req'[x] = req[x]
    BY <2>2 DEF TypeOK
  <2> HIDE DEF M, q
  <2>7. StatedIsKnown'
    BY <1>0, <2>1, <2>5, <2>6 DEF WaitsOK, StatedIsKnown, stores, histories
  <2>8. ASSUME NEW x \in requests', req'[x].status = "blocked"
        PROVE  /\ req'[x].missing # {}
               /\ \A h \in req'[x].missing :
                     /\ x \in requestsBlockedByOpHeader'[h]
                     /\ h \in discovered'
                     /\ h \in store' => h \in unmarked'
    <3>1. CASE x = r
      BY <2>1, <2>3, <2>4, <2>5, <2>8, <3>1 DEF stores, histories
    <3>2. CASE x # r
      <4>1. req'[x] = req[x] /\ x \in requests /\ x \in Id
        BY <1>0, <2>1, <2>6, <3>2
      <4>2. req[x].missing \subseteq Header
        BY <4>1 DEF TypeOK, RequestInfo
      <4>3. \A h \in Header : x \in requestsBlockedByOpHeader[h]
                                => x \in requestsBlockedByOpHeader'[h]
        BY <2>3
      <4>4. UNCHANGED <<store, unmarked, discovered>>
        BY <2>1 DEF stores, histories
      <4> QED
        BY <2>8, <4>1, <4>2, <4>3, <4>4 DEF WaitsOK, BlockedWillBeTold
    <3> QED
      BY <3>1, <3>2
  <2> QED
    BY <2>7, <2>8 DEF WaitsOK, BlockedWillBeTold
<1>6. ASSUME NEW r \in Id, OnReceivingUnjustifiedResponse(r)
      PROVE  WaitsOK'
  <2>1. /\ UNCHANGED <<stores, histories>> /\ CleanupRequests({r})
        /\ req' = [req EXCEPT ![r] = NoRequest]
    BY <1>6 DEF OnReceivingUnjustifiedResponse
  <2>2. NothingForgotten
    BY <2>1 DEF NothingForgotten, stores, histories
  <2>3. r \notin requests'
    BY <1>6, <2>1 DEF CleanupRequests, OnReceivingUnjustifiedResponse
  <2>4. \A x \in requests' : req'[x] = req[x]
    BY <1>0, <2>1, <2>3 DEF TypeOK
  <2>5. \A x \in requests' : SameRequest(x)
    BY <2>1, <2>4, CleanupKeepsWaits DEF SameRequest
  <2> QED
    BY <1>0, <2>2, <2>5, QuietSteps
<1>7. ASSUME NEW r \in Id, ProcessResponse(r)
      PROVE  WaitsOK'
  <2> DEFINE q == req[r]
  <2>1. /\ UNCHANGED <<stores, requestsBlockedByOpHeader>> /\ discovered \subseteq discovered'
        /\ requests' \subseteq requests
    BY <1>7 DEF ProcessResponse, ImportHistory
  <2>2. \/ req' = [req EXCEPT ![r] = NoRequest]
        \/ req' = [req EXCEPT ![r] = [q EXCEPT !.status = "accepted"]]
    BY <1>7 DEF ProcessResponse
  <2>3. req'[r].status \notin {"sent", "blocked"}
    <3>1. q \in RequestInfo /\ NoRequest.status = "none"
      BY DEF TypeOK, NoRequest, NewRequest
    <3> HIDE DEF q
    <3> QED
      BY <2>2, <3>1 DEF TypeOK, RequestInfo
  <2>4. \A x \in requests' : x # r => req'[x] = req[x]
    BY <1>0, <2>2 DEF TypeOK
  <2>5. \A x \in requests' : SameRequest(x) \/ Goes(x)
    BY <2>1, <2>3, <2>4 DEF SameRequest, Goes
  <2> QED
    BY <1>0, <2>1, <2>5, QuietSteps DEF NothingForgotten, stores
<1>8. ASSUME NEW r \in Id, BufferLiterals(r)
      PROVE  WaitsOK'
  <2>1. /\ req' = [req EXCEPT ![r].buffered = TRUE]
        /\ UNCHANGED <<stores, histories, requests, requestsBlockedByOpHeader>>
    BY <1>8 DEF BufferLiterals
  <2>2. \A x \in Id : /\ req'[x].status = req[x].status /\ req'[x].current = req[x].current
                      /\ req'[x].missing = req[x].missing
    BY <2>1 DEF TypeOK, RequestInfo
  <2>3. \A x \in requests' : SameRequest(x)
    BY <1>0, <2>1, <2>2 DEF SameRequest
  <2> QED
    BY <1>0, <2>1, <2>3, QuietSteps DEF NothingForgotten, stores, histories
<1>9. ASSUME NEW r \in Id, ProcessLiteral(r)
      PROVE  WaitsOK'
  <2>1. NothingForgotten
    BY <1>9 DEF ProcessLiteral, NothingForgotten, histories
  <2>2. \/ /\ CleanupRequests({r}) /\ req' = [req EXCEPT ![r] = NoRequest] /\ r \in requests
        \/ /\ req' = [req EXCEPT ![r].next = @ + 1]
           /\ UNCHANGED <<requests, requestsBlockedByOpHeader>>
    BY <1>9 DEF ProcessLiteral
  <2>3. ASSUME CleanupRequests({r}), req' = [req EXCEPT ![r] = NoRequest], r \in requests
        PROVE  \A x \in requests' : SameRequest(x)
    <3>1. r \notin requests'
      BY <2>3 DEF CleanupRequests
    <3>2. \A x \in requests' : req'[x] = req[x]
      BY <1>0, <2>3, <3>1 DEF TypeOK
    <3> QED
      BY <2>3, <3>2, CleanupKeepsWaits DEF SameRequest
  <2>4. ASSUME req' = [req EXCEPT ![r].next = @ + 1],
               UNCHANGED <<requests, requestsBlockedByOpHeader>>
        PROVE  \A x \in requests' : SameRequest(x)
    <3>1. \A x \in Id : /\ req'[x].status = req[x].status /\ req'[x].current = req[x].current
                        /\ req'[x].missing = req[x].missing
      BY <2>4 DEF TypeOK, RequestInfo
    <3> QED
      BY <1>0, <2>4, <3>1 DEF SameRequest
  <2> QED
    BY <1>0, <2>1, <2>2, <2>3, <2>4, QuietSteps
<1>10. ASSUME NEW h \in Header, OnNewLocalOp(h)
       PROVE  WaitsOK'
  <2>1. unmarked' = unmarked \ {h} /\ UNCHANGED <<store, requests>>
    BY <1>10 DEF OnNewLocalOp
  <2>2. CASE h \in discovered
    <3>1. MarkOpAsFetched(h) /\ h \in store
      BY <1>10, <2>2 DEF OnNewLocalOp, TypeOK
    <3>2. discovered' = discovered \ {h}
      BY <3>1 DEF MarkOpAsFetched
    <3>3. requestsBlockedByOpHeader' = [requestsBlockedByOpHeader EXCEPT ![h] = {}]
      BY <3>1 DEF MarkOpAsFetched
    <3>4. ASSUME NEW r \in requests
          PROVE  IF r \in requestsBlockedByOpHeader[h]
                 THEN /\ req'[r].current = req[r].current
                      /\ req'[r].missing = req[r].missing \ {h}
                      /\ req'[r].status =
                           IF req[r].status = "blocked" /\ req[r].missing \subseteq {h}
                           THEN "processing" ELSE req[r].status
                 ELSE req'[r] = req[r]
      <4>1. r \in Id /\ req[r] \in RequestInfo
        BY DEF TypeOK
      <4>2. req'[r] = IF r \in requestsBlockedByOpHeader[h] THEN Unblocked(r, h) ELSE req[r]
        BY <3>1, <4>1 DEF MarkOpAsFetched
      <4> QED
        BY <4>1, <4>2 DEF Unblocked, RequestInfo
    <3>5. StatedIsKnown'
      BY <2>1, <3>1, <3>2, <3>4 DEF WaitsOK, StatedIsKnown
    <3>6. ASSUME NEW r \in requests, req'[r].status = "blocked"
          PROVE  /\ req'[r].missing # {}
                 /\ \A x \in req'[r].missing :
                       /\ r \in requestsBlockedByOpHeader'[x]
                       /\ x \in discovered'
                       /\ x \in store' => x \in unmarked'
      <4>1. req[r].status = "blocked" /\ req[r].missing \subseteq Header
        BY <3>4, <3>6 DEF TypeOK, RequestInfo
      <4>2. req'[r].missing = req[r].missing \ {h} /\ req'[r].missing # {}
        BY <3>4, <3>6, <4>1 DEF WaitsOK, BlockedWillBeTold
      <4> QED
        BY <2>1, <3>2, <3>3, <4>1, <4>2 DEF WaitsOK, BlockedWillBeTold, TypeOK
    <3> QED
      BY <2>1, <3>5, <3>6 DEF WaitsOK, BlockedWillBeTold
  <2>3. CASE h \notin discovered
    <3>1. UNCHANGED <<discovered, req, requestsBlockedByOpHeader>>
      BY <1>10, <2>3 DEF OnNewLocalOp, histories
    <3> QED
      BY <2>1, <2>3, <3>1 DEF WaitsOK, StatedIsKnown, BlockedWillBeTold
  <2> QED
    BY <2>2, <2>3
<1>11. ASSUME CheckRequestTimeouts
       PROVE  WaitsOK'
  <2>1. PICK R : /\ R \subseteq MayTimeOut /\ CleanupRequests(Finished \cup R)
                 /\ req' = [r \in Id |-> IF r \in Finished \cup R /\ req[r].status # "processing"
                                         THEN NoRequest ELSE req[r]]
                 /\ UNCHANGED <<stores, histories>>
    BY <1>11 DEF CheckRequestTimeouts
  <2>2. NothingForgotten
    BY <2>1 DEF NothingForgotten, stores, histories
  <2>3. \A x \in requests' : x \notin Finished \cup R
    BY <2>1 DEF CleanupRequests, Finished, MayTimeOut
  <2>4. \A x \in requests' : req'[x] = req[x]
    BY <1>0, <2>1, <2>3
  <2>5. \A x \in requests' : SameRequest(x)
    BY <2>1, <2>4, CleanupKeepsWaits DEF SameRequest
  <2> QED
    BY <1>0, <2>2, <2>5, QuietSteps
<1> QED
  BY <1>1, <1>2, <1>3, <1>4, <1>5, <1>6, <1>7, <1>8, <1>9, <1>10, <1>11 DEF Next

(* A blocked request is told of all it waits for: no interleaving of its   *)
(* response, of ops that other requests save and of the store's callbacks  *)
(* leaves it waiting for an op whose arrival nobody will notice.           *)
THEOREM BlockedAreTold == Spec => []BlockedWillBeTold
<1>1. Init => WaitsOK
  BY DEF Init, WaitsOK, StatedIsKnown, BlockedWillBeTold
<1>2. IndInv /\ WaitsOK /\ [Next]_vars => WaitsOK'
  BY StepKeepsWaits
<1> QED
  BY <1>1, <1>2, SynchronizerInvariant, PTL DEF Spec, WaitsOK

-----------------------------------------------------------------------------
(* An op on its way is expected from a request that is there; one that was *)
(* just sent, or that was removed while it was processed, brings no other. *)
Expected == \A h \in Header : \A r \in requestsForOp[h] : r \in requests /\ h \in ExpectedFrom(r)

NothingMore ==
    \A r \in Id :
        (req[r].status = "sent" \/ (req[r].status = "processing" /\ r \notin requests))
           => req[r].sending = {}

PendingOK == Expected /\ NothingMore

(* Cleaning up forgets what was expected.                                  *)
LEMMA CleanupForgets ==
    ASSUME TypeOK, PendingOK, NEW R, CleanupRequests(R)
    PROVE  \A h \in Header : requestsForOp'[h] = requestsForOp[h] \ (R \cap requests)
<1> SUFFICES ASSUME NEW h \in Header
             PROVE  requestsForOp'[h] = requestsForOp[h] \ (R \cap requests)
  OBVIOUS
<1>1. requestsForOp'[h] = requestsForOp[h] \ {r \in R \cap requests : h \in ExpectedFrom(r)}
  BY DEF CleanupRequests
<1>2. \A r \in requestsForOp[h] : h \in ExpectedFrom(r)
  BY DEF PendingOK, Expected
<1> QED
  BY <1>1, <1>2

LEMMA SendingExpects ==
    ASSUME TypeOK, PendingOK, NEW e \in Remote, NEW T, NEW O, SendRequest(e, T, O)
    PROVE  PendingOK'
<1> DEFINE i == Min(UnusedIds)
           S == IF T = {} THEN {} ELSE LocalState
           C == StartingOps(attempt.history[e])
           q == NewRequest(e, T, S, O, C)
<1>1. i \in Id /\ i \notin requests
  BY FreeId DEF SendRequest, UnusedIds
<1>2. req' = [req EXCEPT ![i] = q] /\ requests' = requests \cup {i}
      /\ requestsForOp' = [h \in Header |-> IF h \in O THEN requestsForOp[h] \cup {i}
                                                        ELSE requestsForOp[h]]
  BY DEF SendRequest
<1>3. q.status = "sent" /\ q.ops = O /\ q.sending = {}
  BY DEF NewRequest
<1> HIDE DEF i, S, C, q
<1>4. req'[i] = q /\ \A r \in Id \ {i} : req'[r] = req[r]
  BY <1>1, <1>2 DEF TypeOK
<1>5. ASSUME NEW h \in Header, NEW r \in requestsForOp'[h]
      PROVE  r \in requests' /\ h \in req'[r].ops \cup req'[r].sending
  <2>1. CASE r \in requestsForOp[h]
    <3>1. r \in requests /\ r \in Id \ {i} /\ h \in req[r].ops \cup req[r].sending
      BY <1>1, <2>1 DEF PendingOK, Expected, ExpectedFrom, TypeOK
    <3> QED
      BY <1>2, <1>4, <3>1
  <2>2. CASE r \notin requestsForOp[h]
    <3>1. h \in O /\ r = i
      BY <1>2, <1>5, <2>2
    <3> QED
      BY <1>2, <1>3, <1>4, <3>1
  <2> QED
    BY <2>1, <2>2
<1>6. NothingMore'
  BY <1>2, <1>3, <1>4 DEF PendingOK, NothingMore
<1> QED
  BY <1>5, <1>6 DEF PendingOK, Expected, ExpectedFrom

LEMMA StepKeepsPending ==
    ASSUME ~SlowProcessing, IndInv, PendingOK, [Next]_vars
    PROVE  PendingOK'
<1> USE DEF IndInv
<1>0. requests' \subseteq Id
  BY StepPreserves DEF TypeOK
<1>1. ASSUME NEW e \in Remote, RequestFrom(e) \/ RequestMore(e)
      PROVE  PendingOK'
  <2>1. \/ \E T, O : SendRequest(e, T, O)
        \/ UNCHANGED <<req, requests, requestsForOp>>
    BY <1>1 DEF RequestFrom, RequestMore, pendingTables
  <2> QED
    BY <2>1, SendingExpects DEF PendingOK, Expected, ExpectedFrom, NothingMore
<1>2. ASSUME \/ BeginAttempt \/ EndAttempt \/ UNCHANGED vars
             \/ \E e \in Remote : RequestFails(e) \/ \E S \in States : OnNewHistory(e, S)
      PROVE  PendingOK'
  <2>1. UNCHANGED <<req, requests, requestsForOp>>
    BY <1>2 DEF BeginAttempt, EndAttempt, RequestFails, OnNewHistory, vars, pendingTables
  <2> QED
    BY <2>1 DEF PendingOK, Expected, ExpectedFrom, NothingMore
<1>3. ASSUME NEW r \in Id, OnReceivingResponse(r)
      PROVE  PendingOK'
  <2> DEFINE M == MissingState(req[r])
             st == IF M = {} THEN "processing" ELSE "blocked"
  <2>0. UNCHANGED <<requests, requestsForOp>> /\ r \in requests /\ req[r].status = "sent"
    BY <1>3 DEF OnReceivingResponse, pendingTables
  <2>1. req[r].sending = {}
    BY <2>0 DEF PendingOK, NothingMore
  <2>2. \E H, W : req' = [req EXCEPT ![r].history = H, ![r].sending = W, ![r].missing = M,
                                    ![r].status = st]
    BY <1>3 DEF OnReceivingResponse
  <2> HIDE DEF M
  <2>3. req'[r].ops = req[r].ops /\ req'[r].status = st
    BY <2>2 DEF TypeOK, RequestInfo
  <2>4. \A x \in Id \ {r} : req'[x] = req[x]
    BY <2>2 DEF TypeOK
  <2>5. Expected'
    <3> SUFFICES ASSUME NEW h \in Header, NEW x \in requestsForOp[h]
                 PROVE  x \in requests /\ h \in req'[x].ops \cup req'[x].sending
      BY <2>0 DEF Expected, ExpectedFrom
    <3>1. x \in requests /\ x \in Id /\ h \in req[x].ops \cup req[x].sending
      BY DEF PendingOK, Expected, ExpectedFrom, TypeOK
    <3> QED
      BY <2>1, <2>3, <2>4, <3>1
  <2>6. NothingMore'
    BY <2>0, <2>3, <2>4 DEF PendingOK, NothingMore
  <2> QED
    BY <2>5, <2>6 DEF PendingOK
<1>4. ASSUME NEW r \in Id, CleanupRequests({r}), r \in requests,
             req' = [req EXCEPT ![r] = NoRequest]
      PROVE  PendingOK'
  <2>1. \A h \in Header : requestsForOp'[h] = requestsForOp[h] \ {r}
    BY <1>4, CleanupForgets
  <2>2. requests' = requests \ {r} /\ \A x \in Id \ {r} : req'[x] = req[x]
    BY <1>4 DEF CleanupRequests, TypeOK
  <2>3. req'[r].status = "none"
    BY <1>4 DEF NoRequest, NewRequest, TypeOK
  <2>4. Expected'
    <3> SUFFICES ASSUME NEW h \in Header, NEW x \in requestsForOp'[h]
                 PROVE  x \in requests' /\ h \in req'[x].ops \cup req'[x].sending
      BY DEF Expected, ExpectedFrom
    <3>1. x # r /\ x \in requests /\ x \in Id /\ h \in req[x].ops \cup req[x].sending
      BY <2>1 DEF PendingOK, Expected, ExpectedFrom, TypeOK
    <3> QED
      BY <2>2, <3>1
  <2>5. NothingMore'
    BY <2>2, <2>3 DEF PendingOK, NothingMore
  <2> QED
    BY <2>4, <2>5 DEF PendingOK
<1>5. ASSUME NEW r \in Id, OnReceivingUnjustifiedResponse(r)
      PROVE  PendingOK'
  BY <1>4, <1>5 DEF OnReceivingUnjustifiedResponse
<1>6. ASSUME NEW r \in Id, ProcessResponse(r)
      PROVE  PendingOK'
  <2> DEFINE q     == req[r]
             freed == [h \in Header |-> IF h \in q.ops THEN requestsForOp[h] \ {r}
                                                        ELSE requestsForOp[h]]
             table == [h \in Header |-> IF h \in q.sending THEN freed[h] \cup {r}
                                                            ELSE freed[h]]
             done  == q.sending = {}
             n     == [q EXCEPT !.status = "accepted"]
  <2>1. /\ requestsForOp' = table
        /\ req' = [req EXCEPT ![r] = IF done \/ r \notin requests THEN NoRequest ELSE n]
        /\ requests' = IF done THEN requests \ {r} ELSE requests
        /\ q.status = "processing"
    BY <1>6 DEF ProcessResponse
  <2>2. \A h \in Header : /\ r \in table[h] <=> h \in q.sending
                          /\ table[h] \ {r} = requestsForOp[h] \ {r}
    <3> SUFFICES ASSUME NEW h \in Header
                 PROVE  r \in table[h] <=> h \in q.sending
                        /\ table[h] \ {r} = requestsForOp[h] \ {r}
      OBVIOUS
    <3>1. r \in requestsForOp[h] => h \in q.ops \cup q.sending
      BY DEF PendingOK, Expected, ExpectedFrom
    <3> HIDE DEF q
    <3> QED
      BY <3>1
  <2>3. \A x \in Id \ {r} : req'[x] = req[x]
    BY <2>1 DEF TypeOK
  <2>4. r \notin requests => q.sending = {}
    BY <2>1 DEF PendingOK, NothingMore
  <2>5. n.status = "accepted" /\ n.ops = q.ops /\ n.sending = q.sending
    BY DEF TypeOK, RequestInfo
  <2>6. IF done THEN req'[r].status = "none"
                ELSE req'[r] = n /\ r \in requests
    <3>1. NoRequest.status = "none"
      BY DEF NoRequest, NewRequest
    <3> HIDE DEF q, n
    <3> QED
      BY <2>1, <2>4, <3>1 DEF TypeOK
  <2> HIDE DEF q, n, table, freed
  <2>7. Expected'
    <3> SUFFICES ASSUME NEW h \in Header, NEW x \in table[h]
                 PROVE  x \in requests' /\ h \in req'[x].ops \cup req'[x].sending
      BY <2>1 DEF Expected, ExpectedFrom
    <3>1. CASE x = r
      BY <2>1, <2>2, <2>5, <2>6, <3>1
    <3>2. CASE x # r
      <4>1. x \in requestsForOp[h]
        BY <2>2, <3>2
      <4>2. x \in requests /\ x \in Id /\ h \in req[x].ops \cup req[x].sending
        BY <4>1 DEF PendingOK, Expected, ExpectedFrom, TypeOK
      <4> QED
        BY <2>1, <2>3, <3>2, <4>2
    <3> QED
      BY <3>1, <3>2
  <2>8. NothingMore'
    <3>1. req'[r].status \in {"none", "accepted"}
      BY <2>5, <2>6
    <3>2. \A x \in Id \ {r} : x \in requests' <=> x \in requests
      BY <2>1
    <3> QED
      BY <2>3, <3>1, <3>2 DEF PendingOK, NothingMore
  <2> QED
    BY <2>7, <2>8 DEF PendingOK
<1>7. ASSUME NEW r \in Id, UNCHANGED <<requests, requestsForOp>>,
             \A x \in Id : /\ req'[x].ops = req[x].ops /\ req'[x].sending = req[x].sending
                           /\ req'[x].status = req[x].status
      PROVE  PendingOK'
  <2>1. Expected'
    <3> SUFFICES ASSUME NEW h \in Header, NEW x \in requestsForOp[h]
                 PROVE  x \in requests /\ h \in req'[x].ops \cup req'[x].sending
      BY <1>7 DEF Expected, ExpectedFrom
    <3>1. x \in requests /\ x \in Id /\ h \in req[x].ops \cup req[x].sending
      BY DEF PendingOK, Expected, ExpectedFrom, TypeOK
    <3> QED
      BY <1>7, <3>1
  <2>2. NothingMore'
    BY <1>7 DEF PendingOK, NothingMore
  <2> QED
    BY <2>1, <2>2 DEF PendingOK
<1>8. ASSUME NEW r \in Id, BufferLiterals(r)
      PROVE  PendingOK'
  <2>1. req' = [req EXCEPT ![r].buffered = TRUE] /\ UNCHANGED <<requests, requestsForOp>>
    BY <1>8 DEF BufferLiterals, pendingTables
  <2>2. \A x \in Id : /\ req'[x].ops = req[x].ops /\ req'[x].sending = req[x].sending
                      /\ req'[x].status = req[x].status
    BY <2>1 DEF TypeOK, RequestInfo
  <2> QED
    BY <1>7, <2>1, <2>2
<1>9. ASSUME NEW r \in Id, ProcessLiteral(r)
      PROVE  PendingOK'
  <2>1. \/ /\ CleanupRequests({r}) /\ req' = [req EXCEPT ![r] = NoRequest] /\ r \in requests
        \/ /\ req' = [req EXCEPT ![r].next = @ + 1]
           /\ UNCHANGED <<requests, requestsForOp>>
    BY <1>9 DEF ProcessLiteral, pendingTables
  <2>2. ASSUME req' = [req EXCEPT ![r].next = @ + 1], UNCHANGED <<requests, requestsForOp>>
        PROVE  PendingOK'
    <3>1. \A x \in Id : /\ req'[x].ops = req[x].ops /\ req'[x].sending = req[x].sending
                        /\ req'[x].status = req[x].status
      BY <2>2 DEF TypeOK, RequestInfo
    <3> QED
      BY <1>7, <2>2, <3>1
  <2> QED
    BY <1>4, <2>1, <2>2
<1>10. ASSUME NEW h \in Header, OnNewLocalOp(h)
       PROVE  PendingOK'
  <2>1. requests' = requests
    BY <1>10 DEF OnNewLocalOp
  <2>2. \A x \in Header : requestsForOp'[x] \subseteq requestsForOp[x]
    BY <1>10 DEF OnNewLocalOp, MarkOpAsFetched, ForgetOpRequests, pendingTables, TypeOK
  <2>3. ASSUME NEW r \in Id
        PROVE  /\ req'[r].ops = req[r].ops /\ req'[r].sending = req[r].sending
               /\ \/ req'[r].status = req[r].status
                  \/ r \in requests /\ req'[r].status # "sent"
    <3>1. \/ req'[r] = req[r]
          \/ r \in requests /\ req'[r] = Unblocked(r, h)
      BY <1>10 DEF OnNewLocalOp, MarkOpAsFetched
    <3>2. req[r] \in RequestInfo
      BY DEF TypeOK
    <3>3. ASSUME req'[r] = Unblocked(r, h)
          PROVE  /\ req'[r].ops = req[r].ops /\ req'[r].sending = req[r].sending
                 /\ req'[r].status = req[r].status \/ req'[r].status = "processing"
      BY <3>2, <3>3 DEF Unblocked, RequestInfo
    <3> QED
      BY <3>1, <3>3
  <2>4. Expected'
    <3> SUFFICES ASSUME NEW x \in Header, NEW r \in requestsForOp[x]
                 PROVE  r \in requests /\ x \in req'[r].ops \cup req'[r].sending
      BY <2>1, <2>2 DEF Expected, ExpectedFrom
    <3>1. r \in requests /\ r \in Id /\ x \in req[r].ops \cup req[r].sending
      BY DEF PendingOK, Expected, ExpectedFrom, TypeOK
    <3> QED
      BY <2>3, <3>1
  <2>5. NothingMore'
    BY <2>1, <2>3 DEF PendingOK, NothingMore
  <2> QED
    BY <2>4, <2>5 DEF PendingOK
<1>11. ASSUME CheckRequestTimeouts
       PROVE  PendingOK'
  <2>1. PICK R : /\ R \subseteq MayTimeOut /\ CleanupRequests(Finished \cup R)
                 /\ req' = [r \in Id |-> IF r \in Finished \cup R /\ req[r].status # "processing"
                                         THEN NoRequest ELSE req[r]]
    BY <1>11 DEF CheckRequestTimeouts
  <2> DEFINE G == Finished \cup R
  <2>2. G \subseteq requests /\ requests' = requests \ G
    BY <2>1 DEF CleanupRequests, Finished, MayTimeOut
  <2>3. \A h \in Header : requestsForOp'[h] = requestsForOp[h] \ G
    BY <2>1, <2>2, CleanupForgets
  <2>4. \A r \in G : req[r].status = "processing" => req[r].sending = {}
    BY <2>1 DEF Finished, MayTimeOut, Answered
  <2>5. \A r \in Id : \/ req'[r] = req[r] /\ (r \notin G \/ req[r].status = "processing")
                      \/ r \in G /\ req'[r] = NoRequest
    BY <2>1
  <2>6. NoRequest.status = "none"
    BY DEF NoRequest, NewRequest
  <2> HIDE DEF G
  <2>7. Expected'
    <3> SUFFICES ASSUME NEW h \in Header, NEW r \in requestsForOp'[h]
                 PROVE  r \in requests' /\ h \in req'[r].ops \cup req'[r].sending
      BY DEF Expected, ExpectedFrom
    <3>1. r \notin G /\ r \in requests /\ r \in Id /\ h \in req[r].ops \cup req[r].sending
      BY <2>3 DEF PendingOK, Expected, ExpectedFrom, TypeOK
    <3> QED
      BY <2>2, <2>5, <3>1
  <2>8. NothingMore'
    BY <2>2, <2>4, <2>5, <2>6 DEF PendingOK, NothingMore
  <2> QED
    BY <2>7, <2>8 DEF PendingOK
<1> QED
  BY <1>1, <1>2, <1>3, <1>5, <1>6, <1>8, <1>9, <1>10, <1>11 DEF Next

(* If no request times out while its response is processed, then an op that *)
(* is marked as on its way is always expected from a request that is there: *)
(* no order of responses, failures and cancellations leaves a mark behind  *)
(* that would keep the op from being asked for again.                      *)
THEOREM PendingAreRequested ==
    ASSUME ~SlowProcessing
    PROVE  Spec => []PendingHaveRequests
<1>1. Init => PendingOK
  BY DEF Init, PendingOK, Expected, NothingMore, NoRequest, NewRequest
<1>2. IndInv /\ PendingOK /\ [Next]_vars => PendingOK'
  BY StepKeepsPending
<1>3. PendingOK => PendingHaveRequests
  BY DEF PendingOK, Expected, PendingHaveRequests
<1> QED
  BY <1>1, <1>2, <1>3, SynchronizerInvariant, PTL DEF Spec
=============================================================================
