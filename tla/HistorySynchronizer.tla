------------------------- MODULE HistorySynchronizer -------------------------
(***************************************************************************)
(* The requesting side of header based sync                                *)
(* (src/mesh/agents/state/history/HistorySynchronizer.ts) for one mutable  *)
(* object. It learns headers from the states its peers gossip and from the *)
(* history in their responses (discoveredHistory), asks for missing headers*)
(* and for ops that can be applied, and forgets a header once its op is in *)
(* the store. Handlers, the store's callbacks, the attempt loop and the    *)
(* timeout timer interleave at every await.                                *)
(*                                                                         *)
(* Every header stands for one op, so ops are named by their headers;      *)
(* headers are numbered in causal order. An op travels as one literal. The *)
(* peers are external: each has every header, and answers honestly, within *)
(* its limits. How many ops causalClosure() returns is taken from what     *)
(* CausalClosure.tla establishes, not from its walk.                       *)
(***************************************************************************)
EXTENDS Naturals, FiniteSets, FiniteSetsExt

CONSTANTS
    N,                      \* headers are 1 .. N
    prevOf,
    Stored,                 \* headers whose ops are in the store at first
    Remote,
    States,                 \* the states peers gossip: sets of terminal headers
    MaxRequests,            \* bound: ids in use at a time
    MaxRequestsPerRemote,
    MaxPendingOps, MinRequestedOps,
    MaxFailures,            \* bound: requests that may not be sent, time out or be refused
    SlowProcessing          \* a timeout may strike while a response is processed

Header == 1 .. N
Id == 1 .. MaxRequests

ASSUME SynchronizerAssumption ==
    /\ N \in Nat /\ MaxRequests \in Nat /\ MaxFailures \in Nat
    /\ Remote # {}
    /\ prevOf \in [Header -> SUBSET Header]
    /\ \A h \in Header : prevOf[h] \subseteq 1 .. (h - 1)
    /\ Stored \subseteq Header
    /\ \A h \in Stored : prevOf[h] \subseteq Stored
    /\ States \subseteq SUBSET Header
    /\ SlowProcessing \in BOOLEAN

VARIABLES
    store,                  \* ops in the store
    unmarked,               \* stored ops whose onNewLocalOp() is still to run
    discovered,             \* discoveredHistory.contents
    remoteState,            \* remoteStateFragments: per remote, a set of headers
    requests,               \* ids in the requests map
    req,                    \* RequestInfo of each id
    requestsForOp, requestsForOpHistory, requestsBlockedByOpHeader,
    requestedOps,           \* contents of the fragment of that name
    activeRequests,
    newRequestsLock, needToRetry,
    attempt,                \* the running attemptNewRequestsSerially()
    gossiped,               \* bound: each remote gossips each state once
    failures

stores == <<store, unmarked>>
histories == <<discovered, remoteState>>
pendingTables == <<requestsForOp, requestsForOpHistory, requestedOps>>
attempts == <<newRequestsLock, needToRetry, attempt>>
vars == <<stores, histories, requests, req, pendingTables, requestsBlockedByOpHeader,
          activeRequests, attempts, gossiped, failures>>

Status == {"none", "sent", "blocked", "processing", "accepted"}

(* terminal, start: requestedTerminal- and requestedStartingOpHistory; ops:*)
(* requestedOps; current: currentState; history, sending: of the response; *)
(* buffered: all the literals are in pendingLiterals; next: nextOpSequence;*)
(* missing: missingCurrentState.                                           *)
RequestInfo ==
    [remote: Remote, status: Status, terminal: SUBSET Header, start: SUBSET Header,
     ops: SUBSET Header, current: SUBSET Header, history: SUBSET Header, sending: SUBSET Header,
     buffered: BOOLEAN, next: 0 .. N, missing: SUBSET Header]

(* history: the remote histories when it began; terminal: the headers that *)
(* each remote is to be asked for; todo, more: remotes left to be sent a   *)
(* first and an additional request.                                        *)
Attempt == [running: BOOLEAN, history: [Remote -> SUBSET Header],
            terminal: [Remote -> SUBSET Header], todo: SUBSET Remote, more: SUBSET Remote]

NewRequest(e, T, S, O, C) ==
    [remote |-> e, status |-> "sent", terminal |-> T, start |-> S, ops |-> O, current |-> C,
     history |-> {}, sending |-> {}, buffered |-> FALSE, next |-> 0, missing |-> {}]

NoRequest == [NewRequest(CHOOSE e \in Remote : TRUE, {}, {}, {}, {}) EXCEPT !.status = "none"]

NoAttempt == [running |-> FALSE, history |-> [e \in Remote |-> {}],
              terminal |-> [e \in Remote |-> {}], todo |-> {}, more |-> {}]

TypeOK ==
    /\ store \subseteq Header /\ unmarked \subseteq store
    /\ discovered \subseteq Header
    /\ remoteState \in [Remote -> SUBSET Header]
    /\ requests \subseteq Id
    /\ req \in [Id -> RequestInfo]
    /\ requestsForOp \in [Header -> SUBSET Id]
    /\ requestsForOpHistory \in [Header -> SUBSET Id]
    /\ requestsBlockedByOpHeader \in [Header -> SUBSET Id]
    /\ requestedOps \subseteq discovered
    /\ activeRequests \in [Remote -> SUBSET Id]
    /\ newRequestsLock \in BOOLEAN /\ needToRetry \in BOOLEAN
    /\ attempt \in Attempt
    /\ gossiped \subseteq Remote \X States
    /\ failures \in 0 .. MaxFailures

Init ==
    /\ store = Stored /\ unmarked = {}
    /\ discovered = {}
    /\ remoteState = [e \in Remote |-> {}]
    /\ requests = {}
    /\ req = [r \in Id |-> NoRequest]
    /\ requestsForOp = [h \in Header |-> {}]
    /\ requestsForOpHistory = [h \in Header |-> {}]
    /\ requestsBlockedByOpHeader = [h \in Header |-> {}]
    /\ requestedOps = {}
    /\ activeRequests = [e \in Remote |-> {}]
    /\ newRequestsLock = FALSE /\ needToRetry = FALSE
    /\ attempt = NoAttempt
    /\ gossiped = {}
    /\ failures = 0

-----------------------------------------------------------------------------
(* Fragments, as in HistoryFragment.tla.                                   *)
Missing(S) == {p \in Header \ S : \E h \in S : p \in prevOf[h]}

TerminalOf(S) == {h \in S : \A x \in S : h \notin prevOf[x]}

(* filterByTerminalOpHeaders(): what of K is reached backwards from S      *)
(* without leaving K (headers are numbered in causal order).               *)
Reached(K, S) ==
    LET N1 == N + 1
        in[k \in Header] ==     \* of header N1 - k
          LET h == N1 - k
          IN  h \in K /\ (h \in S \/ \E j \in 1 .. (k - 1) : h \in prevOf[N1 - j] /\ in[j])
    IN  {h \in Header : in[N1 - h]}

(* causalClosure(): the headers of F that follow from the provided ones    *)
(* through permitted ones, and the results it may return (CausalOrder and  *)
(* FirstLayerDelivered in CausalClosure.tla).                              *)
ClosureOf(F, provided, permitted) ==
    LET in[h \in Header] ==
          h \in F \cap permitted /\ \A p \in prevOf[h] : p \in provided \/ in[p]
    IN  {h \in Header : in[h]}

FirstLayer(F, provided, permitted) == {h \in F \cap permitted : prevOf[h] \subseteq provided}

CausalClosure(F, provided, permitted, max) ==
    {A \in SUBSET ClosureOf(F, provided, permitted) :
        /\ \A h \in A : prevOf[h] \subseteq provided \cup A
        /\ Cardinality(A) <= max
        /\ FirstLayer(F, provided, permitted) \subseteq A \/ Cardinality(A) = max}

(* localStateFragment, and the state the agent gossips: they are updated   *)
(* one after the other, and taken to be equal.                             *)
LocalState == TerminalOf(store \ unmarked)

(* attemptNewRequests(): takes the lock, or leaves a note for its holder.  *)
AttemptNewRequests(wanted) ==
    /\ newRequestsLock' = (newRequestsLock \/ wanted)
    /\ needToRetry' = (needToRetry \/ wanted)
    /\ UNCHANGED attempt

(* cleanupRequest() for those of R that are still in the map.              *)
Without(table, R) == [h \in Header |-> table[h] \ R]

ExpectedFromRequest(r) == req[r].ops    \* mutant: the ops of the response are forgotten

ExpectedFrom(r) == req[r].ops \cup req[r].sending

CleanupRequests(R) ==
    LET gone == R \cap requests
    IN  /\ requests' = requests \ gone
        /\ requestsForOp' = [h \in Header |->
                               requestsForOp[h] \ {r \in gone : h \in ExpectedFrom(r)}]
        /\ requestsForOpHistory' = Without(requestsForOpHistory, gone)
        /\ requestsBlockedByOpHeader' = Without(requestsBlockedByOpHeader, gone)
        /\ requestedOps' = requestedOps \ {h \in discovered :
              requestsForOp'[h] = {} /\ \E r \in gone : h \in ExpectedFrom(r)}
        /\ activeRequests' = [e \in Remote |-> activeRequests[e] \ gone]

-----------------------------------------------------------------------------
(* onNewHistory(): a peer gossips its state, the terminal headers S.       *)
OnNewHistory(e, S) ==
    /\ <<e, S>> \notin gossiped
    /\ gossiped' = gossiped \cup {<<e, S>>}
    /\ discovered' = discovered \cup (S \ store)
    /\ remoteState' = [remoteState EXCEPT ![e] = TerminalOf(@ \cup (S \ store))]
    /\ AttemptNewRequests(TRUE)
    /\ UNCHANGED <<stores, requests, req, pendingTables, requestsBlockedByOpHeader,
                   activeRequests, failures>>

(* attemptNewRequestsSerially(), up to the loop that sends: the history of *)
(* each remote is frozen, and each header at the edge of what is known is  *)
(* assigned to one of the remotes that have it and a slot free.            *)
RemoteHistory(e) == Reached(discovered, remoteState[e])

CanSendNewRequestTo(e) == Cardinality(activeRequests[e]) < MaxRequestsPerRemote

Sources(h) == {e \in Remote : CanSendNewRequestTo(e) /\ h \in Missing(RemoteHistory(e))}

ToFetch ==
    {h \in Missing(discovered) :
        requestsForOpHistory[h] = {} /\ h \notin store /\ Sources(h) # {}}

NothingToRequest == discovered = {} \/ Cardinality(requestedOps) > MinRequestedOps

BeginAttempt ==
    /\ newRequestsLock /\ ~attempt.running /\ needToRetry
    /\ needToRetry' = FALSE
    /\ \E source \in [ToFetch -> Remote] :
          /\ \A h \in ToFetch : source[h] \in Sources(h)
          /\ attempt' = [running  |-> TRUE,
                         history  |-> [e \in Remote |-> RemoteHistory(e)],
                         terminal |-> [e \in Remote |-> {h \in ToFetch : source[h] = e}],
                         todo     |-> IF NothingToRequest THEN {}
                                      ELSE {e \in Remote : remoteState[e] # {}},
                         more     |-> {}]
    /\ UNCHANGED <<stores, histories, requests, req, pendingTables,
                   requestsBlockedByOpHeader, activeRequests, newRequestsLock, gossiped, failures>>

(* computeStartingOps(): what precedes the part of the remote's history    *)
(* that is still to be requested, if stored or on its way, and our state.  *)
StartingOps(F) ==
    (Missing(F \ requestedOps) \cap (requestedOps \cup store)) \cup LocalState

(* findOpsToRequest(). It looks for header hashes among the keys of        *)
(* requestsForOp, which are op hashes: only stored headers are starting    *)
(* points.                                                                 *)
StartsAnywhere(F) == Missing(F)     \* mutant: whether they are stored is not asked

StartsFrom(F) == Missing(F) \cap store

OpsToRequest(F) ==
    LET max == IF Cardinality(requestedOps) < MaxPendingOps
               THEN MaxPendingOps - Cardinality(requestedOps) ELSE 0
    IN  CausalClosure(F, StartsFrom(F), {h \in Header : requestsForOp[h] = {}}, max)

(* request() and sendRequest(), of the headers T and the ops O.            *)
UnusedIds == {r \in Id \ requests : req[r].status # "processing"}

SendRequest(e, T, O) ==
    LET r == Min(UnusedIds)
    IN  /\ UnusedIds # {}
        /\ req' = [req EXCEPT ![r] = NewRequest(e, T, IF T = {} THEN {} ELSE LocalState, O,
                                                StartingOps(attempt.history[e]))]
        /\ requests' = requests \cup {r}
        /\ activeRequests' = [activeRequests EXCEPT ![e] = @ \cup {r}]
        /\ requestsForOp' = [h \in Header |-> IF h \in O THEN requestsForOp[h] \cup {r}
                                                          ELSE requestsForOp[h]]
        /\ requestedOps' = requestedOps \cup (O \cap discovered)
        /\ requestsForOpHistory' =
             [h \in Header |-> IF h \in T THEN requestsForOpHistory[h] \cup {r}
                                          ELSE requestsForOpHistory[h]]

RequestFrom(e) ==
    /\ e \in attempt.todo /\ attempt.more = {}
    /\ \E O \in OpsToRequest(attempt.history[e]) :
          IF attempt.terminal[e] = {} /\ O = {}
          THEN /\ attempt' = [attempt EXCEPT !.todo = @ \ {e}]
               /\ UNCHANGED <<req, requests, activeRequests, pendingTables>>
          ELSE /\ SendRequest(e, attempt.terminal[e], O)
               /\ attempt' = [attempt EXCEPT !.todo = @ \ {e},
                     !.more = IF Cardinality(requestedOps') < MaxPendingOps THEN {e} ELSE {}]
    /\ UNCHANGED <<stores, histories, requestsBlockedByOpHeader, newRequestsLock,
                   needToRetry, gossiped, failures>>

(* The message cannot be sent: the request is cleaned up at once.          *)
RequestFails(e) ==
    /\ e \in attempt.more \/ (e \in attempt.todo /\ attempt.more = {})
    /\ attempt.terminal[e] # {} \/ \E O \in OpsToRequest(attempt.history[e]) : O # {}
    /\ failures < MaxFailures
    /\ failures' = failures + 1
    /\ attempt' = [attempt EXCEPT !.todo = @ \ {e}, !.more = {}]
    /\ UNCHANGED <<stores, histories, requests, req, pendingTables, activeRequests,
                   requestsBlockedByOpHeader, newRequestsLock, needToRetry, gossiped>>

(* An additional request for ops only, if the remote has a slot left.      *)
RequestMore(e) ==
    /\ e \in attempt.more
    /\ attempt' = [attempt EXCEPT !.more = {}]
    /\ \E O \in OpsToRequest(attempt.history[e]) :
          IF CanSendNewRequestTo(e) /\ O # {}
          THEN SendRequest(e, {}, O)
          ELSE UNCHANGED <<req, requests, activeRequests, pendingTables>>
    /\ UNCHANGED <<stores, histories, requestsBlockedByOpHeader, newRequestsLock,
                   needToRetry, gossiped, failures>>

ReleasesAnyway == TRUE      \* mutant: the note left meanwhile is ignored

Releases == ~needToRetry

EndAttempt ==
    /\ attempt.running /\ attempt.todo = {} /\ attempt.more = {}
    /\ attempt' = NoAttempt
    /\ newRequestsLock' = ~Releases
    /\ UNCHANGED <<stores, histories, requests, req, pendingTables, activeRequests,
                   requestsBlockedByOpHeader, needToRetry, gossiped, failures>>

-----------------------------------------------------------------------------
(* What an honest peer answers (external, see HistoryProvider.tla): the    *)
(* history from the headers asked for back to the starting ones, or those  *)
(* headers alone when a limit cuts it; the ops asked for, or the first of  *)
(* them when a limit cuts them; and, if they were not cut, ops of that     *)
(* history that follow from the stated current state.                      *)
Past(S) == Reached(Header, S)

Histories(q) == {q.terminal, Past(q.terminal) \ Past(q.start)}

Sendings(q, H) ==
    LET extra == ClosureOf(H, q.current, Header)
    IN  {q.ops, q.ops \cup extra} \cup {{h \in q.ops : h <= k} : k \in q.ops}

(* validateResponse(): ops that were not asked for must follow from the    *)
(* store.                                                                  *)
Justified(q, W) == Missing(W \ q.ops) \subseteq store

(* onReceivingResponse() of a valid response. The request is blocked until *)
(* everything the current state it stated is stored, since the response may*)
(* leave out what that state holds.                                        *)
MissingState(q) == q.current \ store

OnReceivingResponse(r) ==
    /\ r \in requests /\ req[r].status = "sent"
    /\ \E H \in Histories(req[r]) : \E W \in Sendings(req[r], H) :
          /\ Justified(req[r], W)
          /\ req' = [req EXCEPT ![r].history = H, ![r].sending = W,
                                ![r].missing = MissingState(req[r]),
                                ![r].status = IF MissingState(req[r]) = {} THEN "processing"
                                                                           ELSE "blocked"]
    /\ requestsBlockedByOpHeader' =
         [h \in Header |-> IF h \in MissingState(req[r])
                           THEN requestsBlockedByOpHeader[h] \cup {r}
                           ELSE requestsBlockedByOpHeader[h]]
    /\ UNCHANGED <<stores, histories, requests, pendingTables, activeRequests, attempts,
                   gossiped, failures>>

(* A response that does not pass is cancelled, and nothing else is tried.  *)
OnReceivingUnjustifiedResponse(r) ==
    /\ r \in requests /\ req[r].status = "sent"
    /\ \E H \in Histories(req[r]) : \E W \in Sendings(req[r], H) : ~Justified(req[r], W)
    /\ failures < MaxFailures
    /\ failures' = failures + 1
    /\ CleanupRequests({r})
    /\ req' = [req EXCEPT ![r] = NoRequest]
    /\ UNCHANGED <<stores, histories, attempts, gossiped>>

(* attemptToProcessResponse(), once the omission proofs are validated: what*)
(* was asked for is no longer expected, what is being sent is. Nothing     *)
(* looks whether the request is still there.                               *)
ImportHistory(r) == discovered \cup (req[r].history \ store)

ProcessResponse(r) ==
    /\ req[r].status = "processing"
    /\ LET q     == req[r]
           freed == [h \in Header |-> IF h \in q.ops THEN requestsForOp[h] \ {r}
                                                      ELSE requestsForOp[h]]
           table == [h \in Header |-> IF h \in q.sending THEN freed[h] \cup {r} ELSE freed[h]]
           kept  == requestedOps \ {h \in q.ops \cap ImportHistory(r) : freed[h] = {}}
           done  == q.sending = {}
           over  == done \/ r \notin requests
       IN  /\ discovered' = ImportHistory(r)
           /\ requestsForOp' = table
           /\ requestedOps' = kept \cup (q.sending \cap ImportHistory(r))
           /\ requestsForOpHistory' = Without(requestsForOpHistory, {r})
           /\ req' = [req EXCEPT ![r] = IF over THEN NoRequest ELSE [q EXCEPT !.status = "accepted"]]
           /\ requests' = IF done THEN requests \ {r} ELSE requests
           /\ activeRequests' = IF done THEN [activeRequests EXCEPT ![q.remote] = @ \ {r}]
                                        ELSE activeRequests
           /\ AttemptNewRequests(done)
    /\ UNCHANGED <<stores, remoteState, requestsBlockedByOpHeader, gossiped, failures>>

(* onReceivingLiteral() before the response was processed: literals wait in*)
(* a buffer, here until all of them have arrived.                          *)
BufferLiterals(r) ==
    /\ r \in requests
    /\ req[r].status \in {"blocked", "processing"}
    /\ ~req[r].buffered /\ req[r].sending # {}
    /\ req' = [req EXCEPT ![r].buffered = TRUE]
    /\ UNCHANGED <<stores, histories, requests, pendingTables, requestsBlockedByOpHeader,
                   activeRequests, attempts, gossiped, failures>>

(* onReceivingLiteral() after that, and processLiteral(): the next op is   *)
(* saved; after the last one the request is removed.                       *)
NextOp(q) == CHOOSE h \in q.sending : Cardinality({x \in q.sending : x < h}) = q.next

ProcessLiteral(r) ==
    /\ r \in requests /\ req[r].status = "accepted"
    /\ store' = store \cup {NextOp(req[r])}
    /\ unmarked' = IF NextOp(req[r]) \in store THEN unmarked ELSE unmarked \cup {NextOp(req[r])}
    /\ IF req[r].next + 1 = Cardinality(req[r].sending)
       THEN /\ CleanupRequests({r})
            /\ req' = [req EXCEPT ![r] = NoRequest]
            /\ AttemptNewRequests(TRUE)
       ELSE /\ req' = [req EXCEPT ![r].next = @ + 1]
            /\ UNCHANGED <<requests, pendingTables, requestsBlockedByOpHeader,
                           activeRequests, attempts>>
    /\ UNCHANGED <<histories, gossiped, failures>>

(* onNewLocalOp(), called by the store after the op was saved, and         *)
(* markOpAsFetched() if the op's header is known: the header is forgotten, *)
(* and requests that it blocked go on.                                     *)
UnblockedKept(r, h) == req[r]       \* mutant: blocked requests are not told

Unblocked(r, h) ==
    [req[r] EXCEPT !.missing = @ \ {h},
                   !.status = IF @ = "blocked" /\ req[r].missing \subseteq {h} THEN "processing"
                                                                               ELSE @]

ForgetOpRequests(h) ==
    /\ requestsForOp' = [requestsForOp EXCEPT ![h] = {}]
    /\ requestedOps' = requestedOps \ {h}

MarkOpAsFetched(h) ==
    /\ discovered' = discovered \ {h}
    /\ remoteState' = [e \in Remote |-> remoteState[e] \ {h}]
    /\ ForgetOpRequests(h)
    /\ requestsForOpHistory' = [requestsForOpHistory EXCEPT ![h] = {}]
    /\ req' = [r \in Id |-> IF r \in requestsBlockedByOpHeader[h] \cap requests
                            THEN Unblocked(r, h) ELSE req[r]]
    /\ requestsBlockedByOpHeader' = [requestsBlockedByOpHeader EXCEPT ![h] = {}]

OnNewLocalOp(h) ==
    /\ h \in unmarked
    /\ unmarked' = unmarked \ {h}
    /\ IF h \in discovered THEN MarkOpAsFetched(h)
       ELSE UNCHANGED <<histories, pendingTables, req, requestsBlockedByOpHeader>>
    /\ UNCHANGED <<store, requests, activeRequests, attempts, gossiped, failures>>

(* checkRequestTimeouts(), every 5 s while there are requests: removes the *)
(* requests that will send no ops, and cancels those that timed out waiting*)
(* for a response or a literal.                                            *)
Answered(r) == req[r].status # "sent"

Finished == {r \in requests : Answered(r) /\ req[r].sending = {}}

MayTimeOut ==
    {r \in requests \ Finished :
        \/ ~Answered(r)
        \/ /\ ~req[r].buffered
           /\ req[r].status # "processing" \/ SlowProcessing}

CheckRequestTimeouts ==
    \E R \in SUBSET MayTimeOut :
        /\ Finished \cup R # {}
        /\ failures + Cardinality(R) <= MaxFailures
        /\ failures' = failures + Cardinality(R)
        /\ CleanupRequests(Finished \cup R)
        /\ req' = [r \in Id |-> IF r \in Finished \cup R /\ req[r].status # "processing"
                                THEN NoRequest ELSE req[r]]
        /\ AttemptNewRequests(TRUE)
        /\ UNCHANGED <<stores, histories, gossiped>>

-----------------------------------------------------------------------------
Next ==
    \/ \E e \in Remote :
          \/ \E S \in States : OnNewHistory(e, S)
          \/ RequestFrom(e) \/ RequestFails(e) \/ RequestMore(e)
    \/ BeginAttempt \/ EndAttempt
    \/ \E r \in Id :
          \/ OnReceivingResponse(r) \/ OnReceivingUnjustifiedResponse(r)
          \/ ProcessResponse(r) \/ BufferLiterals(r) \/ ProcessLiteral(r)
    \/ \E h \in Header : OnNewLocalOp(h)
    \/ CheckRequestTimeouts

Serves(r) ==
    \/ OnReceivingResponse(r) \/ OnReceivingUnjustifiedResponse(r)
    \/ ProcessResponse(r) \/ BufferLiterals(r) \/ ProcessLiteral(r)

(* Handlers and async functions resume, and the timer fires: some of it    *)
(* happens as long as there is any.  A peer that is not given up on answers*)
(* each request, and what it sends is taken in; and the store's callbacks  *)
(* run.  None of these is put off for ever, whatever else goes on.         *)
Proceed ==
    \/ BeginAttempt \/ EndAttempt
    \/ \E e \in Remote : RequestFrom(e) \/ RequestMore(e)
    \/ CheckRequestTimeouts

Spec ==
    /\ Init /\ [][Next]_vars
    /\ WF_vars(Proceed)
    /\ \A r \in Id : WF_vars(Serves(r))
    /\ WF_vars(\E h \in Header : OnNewLocalOp(h))

-----------------------------------------------------------------------------
(* Ops are saved in causal order, whatever the order in which requests are *)
(* sent, answered, blocked and cancelled: the store never holds an op      *)
(* without those it follows, and takes them over one at a time.            *)
StoreCausallyClosed == \A h \in store : prevOf[h] \subseteq store

Replica == INSTANCE Replication
             WITH Ops <- Header, Prev <- prevOf, Start <- Stored, history <- store
ImplementsReplication == Replica!Spec

(* An op that is marked as on its way is expected from a request that still*)
(* exists: it can be asked for again as soon as that request is gone.      *)
PendingHaveRequests == \A h \in Header : requestsForOp[h] \subseteq requests

(* No lost wake-up: a blocked request waits only for ops whose arrival will*)
(* be noticed, because their headers are still known or because the store's*)
(* callback is still to come, and it is listed under each of them.         *)
BlockedWillBeTold ==
    \A r \in requests : req[r].status = "blocked" =>
        /\ req[r].missing # {}
        /\ \A h \in req[r].missing :
              /\ r \in requestsBlockedByOpHeader[h]
              /\ h \in discovered
              /\ h \in store => h \in unmarked

(* No remote is sent more requests than it has slots.                      *)
RequestsPerRemoteBounded ==
    \A e \in Remote : Cardinality(activeRequests[e]) <= MaxRequestsPerRemote

(* The response of an honest peer is accepted: "The reply MAY contain ops  *)
(* we didn't request, if they directly follow our stated current state."   *)
HonestResponsesPass ==
    \A r \in requests : req[r].status = "sent" =>
        \A H \in Histories(req[r]) : \A W \in Sendings(req[r], H) : Justified(req[r], W)

(* What peers gossiped is eventually stored, with all that it follows, if  *)
(* no request fails.                                                       *)
Converges == <>[](failures = 0 => \A g \in gossiped : g[2] \subseteq store)
=============================================================================
