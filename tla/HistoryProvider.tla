--------------------------- MODULE HistoryProvider ---------------------------
(***************************************************************************)
(* The serving side of header based sync                                   *)
(* (src/mesh/agents/state/history/HistoryProvider.ts). A request is        *)
(* answered with a response message followed by a stream of literals, sent *)
(* in batches from a timer. Each remote has one current response; the rest *)
(* wait in a queue. createResponse() reads the store for a long time, and  *)
(* cancellations, new requests and timer ticks run between its awaits.     *)
(*                                                                         *)
(* What createResponse() computes is reduced to its outcome: the request is*)
(* found invalid, or it is answered with some number of literals. Messages *)
(* to a peer may fail to be sent (a full buffer, a closed connection).     *)
(***************************************************************************)
EXTENDS Integers, Sequences, FiniteSets, SequencesExt

CONSTANTS
    Request,            \* request ids
    Remote,             \* endpoints
    remoteOf,           \* the endpoint each request comes from
    None,
    MaxLiterals,        \* ProviderLimits.MaxLiteralsPerResponse
    LiteralBatchSize,
    MaxOutstanding      \* unanswered requests a remote has at a time

ASSUME ProviderAssumption ==
    /\ remoteOf \in [Request -> Remote]
    /\ None \notin Request
    /\ MaxLiterals \in Nat /\ LiteralBatchSize \in Nat \ {0}
    /\ MaxOutstanding \in Nat \ {0}

VARIABLES
    seen,                   \* requests received so far
    responses,              \* ids in the responses map
    currentResponses,       \* per remote, an id or None
    queuedResponses,        \* per remote, a sequence of ids
    pending,                \* requests whose createResponse() is under way
    literalsToSend,         \* per request, their number (-1: undefined)
    nextLiteralIdx,
    streamingResponses,     \* a counter
    timer,                  \* streamingResponsesInterval is set
    terminated

tables == <<responses, currentResponses, queuedResponses>>
streams == <<literalsToSend, nextLiteralIdx>>
vars == <<seen, tables, pending, streams, streamingResponses, timer, terminated>>

TypeOK ==
    /\ seen \subseteq Request
    /\ responses \subseteq seen
    /\ currentResponses \in [Remote -> seen \cup {None}]
    /\ queuedResponses \in [Remote -> Seq(seen)]
    /\ pending \subseteq seen
    /\ literalsToSend \in [Request -> -1 .. MaxLiterals]
    /\ nextLiteralIdx \in [Request -> 0 .. MaxLiterals]
    /\ streamingResponses \in Int
    /\ timer \in BOOLEAN
    /\ terminated \in BOOLEAN

Init ==
    /\ seen = {}
    /\ responses = {}
    /\ currentResponses = [x \in Remote |-> None]
    /\ queuedResponses = [x \in Remote |-> <<>>]
    /\ pending = {}
    /\ literalsToSend = [r \in Request |-> -1]
    /\ nextLiteralIdx = [r \in Request |-> 0]
    /\ streamingResponses = 0
    /\ timer = FALSE
    /\ terminated = FALSE

-----------------------------------------------------------------------------
Of(R, x) == {r \in R : remoteOf[r] = x}

(* dequeueResponse(): splice(idx) cuts the queue at the response.          *)
Dequeue(q, R) ==
    LET cuts == {i \in DOMAIN q : q[i] \in R}
    IN  IF cuts = {} THEN q
        ELSE SubSeq(q, 1, (CHOOSE i \in cuts : \A j \in cuts : i <= j) - 1)

StillCurrent(x, R) == IF currentResponses[x] \in R THEN None ELSE currentResponses[x]

NoneCreated(R) == {}                \* mutant: the next one is only unqueued

(* attemptQueuedResponse(): what leaves the queue is created at once.      *)
Created(R) == R

(* The timer is cleared by the decrement that arrives at 0.                *)
ClearsTimer(counter, ended) == counter \in 1 .. ended

(* removeResponse() of those in R that are still in the map; no two of R   *)
(* have one remote. Each leaves the tables and lets the next response in   *)
(* its remote's queue start, whether or not it was the current one         *)
(* (attemptQueuedResponse). counter, on and calls are streamingResponses,  *)
(* timer and pending when it is called; literalsToSend' is known by then.  *)
RemoveResponses(S, counter, on, calls) ==
    LET R         == S \cap responses
        left(x)   == IF Of(R, x) = {} THEN queuedResponses[x]
                                      ELSE Dequeue(queuedResponses[x], R)
        starting  == {x \in Remote : Of(R, x) # {} /\ left(x) # <<>>}
        ended     == Cardinality({r \in R : literalsToSend'[r] # -1})
    IN  /\ responses' = responses \ R
        /\ queuedResponses' =
             [x \in Remote |-> IF x \in starting THEN Tail(left(x)) ELSE left(x)]
        /\ currentResponses' =
             [x \in Remote |-> IF x \in starting THEN Head(left(x)) ELSE StillCurrent(x, R)]
        /\ pending' = calls \cup Created({Head(left(x)) : x \in starting})
        /\ streamingResponses' = counter - ended
        /\ timer' = (on /\ ~ClearsTimer(counter, ended))

-----------------------------------------------------------------------------
StartsAtOnce(r) == TRUE     \* mutant: no look at the current response

StartsNow(r) == currentResponses[remoteOf[r]] = None

(* onReceivingRequest(). A remote draws ids at random and uses each once.  *)
OnReceivingRequest(r) ==
    /\ ~terminated
    /\ r \notin seen
    /\ Cardinality(Of(responses, remoteOf[r])) < MaxOutstanding
    /\ seen' = seen \cup {r}
    /\ responses' = responses \cup {r}
    /\ IF StartsNow(r)
       THEN /\ currentResponses' = [currentResponses EXCEPT ![remoteOf[r]] = r]
            /\ pending' = pending \cup {r}
            /\ UNCHANGED queuedResponses
       ELSE /\ queuedResponses' = [queuedResponses EXCEPT ![remoteOf[r]] = Append(@, r)]
            /\ UNCHANGED <<currentResponses, pending>>
    /\ UNCHANGED <<streams, streamingResponses, timer, terminated>>

(* A request for another mutable object is rejected on arrival.            *)
OnReceivingBadRequest(r) ==
    /\ ~terminated
    /\ r \notin seen
    /\ seen' = seen \cup {r}
    /\ UNCHANGED <<tables, pending, streams, streamingResponses, timer, terminated>>

(* A remote cancels a request of its own; other cancellations are ignored. *)
OnReceivingRequestCancellation(r) ==
    /\ ~terminated
    /\ r \in responses
    /\ UNCHANGED <<seen, streams, terminated>>
    /\ RemoveResponses({r}, streamingResponses, timer, pending)

(* createResponse() finds the request invalid: rejectRequest().            *)
RejectRequest(r) ==
    /\ r \in pending /\ literalsToSend[r] = -1
    /\ UNCHANGED <<seen, streams, terminated>>
    /\ RemoveResponses({r}, streamingResponses, timer, pending \ {r})

(* createResponse() has packed n literals and awaits the omission proofs.  *)
PackLiterals(r, n) ==
    /\ r \in pending /\ literalsToSend[r] = -1
    /\ literalsToSend' = [literalsToSend EXCEPT ![r] = n]
    /\ UNCHANGED <<seen, tables, pending, nextLiteralIdx, streamingResponses, timer, terminated>>

(* sendResponse() resumes with nothing to stream: the response is complete.*)
SendEmptyResponse(r) ==
    /\ r \in pending /\ literalsToSend[r] = -1
    /\ UNCHANGED <<seen, streams, terminated>>
    /\ RemoveResponses({r}, streamingResponses, timer, pending \ {r})

Sendable(r) == r \in responses /\ literalsToSend[r] # -1

(* sendLiterals(): some literals are sent, none if the connection refuses  *)
(* the first, at most a batch. The possible next indexes.                  *)
BatchOf(r) ==
    IF Sendable(r)
    THEN nextLiteralIdx[r] .. (nextLiteralIdx[r] + LiteralBatchSize) \cap 0 .. literalsToSend[r]
    ELSE {nextLiteralIdx[r]}

(* sendResponse() resumes after PackLiterals: startStreamingResponse(). If *)
(* the request was cancelled meanwhile its literals are not sent.          *)
StartStreamingResponse(r) ==
    /\ r \in pending /\ literalsToSend[r] # -1
    /\ UNCHANGED <<seen, literalsToSend, terminated>>
    /\ \E n \in BatchOf(r) :
          /\ nextLiteralIdx' = [nextLiteralIdx EXCEPT ![r] = n]
          /\ RemoveResponses(IF n = literalsToSend[r] THEN {r} ELSE {},
                             streamingResponses + 1, TRUE, pending \ {r})

(* continueStreamingResponses(), every 100 ms while the timer is set: one  *)
(* batch for the current response of each remote. A response whose message *)
(* has not been sent is not complete yet, even if all its literals went.   *)
Streaming == {r \in responses : r = currentResponses[remoteOf[r]]}

ContinueStreamingResponses ==
    /\ timer /\ ~terminated
    /\ UNCHANGED <<seen, literalsToSend, terminated>>
    /\ \E idx \in [Streaming -> 0 .. MaxLiterals] :
          /\ \A r \in Streaming : idx[r] \in BatchOf(r)
          /\ \E r \in Streaming : idx[r] # nextLiteralIdx[r]
          /\ nextLiteralIdx' = [r \in Request |-> IF r \in Streaming THEN idx[r]
                                                                    ELSE nextLiteralIdx[r]]
          /\ RemoveResponses({r \in Streaming \ pending : idx[r] = literalsToSend[r]},
                             streamingResponses, timer, pending)

Shutdown ==
    /\ ~terminated
    /\ terminated' = TRUE
    /\ UNCHANGED <<seen, tables, pending, streams, streamingResponses, timer>>

Next ==
    \/ \E r \in Request :
          \/ OnReceivingRequest(r) \/ OnReceivingBadRequest(r)
          \/ OnReceivingRequestCancellation(r)
          \/ RejectRequest(r) \/ SendEmptyResponse(r)
          \/ \E n \in 1 .. MaxLiterals : PackLiterals(r, n)
          \/ StartStreamingResponse(r)
    \/ ContinueStreamingResponses
    \/ Shutdown

CreateResponse(r) ==
    \/ RejectRequest(r) \/ SendEmptyResponse(r)
    \/ \E n \in 1 .. MaxLiterals : PackLiterals(r, n)

StreamsLiteral(r) ==
    ContinueStreamingResponses /\ nextLiteralIdx'[r] # nextLiteralIdx[r]

(* An async function resumes after its await, the interval fires, and a    *)
(* connection that stays open drains its buffer: a response that is served *)
(* gets its literals through. Nothing makes a remote send or cancel.       *)
Spec ==
    /\ Init /\ [][Next]_vars
    /\ \A r \in Request :
          /\ WF_vars(CreateResponse(r))
          /\ WF_vars(StartStreamingResponse(r))
          /\ WF_vars(StreamsLiteral(r))

-----------------------------------------------------------------------------
Queued(x) == ToSet(queuedResponses[x])

(* The three tables agree: a response in the map is either the current one *)
(* of its remote or waits, once, in that remote's queue, and nothing else  *)
(* is in either. What is neither would never be served or removed.         *)
ServedOrQueued ==
    /\ \A r \in responses :
          (r = currentResponses[remoteOf[r]]) # (r \in Queued(remoteOf[r]))
    /\ \A x \in Remote :
          /\ currentResponses[x] \in responses \cup {None}
          /\ Queued(x) \subseteq responses
          /\ IsInjective(queuedResponses[x])

(* Every request that is taken in is answered, rejected or cancelled.      *)
EveryRequestLeaves ==
    \A r \in Request : r \in responses ~> r \notin responses \/ terminated
=============================================================================
