--------------------------- MODULE HistoryResponse ---------------------------
(***************************************************************************)
(* The history algorithms at work: how HistoryProvider.createResponse()    *)
(* chains HistoryDelta.compute(), filterByTerminalOpHeaders() (a walk) and *)
(* causalClosure(). The two public operations of a fragment that others    *)
(* call, iterateFrom() and causalClosure(), are also called by themselves, *)
(* on fragments with gaps in every place: the synchronizer does that with  *)
(* what it has discovered.                                                 *)
(***************************************************************************)
EXTENDS CausalClosure

CONSTANTS
    ResponseHistories,      \* predecessor relations of the provider's object
    Named,                  \* sets of headers that a request may name
    MaxDeltaSize, MaxBacktrackSize

ASSUME ResponseAssumption ==
    /\ ResponseHistories \subseteq Dags
    /\ Named \subseteq SUBSET Header
    /\ MaxDeltaSize \in Nat \ {0} /\ MaxBacktrackSize \in Nat

VARIABLES
    phase,      \* "delta", "filter", "closure" of a response; "walk"
    store, targets, starts, start, deltaFragment, pc    \* see HistoryDelta

D == INSTANCE HistoryDelta
         WITH Histories <- ResponseHistories, fragment <- deltaFragment

deltaVars == <<store, targets, starts, start, deltaFragment, pc>>
walkVars == <<contents, arguments, queue, visited, yielded>>
closureOnlyVars == <<callArguments, missingPrev, closure, result>>
allVars == <<phase, prevOf, deltaVars, walkVars, closureOnlyVars>>

ResponseTypeOK ==
    /\ phase = "walk" => TypeOK
    /\ phase = "closure" => ClosureTypeOK
    /\ phase # "walk" => D!TypeOK

-----------------------------------------------------------------------------
NoDelta ==
    /\ store = {} /\ targets = {} /\ starts = {}
    /\ start = {} /\ deltaFragment = {} /\ pc = "done"

NoWalk ==
    /\ contents = {} /\ direction = "backward" /\ method = "bfs"
    /\ initial = {} /\ accepted = Header
    /\ queue = <<>> /\ visited = {} /\ yielded = <<>>

NoClosure ==
    /\ provided = {} /\ maxOps = 0 /\ ignored = {} /\ permitted = Header
    /\ missingPrev = <<>> /\ closure = {} /\ result = <<>>

(* iterateFrom(), causalClosure() and createResponse() are called.         *)
WalkCall == phase = "walk" /\ Init /\ NoDelta /\ NoClosure
ClosureCall == phase = "closure" /\ ClosureInit /\ NoDelta
ResponseCall == phase = "delta" /\ D!Init /\ NoWalk /\ NoClosure

ResponseInit == WalkCall \/ ClosureCall \/ ResponseCall

-----------------------------------------------------------------------------
WalkStep ==
    /\ phase \in {"walk", "filter"}
    /\ VisitNext
    /\ UNCHANGED <<phase, deltaVars, closureOnlyVars>>

ClosureStep ==
    /\ phase = "closure"
    /\ Visit
    /\ UNCHANGED <<phase, deltaVars>>

DeltaStep ==
    /\ phase = "delta"
    /\ D!Next
    /\ UNCHANGED <<phase, walkVars, closureOnlyVars>>

StartWalk ==
    /\ queue' \in Queues'
    /\ visited' = {}
    /\ yielded' = <<>>

Unfiltered(S) == S \cup deltaFragment       \* mutant: no filter at all

FilterFrom(S) == S

(* filterByTerminalOpHeaders(requestedTerminalOpHistory)                   *)
BeginFilter ==
    /\ phase = "delta" /\ pc = "done"
    /\ UNCHANGED <<prevOf, deltaVars, closureOnlyVars>>
    /\ phase' = "filter"
    /\ contents' = deltaFragment
    /\ direction' = "backward" /\ method' = "bfs"
    /\ initial' = FilterFrom(targets)
    /\ accepted' = Header
    /\ StartWalk

(* The filtered fragment and the ops to send in a causal order: those whose*)
(* headers the peer asked for by themselves (sendingOps) are left out, and *)
(* the peer's current state, part of what it named, counts as delivered.   *)
BeginClosure ==
    /\ phase = "filter" /\ Done
    /\ UNCHANGED <<prevOf, deltaVars>>
    /\ phase' = "closure"
    /\ contents' = ToSet(yielded)
    /\ direction' = "forward" /\ method' = "full"
    /\ initial' = StartingOpHeaders'
    /\ accepted' = Header
    /\ StartWalk
    /\ provided' \in SUBSET starts
    /\ ignored' \in {S \in SUBSET contents' : Cardinality(S) <= 1}
    /\ permitted' = Header
    /\ maxOps' \in MaxOps \ {0}
    /\ missingPrev' = [h \in contents' |-> prevOf[h] \ provided']
    /\ closure' = {} /\ result' = <<>>

ResponseNext ==
    WalkStep \/ ClosureStep \/ DeltaStep \/ BeginFilter \/ BeginClosure

(* The calls are loops of single functions, and the awaits of compute()    *)
(* always return.                                                          *)
ResponseSpec ==
    ResponseInit /\ [][ResponseNext]_allVars /\ WF_allVars(ResponseNext)

-----------------------------------------------------------------------------
(* What the requester demands of the history in a response (HistorySynchro-*)
(* nizer.validateResponse): its terminal headers were requested and none of*)
(* the headers it named as known is in it. And what it counts on: below the*)
(* size limit, what it asked for is connected to what it has.              *)
ResponseAnswers ==
    phase = "closure" /\ targets # {} =>
        /\ {h \in contents : NextIn(h) = {}} \subseteq targets
        /\ contents \cap starts = {}
        /\ D!BelowLimit(deltaFragment) =>
              D!History(targets \cap store) \subseteq contents \cup D!History(start)

(* Every call ends: compute() although headers move from the delta to the  *)
(* start and the gap may widen in an iteration, the walks although a header*)
(* is queued again after it was visited.                                   *)
CallEnds ==
    <>(\/ phase = "walk" /\ Done
       \/ phase = "closure" /\ (Done \/ LimitReached))
=============================================================================
