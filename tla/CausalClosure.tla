---------------------------- MODULE CausalClosure ----------------------------
(***************************************************************************)
(* HistoryFragment.causalClosure(): the headers of a fragment that can be  *)
(* delivered, in a causal order, to a peer that has the provided ones. It  *)
(* consumes a 'full' forward walk (HistoryWalk) from the starting headers, *)
(* taking at every visit one look at what the header still misses. The     *)
(* provider orders what it sends with it and the synchronizer what it      *)
(* requests.                                                               *)
(*                                                                         *)
(* loadMissingPrevOpHeaders() fills an entry of missingPrev on first use,  *)
(* with a value that does not depend on the moment; here it is filled for  *)
(* every header of the fragment from the start.                            *)
(***************************************************************************)
EXTENDS HistoryWalk

CONSTANT MaxOps     \* values of the maxOps argument

VARIABLES
    provided, maxOps,       \* arguments
    ignored, permitted,     \* headers ignoreOpHeader and filterOpHeader hold for
    missingPrev, closure, result

callArguments == <<provided, maxOps, ignored, permitted>>
closureVars == <<vars, callArguments, missingPrev, closure, result>>

ClosureTypeOK ==
    /\ TypeOK
    /\ missingPrev \in [contents -> SUBSET Header]
    /\ closure \subseteq contents
    /\ result \in Seq(closure)

(* getStartingOpHeaders(): roots, and headers that follow a missing one.   *)
StartingOpHeaders == {h \in contents : prevOf[h] = {} \/ ~(prevOf[h] \subseteq contents)}

(* loadMissingPrevOpHeaders() *)
MissingAtFirst(h) == prevOf[h] \ provided

ClosureInit ==
    /\ Fragments
    /\ direction = "forward"
    /\ method = "full"
    /\ initial = StartingOpHeaders
    /\ accepted = Header
    /\ Start
    /\ provided \in SUBSET Header
    /\ ignored \in {Header \ F : F \in Filters}
    /\ permitted \in Filters
    /\ maxOps \in MaxOps
    /\ missingPrev = [h \in contents |-> MissingAtFirst(h)]
    /\ closure = {}
    /\ result = <<>>

-----------------------------------------------------------------------------
LimitReached == Len(result) = maxOps

MissingAfterVisitAny(h) ==          \* mutant: a visit counts as a delivery
    [x \in contents |-> IF h \in prevOf[x] THEN missingPrev[x] \ {h}
                                           ELSE missingPrev[x]]

Deliverable(h) == h \in permitted /\ missingPrev[h] = {}

(* Only a header that misses nothing is taken off the lists of those that  *)
(* follow it.                                                              *)
MissingAfterVisit(h) ==
    [x \in contents |-> IF Deliverable(h) /\ h \in prevOf[x] /\ x \in permitted
                        THEN missingPrev[x] \ {h} ELSE missingPrev[x]]

ResultAfterOps(h) ==                \* mutant: predecessors for the header
    IF h \in closure \/ h \in ignored THEN result
    ELSE result \o SetToSeq(prevOf[h] \cup {h})

ResultAfter(h) ==
    IF h \in closure \/ h \in ignored THEN result ELSE Append(result, h)

Visit ==
    /\ ~LimitReached
    /\ VisitNext
    /\ LET h == Head(queue)
       IN  /\ missingPrev' = MissingAfterVisit(h)
           /\ IF Deliverable(h)
              THEN /\ result' = ResultAfter(h)
                   /\ closure' = closure \cup {h}
              ELSE UNCHANGED <<result, closure>>
    /\ UNCHANGED callArguments

ClosureSpec == ClosureInit /\ [][Visit]_closureVars

-----------------------------------------------------------------------------
(* What the provider sends, and the synchronizer asks for, in the order of *)
(* the result: each header comes once, and only after every header it      *)
(* follows, unless the other side has that one already or it was ignored   *)
(* because it is on its way.                                               *)
CausalOrder ==
    \A i \in DOMAIN result :
        /\ \A j \in 1 .. (i - 1) : result[j] # result[i]
        /\ \A p \in prevOf[result[i]] :
              \/ p \in provided
              \/ p \in closure /\ p \in ignored
              \/ \E j \in 1 .. (i - 1) : result[j] = p

(* The caller makes progress: unless the limit was reached, everything     *)
(* that follows from the provided headers alone is in the closure, whatever*)
(* else the fragment has gaps in.                                          *)
FirstLayerDelivered ==
    Done /\ ~LimitReached =>
        \A h \in contents \cap permitted : prevOf[h] \subseteq provided => h \in closure

(* What the synchronizer counts on when it asks for, or takes, a closure.  *)
ClosureServes == CausalOrder /\ FirstLayerDelivered

(* What the comment in causalClosureFrom() says: "If the set ever empties, *)
(* this op can be iterated over (all its prevOps have already been         *)
(* visited)".                                                              *)
EmptiedIsIterated ==
    Done /\ ~LimitReached =>
        \A h \in contents \cap permitted : missingPrev[h] = {} => h \in closure
=============================================================================
