----------------------------- MODULE HistoryDelta -----------------------------
(***************************************************************************)
(* HistoryDelta.compute() (src/data/history/HistoryDelta.ts): given the    *)
(* headers a peer asks for (targets) and the ones it says it has (starts), *)
(* load from the store the headers in between. The delta grows backwards   *)
(* from the targets, and the starting fragment backwards from the starts,  *)
(* until the two meet or a size limit is reached.                          *)
(*                                                                         *)
(* The store is causally closed: it holds the predecessors of every header *)
(* it holds (MutableObject.applyNewOp saves prevOps first). Targets and    *)
(* starts come from the peer and may be absent from it.                    *)
(* One step is one of the three loops of an iteration: headers are         *)
(* immutable, so what a load returns does not depend on the moment.        *)
(***************************************************************************)
EXTENDS Naturals, FiniteSets, FiniteSetsExt

CONSTANTS
    Header,
    Histories,      \* predecessor relations without cycles
    Named,          \* sets of headers that a request may name
    MaxDeltaSize, MaxBacktrackSize

VARIABLES
    prevOf,                     \* the history,
    store, targets, starts,     \* the store and the arguments: rigid
    start, fragment,            \* contents of the two fragments
    pc

inputs == <<prevOf, store, targets, starts>>
vars == <<inputs, start, fragment, pc>>

TypeOK ==
    /\ start \subseteq store
    /\ fragment \subseteq store
    /\ pc \in {"load", "backtrack", "extend", "done"}

Missing(S) == {p \in Header \ S : \E h \in S : p \in prevOf[h]}

Closed(S) == \A h \in S : prevOf[h] \subseteq S

(* computedProps.height: the longest chain that ends in a header.          *)
height[h \in Header] ==
    IF prevOf[h] = {} THEN 1 ELSE 1 + Max({height[p] : p \in prevOf[h]})

Init ==
    /\ prevOf \in Histories
    /\ store \in {S \in SUBSET Header : Closed(S)}
    /\ targets \in Named \ {{}}
    /\ starts \in Named
    /\ start = {} /\ fragment = {}
    /\ pc = "load"

-----------------------------------------------------------------------------
GapAll(f, s) == Missing(f)              \* mutant: ignores the start

(* updateGap() *)
Gap(f, s) == Missing(f) \ s

BelowLimit(f) == Cardinality(f) < MaxDeltaSize

LoopOrReturn(f, s) ==
    pc' = IF Gap(f, s) # {} /\ BelowLimit(f) THEN "backtrack" ELSE "done"

LoadedAny(S) == S                       \* mutant: no test of what was loaded

Loaded(S) == S \cap store

Load ==
    /\ pc = "load"
    /\ start' = Loaded(starts)
    /\ fragment' = Loaded(targets) \ start'
    /\ LoopOrReturn(fragment', start')
    /\ UNCHANGED inputs

(* getStartingOpHeaders(), never empty here: the gap is not.               *)
Lowest(f) ==
    Min({height[h] : h \in {x \in f : prevOf[x] = {} \/ ~(prevOf[x] \subseteq f)}})

(* The first Room of the missing headers, in the order of the Set.         *)
UpTo(S, room) ==
    {T \in SUBSET S : Cardinality(T) = Min({Cardinality(S), room})}

Room(max, S) == IF Cardinality(S) < max THEN max - Cardinality(S) ELSE 0

(* Only headers higher than the lowest one of the delta can be in it.      *)
Above(S) == {p \in S : height[p] > Lowest(fragment)}

WithoutStart(f, s) == f \ s

Backtrack ==
    /\ pc = "backtrack"
    /\ \E T \in UpTo(Above(Loaded(Missing(start))), Room(MaxBacktrackSize, start)) :
          /\ start' = start \cup T
          /\ fragment' = WithoutStart(fragment, T)
    /\ pc' = "extend"
    /\ UNCHANGED inputs

Extend ==
    /\ pc = "extend"
    /\ \E T \in UpTo(Loaded(Missing(fragment) \ start), Room(MaxDeltaSize, fragment)) :
          fragment' = fragment \cup T
    /\ LoopOrReturn(fragment', start)
    /\ UNCHANGED <<inputs, start>>

Next == Load \/ Backtrack \/ Extend

-----------------------------------------------------------------------------
(* What a set of headers and everything they follow amounts to.            *)
History(S) == {h \in Header : \A T \in SUBSET Header : S \subseteq T /\ Closed(T) => h \in T}

=============================================================================
