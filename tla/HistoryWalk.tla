----------------------------- MODULE HistoryWalk -----------------------------
(***************************************************************************)
(* The walks over a history fragment (src/data/history/HistoryWalk.ts and  *)
(* its two subclasses): iterateFrom(initial, direction, method), one next()*)
(* call per step. The fragment does not change during a walk, so its       *)
(* contents and predecessor relation are rigid, and every part of every    *)
(* history is an initial state. Headers are numbered in causal order.      *)
(* Successor and predecessor sets are JavaScript Sets in insertion order,  *)
(* which depends on how the fragment was built: any order may be met.      *)
(***************************************************************************)
EXTENDS Naturals, Sequences, FiniteSets, SequencesExt

CONSTANTS
    N,          \* number of header hashes
    Histories,  \* predecessor relations, [Header -> SUBSET Header]
    Initials,   \* sets of headers that a walk may start from
    Filters     \* sets of headers that a walk's filter may accept

Header == 1 .. N

Dags == {f \in [Header -> SUBSET Header] : \A h \in Header : f[h] \subseteq 1 .. (h - 1)}

ASSUME WalkAssumption ==
    /\ N \in Nat \ {0}
    /\ Histories \subseteq Dags
    /\ Initials \subseteq SUBSET Header /\ Filters \subseteq SUBSET Header

VARIABLES
    prevOf, contents,           \* the fragment
    direction, method, initial, \* the arguments of iterateFrom()
    accepted,                   \* the headers its filter accepts
    queue, visited,             \* the state of the walk
    yielded                     \* headers returned by next() so far

fragment == <<prevOf, contents>>
arguments == <<direction, method, initial, accepted>>
vars == <<fragment, arguments, queue, visited, yielded>>

TypeOK ==
    /\ prevOf \in [Header -> SUBSET Header]
    /\ contents \subseteq Header
    /\ direction \in {"forward", "backward"}
    /\ method \in {"bfs", "full"}
    /\ accepted \subseteq Header
    /\ queue \in Seq(contents)
    /\ visited \subseteq contents
    /\ yielded \in Seq(contents)

(* constructor: only initial headers that the fragment holds, and that the *)
(* filter accepts, are enqueued.                                           *)
Queues == SetToSeqs(initial \cap contents \cap accepted)

Start ==
    /\ queue \in Queues
    /\ visited = {}
    /\ yielded = <<>>

Fragments ==
    /\ prevOf \in Histories
    /\ contents \in SUBSET Header \ {{}}

Init ==
    /\ Fragments
    /\ direction \in {"forward", "backward"}
    /\ method \in {"bfs", "full"}
    /\ initial \in Initials
    /\ accepted \in Filters
    /\ Start

-----------------------------------------------------------------------------
NextIn(h) == {x \in contents : h \in prevOf[x]}

NeighboursSwapped(h) ==             \* mutant: the two directions swapped
    IF direction = "forward" THEN prevOf[h] \cap contents ELSE NextIn(h)

Neighbours(h) == IF direction = "forward" THEN NextIn(h) ELSE prevOf[h]

(* goFrom(): a header already expanded leads nowhere new.                  *)
GoFrom(h) == IF h \in visited THEN {} ELSE Neighbours(h) \cap accepted

InFragment(S) == S \cap contents

(* BFSHistoryWalk only enqueues what is not queued at this moment,         *)
(* FullHistoryWalk enqueues once per arc.                                  *)
Enqueued(succs, rest) ==
    IF method = "bfs" THEN succs \ ToSet(rest) ELSE succs

VisitNext ==
    /\ queue # <<>>
    /\ LET h    == Head(queue)
           rest == Tail(queue)
       IN  /\ \E s \in SetToSeqs(Enqueued(InFragment(GoFrom(h)), rest)) :
                  queue' = rest \o s
           /\ visited' = visited \cup {h}
           /\ yielded' = Append(yielded, h)
    /\ UNCHANGED <<fragment, arguments>>

Next == VisitNext

Spec == Init /\ [][Next]_vars

-----------------------------------------------------------------------------
Done == queue = <<>>

Walkable == contents \cap accepted

Arc(a, b) == IF direction = "forward" THEN a \in prevOf[b] ELSE b \in prevOf[a]

(* The least set of headers of the fragment that holds the initial ones and*)
(* is closed in the direction of the walk.                                 *)
Reachable ==
    {h \in Walkable : \A S \in SUBSET Walkable :
        /\ initial \cap Walkable \subseteq S
        /\ \A x \in S, y \in Walkable : Arc(x, y) => y \in S
        => h \in S}

Visits(h) == Cardinality({i \in DOMAIN yielded : yielded[i] = h})

(* closureFrom() and filterByTerminalOpHeaders(), which collect what the   *)
(* walk yields: exactly the reachable headers, whatever the set order and  *)
(* however much of the fragment is missing.                                *)
ClosureExact == Done => ToSet(yielded) = Reachable

(* What the comment above iterateFrom() says of the 'bfs' method: "each op *)
(* history is visited once".                                               *)
BfsVisitsOnce == method = "bfs" => \A h \in contents : Visits(h) <= 1
=============================================================================
