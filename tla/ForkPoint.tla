------------------------------- MODULE ForkPoint -------------------------------
(***************************************************************************)
(* Where the ops that a MergeOp merges parted                               *)
(* (MergeOp.findForkPoint, src/data/model/forkable/MergeOp.ts): a breadth   *)
(* first walk back from all of them at once.  A visit is a pair: the op,    *)
(* and the target it was reached from.  prev is the sequence of the sets of *)
(* previous ops.                                                            *)
(***************************************************************************)
EXTENDS Integers, Sequences, FiniteSets, SequencesExt

\* The empty maps of the walk; toVisit begins with the targets.
Walk(prev, targets) ==
  [toVisit |-> [i \in DOMAIN targets |-> <<targets[i], targets[i]>>],
   from    |-> [o \in DOMAIN prev |-> {}],  \* mergedContentMap
   next    |-> [o \in DOMAIN prev |-> {}],  \* mergedNextOps
   inter   |-> {},                          \* intersectionOps
   forks   |-> {}]                          \* forkPointOps
\* intersectionNextOps
InterNext(w, o) == w.next[o] \cap w.inter

Reached(prev, w, o, target, n) ==
  LET both == Cardinality(w.from[o]) + 1 = n IN
  IF target \in w.from[o] THEN w ELSE
  [w EXCEPT !.from[o] = @ \cup {target},
            !.next    = [p \in DOMAIN prev |-> IF p \in prev[o] THEN @[p] \cup {o} ELSE @[p]],
            !.inter   = IF both THEN @ \cup {o} ELSE @,
            !.forks   = IF ~ both THEN @
                        ELSE (IF InterNext(w, o) = {} THEN @ \cup {o} ELSE @) \ prev[o]]

\* mutant: it ends with other ops left to visit.
StopsEarly(w, o) == Cardinality(w.forks) <= 1 /\ o \in w.inter
\* The walk ends early when nothing is left to visit and there is one fork point.
Stops(w, o) == w.toVisit = <<>> /\ Cardinality(w.forks) <= 1 /\ o \in w.inter

RECURSIVE Visit(_, _, _)
Visit(prev, w, n) ==
  IF w.toVisit = <<>> THEN w ELSE
  LET o == Head(w.toVisit)[1]
      t == Head(w.toVisit)[2]
      v == Reached(prev, [w EXCEPT !.toVisit = Tail(@)], o, t, n)
  IN  Visit(prev, IF Stops(v, o) THEN v
                  ELSE [v EXCEPT !.toVisit = @ \o SetToSeq({<<p, t>> : p \in prev[o]})], n)

\* No fork point has a successor in the intersection, so that the loop that
\* would move it up along a line of those never begins.
FindForkPoint(prev, targets) ==
  LET w        == Visit(prev, Walk(prev, targets), Len(targets))
      point    == IF Cardinality(w.forks) = 1 THEN CHOOSE f \in w.forks : TRUE ELSE 0
      contents == {o \in DOMAIN prev : w.from[o] # {} /\ (point = 0 \/ o \notin w.inter)}
  IN  [point |-> point, contents |-> contents,
       merged |-> {o \in contents : w.next[o] = {}}]
=============================================================================
