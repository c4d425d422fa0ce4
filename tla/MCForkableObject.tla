--------------------------- MODULE MCForkableObject ---------------------------
(***************************************************************************)
(* Instances of ForkableObject for TLC.                                    *)
(***************************************************************************)
EXTENDS ForkableObject, TLC

\* One change that always can be made, one that a counter at zero cannot take.
MCAmounts == {2, -1}
\* Five ops: two forks, settled by both replicas, and the merge of the merges.
MCLimits == {[ops |-> 5, undos |-> 0], [ops |-> 4, undos |-> 1]}

Symmetry == Permutations(Replicas)
=============================================================================
