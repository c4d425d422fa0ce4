---------------------------- MODULE MCStateGossip ----------------------------
(* Two nodes with an op in common, to which one is added while they are    *)
(* connected; with an op each, and a connection that may be lost; with one *)
(* ahead of the other, and an agent that may be stopped and created anew.  *)
EXTENDS StateGossip

CONSTANTS n1, n2

Situation(first, second, d, r) ==
    [ops |-> [n \in Node |-> IF n = n1 THEN first ELSE second],
     disconnects |-> d, restarts |-> r]

MCSituations == {Situation({1}, {1}, 0, 0),
                 Situation({1}, {2}, 1, 0),
                 Situation({1, 2}, {1}, 0, 1)}
=============================================================================
