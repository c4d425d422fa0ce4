-------------------------- MODULE MCPeerGroupAgent --------------------------
(* Situations of the peer group. An endpoint is named after its first      *)
(* instance.                                                               *)
EXTENDS PeerGroupAgent, TLC

CONSTANTS a, b, c

Quiet(nodes, conns) ==
    [nodes |-> nodes, endpointOf |-> [n \in Node |-> n], conns |-> conns,
     leave |-> {}, crash |-> {}, revoke |-> {}, faults |-> 0]

(* Two nodes find each other at the same time and drop the duplicate; one  *)
(* of the connections may break or be given up too early.                  *)
Faulty == [Quiet({a, b}, {1, 2}) EXCEPT !.faults = 1]

(* Three peers with room for one.                                          *)
Crowd == Quiet({a, b, c}, {1, 2})

(* A node leaves the group and joins again, or is no longer listed.        *)
Leaving == [Quiet({a, b}, {1}) EXCEPT !.leave = {a}]
Revoked == [Quiet({a, b}, {1, 2}) EXCEPT !.revoke = {b}]

(* A peer runs twice, and its first instance may crash.                    *)
Twice == [Quiet({a, b, c}, {1, 2}) EXCEPT !.endpointOf[c] = b, !.crash = {b}]

MCSituations == {Faulty, Crowd, Leaving, Revoked, Twice}
=============================================================================
