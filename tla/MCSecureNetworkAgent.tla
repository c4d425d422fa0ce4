------------------------ MODULE MCSecureNetworkAgent ------------------------
(* Two users that do not know the other end's identity, or one user that   *)
(* does at one end or at both: one challenge comes unexpected, the other   *)
(* after a request, or both at the same time.                              *)
EXTENDS SecureNetworkAgent

CONSTANTS a, b, u, v

Situation(users, known, early) == [users |-> users, known |-> known, early |-> early]

MCSituations == {Situation({u, v}, {}, FALSE), Situation({u}, {a}, FALSE),
                 Situation({u}, {a, b}, FALSE), Situation({u}, {a}, TRUE),
                 Situation({u, v}, {}, TRUE)}

MCTwoKnow == {Situation({u, v}, {a}, FALSE)}

MCEarly == {Situation({u}, {}, TRUE), Situation({u}, {a}, TRUE)}
=============================================================================
