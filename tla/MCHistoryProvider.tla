-------------------------- MODULE MCHistoryProvider --------------------------
(* Two remotes, one with two requests and one with one: a queue, and a     *)
(* second stream that shares the counter and the timer.                   *)
EXTENDS HistoryProvider

CONSTANTS a1, a2, b1, ra, rb

MCRemote == {ra, rb}
MCRemoteOf == [r \in Request |-> IF r = b1 THEN rb ELSE ra]
=============================================================================
