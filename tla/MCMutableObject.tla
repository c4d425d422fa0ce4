-------------------------- MODULE MCMutableObject --------------------------
(* Two instances of an object, used in the ways that MutableObject.ts and   *)
(* its tests describe.                                                      *)
EXTENDS MutableObject, TLC

Role(l, w, c, t, e, n) ==
  [loaded |-> l, watching |-> w, changed |-> c, timed |-> t, explicit |-> e, ops |-> n]
\* One is changed and follows the store, with its timers; the other only loads.
Follower == Role({1, 2}, {1}, {1}, {1}, {}, 2)
\* The same one with more ops, alone.
Alone    == Role({1}, {1}, {1}, {1}, {}, 3)
\* One is changed; the other is asked for a checkpoint.
Archive  == Role({1, 2}, {}, {1}, {}, {2}, 3)
\* One is changed and asked for a checkpoint, the other follows.
Pair     == Role({1, 2}, {2}, {1}, {}, {1}, 2)

AllRoles == {Follower, Alone, Archive, Pair}
=============================================================================
