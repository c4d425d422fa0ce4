----------------------------- MODULE Replication -----------------------------
(***************************************************************************)
(* What one replica promises about the history of an object, however it    *)
(* learns of ops: it takes them over one at a time, never before the ops   *)
(* they follow, and keeps them for ever.  Whatever it holds can therefore  *)
(* be applied, in the order in which it came, and served to others.        *)
(***************************************************************************)
CONSTANTS Ops, Prev,  \* the ops there are, and those each one follows
          Start       \* the ops the replica begins with

VARIABLE history

Init == history = Start

Receive(o) ==
  /\ o \notin history
  /\ Prev[o] \subseteq history
  /\ history' = history \cup {o}

Next == \E o \in Ops : Receive(o)
Spec == Init /\ [][Next]_history
=============================================================================
