---------------------------- MODULE MCRemoteMesh ----------------------------
(***************************************************************************)
(* Two mutable objects, one in the context of the other, a third that only *)
(* ops refer to, and an immutable object that holds the first two.  One op *)
(* is for the object that is synchronized, the other for the one it brings. *)
(***************************************************************************)
EXTENDS RemoteMesh, TLC

CONSTANTS doc, list, item, folder, op1, op2, w1, w2

MCParts  == doc :> {doc, list} @@ list :> {list} @@ item :> {item} @@ folder :> {doc, list}
MCTarget == op1 :> list @@ op2 :> item
MCRefers == op1 :> {list, item} @@ op2 :> {item, doc, list}

Symm == Permutations(Observers)
=============================================================================
