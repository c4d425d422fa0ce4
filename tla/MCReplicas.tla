----------------------------- MODULE MCReplicas -----------------------------
(* Two replicas of each of the collections.                                 *)
EXTENDS Replicas

Setting(t, w, e, n) ==
  [type |-> t, writers |-> w, elems |-> e, ops |-> n,
   may |-> [r \in Replicas |-> {"add", "delete", "writers"}],
   strikes |-> TRUE]
Open == {Setting("GrowOnlySet", FALSE, 2, 3), Setting("MutableSet", FALSE, 2, 3),
         Setting("MutableReference", FALSE, 2, 3), Setting("MutableArray", FALSE, 2, 3),
         Setting("MutableArrayUnique", FALSE, 2, 4), Setting("CausalSet", FALSE, 1, 3),
         Setting("CausalArray", FALSE, 1, 3), Setting("CausalArrayUnique", FALSE, 2, 2),
         Setting("CausalReference", FALSE, 2, 3)}
\* One adds and changes the writers, the other one adds, or deletes.
Guarded(other, n) ==
  [Setting("CausalSet", TRUE, 1, n) EXCEPT
    !.may = [r \in Replicas |-> IF r # Admin THEN {other}
                               ELSE IF other = "add" THEN {"writers"} ELSE {"add", "writers"}],
    !.strikes = (other = "add")]
AllSettings == Open \cup {Setting("CausalSet", TRUE, 1, 3), Guarded("add", 4), Guarded("delete", 5)}
=============================================================================
