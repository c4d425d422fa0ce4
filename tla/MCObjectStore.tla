--------------------------- MODULE MCObjectStore ---------------------------
(* Small operation graphs for ObjectStore: the shapes drawn in              *)
(* CascadedInvalidateOp.ts, and the ones its cases are about.               *)
EXTENDS ObjectStore, TLC
CONSTANTS t1, t2   \* the two tasks

Op(prev, causal)      == [prev |-> {Base(n) : n \in prev}, causal |-> {Base(n) : n \in causal},
                          inv |-> {}, object |-> "x"]
Inv(t, prev, causal)  == [Op(prev, causal) EXCEPT !.inv = {Base(t)}]
Other(prev, causal)   == [Op(prev, causal) EXCEPT !.object = "y"]

\* An invalidation of a, and b and c that depend on it one through the other.
Chain == [a |-> Op({}, {}), b |-> Op({"a"}, {"a"}), c |-> Op({"b"}, {"b"}),
          i |-> Inv("a", {"a"}, {})]
\* The invalidation depends on g, which is invalidated in turn.
Undone == [g |-> Op({}, {}), a |-> Op({"g"}, {}), b |-> Op({"a"}, {"a"}),
           i |-> Inv("a", {"a"}, {"g"}), k |-> Inv("g", {"a"}, {})]
\* Two invalidations of a, one of which has seen b and an op after it.
Twice == [a |-> Op({}, {}), b |-> Op({"a"}, {"a"}), h |-> Op({"b"}, {}),
          i |-> Inv("a", {"a"}, {}), k |-> Inv("a", {"h"}, {})]
\* b depends on two ops, both invalidated.
Both == [a |-> Op({}, {}), g |-> Op({"a"}, {}), b |-> Op({"g"}, {"a", "g"}),
         i |-> Inv("a", {"a"}, {}), k |-> Inv("g", {"g"}, {})]
\* The cascade reaches an op of another object.
Across == [a |-> Op({}, {}), b |-> Op({"a"}, {"a"}), c |-> Other({}, {"b"}),
           i |-> Inv("a", {"a"}, {})]
\* d is created after b was undone, and depends on the invalidated op as well.
After == LET bad == [undo |-> TRUE, target |-> Base("b"), final |-> Base("b"), cause |-> Base("i")]
         IN  [a |-> Op({}, {}), b |-> Op({"a"}, {"a"}), i |-> Inv("a", {"a"}, {}),
              d |-> [Op({}, {"a"}) EXCEPT !.prev = {bad, Base("i")}]]

AllGraphs == {Chain, Undone, Twice, Both, Across, After}
AllSettings == {<<"memory", FALSE>>, <<"memory", TRUE>>, <<"idb", TRUE>>}
=============================================================================
