-------------------------- MODULE CollectionTypes --------------------------
(***************************************************************************)
(* What the collections of src/data/collections hold and how an op changes *)
(* it: GrowOnlySet, MutableSet, MutableReference, MutableArray (with and   *)
(* without duplicates), CausalSet, CausalArray and CausalReference, and    *)
(* the dense order the arrays place their elements with                    *)
(* (src/util/ordinals.ts).                                                 *)
(*                                                                         *)
(* An op is a record; a collection refers to ops by their indexes in a     *)
(* sequence of all the ops there are (their hashes, in the code).          *)
(***************************************************************************)
EXTENDS Integers, Sequences, FiniteSets, SequencesExt, FiniteSetsExt, TLC

CONSTANT Letters  \* the last letter of the alphabet of ordinals, the first is 1
ASSUME LettersAssumption == Letters \in Nat /\ Letters >= 4

-----------------------------------------------------------------------------
(* Ordinals: words that do not end with the first letter; <<>> is no        *)
(* ordinal at all, as before the first element and after the last one.      *)
First    == 1
Midpoint == Letters \div 2
NoOrdinal == <<>>

LexLess(a, b) ==
  \/ \E i \in DOMAIN a \cap DOMAIN b : a[i] < b[i] /\ \A j \in 1..(i - 1) : a[j] = b[j]
  \/ Len(a) < Len(b) /\ \A j \in DOMAIN a : a[j] = b[j]

Below(b, i) == IF b[i] - 1 > First THEN <<b[i] - 1>> ELSE <<b[i] - 1, Midpoint>>

\* DenseOrder.between(), from its i-th letter on; smaller says that what was
\* written so far is below the second bound.  The bounds are taken to be in order.
Between(after, before) ==
  LET from[i \in 1..(Len(after) + Len(before) + 2), smaller \in BOOLEAN] ==
        CASE i <= Len(after) /\ i <= Len(before) ->
               IF (smaller /\ after[i] < Letters) \/ after[i] + 1 < before[i]
               THEN <<after[i] + 1>>
               ELSE <<after[i]>> \o from[i + 1, smaller \/ after[i] < before[i]]
          [] i <= Len(after) /\ i > Len(before) ->
               IF after[i] < Letters THEN <<after[i] + 1>>
               ELSE <<after[i]>> \o from[i + 1, smaller]
          [] i > Len(after) /\ i <= Len(before) ->
               IF smaller THEN <<Midpoint>>
               ELSE IF before[i] > First THEN Below(before, i)
               ELSE <<before[i]>> \o from[i + 1, smaller]
          [] OTHER -> <<Midpoint>>
  IN  from[1, FALSE]

-----------------------------------------------------------------------------
MutableTypes == {"GrowOnlySet", "MutableSet", "MutableReference", "MutableArray", "MutableArrayUnique"}
CausalTypes  == {"CausalSet", "CausalArray", "CausalArrayUnique", "CausalReference"}
Arrays     == {"MutableArray", "MutableArrayUnique", "CausalArray", "CausalArrayUnique"}
Unique     == {"MutableArrayUnique", "CausalArrayUnique"}
References == {"MutableReference", "CausalReference"}
NoValue == 0

EmptyGrowing   == [elements |-> {}]
EmptySet       == [elements |-> {}, adds |-> {}]
EmptyCausalSet == [adds |-> {}, deletes |-> {}, current |-> {}]
EmptyArray     == [inserts |-> {}]
EmptyReference == [sequence |-> -1, time |-> 0, value |-> NoValue]
EmptyUpdates   == [updates |-> <<>>, latest |-> 0, value |-> NoValue, largest |-> -1]
Empty(type) ==
  CASE type = "GrowOnlySet"      -> EmptyGrowing
    [] type = "MutableSet"       -> EmptySet
    [] type = "CausalSet"        -> EmptyCausalSet
    [] type \in Arrays           -> EmptyArray
    [] type = "MutableReference" -> EmptyReference
    [] type = "CausalReference"  -> EmptyUpdates

\* The ops of a set that are for an element.
For(ops, S, e) == {i \in S : ops[i].elem = e}

GrowingMutate(ops, s, o) == [elements |-> s.elements \cup {ops[o].elem}]

\* MutableSet.mutate(): the additions that were not deleted are kept for every
\* element.
\* mutant: a deletion removes every addition there is of its element.
DeletedByElement(ops, s, o) == For(ops, s.adds, ops[o].elem)
DeletedOps(ops, s, o) == ops[o].of
SetMutate(ops, s, o) ==
  IF ops[o].kind = "add"
  THEN [elements |-> s.elements \cup {ops[o].elem}, adds |-> s.adds \cup {o}]
  ELSE LET left == s.adds \ DeletedOps(ops, s, o) IN
       [elements |-> IF For(ops, left, ops[o].elem) = {} THEN s.elements \ {ops[o].elem}
                     ELSE s.elements,
        adds     |-> left]

\* The deletions of the causal collections are for one op.
Target(ops, o) == CHOOSE i \in ops[o].of : TRUE

\* CausalSet.mutate(): an op comes in, is undone, or is redone; a membership
\* attestation changes nothing.
\* mutant: the deletions of an addition are not looked at when it is redone or undone.
CurrentAnyhow(s, a) == a \in s.adds
IsCurrent(s, a) == a \in s.adds /\ \A d \in s.deletes : d[2] # a
CausalSetMutate(ops, s, o, valid) ==
  LET changed(S, x) == IF valid THEN S \cup {x} ELSE S \ {x}
      add == IF ops[o].kind = "add" THEN o ELSE Target(ops, o)
      now == IF ops[o].kind = "add" THEN [s EXCEPT !.adds = changed(@, o)]
             ELSE [s EXCEPT !.deletes = changed(@, <<o, add>>)]
  IN  IF ops[o].kind = "attest" THEN s
      ELSE [now EXCEPT !.current = IF IsCurrent(now, add) THEN @ \cup {add} ELSE @ \ {add}]

\* The arrays keep their current insertions.  A CausalArray is taken never to
\* have its ops undone: its mutate() does not look at that.
ArrayMutate(ops, s, o) ==
  [inserts |-> IF ops[o].kind = "insert" THEN s.inserts \cup {o} ELSE s.inserts \ ops[o].of]
CausalArrayMutate(ops, s, o) ==
  [inserts |-> IF ops[o].kind = "insert" THEN s.inserts \cup {o}
               ELSE s.inserts \ {Target(ops, o)}]

Wins(op, s) == op.seq > s.sequence \/ (op.seq = s.sequence /\ op.time > s.time)
ReferenceMutate(ops, s, o) ==
  IF Wins(ops[o], s) THEN [sequence |-> ops[o].seq, time |-> ops[o].time, value |-> ops[o].elem]
  ELSE s

\* CausalReference.mutate(): the updates are kept in order, with the place of
\* the latest valid one.  When that one is undone the next best is looked for
\* among those that were there before this call.
SigLess(p, q) == p.seq < q.seq \/ (p.seq = q.seq /\ p.time < q.time)
UpdatesMutate(ops, s, o, valid, isValid) ==
  LET below == Cardinality({i \in DOMAIN s.updates : SigLess(ops[s.updates[i]], ops[o])})
      idx   == below + 1
      now   == IF o \in Range(s.updates) THEN s.updates ELSE InsertAt(s.updates, idx, o)
      next  == {i \in DOMAIN s.updates : now[i] \in isValid}
      moved == [s EXCEPT !.updates = now]
      at(i) == [moved EXCEPT !.latest = i, !.value = ops[now[i]].elem, !.largest = ops[now[i]].seq]
  IN  IF valid
      THEN IF idx > s.latest THEN at(idx) ELSE moved
      ELSE IF idx # s.latest THEN moved
      ELSE IF next # {} THEN at(Max(next))
      ELSE [moved EXCEPT !.latest = 0, !.value = NoValue, !.largest = -1]

\* mutate(op, valid): isValid are the ops that were not undone.
Mutate(type, ops, s, o, valid, isValid) ==
  CASE type = "GrowOnlySet"      -> GrowingMutate(ops, s, o)
    [] type = "MutableSet"       -> SetMutate(ops, s, o)
    [] type = "CausalSet"        -> CausalSetMutate(ops, s, o, valid)
    [] type \in Arrays           -> IF type \in CausalTypes THEN CausalArrayMutate(ops, s, o)
                                   ELSE ArrayMutate(ops, s, o)
    [] type = "MutableReference" -> ReferenceMutate(ops, s, o)
    [] type = "CausalReference"  -> UpdatesMutate(ops, s, o, valid, isValid)

-----------------------------------------------------------------------------
(* What the application sees.                                              *)

\* rebuild(): by ordinal, then by element; the first place of an element only,
\* in an array without duplicates.  A place is an insertion.
PlacedBefore(ops, i, j) ==
  \/ LexLess(ops[i].ord, ops[j].ord)
  \/ ops[i].ord = ops[j].ord /\ ops[i].elem < ops[j].elem
  \/ ops[i].ord = ops[j].ord /\ ops[i].elem = ops[j].elem /\ i < j
Places(type, ops, inserts) ==
  LET less(i, j) == PlacedBefore(ops, i, j)
      firsts == {i \in inserts : \A j \in For(ops, inserts, ops[i].elem) : ~ less(j, i)}
  IN  SetToSortSeq(IF type \in Unique THEN firsts ELSE inserts, less)
Elements(ops, places) == [i \in DOMAIN places |-> ops[places[i]].elem]

Shown(type, ops, s) ==
  CASE type \in {"GrowOnlySet", "MutableSet"} -> s.elements
    [] type = "CausalSet"  -> {ops[a].elem : a \in s.current}
    [] type \in Arrays     -> Elements(ops, Places(type, ops, s.inserts))
    [] type \in References -> s.value
=============================================================================
