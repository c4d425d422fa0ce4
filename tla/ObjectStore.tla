---------------------------- MODULE ObjectStore ----------------------------
(***************************************************************************)
(* The store of a replica (src/storage/store/Store.ts over the backends of *)
(* src/storage/backends) and the undo and redo ops it generates while it   *)
(* saves.                                                                  *)
(*                                                                         *)
(* An op is either a BASE op, named in the operation graph, or a           *)
(* CascadedInvalidateOp, which is nothing but the pair of the op it undoes *)
(* (or redoes) and the op that causes it: both are content addressed, so   *)
(* that an op made twice is the same op.  A base op may be an              *)
(* InvalidateAfterOp: it invalidates the ops that depend on its target and *)
(* are outside of the history it was created on.                           *)
(*                                                                         *)
(* Saving is asynchronous and recursive (saveWithContext()).  A task keeps *)
(* the stack of its calls, one frame for each; every await is the end of a *)
(* step, so that the tasks interleave at the awaits and nowhere else.      *)
(***************************************************************************)
EXTENDS Integers, Sequences, FiniteSets, SequencesExt

CONSTANTS Graphs,    \* the operation graphs to explore
          Settings,  \* pairs of a backend, "memory" or "idb", and of whether an op
                     \* may be saved while one of its past is still being saved
          Tasks      \* the concurrent calls of save()

VARIABLES graph, backend, overlap, stored, terminal, saving
rigid == <<graph, backend, overlap>>
vars  == <<rigid, stored, terminal, saving>>

-----------------------------------------------------------------------------
(* Ops.  graph has, for every name, the ops in prev (prevOps), in causal   *)
(* (causalOps), in inv (the target of an InvalidateAfterOp, at most one)   *)
(* and the object the op is for.                                           *)

Base(n)   == [name |-> n]
IsBase(o) == "name" \in DOMAIN o
IsCasc(o) == ~ IsBase(o)
IsInv(o)  == IsBase(o) /\ graph[o.name].inv # {}

\* CascadedInvalidateOp.create(): undos and redos alternate along a chain,
\* whose final target is the op that is undone and redone.
Create(t, c) ==
  [undo   |-> IsBase(t) \/ ~ t.undo,
   target |-> t,
   final  |-> IF IsBase(t) THEN t ELSE t.final,
   cause  |-> c]

PrevOps(o)   == IF IsBase(o) THEN graph[o.name].prev   ELSE {o.target}
CausalOps(o) == IF IsBase(o) THEN graph[o.name].causal ELSE {o.cause}
TargetOps(o) == IF IsBase(o) THEN graph[o.name].inv    ELSE {o.target}
ObjectOf(o)  == IF IsBase(o) THEN graph[o.name].object ELSE graph[o.final.name].object

\* The ops an op holds as literals: they are saved before it.
Literals(o) == CausalOps(o) \cup TargetOps(o)

BaseOps == {Base(n) : n \in DOMAIN graph}

\* Base ops depend on base ops: none of the types depends on an undo.  And what
\* InvalidateAfterOp sees to, in its constructor and in validate(): its target is
\* an op of the same object, and neither an InvalidateAfterOp nor an undo.
ASSUME GraphsAssumption ==
  \A g \in Graphs : \A n \in DOMAIN g :
    /\ g[n].causal \subseteq {Base(m) : m \in DOMAIN g}
    /\ g[n].inv \subseteq {Base(m) : m \in {k \in DOMAIN g : g[k].inv = {} /\ g[k].object = g[n].object}}

Stored  == Range(stored)

\* loadPrevOpsClosureFast(): everything reachable through prevOps.
Layers(S) ==
  LET layer[n \in Nat] ==
        IF n = 0 THEN S
        ELSE LET below == layer[n-1] IN below \cup UNION {PrevOps(o) : o \in below}
  IN  layer
PrevClosure(S) == Layers(S)[Len(stored)]

-----------------------------------------------------------------------------
Idle(t) == saving[t] = <<>>
Top(t)  == Head(saving[t])
Frame(o) == [op |-> o, pc |-> "load", todo |-> {}, left |-> {}]

\* The task goes on with frame f; a nested call; a return; a rejected save.
Continue(t, f) == saving' = [saving EXCEPT ![t] = <<f>> \o Tail(@)]
Call(t, f, o)  == saving' = [saving EXCEPT ![t] = <<Frame(o), f>> \o Tail(@)]
Return(t)      == saving' = [saving EXCEPT ![t] = Tail(@)]
Reject(t)      == saving' = [saving EXCEPT ![t] = <<>>]

\* What a task has yet to save: an op that is in the store already is not saved
\* again, and nothing is ever removed from the store.
Pending(t) == Top(t).todo \ Stored

\* The ops a task is in the middle of saving.
BeingSaved(t) == {saving[t][i].op : i \in DOMAIN saving[t]}

\* findMissingReferencesWithContext(): every reference is in the store, for the
\* op and for the ops it brings along as literals.
NothingMissing(o) ==
  LET layer[n \in Nat] ==
        IF n = 0 THEN {o}
        ELSE LET below == layer[n-1] IN below \cup UNION {Literals(p) : p \in below}
  IN  \A p \in layer[Cardinality(DOMAIN graph)] \ Stored : PrevOps(p) \subseteq Stored

\* The pairs that must cascade: the second op invalidates something the first
\* one depends on.
Outside(x, y) == x \notin PrevClosure(PrevOps(y))
MustCascade(x, y) ==
  /\ IsInv(y) \/ IsCasc(y)
  /\ TargetOps(y) \cap CausalOps(x) # {}
  /\ IsInv(y) => ObjectOf(x) = ObjectOf(y) /\ Outside(x, y)

\* CascadedInvalidateOp.validate(), which every replica applies to a received op.
Validates(o) ==
  /\ TargetOps(o.cause) \cap CausalOps(o.target) # {}
  /\ o.undo # (IsCasc(o.target) /\ o.target.undo)
  /\ IF IsInv(o.cause)
     THEN o.undo /\ IsBase(o.target) /\ ObjectOf(o) = ObjectOf(o.cause)
     ELSE IsCasc(o.cause)

\* Every undo and redo a set of ops calls for.
Cascades(S) == {Create(p[1], p[2]) : p \in {q \in S \X S : MustCascade(q[1], q[2])}}

\* The ops the rest of the network may send: the base ops, and the undos and
\* redos another replica has generated for what is here.
Arriving == BaseOps \cup Cascades(Stored)

-----------------------------------------------------------------------------
Init ==
  /\ graph \in Graphs
  /\ \E s \in Settings : backend = s[1] /\ overlap = s[2]
  /\ stored = <<>> /\ terminal = {}
  /\ saving = [t \in Tasks |-> <<>>]

\* save(), called by saveAllChanges() for a local op and by the synchronizer for
\* a received one.
Save(t, o) ==
  /\ Idle(t)
  /\ o \in Arriving \ Stored
  /\ NothingMissing(o)
  /\ overlap \/ \A u \in Tasks : BeingSaved(u) \cap (PrevClosure(PrevOps(o)) \cup {o}) = {}
  /\ saving' = [saving EXCEPT ![t] = <<Frame(o)>>]
  /\ UNCHANGED <<rigid, stored, terminal>>

\* backend.load(): an op that is in the store already is not saved again.
Load(t) ==
  /\ ~ Idle(t) /\ Top(t).pc = "load"
  /\ IF Top(t).op \in Stored
     THEN Return(t)
     ELSE Continue(t, [Top(t) EXCEPT !.pc = "deps", !.todo = Literals(Top(t).op)])
  /\ UNCHANGED <<rigid, stored, terminal>>

\* The order of the store: MemoryBackend leaves an op it has where it is, the
\* sequence numbers of IdbBackend move it to the end.
\* mutant: an op stored again moves
MemoryIndexMoved(o) == Append(Remove(stored, o), o)
MemoryIndex(o) == IF o \in Stored THEN stored ELSE Append(stored, o)
IdbIndex(o) ==
  IF o \in Stored THEN Append(RemoveAt(stored, CHOOSE i \in DOMAIN stored : stored[i] = o), o)
                  ELSE Append(stored, o)

\* The ops that are no longer terminal once an op is in.
\* mutant: an op that is depended on is not terminal either
FollowedOrUsed(o) == PrevOps(o) \cup CausalOps(o)
Followed(o) == PrevOps(o)
TerminalAfter(o) == (terminal \ Followed(o)) \cup {o}

\* backend.store(): the indexes and the terminal ops of the object.  Nothing
\* looks at what is there: an op stored for the second time becomes terminal
\* again.
StoreOp(t) ==
  LET o == Top(t).op IN
  /\ ~ Idle(t) /\ Top(t).pc = "deps" /\ Pending(t) = {}
  /\ IF PrevOps(o) \subseteq Stored
     THEN /\ stored' = IF backend = "memory" THEN MemoryIndex(o) ELSE IdbIndex(o)
          /\ terminal' = TerminalAfter(o)
          /\ Continue(t, [Top(t) EXCEPT !.pc = "causal", !.left = CausalOps(o)])
     ELSE Reject(t) /\ UNCHANGED <<stored, terminal>>
  /\ UNCHANGED rigid

\* loadAllInvalidations() and loadAllConsequences().
\* mutant: only an InvalidateAfterOp is looked for
InvalidationsByInvs(c) == {y \in Stored : IsInv(y) /\ c \in TargetOps(y)}
Invalidations(c) == {y \in Stored : (IsInv(y) \/ IsCasc(y)) /\ c \in TargetOps(y)}
Consequences(c)  == {x \in Stored : c \in CausalOps(x)}

\* The invalidations of one of the ops this one depends on.  An
\* InvalidateAfterOp found here is taken to apply: it was there before.
\* mutant: the loop does not move on
CausalOpsAgain(f, c) == f.left
CausalOpsAfter(f, c) == f.left \ {c}
LoadInvalidations(t) ==
  LET f == Top(t) IN
  /\ ~ Idle(t) /\ f.pc = "causal" /\ Pending(t) = {}
  /\ \E c \in f.left :
       LET found == {y \in Invalidations(c) : IsInv(y) => ObjectOf(y) = ObjectOf(f.op)}
       IN  Continue(t, [f EXCEPT !.left = CausalOpsAfter(f, c), !.todo = {Create(f.op, y) : y \in found}])
  /\ UNCHANGED <<rigid, stored, terminal>>

\* The ops an InvalidateAfterOp spares.
\* mutant: only the last ops of its past
SparedHeads(y) == PrevOps(y)
Spared(y) == PrevClosure(PrevOps(y))

\* What depends on the op this one invalidates.  Only an InvalidateAfterOp spares
\* the ops of its past.
LoadConsequences(t) ==
  LET f     == Top(t)
      found == UNION {Consequences(c) : c \in TargetOps(f.op)}
      hit   == {x \in found : IsInv(f.op) => x \notin Spared(f.op)}
  IN
  /\ ~ Idle(t) /\ f.pc = "causal" /\ Pending(t) = {} /\ f.left = {}
  /\ IF hit = {}
     THEN Return(t)
     ELSE Continue(t, [f EXCEPT !.pc = "conseq", !.todo = {Create(x, f.op) : x \in hit}])
  /\ UNCHANGED <<rigid, stored, terminal>>

\* The constructor of CascadedInvalidateOp refuses an InvalidateAfterOp of
\* another object as the cause.
WellFormed(o) == IsCasc(o) => (IsInv(o.cause) => ObjectOf(o) = ObjectOf(o.cause))

\* The recursive call of saveWithContext(), for a dependency or for a cascade.
SaveNext(t) ==
  LET f == Top(t) IN
  /\ ~ Idle(t) /\ f.pc # "load"
  /\ \E o \in Pending(t) :
       IF WellFormed(o) THEN Call(t, [f EXCEPT !.todo = @ \ {o}], o) ELSE Reject(t)
  /\ UNCHANGED <<rigid, stored, terminal>>

EndSave(t) ==
  /\ ~ Idle(t) /\ Top(t).pc = "conseq" /\ Pending(t) = {}
  /\ Return(t)
  /\ UNCHANGED <<rigid, stored, terminal>>

Run(t) == \/ Load(t) \/ StoreOp(t) \/ LoadInvalidations(t)
          \/ LoadConsequences(t) \/ SaveNext(t) \/ EndSave(t)

Next == \E t \in Tasks : (\E o \in Arriving : Save(t, o)) \/ Run(t)

Spec     == Init /\ [][Next]_vars
LiveSpec == Spec /\ \A t \in Tasks : WF_vars(Run(t))

-----------------------------------------------------------------------------
Quiet == \A t \in Tasks : Idle(t)

\* The state an instance of the object reaches by applying the stored ops (in
\* MutableObject.apply()): the undo ops at the end of their chains.
Active(o) == {u \in Stored : /\ IsCasc(u) /\ u.undo /\ u.final = o
                             /\ ~ \E r \in Stored : IsCasc(r) /\ r.target = u}

\* What invalidation means, said of the base ops alone: an op stands when all it
\* depends on stands and no standing InvalidateAfterOp strikes it.
Stands(o) ==
  LET ops     == Stored \cap BaseOps
      \* the graph is acyclic: as many rounds as ops settle it
      round[n \in Nat] ==
        IF n = 0 THEN ops
        ELSE LET before == round[n-1]
             IN  {x \in ops : /\ CausalOps(x) \subseteq before
                              /\ \A y \in before : IsInv(y) => ~ MustCascade(x, y)}
  IN  o \in round[2 * Cardinality(ops)]

\* Whatever the order in which ops and invalidations arrived and however their
\* saves interleaved, once the store is quiet no undo or redo is missing; and
\* those that were generated here are accepted by the other replicas.
CascadesExact ==
  /\ Quiet => Cascades(Stored) \subseteq Stored
  /\ \A o \in Stored : IsCasc(o) => Validates(o)

\* An op is undone exactly when the base ops say so, provided that nobody saves
\* an op while one of its past is still being saved.
UndoneIffStruck ==
  Quiet /\ ~ overlap => \A o \in Stored \cap BaseOps : Stands(o) <=> Active(o) = {}

\* No undo op was generated for an op that its InvalidateAfterOp has seen.
SeenOpsAreSpared ==
  \A u \in Stored : IsCasc(u) => (IsInv(u.cause) => Outside(u.target, u.cause))

\* The terminal ops the store answers with never miss one: every op is in the
\* history that the terminal ops reach.
TerminalOpsCover == \A o \in Stored : (\A p \in Stored : o \notin PrevOps(p)) => o \in terminal

\* The memory backend hands out an op after the ops it was created on.
StoreOrderCausal ==
  backend = "memory" =>
  \A i \in DOMAIN stored : PrevOps(stored[i]) \subseteq {stored[j] : j \in 1..(i-1)}

\* Undos beget redos and redos beget undos, but every call of save() returns.
SavesEnd == \A t \in Tasks : []<>Idle(t)
=============================================================================
