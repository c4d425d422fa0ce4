------------------------- MODULE MutableObjectProofs -------------------------
(***************************************************************************)
(* What the instances of a mutable object and its checkpoints show, for    *)
(* any number of instances and ops, every order in which the ops are       *)
(* created, stored, announced, loaded and applied, and every threshold of  *)
(* the automatic checkpoints.                                              *)
(*                                                                         *)
(* Whatever the order, the state of an instance is that of the set of ops  *)
(* it has applied, which has the past of each of them.  A search of the    *)
(* index begins at an op before which everything is applied: this is kept  *)
(* for the last op loaded, for the one of the last checkpoint and for the  *)
(* place of every load.  A checkpoint takes over the first of them, and    *)
(* must have stored ops only: it has when nothing is unsaved, or when all  *)
(* that was applied has been counted, since only stored ops are.  The one  *)
(* a timer takes before it asks the store is amended only when the         *)
(* instance has as many ops as then, so the same ones, and all that the    *)
(* store had.  The count would not bound the stored ops if two loads of an *)
(* instance counted them at once, or if a checkpoint were restored over    *)
(* one: the invariant says why they do not when OneLoad holds.             *)
(***************************************************************************)
EXTENDS MutableObject, FiniteSetTheorems, TLAPS

USE ObjectAssumption

(* The ops: each comes after earlier ones only; an undo or redo comes      *)
(* after the op it is for, which no other is for and which is no redo, and *)
(* is stored when it is made.                                              *)
OpsOK ==
    /\ prev \in Seq(SUBSET Nat) /\ undoes \in Seq(Nat) /\ Len(prev) = Len(undoes)
    /\ \A o \in Ops : prev[o] \subseteq 1 .. (o - 1) /\ undoes[o] \in 0 .. (o - 1)
    /\ \A o \in Ops : undoes[o] # None => prev[o] = {undoes[o]} /\ ~ IsRedo(undoes[o])
    /\ \A o, p \in Ops : undoes[o] # None /\ undoes[o] = undoes[p] => o = p
    /\ \A o \in Ops : undoes[o] # None => o \in Stored

(* The index of the store has each op once, after the ops it comes after.  *)
StoreOK ==
    /\ stored \in Seq(Nat) /\ Stored \subseteq Ops
    /\ \A k, m \in DOMAIN stored : stored[k] = stored[m] => k = m
    /\ \A k \in DOMAIN stored : prev[stored[k]] \subseteq {stored[m] : m \in 1 .. (k - 1)}

(* What the state of an object is when the ops of A have been applied, in  *)
(* whatever order: the undos in effect, the invalidations it keeps and     *)
(* what mutate() has been told.                                            *)
Unredone(A)   == {u \in A : IsUndo(u) /\ \A r \in A : undoes[r] # u}
ActiveOf(A)   == {<<undoes[u], u>> : u \in Unredone(A)}
ContentsOf(A) == {o \in A : undoes[o] = None /\ \A u \in Unredone(A) : undoes[u] # o}
Closed(A)     == A \subseteq Ops /\ \A o \in A : prev[o] \subseteq A

(* A state shows a history when it is that of a closed set of ops.         *)
Shows(s) ==
    /\ Closed(s.applied)
    /\ s.terminal = Heads(s.applied)
    /\ s.active = ActiveOf(s.applied)
    /\ s.contents = ContentsOf(s.applied)

(* Ops are numbers from one on.                                            *)
LEMMA OpFacts ==
    ASSUME OpsOK
    PROVE  /\ Ops = 1 .. Len(prev) /\ Ops = DOMAIN undoes /\ Len(prev) \in Nat /\ None \notin Ops
           /\ \A o \in Ops : undoes[o] # None => undoes[o] \in Ops
BY DEF OpsOK, Ops, None

(* An op that is not in a closed set has no successor in it.               *)
LEMMA NothingFollows ==
    ASSUME OpsOK, NEW A, Closed(A), NEW o \in Ops \ A
    PROVE  \A p \in A : o \notin prev[p] /\ undoes[p] # o
<1>1. o # None
  BY OpFacts
<1> QED
  BY <1>1 DEF OpsOK, Closed

(* An op whose past is there leaves the set closed,                        *)
LEMMA ClosedAfter ==
    ASSUME OpsOK, NEW A, Closed(A), NEW o \in Ops \ A, prev[o] \subseteq A
    PROVE  Closed(A \cup {o})
BY DEF Closed

(* ... is one of its ends, in the place of those it comes after,           *)
LEMMA HeadsAfter ==
    ASSUME OpsOK, NEW A, Closed(A), NEW o \in Ops \ A
    PROVE  Heads(A \cup {o}) = (Heads(A) \ prev[o]) \cup {o}
<1>1. o \notin prev[o]
  BY OpFacts DEF OpsOK
<1> QED
  BY <1>1, NothingFollows DEF Heads

(* ... and undoes or redoes one op, or none:                               *)
LEMMA UnredoneAfter ==
    ASSUME OpsOK, NEW A, Closed(A), NEW o \in Ops \ A, prev[o] \subseteq A
    PROVE  /\ IsUndo(o) => Unredone(A \cup {o}) = Unredone(A) \cup {o}
           /\ IsRedo(o) => Unredone(A \cup {o}) = Unredone(A) \ {undoes[o]}
           /\ undoes[o] = None => Unredone(A \cup {o}) = Unredone(A)
<1>1. \A p \in A : undoes[p] # o
  BY NothingFollows
<1>2. undoes[o] # o
  BY OpFacts DEF OpsOK
<1>3. CASE IsUndo(o)
  <2>1. ~ IsUndo(undoes[o]) /\ ~ IsRedo(o) /\ undoes[o] # None
    BY <1>3 DEF IsUndo, IsRedo
  <2>2. \A u : IsUndo(u) => undoes[o] # u
    BY <2>1
  <2> QED
    BY <1>1, <1>2, <1>3, <2>1, <2>2 DEF Unredone
<1>4. CASE IsRedo(o)
  <2>1. ~ IsUndo(o) /\ undoes[o] # None
    BY <1>4 DEF IsUndo, IsRedo
  <2> QED
    BY <1>1, <1>4, <2>1 DEF Unredone
<1>5. CASE undoes[o] = None
  <2>1. ~ IsUndo(o) /\ ~ IsRedo(o)
    BY <1>5 DEF IsUndo, IsRedo
  <2>2. \A u \in A : undoes[o] # u
    BY <1>5, OpFacts DEF Closed
  <2> QED
    BY <1>5, <2>1, <2>2 DEF Unredone
<1> QED
  BY <1>3, <1>4, <1>5 DEF IsUndo, IsRedo

(* that is what apply() does to the invalidations,                         *)
LEMMA ActiveAfter ==
    ASSUME OpsOK, NEW A, Closed(A), NEW o \in Ops \ A, prev[o] \subseteq A, NEW s, s.active = ActiveOf(A)
    PROVE  Invalidated(s, o) = ActiveOf(A \cup {o})
<1> DEFINE U == Unredone(A)
           V == Unredone(A \cup {o})
<1>1. /\ IsUndo(o) => V = U \cup {o}
      /\ IsRedo(o) => V = U \ {undoes[o]}
      /\ undoes[o] = None => V = U
  BY UnredoneAfter
<1>2. ActiveOf(A \cup {o}) = {<<undoes[u], u>> : u \in V} /\ s.active = {<<undoes[u], u>> : u \in U}
  BY DEF ActiveOf
<1> HIDE DEF U, V
<1>3. CASE IsUndo(o)
  <2>1. FinalTarget(o) = undoes[o]
    BY <1>3 DEF IsUndo, IsRedo, FinalTarget
  <2>2. Invalidated(s, o) = s.active \cup {<<undoes[o], o>>}
    BY <1>3, <2>1 DEF Invalidated, IsUndo, IsRedo
  <2>3. V = U \cup {o}
    BY <1>1, <1>3
  <2> QED
    BY <1>2, <2>2, <2>3
<1>4. CASE IsRedo(o)
  <2>1. ~ IsUndo(o) /\ FinalTarget(o) = undoes[undoes[o]]
    BY <1>4 DEF IsUndo, IsRedo, FinalTarget
  <2>2. Invalidated(s, o) = s.active \ {<<undoes[undoes[o]], undoes[o]>>}
    BY <1>4, <2>1 DEF Invalidated
  <2>3. V = U \ {undoes[o]}
    BY <1>1, <1>4, <2>1
  <2>4. \A u : <<undoes[u], u>> = <<undoes[undoes[o]], undoes[o]>> <=> u = undoes[o]
    OBVIOUS
  <2> QED
    BY <1>2, <2>2, <2>3, <2>4
<1>5. CASE undoes[o] = None
  <2>1. V = U /\ Invalidated(s, o) = s.active
    BY <1>1, <1>5 DEF Invalidated, IsUndo, IsRedo
  <2> QED
    BY <1>2, <2>1
<1> QED
  BY <1>3, <1>4, <1>5 DEF IsUndo, IsRedo

(* The target of an undo or a redo is an op that can be undone.            *)
LEMMA Targets ==
    ASSUME OpsOK, NEW A, Closed(A), NEW o \in Ops \ A, prev[o] \subseteq A, undoes[o] # None
    PROVE  FinalTarget(o) \in A /\ undoes[FinalTarget(o)] = None
<1>1. prev[o] = {undoes[o]} /\ undoes[o] \in A /\ ~ IsRedo(undoes[o])
  BY DEF OpsOK
<1>2. CASE IsRedo(o)
  <2>1. undoes[undoes[o]] # None /\ undoes[o] \in Ops
    BY <1>1, <1>2 DEF IsRedo, Closed
  <2>2. undoes[undoes[undoes[o]]] = None
    BY <1>1, <2>1 DEF IsRedo
  <2>3. prev[undoes[o]] = {undoes[undoes[o]]}
    BY <2>1 DEF OpsOK
  <2> QED
    BY <1>1, <1>2, <2>2, <2>3 DEF FinalTarget, Closed
<1>3. CASE ~ IsRedo(o)
  BY <1>1, <1>3 DEF IsRedo, FinalTarget
<1> QED
  BY <1>2, <1>3

(* The ops an invalidation is for.                                         *)
LEMMA FirstOfPairs ==
    ASSUME NEW W, NEW c
    PROVE  (\A p \in {<<undoes[u], u>> : u \in W} : p[1] # c) <=> \A u \in W : undoes[u] # c
<1> DEFINE P == {<<undoes[u], u>> : u \in W}
<1>1. ASSUME NEW u \in W, \A p \in P : p[1] # c PROVE undoes[u] # c
  <2>1. <<undoes[u], u>> \in P /\ <<undoes[u], u>>[1] = undoes[u]
    OBVIOUS
  <2> HIDE DEF P
  <2> QED
    BY <1>1, <2>1
<1>2. ASSUME NEW p \in P, \A u \in W : undoes[u] # c PROVE p[1] # c
  BY <1>2
<1> QED
  BY <1>1, <1>2

(* ... and to the contents.                                                *)
LEMMA ContentsAfter ==
    ASSUME OpsOK, NEW A, Closed(A), NEW o \in Ops \ A, prev[o] \subseteq A,
           NEW s, s.active = ActiveOf(A), s.contents = ContentsOf(A)
    PROVE  Mutated(s, o, Invalidated(s, o)) = ContentsOf(A \cup {o})
<1> DEFINE U == Unredone(A)
           V == Unredone(A \cup {o})
           x == FinalTarget(o)
<1>1. /\ IsUndo(o) => V = U \cup {o}
      /\ IsRedo(o) => V = U \ {undoes[o]}
      /\ undoes[o] = None => V = U
  BY UnredoneAfter
<1>2. ContentsOf(A \cup {o}) = {c \in A \cup {o} : undoes[c] = None /\ \A u \in V : undoes[u] # c}
      /\ s.contents = {c \in A : undoes[c] = None /\ \A u \in U : undoes[u] # c}
  BY DEF ContentsOf
<1>3. \A c : /\ Valid(s, c) <=> \A u \in U : undoes[u] # c
             /\ (\A p \in Invalidated(s, o) : p[1] # c) <=> \A u \in V : undoes[u] # c
  <2>1. Invalidated(s, o) = {<<undoes[u], u>> : u \in V} /\ s.active = {<<undoes[u], u>> : u \in U}
    BY ActiveAfter DEF ActiveOf
  <2> HIDE DEF U, V
  <2>2. \A W, c : (\A p \in {<<undoes[u], u>> : u \in W} : p[1] # c) <=> \A u \in W : undoes[u] # c
    BY FirstOfPairs
  <2> QED
    BY ONLY <2>1, <2>2 DEF Valid
<1>4. U \subseteq A
  BY DEF Unredone
<1>5. CASE undoes[o] = None
  <2>1. Mutated(s, o, Invalidated(s, o)) = s.contents \cup {o}
    BY <1>5 DEF Mutated
  <2>2. V = U /\ \A u \in U : undoes[u] # o
    BY <1>1, <1>4, <1>5, NothingFollows
  <2> HIDE DEF U, V
  <2> QED
    BY <1>2, <1>5, <2>1, <2>2
<1>6. CASE undoes[o] # None
  <2>1. x \in A /\ undoes[x] = None
    BY <1>6, Targets
  <2>2. Mutated(s, o, Invalidated(s, o)) =
          LET now == \A u \in V : undoes[u] # x
          IN  IF now = Valid(s, x) THEN s.contents
              ELSE IF now THEN s.contents \cup {x} ELSE s.contents \ {x}
    <3> HIDE DEF V, U
    <3> QED
      BY <1>3, <1>6 DEF Mutated
  <2>3. (x \in s.contents) <=> Valid(s, x)
    BY <1>2, <1>3, <2>1
  <2>4. CASE IsUndo(o)
    <3>1. V = U \cup {o} /\ undoes[o] = x
      BY <1>1, <2>4 DEF FinalTarget, IsUndo, IsRedo
    <3> HIDE DEF U, V, x
    <3>2. Mutated(s, o, Invalidated(s, o)) = s.contents \ {x}
      BY <2>2, <2>3, <3>1
    <3>3. ASSUME NEW c \in A, undoes[c] = None
          PROVE  (\A w \in V : undoes[w] # c) <=> (\A w \in U : undoes[w] # c) /\ c # x
      BY ONLY <3>1
    <3>4. ContentsOf(A \cup {o}) = {c \in A : undoes[c] = None /\ \A w \in V : undoes[w] # c}
      BY ONLY <1>2, <1>6
    <3>5. s.contents = {c \in A : undoes[c] = None /\ \A w \in U : undoes[w] # c}
      BY ONLY <1>2
    <3>6. ContentsOf(A \cup {o}) = s.contents \ {x}
      BY ONLY <3>3, <3>4, <3>5
    <3> QED
      BY ONLY <3>2, <3>6
  <2>5. CASE IsRedo(o)
    <3>1. V = U \ {undoes[o]} /\ undoes[undoes[o]] = x
      BY <1>1, <2>5 DEF FinalTarget
    <3>2. \A u \in V : undoes[u] # x
      <4>1. undoes[o] \in Ops /\ undoes[undoes[o]] # None /\ U \subseteq Ops
        BY <1>4, <2>5, OpFacts DEF IsRedo, Closed
      <4> HIDE DEF U, V, x
      <4> QED
        BY <3>1, <4>1 DEF OpsOK
    <3>3. \A c \in A : undoes[c] = None /\ c # x =>
            ((\A u \in V : undoes[u] # c) <=> (\A u \in U : undoes[u] # c))
      <4> HIDE DEF U, V, x
      <4> QED
        BY <3>1
    <3> HIDE DEF U, V, x
    <3>4. Mutated(s, o, Invalidated(s, o)) = s.contents \cup {x}
      BY <2>2, <2>3, <3>2
    <3>5. ContentsOf(A \cup {o}) = {c \in A : undoes[c] = None /\ \A w \in V : undoes[w] # c}
      BY ONLY <1>2, <1>6
    <3>6. s.contents = {c \in A : undoes[c] = None /\ \A w \in U : undoes[w] # c}
      BY ONLY <1>2
    <3>7. ContentsOf(A \cup {o}) = s.contents \cup {x}
      BY ONLY <2>1, <3>2, <3>3, <3>5, <3>6
    <3> QED
      BY ONLY <3>4, <3>7
  <2> QED
    BY <1>6, <2>4, <2>5 DEF IsUndo, IsRedo
<1> QED
  BY <1>5, <1>6

-----------------------------------------------------------------------------
(* Everything in the store up to o is in A: o is where a search may begin. *)
UpTo(o, A) == o = None \/ \E n \in DOMAIN stored : stored[n] = o /\ \A k \in 1 .. n : stored[k] \in A

(* The fields of the records of the module: without them, the prover does  *)
(* not know what an update leaves alone.                                   *)
SnapshotFields == {"terminal", "last", "count", "applied", "active", "contents"}
InstFields == {"terminal", "applied", "active", "contents", "unsaved", "unapplied",
               "last", "count", "lastAtCheckpoint", "countAtCheckpoint", "loaded"}
LoadFields == {"pc", "found", "next", "applying", "before"}
TimerFields == {"set", "on", "since", "check", "hashes"}
Kinds == {"app", "explicit"}

(* A checkpoint shows a history of stored ops without holes before its     *)
(* last op, and counts no more than there are.                             *)
SnapshotOK(c) ==
    /\ DOMAIN c = SnapshotFields /\ c.count \in Int
    /\ Shows(c) /\ UpTo(c.last, c.applied) /\ c.applied \subseteq Stored
    /\ c.count <= Cardinality(c.applied)

(* So does an instance, whose history may have unsaved ops too; it counts  *)
(* no more than the stored ones.                                           *)
AppliedOK(s) ==
    /\ Shows(s) /\ UpTo(s.last, s.applied) /\ UpTo(s.lastAtCheckpoint, s.applied)
    /\ s.unapplied \subseteq Stored
    /\ s.count <= Cardinality(s.applied \cap Stored)

(* What is applied and not stored is in the queue, each op after what it   *)
(* comes after; the op being saved is the first.                           *)
UnsavedOK(s, v) ==
    /\ s.unsaved \in Seq(Nat)
    /\ s.applied \ Stored \subseteq Range(s.unsaved)
    /\ \A k \in DOMAIN s.unsaved :
          s.unsaved[k] \in Ops /\ prev[s.unsaved[k]] \subseteq Stored \cup {s.unsaved[m] : m \in 1 .. (k - 1)}
    /\ v # None => s.unsaved # <<>> /\ v = Head(s.unsaved)

(* The counts only grow.                                                   *)
CountsOK(s) == s.count \in Nat /\ s.countAtCheckpoint \in Nat /\ s.countAtCheckpoint <= s.count

(* Nothing has been counted and no checkpoint is on its way: a checkpoint  *)
(* may be restored over whatever has been applied.                         *)
Untouched(s, t) == s.count = 0 /\ t.set = "no" /\ ~ t.on

(* A load restores only checkpoints that are good, and only on an instance *)
(* that is untouched; what it has passed in the index is applied, and the  *)
(* op it is waiting for is not counted yet.                                *)
LoadOK(s, l, t) ==
    /\ DOMAIN l = LoadFields
    /\ l.pc \in {"no", "checkpoint", "restore", "search", "applying"}
    /\ l.pc \in {"checkpoint", "restore"} => Untouched(s, t)
    /\ l.pc = "restore" => SnapshotOK(l.found) /\ l.found.count >= 0
    /\ l.pc \in {"search", "applying"} =>
          l.next \in 1 .. (Len(stored) + 1) /\ \A k \in 1 .. (l.next - 1) : stored[k] \in s.applied
    /\ l.applying # None =>
          l.pc = "applying" /\ l.next > 1 /\ l.applying = stored[l.next - 1]
          /\ s.count < Cardinality(s.applied \cap Stored)

(* The application's load and an explicit checkpoint's do not overlap.     *)
LoadsOK(s, ls, e, t) ==
    /\ DOMAIN ls = Kinds
    /\ \A u \in Kinds : LoadOK(s, ls[u], t)
    /\ ls["app"].pc # "no" => ~ s.loaded
    /\ e # "no" => s.loaded
    /\ ls["explicit"].pc # "no" => e = "loading"

(* The checkpoint a timer has taken, and the ops it has asked for: with    *)
(* them it would have everything up to the last of them.                   *)
CheckOK(s, t) ==
    /\ SnapshotOK(t.check) /\ t.check.applied \subseteq s.applied
    /\ 0 <= t.check.count /\ t.check.count <= s.count
    /\ t.hashes = <<>> \/ \E n \in DOMAIN stored :
          Last(t.hashes) = stored[n] /\ \A k \in 1 .. n : stored[k] \in s.applied \cup Range(t.hashes)

(* A timer is set only where something is applied.                         *)
TimerOK(s, t) ==
    /\ DOMAIN t = TimerFields
    /\ t.set # "no" \/ t.on => s.applied # {}
    /\ t.on => CheckOK(s, t)

(* An instance, with its calls, as it is between any two steps.            *)
InstanceOK(s, v, ls, e, t) ==
    /\ DOMAIN s = InstFields
    /\ AppliedOK(s) /\ UnsavedOK(s, v) /\ CountsOK(s) /\ LoadsOK(s, ls, e, t) /\ TimerOK(s, t)

(* The inductive invariant.                                                *)
Inv ==
    /\ OpsOK /\ StoreOK
    /\ SnapshotOK(checkpoint) /\ (checkpoint = NoCheckpoint \/ checkpoint.count >= 0)
    /\ DOMAIN inst = Instances /\ DOMAIN load = Instances /\ DOMAIN saving = Instances
    /\ DOMAIN arriving = Instances /\ DOMAIN timer = Instances /\ DOMAIN explicit = Instances
    /\ \A i \in Instances : /\ InstanceOK(inst[i], saving[i], load[i], explicit[i], timer[i])
                            /\ arriving[i] \subseteq Stored

-----------------------------------------------------------------------------
(* The store and its index.                                                *)
LEMMA StoredFacts ==
    ASSUME OpsOK, StoreOK
    PROVE  /\ DOMAIN stored = 1 .. Len(stored) /\ Len(stored) \in Nat
           /\ Stored = {stored[k] : k \in DOMAIN stored}
           /\ None \notin Stored
           /\ \A n \in DOMAIN stored : Place(stored[n]) = n
<1>1. DOMAIN stored = 1 .. Len(stored) /\ Len(stored) \in Nat
  BY DEF StoreOK
<1>2. Stored = {stored[k] : k \in DOMAIN stored}
  BY DEF Stored, Range
<1>3. None \notin Stored
  BY OpFacts DEF StoreOK
<1>4. ASSUME NEW n \in DOMAIN stored PROVE Place(stored[n]) = n
  <2>1. \A i \in DOMAIN stored : stored[i] = stored[n] => i = n
    BY DEF StoreOK
  <2>2. stored[n] \in Stored
    BY <1>2
  <2> QED
    BY <2>1, <2>2 DEF Place
<1> QED
  BY <1>1, <1>2, <1>3, <1>4

(* A search starts after what is known to have been applied.               *)
LEMMA StartFacts ==
    ASSUME OpsOK, StoreOK, NEW o, NEW A, UpTo(o, A)
    PROVE  /\ StartOn(o) \in 1 .. (Len(stored) + 1) /\ Place(o) \in 0 .. Len(stored)
           /\ \A k \in 1 .. Place(o) : stored[k] \in A
           /\ \A k \in 1 .. (StartOn(o) - 1) : stored[k] \in A
<1>1. CASE o = None
  <2>1. Place(o) = 0 /\ StartOn(o) = 1
    BY <1>1, StoredFacts DEF Place, StartOn
  <2> QED
    BY <2>1, StoredFacts
<1>2. CASE o # None
  <2>1. PICK n \in DOMAIN stored : stored[n] = o /\ \A k \in 1 .. n : stored[k] \in A
    BY <1>2 DEF UpTo
  <2>2. Place(o) = n /\ StartOn(o) = n
    BY <1>2, <2>1, StoredFacts DEF StartOn
  <2> QED
    BY <2>1, <2>2, StoredFacts
<1> QED
  BY <1>1, <1>2

(* Sets of ops are finite: as many of them as there are is all of them.    *)
LEMMA CardFacts ==
    ASSUME OpsOK, NEW A, NEW B, A \subseteq B, B \subseteq Ops
    PROVE  /\ Cardinality(A) \in Nat /\ Cardinality(B) \in Nat /\ Cardinality(A) <= Cardinality(B)
           /\ Cardinality(A) = Cardinality(B) => A = B
           /\ A # B => Cardinality(A) < Cardinality(B)
           /\ A # {} <=> Cardinality(A) # 0
<1>1. IsFiniteSet(Ops)
  BY FS_Interval, OpFacts
<1>2. IsFiniteSet(B)
  BY <1>1, FS_Subset
<1>3. /\ IsFiniteSet(A) /\ Cardinality(A) <= Cardinality(B)
      /\ Cardinality(A) = Cardinality(B) => A = B
  BY <1>2, FS_Subset
<1>4. Cardinality(A) \in Nat /\ Cardinality(B) \in Nat
  BY <1>2, <1>3, FS_CardinalityType
<1>5. A # {} <=> Cardinality(A) # 0
  BY <1>3, FS_EmptySet
<1> QED
  BY <1>3, <1>4, <1>5

-----------------------------------------------------------------------------
(* Ops are only added, and so is what is stored.                           *)
Grows ==
    /\ Ops \subseteq Ops' /\ \A o \in Ops : prev'[o] = prev[o] /\ undoes'[o] = undoes[o]
    /\ DOMAIN stored \subseteq DOMAIN stored' /\ Stored \subseteq Stored'
    /\ Len(stored) <= Len(stored') /\ \A k \in DOMAIN stored : stored'[k] = stored[k]

(* A state still shows its history when there are more ops,                *)
LEMMA ShowsKept ==
    ASSUME OpsOK, OpsOK', Grows, NEW s, Shows(s)
    PROVE  Shows(s)'
<1> DEFINE A == s.applied
<1>1. Closed(A) /\ A \subseteq Ops /\ A \subseteq Ops'
  BY DEF Shows, Closed, Grows
<1>2. \A u \in A : undoes'[u] = undoes[u] /\ prev'[u] = prev[u]
  BY <1>1 DEF Grows
<1>3. \A u \in A : IsUndo(u)' <=> IsUndo(u)
  <2> SUFFICES ASSUME NEW u \in A PROVE IsUndo(u)' <=> IsUndo(u)
    OBVIOUS
  <2>1. CASE undoes[u] = None
    BY <1>2, <2>1 DEF IsUndo
  <2>2. CASE undoes[u] # None
    <3>1. undoes[u] \in Ops
      BY <1>1, <2>2, OpFacts
    <3>2. undoes'[undoes[u]] = undoes[undoes[u]]
      BY <3>1 DEF Grows
    <3> QED
      BY <1>2, <3>2 DEF IsUndo
  <2> QED
    BY <2>1, <2>2
<1> HIDE DEF A
<1>4. Closed(A)' /\ Heads(A)' = Heads(A)
  BY <1>1, <1>2 DEF Closed, Heads, A
<1>5. Unredone(A)' = Unredone(A)
  BY <1>2, <1>3 DEF Unredone, A
<1>6. Unredone(A) \subseteq A
  BY DEF Unredone
<1>7. ActiveOf(A)' = ActiveOf(A)
  BY <1>2, <1>5, <1>6 DEF ActiveOf, A
<1>8. ContentsOf(A)' = ContentsOf(A)
  BY <1>2, <1>5, <1>6 DEF ContentsOf, A
<1> QED
  BY <1>4, <1>7, <1>8 DEF Shows, A

(* ... and what was complete up to an op still is when the store has more. *)
LEMMA UpToKept ==
    ASSUME Grows, NEW o, NEW A, UpTo(o, A), OpsOK, StoreOK, StoreOK'
    PROVE  UpTo(o, A)'
<1>1. CASE o = None
  BY <1>1 DEF UpTo
<1>2. CASE o # None
  <2>1. PICK n \in DOMAIN stored : stored[n] = o /\ \A k \in 1 .. n : stored[k] \in A
    BY <1>2 DEF UpTo
  <2>2. n \in DOMAIN stored' /\ stored'[n] = o /\ \A k \in 1 .. n : stored'[k] = stored[k]
    BY <2>1, StoredFacts DEF Grows
  <2> QED
    BY <2>1, <2>2 DEF UpTo
<1> QED
  BY <1>1, <1>2

(* What has been applied, with more of it.                                 *)
LEMMA UpToMore ==
    ASSUME NEW o, NEW A, NEW B, A \subseteq B, UpTo(o, A)
    PROVE  UpTo(o, B)
BY DEF UpTo

(* So a good checkpoint stays good,                                        *)
LEMMA SnapshotKept ==
    ASSUME OpsOK, OpsOK', StoreOK, StoreOK', Grows, NEW c, SnapshotOK(c)
    PROVE  SnapshotOK(c)'
<1>1. Shows(c)' /\ UpTo(c.last, c.applied)'
  BY ShowsKept, UpToKept DEF SnapshotOK
<1> QED
  BY <1>1 DEF SnapshotOK, Grows

(* ... as does an instance,                                                *)
LEMMA AppliedKept ==
    ASSUME OpsOK, OpsOK', StoreOK, StoreOK', Grows, NEW s, AppliedOK(s), s.count \in Nat
    PROVE  AppliedOK(s)' /\ Cardinality(s.applied \cap Stored) <= Cardinality(s.applied \cap Stored')
           /\ Cardinality(s.applied \cap Stored) \in Nat /\ Cardinality(s.applied \cap Stored') \in Nat
<1>1. Shows(s)' /\ UpTo(s.last, s.applied)' /\ UpTo(s.lastAtCheckpoint, s.applied)'
  BY ShowsKept, UpToKept DEF AppliedOK
<1>2. s.unapplied \subseteq Stored'
  BY DEF AppliedOK, Grows
<1>3. /\ Cardinality(s.applied \cap Stored) <= Cardinality(s.applied \cap Stored')
      /\ Cardinality(s.applied \cap Stored) \in Nat /\ Cardinality(s.applied \cap Stored') \in Nat
  <2>1. s.applied \cap Stored \subseteq s.applied \cap Stored' /\ s.applied \cap Stored' \subseteq Ops
    BY DEF Grows, AppliedOK, Shows, Closed
  <2> HIDE DEF Stored
  <2> QED
    BY <2>1, CardFacts
<1>4. s.count <= Cardinality(s.applied \cap Stored)
  BY DEF AppliedOK
<1>5. s.count <= Cardinality(s.applied \cap Stored')
  BY <1>3, <1>4
<1> QED
  BY <1>1, <1>2, <1>3, <1>5 DEF AppliedOK

(* ... its queue,                                                          *)
LEMMA UnsavedKept ==
    ASSUME OpsOK, OpsOK', StoreOK, StoreOK', Grows, NEW s, NEW v, UnsavedOK(s, v)
    PROVE  UnsavedOK(s, v)'
<1>1. \A k \in DOMAIN s.unsaved : s.unsaved[k] \in Ops' /\ prev'[s.unsaved[k]] = prev[s.unsaved[k]]
  BY DEF UnsavedOK, Grows
<1>2. \A k \in DOMAIN s.unsaved : prev'[s.unsaved[k]] \subseteq Stored' \cup {s.unsaved[m] : m \in 1 .. (k - 1)}
  BY <1>1 DEF UnsavedOK, Grows
<1>3. s.applied \ Stored' \subseteq Range(s.unsaved)
  BY DEF UnsavedOK, Grows
<1> QED
  BY <1>1, <1>2, <1>3 DEF UnsavedOK

(* ... its loads,                                                          *)
LEMMA LoadKept ==
    ASSUME OpsOK, OpsOK', StoreOK, StoreOK', Grows, NEW s, AppliedOK(s), s.count \in Nat, NEW l, NEW t, LoadOK(s, l, t)
    PROVE  LoadOK(s, l, t)'
<1>1. l.pc = "restore" => SnapshotOK(l.found)'
  BY SnapshotKept DEF LoadOK
<1>2. ASSUME l.pc \in {"search", "applying"}
      PROVE  /\ l.next \in 1 .. (Len(stored') + 1)
             /\ \A k \in 1 .. (l.next - 1) : stored'[k] = stored[k] /\ stored[k] \in s.applied
  <2>1. l.next \in 1 .. (Len(stored) + 1) /\ \A k \in 1 .. (l.next - 1) : stored[k] \in s.applied
    BY <1>2 DEF LoadOK
  <2>2. Len(stored) \in Nat /\ Len(stored') \in Nat /\ Len(stored) <= Len(stored') /\ DOMAIN stored = 1 .. Len(stored)
    BY StoredFacts DEF Grows, StoreOK
  <2>3. \A k \in 1 .. (l.next - 1) : k \in DOMAIN stored
    BY <2>1, <2>2
  <2> QED
    BY <2>1, <2>2, <2>3 DEF Grows
<1>3. ASSUME l.applying # None
      PROVE  /\ l.pc = "applying" /\ l.next > 1 /\ l.applying = stored'[l.next - 1]
             /\ s.count < Cardinality(s.applied \cap Stored')
  <2>1. /\ l.pc = "applying" /\ l.next > 1 /\ l.applying = stored[l.next - 1]
        /\ s.count < Cardinality(s.applied \cap Stored)
    BY <1>3 DEF LoadOK
  <2>2. l.next - 1 \in 1 .. (l.next - 1)
    BY <2>1 DEF LoadOK
  <2>3. l.applying = stored'[l.next - 1]
    BY <1>2, <2>1, <2>2
  <2>4. /\ Cardinality(s.applied \cap Stored) <= Cardinality(s.applied \cap Stored')
        /\ Cardinality(s.applied \cap Stored) \in Nat /\ Cardinality(s.applied \cap Stored') \in Nat
    BY AppliedKept
  <2>5. s.count < Cardinality(s.applied \cap Stored')
    BY <2>1, <2>4
  <2> QED
    BY <2>1, <2>3, <2>5
<1>4. DOMAIN l = LoadFields /\ l.pc \in {"no", "checkpoint", "restore", "search", "applying"}
      /\ (l.pc \in {"checkpoint", "restore"} => Untouched(s, t)) /\ (l.pc = "restore" => l.found.count >= 0)
  BY DEF LoadOK
<1> QED
  BY <1>1, <1>2, <1>3, <1>4 DEF LoadOK, Untouched

(* ... and its timer.                                                      *)
LEMMA TimerKept ==
    ASSUME OpsOK, OpsOK', StoreOK, StoreOK', Grows, NEW s, NEW t, TimerOK(s, t)
    PROVE  TimerOK(s, t)'
<1>1. CASE t.on
  <2>1. CheckOK(s, t)
    BY <1>1 DEF TimerOK
  <2>2. SnapshotOK(t.check)'
    BY <2>1, SnapshotKept DEF CheckOK
  <2>3. ASSUME NEW n \in DOMAIN stored, Last(t.hashes) = stored[n],
               \A k \in 1 .. n : stored[k] \in s.applied \cup Range(t.hashes)
        PROVE  n \in DOMAIN stored' /\ Last(t.hashes) = stored'[n]
               /\ \A k \in 1 .. n : stored'[k] \in s.applied \cup Range(t.hashes)
    <3>1. \A k \in 1 .. n : k \in DOMAIN stored
      BY StoredFacts
    <3> QED
      BY <2>3, <3>1 DEF Grows
  <2>4. CheckOK(s, t)'
    BY <2>1, <2>2, <2>3 DEF CheckOK
  <2> QED
    BY <2>4 DEF TimerOK
<1>2. CASE ~ t.on
  BY <1>2 DEF TimerOK
<1> QED
  BY <1>1, <1>2

(* An instance that does nothing itself is as right as it was.             *)
LEMMA InstanceKept ==
    ASSUME OpsOK, OpsOK', StoreOK, StoreOK', Grows, NEW s, NEW v, NEW ls, NEW e, NEW t, InstanceOK(s, v, ls, e, t)
    PROVE  InstanceOK(s, v, ls, e, t)'
<1>1. AppliedOK(s)' /\ UnsavedOK(s, v)' /\ TimerOK(s, t)'
  BY AppliedKept, UnsavedKept, TimerKept DEF InstanceOK, CountsOK
<1>2. LoadsOK(s, ls, e, t)'
  <2>1. \A u \in Kinds : LoadOK(s, ls[u], t)'
    BY LoadKept DEF InstanceOK, LoadsOK, CountsOK
  <2> QED
    BY <2>1 DEF InstanceOK, LoadsOK
<1> QED
  BY <1>1, <1>2 DEF InstanceOK, CountsOK

-----------------------------------------------------------------------------
(* apply(), of an op that is stored and whose past has been applied.       *)
LEMMA ApplyFacts ==
    ASSUME OpsOK, StoreOK, NEW s, DOMAIN s = InstFields, Shows(s), NEW o \in Stored, prev[o] \subseteq s.applied,
           NEW r, r = Apply(s, o)
    PROVE  /\ DOMAIN r = InstFields /\ Shows(r) /\ r.applied = s.applied \cup {o}
           /\ r.unsaved = s.unsaved /\ r.unapplied = s.unapplied /\ r.last = s.last /\ r.count = s.count
           /\ r.lastAtCheckpoint = s.lastAtCheckpoint /\ r.countAtCheckpoint = s.countAtCheckpoint
           /\ r.loaded = s.loaded
<1>1. CASE o \in s.applied
  <2>1. r = s
    BY <1>1 DEF Apply
  <2> QED
    BY <1>1, <2>1
<1>2. CASE o \notin s.applied
  <2> DEFINE A == s.applied
  <2>1. PICK terminal, active, contents :
          /\ terminal = (s.terminal \ prev[o]) \cup {o} /\ active = Invalidated(s, o)
          /\ contents = Mutated(s, o, Invalidated(s, o))
    OBVIOUS
  <2>2. r = [s EXCEPT !.terminal = terminal, !.applied = A \cup {o}, !.active = active, !.contents = contents]
    BY <1>2, <2>1 DEF Apply
  <2>3. /\ DOMAIN r = InstFields /\ r.applied = A \cup {o} /\ r.terminal = terminal
        /\ r.active = active /\ r.contents = contents
        /\ r.unsaved = s.unsaved /\ r.unapplied = s.unapplied /\ r.last = s.last /\ r.count = s.count
        /\ r.lastAtCheckpoint = s.lastAtCheckpoint /\ r.countAtCheckpoint = s.countAtCheckpoint
        /\ r.loaded = s.loaded
    BY ONLY <2>2, DOMAIN s = InstFields DEF InstFields
  <2>4. Closed(A) /\ o \in Ops \ A /\ s.terminal = Heads(A) /\ s.active = ActiveOf(A) /\ s.contents = ContentsOf(A)
    BY <1>2 DEF Shows, StoreOK
  <2> HIDE DEF A
  <2>5. prev[o] \subseteq A
    BY DEF A
  <2>6. Closed(A \cup {o}) /\ terminal = Heads(A \cup {o})
    BY <2>1, <2>4, <2>5, ClosedAfter, HeadsAfter
  <2>7. active = ActiveOf(A \cup {o}) /\ contents = ContentsOf(A \cup {o})
    BY <2>1, <2>4, <2>5, ActiveAfter, ContentsAfter
  <2> QED
    BY <2>3, <2>6, <2>7 DEF Shows, A
<1> QED
  BY <1>1, <1>2

(* What holds of an instance still does when more is applied.              *)
LEMMA MoreApplied ==
    ASSUME OpsOK, StoreOK, NEW s, NEW v, NEW ls, NEW e, NEW t, InstanceOK(s, v, ls, e, t),
           NEW o \in Stored, prev[o] \subseteq s.applied, NEW r, r = Apply(s, o)
    PROVE  InstanceOK(r, v, ls, e, t)
<1>1. /\ DOMAIN r = InstFields /\ Shows(r) /\ r.applied = s.applied \cup {o}
      /\ r.unsaved = s.unsaved /\ r.unapplied = s.unapplied /\ r.last = s.last /\ r.count = s.count
      /\ r.lastAtCheckpoint = s.lastAtCheckpoint /\ r.countAtCheckpoint = s.countAtCheckpoint
      /\ r.loaded = s.loaded
  BY ApplyFacts DEF InstanceOK, AppliedOK
<1>2. s.applied \subseteq r.applied /\ s.count \in Nat
  BY <1>1 DEF InstanceOK, CountsOK
<1>3. /\ Cardinality(s.applied \cap Stored) <= Cardinality(r.applied \cap Stored)
      /\ Cardinality(s.applied \cap Stored) \in Nat /\ Cardinality(r.applied \cap Stored) \in Nat
  <2>1. s.applied \cap Stored \subseteq r.applied \cap Stored /\ r.applied \cap Stored \subseteq Ops
    BY <1>2 DEF StoreOK
  <2> HIDE DEF Stored
  <2> QED
    BY <2>1, CardFacts
<1>4. AppliedOK(r)
  <2>1. UpTo(r.last, r.applied) /\ UpTo(r.lastAtCheckpoint, r.applied)
    BY <1>1, <1>2, UpToMore DEF InstanceOK, AppliedOK
  <2>2. s.count <= Cardinality(s.applied \cap Stored)
    BY DEF InstanceOK, AppliedOK
  <2>3. r.count <= Cardinality(r.applied \cap Stored)
    BY <1>1, <1>2, <1>3, <2>2
  <2> QED
    BY <1>1, <2>1, <2>3 DEF InstanceOK, AppliedOK
<1>5. UnsavedOK(r, v) /\ CountsOK(r)
  BY <1>1 DEF InstanceOK, UnsavedOK, CountsOK
<1>6. ASSUME NEW l, LoadOK(s, l, t)
      PROVE  LoadOK(r, l, t)
  <2>1. l.applying # None => r.count < Cardinality(r.applied \cap Stored)
    BY <1>1, <1>2, <1>3, <1>6 DEF LoadOK
  <2>2. \A x : x \in s.applied => x \in r.applied
    BY <1>2
  <2>3. Untouched(s, t) => Untouched(r, t)
    BY <1>1 DEF Untouched
  <2> QED
    BY <1>6, <2>1, <2>2, <2>3 DEF LoadOK
<1>7. LoadsOK(r, ls, e, t)
  BY <1>1, <1>6 DEF InstanceOK, LoadsOK
<1>8. TimerOK(r, t)
  <2>1. TimerOK(s, t)
    BY DEF InstanceOK
  <2>2. t.on => CheckOK(r, t)
    BY <1>1, <1>2, <2>1 DEF TimerOK, CheckOK
  <2>3. s.applied # {} => r.applied # {}
    BY <1>2
  <2> QED
    BY <2>1, <2>2, <2>3 DEF TimerOK
<1> QED
  BY <1>1, <1>4, <1>5, <1>7, <1>8 DEF InstanceOK

(* The fields that say what is applied and saved.                          *)
SameBut(s, r) ==
    /\ DOMAIN r = InstFields
    /\ r.terminal = s.terminal /\ r.applied = s.applied /\ r.active = s.active /\ r.contents = s.contents

(* An update of the other fields changes nothing of what a state shows.    *)
LEMMA ShowsSame ==
    ASSUME NEW s, NEW r, SameBut(s, r), Shows(s)
    PROVE  Shows(r)
BY DEF Shows, SameBut

(* The ops from the store that wait for others.                            *)
LEMMA WaitingOK ==
    ASSUME OpsOK, StoreOK, NEW s, NEW v, NEW ls, NEW e, NEW t, InstanceOK(s, v, ls, e, t),
           NEW W, W \subseteq Stored, NEW r, r = [s EXCEPT !.unapplied = W]
    PROVE  InstanceOK(r, v, ls, e, t) /\ r.unapplied = W
<1>1. DOMAIN s = InstFields
  BY DEF InstanceOK
<1>2. /\ SameBut(s, r) /\ r.unapplied = W
      /\ r.unsaved = s.unsaved /\ r.last = s.last /\ r.count = s.count
      /\ r.lastAtCheckpoint = s.lastAtCheckpoint /\ r.countAtCheckpoint = s.countAtCheckpoint
      /\ r.loaded = s.loaded
  BY ONLY <1>1, r = [s EXCEPT !.unapplied = W] DEF InstFields, SameBut
<1>3. AppliedOK(r) /\ UnsavedOK(r, v) /\ CountsOK(r)
  <2>1. Shows(r)
    BY <1>2, ShowsSame DEF InstanceOK, AppliedOK
  <2>2. AppliedOK(r)
    BY <1>2, <2>1 DEF InstanceOK, AppliedOK, SameBut
  <2>3. UnsavedOK(r, v) /\ CountsOK(r)
    BY <1>2 DEF InstanceOK, UnsavedOK, CountsOK, SameBut
  <2> QED
    BY <2>2, <2>3
<1>4. ASSUME NEW l, LoadOK(s, l, t) PROVE LoadOK(r, l, t)
  BY <1>2, <1>4 DEF LoadOK, Untouched, SameBut
<1>5. LoadsOK(r, ls, e, t) /\ TimerOK(r, t)
  BY <1>2, <1>4 DEF InstanceOK, LoadsOK, TimerOK, CheckOK, SameBut
<1> QED
  BY <1>2, <1>3, <1>5 DEF InstanceOK, SameBut

(* An instance that made a checkpoint.                                     *)
LEMMA CheckpointedOK ==
    ASSUME OpsOK, StoreOK, NEW s, NEW v, NEW ls, NEW e, NEW t, InstanceOK(s, v, ls, e, t),
           NEW c, UpTo(c.last, s.applied), c.count \in Nat, c.count <= s.count, NEW r, r = Checkpointed(s, c)
    PROVE  InstanceOK(r, v, ls, e, t) /\ SameBut(s, r) /\ r.loaded = s.loaded /\ r.unsaved = s.unsaved /\ r.last = s.last
           /\ r.count = s.count
<1>1. DOMAIN s = InstFields
  BY DEF InstanceOK
<1>2. /\ SameBut(s, r) /\ r.unapplied = s.unapplied
      /\ r.unsaved = s.unsaved /\ r.last = s.last /\ r.count = s.count
      /\ r.lastAtCheckpoint = c.last /\ r.countAtCheckpoint = c.count
      /\ r.loaded = s.loaded
  BY ONLY <1>1, r = Checkpointed(s, c) DEF InstFields, SameBut, Checkpointed
<1>3. AppliedOK(r) /\ UnsavedOK(r, v) /\ CountsOK(r)
  <2>1. Shows(r)
    BY <1>2, ShowsSame DEF InstanceOK, AppliedOK
  <2>2. AppliedOK(r)
    BY <1>2, <2>1 DEF InstanceOK, AppliedOK, SameBut
  <2>3. UnsavedOK(r, v) /\ CountsOK(r)
    BY <1>2 DEF InstanceOK, UnsavedOK, CountsOK, SameBut
  <2> QED
    BY <2>2, <2>3
<1>4. ASSUME NEW l, LoadOK(s, l, t) PROVE LoadOK(r, l, t)
  BY <1>2, <1>4 DEF LoadOK, Untouched, SameBut
<1>5. LoadsOK(r, ls, e, t) /\ TimerOK(r, t)
  BY <1>2, <1>4 DEF InstanceOK, LoadsOK, TimerOK, CheckOK, SameBut
<1> QED
  BY <1>2, <1>3, <1>5 DEF InstanceOK, SameBut

(* A load that goes on, or that begins when the other is over.             *)
LEMMA OneLoadChanges ==
    ASSUME NEW s, NEW v, NEW ls, NEW e, NEW t, InstanceOK(s, v, ls, e, t), NEW u \in Kinds,
           NEW l, LoadOK(s, l, t), NEW ks, ks = [ls EXCEPT ![u] = l],
           \/ l.pc # "no" => ls[u].pc # "no"
           \/ (u = "app" => ~ s.loaded) /\ (u = "explicit" => e = "loading")
    PROVE  InstanceOK(s, v, ks, e, t)
<1>1. DOMAIN ls = Kinds /\ DOMAIN ks = Kinds /\ \A w \in Kinds : ks[w] = IF w = u THEN l ELSE ls[w]
  BY DEF InstanceOK, LoadsOK
<1>2. /\ \A w \in Kinds : LoadOK(s, ls[w], t)
      /\ ls["app"].pc # "no" => ~ s.loaded
      /\ e # "no" => s.loaded
      /\ ls["explicit"].pc # "no" => e = "loading"
  BY DEF InstanceOK, LoadsOK
<1>3. \A w \in Kinds : LoadOK(s, ks[w], t)
  BY <1>1, <1>2
<1>4. (ks["app"].pc # "no" => ~ s.loaded) /\ (ks["explicit"].pc # "no" => e = "loading")
  BY <1>1, <1>2 DEF Kinds
<1>5. LoadsOK(s, ks, e, t)
  BY <1>1, <1>2, <1>3, <1>4 DEF LoadsOK
<1> QED
  BY <1>5 DEF InstanceOK

(* A timer that changes, but not on an instance that may be restored.      *)
LEMMA TimerChanges ==
    ASSUME NEW s, NEW v, NEW ls, NEW e, NEW t, InstanceOK(s, v, ls, e, t),
           NEW x, TimerOK(s, x), Untouched(s, t) => Untouched(s, x)
    PROVE  InstanceOK(s, v, ls, e, x)
<1>1. ASSUME NEW l, LoadOK(s, l, t) PROVE LoadOK(s, l, x)
  BY <1>1 DEF LoadOK
<1>2. LoadsOK(s, ls, e, x)
  BY <1>1 DEF InstanceOK, LoadsOK
<1> QED
  BY <1>2 DEF InstanceOK

(* setAutoCheckpointTimers() does not touch an untouched instance,         *)
LEMMA TimersSet ==
    ASSUME NEW s, CountsOK(s), NEW t, TimerOK(s, t), NEW x, x = SetTimers(t, s)
    PROVE  TimerOK(s, x) /\ (Untouched(s, t) => Untouched(s, x))
<1>1. CASE s.applied = {}
  BY <1>1 DEF SetTimers
<1>2. CASE s.applied # {}
  <2>1. PICK z : z = IF t.set = "ops" \/ s.count - s.countAtCheckpoint > Freq THEN "ops"
                     ELSE IF s.count > s.countAtCheckpoint THEN "inactivity" ELSE "no"
    OBVIOUS
  <2>2. DOMAIN t = TimerFields /\ x = [t EXCEPT !.set = z]
    BY <1>2, <2>1 DEF SetTimers, TimerOK
  <2>3. DOMAIN x = TimerFields /\ x.set = z /\ x.on = t.on /\ x.check = t.check /\ x.hashes = t.hashes
    BY ONLY <2>2 DEF TimerFields
  <2>4. TimerOK(s, x)
    BY <1>2, <2>3 DEF TimerOK, CheckOK
  <2>5. ASSUME Untouched(s, t) PROVE z = "no"
    BY <2>1, <2>5 DEF Untouched, CountsOK
  <2> QED
    BY <2>3, <2>4, <2>5 DEF Untouched
<1> QED
  BY <1>1, <1>2

(* ... and clearing a timer never does.                                    *)
LEMMA TimersCleared ==
    ASSUME NEW s, NEW t, TimerOK(s, t), NEW x, x = Cleared(t)
    PROVE  TimerOK(s, x) /\ (Untouched(s, t) => Untouched(s, x)) /\ x.set = "no" /\ x.on = t.on /\ DOMAIN x = TimerFields
<1>1. DOMAIN t = TimerFields
  BY DEF TimerOK
<1>2. DOMAIN x = TimerFields /\ x.set = "no" /\ x.on = t.on /\ x.check = t.check /\ x.hashes = t.hashes
  BY ONLY <1>1, x = Cleared(t) DEF TimerFields, Cleared
<1> QED
  BY <1>2 DEF TimerOK, CheckOK, Untouched

(* A checkpoint can be made when everything that is applied is stored.     *)
LEMMA SnapshotMade ==
    ASSUME OpsOK, StoreOK, NEW s, AppliedOK(s), s.count \in Nat, s.applied \subseteq Stored, NEW c, c = Snapshot(s)
    PROVE  /\ SnapshotOK(c) /\ c.count = s.count /\ c.last = s.last /\ c.applied = s.applied
           /\ c.count \in Nat
<1>1. /\ DOMAIN c = SnapshotFields /\ c.count = s.count /\ c.last = s.last /\ c.applied = s.applied
      /\ c.terminal = s.terminal /\ c.active = s.active /\ c.contents = s.contents
  BY DEF Snapshot, SnapshotFields
<1>2. Shows(c)
  BY <1>1 DEF AppliedOK, Shows
<1>3. s.applied \cap Stored = s.applied
  OBVIOUS
<1> QED
  BY <1>1, <1>2, <1>3 DEF AppliedOK, SnapshotOK

(* An instance with nothing unsaved has applied only what is stored,       *)
LEMMA AllSaved ==
    ASSUME NEW s, NEW v, UnsavedOK(s, v), s.unsaved = <<>>
    PROVE  s.applied \subseteq Stored
<1>1. Range(s.unsaved) = {}
  BY DEF Range
<1> QED
  BY <1>1 DEF UnsavedOK

(* ... and so has one that has counted all it applied: this is what the    *)
(* test of loadAllChanges() and of the timer is for.                       *)
LEMMA AllLoaded ==
    ASSUME OpsOK, StoreOK, NEW s, AppliedOK(s), s.count = Cardinality(s.applied)
    PROVE  s.applied \subseteq Stored
<1> DEFINE B == s.applied \cap Stored
<1>1. s.applied \subseteq Ops /\ B \subseteq s.applied /\ Cardinality(s.applied) <= Cardinality(B)
  BY DEF AppliedOK, Shows, Closed
<1> HIDE DEF B
<1>2. B = s.applied
  <2>1. /\ Cardinality(B) \in Nat /\ Cardinality(s.applied) \in Nat /\ Cardinality(B) <= Cardinality(s.applied)
        /\ Cardinality(B) = Cardinality(s.applied) => B = s.applied
    BY <1>1, CardFacts
  <2> QED
    BY <1>1, <2>1
<1> QED
  BY <1>2 DEF B

-----------------------------------------------------------------------------
(* What an instance and its calls become in a step, and the others do not. *)
Domains == /\ DOMAIN inst = Instances /\ DOMAIN load = Instances /\ DOMAIN saving = Instances
           /\ DOMAIN arriving = Instances /\ DOMAIN timer = Instances /\ DOMAIN explicit = Instances
Becomes(i, s, v, ls, e, t) ==
    /\ Domains'
    /\ inst'[i] = s /\ saving'[i] = v /\ load'[i] = ls /\ explicit'[i] = e /\ timer'[i] = t
    /\ \A j \in Instances \ {i} : /\ inst'[j] = inst[j] /\ saving'[j] = saving[j] /\ load'[j] = load[j]
                                  /\ explicit'[j] = explicit[j] /\ timer'[j] = timer[j]

(* The checkpoint of the store, and an instance as it is now.              *)
GoodCheckpoint(c) == SnapshotOK(c) /\ (c = NoCheckpoint \/ c.count >= 0)
Now(i, s, v, ls, e, t) ==
    /\ s = inst[i] /\ v = saving[i] /\ ls = load[i] /\ e = explicit[i] /\ t = timer[i]
    /\ InstanceOK(s, v, ls, e, t)

(* There always is one.                                                    *)
LEMMA Present ==
    ASSUME Inv, NEW i \in Instances
    PROVE  \E s, v, ls, e, t : Now(i, s, v, ls, e, t)
BY DEF Inv, Now

(* A step of one instance, when there may be more ops.                     *)
LEMMA StoreStep ==
    ASSUME Inv, OpsOK', StoreOK', Grows, checkpoint' = checkpoint,
           NEW i \in Instances, NEW s, NEW v, NEW ls, NEW e, NEW t,
           Becomes(i, s, v, ls, e, t), InstanceOK(s, v, ls, e, t)',
           \A j \in Instances : arriving'[j] \subseteq Stored'
    PROVE  Inv'
<1>1. GoodCheckpoint(checkpoint)'
  <2>1. PICK c : c = checkpoint
    OBVIOUS
  <2>2. SnapshotOK(c) /\ (c = NoCheckpoint \/ c.count >= 0)
    BY <2>1 DEF Inv
  <2>3. SnapshotOK(c)'
    BY <2>2, SnapshotKept DEF Inv
  <2> QED
    BY <2>1, <2>2, <2>3 DEF GoodCheckpoint
<1>2. ASSUME NEW j \in Instances PROVE InstanceOK(inst[j], saving[j], load[j], explicit[j], timer[j])'
  <2>1. CASE j = i
    BY <2>1 DEF Becomes
  <2>2. CASE j # i
    <3>1. PICK s0, v0, ls0, e0, t0 : Now(j, s0, v0, ls0, e0, t0)
      BY Present
    <3>2. InstanceOK(s0, v0, ls0, e0, t0)'
      BY <3>1, InstanceKept DEF Now, Inv
    <3>3. inst'[j] = s0 /\ saving'[j] = v0 /\ load'[j] = ls0 /\ explicit'[j] = e0 /\ timer'[j] = t0
      BY <2>2, <3>1 DEF Now, Becomes
    <3> QED
      BY <3>2, <3>3
  <2> QED
    BY <2>1, <2>2
<1> QED
  BY <1>1, <1>2 DEF Inv, Becomes, Domains, GoodCheckpoint

(* A step that leaves the ops and the store alone.                         *)
LEMMA Quiet ==
    ASSUME OpsOK, StoreOK, UNCHANGED <<prev, undoes, stored>>
    PROVE  OpsOK' /\ StoreOK' /\ Grows /\ Stored' = Stored
<1>1. Ops' = Ops /\ Stored' = Stored /\ prev' = prev /\ undoes' = undoes /\ stored' = stored
  BY DEF Ops, Stored
<1>2. \A o : IsRedo(o)' <=> IsRedo(o)
  BY DEF IsRedo
<1>3. OpsOK' /\ StoreOK'
  BY <1>1, <1>2 DEF OpsOK, StoreOK
<1>4. Len(stored) \in Nat
  BY DEF StoreOK
<1> QED
  BY <1>1, <1>3, <1>4 DEF Grows

(* A step that stores nothing.                                             *)
LEMMA QuietStep ==
    ASSUME Inv, UNCHANGED <<prev, undoes, stored>>,
           NEW c, checkpoint' = c, GoodCheckpoint(c),
           NEW i \in Instances, NEW s, NEW v, NEW ls, NEW e, NEW t,
           Becomes(i, s, v, ls, e, t), InstanceOK(s, v, ls, e, t),
           \A j \in Instances : arriving'[j] \subseteq arriving[j]
    PROVE  Inv'
<1>1. OpsOK /\ StoreOK /\ OpsOK' /\ StoreOK' /\ Grows /\ Stored' = Stored
  BY Quiet DEF Inv
<1>2. GoodCheckpoint(checkpoint)'
  <2>1. SnapshotOK(c)'
    BY <1>1, SnapshotKept DEF GoodCheckpoint
  <2> QED
    BY <2>1 DEF GoodCheckpoint
<1>3. ASSUME NEW j \in Instances PROVE InstanceOK(inst[j], saving[j], load[j], explicit[j], timer[j])'
  <2>1. CASE j = i
    <3>1. InstanceOK(s, v, ls, e, t)'
      BY <1>1, InstanceKept
    <3> QED
      BY <2>1, <3>1 DEF Becomes
  <2>2. CASE j # i
    <3>1. PICK s0, v0, ls0, e0, t0 : Now(j, s0, v0, ls0, e0, t0)
      BY Present
    <3>2. InstanceOK(s0, v0, ls0, e0, t0)'
      BY <1>1, <3>1, InstanceKept DEF Now
    <3>3. inst'[j] = s0 /\ saving'[j] = v0 /\ load'[j] = ls0 /\ explicit'[j] = e0 /\ timer'[j] = t0
      BY <2>2, <3>1 DEF Now, Becomes
    <3> QED
      BY <3>2, <3>3
  <2> QED
    BY <2>1, <2>2
<1>4. \A j \in Instances : arriving'[j] \subseteq Stored'
  BY <1>1 DEF Inv
<1> QED
  BY <1>1, <1>2, <1>3, <1>4 DEF Inv, Becomes, Domains, GoodCheckpoint

(* The checkpoint of the store is good.                                    *)
LEMMA CheckpointNow ==
    ASSUME Inv
    PROVE  GoodCheckpoint(checkpoint)
BY DEF Inv, GoodCheckpoint

-----------------------------------------------------------------------------
(* The actions, one by one. Saving begins with the first unsaved op.       *)
LEMMA SaveAllChangesKeeps ==
    ASSUME Inv, NEW i \in Instances, SaveAllChanges(i)
    PROVE  Inv'
<1>1. PICK s, v, ls, e, t : Now(i, s, v, ls, e, t)
  BY Present
<1>2. PICK w : w = Head(s.unsaved)
  OBVIOUS
<1>3. UnsavedOK(s, w)
  BY <1>1, <1>2 DEF SaveAllChanges, Now, InstanceOK, UnsavedOK
<1>4. InstanceOK(s, w, ls, e, t)
  BY <1>1, <1>3 DEF Now, InstanceOK
<1>5. Becomes(i, s, w, ls, e, t)
  BY <1>1, <1>2 DEF SaveAllChanges, Now, Becomes, Domains, Inv
<1> QED
  BY <1>4, <1>5, QuietStep, CheckpointNow DEF SaveAllChanges, store

(* A queue that changes.                                                   *)
LEMMA UnsavedSet ==
    ASSUME NEW s, NEW v, NEW ls, NEW e, NEW t, InstanceOK(s, v, ls, e, t),
           NEW q, NEW w, NEW r, r = [s EXCEPT !.unsaved = q], UnsavedOK(r, w)
    PROVE  InstanceOK(r, w, ls, e, t)
<1>1. DOMAIN s = InstFields
  BY DEF InstanceOK
<1>2. /\ SameBut(s, r) /\ r.unapplied = s.unapplied /\ r.last = s.last /\ r.count = s.count
      /\ r.lastAtCheckpoint = s.lastAtCheckpoint /\ r.countAtCheckpoint = s.countAtCheckpoint
      /\ r.loaded = s.loaded
  BY ONLY <1>1, r = [s EXCEPT !.unsaved = q] DEF InstFields, SameBut
<1>3. AppliedOK(r) /\ CountsOK(r)
  <2>1. Shows(r)
    BY <1>2, ShowsSame DEF InstanceOK, AppliedOK
  <2>2. AppliedOK(r)
    BY <1>2, <2>1 DEF InstanceOK, AppliedOK, SameBut
  <2> QED
    BY <1>2, <2>2 DEF InstanceOK, CountsOK
<1>4. ASSUME NEW l, LoadOK(s, l, t) PROVE LoadOK(r, l, t)
  BY <1>2, <1>4 DEF LoadOK, Untouched, SameBut
<1>5. LoadsOK(r, ls, e, t) /\ TimerOK(r, t)
  BY <1>2, <1>4 DEF InstanceOK, LoadsOK, TimerOK, CheckOK, SameBut
<1> QED
  BY <1>2, <1>3, <1>5 DEF InstanceOK, SameBut

(* The rest of the unsaved ops, once the first is stored.                  *)
LEMMA FirstSaved ==
    ASSUME NEW s, DOMAIN s = InstFields, NEW v \in Stored, UnsavedOK(s, v), v # None,
           NEW q, q = Tail(s.unsaved), NEW r, r = [s EXCEPT !.unsaved = q],
           NEW w, w = IF q = <<>> THEN None ELSE Head(q)
    PROVE  UnsavedOK(r, w)
<1>1. r.unsaved = q /\ r.applied = s.applied
  BY ONLY DOMAIN s = InstFields, r = [s EXCEPT !.unsaved = q] DEF InstFields
<1> DEFINE z == s.unsaved
<1>2. z \in Seq(Nat) /\ z # <<>> /\ v = Head(z)
  BY DEF UnsavedOK
<1>3. \A k \in DOMAIN z : z[k] \in Ops /\ prev[z[k]] \subseteq Stored \cup {z[m] : m \in 1 .. (k - 1)}
  BY DEF UnsavedOK
<1>4. s.applied \ Stored \subseteq Range(z)
  BY DEF UnsavedOK
<1> HIDE DEF z
<1>5. /\ q \in Seq(Nat) /\ Len(q) = Len(z) - 1 /\ v = z[1] /\ Len(z) \in Nat \ {0}
      /\ \A k \in 1 .. Len(q) : q[k] = z[k + 1]
  <2>1. q = Tail(z)
    BY DEF z
  <2> QED
    BY ONLY <1>2, <2>1
<1>6. DOMAIN q = 1 .. Len(q) /\ DOMAIN z = 1 .. Len(z) /\ Len(q) \in Nat
  BY ONLY <1>2, <1>5
<1>7. \A k \in DOMAIN z : k = 1 \/ (k - 1 \in DOMAIN q /\ z[k] = q[k - 1])
  <2> SUFFICES ASSUME NEW k \in DOMAIN z, k # 1 PROVE k - 1 \in DOMAIN q /\ z[k] = q[k - 1]
    OBVIOUS
  <2>1. k - 1 \in 1 .. Len(q) /\ (k - 1) + 1 = k
    BY ONLY <1>5, <1>6, k \in DOMAIN z, k # 1
  <2>2. q[k - 1] = z[(k - 1) + 1]
    BY ONLY <1>5, <2>1
  <2> QED
    BY ONLY <1>6, <2>1, <2>2
<1>8. Range(z) \subseteq Range(q) \cup Stored
  <2>1. z[1] \in Stored
    BY ONLY <1>5, v \in Stored
  <2> QED
    BY ONLY <1>7, <2>1 DEF Range
<1>9. ASSUME NEW k \in DOMAIN q
      PROVE  q[k] \in Ops /\ prev[q[k]] \subseteq Stored \cup {q[m] : m \in 1 .. (k - 1)}
  <2>1. k + 1 \in DOMAIN z /\ q[k] = z[k + 1] /\ (k + 1) - 1 = k
    BY ONLY <1>5, <1>6, k \in DOMAIN q
  <2>2. q[k] \in Ops /\ prev[q[k]] \subseteq Stored \cup {z[m] : m \in 1 .. k}
    BY <1>3, <2>1
  <2>3. ASSUME NEW m \in 1 .. k PROVE z[m] \in Stored \cup {q[n] : n \in 1 .. (k - 1)}
    <3>1. CASE m = 1
      BY ONLY <1>5, <3>1, v \in Stored
    <3>2. CASE m # 1
      <4>1. m - 1 \in 1 .. (k - 1) /\ m - 1 \in 1 .. Len(q) /\ (m - 1) + 1 = m
        BY ONLY <1>6, <3>2, k \in DOMAIN q, m \in 1 .. k
      <4>2. z[m] = q[m - 1]
        BY ONLY <1>5, <4>1
      <4> QED
        BY ONLY <4>1, <4>2
    <3> QED
      BY ONLY <3>1, <3>2
  <2> QED
    BY ONLY <2>2, <2>3
<1>10. s.applied \ Stored \subseteq Range(q)
  BY <1>4, <1>8
<1>11. w # None => q # <<>> /\ w = Head(q)
  OBVIOUS
<1> QED
  BY ONLY <1>1, <1>5, <1>9, <1>10, <1>11 DEF UnsavedOK

(* An op has been saved: it leaves the queue.                              *)
LEMMA OpSavedKeeps ==
    ASSUME Inv, NEW i \in Instances, OpSaved(i)
    PROVE  Inv'
<1>1. PICK s, v, ls, e, t : Now(i, s, v, ls, e, t)
  BY Present
<1>2. v \in Stored /\ v # None
  BY <1>1, StoredFacts DEF OpSaved, Now, Inv
<1>3. v = Head(s.unsaved) /\ DOMAIN s = InstFields /\ UnsavedOK(s, v) /\ CountsOK(s) /\ TimerOK(s, t)
  BY <1>1, <1>2 DEF Now, InstanceOK, UnsavedOK
<1>4. PICK q, r, w, x : /\ q = Tail(s.unsaved) /\ r = [s EXCEPT !.unsaved = q]
                        /\ w = IF q = <<>> THEN None ELSE Head(q)
                        /\ x = IF q = <<>> THEN SetTimers(t, s) ELSE t
  OBVIOUS
<1>5. UnsavedOK(r, w)
  BY <1>2, <1>3, <1>4, FirstSaved
<1>6. InstanceOK(r, w, ls, e, t)
  <2>1. InstanceOK(s, v, ls, e, t)
    BY <1>1 DEF Now
  <2>2. r = [s EXCEPT !.unsaved = q]
    BY <1>4
  <2> QED
    BY ONLY <1>5, <2>1, <2>2, UnsavedSet
<1>7. r.applied = s.applied /\ r.count = s.count
  BY ONLY <1>3, <1>4 DEF InstFields
<1>8. TimerOK(s, x) /\ (Untouched(s, t) => Untouched(s, x))
  <2>1. CASE q = <<>>
    BY <1>3, <1>4, <2>1, TimersSet
  <2>2. CASE q # <<>>
    BY <1>3, <1>4, <2>2
  <2> QED
    BY <2>1, <2>2
<1>9. TimerOK(r, x) /\ (Untouched(r, t) => Untouched(r, x))
  BY <1>7, <1>8 DEF TimerOK, CheckOK, Untouched
<1>10. InstanceOK(r, w, ls, e, x)
  BY <1>6, <1>9, TimerChanges
<1>11. Becomes(i, r, w, ls, e, x)
  <2>1. /\ inst' = [inst EXCEPT ![i] = r] /\ saving' = [saving EXCEPT ![i] = w]
        /\ timer' = [timer EXCEPT ![i] = x] /\ UNCHANGED <<load, arriving, explicit>>
    BY <1>1, <1>3, <1>4 DEF OpSaved, Now
  <2> QED
    BY <1>1, <2>1 DEF Now, Becomes, Domains, Inv
<1> QED
  BY <1>10, <1>11, QuietStep, CheckpointNow DEF OpSaved, store

-----------------------------------------------------------------------------
(* One round of applyPendingOpsFromStore().                                *)
LEMMA PendingOK ==
    ASSUME OpsOK, StoreOK, NEW s, NEW v, NEW ls, NEW e, NEW t, InstanceOK(s, v, ls, e, t),
           NEW i \in Instances, ApplyPending(i, s)
    PROVE  \E r : inst' = [inst EXCEPT ![i] = r] /\ InstanceOK(r, v, ls, e, t)
<1>1. CASE Applicable(s) = {}
  BY <1>1 DEF ApplyPending
<1>2. CASE Applicable(s) # {}
  <2>1. PICK o \in Applicable(s) : inst' = [inst EXCEPT ![i] = [Apply(s, o) EXCEPT !.unapplied = @ \ {o}]]
    BY <1>2 DEF ApplyPending
  <2>2. o \in Stored /\ prev[o] \subseteq s.applied
    BY DEF Applicable, CanApply, InstanceOK, AppliedOK
  <2>3. PICK a : a = Apply(s, o)
    OBVIOUS
  <2>4. InstanceOK(a, v, ls, e, t)
    BY <2>2, <2>3, MoreApplied
  <2>5. PICK W, r : W = a.unapplied \ {o} /\ r = [a EXCEPT !.unapplied = W]
    OBVIOUS
  <2>6. W \subseteq Stored
    BY <2>4, <2>5 DEF InstanceOK, AppliedOK
  <2>7. r = [a EXCEPT !.unapplied = W]
    BY <2>5
  <2>8. InstanceOK(r, v, ls, e, t)
    BY <2>4, <2>6, <2>7, WaitingOK
  <2>9. inst' = [inst EXCEPT ![i] = r]
    BY <2>1, <2>3, <2>5
  <2> QED
    BY <2>8, <2>9
<1> QED
  BY <1>1, <1>2

(* ... of the call that holds the lock,                                    *)
LEMMA ContinuePendingKeeps ==
    ASSUME Inv, NEW i \in Instances, ContinuePending(i)
    PROVE  Inv'
<1>1. PICK s, v, ls, e, t : Now(i, s, v, ls, e, t)
  BY Present
<1>2. ApplyPending(i, s)
  BY <1>1 DEF ContinuePending, Now
<1>3. PICK r : inst' = [inst EXCEPT ![i] = r] /\ InstanceOK(r, v, ls, e, t)
  BY <1>1, <1>2, PendingOK DEF Now, Inv
<1>4. Becomes(i, r, v, ls, e, t)
  BY <1>1, <1>3 DEF ContinuePending, Now, Becomes, Domains, Inv
<1> QED
  BY <1>3, <1>4, QuietStep, CheckpointNow DEF ContinuePending, store

(* ... and of the one for an op that the store announces.                  *)
LEMMA ApplyOpFromStoreKeeps ==
    ASSUME Inv, NEW i \in Instances, NEW o \in Ops, ApplyOpFromStore(i, o)
    PROVE  Inv'
<1>1. PICK s, v, ls, e, t : Now(i, s, v, ls, e, t)
  BY Present
<1>2. PICK W, w : W = s.unapplied \cup {o} /\ w = [s EXCEPT !.unapplied = W]
  OBVIOUS
<1>3. W \subseteq Stored
  BY <1>1, <1>2 DEF ApplyOpFromStore, Inv, Now, InstanceOK, AppliedOK
<1>4. InstanceOK(w, v, ls, e, t)
  <2>1. InstanceOK(s, v, ls, e, t)
    BY <1>1 DEF Now
  <2>2. w = [s EXCEPT !.unapplied = W]
    BY <1>2
  <2> QED
    BY <1>3, <2>1, <2>2, WaitingOK DEF Inv
<1>5. IF lock[i] THEN inst' = [inst EXCEPT ![i] = w] ELSE ApplyPending(i, w)
  BY <1>1, <1>2 DEF ApplyOpFromStore, Now
<1>6. PICK r : inst' = [inst EXCEPT ![i] = r] /\ InstanceOK(r, v, ls, e, t)
  <2>1. CASE lock[i]
    BY <1>4, <1>5, <2>1
  <2>2. CASE ~ lock[i]
    BY <1>4, <1>5, <2>2, PendingOK DEF Inv
  <2> QED
    BY <2>1, <2>2
<1>7. Becomes(i, r, v, ls, e, t) /\ \A j \in Instances : arriving'[j] \subseteq arriving[j]
  BY <1>1, <1>6 DEF ApplyOpFromStore, Now, Becomes, Domains, Inv
<1> QED
  BY <1>6, <1>7, QuietStep, CheckpointNow DEF ApplyOpFromStore, store

-----------------------------------------------------------------------------
(* The application's load and an explicit checkpoint's do not overlap.     *)
LEMMA OneAtATime ==
    ASSUME NEW s, NEW v, NEW ls, NEW e, NEW t, InstanceOK(s, v, ls, e, t),
           NEW u \in Kinds, ls[u].pc # "no", NEW w \in Kinds \ {u}
    PROVE  ls[w].pc = "no" /\ ls[w].applying = None
<1>1. ls[w].pc = "no"
  BY DEF InstanceOK, LoadsOK, Kinds
<1> QED
  BY <1>1 DEF InstanceOK, LoadsOK, LoadOK

(* A load begins after what is known to be applied, or with a checkpoint,  *)
(* when nothing is.                                                        *)
LEMMA BeginOK ==
    ASSUME OpsOK, StoreOK, NEW s, AppliedOK(s), CountsOK(s), NEW t, TimerOK(s, t),
           NEW i, s = inst[i], NEW l, l = BeginLoad(i)
    PROVE  LoadOK(s, l, t)
<1>1. PICK pc, next : /\ pc = IF s.applied = {} THEN "checkpoint" ELSE "search"
                      /\ next = StartOn(s.last)
  OBVIOUS
<1>2. l = [NoLoad EXCEPT !.before = s.count, !.pc = pc, !.next = next]
  BY <1>1 DEF BeginLoad
<1>3. DOMAIN l = LoadFields /\ l.pc = pc /\ l.next = next /\ l.applying = None
  BY ONLY <1>2 DEF NoLoad, LoadFields
<1>4. next \in 1 .. (Len(stored) + 1) /\ \A k \in 1 .. (next - 1) : stored[k] \in s.applied
  BY <1>1, StartFacts DEF AppliedOK
<1>5. s.applied = {} => Untouched(s, t)
  <2>1. ASSUME s.applied = {} PROVE s.count = 0
    <3>1. Cardinality(s.applied \cap Stored) = 0
      BY <2>1, FS_EmptySet
    <3> QED
      BY <3>1 DEF AppliedOK, CountsOK
  <2> QED
    BY <2>1 DEF TimerOK, Untouched
<1> QED
  BY <1>1, <1>3, <1>4, <1>5 DEF LoadOK

(* The application's load.                                                 *)
LEMMA LoadAllChangesKeeps ==
    ASSUME Inv, NEW i \in Instances, LoadAllChanges(i)
    PROVE  Inv'
<1>1. PICK s, v, ls, e, t : Now(i, s, v, ls, e, t)
  BY Present
<1>2. PICK l, ks : l = BeginLoad(i) /\ ks = [ls EXCEPT !["app"] = l]
  OBVIOUS
<1>3. LoadOK(s, l, t)
  BY <1>1, <1>2, BeginOK DEF Now, InstanceOK, Inv
<1>4. ~ s.loaded /\ InstanceOK(s, v, ls, e, t)
  BY <1>1 DEF LoadAllChanges, Now
<1>5. InstanceOK(s, v, ks, e, t)
  BY <1>2, <1>3, <1>4, OneLoadChanges DEF Kinds
<1>6. Becomes(i, s, v, ks, e, t)
  <2>1. load' = [load EXCEPT ![i]["app"] = l]
    BY <1>2 DEF LoadAllChanges, SetLoad
  <2> QED
    BY <1>1, <1>2, <2>1 DEF LoadAllChanges, OthersIdle, Now, Becomes, Domains, Inv
<1> QED
  BY <1>5, <1>6, QuietStep, CheckpointNow DEF LoadAllChanges, OthersIdle

(* The checkpoint has been read.                                           *)
LEMMA LoadLastCheckpointKeeps ==
    ASSUME Inv, NEW i \in Instances, NEW u \in Kinds, LoadLastCheckpoint(i, u)
    PROVE  Inv'
<1>1. PICK s, v, ls, e, t : Now(i, s, v, ls, e, t)
  BY Present
<1>2. PICK l, k, c, ks : /\ l = ls[u] /\ c = checkpoint
                         /\ k = IF c # NoCheckpoint /\ s.applied = {}
                                THEN [l EXCEPT !.pc = "restore", !.found = c]
                                ELSE [l EXCEPT !.pc = "search", !.next = StartOn(s.last)]
                         /\ ks = [ls EXCEPT ![u] = k]
  OBVIOUS
<1>3. l.pc = "checkpoint" /\ LoadOK(s, l, t) /\ InstanceOK(s, v, ls, e, t)
  BY <1>1, <1>2 DEF LoadLastCheckpoint, Now, InstanceOK, LoadsOK
<1>4. DOMAIN l = LoadFields /\ Untouched(s, t) /\ l.applying = None
  BY <1>3 DEF LoadOK
<1>5. LoadOK(s, k, t)
  <2>1. CASE c # NoCheckpoint /\ s.applied = {}
    <3>1. k = [l EXCEPT !.pc = "restore", !.found = c]
      BY <1>2, <2>1
    <3>2. DOMAIN k = LoadFields /\ k.pc = "restore" /\ k.found = c /\ k.applying = None
      BY ONLY <1>4, <3>1 DEF LoadFields
    <3>3. SnapshotOK(c) /\ c.count >= 0
      BY <1>2, <2>1 DEF Inv
    <3> QED
      BY <1>4, <3>2, <3>3 DEF LoadOK
  <2>2. CASE ~ (c # NoCheckpoint /\ s.applied = {})
    <3>1. PICK next : next = StartOn(s.last)
      OBVIOUS
    <3>2. k = [l EXCEPT !.pc = "search", !.next = next]
      BY <1>2, <2>2, <3>1
    <3>3. DOMAIN k = LoadFields /\ k.pc = "search" /\ k.next = next /\ k.applying = None
      BY ONLY <1>4, <3>2 DEF LoadFields
    <3>4. next \in 1 .. (Len(stored) + 1) /\ \A m \in 1 .. (next - 1) : stored[m] \in s.applied
      BY <1>3, <3>1, StartFacts DEF InstanceOK, AppliedOK, Inv
    <3> QED
      BY <3>3, <3>4 DEF LoadOK
  <2> QED
    BY <2>1, <2>2
<1>6. InstanceOK(s, v, ks, e, t)
  <2>1. ks = [ls EXCEPT ![u] = k] /\ ls[u].pc # "no"
    BY <1>2, <1>3
  <2> QED
    BY <1>3, <1>5, <2>1, OneLoadChanges
<1>7. Becomes(i, s, v, ks, e, t)
  <2>1. load' = [load EXCEPT ![i][u] = k]
    BY <1>1, <1>2 DEF LoadLastCheckpoint, SetLoad, Now
  <2> QED
    BY <1>1, <1>2, <2>1 DEF LoadLastCheckpoint, OthersIdle, Now, Becomes, Domains, Inv
<1> QED
  BY <1>6, <1>7, QuietStep, CheckpointNow DEF LoadLastCheckpoint, OthersIdle

(* Nothing is unsaved, applied or made into a checkpoint that the one      *)
(* restored does not have, but what the instance has not saved yet.        *)
LEMMA RestoredOK ==
    ASSUME OpsOK, StoreOK, NEW s, NEW v, NEW ls, NEW e, NEW t, InstanceOK(s, v, ls, e, t),
           NEW u \in Kinds, ls[u].pc = "restore",
           NEW c, c = ls[u].found, NEW r, r = Restored(s, c),
           NEW k, DOMAIN k = LoadFields, k.pc = "search", k.next = StartOn(c.last), k.applying = None,
           NEW ks, ks = [ls EXCEPT ![u] = k]
    PROVE  InstanceOK(r, v, ks, e, t)
<1>1. /\ DOMAIN s = InstFields /\ DOMAIN ls = Kinds /\ SnapshotOK(c) /\ c.count >= 0 /\ Untouched(s, t)
      /\ UnsavedOK(s, v) /\ s.unapplied \subseteq Stored /\ TimerOK(s, t)
  <2>1. LoadOK(s, ls[u], t)
    BY DEF InstanceOK, LoadsOK
  <2> QED
    BY <2>1 DEF InstanceOK, LoadsOK, LoadOK, AppliedOK
<1>2. /\ DOMAIN r = InstFields /\ r.terminal = c.terminal /\ r.applied = c.applied /\ r.active = c.active
      /\ r.contents = c.contents /\ r.last = c.last /\ r.lastAtCheckpoint = c.last
      /\ r.count = c.count /\ r.countAtCheckpoint = c.count
      /\ r.unsaved = s.unsaved /\ r.unapplied = s.unapplied /\ r.loaded = s.loaded
  BY ONLY <1>1, r = Restored(s, c) DEF Restored, InstFields
<1>3. /\ Shows(c) /\ UpTo(c.last, c.applied) /\ c.applied \subseteq Stored /\ c.count \in Nat
      /\ c.count <= Cardinality(c.applied)
  BY <1>1 DEF SnapshotOK
<1>4. AppliedOK(r)
  <2>1. Shows(r)
    BY <1>2, <1>3 DEF Shows
  <2>2. r.applied \cap Stored = r.applied
    BY <1>2, <1>3
  <2> QED
    BY <1>1, <1>2, <1>3, <2>1, <2>2 DEF AppliedOK
<1>5. UnsavedOK(r, v) /\ CountsOK(r)
  <2>1. r.applied \ Stored \subseteq Range(r.unsaved)
    BY <1>2, <1>3
  <2> QED
    BY <1>1, <1>2, <1>3, <2>1 DEF UnsavedOK, CountsOK
<1>6. TimerOK(r, t)
  BY <1>1 DEF TimerOK, Untouched
<1>7. LoadOK(r, k, t)
  <2>1. k.next \in 1 .. (Len(stored) + 1) /\ \A m \in 1 .. (k.next - 1) : stored[m] \in r.applied
    BY <1>2, <1>3, StartFacts
  <2> QED
    BY <2>1 DEF LoadOK
<1>8. ASSUME NEW w \in Kinds \ {u} PROVE LoadOK(r, ls[w], t) /\ ls[w].pc = "no"
  <2>1. ls[w].pc = "no" /\ ls[w].applying = None
    BY OneAtATime
  <2>2. LoadOK(s, ls[w], t)
    BY DEF InstanceOK, LoadsOK
  <2> QED
    BY <2>1, <2>2 DEF LoadOK
<1>9. LoadsOK(r, ks, e, t)
  <2>1. DOMAIN ks = Kinds /\ \A w \in Kinds : ks[w] = IF w = u THEN k ELSE ls[w]
    BY <1>1
  <2>2. \A w \in Kinds : LoadOK(r, ks[w], t) /\ (ks[w].pc # "no" => ls[w].pc # "no")
    BY <1>7, <1>8, <2>1
  <2> QED
    BY <1>2, <2>1, <2>2 DEF InstanceOK, LoadsOK, Kinds
<1> QED
  BY <1>2, <1>4, <1>5, <1>6, <1>9 DEF InstanceOK

(* The checkpoint is restored.                                             *)
LEMMA RestoreCheckpointKeeps ==
    ASSUME Inv, NEW i \in Instances, NEW u \in Kinds, RestoreCheckpoint(i, u)
    PROVE  Inv'
<1>1. PICK s, v, ls, e, t : Now(i, s, v, ls, e, t)
  BY Present
<1>2. PICK c, r, next, k, ks : /\ c = ls[u].found /\ r = Restored(s, c) /\ next = StartOn(c.last)
                               /\ k = [ls[u] EXCEPT !.pc = "search", !.next = next]
                               /\ ks = [ls EXCEPT ![u] = k]
  OBVIOUS
<1>3. InstanceOK(s, v, ls, e, t) /\ ls[u].pc = "restore"
  BY <1>1 DEF RestoreCheckpoint, Now
<1>4. DOMAIN ls[u] = LoadFields /\ ls[u].applying = None
  BY <1>3 DEF InstanceOK, LoadsOK, LoadOK
<1>5. DOMAIN k = LoadFields /\ k.pc = "search" /\ k.next = StartOn(c.last) /\ k.applying = None
  <2>1. DOMAIN k = LoadFields /\ k.pc = "search" /\ k.next = next /\ k.applying = None
    BY ONLY <1>2, <1>4 DEF LoadFields
  <2> QED
    BY <1>2, <2>1
<1>6. InstanceOK(r, v, ks, e, t)
  BY <1>2, <1>3, <1>5, RestoredOK DEF Inv
<1>7. Becomes(i, r, v, ks, e, t)
  <2>1. load' = [load EXCEPT ![i][u] = k] /\ inst' = [inst EXCEPT ![i] = r]
    BY <1>1, <1>2 DEF RestoreCheckpoint, SetLoad, Now
  <2> QED
    BY <1>1, <1>2, <2>1 DEF RestoreCheckpoint, OthersIdle, Now, Becomes, Domains, Inv
<1> QED
  BY <1>6, <1>7, QuietStep, CheckpointNow DEF RestoreCheckpoint, OthersIdle

(* The next op of the index is applied: what it comes after is before it.  *)
LEMMA LoadOpKeeps ==
    ASSUME Inv, NEW i \in Instances, NEW u \in Kinds, LoadOp(i, u)
    PROVE  Inv'
<1>1. PICK s, v, ls, e, t : Now(i, s, v, ls, e, t)
  BY Present
<1>2. PICK l, o, r, next, applying, k, ks :
        /\ l = ls[u] /\ o = stored[l.next] /\ r = Apply(s, o)
        /\ next = l.next + 1 /\ applying = IF o \in s.applied THEN None ELSE o
        /\ k = [l EXCEPT !.pc = "applying", !.next = next, !.applying = applying]
        /\ ks = [ls EXCEPT ![u] = k]
  OBVIOUS
<1>3. /\ InstanceOK(s, v, ls, e, t) /\ l.pc = "search" /\ LoadOK(s, l, t) /\ l.next <= Len(stored)
  BY <1>1, <1>2 DEF LoadOp, Now, InstanceOK, LoadsOK
<1>4. /\ DOMAIN l = LoadFields /\ l.next \in 1 .. Len(stored)
      /\ \A m \in 1 .. (l.next - 1) : stored[m] \in s.applied
  BY <1>3, StoredFacts DEF LoadOK, Inv
<1>5. o \in Stored /\ prev[o] \subseteq s.applied
  <2>1. l.next \in DOMAIN stored
    BY <1>4, StoredFacts DEF Inv
  <2>2. o \in Stored
    BY <1>2, <2>1, StoredFacts DEF Inv
  <2>3. prev[o] \subseteq {stored[m] : m \in 1 .. (l.next - 1)}
    BY <1>2, <2>1 DEF Inv, StoreOK
  <2> QED
    BY <1>4, <2>2, <2>3
<1>6. InstanceOK(r, v, ls, e, t) /\ r.applied = s.applied \cup {o} /\ r.count = s.count
  <2>1. r = Apply(s, o) /\ OpsOK /\ StoreOK
    BY <1>2 DEF Inv
  <2>2. InstanceOK(r, v, ls, e, t)
    BY <1>3, <1>5, <2>1, MoreApplied
  <2>3. DOMAIN s = InstFields /\ Shows(s)
    BY <1>3 DEF InstanceOK, AppliedOK
  <2> QED
    BY <1>5, <2>1, <2>2, <2>3, ApplyFacts
<1>7. LoadOK(r, k, t)
  <2>1. DOMAIN k = LoadFields /\ k.pc = "applying" /\ k.next = next /\ k.applying = applying
    BY ONLY <1>2, <1>4 DEF LoadFields
  <2>2. next \in 1 .. (Len(stored) + 1) /\ next > 1 /\ next - 1 = l.next
    BY <1>2, <1>4
  <2>3. \A m \in 1 .. (next - 1) : stored[m] \in r.applied
    <3>1. \A m \in 1 .. (next - 1) : m \in 1 .. (l.next - 1) \/ m = l.next
      BY <1>4, <2>2
    <3> QED
      BY <1>2, <1>4, <1>6, <3>1
  <2>4. applying # None => applying = stored[next - 1] /\ r.count < Cardinality(r.applied \cap Stored)
    <3>1. ASSUME applying # None
          PROVE  o \notin s.applied /\ applying = o
      BY <1>2, <3>1
    <3>2. ASSUME o \notin s.applied
          PROVE  r.count < Cardinality(r.applied \cap Stored)
      <4>1. /\ s.applied \cap Stored \subseteq r.applied \cap Stored /\ r.applied \cap Stored \subseteq Ops
            /\ s.applied \cap Stored # r.applied \cap Stored
        BY <1>5, <1>6, <3>2 DEF Inv, StoreOK
      <4>2. /\ Cardinality(s.applied \cap Stored) < Cardinality(r.applied \cap Stored)
            /\ Cardinality(s.applied \cap Stored) \in Nat /\ Cardinality(r.applied \cap Stored) \in Nat
        <5> HIDE DEF Stored
        <5> QED
          BY <4>1, CardFacts DEF Inv
      <4>3. s.count <= Cardinality(s.applied \cap Stored) /\ s.count \in Nat
        BY <1>3 DEF InstanceOK, AppliedOK, CountsOK
      <4> QED
        BY <1>6, <4>2, <4>3
    <3> QED
      BY <1>2, <2>2, <3>1, <3>2
  <2> QED
    BY <2>1, <2>2, <2>3, <2>4 DEF LoadOK
<1>8. InstanceOK(r, v, ks, e, t)
  <2>1. ks = [ls EXCEPT ![u] = k] /\ ls[u].pc # "no"
    BY <1>2, <1>3
  <2> QED
    BY <1>6, <1>7, <2>1, OneLoadChanges
<1>9. Becomes(i, r, v, ks, e, t)
  <2>1. load' = [load EXCEPT ![i][u] = k] /\ inst' = [inst EXCEPT ![i] = r]
    BY <1>1, <1>2 DEF LoadOp, SetLoad, Now
  <2> QED
    BY <1>1, <1>2, <2>1 DEF LoadOp, OthersIdle, Now, Becomes, Domains, Inv
<1> QED
  BY <1>8, <1>9, QuietStep, CheckpointNow DEF LoadOp, OthersIdle

(* The op that was applied is counted; there is no other load to count it. *)
LEMMA CountedOK ==
    ASSUME OpsOK, StoreOK, NEW s, NEW v, NEW ls, NEW e, NEW t, InstanceOK(s, v, ls, e, t),
           NEW u \in Kinds, NEW l, l = ls[u], l.pc = "applying", l.applying # None,
           NEW last, last = l.applying, NEW count, count = s.count + 1,
           NEW r, r = [s EXCEPT !.last = last, !.count = count],
           NEW k, DOMAIN k = LoadFields, k.pc = "search", k.next = l.next, k.applying = None,
           NEW ks, ks = [ls EXCEPT ![u] = k]
    PROVE  InstanceOK(r, v, ks, e, t)
<1>1. /\ DOMAIN s = InstFields /\ DOMAIN ls = Kinds /\ LoadOK(s, l, t)
      /\ UnsavedOK(s, v) /\ AppliedOK(s) /\ TimerOK(s, t) /\ CountsOK(s)
  BY DEF InstanceOK, LoadsOK
<1>2. /\ SameBut(s, r) /\ r.last = last /\ r.count = count
      /\ r.lastAtCheckpoint = s.lastAtCheckpoint /\ r.countAtCheckpoint = s.countAtCheckpoint
      /\ r.unsaved = s.unsaved /\ r.unapplied = s.unapplied /\ r.loaded = s.loaded
  BY ONLY <1>1, r = [s EXCEPT !.last = last, !.count = count] DEF SameBut, InstFields
<1>3. /\ l.next \in 1 .. (Len(stored) + 1) /\ l.next > 1 /\ last = stored[l.next - 1]
      /\ \A m \in 1 .. (l.next - 1) : stored[m] \in s.applied
      /\ s.count < Cardinality(s.applied \cap Stored)
  BY <1>1 DEF LoadOK
<1>4. AppliedOK(r)
  <2>1. Shows(r)
    BY <1>1, <1>2, ShowsSame DEF AppliedOK
  <2>2. UpTo(last, s.applied)
    <3>1. l.next - 1 \in DOMAIN stored
      BY <1>3, StoredFacts
    <3> QED
      BY <1>3, <3>1 DEF UpTo
  <2>3. count <= Cardinality(s.applied \cap Stored)
    <3>1. Cardinality(s.applied \cap Stored) \in Nat
      <4>1. s.applied \cap Stored \subseteq Ops
        BY DEF StoreOK
      <4> HIDE DEF Stored
      <4> QED
        BY <4>1, CardFacts
    <3> QED
      BY <1>1, <1>3, <3>1 DEF CountsOK
  <2> QED
    BY <1>1, <1>2, <2>1, <2>2, <2>3 DEF AppliedOK, SameBut
<1>5. UnsavedOK(r, v) /\ CountsOK(r)
  BY <1>1, <1>2 DEF UnsavedOK, CountsOK, SameBut
<1>6. TimerOK(r, t)
  <2>1. \A x \in Int : x <= s.count => x <= count
    BY <1>1 DEF CountsOK
  <2>2. t.on => CheckOK(r, t)
    BY <1>1, <1>2, <2>1 DEF TimerOK, CheckOK, SameBut, SnapshotOK
  <2> QED
    BY <1>1, <1>2, <2>2 DEF TimerOK, SameBut
<1>7. LoadOK(r, k, t)
  BY <1>2, <1>3 DEF LoadOK, SameBut
<1>8. ASSUME NEW w \in Kinds \ {u} PROVE LoadOK(r, ls[w], t) /\ ls[w].pc = "no"
  <2>1. ls[w].pc = "no" /\ ls[w].applying = None
    BY OneAtATime
  <2>2. LoadOK(s, ls[w], t)
    BY DEF InstanceOK, LoadsOK
  <2> QED
    BY <2>1, <2>2 DEF LoadOK
<1>9. LoadsOK(r, ks, e, t)
  <2>1. DOMAIN ks = Kinds /\ \A w \in Kinds : ks[w] = IF w = u THEN k ELSE ls[w]
    BY <1>1
  <2>2. \A w \in Kinds : LoadOK(r, ks[w], t) /\ (ks[w].pc # "no" => ls[w].pc # "no")
    BY <1>7, <1>8, <2>1
  <2> QED
    BY <1>2, <2>1, <2>2 DEF InstanceOK, LoadsOK, Kinds
<1> QED
  BY <1>2, <1>4, <1>5, <1>6, <1>9 DEF InstanceOK, SameBut

(* ... and counted, if this load applied it.                               *)
LEMMA OpLoadedKeeps ==
    ASSUME Inv, NEW i \in Instances, NEW u \in Kinds, OpLoaded(i, u)
    PROVE  Inv'
<1>1. PICK s, v, ls, e, t : Now(i, s, v, ls, e, t)
  BY Present
<1>2. PICK l, k, ks, last, count, r :
        /\ l = ls[u] /\ k = [l EXCEPT !.pc = "search", !.applying = None] /\ ks = [ls EXCEPT ![u] = k]
        /\ last = l.applying /\ count = s.count + 1
        /\ r = Counted(s, last)
  OBVIOUS
<1>3. InstanceOK(s, v, ls, e, t) /\ l.pc = "applying" /\ LoadOK(s, l, t)
  BY <1>1, <1>2 DEF OpLoaded, Now, InstanceOK, LoadsOK
<1>4. DOMAIN l = LoadFields
  BY <1>3 DEF LoadOK
<1>5. DOMAIN k = LoadFields /\ k.pc = "search" /\ k.next = l.next /\ k.applying = None
  BY ONLY <1>2, <1>4 DEF LoadFields
<1>6. InstanceOK(r, v, ks, e, t)
  <2>1. CASE l.applying = None
    <3>1. LoadOK(s, k, t)
      BY <1>3, <1>5 DEF LoadOK
    <3>2. ks = [ls EXCEPT ![u] = k] /\ ls[u].pc # "no" /\ r = s
      BY <1>2, <1>3, <2>1 DEF Counted
    <3> QED
      BY <1>3, <3>1, <3>2, OneLoadChanges
  <2>2. CASE l.applying # None
    <3>1. r = [s EXCEPT !.last = last, !.count = count]
      BY <1>2, <2>2 DEF Counted
    <3>2. OpsOK /\ StoreOK /\ l = ls[u] /\ last = l.applying /\ count = s.count + 1 /\ ks = [ls EXCEPT ![u] = k]
      BY <1>2 DEF Inv
    <3> QED
      BY ONLY u \in Kinds, <1>3, <1>5, <2>2, <3>1, <3>2, CountedOK
  <2> QED
    BY <2>1, <2>2
<1>7. Becomes(i, r, v, ks, e, t)
  <2>1. load' = [load EXCEPT ![i][u] = k] /\ inst' = [inst EXCEPT ![i] = r]
    BY <1>1, <1>2 DEF OpLoaded, SetLoad, Now
  <2> QED
    BY <1>1, <1>2, <2>1 DEF OpLoaded, OthersIdle, Now, Becomes, Domains, Inv
<1> QED
  BY <1>6, <1>7, QuietStep, CheckpointNow DEF OpLoaded, OthersIdle

(* A load that ends.                                                       *)
LEMMA LoadedOK ==
    ASSUME NEW s, NEW v, NEW ls, NEW e, NEW t, InstanceOK(s, v, ls, e, t),
           NEW u \in Kinds, ls[u].pc # "no", NEW ks, ks = [ls EXCEPT ![u] = NoLoad],
           NEW r, r = [s EXCEPT !.loaded = TRUE], NEW f, f = IF u = "explicit" THEN "loaded" ELSE e
    PROVE  InstanceOK(r, v, ks, f, t)
<1>1. DOMAIN s = InstFields /\ DOMAIN ls = Kinds
  BY DEF InstanceOK, LoadsOK
<1>2. /\ SameBut(s, r) /\ r.last = s.last /\ r.count = s.count
      /\ r.lastAtCheckpoint = s.lastAtCheckpoint /\ r.countAtCheckpoint = s.countAtCheckpoint
      /\ r.unsaved = s.unsaved /\ r.unapplied = s.unapplied /\ r.loaded = TRUE
  BY ONLY <1>1, r = [s EXCEPT !.loaded = TRUE] DEF SameBut, InstFields
<1>3. AppliedOK(r)
  <2>1. Shows(r)
    BY <1>2, ShowsSame DEF InstanceOK, AppliedOK
  <2> QED
    BY <1>2, <2>1 DEF InstanceOK, AppliedOK, SameBut
<1>4. UnsavedOK(r, v) /\ CountsOK(r) /\ TimerOK(r, t)
  BY <1>2 DEF InstanceOK, UnsavedOK, CountsOK, TimerOK, CheckOK, SameBut
<1>5. NoLoad.pc = "no" /\ NoLoad.applying = None /\ DOMAIN NoLoad = LoadFields
  BY DEF NoLoad, LoadFields
<1>6. LoadOK(r, NoLoad, t)
  BY <1>5 DEF LoadOK
<1>7. ASSUME NEW w \in Kinds \ {u} PROVE LoadOK(r, ls[w], t) /\ ls[w].pc = "no"
  <2>1. ls[w].pc = "no" /\ ls[w].applying = None
    BY OneAtATime
  <2>2. LoadOK(s, ls[w], t)
    BY DEF InstanceOK, LoadsOK
  <2> QED
    BY <2>1, <2>2 DEF LoadOK
<1>8. LoadsOK(r, ks, f, t)
  <2>1. DOMAIN ks = Kinds /\ \A w \in Kinds : ks[w] = IF w = u THEN NoLoad ELSE ls[w]
    BY <1>1
  <2>2. \A w \in Kinds : LoadOK(r, ks[w], t) /\ ks[w].pc = "no"
    <3> HIDE DEF NoLoad
    <3> QED
      BY <1>5, <1>6, <1>7, <2>1
  <2> QED
    BY <1>2, <2>1, <2>2 DEF LoadsOK, Kinds
<1> QED
  BY <1>2, <1>3, <1>4, <1>8 DEF InstanceOK, SameBut

(* The index has no more, and a checkpoint may be due.                     *)
LEMMA EndLoadKeeps ==
    ASSUME Inv, NEW i \in Instances, NEW u \in Kinds, EndLoad(i, u)
    PROVE  Inv'
<1>1. PICK s, v, ls, e, t : Now(i, s, v, ls, e, t)
  BY Present
<1>2. PICK ks, f : ks = [ls EXCEPT ![u] = NoLoad] /\ f = IF u = "explicit" THEN "loaded" ELSE e
  OBVIOUS
<1>3. /\ InstanceOK(s, v, ls, e, t) /\ ls[u].pc # "no" /\ CountsOK(s) /\ AppliedOK(s) /\ TimerOK(s, t)
  BY <1>1 DEF EndLoad, Now, InstanceOK
<1>4. /\ load' = [load EXCEPT ![i][u] = NoLoad] /\ explicit' = [explicit EXCEPT ![i] = f]
  BY <1>1, <1>2 DEF EndLoad, SetLoad, Now
<1>5. CASE DueCheckpoint(i)
  <2>1. PICK c, a, r : c = Snapshot(s) /\ a = Checkpointed(s, c) /\ r = [a EXCEPT !.loaded = TRUE]
    OBVIOUS
  <2>2. s.applied \subseteq Stored
    <3>1. s.count = Cardinality(s.applied)
      BY <1>1, <1>5 DEF DueCheckpoint, Now
    <3> QED
      BY <1>3, <3>1, AllLoaded DEF Inv
  <2>3. SnapshotOK(c) /\ c.count = s.count /\ c.last = s.last /\ c.count \in Nat
    BY <1>3, <2>1, <2>2, SnapshotMade DEF Inv, CountsOK
  <2>4. InstanceOK(a, v, ls, e, t)
    <3>1. UpTo(c.last, s.applied) /\ c.count <= s.count /\ a = Checkpointed(s, c)
      BY <1>3, <2>1, <2>3 DEF AppliedOK
    <3> QED
      BY <1>3, <2>3, <3>1, CheckpointedOK DEF Inv
  <2>5. InstanceOK(r, v, ks, f, t)
    <3>1. r = [a EXCEPT !.loaded = TRUE] /\ u \in Kinds /\ ls[u].pc # "no"
      BY <1>3, <2>1
    <3> QED
      BY ONLY <1>2, <2>4, <3>1, LoadedOK
  <2>6. checkpoint' = c /\ GoodCheckpoint(c)
    BY <1>1, <1>5, <2>1, <2>3 DEF EndLoad, Now, GoodCheckpoint
  <2>7. Becomes(i, r, v, ks, f, t)
    <3>1. inst' = [inst EXCEPT ![i] = r] /\ timer' = timer
      BY <1>1, <1>5, <2>1 DEF EndLoad, Now
    <3> QED
      BY <1>1, <1>2, <1>4, <3>1 DEF EndLoad, OthersIdle, Now, Becomes, Domains, Inv
  <2> QED
    BY <2>5, <2>6, <2>7, QuietStep DEF EndLoad, OthersIdle
<1>6. CASE ~ DueCheckpoint(i)
  <2>1. PICK x, r : /\ r = [s EXCEPT !.loaded = TRUE]
                    /\ x = IF s.count > ls[u].before THEN SetTimers(t, s) ELSE t
    OBVIOUS
  <2>2. InstanceOK(r, v, ks, f, t) /\ r.applied = s.applied /\ r.count = s.count
    <3>1. r = [s EXCEPT !.loaded = TRUE]
      BY <2>1
    <3>2. DOMAIN s = InstFields
      BY <1>3 DEF InstanceOK
    <3>3. InstanceOK(s, v, ls, e, t) /\ u \in Kinds /\ ls[u].pc # "no"
      BY <1>3
    <3>4. InstanceOK(r, v, ks, f, t)
      BY ONLY <1>2, <3>1, <3>3, LoadedOK
    <3> QED
      BY ONLY <3>1, <3>2, <3>4 DEF InstFields
  <2>3. TimerOK(s, x) /\ (Untouched(s, t) => Untouched(s, x))
    <3>1. CASE s.count > ls[u].before
      BY <1>3, <2>1, <3>1, TimersSet
    <3>2. CASE ~ (s.count > ls[u].before)
      BY <1>3, <2>1, <3>2
    <3> QED
      BY <3>1, <3>2
  <2>4. TimerOK(r, x) /\ (Untouched(r, t) => Untouched(r, x))
    BY <2>2, <2>3 DEF TimerOK, CheckOK, Untouched
  <2>5. InstanceOK(r, v, ks, f, x)
    BY <2>2, <2>4, TimerChanges
  <2>6. Becomes(i, r, v, ks, f, x)
    <3>1. inst' = [inst EXCEPT ![i] = r] /\ timer' = [timer EXCEPT ![i] = x]
      BY <1>1, <1>6, <2>1 DEF EndLoad, Now
    <3> QED
      BY <1>1, <1>2, <1>4, <3>1 DEF EndLoad, OthersIdle, Now, Becomes, Domains, Inv
  <2>7. UNCHANGED checkpoint
    BY <1>6 DEF EndLoad
  <2> QED
    BY <2>5, <2>6, <2>7, QuietStep, CheckpointNow DEF EndLoad, OthersIdle
<1> QED
  BY <1>5, <1>6

-----------------------------------------------------------------------------
(* An explicit checkpoint goes on, of an instance that has loaded.         *)
LEMMA ExplicitSet ==
    ASSUME NEW s, NEW v, NEW ls, NEW e, NEW t, InstanceOK(s, v, ls, e, t),
           s.loaded, ls["explicit"].pc = "no", NEW f
    PROVE  InstanceOK(s, v, ls, f, t)
BY DEF InstanceOK, LoadsOK

(* ... and begins to load.                                                 *)
LEMMA ExplicitBegins ==
    ASSUME OpsOK, StoreOK, NEW s, NEW v, NEW ls, NEW e, NEW t, InstanceOK(s, v, ls, e, t),
           s.loaded, ls["explicit"].pc = "no", NEW i, s = inst[i],
           NEW l, l = BeginLoad(i), NEW ks, ks = [ls EXCEPT !["explicit"] = l]
    PROVE  InstanceOK(s, v, ks, "loading", t)
<1>1. InstanceOK(s, v, ls, "loading", t)
  BY ExplicitSet
<1>2. LoadOK(s, l, t)
  BY BeginOK DEF InstanceOK
<1> QED
  BY <1>1, <1>2, OneLoadChanges DEF Kinds

(* An explicit checkpoint is asked for: this is where the first load must  *)
(* be over.                                                                *)
LEMMA SaveCheckpointKeeps ==
    ASSUME Inv, OneLoad, NEW i \in Instances, SaveCheckpoint(i)
    PROVE  Inv'
<1>1. PICK s, v, ls, e, t : Now(i, s, v, ls, e, t)
  BY Present
<1>2. PICK x, l, ks : x = Cleared(t) /\ l = BeginLoad(i) /\ ks = [ls EXCEPT !["explicit"] = l]
  OBVIOUS
<1>3. InstanceOK(s, v, ls, e, t) /\ s.loaded /\ ls["explicit"].pc = "no" /\ TimerOK(s, t)
  BY <1>1 DEF SaveCheckpoint, Now, InstanceOK, LoadsOK
<1>4. InstanceOK(s, v, ls, e, x)
  BY <1>2, <1>3, TimersCleared, TimerChanges
<1>5. timer' = [timer EXCEPT ![i] = x]
  BY <1>1, <1>2 DEF SaveCheckpoint, Now
<1>6. CASE s.unsaved = <<>>
  <2>1. InstanceOK(s, v, ks, "loading", x)
    <3>1. s = inst[i] /\ l = BeginLoad(i) /\ ks = [ls EXCEPT !["explicit"] = l]
      BY <1>1, <1>2 DEF Now
    <3> QED
      BY <1>3, <1>4, <3>1, ExplicitBegins DEF Inv
  <2>2. load' = [load EXCEPT ![i]["explicit"] = l] /\ explicit' = [explicit EXCEPT ![i] = "loading"]
    BY <1>1, <1>2, <1>6 DEF SaveCheckpoint, SetLoad, Now
  <2>3. Becomes(i, s, v, ks, "loading", x)
    BY <1>1, <1>2, <1>5, <2>2 DEF SaveCheckpoint, OthersIdle, Now, Becomes, Domains, Inv
  <2> QED
    BY <2>1, <2>3, QuietStep, CheckpointNow DEF SaveCheckpoint, OthersIdle
<1>7. CASE s.unsaved # <<>>
  <2>1. InstanceOK(s, v, ls, "saving", x)
    BY <1>3, <1>4, ExplicitSet
  <2>2. load' = load /\ explicit' = [explicit EXCEPT ![i] = "saving"]
    BY <1>1, <1>7 DEF SaveCheckpoint, Now
  <2>3. Becomes(i, s, v, ls, "saving", x)
    BY <1>1, <1>5, <2>2 DEF SaveCheckpoint, OthersIdle, Now, Becomes, Domains, Inv
  <2> QED
    BY <2>1, <2>3, QuietStep, CheckpointNow DEF SaveCheckpoint, OthersIdle
<1> QED
  BY <1>6, <1>7

(* Its ops are saved: it loads.                                            *)
LEMMA ExplicitSavedKeeps ==
    ASSUME Inv, NEW i \in Instances, ExplicitSaved(i)
    PROVE  Inv'
<1>1. PICK s, v, ls, e, t : Now(i, s, v, ls, e, t)
  BY Present
<1>2. PICK l, ks : l = BeginLoad(i) /\ ks = [ls EXCEPT !["explicit"] = l]
  OBVIOUS
<1>3. InstanceOK(s, v, ls, e, t) /\ s.loaded /\ ls["explicit"].pc = "no"
  BY <1>1 DEF ExplicitSaved, Now, InstanceOK, LoadsOK
<1>4. InstanceOK(s, v, ks, "loading", t)
  <2>1. s = inst[i] /\ l = BeginLoad(i) /\ ks = [ls EXCEPT !["explicit"] = l]
    BY <1>1, <1>2 DEF Now
  <2> QED
    BY <1>3, <2>1, ExplicitBegins DEF Inv
<1>5. load' = [load EXCEPT ![i]["explicit"] = l] /\ explicit' = [explicit EXCEPT ![i] = "loading"]
  BY <1>2 DEF ExplicitSaved, SetLoad
<1>6. Becomes(i, s, v, ks, "loading", t)
  BY <1>1, <1>2, <1>5 DEF ExplicitSaved, OthersIdle, Now, Becomes, Domains, Inv
<1> QED
  BY <1>4, <1>6, QuietStep, CheckpointNow DEF ExplicitSaved, OthersIdle

(* A checkpoint of an instance that has saved all of its ops.              *)
LEMMA CheckpointMade ==
    ASSUME OpsOK, StoreOK, NEW s, NEW v, NEW ls, NEW e, NEW t, InstanceOK(s, v, ls, e, t), s.unsaved = <<>>,
           NEW c, c = Snapshot(s), NEW r, r = Checkpointed(s, c)
    PROVE  GoodCheckpoint(c) /\ InstanceOK(r, v, ls, e, t) /\ r.loaded = s.loaded
<1>1. AppliedOK(s) /\ CountsOK(s) /\ s.applied \subseteq Stored
  BY AllSaved DEF InstanceOK
<1>2. SnapshotOK(c) /\ c.count = s.count /\ c.last = s.last /\ c.count \in Nat
  BY <1>1, SnapshotMade DEF CountsOK
<1>3. UpTo(c.last, s.applied) /\ c.count <= s.count
  BY <1>1, <1>2 DEF AppliedOK
<1>4. InstanceOK(r, v, ls, e, t) /\ r.loaded = s.loaded
  BY <1>2, <1>3, CheckpointedOK
<1> QED
  BY <1>2, <1>4 DEF GoodCheckpoint

(* It has loaded: it is made, or there is more to save.                    *)
LEMMA ExplicitLoadedKeeps ==
    ASSUME Inv, NEW i \in Instances, ExplicitLoaded(i)
    PROVE  Inv'
<1>1. PICK s, v, ls, e, t : Now(i, s, v, ls, e, t)
  BY Present
<1>2. InstanceOK(s, v, ls, e, t) /\ s.loaded /\ ls["explicit"].pc = "no"
  BY <1>1 DEF ExplicitLoaded, Now, InstanceOK, LoadsOK
<1>3. CASE s.unsaved = <<>>
  <2>1. PICK c, r : c = Snapshot(s) /\ r = Checkpointed(s, c)
    OBVIOUS
  <2>2. GoodCheckpoint(c) /\ InstanceOK(r, v, ls, e, t) /\ r.loaded = s.loaded
    BY <1>2, <1>3, <2>1, CheckpointMade DEF Inv
  <2>3. InstanceOK(r, v, ls, "done", t)
    BY <1>2, <2>2, ExplicitSet
  <2>4. checkpoint' = c /\ inst' = [inst EXCEPT ![i] = r] /\ explicit' = [explicit EXCEPT ![i] = "done"]
    BY <1>1, <1>3, <2>1 DEF ExplicitLoaded, Now
  <2>5. Becomes(i, r, v, ls, "done", t)
    BY <1>1, <2>4 DEF ExplicitLoaded, OthersIdle, Now, Becomes, Domains, Inv
  <2> QED
    BY <2>2, <2>3, <2>4, <2>5, QuietStep DEF ExplicitLoaded, OthersIdle
<1>4. CASE s.unsaved # <<>>
  <2>1. InstanceOK(s, v, ls, "saving", t)
    BY <1>2, ExplicitSet
  <2>2. UNCHANGED <<checkpoint, inst>> /\ explicit' = [explicit EXCEPT ![i] = "saving"]
    BY <1>1, <1>4 DEF ExplicitLoaded, Now
  <2>3. Becomes(i, s, v, ls, "saving", t)
    BY <1>1, <2>2 DEF ExplicitLoaded, OthersIdle, Now, Becomes, Domains, Inv
  <2> QED
    BY <2>1, <2>2, <2>3, QuietStep, CheckpointNow DEF ExplicitLoaded, OthersIdle
<1> QED
  BY <1>3, <1>4

-----------------------------------------------------------------------------
(* The ops the store has since another one: the last of them is the last   *)
(* there is, and those before the first were applied before.               *)
LEMMA HashesFacts ==
    ASSUME OpsOK, StoreOK, NEW o, NEW A, UpTo(o, A), NEW h, h = OpHashes(o)
    PROVE  h = <<>> \/ \E n \in DOMAIN stored : Last(h) = stored[n] /\ \A k \in 1 .. n : stored[k] \in A \cup Range(h)
<1>1. PICK m : m = StartOn(o)
  OBVIOUS
<1>2. m \in 1 .. (Len(stored) + 1) /\ \A k \in 1 .. (m - 1) : stored[k] \in A
  BY <1>1, StartFacts
<1>3. h = SubSeq(stored, m, Len(stored)) /\ stored \in Seq(Nat)
  BY <1>1 DEF OpHashes, StoreOK
<1>4. CASE m = Len(stored) + 1
  BY <1>3, <1>4
<1>5. CASE m # Len(stored) + 1
  <2>1. /\ h \in Seq(Nat) /\ Len(h) = Len(stored) - m + 1 /\ Len(stored) \in Nat
        /\ \A k \in 1 .. Len(h) : h[k] = stored[k + m - 1]
    BY <1>2, <1>3, <1>5
  <2>2. Len(stored) \in DOMAIN stored /\ DOMAIN h = 1 .. Len(h)
    BY <1>2, <1>3, <1>5, <2>1
  <2>3. Last(h) = stored[Len(stored)]
    <3>1. Len(h) \in 1 .. Len(h) /\ Len(h) + m - 1 = Len(stored)
      BY <1>2, <1>5, <2>1
    <3> QED
      BY <2>1, <3>1 DEF Last
  <2>4. ASSUME NEW k \in 1 .. Len(stored) PROVE stored[k] \in A \cup Range(h)
    <3>1. CASE k < m
      BY <1>2, <3>1
    <3>2. CASE k >= m
      <4>1. k - m + 1 \in DOMAIN h /\ (k - m + 1) + m - 1 = k
        BY <1>2, <2>1, <2>2, <3>2
      <4>2. stored[k] = h[k - m + 1]
        BY <2>1, <2>2, <4>1
      <4> QED
        BY <4>1, <4>2 DEF Range
    <3> QED
      BY <1>2, <3>1, <3>2
  <2> QED
    BY <2>2, <2>3, <2>4
<1> QED
  BY <1>4, <1>5

(* A timer fires: it makes the checkpoint, or takes it and asks the store. *)
LEMMA TimerFiresKeeps ==
    ASSUME Inv, NEW i \in Instances, TimerFires(i)
    PROVE  Inv'
<1>1. PICK s, v, ls, e, t : Now(i, s, v, ls, e, t)
  BY Present
<1>2. InstanceOK(s, v, ls, e, t) /\ t.set # "no" /\ AppliedOK(s) /\ CountsOK(s) /\ TimerOK(s, t)
  BY <1>1 DEF TimerFires, Now, InstanceOK
<1>3. PICK x : x = Cleared(t)
  OBVIOUS
<1>4. InstanceOK(s, v, ls, e, x) /\ TimerOK(s, x) /\ DOMAIN x = TimerFields
  BY <1>2, <1>3, TimersCleared, TimerChanges
<1> DEFINE Timed(y) == timer' = [timer EXCEPT ![i] = y]
<1>5. CASE s.unsaved # <<>>
  <2>1. PICK y : y = SetTimers(x, s)
    OBVIOUS
  <2>2. InstanceOK(s, v, ls, e, y)
    BY <1>2, <1>4, <2>1, TimersSet, TimerChanges
  <2>3. Timed(y) /\ UNCHANGED <<checkpoint, inst>>
    BY <1>1, <1>3, <1>5, <2>1 DEF TimerFires, Now
  <2>4. Becomes(i, s, v, ls, e, y)
    BY <1>1, <2>3 DEF TimerFires, OthersIdle, Now, Becomes, Domains, Inv
  <2> QED
    BY <2>2, <2>3, <2>4, QuietStep, CheckpointNow DEF TimerFires, OthersIdle
<1>6. CASE s.unsaved = <<>> /\ Cardinality(s.applied) <= s.countAtCheckpoint
  <2>1. Timed(x) /\ UNCHANGED <<checkpoint, inst>>
    BY <1>1, <1>3, <1>6 DEF TimerFires, Now
  <2>2. Becomes(i, s, v, ls, e, x)
    BY <1>1, <2>1 DEF TimerFires, OthersIdle, Now, Becomes, Domains, Inv
  <2> QED
    BY <1>4, <2>1, <2>2, QuietStep, CheckpointNow DEF TimerFires, OthersIdle
<1>7. CASE /\ s.unsaved = <<>> /\ ~ (Cardinality(s.applied) <= s.countAtCheckpoint)
           /\ s.count = Cardinality(s.applied)
  <2>1. PICK c, r : c = Snapshot(s) /\ r = Checkpointed(s, c)
    OBVIOUS
  <2>2. GoodCheckpoint(c) /\ InstanceOK(r, v, ls, e, x)
    BY <1>4, <1>7, <2>1, CheckpointMade DEF Inv
  <2>3. checkpoint' = c /\ inst' = [inst EXCEPT ![i] = r] /\ Timed(x)
    BY <1>1, <1>3, <1>7, <2>1 DEF TimerFires, Now
  <2>4. Becomes(i, r, v, ls, e, x)
    BY <1>1, <2>3 DEF TimerFires, OthersIdle, Now, Becomes, Domains, Inv
  <2> QED
    BY <2>2, <2>3, <2>4, QuietStep DEF TimerFires, OthersIdle
<1>8. CASE /\ s.unsaved = <<>> /\ ~ (Cardinality(s.applied) <= s.countAtCheckpoint)
           /\ s.count # Cardinality(s.applied)
  <2>1. PICK c, h, y : /\ c = Snapshot(s) /\ h = OpHashes(s.lastAtCheckpoint)
                       /\ y = [x EXCEPT !.on = TRUE, !.since = s.lastAtCheckpoint, !.check = c, !.hashes = h]
    OBVIOUS
  <2>2. DOMAIN y = TimerFields /\ y.on = TRUE /\ y.check = c /\ y.hashes = h
    <3>1. PICK o : o = s.lastAtCheckpoint
      OBVIOUS
    <3>2. y = [x EXCEPT !.on = TRUE, !.since = o, !.check = c, !.hashes = h]
      BY <2>1, <3>1
    <3> QED
      BY ONLY <1>4, <3>2 DEF TimerFields
  <2>3. s.applied \subseteq Stored
    BY <1>2, <1>8, AllSaved DEF InstanceOK
  <2>4. SnapshotOK(c) /\ c.count = s.count /\ c.applied = s.applied /\ c.count \in Nat
    BY <1>2, <2>1, <2>3, SnapshotMade DEF CountsOK, Inv
  <2>5. s.applied # {}
    <3> SUFFICES ASSUME s.applied = {} PROVE FALSE
      OBVIOUS
    <3>1. Cardinality(s.applied) = 0
      BY FS_EmptySet
    <3>2. 0 <= s.countAtCheckpoint
      BY <1>2 DEF CountsOK
    <3> QED
      BY <1>8, <3>1, <3>2
  <2>6. CheckOK(s, y)
    <3>1. h = <<>> \/ \E n \in DOMAIN stored :
            Last(h) = stored[n] /\ \A k \in 1 .. n : stored[k] \in s.applied \cup Range(h)
      BY <1>2, <2>1, HashesFacts DEF AppliedOK, Inv
    <3> QED
      BY <2>2, <2>4, <3>1 DEF CheckOK
  <2>7. TimerOK(s, y) /\ ~ Untouched(s, t)
    BY <1>2, <2>2, <2>5, <2>6 DEF TimerOK, Untouched
  <2>8. InstanceOK(s, v, ls, e, y)
    BY <1>2, <2>7, TimerChanges
  <2>9. Timed(y) /\ UNCHANGED <<checkpoint, inst>>
    BY <1>1, <1>3, <1>8, <2>1 DEF TimerFires, Now
  <2>10. Becomes(i, s, v, ls, e, y)
    BY <1>1, <2>9 DEF TimerFires, OthersIdle, Now, Becomes, Domains, Inv
  <2> QED
    BY <2>8, <2>9, <2>10, QuietStep, CheckpointNow DEF TimerFires, OthersIdle
<1> QED
  BY <1>5, <1>6, <1>7, <1>8

(* What the timer's checkpoint becomes when nothing has changed since it   *)
(* was taken: all that is stored up to its last op has been applied.       *)
LEMMA AmendedOK ==
    ASSUME OpsOK, StoreOK, NEW s, AppliedOK(s), NEW t, CheckOK(s, t), SameState(s, t), HasAll(s, t),
           NEW c, c = Amended(t)
    PROVE  SnapshotOK(c) /\ c.count \in Nat /\ c.count <= s.count /\ UpTo(c.last, s.applied)
<1>1. SnapshotOK(t.check) /\ t.check.count \in Nat /\ t.check.count <= s.count
  BY DEF CheckOK, SnapshotOK
<1>2. t.check.applied = s.applied
  <2>1. t.check.applied \subseteq s.applied /\ s.applied \subseteq Ops
        /\ Cardinality(t.check.applied) = Cardinality(s.applied)
    BY DEF CheckOK, SameState, AppliedOK, Shows, Closed
  <2> QED
    BY <2>1, CardFacts
<1>3. CASE t.hashes = <<>>
  <2>1. c = t.check
    BY <1>3 DEF Amended
  <2> QED
    BY <1>1, <1>2, <2>1 DEF SnapshotOK
<1>4. CASE t.hashes # <<>>
  <2>1. PICK b, last : b = t.check /\ last = Last(t.hashes)
    OBVIOUS
  <2>2. c = [b EXCEPT !.last = last] /\ DOMAIN b = SnapshotFields
    BY <1>1, <1>4, <2>1 DEF Amended, SnapshotOK
  <2>3. /\ DOMAIN c = SnapshotFields /\ c.last = last /\ c.count = b.count /\ c.applied = b.applied
        /\ c.terminal = b.terminal /\ c.active = b.active /\ c.contents = b.contents
    BY ONLY <2>2 DEF SnapshotFields
  <2>4. UpTo(last, s.applied)
    <3>1. PICK n \in DOMAIN stored : last = stored[n] /\ \A k \in 1 .. n : stored[k] \in s.applied \cup Range(t.hashes)
      BY <1>4, <2>1 DEF CheckOK
    <3>2. Range(t.hashes) \subseteq s.applied
      BY DEF HasAll
    <3> QED
      BY <3>1, <3>2 DEF UpTo
  <2>5. Shows(c)
    BY <1>1, <2>1, <2>3 DEF SnapshotOK, Shows
  <2>6. SnapshotOK(c)
    BY <1>1, <1>2, <2>1, <2>3, <2>4, <2>5 DEF SnapshotOK
  <2> QED
    BY <1>1, <2>1, <2>3, <2>4, <2>6
<1> QED
  BY <1>3, <1>4

(* The check is over, and the timer may have been set again meanwhile.     *)
LEMMA TimerDone ==
    ASSUME NEW s, NEW t, TimerOK(s, t), NEW x, x = [NoTimer EXCEPT !.set = t.set]
    PROVE  TimerOK(s, x)
<1>1. PICK set : set = t.set
  OBVIOUS
<1>2. x = [NoTimer EXCEPT !.set = set]
  BY <1>1
<1>3. DOMAIN x = TimerFields /\ x.set = set /\ x.on = FALSE
  BY ONLY <1>2 DEF NoTimer, TimerFields
<1> QED
  BY <1>1, <1>3 DEF TimerOK

(* The store has answered.                                                 *)
LEMMA TimerHashesKeeps ==
    ASSUME Inv, NEW i \in Instances, TimerHashes(i)
    PROVE  Inv'
<1>1. PICK s, v, ls, e, t : Now(i, s, v, ls, e, t)
  BY Present
<1>2. InstanceOK(s, v, ls, e, t) /\ t.on /\ AppliedOK(s) /\ CountsOK(s) /\ CheckOK(s, t) /\ TimerOK(s, t)
  BY <1>1 DEF TimerHashes, Now, InstanceOK, TimerOK
<1>3. PICK x : x = [NoTimer EXCEPT !.set = t.set]
  OBVIOUS
<1>4. CASE t.since = s.lastAtCheckpoint /\ SameState(s, t) /\ HasAll(s, t)
  <2>1. PICK c, r : c = Amended(t) /\ r = Checkpointed(s, c)
    OBVIOUS
  <2>2. SnapshotOK(c) /\ c.count \in Nat /\ c.count <= s.count /\ UpTo(c.last, s.applied)
    BY <1>2, <1>4, <2>1, AmendedOK DEF Inv
  <2>3. InstanceOK(r, v, ls, e, t)
    BY <1>2, <2>1, <2>2, CheckpointedOK DEF Inv
  <2>4. InstanceOK(r, v, ls, e, x)
    <3>1. TimerOK(r, t)
      BY <2>3 DEF InstanceOK
    <3>2. TimerOK(r, x) /\ ~ Untouched(r, t)
      BY <1>2, <1>3, <3>1, TimerDone DEF Untouched
    <3> QED
      BY <2>3, <3>2, TimerChanges
  <2>5. checkpoint' = c /\ inst' = [inst EXCEPT ![i] = r] /\ timer' = [timer EXCEPT ![i] = x]
    BY <1>1, <1>3, <1>4, <2>1 DEF TimerHashes, Now
  <2>6. Becomes(i, r, v, ls, e, x)
    BY <1>1, <2>5 DEF TimerHashes, OthersIdle, Now, Becomes, Domains, Inv
  <2>7. GoodCheckpoint(c)
    BY <2>2 DEF GoodCheckpoint
  <2> QED
    BY <2>4, <2>5, <2>6, <2>7, QuietStep DEF TimerHashes, OthersIdle
<1>5. CASE ~ (t.since = s.lastAtCheckpoint /\ SameState(s, t) /\ HasAll(s, t))
  <2>1. PICK y : y = IF t.since = s.lastAtCheckpoint /\ ~ SameState(s, t) THEN SetTimers(x, s) ELSE x
    OBVIOUS
  <2>2. TimerOK(s, y)
    <3>1. TimerOK(s, x)
      BY <1>2, <1>3, TimerDone
    <3>2. CASE t.since = s.lastAtCheckpoint /\ ~ SameState(s, t)
      BY <1>2, <2>1, <3>1, <3>2, TimersSet
    <3>3. CASE ~ (t.since = s.lastAtCheckpoint /\ ~ SameState(s, t))
      BY <2>1, <3>1, <3>3
    <3> QED
      BY <3>2, <3>3
  <2>3. InstanceOK(s, v, ls, e, y)
    <3>1. ~ Untouched(s, t)
      BY <1>2 DEF Untouched
    <3> QED
      BY <1>2, <2>2, <3>1, TimerChanges
  <2>4. UNCHANGED <<checkpoint, inst>> /\ timer' = [timer EXCEPT ![i] = y]
    BY <1>1, <1>3, <1>5, <2>1 DEF TimerHashes, Now
  <2>5. Becomes(i, s, v, ls, e, y)
    BY <1>1, <2>4 DEF TimerHashes, OthersIdle, Now, Becomes, Domains, Inv
  <2> QED
    BY <2>3, <2>4, <2>5, QuietStep, CheckpointNow DEF TimerHashes, OthersIdle
<1> QED
  BY <1>4, <1>5

-----------------------------------------------------------------------------
(* A step of the store, or of a new op, that no instance takes part in.    *)
LEMMA NothingMoves ==
    ASSUME Inv, OpsOK', StoreOK', Grows, UNCHANGED <<checkpoint, inst, load, saving, timer, explicit>>,
           DOMAIN arriving' = Instances, \A j \in Instances : arriving'[j] \subseteq Stored'
    PROVE  Inv'
<1>1. GoodCheckpoint(checkpoint)'
  <2>1. PICK c : c = checkpoint
    OBVIOUS
  <2>2. SnapshotOK(c) /\ (c = NoCheckpoint \/ c.count >= 0)
    BY <2>1 DEF Inv
  <2>3. SnapshotOK(c)'
    BY <2>2, SnapshotKept DEF Inv
  <2> QED
    BY <2>1, <2>2, <2>3 DEF GoodCheckpoint
<1>2. ASSUME NEW j \in Instances PROVE InstanceOK(inst[j], saving[j], load[j], explicit[j], timer[j])'
  <2>1. PICK s, v, ls, e, t : Now(j, s, v, ls, e, t)
    BY Present
  <2>2. InstanceOK(s, v, ls, e, t)'
    BY <2>1, InstanceKept DEF Now, Inv
  <2>3. inst'[j] = s /\ saving'[j] = v /\ load'[j] = ls /\ explicit'[j] = e /\ timer'[j] = t
    BY <2>1 DEF Now
  <2> QED
    BY <2>2, <2>3
<1> QED
  BY <1>1, <1>2 DEF Inv, GoodCheckpoint

(* The store has one more op.                                              *)
LEMMA StoredAppended ==
    ASSUME StoreOK, NEW o \in Nat, o \notin Stored, stored' = Append(stored, o)
    PROVE  /\ stored' \in Seq(Nat) /\ Stored' = Stored \cup {o}
           /\ Len(stored') = Len(stored) + 1 /\ Len(stored) \in Nat
           /\ DOMAIN stored = 1 .. Len(stored) /\ DOMAIN stored' = 1 .. (Len(stored) + 1)
           /\ \A k \in DOMAIN stored : stored'[k] = stored[k]
           /\ stored'[Len(stored) + 1] = o
           /\ \A k, m \in DOMAIN stored' : stored'[k] = stored'[m] => k = m
<1>1. stored \in Seq(Nat)
  BY DEF StoreOK
<1>2. /\ stored' \in Seq(Nat) /\ Len(stored') = Len(stored) + 1 /\ Len(stored) \in Nat
      /\ DOMAIN stored = 1 .. Len(stored) /\ DOMAIN stored' = 1 .. (Len(stored) + 1)
      /\ \A k \in DOMAIN stored : stored'[k] = stored[k]
      /\ stored'[Len(stored) + 1] = o
  BY <1>1
<1>3. Stored = {stored[k] : k \in DOMAIN stored} /\ Stored' = {stored'[k] : k \in DOMAIN stored'}
  BY DEF Stored, Range
<1>4. Stored' = Stored \cup {o}
  BY <1>2, <1>3
<1>5. \A k \in DOMAIN stored : stored[k] # o
  BY <1>3
<1>6. \A k, m \in DOMAIN stored : stored[k] = stored[m] => k = m
  BY DEF StoreOK
<1>7. \A k, m \in DOMAIN stored' : stored'[k] = stored'[m] => k = m
  <2> SUFFICES ASSUME NEW k \in DOMAIN stored', NEW m \in DOMAIN stored', stored'[k] = stored'[m] PROVE k = m
    OBVIOUS
  <2>1. (k \in DOMAIN stored \/ k = Len(stored) + 1) /\ (m \in DOMAIN stored \/ m = Len(stored) + 1)
    BY <1>2
  <2> QED
    BY <1>2, <1>5, <1>6, <2>1
<1> QED
  BY <1>2, <1>4, <1>7

(* The callbacks of the store are for what is stored.                      *)
LEMMA Announced ==
    ASSUME Inv, NEW o, Announce(o), Stored' = Stored \cup {o}
    PROVE  DOMAIN arriving' = Instances /\ \A j \in Instances : arriving'[j] \subseteq Stored'
BY DEF Announce, Inv

(* The first unsaved op is stored: what it comes after has been.           *)
LEMMA StoreOpKeeps ==
    ASSUME Inv, NEW i \in Instances, StoreOp(i)
    PROVE  Inv'
<1>1. PICK s, v, ls, e, t : Now(i, s, v, ls, e, t)
  BY Present
<1>2. v # None /\ v \notin Stored /\ stored' = Append(stored, v) /\ Announce(v)
  BY <1>1 DEF StoreOp, Store, Now
<1>3. v \in Ops /\ v \in Nat /\ prev[v] \subseteq Stored
  <2>1. UnsavedOK(s, v)
    BY <1>1 DEF Now, InstanceOK
  <2>2. PICK q : q = s.unsaved
    OBVIOUS
  <2>3. q \in Seq(Nat) /\ q # <<>> /\ v = Head(q)
    BY <1>2, <2>1, <2>2 DEF UnsavedOK
  <2>4. 1 \in DOMAIN q /\ v = q[1]
    BY <2>3
  <2>5. q[1] \in Ops /\ prev[q[1]] \subseteq Stored \cup {q[m] : m \in 1 .. (1 - 1)}
    BY <2>1, <2>2, <2>4 DEF UnsavedOK
  <2>6. {q[m] : m \in 1 .. (1 - 1)} = {}
    OBVIOUS
  <2>7. v \in Ops /\ prev[v] \subseteq Stored
    BY <2>4, <2>5, <2>6
  <2> QED
    BY <2>7, OpFacts DEF Inv
<1>4. prev' = prev /\ undoes' = undoes /\ OpsOK /\ StoreOK
  BY DEF StoreOp, Inv
<1>5. /\ stored' \in Seq(Nat) /\ Stored' = Stored \cup {v}
      /\ Len(stored') = Len(stored) + 1 /\ Len(stored) \in Nat
      /\ DOMAIN stored = 1 .. Len(stored) /\ DOMAIN stored' = 1 .. (Len(stored) + 1)
      /\ \A k \in DOMAIN stored : stored'[k] = stored[k]
      /\ stored'[Len(stored) + 1] = v
      /\ \A k, m \in DOMAIN stored' : stored'[k] = stored'[m] => k = m
  BY <1>2, <1>3, <1>4, StoredAppended
<1>6. OpsOK'
  <2>1. Ops' = Ops /\ \A o : IsRedo(o)' <=> IsRedo(o)
    BY <1>4 DEF Ops, IsRedo
  <2> QED
    BY <1>4, <1>5, <2>1 DEF OpsOK
<1>7. Ops' = Ops
  BY <1>4 DEF Ops
<1>8. Grows
  BY <1>4, <1>5, <1>7 DEF Grows
<1>9. StoreOK'
  <2>1. ASSUME NEW k \in DOMAIN stored' PROVE prev[stored'[k]] \subseteq {stored'[m] : m \in 1 .. (k - 1)}
    <3>1. CASE k = Len(stored) + 1
      <4>1. {stored'[m] : m \in 1 .. (k - 1)} = {stored[m] : m \in DOMAIN stored}
        BY <1>5, <3>1
      <4> QED
        BY <1>3, <1>5, <3>1, <4>1 DEF Stored, Range
    <3>2. CASE k # Len(stored) + 1
      <4>1. k \in DOMAIN stored /\ prev[stored[k]] \subseteq {stored[m] : m \in 1 .. (k - 1)}
        BY <1>4, <1>5, <3>2 DEF StoreOK
      <4>2. {stored'[m] : m \in 1 .. (k - 1)} = {stored[m] : m \in 1 .. (k - 1)}
        <5>1. \A m \in 1 .. (k - 1) : stored'[m] = stored[m]
          BY <1>5, <4>1
        <5> QED
          BY <5>1
      <4> QED
        BY <1>5, <4>1, <4>2
    <3> QED
      BY <3>1, <3>2
  <2>2. Stored' \subseteq Ops'
    BY <1>3, <1>4, <1>5, <1>7 DEF StoreOK
  <2> QED
    BY <1>4, <1>5, <2>1, <2>2 DEF StoreOK
<1>10. DOMAIN arriving' = Instances /\ \A j \in Instances : arriving'[j] \subseteq Stored'
  BY <1>2, <1>5, Announced
<1> QED
  BY <1>6, <1>8, <1>9, <1>10, NothingMoves DEF StoreOp

(* A new op comes after ops there are; an undo or redo is of one that is   *)
(* stored and that no other is for, and is stored at once.                 *)
LEMMA OpsAppended ==
    ASSUME OpsOK, NEW p, NEW u, NewOp(p, u), NEW o, o = Len(prev) + 1, p \subseteq Ops, u \in Ops \cup {None},
           u # None => p = {u} /\ ~ IsRedo(u) /\ (\A q \in Ops : undoes[q] # u) /\ o \in Stored',
           Stored \subseteq Stored'
    PROVE  /\ OpsOK' /\ Ops' = Ops \cup {o} /\ o \in Nat \ {None} /\ o \notin Ops
           /\ \A q \in Ops : prev'[q] = prev[q] /\ undoes'[q] = undoes[q]
           /\ prev'[o] = p /\ undoes'[o] = u
<1>1. /\ Ops = 1 .. Len(prev) /\ Ops = DOMAIN undoes /\ Len(prev) \in Nat /\ None \notin Ops
      /\ \A q \in Ops : undoes[q] # None => undoes[q] \in Ops
  BY OpFacts
<1>2. p \in SUBSET Nat /\ u \in Nat /\ prev \in Seq(SUBSET Nat) /\ undoes \in Seq(Nat) /\ Len(prev) = Len(undoes)
  BY <1>1 DEF OpsOK, None
<1>3. /\ prev' \in Seq(SUBSET Nat) /\ Len(prev') = o /\ DOMAIN prev' = 1 .. o
      /\ \A q \in Ops : prev'[q] = prev[q]
      /\ prev'[o] = p
  BY <1>1, <1>2 DEF NewOp
<1>4. /\ undoes' \in Seq(Nat) /\ Len(undoes') = o
      /\ \A q \in Ops : undoes'[q] = undoes[q]
      /\ undoes'[o] = u
  BY <1>1, <1>2 DEF NewOp
<1>5. Ops' = Ops \cup {o} /\ o \in Nat \ {None} /\ o \notin Ops /\ \A q \in Ops : q < o
  BY <1>1, <1>3 DEF Ops, None
<1> DEFINE Redo(q) == undoes'[q] # None /\ undoes'[undoes'[q]] # None
<1>6. \A q \in Ops : Redo(q) <=> IsRedo(q)
  <2> SUFFICES ASSUME NEW q \in Ops PROVE Redo(q) <=> IsRedo(q)
    OBVIOUS
  <2>1. CASE undoes[q] = None
    BY <1>4, <2>1 DEF IsRedo
  <2>2. CASE undoes[q] # None
    <3>1. undoes'[undoes[q]] = undoes[undoes[q]]
      BY <1>1, <1>4, <2>2
    <3> QED
      BY <1>4, <3>1 DEF IsRedo
  <2> QED
    BY <2>1, <2>2
<1> HIDE DEF Redo
<1>7. ASSUME NEW q \in Ops'
      PROVE  /\ prev'[q] \subseteq 1 .. (q - 1) /\ undoes'[q] \in 0 .. (q - 1)
             /\ undoes'[q] # None => prev'[q] = {undoes'[q]} /\ ~ Redo(undoes'[q]) /\ q \in Stored'
  <2>1. CASE q \in Ops
    <3>1. prev[q] \subseteq 1 .. (q - 1) /\ undoes[q] \in 0 .. (q - 1)
      BY <2>1 DEF OpsOK
    <3>2. undoes[q] # None => prev[q] = {undoes[q]} /\ ~ IsRedo(undoes[q]) /\ q \in Stored /\ undoes[q] \in Ops
      BY <1>1, <2>1 DEF OpsOK
    <3>3. prev'[q] = prev[q] /\ undoes'[q] = undoes[q]
      BY <1>3, <1>4, <2>1
    <3> QED
      BY <1>6, <3>1, <3>2, <3>3
  <2>2. CASE q = o
    <3>1. p \subseteq 1 .. (o - 1) /\ u \in 0 .. (o - 1)
      BY <1>1 DEF None
    <3>2. prev'[q] = p /\ undoes'[q] = u
      BY <1>3, <1>4, <2>2
    <3>3. u # None => u \in Ops
      OBVIOUS
    <3> QED
      BY <1>6, <2>2, <3>1, <3>2, <3>3
  <2> QED
    BY <1>5, <2>1, <2>2
<1>8. ASSUME NEW q \in Ops', NEW r \in Ops', undoes'[q] # None, undoes'[q] = undoes'[r]
      PROVE  q = r
  <2>1. \A a, b \in Ops : undoes[a] # None /\ undoes[a] = undoes[b] => a = b
    BY DEF OpsOK
  <2> QED
    BY <1>4, <1>5, <1>8, <2>1
<1>9. OpsOK'
  <2>1. Len(prev') = Len(undoes')
    BY <1>3, <1>4
  <2>2. \A q \in Ops' : ~ Redo(undoes'[q]) => ~ IsRedo(undoes[q])'
    BY DEF Redo, IsRedo
  <2> QED
    BY <1>3, <1>4, <1>7, <1>8, <2>1, <2>2 DEF OpsOK
<1> QED
  BY <1>3, <1>4, <1>5, <1>9

(* An op from elsewhere.                                                   *)
LEMMA ReceiveKeeps ==
    ASSUME Inv, Receive
    PROVE  Inv'
<1>1. PICK u \in {None} \cup {o \in Stored : ~ IsRedo(o) /\ \A p \in Ops : undoes[p] # o},
           seen \in {{}, Stored} : NewOp(IF u # None THEN {u} ELSE Heads(seen), u)
  BY DEF Receive
<1>2. PICK p, o : p = (IF u # None THEN {u} ELSE Heads(seen)) /\ o = Len(prev) + 1
  OBVIOUS
<1>3. OpsOK /\ StoreOK /\ Stored \subseteq Ops
  BY DEF Inv, StoreOK
<1>4. Len(prev) \in Nat /\ Len(prev') = o /\ o \in Nat /\ o \notin Ops
  <2>1. Len(prev) \in Nat /\ Ops = 1 .. Len(prev) /\ prev \in Seq(SUBSET Nat)
    BY <1>3, OpFacts DEF OpsOK
  <2>2. prev' = Append(prev, p)
    BY <1>1, <1>2 DEF NewOp
  <2>3. Len(prev') = Len(prev) + 1
    BY <2>1, <2>2
  <2> QED
    BY <1>2, <2>1, <2>3
<1>5. o \notin Stored /\ stored' = Append(stored, o) /\ Announce(o)
  BY <1>3, <1>4 DEF Receive
<1>6. /\ stored' \in Seq(Nat) /\ Stored' = Stored \cup {o}
      /\ Len(stored') = Len(stored) + 1 /\ Len(stored) \in Nat
      /\ DOMAIN stored = 1 .. Len(stored) /\ DOMAIN stored' = 1 .. (Len(stored) + 1)
      /\ \A k \in DOMAIN stored : stored'[k] = stored[k]
      /\ stored'[Len(stored) + 1] = o
      /\ \A k, m \in DOMAIN stored' : stored'[k] = stored'[m] => k = m
  BY <1>3, <1>4, <1>5, StoredAppended
<1>7. p \subseteq Stored /\ u \in Ops \cup {None}
  <2>1. Heads(seen) \subseteq Stored
    BY DEF Heads
  <2> QED
    BY <1>1, <1>2, <1>3, <2>1
<1>8. /\ OpsOK' /\ Ops' = Ops \cup {o} /\ \A q \in Ops : prev'[q] = prev[q] /\ undoes'[q] = undoes[q]
      /\ prev'[o] = p
  <2>1. NewOp(p, u) /\ p \subseteq Ops
    BY <1>1, <1>2, <1>3, <1>7
  <2>2. u # None => p = {u} /\ ~ IsRedo(u) /\ (\A q \in Ops : undoes[q] # u) /\ o \in Stored'
    BY <1>1, <1>2, <1>6
  <2>3. Stored \subseteq Stored' /\ o = Len(prev) + 1
    BY <1>2, <1>6
  <2> QED
    BY <1>3, <1>7, <2>1, <2>2, <2>3, OpsAppended
<1>9. Grows
  BY <1>6, <1>8 DEF Grows
<1>10. StoreOK'
  <2>1. ASSUME NEW k \in DOMAIN stored' PROVE prev'[stored'[k]] \subseteq {stored'[m] : m \in 1 .. (k - 1)}
    <3>1. CASE k = Len(stored) + 1
      <4>1. {stored'[m] : m \in 1 .. (k - 1)} = {stored[m] : m \in DOMAIN stored}
        BY <1>6, <3>1
      <4> QED
        BY <1>6, <1>7, <1>8, <3>1, <4>1 DEF Stored, Range
    <3>2. CASE k # Len(stored) + 1
      <4>1. k \in DOMAIN stored /\ stored[k] \in Ops /\ prev[stored[k]] \subseteq {stored[m] : m \in 1 .. (k - 1)}
        BY <1>3, <1>6, <3>2 DEF StoreOK, Stored, Range
      <4>2. {stored'[m] : m \in 1 .. (k - 1)} = {stored[m] : m \in 1 .. (k - 1)}
        <5>1. \A m \in 1 .. (k - 1) : stored'[m] = stored[m]
          BY <1>6, <4>1
        <5> QED
          BY <5>1
      <4> QED
        BY <1>6, <1>8, <4>1, <4>2
    <3> QED
      BY <3>1, <3>2
  <2>2. Stored' \subseteq Ops'
    BY <1>3, <1>6, <1>8
  <2> QED
    BY <1>6, <2>1, <2>2 DEF StoreOK
<1>11. DOMAIN arriving' = Instances /\ \A j \in Instances : arriving'[j] \subseteq Stored'
  BY <1>5, <1>6, Announced
<1> QED
  BY <1>8, <1>9, <1>10, <1>11, NothingMoves DEF Receive

(* The op an instance creates comes after its terminal ops, and is its     *)
(* only end.                                                               *)
LEMMA CreatedShows ==
    ASSUME OpsOK, OpsOK', NEW s, Shows(s), Shows(s)', NEW o, o # None, o \notin Ops, Ops' = Ops \cup {o},
           \A q \in Ops : prev'[q] = prev[q] /\ undoes'[q] = undoes[q],
           prev'[o] = s.terminal, undoes'[o] = None,
           NEW r, r.applied = s.applied \cup {o}, r.terminal = {o}, r.active = s.active,
           r.contents = s.contents \cup {o}
    PROVE  Shows(r)'
<1> DEFINE A == s.applied
           B == A \cup {o}
<1>1. Closed(A) /\ Closed(A)' /\ s.terminal = Heads(A) /\ Heads(A) \subseteq A /\ A \subseteq Ops
  BY DEF Shows, Closed, Heads
<1>2. \A q \in A : /\ prev'[q] = prev[q] /\ undoes'[q] = undoes[q] /\ o \notin prev[q]
                   /\ (undoes[q] # None => undoes[q] \in Ops)
  <2> SUFFICES ASSUME NEW q \in A
               PROVE  /\ prev'[q] = prev[q] /\ undoes'[q] = undoes[q] /\ o \notin prev[q]
                      /\ (undoes[q] # None => undoes[q] \in Ops)
    OBVIOUS
  <2>1. q \in Ops /\ prev[q] \subseteq A
    BY <1>1 DEF Closed
  <2> QED
    BY <1>1, <2>1, OpFacts
<1>3. Closed(B)'
  BY <1>1 DEF Closed
<1>4. Heads(B)' = {o}
  <2> HIDE DEF A
  <2>1. \A q \in B : o \notin prev'[q]
    BY <1>1, <1>2
  <2>2. ASSUME NEW x \in A PROVE \E q \in B : x \in prev'[q]
    <3>1. CASE x \in Heads(A)
      BY <1>1, <3>1
    <3>2. CASE x \notin Heads(A)
      <4>1. PICK q \in A : x \in prev[q]
        BY <3>2 DEF Heads
      <4> QED
        BY <1>2, <4>1
    <3> QED
      BY <3>1, <3>2
  <2> QED
    BY <2>1, <2>2 DEF Heads
<1>5. Unredone(B)' = Unredone(A)'
  <2>1. ~ IsUndo(o)'
    BY DEF IsUndo
  <2>2. \A u : IsUndo(u)' => undoes'[u] # None
    BY DEF IsUndo
  <2>3. \A q \in A : undoes'[q] # o
    BY <1>1, <1>2, OpFacts
  <2>4. \A u \in A : IsUndo(u)' => u # None
    BY <1>1, OpFacts
  <2> HIDE DEF A
  <2> QED
    BY <1>1, <2>1, <2>2, <2>3, <2>4 DEF Unredone
<1>6. s.active = ActiveOf(A)' /\ s.contents = ContentsOf(A)'
  BY DEF Shows
<1>7. \A u \in Unredone(A)' : undoes'[u] # o
  <2>1. \A u \in Unredone(A)' : u \in A
    BY DEF Unredone
  <2> QED
    BY <1>2, <2>1
<1> HIDE DEF A
<1>8. ActiveOf(B)' = s.active
  BY <1>5, <1>6 DEF ActiveOf
<1>9. ContentsOf(B)' = s.contents \cup {o}
  BY <1>5, <1>6, <1>7 DEF ContentsOf
<1> QED
  BY <1>3, <1>4, <1>8, <1>9 DEF Shows, A

(* An instance creates an op.                                              *)
LEMMA ApplyNewOpKeeps ==
    ASSUME Inv, NEW i \in Instances, ApplyNewOp(i)
    PROVE  Inv'
<1>1. PICK s, v, ls, e, t : Now(i, s, v, ls, e, t)
  BY Present
<1>2. PICK o, r : o = Len(prev) + 1 /\ r = Created(s, o)
  OBVIOUS
<1>3. OpsOK /\ StoreOK /\ InstanceOK(s, v, ls, e, t) /\ Stored \subseteq Ops
  BY <1>1 DEF Now, Inv, StoreOK
<1>4. NewOp(s.terminal, None) /\ inst' = [inst EXCEPT ![i] = r] /\ UNCHANGED <<role, stored, checkpoint, calls>>
  BY <1>1, <1>2 DEF ApplyNewOp, Now
<1>5. stored' = stored /\ Stored' = Stored
  BY <1>4 DEF Stored
<1>6. s.terminal \subseteq s.applied /\ s.applied \subseteq Ops
  BY <1>3 DEF InstanceOK, AppliedOK, Shows, Closed, Heads
<1>7. /\ OpsOK' /\ Ops' = Ops \cup {o} /\ o \in Nat \ {None} /\ o \notin Ops
      /\ \A q \in Ops : prev'[q] = prev[q] /\ undoes'[q] = undoes[q]
      /\ prev'[o] = s.terminal /\ undoes'[o] = None
  <2>1. s.terminal \subseteq Ops /\ None \in Ops \cup {None} /\ Stored \subseteq Stored'
    BY <1>5, <1>6
  <2> QED
    BY <1>2, <1>3, <1>4, <2>1, OpsAppended
<1>8. Grows
  <2>1. Len(stored) \in Nat
    BY <1>3 DEF StoreOK
  <2> QED
    BY <1>5, <1>7, <2>1 DEF Grows
<1>9. StoreOK'
  <2>1. \A k \in DOMAIN stored : stored[k] \in Ops
    BY <1>3 DEF Stored, Range
  <2>2. Stored' \subseteq Ops'
    BY <1>3, <1>5, <1>7
  <2>3. \A k \in DOMAIN stored : prev'[stored[k]] \subseteq {stored[m] : m \in 1 .. (k - 1)}
    BY <1>3, <1>7, <2>1 DEF StoreOK
  <2>4. stored \in Seq(Nat) /\ \A k, m \in DOMAIN stored : stored[k] = stored[m] => k = m
    BY <1>3 DEF StoreOK
  <2> QED
    BY <1>5, <2>2, <2>3, <2>4 DEF StoreOK
<1>10. InstanceOK(s, v, ls, e, t)'
  BY <1>3, <1>7, <1>8, <1>9, InstanceKept
<1>11. /\ DOMAIN r = InstFields /\ r.terminal = {o} /\ r.applied = s.applied \cup {o} /\ r.active = s.active
       /\ r.contents = s.contents \cup {o} /\ r.unsaved = Append(s.unsaved, o) /\ r.unapplied = s.unapplied
       /\ r.last = s.last /\ r.count = s.count /\ r.lastAtCheckpoint = s.lastAtCheckpoint
       /\ r.countAtCheckpoint = s.countAtCheckpoint /\ r.loaded = s.loaded
  <2>1. DOMAIN s = InstFields
    BY <1>3 DEF InstanceOK
  <2> QED
    BY ONLY <1>2, <2>1 DEF Created, InstFields
<1>12. r.applied \cap Stored = s.applied \cap Stored
  BY <1>3, <1>7, <1>11
<1>13. AppliedOK(r)'
  <2>1. Shows(r)'
    <3>1. Shows(s) /\ Shows(s)'
      BY <1>3, <1>10 DEF InstanceOK, AppliedOK
    <3> QED
      BY <1>3, <1>7, <1>11, <3>1, CreatedShows
  <2>2. UpTo(r.last, r.applied)' /\ UpTo(r.lastAtCheckpoint, r.applied)'
    <3>1. UpTo(s.last, s.applied) /\ UpTo(s.lastAtCheckpoint, s.applied) /\ s.applied \subseteq r.applied
      BY <1>3, <1>11 DEF InstanceOK, AppliedOK
    <3>2. UpTo(r.last, r.applied) /\ UpTo(r.lastAtCheckpoint, r.applied)
      BY <1>11, <3>1, UpToMore
    <3> QED
      BY <1>5, <3>2 DEF UpTo
  <2>3. r.unapplied \subseteq Stored /\ r.count <= Cardinality(r.applied \cap Stored)
    BY <1>3, <1>11, <1>12 DEF InstanceOK, AppliedOK
  <2> QED
    BY <1>5, <2>1, <2>2, <2>3 DEF AppliedOK
<1>14. UnsavedOK(r, v)'
  <2>1. PICK q, z : q = s.unsaved /\ z = Append(q, o)
    OBVIOUS
  <2>2. /\ q \in Seq(Nat) /\ s.applied \ Stored \subseteq Range(q)
        /\ \A k \in DOMAIN q :
              q[k] \in Ops /\ prev[q[k]] \subseteq Stored \cup {q[m] : m \in 1 .. (k - 1)}
        /\ v # None => q # <<>> /\ v = Head(q)
    <3>1. UnsavedOK(s, v)
      BY <1>3 DEF InstanceOK
    <3> QED
      BY ONLY <2>1, <3>1 DEF UnsavedOK
  <2>3. /\ z \in Seq(Nat) /\ DOMAIN q = 1 .. Len(q) /\ DOMAIN z = 1 .. (Len(q) + 1) /\ Len(q) \in Nat
        /\ \A k \in DOMAIN q : z[k] = q[k]
        /\ z[Len(q) + 1] = o
        /\ v # None => z # <<>> /\ v = Head(z)
    BY <1>7, <2>1, <2>2
  <2>4. Range(q) \cup {o} = Range(z)
    BY <2>3 DEF Range
  <2>5. ASSUME NEW k \in DOMAIN z
        PROVE  z[k] \in Ops' /\ prev'[z[k]] \subseteq Stored \cup {z[m] : m \in 1 .. (k - 1)}
    <3>1. CASE k = Len(q) + 1
      <4>1. {z[m] : m \in 1 .. (k - 1)} = Range(q)
        BY <2>3, <3>1 DEF Range
      <4> QED
        BY <1>6, <1>7, <2>2, <2>3, <3>1, <4>1
    <3>2. CASE k # Len(q) + 1
      <4>1. k \in DOMAIN q /\ q[k] \in Ops /\ prev[q[k]] \subseteq Stored \cup {q[m] : m \in 1 .. (k - 1)}
        BY <2>2, <2>3, <3>2
      <4>2. {z[m] : m \in 1 .. (k - 1)} = {q[m] : m \in 1 .. (k - 1)}
        <5>1. \A m \in 1 .. (k - 1) : z[m] = q[m]
          BY <2>3, <4>1
        <5> QED
          BY <5>1
      <4> QED
        BY <1>7, <2>3, <4>1, <4>2
    <3> QED
      BY <3>1, <3>2
  <2>6. r.unsaved = z /\ r.applied \ Stored \subseteq Range(z)
    BY <1>11, <2>1, <2>2, <2>4
  <2> QED
    BY <1>5, <2>3, <2>5, <2>6 DEF UnsavedOK
<1>15. ASSUME NEW l, LoadOK(s, l, t)' PROVE LoadOK(r, l, t)'
  <2>1. \A x : x \in s.applied => x \in r.applied
    BY <1>11
  <2>2. Untouched(s, t)' => Untouched(r, t)'
    BY <1>11 DEF Untouched
  <2>3. Cardinality(s.applied \cap Stored') = Cardinality(r.applied \cap Stored') /\ r.count = s.count
    BY <1>5, <1>11, <1>12
  <2> QED
    BY <1>15, <2>1, <2>2, <2>3 DEF LoadOK
<1>16. LoadsOK(r, ls, e, t)'
  BY <1>10, <1>11, <1>15 DEF InstanceOK, LoadsOK
<1>17. TimerOK(r, t)'
  <2>1. TimerOK(s, t)'
    BY <1>10 DEF InstanceOK
  <2>2. s.applied \subseteq r.applied /\ r.applied # {} /\ r.count = s.count
    BY <1>11
  <2>3. CheckOK(s, t)' => CheckOK(r, t)'
    BY <2>2 DEF CheckOK
  <2> QED
    BY <2>1, <2>2, <2>3 DEF TimerOK
<1>18. InstanceOK(r, v, ls, e, t)'
  <2>1. CountsOK(r)'
    BY <1>3, <1>11 DEF InstanceOK, CountsOK
  <2> QED
    BY <1>11, <1>13, <1>14, <1>16, <1>17, <2>1 DEF InstanceOK
<1>19. Becomes(i, r, v, ls, e, t)
  BY <1>1, <1>4 DEF Now, Becomes, Domains, Inv, calls
<1>20. checkpoint' = checkpoint /\ \A j \in Instances : arriving'[j] \subseteq Stored'
  BY <1>4, <1>5 DEF Inv, calls
<1> QED
  BY <1>7, <1>8, <1>9, <1>18, <1>19, <1>20, StoreStep

-----------------------------------------------------------------------------
(* What shows a history has no hole, and its contents are what it says.    *)
LEMMA ShowsHistory ==
    ASSUME NEW s, Shows(s)
    PROVE  /\ \A o \in s.applied : prev[o] \subseteq s.applied
           /\ s.terminal = Heads(s.applied)
           /\ s.contents = {o \in s.applied : undoes[o] = None /\ ~ Undone(s.applied, o)}
<1>1. \A o : Undone(s.applied, o) <=> \E u \in Unredone(s.applied) : undoes[u] = o
  BY DEF Undone, Unredone
<1> QED
  BY <1>1 DEF Shows, Closed, ContentsOf

(* With nothing applied there is nothing to show.                          *)
LEMMA NothingShows ==
    ASSUME NEW s, s.applied = {}, s.terminal = {}, s.active = {}, s.contents = {}
    PROVE  Shows(s)
<1>1. Unredone({}) = {}
  BY DEF Unredone
<1>2. ActiveOf({}) = {}
  BY <1>1 DEF ActiveOf
<1> QED
  BY <1>2 DEF Shows, Closed, Heads, ContentsOf

(* Nothing has been created, stored or applied.                            *)
LEMMA InitOK ==
    ASSUME Init
    PROVE  Inv
<1>1. prev = <<>> /\ undoes = <<>> /\ stored = <<>> /\ checkpoint = NoCheckpoint
  BY DEF Init
<1>2. Ops = {} /\ Stored = {}
  BY <1>1 DEF Ops, Stored, Range
<1>3. OpsOK /\ StoreOK
  BY <1>1, <1>2 DEF OpsOK, StoreOK
<1>4. Cardinality({}) = 0
  BY FS_EmptySet
<1>5. SnapshotOK(checkpoint)
  <2>1. /\ DOMAIN NoCheckpoint = SnapshotFields /\ NoCheckpoint.count = -1 /\ NoCheckpoint.last = None
        /\ NoCheckpoint.applied = {} /\ NoCheckpoint.terminal = {} /\ NoCheckpoint.active = {}
        /\ NoCheckpoint.contents = {}
    BY DEF NoCheckpoint, SnapshotFields
  <2>2. Shows(NoCheckpoint)
    BY <2>1, NothingShows
  <2>3. Cardinality(NoCheckpoint.applied) = 0
    BY <1>4, <2>1
  <2> HIDE DEF NoCheckpoint
  <2> QED
    BY <1>1, <2>1, <2>2, <2>3 DEF SnapshotOK, UpTo
<1>6. /\ DOMAIN Fresh = InstFields /\ Fresh.terminal = {} /\ Fresh.applied = {} /\ Fresh.active = {}
      /\ Fresh.contents = {} /\ Fresh.unsaved = <<>> /\ Fresh.unapplied = {} /\ Fresh.last = None
      /\ Fresh.count = 0 /\ Fresh.lastAtCheckpoint = None /\ Fresh.countAtCheckpoint = 0
      /\ Fresh.loaded = FALSE
  BY DEF Fresh, InstFields
<1>7. NoTimer.set = "no" /\ NoTimer.on = FALSE /\ DOMAIN NoTimer = TimerFields
  BY DEF NoTimer, TimerFields
<1>8. NoLoad.pc = "no" /\ NoLoad.applying = None /\ DOMAIN NoLoad = LoadFields
  BY DEF NoLoad, LoadFields
<1> HIDE DEF Fresh, NoTimer, NoLoad
<1>9. InstanceOK(Fresh, None, [u \in Kinds |-> NoLoad], "no", NoTimer)
  <2>1. AppliedOK(Fresh)
    <3>1. Shows(Fresh)
      BY <1>6, NothingShows
    <3>2. Cardinality(Fresh.applied \cap Stored) = 0
      BY <1>2, <1>4
    <3> QED
      BY <1>6, <3>1, <3>2 DEF AppliedOK, UpTo
  <2>2. UnsavedOK(Fresh, None) /\ CountsOK(Fresh)
    BY <1>6 DEF UnsavedOK, CountsOK
  <2>3. LoadOK(Fresh, NoLoad, NoTimer)
    BY <1>8 DEF LoadOK
  <2>4. LoadsOK(Fresh, [u \in Kinds |-> NoLoad], "no", NoTimer)
    BY <1>8, <2>3 DEF LoadsOK, Kinds
  <2>5. TimerOK(Fresh, NoTimer)
    BY <1>7 DEF TimerOK
  <2> QED
    BY <1>6, <2>1, <2>2, <2>4, <2>5 DEF InstanceOK
<1> QED
  BY <1>1, <1>3, <1>5, <1>9 DEF Init, Inv, Kinds

(* Nothing happens.                                                        *)
LEMMA StutterKeeps ==
    ASSUME Inv, UNCHANGED vars
    PROVE  Inv'
<1>1. OpsOK' /\ StoreOK' /\ Grows /\ Stored' = Stored
  BY Quiet DEF Inv, vars, store
<1> QED
  BY <1>1, NothingMoves DEF Inv, vars, store, calls

(* Every step.                                                             *)
LEMMA NextKeeps ==
    ASSUME Inv, OneLoad, Next
    PROVE  Inv'
<1>1. CASE Receive
  BY <1>1, ReceiveKeeps
<1>2. ASSUME NEW i \in Instances,
             \/ ApplyNewOp(i) \/ SaveAllChanges(i) \/ LoadAllChanges(i) \/ SaveCheckpoint(i) \/ TimerFires(i)
             \/ Saves(i) \/ Follows(i) \/ Loads(i) \/ Checks(i)
      PROVE  Inv'
  <2>1. CASE ApplyNewOp(i)
    BY <2>1, ApplyNewOpKeeps
  <2>2. CASE SaveAllChanges(i)
    BY <2>2, SaveAllChangesKeeps
  <2>3. CASE LoadAllChanges(i)
    BY <2>3, LoadAllChangesKeeps
  <2>4. CASE SaveCheckpoint(i)
    BY <2>4, SaveCheckpointKeeps
  <2>5. CASE TimerFires(i)
    BY <2>5, TimerFiresKeeps
  <2>6. CASE Saves(i)
    BY <2>6, StoreOpKeeps, OpSavedKeeps DEF Saves
  <2>7. CASE Follows(i)
    BY <2>7, ApplyOpFromStoreKeeps, ContinuePendingKeeps DEF Follows
  <2>8. CASE Loads(i)
    <3>1. PICK u \in Kinds : \/ LoadLastCheckpoint(i, u) \/ RestoreCheckpoint(i, u)
                             \/ LoadOp(i, u) \/ OpLoaded(i, u) \/ EndLoad(i, u)
      BY <2>8 DEF Loads, Kinds
    <3> QED
      BY <3>1, LoadLastCheckpointKeeps, RestoreCheckpointKeeps, LoadOpKeeps, OpLoadedKeeps, EndLoadKeeps
  <2>9. CASE Checks(i)
    BY <2>9, ExplicitSavedKeeps, ExplicitLoadedKeeps, TimerHashesKeeps DEF Checks
  <2> QED
    BY <1>2, <2>1, <2>2, <2>3, <2>4, <2>5, <2>6, <2>7, <2>8, <2>9
<1> QED
  BY <1>1, <1>2 DEF Next

(* The inductive invariant holds in every state, when no explicit          *)
(* checkpoint is taken before the first load is over.                      *)
THEOREM InstancesStayRight ==
    ASSUME OneLoad
    PROVE  Spec => []Inv
<1>1. Init => Inv
  BY InitOK
<1>2. Inv /\ [Next]_vars => Inv'
  BY NextKeeps, StutterKeeps
<1> QED
  BY <1>1, <1>2, PTL DEF Spec

(* A checkpoint has every op of the store up to the one loading resumes    *)
(* from, whatever was applied, stored or announced while it was made.      *)
THEOREM CheckpointsHaveNoHoles ==
    ASSUME OneLoad
    PROVE  Spec => []CheckpointHasNoHoles
<1>1. Inv => CheckpointHasNoHoles
  <2> SUFFICES ASSUME Inv PROVE CheckpointHasNoHoles
    OBVIOUS
  <2>1. UpTo(checkpoint.last, checkpoint.applied) /\ checkpoint.applied \subseteq Stored /\ OpsOK /\ StoreOK
    BY DEF Inv, SnapshotOK
  <2> QED
    BY <2>1, StartFacts DEF CheckpointHasNoHoles
<1> QED
  BY <1>1, InstancesStayRight, PTL

(* Every instance and every checkpoint shows a history without holes: its  *)
(* terminal ops are the ends of it, its contents what its ops describe.    *)
THEOREM EveryStateShowsAHistory ==
    ASSUME OneLoad
    PROVE  Spec => []ContentsFollowOps
<1>1. Inv => ContentsFollowOps
  <2> SUFFICES ASSUME Inv, NEW s \in {inst[i] : i \in Instances} \cup {checkpoint} PROVE Shows(s)
    BY ShowsHistory DEF ContentsFollowOps
  <2> QED
    BY DEF Inv, InstanceOK, AppliedOK, SnapshotOK
<1> QED
  BY <1>1, InstancesStayRight, PTL
=============================================================================
