--------------------------- MODULE MutableObject ---------------------------
(***************************************************************************)
(* The instances of one mutable object over one store                      *)
(* (src/data/model/mutable/MutableObject.ts): how they apply new ops, save *)
(* them, load what is in the store, follow what arrives there, and take    *)
(* and restore checkpoints.                                                *)
(*                                                                         *)
(* The store is the sequence of its ops, in the order in which an instance *)
(* loads them; what it generates itself is in ObjectStore.  An op is a     *)
(* number; undoes has, for an undo or redo op, the op it was generated for *)
(* (0 for any other).  What an object holds is abstracted to the set of    *)
(* ops in effect, which is what mutate() is told.                          *)
(*                                                                         *)
(* Each instance runs its asynchronous calls side by side: loading all     *)
(* changes, saving, applying what the store announces, the checkpoint      *)
(* timer and the explicit checkpoint.  A step runs from one await to the   *)
(* next.                                                                   *)
(***************************************************************************)
EXTENDS Integers, Sequences, FiniteSets, SequencesExt

CONSTANTS Instances,  \* of the object, in one or several tabs
          Roles,      \* what is done with each: the sets of those that are
                      \* loaded, watching, changed, with checkpoint timers, asked
                      \* for a checkpoint; ops, the bound on the ops in all
          Freq,       \* ops after which loading takes a checkpoint
          OneLoad     \* no explicit checkpoint before the first load is over

ASSUME ObjectAssumption == Freq \in Nat /\ OneLoad \in BOOLEAN

VARIABLES role,
          prev, undoes,       \* the ops there are
          stored, checkpoint, \* the store
          inst,               \* the state of each instance
          load, saving, arriving, lock, timer, explicit  \* its running calls
store == <<role, prev, undoes, stored, checkpoint>>
calls == <<load, saving, arriving, lock, timer, explicit>>
vars  == <<store, inst, calls>>

-----------------------------------------------------------------------------
None   == 0
Ops    == DOMAIN prev
Stored == Range(stored)
IsUndo(o)  == undoes[o] # None /\ undoes[undoes[o]] = None
IsRedo(o)  == undoes[o] # None /\ undoes[undoes[o]] # None
FinalTarget(o) == IF IsRedo(o) THEN undoes[undoes[o]] ELSE undoes[o]
\* The index of the ops of the object.
Place(o)   == IF o \in Stored THEN CHOOSE i \in DOMAIN stored : stored[i] = o ELSE 0

\* startOn: the search begins at the given op itself, or at the beginning.
StartOn(o) == IF o = None THEN 1 ELSE Place(o)

\* apply(): the synchronous part, up to the promise of mutate().
Valid(s, o) == \A p \in s.active : p[1] # o
\* mutant: a redo removes itself, instead of the undo it is for.
InvalidatedItself(s, o) ==
  CASE IsUndo(o) -> s.active \cup {<<FinalTarget(o), o>>}
    [] IsRedo(o) -> s.active \ {<<FinalTarget(o), o>>}
    [] OTHER     -> s.active
Invalidated(s, o) ==
  CASE IsUndo(o) -> s.active \cup {<<FinalTarget(o), o>>}
    [] IsRedo(o) -> s.active \ {<<FinalTarget(o), undoes[o]>>}
    [] OTHER     -> s.active
Mutated(s, o, active) ==
  LET target == IF undoes[o] = None THEN o ELSE FinalTarget(o)
      now    == undoes[o] = None \/ \A p \in active : p[1] # target
  IN  IF undoes[o] # None /\ now = Valid(s, target) THEN s.contents
      ELSE IF now THEN s.contents \cup {target} ELSE s.contents \ {target}
Apply(s, o) ==
  IF o \in s.applied THEN s
  ELSE [s EXCEPT !.terminal = (@ \ prev[o]) \cup {o},
                 !.applied  = @ \cup {o},
                 !.active   = Invalidated(s, o),
                 !.contents = Mutated(s, o, Invalidated(s, o))]

CanApply(s, o) == prev[o] \subseteq s.applied

\* createCheckpoint() and what restoreCheckpoint() takes from one.
Snapshot(s) ==
  [terminal |-> s.terminal, last |-> s.last, count |-> s.count,
   applied  |-> s.applied, active |-> s.active, contents |-> s.contents]
Restored(s, c) ==
  [s EXCEPT !.terminal = c.terminal, !.applied = c.applied, !.active = c.active,
            !.contents = c.contents, !.last = c.last, !.lastAtCheckpoint = c.last,
            !.count = c.count, !.countAtCheckpoint = c.count]
Checkpointed(s, c) == [s EXCEPT !.lastAtCheckpoint = c.last, !.countAtCheckpoint = c.count]
NoCheckpoint == [terminal |-> {}, last |-> None, count |-> -1,
                 applied |-> {}, active |-> {}, contents |-> {}]

-----------------------------------------------------------------------------
NoLoad  == [pc |-> "no", found |-> NoCheckpoint, next |-> 1, applying |-> None, before |-> 0]
NoTimer == [set |-> "no", on |-> FALSE, since |-> None, check |-> NoCheckpoint, hashes |-> <<>>]

\* setAutoCheckpointTimers(): once enough ops were loaded since the last
\* checkpoint one of the two timers is set; a set op timer stays.
SetTimers(t, s) ==
  IF s.applied = {} THEN t
  ELSE [t EXCEPT !.set =
         IF @ = "ops" \/ s.count - s.countAtCheckpoint > Freq THEN "ops"
         ELSE IF s.count > s.countAtCheckpoint THEN "inactivity" ELSE "no"]
Cleared(t) == [t EXCEPT !.set = "no"]

\* A new instance.
Fresh == [terminal |-> {}, applied |-> {}, active |-> {}, contents |-> {},
          unsaved |-> <<>>, unapplied |-> {}, last |-> None, count |-> 0,
          lastAtCheckpoint |-> None, countAtCheckpoint |-> 0, loaded |-> FALSE]

Init ==
  /\ role \in Roles
  /\ prev = <<>> /\ undoes = <<>> /\ stored = <<>> /\ checkpoint = NoCheckpoint
  /\ inst     = [i \in Instances |-> Fresh]
  /\ load     = [i \in Instances |-> [u \in {"app", "explicit"} |-> NoLoad]]
  /\ saving   = [i \in Instances |-> None]
  /\ arriving = [i \in Instances |-> {}]
  /\ lock     = [i \in Instances |-> FALSE]
  /\ timer    = [i \in Instances |-> NoTimer]
  /\ explicit = [i \in Instances |-> "no"]

\* watchForChanges(): the instance is told of what is stored.
Watches(i) == i \in role.watching

\* backend.store() and the callbacks of the store: every instance that watches
\* the object and does not know the op begins to load it.
Announce(o) ==
  arriving' = [i \in Instances |->
    IF Watches(i) /\ o \notin inst[i].applied \cup inst[i].unapplied
    THEN arriving[i] \cup {o} ELSE arriving[i]]
Store(o) ==
  IF o \in Stored THEN UNCHANGED <<stored, arriving>>
  ELSE stored' = Append(stored, o) /\ Announce(o)

\* The synchronizer, or the store itself, saves an op from elsewhere: one that
\* was created on all of the stored ops or on none, or the undo or redo of one of them.
NewOp(p, u) == prev' = Append(prev, p) /\ undoes' = Append(undoes, u)
Heads(S) == {o \in S : \A p \in S : o \notin prev[p]}
Receive ==
  /\ Len(prev) < role.ops
  /\ \E u \in {None} \cup {o \in Stored : ~ IsRedo(o) /\ \A p \in Ops : undoes[p] # o} :
       \E seen \in {{}, Stored} :
         NewOp(IF u # None THEN {u} ELSE Heads(seen), u)
  /\ stored' = Append(stored, Len(prev'))
  /\ Announce(Len(prev'))
  /\ UNCHANGED <<role, checkpoint, inst, load, saving, lock, timer, explicit>>

-----------------------------------------------------------------------------
(* Changing and saving.                                                    *)

\* applyNewOp(): the op comes after the terminal ops of the instance.
Created(s, o) == [s EXCEPT !.terminal = {o}, !.applied = @ \cup {o},
                           !.contents = @ \cup {o}, !.unsaved = Append(@, o)]
ApplyNewOp(i) ==
  LET o == Len(prev) + 1 IN
  /\ i \in role.changed /\ o <= role.ops
  /\ NewOp(inst[i].terminal, None)
  /\ inst' = [inst EXCEPT ![i] = Created(@, o)]
  /\ UNCHANGED <<role, stored, checkpoint, calls>>

\* saveAllChanges() up to its first await, for the application or for an explicit
\* checkpoint.
SaveAllChanges(i) ==
  /\ saving[i] = None /\ inst[i].unsaved # <<>>
  /\ saving' = [saving EXCEPT ![i] = Head(inst[i].unsaved)]
  /\ UNCHANGED <<store, inst, load, arriving, lock, timer, explicit>>

\* store.save() of the first unsaved op.
StoreOp(i) ==
  /\ saving[i] # None /\ saving[i] \notin Stored
  /\ Store(saving[i])
  /\ UNCHANGED <<role, prev, undoes, checkpoint, inst, load, saving, lock, timer, explicit>>

\* ... and what follows it: another save may have removed the op meanwhile.
OpSaved(i) ==
  /\ saving[i] \in Stored
  /\ LET left == IF saving[i] = Head(inst[i].unsaved) THEN Tail(inst[i].unsaved)
                 ELSE inst[i].unsaved
     IN  /\ inst' = [inst EXCEPT ![i].unsaved = left]
         /\ saving' = [saving EXCEPT ![i] = IF left = <<>> THEN None ELSE Head(left)]
         /\ timer' = [timer EXCEPT ![i] = IF left = <<>> THEN SetTimers(@, inst[i]) ELSE @]
  /\ UNCHANGED <<store, load, arriving, lock, explicit>>

-----------------------------------------------------------------------------
(* Following the store.                                                    *)

\* applyPendingOpsFromStore() from one await to the next: it applies an op all of
\* whose past has been applied, and holds the lock until there is none.
Applicable(s) == {o \in s.unapplied : CanApply(s, o)}
\* mutant: one pass over the ops that are waiting.
GoOnce(s) == FALSE
GoOn(s)   == Applicable(s) # {}
ApplyPending(i, s) ==
  /\ lock' = [lock EXCEPT ![i] = GoOn(s)]
  /\ IF Applicable(s) = {} THEN inst' = [inst EXCEPT ![i] = s]
     ELSE \E o \in Applicable(s) :
            inst' = [inst EXCEPT ![i] = [Apply(s, o) EXCEPT !.unapplied = @ \ {o}]]

\* applyOpFromStore(): the op has been read.  Who does not get the lock leaves it
\* to the loop under way.
ApplyOpFromStore(i, o) ==
  LET s == [inst[i] EXCEPT !.unapplied = @ \cup {o}] IN
  /\ o \in arriving[i]
  /\ arriving' = [arriving EXCEPT ![i] = @ \ {o}]
  /\ IF lock[i] THEN inst' = [inst EXCEPT ![i] = s] /\ UNCHANGED lock
     ELSE ApplyPending(i, s)
  /\ UNCHANGED <<store, load, saving, timer, explicit>>

ContinuePending(i) ==
  /\ lock[i]
  /\ ApplyPending(i, inst[i])
  /\ UNCHANGED <<store, load, saving, arriving, timer, explicit>>

-----------------------------------------------------------------------------
(* Loading.  Load u of instance i is the application's or an explicit      *)
(* checkpoint's.                                                           *)

SetLoad(i, u, l) == load' = [load EXCEPT ![i][u] = l]
OthersIdle == UNCHANGED <<role, prev, undoes, stored, saving, arriving, lock>>

\* loadAllChanges() up to its first await: the checkpoint is looked for when
\* nothing has been applied.
BeginLoad(i) == [NoLoad EXCEPT !.before = inst[i].count,
                               !.pc = IF inst[i].applied = {} THEN "checkpoint" ELSE "search",
                               !.next = StartOn(inst[i].last)]
LoadAllChanges(i) ==
  /\ i \in role.loaded /\ load[i]["app"].pc = "no" /\ ~ inst[i].loaded
  /\ SetLoad(i, "app", BeginLoad(i))
  /\ UNCHANGED <<checkpoint, inst, timer, explicit>> /\ OthersIdle

\* loadLastCheckpoint() answers; it is looked at again whether ops were applied.
LoadLastCheckpoint(i, u) ==
  /\ load[i][u].pc = "checkpoint"
  /\ SetLoad(i, u, IF checkpoint # NoCheckpoint /\ inst[i].applied = {}
                   THEN [load[i][u] EXCEPT !.pc = "restore", !.found = checkpoint]
                   ELSE [load[i][u] EXCEPT !.pc = "search", !.next = StartOn(inst[i].last)])
  /\ UNCHANGED <<checkpoint, inst, timer, explicit>> /\ OthersIdle

\* restoreCheckpoint(): once its terminal ops have been read, it replaces the
\* state of the instance, whatever has been applied meanwhile.
RestoreCheckpoint(i, u) ==
  LET c == load[i][u].found IN
  /\ load[i][u].pc = "restore"
  /\ inst' = [inst EXCEPT ![i] = Restored(@, c)]
  /\ SetLoad(i, u, [load[i][u] EXCEPT !.pc = "search", !.next = StartOn(c.last)])
  /\ UNCHANGED <<checkpoint, timer, explicit>> /\ OthersIdle

\* The next op of the index is applied.  (The index only grows at its end: how
\* many ops are read at a time makes no difference.)
LoadOp(i, u) ==
  LET l == load[i][u] IN
  /\ l.pc = "search" /\ l.next <= Len(stored)
  /\ LET o == stored[l.next] IN
     /\ inst' = [inst EXCEPT ![i] = Apply(@, o)]
     /\ SetLoad(i, u, [l EXCEPT !.pc = "applying", !.next = @ + 1,
                                !.applying = IF o \in inst[i].applied THEN None ELSE o])
  /\ UNCHANGED <<checkpoint, timer, explicit>> /\ OthersIdle

\* ... and counted, if it was this load that applied it.
Counted(s, o) == IF o = None THEN s ELSE [s EXCEPT !.last = o, !.count = @ + 1]
OpLoaded(i, u) ==
  LET l == load[i][u] IN
  /\ l.pc = "applying"
  /\ inst' = [inst EXCEPT ![i] = Counted(@, l.applying)]
  /\ SetLoad(i, u, [l EXCEPT !.pc = "search", !.applying = None])
  /\ UNCHANGED <<checkpoint, timer, explicit>> /\ OthersIdle

\* There is nothing more: enough ops, all of them loaded, make a checkpoint.
DueCheckpoint(i) ==
  /\ inst[i].count = Cardinality(inst[i].applied)
  /\ inst[i].count - inst[i].countAtCheckpoint >= Freq
EndLoad(i, u) ==
  /\ load[i][u].pc = "search" /\ load[i][u].next > Len(stored)
  /\ SetLoad(i, u, NoLoad)
  /\ IF DueCheckpoint(i)
     THEN /\ checkpoint' = Snapshot(inst[i])
          /\ inst' = [inst EXCEPT ![i] = [Checkpointed(@, Snapshot(@)) EXCEPT !.loaded = TRUE]]
          /\ UNCHANGED timer
     ELSE /\ inst' = [inst EXCEPT ![i].loaded = TRUE]
          /\ timer' = [timer EXCEPT ![i] = IF inst[i].count > load[i][u].before
                                           THEN SetTimers(@, inst[i]) ELSE @]
          /\ UNCHANGED checkpoint
  /\ explicit' = [explicit EXCEPT ![i] = IF u = "explicit" THEN "loaded" ELSE @]
  /\ OthersIdle

-----------------------------------------------------------------------------
(* Checkpoints.                                                            *)

\* saveCheckpoint(): save and load until nothing is unsaved after a load.
SaveCheckpoint(i) ==
  /\ i \in role.explicit /\ explicit[i] = "no"
  /\ OneLoad => inst[i].loaded
  /\ timer' = [timer EXCEPT ![i] = Cleared(@)]
  /\ IF inst[i].unsaved = <<>>
     THEN explicit' = [explicit EXCEPT ![i] = "loading"] /\ SetLoad(i, "explicit", BeginLoad(i))
     ELSE explicit' = [explicit EXCEPT ![i] = "saving"] /\ UNCHANGED load
  /\ UNCHANGED <<checkpoint, inst>> /\ OthersIdle

\* saveQueuedOps() has returned.
ExplicitSaved(i) ==
  /\ explicit[i] = "saving" /\ inst[i].unsaved = <<>>
  /\ explicit' = [explicit EXCEPT ![i] = "loading"]
  /\ SetLoad(i, "explicit", BeginLoad(i))
  /\ UNCHANGED <<checkpoint, inst, timer>> /\ OthersIdle

\* loadAllChanges() has returned.
ExplicitLoaded(i) ==
  /\ explicit[i] = "loaded"
  /\ IF inst[i].unsaved = <<>>
     THEN /\ checkpoint' = Snapshot(inst[i])
          /\ inst' = [inst EXCEPT ![i] = Checkpointed(@, Snapshot(@))]
          /\ explicit' = [explicit EXCEPT ![i] = "done"]
     ELSE explicit' = [explicit EXCEPT ![i] = "saving"] /\ UNCHANGED <<checkpoint, inst>>
  /\ UNCHANGED <<load, timer>> /\ OthersIdle

\* loadOpHashes(): the index from an op on.
OpHashes(since) == SubSeq(stored, StartOn(since), Len(stored))

\* A checkpoint timer fires.  Unless all that is applied was loaded in order, the
\* store is asked for the ops since the last checkpoint.
TimerFires(i) ==
  LET s == inst[i]
      t == Cleared(timer[i]) IN
  /\ i \in role.timed /\ timer[i].set # "no" /\ ~ timer[i].on
  /\ IF s.unsaved # <<>>
     THEN timer' = [timer EXCEPT ![i] = SetTimers(t, s)] /\ UNCHANGED <<checkpoint, inst>>
     ELSE IF Cardinality(s.applied) <= s.countAtCheckpoint
     THEN timer' = [timer EXCEPT ![i] = t] /\ UNCHANGED <<checkpoint, inst>>
     ELSE IF s.count = Cardinality(s.applied)
     THEN /\ timer' = [timer EXCEPT ![i] = t]
          /\ checkpoint' = Snapshot(s)
          /\ inst' = [inst EXCEPT ![i] = Checkpointed(@, Snapshot(s))]
     ELSE /\ timer' = [timer EXCEPT ![i] =
               [t EXCEPT !.on = TRUE, !.since = s.lastAtCheckpoint, !.check = Snapshot(s),
                         !.hashes = OpHashes(s.lastAtCheckpoint)]]
          /\ UNCHANGED <<checkpoint, inst>>
  /\ UNCHANGED <<load, explicit>> /\ OthersIdle

\* ... which it answers with: the checkpoint is good when no other was made, the
\* instance has not changed and it has all of them.
SameState(s, t) == Cardinality(s.applied) = Cardinality(t.check.applied)
\* mutant: what the store has received meanwhile is not compared.
HasSome(s, t)   == TRUE
HasAll(s, t)    == Range(t.hashes) \subseteq s.applied
Amended(t) == IF t.hashes = <<>> THEN t.check ELSE [t.check EXCEPT !.last = Last(t.hashes)]
TimerHashes(i) ==
  LET s == inst[i]
      t == timer[i]
      done == [NoTimer EXCEPT !.set = t.set] IN
  /\ t.on
  /\ IF t.since = s.lastAtCheckpoint /\ SameState(s, t) /\ HasAll(s, t)
     THEN /\ checkpoint' = Amended(t)
          /\ inst' = [inst EXCEPT ![i] = Checkpointed(@, Amended(t))]
     ELSE UNCHANGED <<checkpoint, inst>>
  /\ timer' = [timer EXCEPT ![i] = IF t.since = s.lastAtCheckpoint /\ ~ SameState(s, t)
                                   THEN SetTimers(done, s) ELSE done]
  /\ UNCHANGED <<load, explicit>> /\ OthersIdle

-----------------------------------------------------------------------------
Loads(i) == \E u \in {"app", "explicit"} :
  \/ LoadLastCheckpoint(i, u) \/ RestoreCheckpoint(i, u)
  \/ LoadOp(i, u) \/ OpLoaded(i, u) \/ EndLoad(i, u)
Follows(i) == (\E o \in Ops : ApplyOpFromStore(i, o)) \/ ContinuePending(i)
Checks(i)  == ExplicitSaved(i) \/ ExplicitLoaded(i) \/ TimerHashes(i)
Saves(i)   == StoreOp(i) \/ OpSaved(i)

Next ==
  \/ Receive
  \/ \E i \in Instances :
       \/ ApplyNewOp(i) \/ SaveAllChanges(i) \/ LoadAllChanges(i) \/ SaveCheckpoint(i) \/ TimerFires(i)
       \/ Saves(i) \/ Follows(i) \/ Loads(i) \/ Checks(i)

Spec == Init /\ [][Next]_vars
LiveSpec == Spec /\ \A i \in Instances :
  WF_vars(Saves(i)) /\ WF_vars(SaveAllChanges(i)) /\ WF_vars(Follows(i)) /\ WF_vars(Loads(i)) /\ WF_vars(LoadAllChanges(i))

-----------------------------------------------------------------------------
\* A checkpoint has every op of the store up to the one loading resumes from: an
\* instance restored from it will not look for them again.
CheckpointHasNoHoles ==
  /\ {stored[k] : k \in 1..Place(checkpoint.last)} \subseteq checkpoint.applied
  /\ checkpoint.applied \subseteq Stored

Undone(S, o) == \E u \in S : IsUndo(u) /\ undoes[u] = o /\ \A r \in S : undoes[r] # u
\* However it was reached, the state shows a history: nothing is applied without
\* what it comes after, the terminal ops, which the next op will come after, are
\* its ends, and the contents are what its ops describe.
ContentsFollowOps ==
  \A s \in {inst[i] : i \in Instances} \cup {checkpoint} :
    /\ \A o \in s.applied : prev[o] \subseteq s.applied
    /\ s.terminal = Heads(s.applied)
    /\ s.contents = {o \in s.applied : undoes[o] = None /\ ~ Undone(s.applied, o)}

\* An instance that watches gets everything that is stored, and so does one that
\* is loading.
FollowsTheStore ==
  \A i \in Instances : []<>(Watches(i) => Stored \subseteq inst[i].applied)
=============================================================================
