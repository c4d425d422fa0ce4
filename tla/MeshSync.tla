------------------------------ MODULE MeshSync ------------------------------
(***************************************************************************)
(* What a mesh synchronizes in one peer group                              *)
(* (src/mesh/service/Mesh.ts): the usage tokens of the group and of the    *)
(* objects, the objects it was asked for (the roots) and in which mode,    *)
(* the mutable objects it follows because of each, their sync agents, and  *)
(* the ops it watches for when the mode is recursive.                      *)
(*                                                                         *)
(* The tokens are random and never told apart, so they are counted.  An    *)
(* object stands for its hash.  trackOps() and the callback for new ops    *)
(* wait for the store: what they were called with is kept until they go    *)
(* on.  gossips numbers the gossip agents the group had, for both keep the *)
(* one they began with.                                                    *)
(***************************************************************************)
EXTENDS Naturals, FiniteSets

CONSTANTS Objects,   \* that may be synchronized
          Mutable,   \* the mutable ones
          Parts,     \* for each object, the mutable objects in its context
          Ops,       \* the mutation ops
          Target,    \* for each op, the object it is for
          Refers,    \* for each op, the mutable objects in its context
          MaxCalls   \* bound on the calls of the application

Group == "group"   \* the key of the group among those of the objects

ASSUME MeshAssumption ==
  /\ MaxCalls \in Nat /\ Group \notin Objects
  /\ Mutable \subseteq Objects /\ Parts \in [Objects -> SUBSET Mutable]
  /\ \A o \in Mutable : o \in Parts[o]
  /\ Target \in [Ops -> Mutable] /\ Refers \in [Ops -> SUBSET Mutable]
  /\ \A op \in Ops : Parts[Target[op]] \subseteq Refers[op]

VARIABLES usage,    \* the tokens of the group ("group") and of each object
          group,    \* is there a peer group agent?
          gossips,  \* gossip agents there were
          gossip,   \* is the last of them registered?
          sync,     \* the maps of the mesh, see Init
          stored,   \* the ops in the store
          loading,  \* the callbacks that load an op: <<gossip agent, op>>
          heard,    \* <<op, root>>: the op came while the root followed its target
          late,     \* has work begun for a root changed anything after it had gone?
          calls
usages == <<usage, group, gossips, gossip, calls>>
vars   == <<usages, sync, stored, loading, heard, late>>

Modes == {"single", "full", "recursive"}

\* The maps, when there were g gossip agents.
MapsType(g) ==
  [roots    : [Objects -> Modes \cup {"none"}],
   follows  : SUBSET (Objects \X Mutable),
   agents   : SUBSET Mutable,
   tracked  : SUBSET ((1..g) \X Mutable),
   watched  : SUBSET (Mutable \X (1..g)),
   tracking : SUBSET ((1..g) \X Mutable \X Objects)]

TypeOK ==
  /\ usage \in [Objects \cup {Group} -> 0..MaxCalls]
  /\ group \in BOOLEAN /\ gossip \in BOOLEAN /\ late \in BOOLEAN
  /\ gossips \in 0..MaxCalls /\ calls \in 0..MaxCalls
  /\ sync \in MapsType(gossips)
  /\ stored \subseteq Ops /\ loading \subseteq (1..gossips) \X Ops
  /\ heard \subseteq Ops \X Objects

Init ==
  /\ usage = [k \in Objects \cup {Group} |-> 0]
  /\ group = FALSE /\ gossips = 0 /\ gossip = FALSE /\ calls = 0
  /\ sync = [roots    |-> [o \in Objects |-> "none"],
             follows  |-> {},   \* <<root, object synchronized because of it>>
             agents   |-> {},   \* the objects that have a sync agent
             tracked  |-> {},   \* <<gossip agent, object whose state it gossips>>
             watched  |-> {},   \* <<object, the gossip agent its callback keeps>>
             tracking |-> {}]   \* the calls of trackOps() that wait
  /\ stored \in SUBSET Ops
  /\ loading = {} /\ heard = {} /\ late = FALSE

-----------------------------------------------------------------------------
(* The maps.                                                               *)

\* mutant: an object is released though another root follows it.
OwnModeOnly(roots, follows, o) == {roots[o]} \ {"none"}
\* getAllModesForObject()
AllModes(roots, follows, o) ==
  {roots[r] : r \in {o} \cup {r \in Objects : <<r, o>> \in follows}} \ {"none"}

\* addSingleObjectSync(), for each of a set of objects
AddSingle(s, g, objs) ==
  [s EXCEPT !.agents  = @ \cup objs,
            !.tracked = @ \cup ({g} \X (objs \ s.agents))]

Watched(s) == {w[1] : w \in s.watched}

\* addFullObjectSync(), for an object or an op with these mutable objects in
\* its context and for each of the roots
AddFull(s, g, parts, roots, mode) ==
  LET ops == IF mode = "recursive" THEN parts ELSE {} IN
  [AddSingle(s, g, parts) EXCEPT
     !.follows  = @ \cup (roots \X parts),
     !.watched  = @ \cup ((ops \ Watched(s)) \X {g}),
     !.tracking = @ \cup ({g} \X ops \X roots)]
\* ... which does nothing for an object the root follows already.
AddObject(s, g, o, root, mode) ==
  IF <<root, o>> \in s.follows THEN s ELSE AddFull(s, g, Parts[o], {root}, mode)

\* addRootSync(), when the object is not a root; a single sync of what is not
\* mutable throws, with the root in place.
AddRoot(s, g, o, mode) ==
  LET named == [s EXCEPT !.roots[o] = mode] IN
  CASE mode # "single"                  -> AddObject(named, g, o, o, mode)
    [] mode = "single" /\ o \in Mutable -> AddSingle(named, g, {o})
    [] OTHER                            -> named

\* mutant: what no root follows recursively any more is watched on.
NoneUnwatched(roots, follows, objs) == {}
\* mutant: the ops of what a recursive root still follows are not watched any more.
AllUnwatched(roots, follows, objs) == objs
\* removeFullObjectSync() (which of the objects are unwatched)
Unwatched(roots, follows, objs) == {o \in objs : "recursive" \notin AllModes(roots, follows, o)}

\* removeSingleObjectSync(), for those of a set of objects nothing asks for any more
RemoveSingle(s, g, objs) ==
  LET freed == {o \in objs : AllModes(s.roots, s.follows, o) = {}} IN
  [s EXCEPT !.agents = @ \ freed, !.tracked = @ \ ({g} \X (freed \cap s.agents))]

\* removeFullObjectSync(), when the object is not a root any more
RemoveFull(s, g, o, mode) ==
  LET closure == {d \in Mutable : <<o, d>> \in s.follows}
      left    == [s EXCEPT !.follows = @ \ ({o} \X closure)]
      dropped == IF mode = "recursive" THEN Unwatched(left.roots, left.follows, closure) ELSE {}
  IN  [RemoveSingle(left, g, closure) EXCEPT !.watched = {w \in @ : w[1] \notin dropped}]

\* removeRootSync()
RemoveRoot(s, g, o) ==
  LET unnamed == [s EXCEPT !.roots[o] = "none"] IN
  CASE s.roots[o] = "none"   -> s
    [] s.roots[o] = "single" -> RemoveSingle(unnamed, g, {o})
    [] OTHER                 -> RemoveFull(unnamed, g, o, s.roots[o])

-----------------------------------------------------------------------------
(* The calls of the application.                                           *)

Call == calls < MaxCalls /\ calls' = calls + 1

JoinPeerGroup ==
  /\ Call /\ group' = TRUE /\ usage' = [usage EXCEPT ![Group] = @ + 1]
  /\ UNCHANGED <<gossips, gossip, sync, stored, loading, heard, late>>

LeavePeerGroup ==
  /\ Call /\ usage[Group] > 0 /\ usage' = [usage EXCEPT ![Group] = @ - 1]
  /\ group' = (usage[Group] > 1)
  /\ UNCHANGED <<gossips, gossip, sync, stored, loading, heard, late>>

\* syncObjectWithPeerGroup(): it throws when the group was not joined or the
\* object is synchronized in another mode.
SyncObject(o, mode) ==
  /\ Call /\ group /\ sync.roots[o] \in {"none", mode}
  /\ gossip' = TRUE /\ gossips' = (IF gossip THEN gossips ELSE gossips + 1)
  /\ sync' = IF sync.roots[o] = "none" THEN AddRoot(sync, gossips', o, mode) ELSE sync
  /\ usage' = IF mode = "single" /\ o \notin Mutable /\ sync.roots[o] = "none"
              THEN usage ELSE [usage EXCEPT ![o] = @ + 1]
  /\ UNCHANGED <<group, stored, loading, heard, late>>

\* stopSyncObjectWithPeerGroup()
StopSyncObject(o) ==
  /\ Call /\ usage[o] > 0 /\ usage' = [usage EXCEPT ![o] = @ - 1]
  /\ IF usage[o] = 1 /\ gossip
     THEN /\ sync' = RemoveRoot(sync, gossips, o)
          /\ gossip' = (\E r \in Objects : sync'.roots[r] # "none")
          /\ heard' = {h \in heard : h[2] # o}
     ELSE UNCHANGED <<sync, gossip, heard>>
  /\ UNCHANGED <<group, gossips, stored, loading, late>>

-----------------------------------------------------------------------------
(* The store.                                                              *)

\* Does something that began under gossip agent g for the root change the maps
\* though the root, or that agent, is gone?
TooLate(g, root) == ~ gossip \/ g # gossips \/ sync.roots[root] # "recursive"

\* An op is stored: the callback of its target, if it is watched, starts to load it.
NewOp(op) ==
  /\ op \notin stored /\ stored' = stored \cup {op}
  /\ loading' = loading \cup {<<w[2], op>> : w \in {w \in sync.watched : w[1] = Target[op]}}
  /\ heard' = heard \cup
       {<<op, r>> : r \in {r \in Objects : /\ sync.roots[r] = "recursive"
                                           /\ <<r, Target[op]>> \in sync.follows}}
  /\ UNCHANGED <<usages, sync, late>>

\* trackOps() goes on: for each op of the object in the store it asks for the
\* object itself, not for the op.
TrackOps(g, o, root) ==
  LET waiting == [sync EXCEPT !.tracking = @ \ {<<g, o, root>>}]
      found   == \E op \in stored : Target[op] = o
  IN  /\ <<g, o, root>> \in sync.tracking
      /\ sync' = IF found THEN AddObject(waiting, g, o, root, "recursive") ELSE waiting
      /\ late' = (late \/ (found /\ <<root, o>> \notin sync.follows /\ TooLate(g, root)))
      /\ UNCHANGED <<usages, stored, loading, heard>>

\* The callback of watchForNewOps() goes on, for the roots that follow the
\* target by now.
Asking(op) == {r \in Objects : <<r, Target[op]>> \in sync.follows /\ sync.roots[r] = "recursive"}
NewOpLoaded(g, op) ==
  LET roots == Asking(op) IN
  /\ <<g, op>> \in loading /\ loading' = loading \ {<<g, op>>}
  /\ sync' = IF roots = {} THEN sync ELSE AddFull(sync, g, Refers[op], roots, "recursive")
  /\ late' = (late \/ (roots # {} /\ \E r \in roots : TooLate(g, r)))
  /\ UNCHANGED <<usages, stored, heard>>

Next ==
  \/ JoinPeerGroup
  \/ LeavePeerGroup
  \/ \E o \in Objects, mode \in Modes : SyncObject(o, mode)
  \/ \E o \in Objects : StopSyncObject(o)
  \/ \E op \in Ops : NewOp(op)
  \/ \E t \in sync.tracking : TrackOps(t[1], t[2], t[3])
  \/ \E l \in loading : NewOpLoaded(l[1], l[2])
Spec == Init /\ [][Next]_vars

-----------------------------------------------------------------------------
(* As long as no pending work has outlived the root it was for (late), the *)
(* tokens and the agents agree: what is used is synchronized, and only that. *)

\* An object somebody holds a token of is a root, every mutable object it
\* stands for has its sync agent, and the gossip agent of the group gossips its state.
UsedIsSynced ==
  ~ late => \A o \in Objects : usage[o] > 0 =>
    LET wanted == IF sync.roots[o] = "single" THEN {o} \cap Mutable ELSE Parts[o] IN
    /\ sync.roots[o] # "none" /\ gossip
    /\ wanted \subseteq sync.agents
    /\ {gossips} \X wanted \subseteq sync.tracked

\* What no token needs has been released: a sync agent is there for a token
\* of the object or of a root that follows it, the ops of an object are
\* watched for a root that follows it recursively, and the gossip agent
\* gossips nothing else.
UnusedIsReleased ==
  ~ late =>
    /\ \A o \in sync.agents : \E r \in Objects :
         usage[r] > 0 /\ (r = o \/ <<r, o>> \in sync.follows)
    /\ \A o \in Watched(sync) : \E r \in Objects :
         usage[r] > 0 /\ sync.roots[r] = "recursive" /\ <<r, o>> \in sync.follows
    /\ gossip => {t[2] : t \in {t \in sync.tracked : t[1] = gossips}} \subseteq sync.agents

SyncedWhileUsed == UsedIsSynced /\ UnusedIsReleased

\* An op that came while a recursive root followed its target is followed
\* itself, once its callback is through: the objects in its context have
\* their agents, and their own ops are watched.
NewOpsAreFollowed ==
  ~ late => \A h \in heard :
    \/ \E l \in loading : l[2] = h[1]
    \/ /\ {h[2]} \X Refers[h[1]] \subseteq sync.follows
       /\ Refers[h[1]] \subseteq sync.agents \cap Watched(sync)
=============================================================================
