-------------------------- MODULE RemoteMeshProofs --------------------------
(***************************************************************************)
(* What a mesh synchronizes is what the tokens of the application ask for, *)
(* as long as no pending work has outlived its root, for every set of      *)
(* objects, contexts and ops.                                              *)
(*                                                                         *)
(* The maps of the mesh say the same thing several times over: what a root *)
(* follows, what has an agent, what the gossip agent tracks and what is    *)
(* watched.  MapsAgree(s, g) is that they agree, of maps s under gossip    *)
(* agent g; every helper of Mesh.ts keeps it.                              *)
(*                                                                         *)
(* A mesh that is used through a proxy is a mesh (RemoteSpec implements    *)
(* the Spec of MeshSync), and the observers of the page are told the state *)
(* of their objects, when the application gives a peer group and adds each *)
(* function for one object only.  What is proved of the observers needs to *)
(* know the channels: which commands may still be on their way, what an    *)
(* observer will have heard when the replies have arrived (Hears).         *)
(***************************************************************************)
EXTENDS RemoteMesh, FiniteSetTheorems, SequenceTheorems, TLAPS

RootsFollow(s) ==
    \A r \in Objects : s.roots[r] \in {"full", "recursive"} =>
        \A o \in Parts[r] : <<r, o>> \in s.follows

RootsOnly(s) ==
    \A r \in Objects, o \in Mutable :
        <<r, o>> \in s.follows => s.roots[r] \in {"full", "recursive"}

Asked(s, o) == s.roots[o] # "none" \/ \E r \in Objects : <<r, o>> \in s.follows

AskedForOps(s, o) == \E r \in Objects : s.roots[r] = "recursive" /\ <<r, o>> \in s.follows

AgentsExact(s)     == \A o \in Mutable : o \in s.agents <=> Asked(s, o)
TrackedExact(s, g) == \A o \in Mutable : <<g, o>> \in s.tracked <=> o \in s.agents
WatchedExact(s)    == \A o \in Mutable : o \in Watched(s) <=> AskedForOps(s, o)

MapsAgree(s, g) ==
    RootsFollow(s) /\ RootsOnly(s) /\ AgentsExact(s) /\ TrackedExact(s, g) /\ WatchedExact(s)

-----------------------------------------------------------------------------
(* The helpers, field by field.                                            *)

LEMMA MeshFacts ==
    /\ Mutable \subseteq Objects
    /\ \A o \in Objects : Parts[o] \subseteq Mutable
    /\ \A o \in Mutable : o \in Parts[o]
    /\ \A op \in Ops : Target[op] \in Mutable /\ Refers[op] \subseteq Mutable
BY MeshAssumption

LEMMA ModesOfObject ==
    ASSUME NEW roots, NEW follows, NEW o
    PROVE  /\ AllModes(roots, follows, o) = {} <=>
                roots[o] = "none" /\ \A r \in Objects : <<r, o>> \in follows => roots[r] = "none"
           /\ "recursive" \in AllModes(roots, follows, o) <=>
                roots[o] = "recursive" \/ \E r \in Objects : <<r, o>> \in follows /\ roots[r] = "recursive"
BY DEF AllModes

Added(t, m, s, g, parts, roots, mode) ==
    /\ t \in MapsType(m)
    /\ t.roots = s.roots
    /\ t.follows = s.follows \cup (roots \X parts)
    /\ t.agents = s.agents \cup parts
    /\ t.tracked = s.tracked \cup ({g} \X (parts \ s.agents))
    /\ Watched(t) = Watched(s) \cup IF mode = "recursive" THEN parts ELSE {}

LEMMA AddFullFields ==
    ASSUME NEW m \in Nat, NEW g \in 1..m, NEW s \in MapsType(m),
           NEW parts \in SUBSET Mutable, NEW roots \in SUBSET Objects, NEW mode
    PROVE  Added(AddFull(s, g, parts, roots, mode), m, s, g, parts, roots, mode)
<1> DEFINE t   == AddFull(s, g, parts, roots, mode)
           ops == IF mode = "recursive" THEN parts ELSE {}
           u   == AddSingle(s, g, parts)
<1>1. s = [roots |-> s.roots, follows |-> s.follows, agents |-> s.agents,
           tracked |-> s.tracked, watched |-> s.watched, tracking |-> s.tracking]
  BY DEF MapsType
<1>2. u = [s EXCEPT !.agents = s.agents \cup parts,
                    !.tracked = s.tracked \cup ({g} \X (parts \ s.agents))]
  BY DEF AddSingle
<1>3. u = [roots |-> s.roots, follows |-> s.follows, agents |-> s.agents \cup parts,
           tracked |-> s.tracked \cup ({g} \X (parts \ s.agents)),
           watched |-> s.watched, tracking |-> s.tracking]
  BY <1>1, <1>2
<1>4. t = [u EXCEPT !.follows  = u.follows \cup (roots \X parts),
                    !.watched  = u.watched \cup ((ops \ Watched(s)) \X {g}),
                    !.tracking = u.tracking \cup ({g} \X ops \X roots)]
  BY DEF AddFull
<1> HIDE DEF u, t
<1>5. t = [roots |-> s.roots, follows |-> s.follows \cup (roots \X parts),
           agents |-> s.agents \cup parts,
           tracked |-> s.tracked \cup ({g} \X (parts \ s.agents)),
           watched |-> s.watched \cup ((ops \ Watched(s)) \X {g}),
           tracking |-> s.tracking \cup ({g} \X ops \X roots)]
  BY <1>3, <1>4
<1>6. ops \subseteq Mutable
  OBVIOUS
<1> HIDE DEF ops
<1>7. Watched(t) = Watched(s) \cup ops
  <2>1. t.watched = s.watched \cup ((ops \ Watched(s)) \X {g})
    BY <1>5
  <2>2. ASSUME NEW o \in ops PROVE o \in Watched(t)
    <3>1. CASE o \in Watched(s)
      BY <2>1, <3>1 DEF Watched
    <3>2. CASE o \notin Watched(s)
      <4>1. <<o, g>> \in t.watched
        BY <2>1, <2>2, <3>2
      <4> QED
        BY <4>1 DEF Watched
    <3> QED
      BY <3>1, <3>2
  <2>3. Watched(s) \subseteq Watched(t)
    BY <2>1 DEF Watched
  <2>4. ASSUME NEW w \in t.watched PROVE w[1] \in Watched(s) \cup ops
    BY <2>1, <2>4 DEF Watched
  <2> QED
    BY <2>2, <2>3, <2>4 DEF Watched
<1>8. t \in MapsType(m)
  BY <1>5, <1>6 DEF MapsType
<1>9. /\ t.roots = s.roots
      /\ t.follows = s.follows \cup (roots \X parts)
      /\ t.agents = s.agents \cup parts
      /\ t.tracked = s.tracked \cup ({g} \X (parts \ s.agents))
  BY <1>5
<1> QED
  BY <1>7, <1>8, <1>9, Zenon DEF ops, t, Added

FullyAdded(t, g, s, parts, roots) ==
    /\ t \in MapsType(g) /\ MapsAgree(t, g)
    /\ t.roots = s.roots /\ t.follows = s.follows \cup (roots \X parts)

LEMMA AddFullKeeps ==
    ASSUME NEW g \in Nat \ {0}, NEW s \in MapsType(g), MapsAgree(s, g),
           NEW parts \in SUBSET Mutable, NEW roots \in SUBSET Objects, roots # {},
           NEW mode \in {"full", "recursive"}, \A r \in roots : s.roots[r] = mode
    PROVE  FullyAdded(AddFull(s, g, parts, roots, mode), g, s, parts, roots)
<1> DEFINE t == AddFull(s, g, parts, roots, mode)
<1>1. Added(t, g, s, g, parts, roots, mode)
  BY AddFullFields
<1> HIDE DEF t
<1> USE DEF Added
<1>2. RootsFollow(t) /\ RootsOnly(t)
  BY <1>1 DEF MapsAgree, RootsFollow, RootsOnly
<1>3. AgentsExact(t)
  BY <1>1 DEF MapsAgree, AgentsExact, Asked
<1>4. TrackedExact(t, g)
  BY <1>1 DEF MapsAgree, TrackedExact
<1>5. WatchedExact(t)
  BY <1>1 DEF MapsAgree, WatchedExact, AskedForOps
<1> QED
  BY <1>1, <1>2, <1>3, <1>4, <1>5 DEF MapsAgree, FullyAdded, t

(* addRootSync(), for an object that is no root.                           *)
LEMMA AddRootKeeps ==
    ASSUME NEW g \in Nat \ {0}, NEW s \in MapsType(g), MapsAgree(s, g),
           NEW o \in Objects, s.roots[o] = "none", NEW mode \in Modes,
           NEW t, t = AddRoot(s, g, o, mode)
    PROVE  /\ t \in MapsType(g) /\ MapsAgree(t, g)
           /\ t.roots = [s.roots EXCEPT ![o] = mode] /\ s.follows \subseteq t.follows
<1> DEFINE n == [s EXCEPT !.roots[o] = mode]
<1>1. /\ n \in MapsType(g)
      /\ n.roots = [s.roots EXCEPT ![o] = mode]
      /\ n.follows = s.follows /\ n.agents = s.agents /\ n.tracked = s.tracked
      /\ Watched(n) = Watched(s)
  <2>1. s = [roots |-> s.roots, follows |-> s.follows, agents |-> s.agents,
             tracked |-> s.tracked, watched |-> s.watched, tracking |-> s.tracking]
    BY DEF MapsType
  <2>2. n = [roots |-> [s.roots EXCEPT ![o] = mode], follows |-> s.follows, agents |-> s.agents,
             tracked |-> s.tracked, watched |-> s.watched, tracking |-> s.tracking]
    BY <2>1
  <2> HIDE DEF n
  <2>3. s.roots \in [Objects -> Modes \cup {"none"}]
    BY DEF MapsType
  <2>4. [s.roots EXCEPT ![o] = mode] \in [Objects -> Modes \cup {"none"}]
    BY <2>3
  <2>5. n \in MapsType(g)
    BY <2>2, <2>4 DEF MapsType
  <2> QED
    BY <2>2, <2>5 DEF Watched
<1>2. /\ s.roots \in [Objects -> Modes \cup {"none"}]
      /\ s.follows \subseteq Objects \X Mutable /\ s.agents \subseteq Mutable
  BY DEF MapsType
<1> HIDE DEF n
<1>3. CASE mode # "single"
  <2>1. <<o, o>> \notin s.follows
    BY <1>2 DEF MapsAgree, RootsOnly
  <2>2. t = AddFull(n, g, Parts[o], {o}, mode)
    BY <1>1, <1>3, <2>1 DEF AddRoot, AddObject, n
  <2>3. Parts[o] \in SUBSET Mutable /\ {o} \in SUBSET Objects
    BY MeshFacts
  <2>4. Added(t, g, n, g, Parts[o], {o}, mode)
    <3>1. Added(AddFull(n, g, Parts[o], {o}, mode), g, n, g, Parts[o], {o}, mode)
      BY <1>1, <2>3, AddFullFields
    <3> QED
      BY <2>2, <3>1, Zenon
  <2> USE DEF Added
  <2>5. mode \in {"full", "recursive"} /\ o \in Mutable => o \in Parts[o]
    BY <1>3, MeshFacts DEF Modes
  <2>6. RootsFollow(t) /\ RootsOnly(t)
    BY <1>1, <1>2, <1>3, <2>4 DEF MapsAgree, RootsFollow, RootsOnly, Modes
  <2>7. AgentsExact(t)
    <3>1. ASSUME NEW x \in Mutable
          PROVE  Asked(t, x) <=> Asked(s, x) \/ x \in Parts[o]
      <4>1. x \in Objects /\ t.roots = [s.roots EXCEPT ![o] = mode]
            /\ t.follows = s.follows \cup ({o} \X Parts[o])
        BY <1>1, <2>4, MeshFacts
      <4>2. (\E r \in Objects : <<r, x>> \in t.follows)
               <=> (\E r \in Objects : <<r, x>> \in s.follows) \/ x \in Parts[o]
        BY <4>1
      <4>3. CASE x = o
        BY <1>3, <2>5, <4>2, <4>3 DEF Asked, Modes
      <4>4. CASE x # o
        <5>1. t.roots[x] = s.roots[x]
          BY <1>2, <4>1, <4>4
        <5> QED
          BY <4>2, <5>1 DEF Asked
      <4> QED
        BY <4>3, <4>4
    <3>2. t.agents = s.agents \cup Parts[o]
      BY <1>1, <2>4
    <3> QED
      BY <3>1, <3>2 DEF MapsAgree, AgentsExact
  <2>8. TrackedExact(t, g)
    BY <1>1, <2>4 DEF MapsAgree, TrackedExact
  <2>9. WatchedExact(t)
    <3>1. \A x \in Mutable : <<o, x>> \notin s.follows
      BY DEF MapsAgree, RootsOnly
    <3>2. ASSUME NEW x \in Mutable
          PROVE  AskedForOps(t, x) <=> AskedForOps(s, x) \/ (mode = "recursive" /\ x \in Parts[o])
      <4>1. ASSUME NEW r \in Objects, r # o
            PROVE  /\ t.roots[r] = s.roots[r]
                   /\ <<r, x>> \in t.follows <=> <<r, x>> \in s.follows
        BY <1>1, <1>2, <2>4, <4>1
      <4>2. t.roots[o] = mode /\ (<<o, x>> \in t.follows <=> x \in Parts[o])
        BY <1>1, <1>2, <2>4, <3>1
      <4> QED
        BY <3>1, <4>1, <4>2 DEF AskedForOps
    <3>3. \A x \in Mutable : x \in Watched(t) <=> x \in Watched(s) \/ (mode = "recursive" /\ x \in Parts[o])
      BY <1>1, <2>4
    <3> QED
      BY <3>2, <3>3 DEF MapsAgree, WatchedExact
  <2> QED
    BY <1>1, <2>4, <2>6, <2>7, <2>8, <2>9 DEF MapsAgree
<1>4. CASE mode = "single"
  <2>1. t = IF o \in Mutable THEN AddSingle(n, g, {o}) ELSE n
    BY <1>4 DEF AddRoot, n
  <2>2. /\ t \in MapsType(g)
        /\ t.roots = n.roots /\ t.follows = n.follows /\ Watched(t) = Watched(n)
        /\ t.agents = n.agents \cup ({o} \cap Mutable)
        /\ t.tracked = n.tracked \cup ({g} \X (({o} \cap Mutable) \ n.agents))
    <3>1. n = [roots |-> n.roots, follows |-> n.follows, agents |-> n.agents,
               tracked |-> n.tracked, watched |-> n.watched, tracking |-> n.tracking]
      BY <1>1 DEF MapsType
    <3>2. t = [roots |-> n.roots, follows |-> n.follows,
               agents |-> n.agents \cup ({o} \cap Mutable),
               tracked |-> n.tracked \cup ({g} \X (({o} \cap Mutable) \ n.agents)),
               watched |-> n.watched, tracking |-> n.tracking]
      <4>1. CASE o \in Mutable
        <5>1. {o} \cap Mutable = {o}
          BY <4>1
        <5>2. t = [n EXCEPT !.agents = n.agents \cup {o},
                            !.tracked = n.tracked \cup ({g} \X ({o} \ n.agents))]
          BY <2>1, <4>1 DEF AddSingle
        <5> QED
          BY <3>1, <5>1, <5>2
      <4>2. CASE o \notin Mutable
        BY <2>1, <3>1, <4>2
      <4> QED
        BY <4>1, <4>2
    <3> QED
      BY <1>1, <3>2 DEF MapsType, Watched
  <2>3. RootsFollow(t) /\ RootsOnly(t)
    BY <1>1, <1>2, <1>4, <2>2 DEF MapsAgree, RootsFollow, RootsOnly
  <2>4. AgentsExact(t) /\ TrackedExact(t, g)
    <3>1. ASSUME NEW x \in Mutable PROVE Asked(t, x) <=> Asked(s, x) \/ x = o
      <4>1. t.follows = s.follows /\ x \in Objects
        BY <1>1, <2>2, MeshFacts
      <4>2. CASE x = o
        <5>1. t.roots[x] = "single"
          BY <1>1, <1>2, <1>4, <2>2, <4>2
        <5> QED
          BY <4>2, <5>1 DEF Asked
      <4>3. CASE x # o
        <5>1. t.roots[x] = s.roots[x]
          BY <1>1, <1>2, <2>2, <4>1, <4>3
        <5> QED
          BY <4>1, <4>3, <5>1 DEF Asked
      <4> QED
        BY <4>2, <4>3
    <3>2. \A x \in Mutable : x \in t.agents <=> x \in s.agents \/ x = o
      BY <1>1, <2>2
    <3>3. \A x \in Mutable : <<g, x>> \in t.tracked <=> <<g, x>> \in s.tracked \/ (x = o /\ x \notin s.agents)
      BY <1>1, <2>2
    <3> QED
      BY <3>1, <3>2, <3>3 DEF MapsAgree, AgentsExact, TrackedExact
  <2>5. WatchedExact(t)
    <3>1. ASSUME NEW x \in Mutable, NEW r \in Objects
          PROVE  t.roots[r] = "recursive" <=> s.roots[r] = "recursive"
      BY <1>1, <1>2, <1>4, <2>2
    <3> QED
      BY <1>1, <2>2, <3>1 DEF MapsAgree, WatchedExact, AskedForOps
  <2> QED
    BY <1>1, <2>2, <2>3, <2>4, <2>5 DEF MapsAgree
<1> QED
  BY <1>3, <1>4

(* removeSingleObjectSync(), field by field.                               *)
Freed(s, objs) == {o \in objs : AllModes(s.roots, s.follows, o) = {}}

Removed(t, s, g, objs) ==
    /\ t \in MapsType(g)
    /\ t.roots = s.roots /\ t.follows = s.follows /\ t.watched = s.watched
    /\ t.agents = s.agents \ Freed(s, objs)
    /\ t.tracked = s.tracked \ ({g} \X (Freed(s, objs) \cap s.agents))

LEMMA RemoveSingleFields ==
    ASSUME NEW g \in Nat \ {0}, NEW s \in MapsType(g), NEW objs
    PROVE  Removed(RemoveSingle(s, g, objs), s, g, objs)
<1> DEFINE t == RemoveSingle(s, g, objs)
<1>1. s = [roots |-> s.roots, follows |-> s.follows, agents |-> s.agents,
           tracked |-> s.tracked, watched |-> s.watched, tracking |-> s.tracking]
  BY DEF MapsType
<1>2. t = [s EXCEPT !.agents = s.agents \ Freed(s, objs),
                    !.tracked = s.tracked \ ({g} \X (Freed(s, objs) \cap s.agents))]
  BY DEF RemoveSingle, Freed
<1> HIDE DEF t
<1>3. t = [roots |-> s.roots, follows |-> s.follows, agents |-> s.agents \ Freed(s, objs),
           tracked |-> s.tracked \ ({g} \X (Freed(s, objs) \cap s.agents)),
           watched |-> s.watched, tracking |-> s.tracking]
  BY <1>1, <1>2
<1>4. t \in MapsType(g)
  BY <1>3 DEF MapsType
<1> QED
  BY <1>3, <1>4 DEF Removed, t

LEMMA ModesAsked ==
    ASSUME NEW g, NEW s \in MapsType(g), RootsFollow(s), RootsOnly(s), NEW x \in Mutable
    PROVE  /\ AllModes(s.roots, s.follows, x) = {} <=> ~ Asked(s, x)
           /\ "recursive" \in AllModes(s.roots, s.follows, x) <=> AskedForOps(s, x)
<1>1. /\ AllModes(s.roots, s.follows, x) = {} <=>
            s.roots[x] = "none" /\ \A r \in Objects : <<r, x>> \in s.follows => s.roots[r] = "none"
      /\ "recursive" \in AllModes(s.roots, s.follows, x) <=>
            s.roots[x] = "recursive" \/ \E r \in Objects : <<r, x>> \in s.follows /\ s.roots[r] = "recursive"
  BY ModesOfObject
<1>2. \A r \in Objects : <<r, x>> \in s.follows => s.roots[r] # "none"
  BY DEF RootsOnly
<1>3. s.roots[x] = "recursive" => <<x, x>> \in s.follows
  BY MeshFacts DEF RootsFollow
<1> QED
  BY <1>1, <1>2, <1>3, MeshFacts DEF Asked, AskedForOps

(* removeRootSync(), for a root.                                           *)
LEMMA RemoveRootKeeps ==
    ASSUME NEW g \in Nat \ {0}, NEW s \in MapsType(g), MapsAgree(s, g),
           NEW o \in Objects, s.roots[o] # "none",
           NEW t, t = RemoveRoot(s, g, o)
    PROVE  /\ t \in MapsType(g) /\ MapsAgree(t, g)
           /\ t.roots = [s.roots EXCEPT ![o] = "none"]
           /\ \A r \in Objects, x \in Mutable :
                 r # o => (<<r, x>> \in t.follows <=> <<r, x>> \in s.follows)
<1> DEFINE n       == [s EXCEPT !.roots[o] = "none"]
           closure == {d \in Mutable : <<o, d>> \in s.follows}
           mode    == s.roots[o]
<1>0. /\ s.roots \in [Objects -> Modes \cup {"none"}]
      /\ s.follows \subseteq Objects \X Mutable /\ s.agents \subseteq Mutable
      /\ mode \in Modes
  BY DEF MapsType
<1>1. /\ n \in MapsType(g)
      /\ n.roots = [s.roots EXCEPT ![o] = "none"]
      /\ n.follows = s.follows /\ n.agents = s.agents /\ n.tracked = s.tracked
      /\ n.watched = s.watched
  <2>1. s = [roots |-> s.roots, follows |-> s.follows, agents |-> s.agents,
             tracked |-> s.tracked, watched |-> s.watched, tracking |-> s.tracking]
    BY DEF MapsType
  <2>2. n = [roots |-> [s.roots EXCEPT ![o] = "none"], follows |-> s.follows, agents |-> s.agents,
             tracked |-> s.tracked, watched |-> s.watched, tracking |-> s.tracking]
    BY <2>1
  <2> HIDE DEF n
  <2>3. [s.roots EXCEPT ![o] = "none"] \in [Objects -> Modes \cup {"none"}]
    BY <1>0
  <2>4. n \in MapsType(g)
    BY <2>2, <2>3 DEF MapsType
  <2> QED
    BY <2>2, <2>4
<1> HIDE DEF n
<1>2. CASE mode = "single"
  <2>1. Removed(t, n, g, {o})
    <3>1. t = RemoveSingle(n, g, {o})
      BY <1>2 DEF RemoveRoot, n
    <3>2. Removed(RemoveSingle(n, g, {o}), n, g, {o})
      BY <1>1, RemoveSingleFields
    <3> QED
      BY <3>1, <3>2, Zenon
  <2>2. /\ t \in MapsType(g) /\ t.roots = n.roots /\ t.follows = s.follows
        /\ t.watched = s.watched
    BY <1>1, <2>1 DEF Removed
  <2>3. RootsFollow(t) /\ RootsOnly(t)
    BY <1>0, <1>1, <1>2, <2>2 DEF MapsAgree, RootsFollow, RootsOnly
  <2>4. WatchedExact(t)
    <3>1. ASSUME NEW r \in Objects
          PROVE  t.roots[r] = "recursive" <=> s.roots[r] = "recursive"
      BY <1>0, <1>1, <1>2, <2>2
    <3>2. Watched(t) = Watched(s)
      BY <2>2 DEF Watched
    <3> QED
      BY <2>2, <3>1, <3>2 DEF MapsAgree, WatchedExact, AskedForOps
  <2>5. ASSUME NEW x \in Mutable
        PROVE  /\ x \in t.agents <=> Asked(t, x)
               /\ <<g, x>> \in t.tracked <=> x \in t.agents
    <3>1. x # o => (Asked(t, x) <=> Asked(s, x))
      BY <1>0, <1>1, <2>2, MeshFacts DEF Asked
    <3>2. x \in Freed(n, {o}) <=> x = o /\ ~ Asked(t, o)
      <4>1. RootsFollow(n) /\ RootsOnly(n)
        BY <1>1, <2>2, <2>3 DEF RootsFollow, RootsOnly
      <4>2. AllModes(n.roots, n.follows, x) = {} <=> ~ Asked(n, x)
        BY <1>1, <4>1, ModesAsked
      <4>3. Asked(n, x) <=> Asked(t, x)
        BY <1>1, <2>2 DEF Asked
      <4> QED
        BY <4>2, <4>3 DEF Freed
    <3>3. x \in s.agents <=> Asked(s, x)
      BY DEF MapsAgree, AgentsExact
    <3>4. <<g, x>> \in s.tracked <=> x \in s.agents
      BY DEF MapsAgree, TrackedExact
    <3>5. /\ x \in t.agents <=> x \in s.agents /\ x \notin Freed(n, {o})
          /\ <<g, x>> \in t.tracked <=> <<g, x>> \in s.tracked /\ ~ (x \in Freed(n, {o}) /\ x \in s.agents)
      BY <1>1, <2>1 DEF Removed
    <3>6. x = o => Asked(s, x)
      BY DEF Asked
    <3> QED
      BY <3>1, <3>2, <3>3, <3>4, <3>5, <3>6
  <2> QED
    BY <1>1, <2>2, <2>3, <2>4, <2>5 DEF MapsAgree, AgentsExact, TrackedExact
<1>3. CASE mode \in {"full", "recursive"}
  <2> DEFINE left    == [n EXCEPT !.follows = n.follows \ ({o} \X closure)]
             dropped == IF mode = "recursive" THEN Unwatched(left.roots, left.follows, closure) ELSE {}
             u       == RemoveSingle(left, g, closure)
  <2>1. t = [u EXCEPT !.watched = {w \in u.watched : w[1] \notin dropped}]
    <3>1. t = RemoveFull(n, g, o, mode)
      BY <1>3 DEF RemoveRoot, n
    <3>2. closure = {d \in Mutable : <<o, d>> \in n.follows}
      BY <1>1
    <3> HIDE DEF closure
    <3> QED
      BY <3>1, <3>2 DEF RemoveFull
  <2>2. /\ left \in MapsType(g)
        /\ left.roots = n.roots /\ left.agents = s.agents /\ left.tracked = s.tracked
        /\ left.watched = s.watched
        /\ \A r \in Objects, x \in Mutable : <<r, x>> \in left.follows <=> r # o /\ <<r, x>> \in s.follows
    <3>1. n = [roots |-> n.roots, follows |-> n.follows, agents |-> n.agents,
               tracked |-> n.tracked, watched |-> n.watched, tracking |-> n.tracking]
      BY <1>1 DEF MapsType
    <3>2. left = [roots |-> n.roots, follows |-> n.follows \ ({o} \X closure), agents |-> n.agents,
                  tracked |-> n.tracked, watched |-> n.watched, tracking |-> n.tracking]
      <4> HIDE DEF closure
      <4> QED
        BY <3>1
    <3> HIDE DEF left
    <3>3. left \in MapsType(g)
      BY <1>1, <3>2 DEF MapsType
    <3> QED
      BY <1>1, <3>2, <3>3
  <2> HIDE DEF left
  <2>3. Removed(u, left, g, closure)
    BY <2>2, RemoveSingleFields
  <2> HIDE DEF u
  <2>4. /\ t \in MapsType(g)
        /\ t.roots = n.roots /\ t.follows = left.follows
        /\ t.agents = s.agents \ Freed(left, closure)
        /\ t.tracked = s.tracked \ ({g} \X (Freed(left, closure) \cap s.agents))
        /\ t.watched = {w \in s.watched : w[1] \notin dropped}
    <3> HIDE DEF dropped, closure
    <3>1. u = [roots |-> u.roots, follows |-> u.follows, agents |-> u.agents,
               tracked |-> u.tracked, watched |-> u.watched, tracking |-> u.tracking]
      BY <2>3 DEF Removed, MapsType
    <3>2. t = [roots |-> u.roots, follows |-> u.follows, agents |-> u.agents,
               tracked |-> u.tracked, watched |-> {w \in u.watched : w[1] \notin dropped},
               tracking |-> u.tracking]
      BY <2>1, <3>1
    <3>3. t \in MapsType(g)
      BY <2>3, <3>2 DEF Removed, MapsType
    <3> QED
      BY <2>2, <2>3, <3>2, <3>3 DEF Removed
  <2>5. RootsFollow(t) /\ RootsOnly(t) /\ RootsFollow(left) /\ RootsOnly(left)
    BY <1>0, <1>1, <2>2, <2>4, MeshFacts DEF MapsAgree, RootsFollow, RootsOnly
  <2>6. ASSUME NEW x \in Mutable
        PROVE  /\ AllModes(left.roots, left.follows, x) = {} <=> ~ Asked(t, x)
               /\ "recursive" \in AllModes(left.roots, left.follows, x) <=> AskedForOps(t, x)
               /\ x \notin closure => (Asked(t, x) <=> Asked(s, x))
               /\ x \in closure => Asked(s, x)
    <3>1. /\ AllModes(left.roots, left.follows, x) = {} <=> ~ Asked(left, x)
          /\ "recursive" \in AllModes(left.roots, left.follows, x) <=> AskedForOps(left, x)
      BY <2>2, <2>5, ModesAsked
    <3>2. (Asked(left, x) <=> Asked(t, x)) /\ (AskedForOps(left, x) <=> AskedForOps(t, x))
      BY <2>2, <2>4 DEF Asked, AskedForOps
    <3>3. x \notin closure => x # o /\ <<o, x>> \notin s.follows
      BY <1>3, MeshFacts DEF MapsAgree, RootsFollow
    <3>4. x \notin closure => (Asked(t, x) <=> Asked(s, x))
      <4>1. x # o => t.roots[x] = s.roots[x]
        BY <1>0, <1>1, <2>4, MeshFacts
      <4>2. \A r \in Objects : <<r, x>> \in t.follows <=> r # o /\ <<r, x>> \in s.follows
        BY <2>2, <2>4
      <4> QED
        BY <3>3, <4>1, <4>2 DEF Asked
    <3>5. x \in closure => Asked(s, x)
      BY DEF Asked
    <3> QED
      BY <3>1, <3>2, <3>4, <3>5
  <2>7. ASSUME NEW x \in Mutable
        PROVE  /\ x \in t.agents <=> Asked(t, x)
               /\ <<g, x>> \in t.tracked <=> x \in t.agents
    <3>1. x \in Freed(left, closure) <=> x \in closure /\ ~ Asked(t, x)
      BY <2>6 DEF Freed
    <3>2. x \in s.agents <=> Asked(s, x)
      BY DEF MapsAgree, AgentsExact
    <3>3. <<g, x>> \in s.tracked <=> x \in s.agents
      BY DEF MapsAgree, TrackedExact
    <3>4. /\ x \in t.agents <=> x \in s.agents /\ x \notin Freed(left, closure)
          /\ <<g, x>> \in t.tracked <=> <<g, x>> \in s.tracked /\ ~ (x \in Freed(left, closure) /\ x \in s.agents)
      BY <2>4
    <3> QED
      BY <2>6, <3>1, <3>2, <3>3, <3>4
  <2>8. WatchedExact(t)
    <3> SUFFICES ASSUME NEW x \in Mutable
                 PROVE  x \in Watched(t) <=> AskedForOps(t, x)
      BY DEF WatchedExact
    <3>1. x \in Watched(t) <=> x \in Watched(s) /\ x \notin dropped
      BY <2>4 DEF Watched
    <3>2. x \in Watched(s) <=> AskedForOps(s, x)
      BY DEF MapsAgree, WatchedExact
    <3>3. x \in dropped <=> mode = "recursive" /\ x \in closure /\ ~ AskedForOps(t, x)
      BY <2>6 DEF Unwatched
    <3>4. AskedForOps(t, x) => AskedForOps(s, x)
      BY <1>0, <1>1, <2>2, <2>4 DEF AskedForOps
    <3>5. AskedForOps(s, x) /\ ~ (mode = "recursive" /\ x \in closure) => AskedForOps(t, x)
      BY <1>0, <1>1, <2>2, <2>4 DEF AskedForOps
    <3> QED
      BY <3>1, <3>2, <3>3, <3>4, <3>5
  <2> QED
    BY <1>1, <2>2, <2>4, <2>5, <2>7, <2>8 DEF MapsAgree, AgentsExact, TrackedExact
<1> QED
  BY <1>0, <1>2, <1>3 DEF Modes

-----------------------------------------------------------------------------
(* The types, which late work keeps too.                                   *)

LEMMA MoreAgents ==
    ASSUME NEW m \in Nat, NEW s \in MapsType(m)
    PROVE  s \in MapsType(m + 1)
<1>1. 1..m \subseteq 1..(m + 1)
  OBVIOUS
<1> QED
  BY <1>1 DEF MapsType

LEMMA AddSingleType ==
    ASSUME NEW m \in Nat, NEW g \in 1..m, NEW s \in MapsType(m), NEW objs \in SUBSET Mutable
    PROVE  AddSingle(s, g, objs) \in MapsType(m)
<1> DEFINE u == AddSingle(s, g, objs)
<1>1. s = [roots |-> s.roots, follows |-> s.follows, agents |-> s.agents,
           tracked |-> s.tracked, watched |-> s.watched, tracking |-> s.tracking]
  BY DEF MapsType
<1>2. u = [s EXCEPT !.agents = s.agents \cup objs,
                    !.tracked = s.tracked \cup ({g} \X (objs \ s.agents))]
  BY DEF AddSingle
<1> HIDE DEF u
<1>3. u = [roots |-> s.roots, follows |-> s.follows, agents |-> s.agents \cup objs,
           tracked |-> s.tracked \cup ({g} \X (objs \ s.agents)),
           watched |-> s.watched, tracking |-> s.tracking]
  BY <1>1, <1>2
<1>4. u \in MapsType(m)
  BY <1>3 DEF MapsType
<1> QED
  BY <1>4 DEF u

LEMMA NamedType ==
    ASSUME NEW m \in Nat, NEW s \in MapsType(m), NEW o \in Objects, NEW mode \in Modes \cup {"none"}
    PROVE  [s EXCEPT !.roots[o] = mode] \in MapsType(m)
<1> DEFINE n == [s EXCEPT !.roots[o] = mode]
<1>1. s = [roots |-> s.roots, follows |-> s.follows, agents |-> s.agents,
           tracked |-> s.tracked, watched |-> s.watched, tracking |-> s.tracking]
  BY DEF MapsType
<1>2. n = [roots |-> [s.roots EXCEPT ![o] = mode], follows |-> s.follows, agents |-> s.agents,
           tracked |-> s.tracked, watched |-> s.watched, tracking |-> s.tracking]
  BY <1>1
<1> HIDE DEF n
<1>3. [s.roots EXCEPT ![o] = mode] \in [Objects -> Modes \cup {"none"}]
  BY DEF MapsType
<1>4. n \in MapsType(m)
  BY <1>2, <1>3 DEF MapsType
<1> QED
  BY <1>4 DEF n

LEMMA AddObjectType ==
    ASSUME NEW m \in Nat, NEW g \in 1..m, NEW s \in MapsType(m), NEW o \in Objects,
           NEW r \in Objects, NEW mode
    PROVE  AddObject(s, g, o, r, mode) \in MapsType(m)
<1>1. Parts[o] \in SUBSET Mutable /\ {r} \in SUBSET Objects
  BY MeshFacts
<1>2. Added(AddFull(s, g, Parts[o], {r}, mode), m, s, g, Parts[o], {r}, mode)
  BY <1>1, AddFullFields
<1>3. AddFull(s, g, Parts[o], {r}, mode) \in MapsType(m)
  BY <1>2 DEF Added
<1> QED
  BY <1>3 DEF AddObject

LEMMA AddRootType ==
    ASSUME NEW m \in Nat, NEW g \in 1..m, NEW s \in MapsType(m), NEW o \in Objects, NEW mode \in Modes
    PROVE  AddRoot(s, g, o, mode) \in MapsType(m)
<1> DEFINE n == [s EXCEPT !.roots[o] = mode]
<1>1. n \in MapsType(m)
  BY NamedType
<1> HIDE DEF n
<1>2. AddObject(n, g, o, o, mode) \in MapsType(m)
  BY <1>1, AddObjectType
<1>3. o \in Mutable => AddSingle(n, g, {o}) \in MapsType(m)
  BY <1>1, AddSingleType
<1>4. AddRoot(s, g, o, mode) =
        CASE mode # "single"                  -> AddObject(n, g, o, o, mode)
          [] mode = "single" /\ o \in Mutable -> AddSingle(n, g, {o})
          [] OTHER                            -> n
  BY DEF AddRoot, n
<1> QED
  BY <1>1, <1>2, <1>3, <1>4

LEMMA RemoveRootType ==
    ASSUME NEW g \in Nat \ {0}, NEW s \in MapsType(g), NEW o \in Objects
    PROVE  RemoveRoot(s, g, o) \in MapsType(g)
<1> DEFINE n == [s EXCEPT !.roots[o] = "none"]
<1>1. n \in MapsType(g)
  BY NamedType
<1> HIDE DEF n
<1>2. Removed(RemoveSingle(n, g, {o}), n, g, {o})
  BY <1>1, RemoveSingleFields
<1>3. RemoveFull(n, g, o, s.roots[o]) \in MapsType(g)
  <2> DEFINE closure == {d \in Mutable : <<o, d>> \in n.follows}
             left    == [n EXCEPT !.follows = n.follows \ ({o} \X closure)]
             dropped == IF s.roots[o] = "recursive" THEN Unwatched(left.roots, left.follows, closure) ELSE {}
             u       == RemoveSingle(left, g, closure)
             t       == [u EXCEPT !.watched = {w \in u.watched : w[1] \notin dropped}]
  <2>1. RemoveFull(n, g, o, s.roots[o]) = t
    BY DEF RemoveFull
  <2> HIDE DEF closure
  <2>2. left \in MapsType(g)
    <3>1. n = [roots |-> n.roots, follows |-> n.follows, agents |-> n.agents,
               tracked |-> n.tracked, watched |-> n.watched, tracking |-> n.tracking]
      BY <1>1 DEF MapsType
    <3>2. left = [roots |-> n.roots, follows |-> n.follows \ ({o} \X closure), agents |-> n.agents,
                  tracked |-> n.tracked, watched |-> n.watched, tracking |-> n.tracking]
      BY <3>1
    <3> HIDE DEF left
    <3> QED
      BY <1>1, <3>2 DEF MapsType
  <2> HIDE DEF left
  <2>3. Removed(u, left, g, closure)
    BY <2>2, RemoveSingleFields
  <2> HIDE DEF u, dropped
  <2>4. u = [roots |-> u.roots, follows |-> u.follows, agents |-> u.agents,
             tracked |-> u.tracked, watched |-> u.watched, tracking |-> u.tracking]
    BY <2>3 DEF Removed, MapsType
  <2>5. t = [roots |-> u.roots, follows |-> u.follows, agents |-> u.agents,
             tracked |-> u.tracked, watched |-> {w \in u.watched : w[1] \notin dropped},
             tracking |-> u.tracking]
    BY <2>4
  <2> HIDE DEF t
  <2>6. t \in MapsType(g)
    BY <2>3, <2>5 DEF Removed, MapsType
  <2> QED
    BY <2>1, <2>6
<1>4. RemoveRoot(s, g, o) \in {s, RemoveSingle(n, g, {o}), RemoveFull(n, g, o, s.roots[o])}
  BY DEF RemoveRoot, n
<1> QED
  BY <1>2, <1>3, <1>4 DEF Removed

LEMMA TrackingOnly ==
    ASSUME NEW m \in Nat, NEW s \in MapsType(m), NEW calls2 \in SUBSET s.tracking,
           NEW t, t = [s EXCEPT !.tracking = calls2]
    PROVE  /\ t \in MapsType(m) /\ t.roots = s.roots /\ t.follows = s.follows
           /\ (MapsAgree(s, m) => MapsAgree(t, m))
<1>1. s = [roots |-> s.roots, follows |-> s.follows, agents |-> s.agents,
           tracked |-> s.tracked, watched |-> s.watched, tracking |-> s.tracking]
  BY DEF MapsType
<1>2. t = [roots |-> s.roots, follows |-> s.follows, agents |-> s.agents,
           tracked |-> s.tracked, watched |-> s.watched, tracking |-> calls2]
  BY <1>1
<1>3. t \in MapsType(m)
  BY <1>2 DEF MapsType
<1>4. MapsAgree(s, m) => MapsAgree(t, m)
  BY <1>2 DEF MapsAgree, RootsFollow, RootsOnly, AgentsExact, Asked, TrackedExact, WatchedExact,
              AskedForOps, Watched
<1> QED
  BY <1>2, <1>3, <1>4

-----------------------------------------------------------------------------
(* The inductive invariant: the types; and that nothing is late, or the    *)
(* maps agree, the roots are what there are tokens of (and what cannot be  *)
(* synchronized by itself), and an op that was heard is being loaded, or   *)
(* has been followed.                                                      *)
TypesAndCounts ==
    /\ TypeOK /\ gossips <= calls /\ \A k \in Objects \cup {Group} : usage[k] <= calls
    /\ gossip => gossips > 0

RootsAreUsed(o) ==
    /\ usage[o] > 0 => sync.roots[o] # "none"
    /\ sync.roots[o] # "none" => gossip /\ (usage[o] > 0 \/ (sync.roots[o] = "single" /\ o \notin Mutable))

HeardIsFollowed(h) ==
    /\ sync.roots[h[2]] = "recursive" /\ <<h[2], Target[h[1]]>> \in sync.follows
    /\ (\E l \in loading : l[2] = h[1]) \/ \A o \in Refers[h[1]] : <<h[2], o>> \in sync.follows

NothingMissed ==
    /\ MapsAgree(sync, gossips)
    /\ \A o \in Objects : RootsAreUsed(o)
    /\ \A h \in heard : HeardIsFollowed(h)

MeshInv == TypesAndCounts /\ (~ late => NothingMissed)

LEMMA MeshInit == Init => MeshInv
<1> SUFFICES ASSUME Init
             PROVE  MeshInv
  OBVIOUS
<1> USE MeshAssumption
<1>1. sync \in MapsType(gossips)
  BY DEF Init, MapsType
<1>2. TypesAndCounts
  <2>1. usage \in [Objects \cup {Group} -> 0..MaxCalls] /\ \A k \in Objects \cup {Group} : usage[k] <= calls
    BY DEF Init
  <2>2. group \in BOOLEAN /\ gossip \in BOOLEAN /\ late \in BOOLEAN /\ (gossip => gossips > 0)
    BY DEF Init
  <2>3. /\ gossips \in 0..MaxCalls /\ calls \in 0..MaxCalls /\ gossips <= calls
        /\ stored \subseteq Ops /\ loading = {} /\ heard = {}
    BY DEF Init
  <2> QED
    BY <1>1, <2>1, <2>2, <2>3 DEF TypesAndCounts, TypeOK
<1>3. MapsAgree(sync, gossips)
  BY DEF Init, MapsAgree, RootsFollow, RootsOnly, AgentsExact, Asked, TrackedExact, WatchedExact,
         AskedForOps, Watched
<1>4. \A o \in Objects : RootsAreUsed(o)
  BY DEF Init, RootsAreUsed
<1> QED
  BY <1>2, <1>3, <1>4 DEF Init, MeshInv, NothingMissed

LEMMA TypesStep ==
    ASSUME TypesAndCounts, [Next]_vars
    PROVE  TypesAndCounts'
<1> USE MeshAssumption DEF TypesAndCounts
<1>0. /\ sync \in MapsType(gossips) /\ gossips \in Nat /\ calls \in Nat
      /\ usage \in [Objects \cup {Group} -> 0..MaxCalls]
  BY DEF TypeOK
<1>1. CASE JoinPeerGroup
  BY <1>0, <1>1 DEF JoinPeerGroup, Call, TypeOK
<1>2. CASE LeavePeerGroup
  BY <1>0, <1>2 DEF LeavePeerGroup, Call, TypeOK
<1>3. ASSUME NEW o \in Objects, NEW mode \in Modes, SyncObject(o, mode)
      PROVE  TypesAndCounts'
  <2>1. gossips' \in Nat /\ gossips' >= gossips /\ gossips' <= calls' /\ gossips' \in 1..gossips'
    BY <1>0, <1>3 DEF SyncObject, Call, TypeOK
  <2>2. sync \in MapsType(gossips')
    BY <1>0, <1>3, MoreAgents DEF SyncObject
  <2>3. sync' \in MapsType(gossips')
    BY <1>3, <2>1, <2>2, AddRootType DEF SyncObject
  <2>4. usage' \in [Objects \cup {Group} -> 0..MaxCalls] /\ \A k \in Objects \cup {Group} : usage'[k] <= calls'
    BY <1>0, <1>3 DEF SyncObject, Call, TypeOK
  <2>5. calls' \in 0..MaxCalls
    BY <1>0, <1>3 DEF SyncObject, Call, TypeOK
  <2>6. loading' \subseteq (1..gossips') \X Ops
    BY <1>0, <1>3, <2>1 DEF SyncObject, TypeOK
  <2> QED
    BY <1>3, <2>1, <2>3, <2>4, <2>5, <2>6 DEF SyncObject, TypeOK
<1>4. ASSUME NEW o \in Objects, StopSyncObject(o)
      PROVE  TypesAndCounts'
  <2>1. gossip => RemoveRoot(sync, gossips, o) \in MapsType(gossips)
    BY <1>0, RemoveRootType
  <2>2. sync' \in MapsType(gossips') /\ gossip' \in BOOLEAN /\ (gossip' => gossips' > 0)
    BY <1>0, <1>4, <2>1 DEF StopSyncObject, TypeOK
  <2>3. /\ usage' \in [Objects \cup {Group} -> 0..MaxCalls]
        /\ \A k \in Objects \cup {Group} : usage'[k] <= calls'
        /\ calls' \in 0..MaxCalls /\ gossips <= calls'
    BY <1>0, <1>4 DEF StopSyncObject, Call, TypeOK
  <2>4. heard' \subseteq heard
    BY <1>4 DEF StopSyncObject
  <2>5. UNCHANGED <<group, gossips, stored, loading, late>>
    BY <1>4 DEF StopSyncObject
  <2> QED
    BY <1>0, <2>2, <2>3, <2>4, <2>5 DEF TypeOK
<1>5. ASSUME NEW op \in Ops, NewOp(op)
      PROVE  TypesAndCounts'
  <2>1. sync.watched \subseteq Mutable \X (1..gossips)
    BY <1>0 DEF MapsType
  <2>2. \A w \in sync.watched : <<w[2], op>> \in (1..gossips) \X Ops
    BY <2>1
  <2>3. loading' \subseteq (1..gossips) \X Ops
    BY <1>5, <2>2 DEF NewOp, TypeOK
  <2>4. heard' \subseteq Ops \X Objects
    <3>1. \A h \in heard' : h \in heard \/ \E r \in Objects : h = <<op, r>>
      BY <1>5 DEF NewOp
    <3>2. heard \subseteq Ops \X Objects
      BY DEF TypeOK
    <3> QED
      BY <3>1, <3>2
  <2> QED
    BY <1>5, <2>3, <2>4 DEF NewOp, TypeOK, usages
<1>6. ASSUME NEW c \in sync.tracking, TrackOps(c[1], c[2], c[3])
      PROVE  TypesAndCounts'
  <2> DEFINE waiting == [sync EXCEPT !.tracking = @ \ {<<c[1], c[2], c[3]>>}]
  <2>1. c[1] \in 1..gossips /\ c[2] \in Objects /\ c[3] \in Objects
    BY <1>0, MeshFacts DEF MapsType
  <2>2. waiting \in MapsType(gossips)
    BY <1>0, TrackingOnly
  <2> HIDE DEF waiting
  <2>3. AddObject(waiting, c[1], c[2], c[3], "recursive") \in MapsType(gossips)
    BY <1>0, <2>1, <2>2, AddObjectType
  <2>4. sync' \in {waiting, AddObject(waiting, c[1], c[2], c[3], "recursive")}
    BY <1>6 DEF TrackOps, waiting
  <2> QED
    BY <1>6, <2>2, <2>3, <2>4 DEF TrackOps, TypeOK, usages
<1>7. ASSUME NEW l \in loading, NewOpLoaded(l[1], l[2])
      PROVE  TypesAndCounts'
  <2>1. l[1] \in 1..gossips /\ l[2] \in Ops
    BY DEF TypeOK
  <2>2. Refers[l[2]] \in SUBSET Mutable /\ Asking(l[2]) \in SUBSET Objects
    BY <2>1, MeshFacts DEF Asking
  <2>3. Added(AddFull(sync, l[1], Refers[l[2]], Asking(l[2]), "recursive"), gossips,
              sync, l[1], Refers[l[2]], Asking(l[2]), "recursive")
    BY <1>0, <2>1, <2>2, AddFullFields
  <2>4. sync' \in MapsType(gossips)
    BY <1>0, <1>7, <2>3 DEF NewOpLoaded, Added
  <2> QED
    BY <1>7, <2>4 DEF NewOpLoaded, TypeOK, usages
<1>8. CASE UNCHANGED vars
  BY <1>8 DEF vars, usages, TypeOK
<1> QED
  BY <1>1, <1>2, <1>3, <1>4, <1>5, <1>6, <1>7, <1>8 DEF Next

-----------------------------------------------------------------------------
(* While nothing is late, every action keeps what the maps, the tokens and *)
(* the ops that were heard say of each other.                              *)

LEMMA SyncKeeps ==
    ASSUME TypesAndCounts, NothingMissed, NEW o \in Objects, NEW mode \in Modes, SyncObject(o, mode)
    PROVE  NothingMissed'
<1>1. /\ sync \in MapsType(gossips) /\ gossips \in Nat /\ MapsAgree(sync, gossips)
      /\ sync.roots \in [Objects -> Modes \cup {"none"}] /\ mode # "none"
      /\ usage \in [Objects \cup {Group} -> 0..MaxCalls]
      /\ \A x \in Objects : RootsAreUsed(x)
      /\ \A h \in heard : HeardIsFollowed(h)
  BY DEF TypesAndCounts, TypeOK, MapsType, NothingMissed, Modes
<1>2. /\ gossip' /\ gossips' = (IF gossip THEN gossips ELSE gossips + 1)
      /\ gossips' \in Nat \ {0} /\ UNCHANGED <<heard, loading>>
  BY <1>1 DEF SyncObject, TypesAndCounts
<1>3. CASE sync.roots[o] # "none"
  <2>1. gossip /\ UNCHANGED <<sync, gossips>> /\ usage' = [usage EXCEPT ![o] = @ + 1]
    BY <1>1, <1>2, <1>3 DEF SyncObject, RootsAreUsed
  <2>2. \A x \in Objects : usage'[x] >= usage[x] /\ (x # o => usage'[x] = usage[x])
    BY <1>1, <2>1
  <2>3. ASSUME NEW x \in Objects PROVE RootsAreUsed(x)'
    <3>1. RootsAreUsed(x) /\ usage[x] \in Nat /\ usage'[x] \in Nat
      BY <1>1, <2>1
    <3> QED
      BY <1>2, <1>3, <2>1, <2>2, <3>1 DEF RootsAreUsed
  <2> QED
    BY <1>1, <1>2, <2>1, <2>3 DEF NothingMissed, HeardIsFollowed
<1>4. CASE sync.roots[o] = "none"
  <2>1. sync \in MapsType(gossips')
    BY <1>1, <1>2, MoreAgents
  <2>2. MapsAgree(sync, gossips')
    <3>1. CASE gossip
      BY <1>1, <1>2, <3>1
    <3>2. CASE ~ gossip
      <4>1. \A r \in Objects : sync.roots[r] = "none"
        BY <1>1, <3>2 DEF RootsAreUsed
      <4>2. ASSUME NEW x \in Mutable PROVE x \notin sync.agents /\ <<gossips', x>> \notin sync.tracked
        <5>1. x \notin sync.agents
          BY <1>1, <4>1, MeshFacts DEF MapsAgree, RootsOnly, AgentsExact, Asked
        <5>2. gossips' \notin 1..gossips
          BY <1>1, <1>2, <3>2
        <5> QED
          BY <1>1, <5>1, <5>2 DEF MapsType
      <4> QED
        BY <1>1, <4>2 DEF MapsAgree, TrackedExact
    <3> QED
      BY <3>1, <3>2
  <2>3. sync' = AddRoot(sync, gossips', o, mode)
    BY <1>4 DEF SyncObject
  <2>4. /\ MapsAgree(sync', gossips')
        /\ sync'.roots = [sync.roots EXCEPT ![o] = mode] /\ sync.follows \subseteq sync'.follows
    BY <1>2, <1>4, <2>1, <2>2, <2>3, AddRootKeeps
  <2>5. ASSUME NEW x \in Objects PROVE RootsAreUsed(x)'
    <3>1. CASE x = o
      <4>1. sync'.roots[x] = mode
        BY <1>1, <2>4, <3>1
      <4>2. (mode = "single" /\ o \notin Mutable) \/ usage'[o] = usage[o] + 1
        BY <1>1, <1>4 DEF SyncObject
      <4>3. usage[o] + 1 > 0
        BY <1>1
      <4> QED
        BY <1>1, <1>2, <3>1, <4>1, <4>2, <4>3 DEF RootsAreUsed
    <3>2. CASE x # o
      <4>1. sync'.roots[x] = sync.roots[x] /\ usage'[x] = usage[x]
        BY <1>1, <2>4, <3>2 DEF SyncObject
      <4> QED
        BY <1>1, <1>2, <4>1 DEF RootsAreUsed
    <3> QED
      BY <3>1, <3>2
  <2>6. ASSUME NEW h \in heard PROVE HeardIsFollowed(h)'
    <3>1. HeardIsFollowed(h) /\ h[2] \in Objects
      BY <1>1 DEF TypesAndCounts, TypeOK
    <3>2. sync'.roots[h[2]] = sync.roots[h[2]]
      BY <1>1, <1>4, <2>4, <3>1 DEF HeardIsFollowed
    <3> QED
      BY <1>2, <2>4, <3>1, <3>2 DEF HeardIsFollowed
  <2> QED
    BY <1>2, <2>4, <2>5, <2>6 DEF NothingMissed
<1> QED
  BY <1>3, <1>4

LEMMA StopKeeps ==
    ASSUME TypesAndCounts, NothingMissed, NEW o \in Objects, StopSyncObject(o)
    PROVE  NothingMissed'
<1>1. /\ sync \in MapsType(gossips) /\ gossips \in Nat /\ MapsAgree(sync, gossips)
      /\ sync.roots \in [Objects -> Modes \cup {"none"}]
      /\ usage \in [Objects \cup {Group} -> 0..MaxCalls]
      /\ \A x \in Objects : RootsAreUsed(x)
      /\ \A h \in heard : HeardIsFollowed(h)
  BY DEF TypesAndCounts, TypeOK, MapsType, NothingMissed
<1>2. /\ usage[o] > 0 /\ usage' = [usage EXCEPT ![o] = @ - 1] /\ UNCHANGED <<gossips, loading>>
      /\ gossip /\ sync.roots[o] # "none" /\ gossips \in Nat \ {0}
  BY <1>1 DEF StopSyncObject, RootsAreUsed, TypesAndCounts
<1>3. \A x \in Objects : x # o => usage'[x] = usage[x]
  BY <1>1, <1>2
<1>4. CASE usage[o] = 1
  <2>1. /\ sync' = RemoveRoot(sync, gossips, o) /\ usage'[o] = 0
        /\ gossip' = (\E r \in Objects : sync'.roots[r] # "none")
        /\ heard' = {h \in heard : h[2] # o}
    BY <1>1, <1>2, <1>4 DEF StopSyncObject
  <2>2. /\ MapsAgree(sync', gossips) /\ sync'.roots = [sync.roots EXCEPT ![o] = "none"]
        /\ \A r \in Objects, x \in Mutable :
             r # o => (<<r, x>> \in sync'.follows <=> <<r, x>> \in sync.follows)
    BY <1>1, <1>2, <2>1, RemoveRootKeeps
  <2>3. ASSUME NEW x \in Objects PROVE RootsAreUsed(x)'
    <3>1. sync'.roots[x] # "none" => gossip'
      BY <2>1
    <3>2. x = o => sync'.roots[x] = "none"
      BY <1>1, <2>2
    <3>3. x # o => sync'.roots[x] = sync.roots[x] /\ usage'[x] = usage[x]
      BY <1>1, <1>3, <2>2
    <3> QED
      BY <1>1, <2>1, <3>1, <3>2, <3>3 DEF RootsAreUsed
  <2>4. ASSUME NEW h \in heard' PROVE HeardIsFollowed(h)'
    <3>1. HeardIsFollowed(h) /\ h[1] \in Ops /\ h[2] \in Objects /\ h[2] # o
      BY <1>1, <2>1 DEF TypesAndCounts, TypeOK
    <3>2. /\ sync'.roots[h[2]] = sync.roots[h[2]]
          /\ \A x \in Mutable : <<h[2], x>> \in sync'.follows <=> <<h[2], x>> \in sync.follows
      BY <1>1, <2>2, <3>1
    <3>3. Target[h[1]] \in Mutable /\ Refers[h[1]] \subseteq Mutable
      BY <3>1, MeshFacts
    <3> QED
      BY <1>2, <3>1, <3>2, <3>3 DEF HeardIsFollowed
  <2> QED
    BY <1>2, <2>2, <2>3, <2>4 DEF NothingMissed
<1>5. CASE usage[o] # 1
  <2>1. UNCHANGED <<sync, gossip, heard>>
    BY <1>5 DEF StopSyncObject
  <2>2. usage'[o] > 0
    BY <1>1, <1>2, <1>5
  <2>3. ASSUME NEW x \in Objects PROVE RootsAreUsed(x)'
    BY <1>1, <1>2, <1>3, <2>1, <2>2 DEF RootsAreUsed
  <2> QED
    BY <1>1, <1>2, <2>1, <2>3 DEF NothingMissed, HeardIsFollowed
<1> QED
  BY <1>4, <1>5

LEMMA NewOpKeeps ==
    ASSUME TypesAndCounts, NothingMissed, NEW op \in Ops, NewOp(op)
    PROVE  NothingMissed'
<1>1. UNCHANGED <<usage, gossips, gossip, sync>> /\ loading \subseteq loading'
  BY DEF NewOp, usages
<1>2. ASSUME NEW h \in heard' PROVE HeardIsFollowed(h)'
  <2>1. CASE h \in heard
    BY <1>1, <2>1 DEF NothingMissed, HeardIsFollowed
  <2>2. CASE h \notin heard
    <3>1. PICK r \in Objects : /\ h = <<op, r>> /\ sync.roots[r] = "recursive"
                               /\ <<r, Target[op]>> \in sync.follows
      BY <2>2 DEF NewOp
    <3>2. Target[op] \in Watched(sync)
      BY <3>1, MeshFacts DEF NothingMissed, MapsAgree, WatchedExact, AskedForOps
    <3>3. PICK w \in sync.watched : w[1] = Target[op]
      BY <3>2 DEF Watched
    <3>4. <<w[2], op>> \in loading'
      BY <3>3 DEF NewOp
    <3> QED
      BY <1>1, <3>1, <3>4 DEF HeardIsFollowed
  <2> QED
    BY <2>1, <2>2
<1> QED
  BY <1>1, <1>2 DEF NothingMissed, RootsAreUsed

LEMMA TrackOpsKeeps ==
    ASSUME TypesAndCounts, NothingMissed, NEW c \in sync.tracking, TrackOps(c[1], c[2], c[3]), ~ late'
    PROVE  NothingMissed'
<1> DEFINE waiting == [sync EXCEPT !.tracking = @ \ {<<c[1], c[2], c[3]>>}]
           found   == \E op \in stored : Target[op] = c[2]
<1>1. /\ sync \in MapsType(gossips) /\ gossips \in Nat /\ MapsAgree(sync, gossips)
      /\ c[2] \in Mutable /\ c[3] \in Objects
  BY DEF TypesAndCounts, TypeOK, MapsType, NothingMissed
<1>2. /\ UNCHANGED <<usage, gossips, gossip, loading, heard>>
      /\ sync' = IF found THEN AddObject(waiting, c[1], c[2], c[3], "recursive") ELSE waiting
      /\ ~ (found /\ <<c[3], c[2]>> \notin sync.follows /\ TooLate(c[1], c[3]))
  BY DEF TrackOps, usages
<1>3. /\ waiting \in MapsType(gossips) /\ MapsAgree(waiting, gossips)
      /\ waiting.roots = sync.roots /\ waiting.follows = sync.follows
  BY <1>1, TrackingOnly
<1> HIDE DEF waiting, found
<1>4. MapsAgree(sync', gossips) /\ sync'.roots = sync.roots /\ sync.follows \subseteq sync'.follows
  <2>1. CASE sync' = waiting
    BY <1>3, <2>1
  <2>2. CASE sync' # waiting
    <3>1. /\ sync' = AddFull(waiting, c[1], Parts[c[2]], {c[3]}, "recursive")
          /\ ~ TooLate(c[1], c[3])
      BY <1>2, <1>3, <2>2 DEF AddObject
    <3>2. c[1] = gossips /\ gossip /\ sync.roots[c[3]] = "recursive"
      BY <3>1 DEF TooLate
    <3>3. gossips \in Nat \ {0} /\ Parts[c[2]] \in SUBSET Mutable /\ {c[3]} \in SUBSET Objects /\ {c[3]} # {}
      BY <1>1, <3>2, MeshFacts DEF TypesAndCounts
    <3>4. \A r \in {c[3]} : waiting.roots[r] = "recursive"
      BY <1>3, <3>2
    <3>5. sync' = AddFull(waiting, gossips, Parts[c[2]], {c[3]}, "recursive")
      BY <3>1, <3>2
    <3>6. FullyAdded(AddFull(waiting, gossips, Parts[c[2]], {c[3]}, "recursive"), gossips, waiting,
                     Parts[c[2]], {c[3]})
      BY <1>3, <3>3, <3>4, AddFullKeeps
    <3> QED
      BY <1>3, <3>5, <3>6 DEF FullyAdded
  <2> QED
    BY <2>1, <2>2
<1> QED
  BY <1>2, <1>4 DEF NothingMissed, RootsAreUsed, HeardIsFollowed

LEMMA NewOpLoadedKeeps ==
    ASSUME TypesAndCounts, NothingMissed, NEW l \in loading, NewOpLoaded(l[1], l[2]), ~ late'
    PROVE  NothingMissed'
<1> DEFINE op == l[2]
<1>1. /\ sync \in MapsType(gossips) /\ gossips \in Nat /\ MapsAgree(sync, gossips)
      /\ op \in Ops /\ Refers[op] \in SUBSET Mutable /\ Asking(op) \in SUBSET Objects
      /\ l = <<l[1], op>>
  BY MeshFacts DEF TypesAndCounts, TypeOK, NothingMissed, Asking
<1>2. /\ UNCHANGED <<usage, gossips, gossip, heard>>
      /\ loading' = loading \ {<<l[1], op>>}
      /\ sync' = IF Asking(op) = {} THEN sync ELSE AddFull(sync, l[1], Refers[op], Asking(op), "recursive")
      /\ \A r \in Asking(op) : ~ TooLate(l[1], r)
  BY DEF NewOpLoaded, usages
<1> HIDE DEF op
<1>3. /\ MapsAgree(sync', gossips) /\ sync'.roots = sync.roots
      /\ sync'.follows = sync.follows \cup (Asking(op) \X Refers[op])
  <2>1. CASE Asking(op) = {}
    BY <1>1, <1>2, <2>1
  <2>2. CASE Asking(op) # {}
    <3>1. l[1] = gossips /\ gossip
      BY <1>2, <2>2 DEF TooLate
    <3>2. gossips \in Nat \ {0}
      BY <1>1, <3>1 DEF TypesAndCounts
    <3>3. \A r \in Asking(op) : sync.roots[r] = "recursive"
      BY DEF Asking
    <3>4. sync' = AddFull(sync, gossips, Refers[op], Asking(op), "recursive")
      BY <1>2, <2>2, <3>1
    <3>5. FullyAdded(AddFull(sync, gossips, Refers[op], Asking(op), "recursive"), gossips, sync,
                     Refers[op], Asking(op))
      BY <1>1, <2>2, <3>2, <3>3, AddFullKeeps
    <3> QED
      BY <3>4, <3>5 DEF FullyAdded
  <2> QED
    BY <2>1, <2>2
<1>4. ASSUME NEW h \in heard PROVE HeardIsFollowed(h)'
  <2>1. HeardIsFollowed(h) /\ h[2] \in Objects
    BY DEF NothingMissed, TypesAndCounts, TypeOK
  <2>2. CASE h[1] = op
    <3>1. h[2] \in Asking(op)
      BY <2>1, <2>2 DEF HeardIsFollowed, Asking
    <3>2. \A o \in Refers[h[1]] : <<h[2], o>> \in sync'.follows
      BY <1>3, <2>2, <3>1
    <3> QED
      BY <1>3, <2>1, <3>2 DEF HeardIsFollowed
  <2>3. CASE h[1] # op
    <3>1. \A k \in loading : k[2] = h[1] => k \in loading'
      BY <1>2, <2>3
    <3> QED
      BY <1>3, <2>1, <3>1 DEF HeardIsFollowed
  <2> QED
    BY <2>2, <2>3
<1> QED
  BY <1>2, <1>3, <1>4 DEF NothingMissed, RootsAreUsed

LEMMA MeshStep ==
    ASSUME MeshInv, [Next]_vars
    PROVE  MeshInv'
<1>1. TypesAndCounts /\ TypesAndCounts'
  BY TypesStep DEF MeshInv
<1>2. ASSUME ~ late'
      PROVE  NothingMissed'
  <2>1. ~ late
    BY <1>2 DEF Next, JoinPeerGroup, LeavePeerGroup, SyncObject, StopSyncObject, NewOp, TrackOps,
                NewOpLoaded, vars
  <2>2. NothingMissed
    BY <2>1 DEF MeshInv
  <2>3. ASSUME UNCHANGED <<gossips, gossip, sync, loading, heard>>, \A o \in Objects : usage'[o] = usage[o]
        PROVE  NothingMissed'
    BY <2>2, <2>3 DEF NothingMissed, RootsAreUsed, HeardIsFollowed
  <2>4. CASE JoinPeerGroup \/ LeavePeerGroup
    BY <1>1, <2>3, <2>4, MeshAssumption DEF JoinPeerGroup, LeavePeerGroup, TypesAndCounts, TypeOK
  <2>5. CASE UNCHANGED vars
    BY <2>3, <2>5 DEF vars, usages
  <2>6. CASE \E o \in Objects, mode \in Modes : SyncObject(o, mode)
    BY <1>1, <2>2, <2>6, SyncKeeps
  <2>7. CASE \E o \in Objects : StopSyncObject(o)
    BY <1>1, <2>2, <2>7, StopKeeps
  <2>8. CASE \E op \in Ops : NewOp(op)
    BY <1>1, <2>2, <2>8, NewOpKeeps
  <2>9. CASE \E c \in sync.tracking : TrackOps(c[1], c[2], c[3])
    BY <1>1, <1>2, <2>2, <2>9, TrackOpsKeeps
  <2>10. CASE \E l \in loading : NewOpLoaded(l[1], l[2])
    BY <1>1, <1>2, <2>2, <2>10, NewOpLoadedKeeps
  <2> QED
    BY <2>4, <2>5, <2>6, <2>7, <2>8, <2>9, <2>10 DEF Next
<1> QED
  BY <1>1, <1>2 DEF MeshInv

LEMMA MeshInvariant == Spec => []MeshInv
<1>1. Init => MeshInv
  BY MeshInit
<1>2. MeshInv /\ [Next]_vars => MeshInv'
  BY MeshStep
<1> QED
  BY <1>1, <1>2, PTL DEF Spec

(* The maps, the tokens and the pending work of a mesh have their types,   *)
(* late or not (addRootSync(), removeRootSync(), trackOps() and the        *)
(* callback for new ops of Mesh.ts).                                       *)
THEOREM MeshTypes == Spec => []TypeOK
<1>1. MeshInv => TypeOK
  BY DEF MeshInv, TypesAndCounts
<1> QED
  BY <1>1, MeshInvariant, PTL

LEMMA InvSynced == MeshInv => SyncedWhileUsed
<1> SUFFICES ASSUME MeshInv, ~ late
             PROVE  SyncedWhileUsed
  BY DEF SyncedWhileUsed, UsedIsSynced, UnusedIsReleased
<1>1. /\ sync \in MapsType(gossips) /\ MapsAgree(sync, gossips)
      /\ sync.roots \in [Objects -> Modes \cup {"none"}]
      /\ \A o \in Objects : RootsAreUsed(o)
  BY DEF MeshInv, TypesAndCounts, TypeOK, NothingMissed, MapsType
<1>2. UsedIsSynced
  <2> SUFFICES ASSUME NEW o \in Objects, usage[o] > 0
               PROVE  LET wanted == IF sync.roots[o] = "single" THEN {o} \cap Mutable ELSE Parts[o] IN
                      /\ sync.roots[o] # "none" /\ gossip
                      /\ wanted \subseteq sync.agents
                      /\ {gossips} \X wanted \subseteq sync.tracked
    BY DEF UsedIsSynced
  <2> DEFINE wanted == IF sync.roots[o] = "single" THEN {o} \cap Mutable ELSE Parts[o]
  <2>1. sync.roots[o] # "none" /\ gossip
    BY <1>1 DEF RootsAreUsed
  <2>2. wanted \subseteq Mutable
    BY MeshFacts
  <2>3. ASSUME NEW x \in wanted PROVE Asked(sync, x)
    <3>1. CASE sync.roots[o] = "single"
      BY <2>1, <2>3, <3>1 DEF Asked
    <3>2. CASE sync.roots[o] # "single"
      BY <1>1, <2>1, <2>3, <3>2 DEF Asked, MapsAgree, RootsFollow, Modes
    <3> QED
      BY <3>1, <3>2
  <2>4. \A x \in wanted : x \in sync.agents /\ <<gossips, x>> \in sync.tracked
    BY <1>1, <2>2, <2>3 DEF MapsAgree, AgentsExact, TrackedExact
  <2>5. wanted \subseteq sync.agents /\ {gossips} \X wanted \subseteq sync.tracked
    <3> HIDE DEF wanted
    <3>1. ASSUME NEW c \in {gossips} \X wanted PROVE c \in sync.tracked
      <4>1. c = <<gossips, c[2]>> /\ c[2] \in wanted
        OBVIOUS
      <4> QED
        BY <2>4, <4>1
    <3> QED
      BY <2>4, <3>1
  <2> QED
    BY <2>1, <2>5, Zenon
<1>3. UnusedIsReleased
  <2>1. ASSUME NEW o \in sync.agents
        PROVE  \E r \in Objects : usage[r] > 0 /\ (r = o \/ <<r, o>> \in sync.follows)
    <3>1. o \in Mutable /\ o \in Objects /\ Asked(sync, o)
      BY <1>1, <2>1, MeshFacts DEF MapsType, MapsAgree, AgentsExact
    <3>2. CASE sync.roots[o] # "none"
      BY <1>1, <3>1, <3>2 DEF RootsAreUsed
    <3>3. ASSUME NEW r \in Objects, <<r, o>> \in sync.follows PROVE usage[r] > 0
      BY <1>1, <3>1, <3>3 DEF MapsAgree, RootsOnly, RootsAreUsed
    <3> QED
      BY <3>1, <3>2, <3>3 DEF Asked
  <2>2. ASSUME NEW o \in Watched(sync)
        PROVE  \E r \in Objects :
                 usage[r] > 0 /\ sync.roots[r] = "recursive" /\ <<r, o>> \in sync.follows
    <3>1. o \in Mutable
      BY <1>1, <2>2 DEF Watched, MapsType
    <3>2. AskedForOps(sync, o)
      BY <1>1, <3>1 DEF MapsAgree, WatchedExact
    <3> QED
      BY <1>1, <3>2 DEF AskedForOps, RootsAreUsed
  <2>3. ASSUME NEW c \in sync.tracked, c[1] = gossips PROVE c[2] \in sync.agents
    <3>1. c = <<gossips, c[2]>> /\ c[2] \in Mutable
      BY <1>1, <2>3 DEF MapsType
    <3> QED
      BY <1>1, <3>1 DEF MapsAgree, TrackedExact
  <2> QED
    BY <2>1, <2>2, <2>3 DEF UnusedIsReleased
<1> QED
  BY <1>2, <1>3 DEF SyncedWhileUsed

LEMMA InvFollowed == MeshInv => NewOpsAreFollowed
<1> SUFFICES ASSUME MeshInv, ~ late, NEW h \in heard, ~ \E l \in loading : l[2] = h[1]
             PROVE  /\ {h[2]} \X Refers[h[1]] \subseteq sync.follows
                    /\ Refers[h[1]] \subseteq sync.agents \cap Watched(sync)
  BY DEF NewOpsAreFollowed
<1>1. /\ MapsAgree(sync, gossips) /\ HeardIsFollowed(h)
      /\ h[1] \in Ops /\ h[2] \in Objects
  BY DEF MeshInv, TypesAndCounts, TypeOK, NothingMissed
<1>2. Refers[h[1]] \subseteq Mutable
  BY <1>1, MeshFacts
<1>3. \A o \in Refers[h[1]] : <<h[2], o>> \in sync.follows
  BY <1>1 DEF HeardIsFollowed
<1>4. \A o \in Refers[h[1]] : Asked(sync, o) /\ AskedForOps(sync, o)
  BY <1>1, <1>3 DEF Asked, AskedForOps, HeardIsFollowed
<1> QED
  BY <1>1, <1>2, <1>3, <1>4 DEF MapsAgree, AgentsExact, WatchedExact

(* While nothing is late, what the application holds a token of is         *)
(* synchronized, every mutable object it stands for with its agent and its *)
(* gossip, and what no token needs has been released (syncObject- and      *)
(* stopSyncObjectWithPeerGroup()).                                         *)
THEOREM MeshSyncedWhileUsed == Spec => []SyncedWhileUsed
<1> QED
  BY InvSynced, MeshInvariant, PTL

(* While nothing is late, an op that came for an object a recursive root   *)
(* followed is followed itself, with all the objects in its context, once  *)
(* its callback is through (watchForNewOps()).                             *)
THEOREM MeshFollowsNewOps == Spec => []NewOpsAreFollowed
<1> QED
  BY InvFollowed, MeshInvariant, PTL

-----------------------------------------------------------------------------
(* The queues.                                                             *)

Has(queue, type, i) == \E n \in 1..Len(queue) : queue[n].type = type /\ queue[n].id = i

EventFor(r, i) == r.type = "event" /\ r.id = i

\* What i has heard last is the value, when it hears this queue after last.
Hears(queue, i, last, value) ==
    \/ \E n \in 1..Len(queue) :
         queue[n] = Event(i, value) /\ \A m \in (n + 1)..Len(queue) : ~ EventFor(queue[m], i)
    \/ last = value /\ \A n \in 1..Len(queue) : ~ EventFor(queue[n], i)

\* The commands for i that are on their way: it is added once, and removed after that.
Queued(queue, i, of) ==
    \A n \in 1..Len(queue) : queue[n].id = i =>
      /\ queue[n].type = "add" =>
           /\ queue[n].given /\ queue[n].object = of
           /\ \A m \in 1..Len(queue) : m # n /\ queue[m].id = i =>
                /\ queue[m].type # "add"
                /\ queue[m].type = "remove" => m > n
      /\ queue[n].type = "remove" => of \in {queue[n].object, NoObject}

LEMMA HasAppend ==
    ASSUME NEW S, NEW q \in Seq(S), NEW e \in S, NEW type, NEW i
    PROVE  Has(Append(q, e), type, i) <=> Has(q, type, i) \/ (e.type = type /\ e.id = i)
<1> DEFINE p == Append(q, e)
<1>1. /\ Len(q) \in Nat /\ Len(p) = Len(q) + 1 /\ p[Len(q) + 1] = e
      /\ \A n \in 1..Len(q) : p[n] = q[n]
  BY AppendProperties, LenProperties
<1> HIDE DEF p
<1>2. \A n \in 1..Len(p) : n \in 1..Len(q) \/ n = Len(q) + 1
  BY <1>1
<1>3. \A n \in 1..Len(q) : n \in 1..Len(p)
  BY <1>1
<1>4. Len(q) + 1 \in 1..Len(p)
  BY <1>1
<1>5. Has(p, type, i) <=> Has(q, type, i) \/ (e.type = type /\ e.id = i)
  BY <1>1, <1>2, <1>3, <1>4 DEF Has
<1> QED
  BY <1>5 DEF p

LEMMA HasTail ==
    ASSUME NEW S, NEW q \in Seq(S), q # <<>>, NEW type, NEW i
    PROVE  Has(q, type, i) <=> Has(Tail(q), type, i) \/ (Head(q).type = type /\ Head(q).id = i)
<1> DEFINE p == Tail(q)
<1>1. /\ Len(q) \in Nat \ {0} /\ Len(p) = Len(q) - 1 /\ Head(q) = q[1]
      /\ \A n \in 1..Len(p) : p[n] = q[n + 1]
  BY HeadTailProperties, EmptySeq
<1> HIDE DEF p
<1>2. \A n \in 1..Len(p) : n + 1 \in 1..Len(q)
  BY <1>1
<1>3. \A n \in 1..Len(q) : n = 1 \/ (n - 1 \in 1..Len(p) /\ q[n] = p[n - 1])
  BY <1>1
<1>4. 1 \in 1..Len(q)
  BY <1>1
<1>5. Has(q, type, i) <=> Has(p, type, i) \/ (Head(q).type = type /\ Head(q).id = i)
  BY <1>1, <1>2, <1>3, <1>4 DEF Has
<1> QED
  BY <1>5 DEF p

LEMMA HasConcat ==
    ASSUME NEW S, NEW q \in Seq(S), NEW r \in Seq(S), NEW type, NEW i
    PROVE  Has(q \o r, type, i) <=> Has(q, type, i) \/ Has(r, type, i)
<1> DEFINE p == q \o r
<1>1. /\ Len(q) \in Nat /\ Len(r) \in Nat /\ Len(p) = Len(q) + Len(r)
      /\ \A n \in 1..(Len(q) + Len(r)) : p[n] = IF n <= Len(q) THEN q[n] ELSE r[n - Len(q)]
  BY ConcatProperties, LenProperties
<1> HIDE DEF p
<1>2. \A n \in 1..Len(q) : n \in 1..Len(p) /\ p[n] = q[n]
  BY <1>1
<1>3. \A n \in 1..Len(r) : n + Len(q) \in 1..Len(p) /\ p[n + Len(q)] = r[n]
  BY <1>1
<1>4. \A n \in 1..Len(p) : (n \in 1..Len(q) /\ p[n] = q[n])
                           \/ (n - Len(q) \in 1..Len(r) /\ p[n] = r[n - Len(q)])
  BY <1>1
<1>5. Has(p, type, i) => Has(q, type, i) \/ Has(r, type, i)
  BY <1>4 DEF Has
<1>6. Has(q, type, i) => Has(p, type, i)
  BY <1>2 DEF Has
<1>7. Has(r, type, i) => Has(p, type, i)
  <2>1. ASSUME NEW n \in 1..Len(r), r[n].type = type, r[n].id = i
        PROVE  Has(p, type, i)
    <3>1. n + Len(q) \in 1..Len(p) /\ p[n + Len(q)] = r[n]
      BY <1>3
    <3> QED
      BY <2>1, <3>1 DEF Has
  <2> QED
    BY <2>1 DEF Has
<1> QED
  BY <1>5, <1>6, <1>7 DEF p

(* What one more command, or one less, leaves of Queued.                   *)
LEMMA QueueAppend ==
    ASSUME NEW S, NEW q \in Seq(S), NEW c \in S, NEW i, NEW of, Queued(q, i, of),
           \/ c.type \notin {"add", "remove"} \/ c.id # i
           \/ c.type = "remove" /\ c.object = of
    PROVE  Queued(Append(q, c), i, of)
<1> DEFINE p == Append(q, c)
<1>1. /\ Len(q) \in Nat /\ Len(p) = Len(q) + 1 /\ p[Len(q) + 1] = c
      /\ \A n \in 1..Len(q) : p[n] = q[n]
  BY AppendProperties, LenProperties
<1> HIDE DEF p
<1>2. \A n \in 1..Len(p) : n \in 1..Len(q) \/ n = Len(q) + 1
  BY <1>1
<1>3. \A n \in 1..Len(q) : Len(q) + 1 > n
  BY <1>1
<1>4. Queued(p, i, of)
  BY <1>1, <1>2, <1>3 DEF Queued
<1> QED
  BY <1>4 DEF p

LEMMA QueueAdd ==
    ASSUME NEW S, NEW q \in Seq(S), NEW c \in S, NEW i,
           ~ Has(q, "add", i), ~ Has(q, "remove", i),
           c.type = "add", c.id = i, c.given
    PROVE  Queued(Append(q, c), i, c.object)
<1> DEFINE p == Append(q, c)
<1>1. /\ Len(q) \in Nat /\ Len(p) = Len(q) + 1 /\ p[Len(q) + 1] = c
      /\ \A n \in 1..Len(q) : p[n] = q[n]
  BY AppendProperties, LenProperties
<1> HIDE DEF p
<1>2. \A n \in 1..Len(p) : n \in 1..Len(q) \/ n = Len(q) + 1
  BY <1>1
<1>3. \A n \in 1..Len(q) : p[n].id = i => p[n].type \notin {"add", "remove"}
  BY <1>1 DEF Has
<1>4. Queued(p, i, c.object)
  BY <1>1, <1>2, <1>3 DEF Queued
<1> QED
  BY <1>4 DEF p

LEMMA QueueTail ==
    ASSUME NEW S, NEW q \in Seq(S), q # <<>>, NEW i, NEW of, Queued(q, i, of)
    PROVE  /\ Queued(Tail(q), i, of)
           /\ Head(q).id = i /\ Head(q).type = "add" =>
                Head(q).given /\ Head(q).object = of /\ ~ Has(Tail(q), "add", i)
           /\ Head(q).id = i /\ Head(q).type = "remove" =>
                of \in {Head(q).object, NoObject} /\ ~ Has(Tail(q), "add", i)
<1> DEFINE p == Tail(q)
<1>1. /\ Len(q) \in Nat \ {0} /\ Len(p) = Len(q) - 1 /\ Head(q) = q[1]
      /\ \A n \in 1..Len(p) : p[n] = q[n + 1]
  BY HeadTailProperties, EmptySeq
<1> HIDE DEF p
<1>2. \A n \in 1..Len(p) : n + 1 \in 1..Len(q) /\ n + 1 # 1 /\ ~ 1 > n + 1
  BY <1>1
<1>3. \A m, n \in 1..Len(p) : (m # n => m + 1 # n + 1) /\ (m + 1 > n + 1 => m > n)
  BY <1>1
<1>4. Queued(p, i, of)
  <2>1. ASSUME NEW n \in 1..Len(p), p[n].id = i
        PROVE  /\ p[n].type = "remove" => of \in {p[n].object, NoObject}
               /\ p[n].type = "add" => p[n].given /\ p[n].object = of
    BY <1>1, <1>2, <2>1 DEF Queued
  <2>2. ASSUME NEW n \in 1..Len(p), p[n].id = i, p[n].type = "add",
               NEW m \in 1..Len(p), m # n, p[m].id = i
        PROVE  p[m].type # "add" /\ (p[m].type = "remove" => m > n)
    <3>1. p[n] = q[n + 1] /\ p[m] = q[m + 1] /\ n + 1 \in 1..Len(q) /\ m + 1 \in 1..Len(q)
      BY <1>1, <1>2
    <3>2. m + 1 # n + 1 /\ (m + 1 > n + 1 => m > n)
      BY <1>3, <2>2
    <3>3. q[m + 1].type # "add" /\ (q[m + 1].type = "remove" => m + 1 > n + 1)
      BY <2>2, <3>1, <3>2 DEF Queued
    <3> QED
      BY <3>1, <3>2, <3>3
  <2> QED
    BY <2>1, <2>2 DEF Queued
<1>5. 1 \in 1..Len(q)
  BY <1>1
<1>6. Head(q).id = i /\ Head(q).type = "add" =>
        Head(q).given /\ Head(q).object = of /\ ~ Has(p, "add", i)
  BY <1>1, <1>2, <1>5 DEF Queued, Has
<1>7. Head(q).id = i /\ Head(q).type = "remove" =>
        of \in {Head(q).object, NoObject} /\ ~ Has(p, "add", i)
  BY <1>1, <1>2, <1>5 DEF Queued, Has
<1> QED
  BY <1>4, <1>6, <1>7 DEF p

LEMMA QueueForgotten ==
    ASSUME NEW q, NEW i, NEW of, Queued(q, i, of), ~ Has(q, "add", i)
    PROVE  Queued(q, i, NoObject)
BY DEF Queued, Has

(* What one more reply, or one less, leaves of Hears.                      *)
LEMMA HearsSame ==
    ASSUME NEW S, NEW q \in Seq(S), NEW r \in Seq(S), NEW i, NEW last, NEW value,
           Hears(q, i, last, value), \A n \in 1..Len(r) : ~ EventFor(r[n], i)
    PROVE  Hears(q \o r, i, last, value)
<1> DEFINE p == q \o r
<1>1. /\ Len(q) \in Nat /\ Len(r) \in Nat /\ Len(p) = Len(q) + Len(r)
      /\ \A n \in 1..(Len(q) + Len(r)) : p[n] = IF n <= Len(q) THEN q[n] ELSE r[n - Len(q)]
  BY ConcatProperties, LenProperties
<1> HIDE DEF p
<1>2. \A n \in 1..Len(q) : n \in 1..Len(p) /\ p[n] = q[n]
  BY <1>1
<1>3. \A n \in 1..Len(p) : (n \in 1..Len(q) /\ p[n] = q[n])
                           \/ (n > Len(q) /\ ~ EventFor(p[n], i))
  BY <1>1
<1>4. CASE last = value /\ \A n \in 1..Len(q) : ~ EventFor(q[n], i)
  <2>1. Hears(p, i, last, value)
    BY <1>3, <1>4 DEF Hears
  <2> QED
    BY <2>1 DEF p
<1>5. ASSUME NEW n \in 1..Len(q), q[n] = Event(i, value),
             \A m \in (n + 1)..Len(q) : ~ EventFor(q[m], i)
      PROVE  Hears(q \o r, i, last, value)
  <2>1. ASSUME NEW m \in (n + 1)..Len(p) PROVE ~ EventFor(p[m], i)
    <3>1. m \in 1..Len(p) /\ (m \in 1..Len(q) => m \in (n + 1)..Len(q))
      BY <1>1
    <3> QED
      BY <1>3, <1>5, <3>1
  <2>2. Hears(p, i, last, value)
    BY <1>2, <1>5, <2>1 DEF Hears
  <2> QED
    BY <2>2 DEF p
<1> QED
  BY <1>4, <1>5 DEF Hears

LEMMA HearsNew ==
    ASSUME NEW S, NEW q \in Seq(S), NEW r \in Seq(S), NEW i, NEW last, NEW value,
           NEW k \in 1..Len(r), r[k] = Event(i, value),
           \A n \in (k + 1)..Len(r) : ~ EventFor(r[n], i)
    PROVE  Hears(q \o r, i, last, value)
<1> DEFINE p == q \o r
<1>1. /\ Len(q) \in Nat /\ Len(r) \in Nat /\ Len(p) = Len(q) + Len(r)
      /\ \A n \in 1..(Len(q) + Len(r)) : p[n] = IF n <= Len(q) THEN q[n] ELSE r[n - Len(q)]
  BY ConcatProperties, LenProperties
<1> HIDE DEF p
<1>2. k + Len(q) \in 1..Len(p) /\ p[k + Len(q)] = Event(i, value)
  BY <1>1
<1>3. ASSUME NEW n \in (k + Len(q) + 1)..Len(p) PROVE ~ EventFor(p[n], i)
  <2>1. n - Len(q) \in (k + 1)..Len(r) /\ p[n] = r[n - Len(q)]
    BY <1>1
  <2> QED
    BY <2>1
<1>4. Hears(p, i, last, value)
  BY <1>2, <1>3 DEF Hears
<1> QED
  BY <1>4 DEF p

LEMMA HearsTail ==
    ASSUME NEW S, NEW q \in Seq(S), q # <<>>, NEW i, NEW last, NEW value,
           Hears(q, i, last, value)
    PROVE  Hears(Tail(q), i, IF EventFor(Head(q), i) THEN Head(q).status ELSE last, value)
<1> DEFINE p   == Tail(q)
           now == IF EventFor(Head(q), i) THEN Head(q).status ELSE last
<1>1. /\ Len(q) \in Nat \ {0} /\ Len(p) = Len(q) - 1 /\ Head(q) = q[1]
      /\ \A n \in 1..Len(p) : p[n] = q[n + 1]
  BY HeadTailProperties, EmptySeq
<1> HIDE DEF p, now
<1>2. \A n \in 1..Len(p) : n + 1 \in 1..Len(q)
  BY <1>1
<1>3. Hears(p, i, now, value)
  <2>1. CASE last = value /\ \A n \in 1..Len(q) : ~ EventFor(q[n], i)
    <3>1. ~ EventFor(Head(q), i)
      BY <1>1, <2>1
    <3> QED
      BY <1>1, <1>2, <2>1, <3>1 DEF Hears, now
  <2>2. ASSUME NEW n \in 1..Len(q), q[n] = Event(i, value),
               \A m \in (n + 1)..Len(q) : ~ EventFor(q[m], i)
        PROVE  Hears(p, i, now, value)
    <3>1. CASE n = 1
      <4>1. EventFor(Head(q), i) /\ now = value
        BY <1>1, <2>2, <3>1 DEF Event, EventFor, now
      <4>2. \A m \in 1..Len(p) : ~ EventFor(p[m], i)
        <5>1. \A m \in 1..Len(p) : m + 1 \in (n + 1)..Len(q)
          BY <1>1, <3>1
        <5> QED
          BY <1>1, <2>2, <5>1
      <4> QED
        BY <4>1, <4>2 DEF Hears
    <3>2. CASE n # 1
      <4>1. n - 1 \in 1..Len(p) /\ p[n - 1] = Event(i, value)
        BY <1>1, <2>2, <3>2
      <4>2. ASSUME NEW m \in ((n - 1) + 1)..Len(p) PROVE ~ EventFor(p[m], i)
        <5>1. m + 1 \in (n + 1)..Len(q) /\ p[m] = q[m + 1]
          BY <1>1
        <5> QED
          BY <2>2, <5>1
      <4> QED
        BY <4>1, <4>2 DEF Hears
    <3> QED
      BY <3>1, <3>2
  <2> QED
    BY <2>1, <2>2 DEF Hears
<1> QED
  BY <1>3 DEF p, now

-----------------------------------------------------------------------------
(* The types of what there is at the level of the mesh.                    *)
Commands ==
    [type : {"join", "leave"}] \cup [type : {"sync", "stop"}, object : Objects]
      \cup [type : {"add", "remove"}, id : Ids, object : Mutable, given : BOOLEAN]
Replies ==
    [type : {"event"}, id : Ids, status : 0..(MaxUpdates + 1)] \cup [type : {"added", "removed"}, id : Ids]
Outcomes == {"none", "adding", "added", "removing", "removed", "failed"}
PageType ==
    [held : [Objects \cup {Group} -> Int],
     of : [Ids -> Mutable \cup {NoObject}], fn : [Ids -> Observers \cup {NoObject}],
     ids : [Observers -> {0} \cup Ids], adding : SUBSET Ids, removing : SUBSET Ids,
     outcome : [Ids -> Outcomes], heard : [Ids -> 0..Unheard]]

RemoteTypeOK ==
    /\ commands \in Seq(Commands) /\ replies \in Seq(Replies)
    /\ page \in PageType
    /\ host \subseteq Ids /\ relays \in [Mutable -> SUBSET Ids]
    /\ chained \subseteq Mutable /\ updates \in [Mutable -> 0..MaxUpdates]

(* A sequence of the members of a finite set, each of them once.           *)
LEMMA SeqOfSet ==
    ASSUME NEW S, IsFiniteSet(S), NEW r, r = SetToSeq(S)
    PROVE  /\ r \in Seq(S)
           /\ \A m, n \in 1..Len(r) : r[m] = r[n] => m = n
           /\ \A x \in S : \E n \in 1..Len(r) : r[n] = x
<1> DEFINE c == Cardinality(S)
<1>1. c \in Nat /\ ExistsBijection(1..c, S)
  BY FS_CardinalityType
<1>2. PICK f \in [1..c -> S] : IsInjective(f)
  BY <1>1 DEF ExistsBijection, Bijection, Injection
<1>3. r \in [1..c -> S] /\ IsInjective(r)
  BY <1>2 DEF SetToSeq
<1>4. r \in Seq(S)
  BY <1>1, <1>3, SeqDef
<1>5. Len(r) = c
  <2>1. Len(r) \in Nat /\ DOMAIN r = 1..Len(r) /\ DOMAIN r = 1..c
    BY <1>3, <1>4, LenProperties
  <2> QED
    BY <1>1, <2>1
<1>6. r \in Injection(1..c, S)
  BY <1>3 DEF Injection
<1>7. Cardinality(1..c) = c
  BY <1>1, FS_Interval
<1>8. r \in Surjection(1..c, S)
  BY <1>6, <1>7, FS_Injection
<1> HIDE DEF c
<1> QED
  BY <1>3, <1>4, <1>5, <1>8 DEF IsInjective, Surjection

\* What the observers of the objects are sent.
Told(r, objs, value) ==
    /\ r \in Seq(Replies)
    /\ \A n \in 1..Len(r) : r[n].type = "event"
    /\ \A i \in Ids : (\A o \in objs : i \notin relays[o]) => \A n \in 1..Len(r) : ~ EventFor(r[n], i)
    /\ \A i \in Ids : \A o \in objs : i \in relays[o] =>
         \E k \in 1..Len(r) :
           r[k] = Event(i, value) /\ \A n \in (k + 1)..Len(r) : ~ EventFor(r[n], i)

LEMMA EmitTells ==
    ASSUME relays \in [Mutable -> SUBSET Ids], NEW objs \in SUBSET Mutable,
           NEW value \in 0..(MaxUpdates + 1)
    PROVE  Told(SetToSeq(Emit(objs, value)), objs, value)
<1> DEFINE X == UNION {relays[o] : o \in objs}
           S == Emit(objs, value)
           r == SetToSeq(S)
<1>1. X \subseteq Ids /\ S = {Event(i, value) : i \in X}
  BY DEF Emit
<1>2. IsFiniteSet(X)
  <2>1. IsFiniteSet(Ids)
    BY FS_Interval, RemoteAssumption DEF Ids
  <2> QED
    BY <1>1, <2>1, FS_Subset
<1>3. \A i \in Ids : i \in X <=> \E o \in objs : i \in relays[o]
  OBVIOUS
<1> HIDE DEF X, S
<1>4. IsFiniteSet(S)
  <2> DEFINE f == [i \in X |-> Event(i, value)]
  <2>1. f \in Surjection(X, S)
    BY <1>1 DEF Surjection
  <2> QED
    BY <1>2, <2>1, FS_Surjection
<1>5. /\ r \in Seq(S)
      /\ \A m, n \in 1..Len(r) : r[m] = r[n] => m = n
      /\ \A x \in S : \E n \in 1..Len(r) : r[n] = x
  BY <1>4, SeqOfSet
<1> HIDE DEF r
<1>6. S \subseteq Replies
  BY <1>1 DEF Event, Replies
<1>7. ASSUME NEW n \in 1..Len(r)
      PROVE  \E i \in X : r[n] = Event(i, value)
  BY <1>1, <1>5, ElementOfSeq
<1>8. r \in Seq(Replies)
  BY <1>5, <1>6, SeqMonotonic
<1>9. ASSUME NEW n \in 1..Len(r) PROVE r[n].type = "event"
  <2>1. PICK j \in X : r[n] = Event(j, value)
    BY <1>7
  <2> QED
    BY <2>1 DEF Event
<1>10. ASSUME NEW i \in Ids, \A o \in objs : i \notin relays[o], NEW n \in 1..Len(r)
       PROVE  ~ EventFor(r[n], i)
  <2>1. PICK j \in X : r[n] = Event(j, value)
    BY <1>7
  <2> QED
    BY <1>3, <1>10, <2>1 DEF Event, EventFor
<1>11. ASSUME NEW i \in Ids, NEW o \in objs, i \in relays[o]
       PROVE  \E k \in 1..Len(r) :
                r[k] = Event(i, value) /\ \A n \in (k + 1)..Len(r) : ~ EventFor(r[n], i)
  <2>1. Event(i, value) \in S
    BY <1>1, <1>3, <1>11
  <2>2. PICK k \in 1..Len(r) : r[k] = Event(i, value)
    BY <1>5, <2>1
  <2>3. ASSUME NEW n \in (k + 1)..Len(r), EventFor(r[n], i)
        PROVE  FALSE
    <3>1. n \in 1..Len(r) /\ n # k
      BY <1>5, LenProperties
    <3>2. PICK j \in X : r[n] = Event(j, value)
      BY <1>7, <3>1
    <3>3. j = i
      BY <2>3, <3>2 DEF Event, EventFor
    <3> QED
      BY <1>5, <2>2, <3>1, <3>2, <3>3
  <2> QED
    BY <2>2, <2>3
<1>12. Told(r, objs, value)
  BY <1>8, <1>9, <1>10, <1>11 DEF Told
<1> QED
  BY <1>12 DEF r, S

-----------------------------------------------------------------------------
(* The inductive invariant of the observers, for each of their ids.        *)

\* An id that was not given out is known nowhere.
Fresh(i) ==
    page.outcome[i] = "none" =>
      /\ ~ Has(commands, "add", i) /\ ~ Has(commands, "remove", i) /\ ~ Has(replies, "removed", i)
      /\ i \notin host /\ page.fn[i] = NoObject

\* A function has one id.
OneFunction(i) == \A w \in Observers : page.fn[i] = w <=> page.ids[w] = i

\* Before it is added at the host, nobody there knows it, and after it was
\* removed nobody does.
Commanded(i) ==
    /\ Queued(commands, i, page.of[i])
    /\ Has(commands, "add", i) => i \notin host /\ ~ Has(replies, "removed", i)
    /\ Has(replies, "removed", i) => i \notin host

\* A relay has it for the object the page has it for, and what it has heard
\* last will be the state of that object.
Relayed(i) ==
    \A o \in Mutable : i \in relays[o] =>
      i \in host /\ page.of[i] = o /\ Hears(replies, i, page.heard[i], Status(o))

\* One that nobody asked to remove is on its way to the relay, or there.
Kept(i) ==
    page.outcome[i] \in {"adding", "added"} =>
      /\ ~ Has(commands, "remove", i) /\ ~ Has(replies, "removed", i)
      /\ page.of[i] \in Mutable
      /\ Has(commands, "add", i) \/ i \in relays[page.of[i]]

ObserverInv(i) == Fresh(i) /\ OneFunction(i) /\ Commanded(i) /\ Relayed(i) /\ Kept(i)

AgentInv(o) ==
    /\ o \in chained <=> o \in sync.agents /\ relays[o] # {}
    /\ o \notin sync.agents => updates[o] = 0

\* A mesh that is used directly has none of it.
DirectInv ==
    ~ proxied =>
      /\ commands = <<>> /\ replies = <<>>
      /\ \A o \in Mutable : relays[o] = {} /\ updates[o] = 0
      /\ \A i \in Ids : page.outcome[i] \notin {"adding", "added"}

RemoteInv ==
    RemoteTypeOK /\ DirectInv /\ (\A i \in Ids : ObserverInv(i)) /\ (\A o \in Mutable : AgentInv(o))

LEMMA IdsFacts == Ids \subseteq Nat /\ 0 \notin Ids /\ NoObject \notin Mutable /\ NoObject \notin Observers
BY RemoteAssumption DEF Ids, NoObject

LEMMA PageRecord ==
    ASSUME NEW p \in PageType
    PROVE  /\ p = [held |-> p.held, of |-> p.of, fn |-> p.fn, ids |-> p.ids, adding |-> p.adding,
                   removing |-> p.removing, outcome |-> p.outcome, heard |-> p.heard]
           /\ p.held \in [Objects \cup {Group} -> Int]
           /\ p.of \in [Ids -> Mutable \cup {NoObject}] /\ p.fn \in [Ids -> Observers \cup {NoObject}]
           /\ p.ids \in [Observers -> {0} \cup Ids]
           /\ p.adding \in SUBSET Ids /\ p.removing \in SUBSET Ids
           /\ p.outcome \in [Ids -> Outcomes] /\ p.heard \in [Ids -> 0..Unheard]
BY DEF PageType

(* What an action keeps of an observer it is not about.                    *)
LEMMA ObserverFrame ==
    ASSUME NEW i \in Ids, ObserverInv(i),
           Queued(commands', i, page.of[i]),
           Has(commands', "add", i) <=> Has(commands, "add", i),
           Has(commands', "remove", i) => Has(commands, "remove", i),
           Has(replies', "removed", i) => Has(replies, "removed", i),
           i \in host' <=> i \in host,
           \A o \in Mutable : i \in relays'[o] <=> i \in relays[o],
           page'.of[i] = page.of[i], page'.fn[i] = page.fn[i], OneFunction(i)',
           \/ page'.outcome[i] = page.outcome[i]
           \/ page'.outcome[i] \notin {"none", "adding", "added"}
           \/ page.outcome[i] = "adding" /\ page'.outcome[i] = "added",
           \A o \in Mutable : i \in relays[o] => Hears(replies', i, page'.heard[i], Status(o)')
    PROVE  ObserverInv(i)'
<1>1. Fresh(i)'
  BY DEF ObserverInv, Fresh
<1>2. Commanded(i)'
  BY DEF ObserverInv, Commanded
<1>3. Relayed(i)'
  BY DEF ObserverInv, Relayed
<1>4. Kept(i)'
  BY DEF ObserverInv, Kept
<1> QED
  BY <1>1, <1>2, <1>3, <1>4 DEF ObserverInv

(* The page: what it holds, and what becomes of the promises.              *)
LEMMA HeldFields ==
    ASSUME page \in PageType, NEW k \in Objects \cup {Group}, NEW d \in Int,
           Held(k, d)
    PROVE  /\ page' \in PageType /\ page'.of = page.of /\ page'.fn = page.fn /\ page'.ids = page.ids
           /\ page'.outcome = page.outcome /\ page'.heard = page.heard
<1>1. page' = [held |-> [page.held EXCEPT ![k] = @ + d], of |-> page.of, fn |-> page.fn, ids |-> page.ids,
           adding |-> page.adding, removing |-> page.removing, outcome |-> page.outcome, heard |-> page.heard]
  BY PageRecord DEF Held
<1>2. [page.held EXCEPT ![k] = @ + d] \in [Objects \cup {Group} -> Int]
  BY PageRecord
<1>3. page' \in PageType
  BY <1>1, <1>2, PageRecord DEF PageType
<1> QED
  BY <1>1, <1>3

Settle(adding, removing, i, result) ==
    page' = [held |-> page.held, of |-> page.of, fn |-> page.fn, ids |-> page.ids,
             adding |-> adding, removing |-> removing,
             outcome |-> [page.outcome EXCEPT ![i] = result], heard |-> page.heard]
HearStatus(i, value) == page' = [page EXCEPT !.heard[i] = value]
GiveId(i, w, o) ==
    page' = [page EXCEPT !.of[i] = o, !.fn[i] = w, !.ids[w] = i, !.adding = @ \cup {i},
                         !.outcome[i] = "adding"]
ForgetId(i) ==
    page' = [Forget(page, i) EXCEPT !.removing = @ \ {i}, !.outcome[i] = "removed"]

LEMMA OutcomeFields ==
    ASSUME page \in PageType, NEW i \in Ids, NEW adding \in SUBSET Ids, NEW removing \in SUBSET Ids,
           NEW result \in Outcomes, Settle(adding, removing, i, result)
    PROVE  /\ page' \in PageType /\ page'.of = page.of /\ page'.fn = page.fn
           /\ page'.ids = page.ids /\ page'.heard = page.heard
           /\ page'.outcome = [page.outcome EXCEPT ![i] = result]
<1> DEFINE outcome == [page.outcome EXCEPT ![i] = result]
<1>1. outcome \in [Ids -> Outcomes]
  BY PageRecord
<1>2. page' = [held |-> page.held, of |-> page.of, fn |-> page.fn, ids |-> page.ids,
               adding |-> adding, removing |-> removing, outcome |-> outcome, heard |-> page.heard]
  BY DEF Settle
<1> HIDE DEF outcome
<1>3. page' \in PageType
  BY <1>1, <1>2, PageRecord DEF PageType
<1> QED
  BY <1>2, <1>3 DEF outcome

\* A promise is settled, or made.
SettleAdding(i, result)           == page' = [page EXCEPT !.adding = @ \ {i}, !.outcome[i] = result]
SettleRemoving(removing, i, result) == page' = [page EXCEPT !.removing = removing, !.outcome[i] = result]

LEMMA SettleFields ==
    ASSUME page \in PageType, NEW i \in Ids, NEW result
    PROVE  /\ SettleAdding(i, result) => Settle(page.adding \ {i}, page.removing, i, result)
           /\ \A removing : SettleRemoving(removing, i, result) => Settle(page.adding, removing, i, result)
<1> DEFINE outcome == [page.outcome EXCEPT ![i] = result]
<1>1. page = [held |-> page.held, of |-> page.of, fn |-> page.fn, ids |-> page.ids,
              adding |-> page.adding, removing |-> page.removing, outcome |-> page.outcome,
              heard |-> page.heard]
  BY PageRecord
<1>2. ASSUME SettleAdding(i, result)
      PROVE  Settle(page.adding \ {i}, page.removing, i, result)
  <2>1. page' = [page EXCEPT !.adding = page.adding \ {i}, !.outcome = outcome]
    BY <1>2 DEF SettleAdding
  <2> HIDE DEF outcome
  <2>2. page' = [held |-> page.held, of |-> page.of, fn |-> page.fn, ids |-> page.ids,
                 adding |-> page.adding \ {i}, removing |-> page.removing, outcome |-> outcome,
                 heard |-> page.heard]
    BY ONLY <1>1, <2>1
  <2> QED
    BY <2>2 DEF Settle, outcome
<1>3. ASSUME NEW removing, SettleRemoving(removing, i, result)
      PROVE  Settle(page.adding, removing, i, result)
  <2>1. page' = [page EXCEPT !.removing = removing, !.outcome = outcome]
    BY <1>3 DEF SettleRemoving
  <2> HIDE DEF outcome
  <2>2. page' = [held |-> page.held, of |-> page.of, fn |-> page.fn, ids |-> page.ids,
                 adding |-> page.adding, removing |-> removing, outcome |-> outcome,
                 heard |-> page.heard]
    BY ONLY <1>1, <2>1
  <2> QED
    BY <2>2 DEF Settle, outcome
<1> QED
  BY <1>2, <1>3

LEMMA HeardFields ==
    ASSUME page \in PageType, NEW i \in Ids, NEW value \in 0..Unheard,
           HearStatus(i, value)
    PROVE  /\ page' \in PageType /\ page'.of = page.of /\ page'.fn = page.fn
           /\ page'.ids = page.ids /\ page'.outcome = page.outcome
           /\ page'.heard = [page.heard EXCEPT ![i] = value]
<1>1. page' = [held |-> page.held, of |-> page.of, fn |-> page.fn, ids |-> page.ids, adding |-> page.adding,
           removing |-> page.removing, outcome |-> page.outcome, heard |-> [page.heard EXCEPT ![i] = value]]
  BY PageRecord DEF HearStatus
<1>2. [page.heard EXCEPT ![i] = value] \in [Ids -> 0..Unheard]
  BY PageRecord
<1>3. page' \in PageType
  BY <1>1, <1>2, PageRecord DEF PageType
<1> QED
  BY <1>1, <1>3

LEMMA NewIdFields ==
    ASSUME page \in PageType, NEW i \in Ids, NEW w \in Observers, NEW o \in Mutable,
           GiveId(i, w, o)
    PROVE  /\ page' \in PageType /\ page'.heard = page.heard
           /\ page'.of = [page.of EXCEPT ![i] = o] /\ page'.fn = [page.fn EXCEPT ![i] = w]
           /\ page'.ids = [page.ids EXCEPT ![w] = i] /\ page'.outcome = [page.outcome EXCEPT ![i] = "adding"]
<1> DEFINE of      == [page.of EXCEPT ![i] = o]
           fn      == [page.fn EXCEPT ![i] = w]
           ids     == [page.ids EXCEPT ![w] = i]
           outcome == [page.outcome EXCEPT ![i] = "adding"]
<1>0. page = [held |-> page.held, of |-> page.of, fn |-> page.fn, ids |-> page.ids,
              adding |-> page.adding, removing |-> page.removing, outcome |-> page.outcome,
              heard |-> page.heard]
  BY PageRecord
<1>1. page' = [page EXCEPT !.of = of, !.fn = fn, !.ids = ids,
                           !.adding = page.adding \cup {i}, !.outcome = outcome]
  BY DEF GiveId
<1>2. /\ of \in [Ids -> Mutable \cup {NoObject}] /\ fn \in [Ids -> Observers \cup {NoObject}]
      /\ ids \in [Observers -> {0} \cup Ids] /\ outcome \in [Ids -> Outcomes]
  BY PageRecord DEF Outcomes
<1> HIDE DEF of, fn, ids, outcome
<1>3. page' = [held |-> page.held, of |-> of, fn |-> fn, ids |-> ids, adding |-> page.adding \cup {i},
           removing |-> page.removing, outcome |-> outcome, heard |-> page.heard]
  BY <1>0, <1>1
<1>4. page' \in PageType
  BY <1>2, <1>3, PageRecord DEF PageType
<1>5. page'.heard = page.heard /\ page'.of = of /\ page'.fn = fn /\ page'.ids = ids /\ page'.outcome = outcome
  BY ONLY <1>3
<1> QED
  BY <1>4, <1>5, Zenon DEF of, fn, ids, outcome

LEMMA ForgetFields ==
    ASSUME page \in PageType, NEW i \in Ids,
           ForgetId(i)
    PROVE  /\ page' \in PageType /\ page'.heard = page.heard
           /\ page'.of = [page.of EXCEPT ![i] = NoObject] /\ page'.fn = [page.fn EXCEPT ![i] = NoObject]
           /\ page'.ids = [v \in Observers |-> IF v = page.fn[i] THEN 0 ELSE page.ids[v]]
           /\ page'.outcome = [page.outcome EXCEPT ![i] = "removed"]
<1> DEFINE of      == [page.of EXCEPT ![i] = NoObject]
           fn      == [page.fn EXCEPT ![i] = NoObject]
           ids     == [v \in Observers |-> IF v = page.fn[i] THEN 0 ELSE page.ids[v]]
           outcome == [page.outcome EXCEPT ![i] = "removed"]
           f       == Forget(page, i)
<1>0. page = [held |-> page.held, of |-> page.of, fn |-> page.fn, ids |-> page.ids,
              adding |-> page.adding, removing |-> page.removing, outcome |-> page.outcome,
              heard |-> page.heard]
  BY PageRecord
<1>1. f = [page EXCEPT !.of = of, !.fn = fn, !.ids = ids]
  BY DEF Forget
<1>2. /\ of \in [Ids -> Mutable \cup {NoObject}] /\ fn \in [Ids -> Observers \cup {NoObject}]
      /\ ids \in [Observers -> {0} \cup Ids] /\ outcome \in [Ids -> Outcomes]
  BY PageRecord DEF Outcomes
<1> HIDE DEF of, fn, ids, f
<1>3. f = [held |-> page.held, of |-> of, fn |-> fn, ids |-> ids, adding |-> page.adding,
           removing |-> page.removing, outcome |-> page.outcome, heard |-> page.heard]
  BY <1>0, <1>1
<1>4. page' = [f EXCEPT !.removing = page.removing \ {i}, !.outcome = outcome]
  BY <1>3 DEF f, ForgetId
<1> HIDE DEF outcome
<1>5. page' = [held |-> page.held, of |-> of, fn |-> fn, ids |-> ids, adding |-> page.adding,
           removing |-> page.removing \ {i}, outcome |-> outcome, heard |-> page.heard]
  BY <1>3, <1>4
<1>6. page' \in PageType
  BY <1>2, <1>5, PageRecord DEF PageType
<1>7. page'.heard = page.heard /\ page'.of = of /\ page'.fn = fn /\ page'.ids = ids /\ page'.outcome = outcome
  BY ONLY <1>5
<1> QED
  BY <1>6, <1>7, Zenon DEF of, fn, ids, outcome

-----------------------------------------------------------------------------
(* The actions of the page keep it.                                        *)

LEMMA TypesOfRemote ==
    ASSUME RemoteTypeOK
    PROVE  /\ commands \in Seq(Commands) /\ replies \in Seq(Replies) /\ page \in PageType
           /\ host \subseteq Ids /\ relays \in [Mutable -> SUBSET Ids]
           /\ chained \subseteq Mutable /\ updates \in [Mutable -> 0..MaxUpdates]
           /\ page.of \in [Ids -> Mutable \cup {NoObject}] /\ page.fn \in [Ids -> Observers \cup {NoObject}]
           /\ page.ids \in [Observers -> {0} \cup Ids] /\ page.outcome \in [Ids -> Outcomes]
           /\ page.heard \in [Ids -> 0..Unheard]
BY PageRecord DEF RemoteTypeOK

LEMMA SendTypes ==
    ASSUME RemoteTypeOK, NEW c \in Commands, Send(c), page' \in PageType
    PROVE  RemoteTypeOK'
BY AppendProperties DEF RemoteTypeOK, Send, observing

(* The types are kept, whatever the application says and shares.           *)
LEMMA RemoteTypesStep ==
    ASSUME RemoteTypeOK, sync.agents \subseteq Mutable, sync'.agents \subseteq Mutable,
           [RemoteNext]_remoteVars
    PROVE  RemoteTypeOK'
<1>1. /\ commands \in Seq(Commands) /\ replies \in Seq(Replies) /\ page \in PageType
      /\ host \subseteq Ids /\ relays \in [Mutable -> SUBSET Ids]
      /\ chained \subseteq Mutable /\ updates \in [Mutable -> 0..MaxUpdates]
      /\ page.ids \in [Observers -> {0} \cup Ids] /\ page.outcome \in [Ids -> Outcomes]
      /\ page.adding \in SUBSET Ids /\ page.removing \in SUBSET Ids
  BY TypesOfRemote, PageRecord
<1>2. CASE UNCHANGED remoteVars \/ Direct
  BY <1>2 DEF remoteVars, channels, observing, Direct, RemoteTypeOK
<1>3. ASSUME NEW c \in Commands, NEW k \in Objects \cup {Group}, NEW d \in Int, Send(c), Held(k, d)
      PROVE  RemoteTypeOK'
  BY <1>1, <1>3, HeldFields, SendTypes
<1>4. CASE ProxyJoin \/ ProxyLeave
  <2>1. [type |-> "join"] \in Commands /\ [type |-> "leave"] \in Commands
    BY DEF Commands
  <2> QED
    BY <1>3, <1>4, <2>1 DEF ProxyJoin, ProxyLeave
<1>5. ASSUME NEW o \in Shown, ProxySync(o) \/ ProxyStop(o)
      PROVE  RemoteTypeOK'
  <2>1. /\ o \in Objects \cup {Group}
        /\ [type |-> "sync", object |-> o] \in Commands /\ [type |-> "stop", object |-> o] \in Commands
    BY RemoteAssumption DEF Commands
  <2> QED
    BY <1>3, <1>5, <2>1 DEF ProxySync, ProxyStop
<1>6. ASSUME NEW w \in Observers, NEW o \in Mutable, NEW given \in GroupGiven,
             ProxyAddObserver(w, o, given)
      PROVE  RemoteTypeOK'
  <2>1. PICK i \in Ids :
          /\ Send([type |-> "add", id |-> i, object |-> o, given |-> given])
          /\ GiveId(i, w, o)
    BY <1>6 DEF ProxyAddObserver, GiveId
  <2>2. [type |-> "add", id |-> i, object |-> o, given |-> given] \in Commands
    BY RemoteAssumption DEF Commands
  <2> QED
    BY <1>1, <2>1, <2>2, NewIdFields, SendTypes
<1>7. ASSUME NEW w \in Observers, NEW o \in Mutable, ProxyRemoveObserver(w, o)
      PROVE  RemoteTypeOK'
  <2> DEFINE i == page.ids[w]
             c == [type |-> "remove", id |-> i, object |-> o, given |-> TRUE]
  <2>1. i \in Ids /\ Send(c) /\ SettleRemoving(page.removing \cup {i}, i, "removing")
    BY <1>1, <1>7 DEF ProxyRemoveObserver, SettleRemoving
  <2>2. c \in Commands
    BY <2>1 DEF Commands
  <2> HIDE DEF i, c
  <2>3. Settle(page.adding, page.removing \cup {i}, i, "removing")
    BY <1>1, <2>1, SettleFields
  <2>4. page.removing \cup {i} \in SUBSET Ids /\ "removing" \in Outcomes
    BY <1>1, <2>1 DEF Outcomes
  <2> QED
    BY <1>1, <2>1, <2>2, <2>3, <2>4, OutcomeFields, SendTypes
<1>8. ASSUME NEW i \in Ids, TimeOut(i) PROVE RemoteTypeOK'
  <2>1. UNCHANGED <<commands, replies, host, relays, chained, updates>>
    BY <1>8 DEF TimeOut, channels, observing
  <2>2. \/ SettleAdding(i, Now(i, "failed"))
        \/ SettleRemoving(page.removing \ {i}, i, "failed")
    BY <1>8 DEF TimeOut, SettleAdding, SettleRemoving
  <2>3. \/ Settle(page.adding \ {i}, page.removing, i, Now(i, "failed"))
        \/ Settle(page.adding, page.removing \ {i}, i, "failed")
    BY <1>1, <2>2, SettleFields
  <2>4. /\ page.adding \ {i} \in SUBSET Ids /\ page.removing \ {i} \in SUBSET Ids
        /\ "failed" \in Outcomes /\ Now(i, "failed") \in Outcomes
    BY <1>1 DEF Now, Outcomes
  <2>5. page' \in PageType
    BY <1>1, <2>3, <2>4, OutcomeFields
  <2> QED
    BY <1>1, <2>1, <2>5 DEF RemoteTypeOK
<1>9. CASE IngestReply
  <2> DEFINE r == Head(replies)
             i == r.id
  <2>1. /\ replies' = Tail(replies) /\ r \in Replies /\ replies' \in Seq(Replies)
        /\ UNCHANGED <<commands, host, relays, chained, updates>>
    BY <1>1, <1>9, HeadTailProperties DEF IngestReply, observing
  <2>2. i \in Ids /\ (r.type = "event" => r.status \in 0..Unheard)
    BY <2>1, RemoteAssumption DEF Replies, Unheard
  <2>3. \/ r.type = "event" /\ HearStatus(i, r.status)
        \/ SettleAdding(i, Now(i, "added"))
        \/ ForgetId(i)
        \/ page' = page
    <3>1. CASE r.type = "event" /\ page.of[i] # NoObject
      BY <1>9, <3>1 DEF IngestReply, HearStatus
    <3>2. CASE r.type = "added" /\ i \in page.adding
      BY <1>9, <3>2 DEF IngestReply, SettleAdding
    <3>3. CASE r.type = "removed" /\ i \in page.removing
      BY <1>9, <3>3 DEF IngestReply, ForgetId
    <3> QED
      BY <1>9, <3>1, <3>2, <3>3 DEF IngestReply
  <2> HIDE DEF r, i
  <2>4. SettleAdding(i, Now(i, "added")) => Settle(page.adding \ {i}, page.removing, i, Now(i, "added"))
    BY <1>1, <2>2, SettleFields
  <2>5. page.adding \ {i} \in SUBSET Ids /\ Now(i, "added") \in Outcomes
    BY <1>1, <2>2 DEF Now, Outcomes
  <2>6. page' \in PageType
    BY <1>1, <2>2, <2>3, <2>4, <2>5, HeardFields, OutcomeFields, ForgetFields
  <2> QED
    BY <1>1, <2>1, <2>6 DEF RemoteTypeOK
<1>10. CASE ExecuteOnMesh
  <2> DEFINE gone == sync.agents \ sync'.agents
             new  == sync'.agents \ sync.agents
  <2>1. /\ commands # <<>> /\ commands' = Tail(commands) /\ UNCHANGED <<page, host, relays>>
        /\ updates' = [o \in Mutable |-> IF o \in gone THEN 0 ELSE updates[o]]
        /\ chained' = (chained \ gone) \cup {o \in new : relays[o] # {}}
        /\ replies' = replies \o SetToSeq(Emit(gone, 0)) \o SetToSeq(Emit(new, 1))
    BY <1>10 DEF ExecuteOnMesh, Received, AgentSetChange, Rechained
  <2>2. 0 \in 0..(MaxUpdates + 1) /\ 1 \in 0..(MaxUpdates + 1) /\ 0 \in 0..MaxUpdates
    BY RemoteAssumption
  <2>3. /\ SetToSeq(Emit(gone, 0)) \in Seq(Replies) /\ SetToSeq(Emit(new, 1)) \in Seq(Replies)
    BY <1>1, <2>2, EmitTells DEF Told
  <2>4. replies' \in Seq(Replies)
    BY <1>1, <2>1, <2>3, ConcatProperties
  <2>5. commands' \in Seq(Commands)
    BY <1>1, <2>1, HeadTailProperties
  <2>6. updates' \in [Mutable -> 0..MaxUpdates] /\ chained' \subseteq Mutable
    BY <1>1, <2>1, <2>2
  <2> QED
    BY <1>1, <2>1, <2>4, <2>5, <2>6 DEF RemoteTypeOK
<1>11. ASSUME ExecuteAddObserver \/ ExecuteRemoveObserver
       PROVE  RemoteTypeOK'
  <2> DEFINE c == Head(commands)
             i == c.id
             o == c.object
  <2>1. /\ commands # <<>> /\ c.type \in {"add", "remove"} /\ commands' = Tail(commands)
        /\ UNCHANGED <<page, updates>>
    BY <1>11 DEF ExecuteAddObserver, ExecuteRemoveObserver, Received
  <2>2. c \in Commands /\ commands' \in Seq(Commands)
    BY <1>1, <2>1, HeadTailProperties
  <2>3. i \in Ids /\ o \in Mutable
    BY <2>1, <2>2 DEF Commands
  <2>4. /\ Event(i, Status(o)) \in Replies
        /\ [type |-> "added", id |-> i] \in Replies /\ [type |-> "removed", id |-> i] \in Replies
    <3>1. Status(o) \in 0..(MaxUpdates + 1)
      BY <1>1, <2>3, RemoteAssumption DEF Status
    <3> QED
      BY <2>3, <3>1 DEF Event, Replies
  <2>5. host' \subseteq Ids
    BY <1>1, <1>11, <2>3 DEF ExecuteAddObserver, ExecuteRemoveObserver, Command
  <2>6. CASE ExecuteAddObserver
    <3> DEFINE added == [type |-> "added", id |-> i]
               told  == <<Event(i, Status(o)), added>>
    <3>1. \/ AddToRelay(i, o) /\ replies' = replies \o told
          \/ UNCHANGED <<relays, chained>> /\ replies' = Append(replies, added)
      BY <2>6 DEF ExecuteAddObserver, Command
    <3>2. told \in Seq(Replies) /\ added \in Replies
      BY <2>4
    <3> HIDE DEF i, o, told, added
    <3>3. replies \o told \in Seq(Replies) /\ Append(replies, added) \in Seq(Replies)
      BY <1>1, <3>2, ConcatProperties, AppendProperties
    <3>4. relays' \in [Mutable -> SUBSET Ids] /\ chained' \subseteq Mutable
      BY <1>1, <2>3, <3>1 DEF AddToRelay
    <3> QED
      BY <1>1, <2>1, <2>2, <2>5, <3>1, <3>3, <3>4 DEF RemoteTypeOK
  <2>7. CASE ExecuteRemoveObserver
    <3>1. /\ replies' = Append(replies, [type |-> "removed", id |-> i])
          /\ RemoveFromRelay(i, o) \/ UNCHANGED <<relays, chained>>
      BY <2>7 DEF ExecuteRemoveObserver, Command
    <3> HIDE DEF i, o
    <3>2. replies' \in Seq(Replies)
      BY <1>1, <2>4, <3>1, AppendProperties
    <3>3. relays' \in [Mutable -> SUBSET Ids] /\ chained' \subseteq Mutable
      BY <1>1, <2>3, <3>1 DEF RemoveFromRelay
    <3> QED
      BY <1>1, <2>1, <2>2, <2>5, <3>2, <3>3 DEF RemoteTypeOK
  <2> QED
    BY <1>11, <2>6, <2>7
<1>12. ASSUME NEW o \in Mutable, SyncStateUpdate(o) PROVE RemoteTypeOK'
  <2>1. /\ updates[o] < MaxUpdates /\ updates' = [updates EXCEPT ![o] = updates[o] + 1]
        /\ UNCHANGED <<commands, page, host, relays, chained>>
    BY <1>12 DEF SyncStateUpdate
  <2>2. /\ updates' \in [Mutable -> 0..MaxUpdates]
        /\ updates'[o] = updates[o] + 1 /\ 1 + updates'[o] \in 0..(MaxUpdates + 1)
    BY <1>1, <2>1, RemoteAssumption
  <2> DEFINE told == SetToSeq(Emit({o}, 1 + (updates[o] + 1)))
  <2>3. told \in Seq(Replies)
    BY <1>1, <2>2, EmitTells DEF Told
  <2>4. replies' = replies \/ replies' = replies \o told
    BY <1>12, <2>2 DEF SyncStateUpdate
  <2> HIDE DEF told
  <2>5. replies \o told \in Seq(Replies)
    BY <1>1, <2>3, ConcatProperties
  <2> QED
    BY <1>1, <2>1, <2>2, <2>4, <2>5 DEF RemoteTypeOK
<1> QED
  BY <1>2, <1>4, <1>5, <1>6, <1>7, <1>8, <1>9, <1>10, <1>11, <1>12 DEF RemoteNext

\* Nothing changed that the sync agents and the relays are about.
LEMMA AgentsSame ==
    ASSUME UNCHANGED <<sync, relays, chained, updates>>
    PROVE  /\ \A o \in Mutable : Status(o)' = Status(o)
           /\ \A o \in Mutable : AgentInv(o) => AgentInv(o)'
BY DEF Status, AgentInv

LEMMA SendKeeps ==
    ASSUME RemoteInv, RemoteTypeOK', NEW c \in Commands, c.type \notin {"add", "remove"},
           NEW k \in Objects \cup {Group}, NEW d \in Int, Send(c), Held(k, d)
    PROVE  RemoteInv'
<1>1. /\ proxied' /\ commands' = Append(commands, c)
      /\ UNCHANGED <<sync, replies, host, relays, chained, updates>>
  BY DEF Send, vars, observing
<1>2. RemoteTypeOK /\ page \in PageType /\ commands \in Seq(Commands)
  BY TypesOfRemote DEF RemoteInv
<1>3. /\ page' \in PageType /\ page'.of = page.of /\ page'.fn = page.fn /\ page'.ids = page.ids
      /\ page'.outcome = page.outcome /\ page'.heard = page.heard
  BY <1>2, HeldFields
<1>4. ASSUME NEW i \in Ids PROVE ObserverInv(i)'
  <2>1. ObserverInv(i) /\ OneFunction(i) /\ Commanded(i) /\ Relayed(i)
    BY DEF RemoteInv, ObserverInv
  <2>2. Queued(commands', i, page.of[i])
    BY <1>1, <1>2, <2>1, QueueAppend DEF Commanded
  <2>3. \A type \in {"add", "remove"} : Has(commands', type, i) <=> Has(commands, type, i)
    BY <1>1, <1>2, HasAppend
  <2>4. OneFunction(i)'
    BY <1>3, <2>1 DEF OneFunction
  <2>5. \A o \in Mutable : i \in relays[o] => Hears(replies', i, page'.heard[i], Status(o)')
    BY <1>1, <1>3, <2>1, AgentsSame DEF Relayed
  <2> QED
    BY <1>1, <1>3, <2>1, <2>2, <2>3, <2>4, <2>5, ObserverFrame
<1>5. \A o \in Mutable : AgentInv(o)'
  BY <1>1, AgentsSame DEF RemoteInv
<1> QED
  BY <1>1, <1>4, <1>5 DEF RemoteInv, DirectInv

LEMMA AddObserverKeeps ==
    ASSUME RemoteInv, RemoteTypeOK', GroupGiven = {TRUE}, ~ Shared,
           NEW w \in Observers, NEW o \in Mutable, NEW given \in GroupGiven,
           ProxyAddObserver(w, o, given)
    PROVE  RemoteInv'
<1>1. PICK i \in Ids :
        /\ page.outcome[i] = "none" /\ page.ids[w] = 0
        /\ Send([type |-> "add", id |-> i, object |-> o, given |-> given])
        /\ GiveId(i, w, o)
  BY DEF ProxyAddObserver, GiveId
<1> DEFINE c == [type |-> "add", id |-> i, object |-> o, given |-> given]
<1>2. /\ proxied' /\ commands' = Append(commands, c)
      /\ UNCHANGED <<sync, replies, host, relays, chained, updates>>
  BY <1>1 DEF Send, vars, observing
<1>3. c \in Commands /\ c.type = "add" /\ c.id = i /\ c.object = o /\ c.given
  BY DEF Commands
<1> HIDE DEF c
<1>4. /\ RemoteTypeOK /\ page \in PageType /\ commands \in Seq(Commands)
      /\ page.of \in [Ids -> Mutable \cup {NoObject}] /\ page.fn \in [Ids -> Observers \cup {NoObject}]
      /\ page.ids \in [Observers -> {0} \cup Ids] /\ page.outcome \in [Ids -> Outcomes]
  BY TypesOfRemote DEF RemoteInv
<1>5. /\ page' \in PageType /\ page'.heard = page.heard
      /\ page'.of = [page.of EXCEPT ![i] = o] /\ page'.fn = [page.fn EXCEPT ![i] = w]
      /\ page'.ids = [page.ids EXCEPT ![w] = i] /\ page'.outcome = [page.outcome EXCEPT ![i] = "adding"]
  BY <1>1, <1>4, NewIdFields
<1>6. \A type, j : Has(commands', type, j) <=> Has(commands, type, j) \/ (type = "add" /\ j = i)
  BY <1>2, <1>3, <1>4, HasAppend
<1>7. ASSUME NEW j \in Ids PROVE OneFunction(j)'
  <2>1. /\ \A v \in Observers : page.fn[j] = v <=> page.ids[v] = j
        /\ \A v \in Observers : page.fn[i] = v <=> page.ids[v] = i
    BY DEF RemoteInv, ObserverInv, OneFunction
  <2>2. page.fn[i] = NoObject
    BY <1>1 DEF RemoteInv, ObserverInv, Fresh
  <2>3. /\ page'.fn[j] = IF j = i THEN w ELSE page.fn[j]
        /\ \A v \in Observers : page'.ids[v] = IF v = w THEN i ELSE page.ids[v]
    BY <1>4, <1>5
  <2> QED
    BY <1>1, <2>1, <2>2, <2>3, IdsFacts DEF OneFunction
<1>8. ASSUME NEW j \in Ids, j # i PROVE ObserverInv(j)'
  <2>1. ObserverInv(j) /\ Commanded(j) /\ Relayed(j)
    BY DEF RemoteInv, ObserverInv
  <2>2. /\ page'.of[j] = page.of[j] /\ page'.fn[j] = page.fn[j] /\ page'.outcome[j] = page.outcome[j]
    BY <1>4, <1>5, <1>8
  <2>3. Queued(commands', j, page.of[j])
    BY <1>2, <1>3, <1>4, <1>8, <2>1, QueueAppend DEF Commanded
  <2>4. \A p \in Mutable : j \in relays[p] => Hears(replies', j, page'.heard[j], Status(p)')
    BY <1>2, <1>5, <2>1, AgentsSame DEF Relayed
  <2> QED
    BY <1>2, <1>6, <1>7, <1>8, <2>1, <2>2, <2>3, <2>4, ObserverFrame
<1>9. ObserverInv(i)'
  <2>1. /\ ~ Has(commands, "add", i) /\ ~ Has(commands, "remove", i) /\ ~ Has(replies, "removed", i)
        /\ i \notin host
    BY <1>1 DEF RemoteInv, ObserverInv, Fresh
  <2>2. page'.of[i] = o /\ page'.outcome[i] = "adding"
    BY <1>4, <1>5
  <2>3. Queued(commands', i, o)
    BY <1>2, <1>3, <1>4, <2>1, QueueAdd
  <2>4. Commanded(i)'
    BY <1>2, <2>1, <2>2, <2>3 DEF Commanded
  <2>5. Relayed(i)'
    BY <1>2, <2>1 DEF RemoteInv, ObserverInv, Relayed
  <2>6. Kept(i)' /\ Fresh(i)'
    BY <1>2, <1>6, <2>1, <2>2 DEF Kept, Fresh
  <2> QED
    BY <1>7, <2>4, <2>5, <2>6 DEF ObserverInv
<1>10. \A p \in Mutable : AgentInv(p)'
  BY <1>2, AgentsSame DEF RemoteInv
<1> QED
  BY <1>2, <1>8, <1>9, <1>10 DEF RemoteInv, DirectInv

LEMMA RemoveObserverKeeps ==
    ASSUME RemoteInv, RemoteTypeOK', NEW w \in Observers, NEW o \in Mutable, ProxyRemoveObserver(w, o)
    PROVE  RemoteInv'
<1> DEFINE i == page.ids[w]
           c == [type |-> "remove", id |-> i, object |-> o, given |-> TRUE]
<1>1. /\ RemoteTypeOK /\ page \in PageType /\ commands \in Seq(Commands)
      /\ page.of \in [Ids -> Mutable \cup {NoObject}] /\ page.outcome \in [Ids -> Outcomes]
      /\ page.ids \in [Observers -> {0} \cup Ids]
  BY TypesOfRemote DEF RemoteInv
<1>2. /\ i # 0 /\ Send(c) /\ \E j \in Ids : page.fn[j] = w /\ page.of[j] = o
      /\ page' = [page EXCEPT !.removing = page.removing \cup {i}, !.outcome[i] = "removing"]
  BY DEF ProxyRemoveObserver
<1>3. i \in Ids /\ page.fn[i] = w
  BY <1>1, <1>2 DEF RemoteInv, ObserverInv, OneFunction
<1>4. page.of[i] = o
  BY <1>2 DEF RemoteInv, ObserverInv, OneFunction
<1> HIDE DEF i
<1>5. c \in Commands /\ c.type = "remove" /\ c.id = i /\ c.object = o
  BY <1>3 DEF Commands
<1>6. Settle(page.adding, page.removing \cup {i}, i, "removing")
  <2>1. SettleRemoving(page.removing \cup {i}, i, "removing")
    BY <1>2 DEF SettleRemoving
  <2> QED
    BY <1>1, <1>3, <2>1, SettleFields
<1>7. /\ page' \in PageType /\ page'.of = page.of /\ page'.fn = page.fn /\ page'.ids = page.ids
      /\ page'.heard = page.heard /\ page'.outcome = [page.outcome EXCEPT ![i] = "removing"]
  <2>1. page.adding \in SUBSET Ids /\ page.removing \cup {i} \in SUBSET Ids /\ "removing" \in Outcomes
    BY <1>1, <1>3, PageRecord DEF Outcomes
  <2> QED
    BY <1>1, <1>3, <1>6, <2>1, OutcomeFields
<1> HIDE DEF c
<1>8. /\ proxied' /\ commands' = Append(commands, c)
      /\ UNCHANGED <<sync, replies, host, relays, chained, updates>>
  BY <1>2 DEF Send, vars, observing
<1>9. \A type, j : Has(commands', type, j) <=> Has(commands, type, j) \/ (type = "remove" /\ j = i)
  BY <1>1, <1>5, <1>8, HasAppend
<1>10. ASSUME NEW j \in Ids PROVE ObserverInv(j)'
  <2>1. ObserverInv(j) /\ OneFunction(j) /\ Commanded(j) /\ Relayed(j)
    BY DEF RemoteInv, ObserverInv
  <2>2. page'.outcome[j] = IF j = i THEN "removing" ELSE page.outcome[j]
    BY <1>1, <1>7
  <2>3. Queued(commands', j, page.of[j])
    BY <1>1, <1>4, <1>5, <1>8, <2>1, QueueAppend DEF Commanded
  <2>4. OneFunction(j)'
    BY <1>7, <2>1 DEF OneFunction
  <2>5. \A p \in Mutable : j \in relays[p] => Hears(replies', j, page'.heard[j], Status(p)')
    BY <1>7, <1>8, <2>1, AgentsSame DEF Relayed
  <2>6. CASE j # i
    BY <1>7, <1>8, <1>9, <2>1, <2>2, <2>3, <2>4, <2>5, <2>6, ObserverFrame
  <2>7. CASE j = i
    <3>1. Commanded(j)'
      BY <1>7, <1>8, <1>9, <2>1, <2>3 DEF Commanded
    <3>2. Relayed(j)'
      BY <1>7, <1>8, <2>1, <2>5 DEF Relayed
    <3>3. Fresh(j)' /\ Kept(j)'
      BY <2>2, <2>7 DEF Fresh, Kept
    <3> QED
      BY <2>4, <3>1, <3>2, <3>3 DEF ObserverInv
  <2> QED
    BY <2>6, <2>7
<1>11. \A p \in Mutable : AgentInv(p)'
  BY <1>8, AgentsSame DEF RemoteInv
<1> QED
  BY <1>8, <1>10, <1>11 DEF RemoteInv, DirectInv

LEMMA TimeOutKeeps ==
    ASSUME RemoteInv, RemoteTypeOK', NEW i \in Ids, TimeOut(i)
    PROVE  RemoteInv'
<1>1. /\ RemoteTypeOK /\ page \in PageType
      /\ page.outcome \in [Ids -> Outcomes] /\ page.adding \in SUBSET Ids /\ page.removing \in SUBSET Ids
  BY TypesOfRemote, PageRecord DEF RemoteInv
<1>2. UNCHANGED <<sync, proxied, commands, replies, host, relays, chained, updates>>
  BY DEF TimeOut, vars, channels, observing
<1>3. PICK adding \in SUBSET Ids, removing \in SUBSET Ids, result \in Outcomes :
        /\ Settle(adding, removing, i, result)
        /\ result = page.outcome[i] \/ result = "failed"
  <2>1. \/ SettleAdding(i, Now(i, "failed"))
        \/ SettleRemoving(page.removing \ {i}, i, "failed")
    BY DEF TimeOut, SettleAdding, SettleRemoving
  <2>2. \/ Settle(page.adding \ {i}, page.removing, i, Now(i, "failed"))
        \/ Settle(page.adding, page.removing \ {i}, i, "failed")
    BY <1>1, <2>1, SettleFields
  <2>3. Now(i, "failed") \in Outcomes /\ Now(i, "failed") \in {page.outcome[i], "failed"}
    BY <1>1 DEF Now, Outcomes
  <2>4. /\ page.adding \ {i} \in SUBSET Ids /\ page.removing \ {i} \in SUBSET Ids
        /\ page.adding \in SUBSET Ids /\ page.removing \in SUBSET Ids /\ "failed" \in Outcomes
    BY <1>1 DEF Outcomes
  <2>5. CASE Settle(page.adding \ {i}, page.removing, i, Now(i, "failed"))
    BY <2>3, <2>4, <2>5
  <2>6. CASE Settle(page.adding, page.removing \ {i}, i, "failed")
    BY <2>4, <2>6
  <2> QED
    BY <2>2, <2>5, <2>6
<1>4. /\ page' \in PageType /\ page'.of = page.of /\ page'.fn = page.fn /\ page'.ids = page.ids
      /\ page'.heard = page.heard /\ page'.outcome = [page.outcome EXCEPT ![i] = result]
  BY <1>1, <1>3, OutcomeFields
<1>5. \A j \in Ids : page'.outcome[j] = page.outcome[j] \/ page'.outcome[j] = "failed"
  BY <1>1, <1>3, <1>4
<1>6. ASSUME NEW j \in Ids PROVE ObserverInv(j)'
  <2>1. ObserverInv(j) /\ OneFunction(j) /\ Commanded(j) /\ Relayed(j)
    BY DEF RemoteInv, ObserverInv
  <2>2. OneFunction(j)'
    BY <1>4, <2>1 DEF OneFunction
  <2>3. \A p \in Mutable : j \in relays[p] => Hears(replies', j, page'.heard[j], Status(p)')
    BY <1>2, <1>4, <2>1, AgentsSame DEF Relayed
  <2>4. Queued(commands', j, page.of[j])
    BY <1>2, <2>1 DEF Commanded
  <2> QED
    BY <1>2, <1>4, <1>5, <2>1, <2>2, <2>3, <2>4, ObserverFrame
<1>7. \A p \in Mutable : AgentInv(p)'
  BY <1>2, AgentsSame DEF RemoteInv
<1> QED
  BY <1>2, <1>5, <1>6, <1>7 DEF RemoteInv, DirectInv

LEMMA IngestKeeps ==
    ASSUME RemoteInv, RemoteTypeOK', IngestReply
    PROVE  RemoteInv'
<1> DEFINE r == Head(replies)
           i == r.id
<1>1. /\ RemoteTypeOK /\ page \in PageType /\ replies \in Seq(Replies) /\ relays \in [Mutable -> SUBSET Ids]
      /\ page.of \in [Ids -> Mutable \cup {NoObject}] /\ page.fn \in [Ids -> Observers \cup {NoObject}]
      /\ page.ids \in [Observers -> {0} \cup Ids] /\ page.outcome \in [Ids -> Outcomes]
      /\ page.adding \in SUBSET Ids /\ page.removing \in SUBSET Ids /\ page.heard \in [Ids -> 0..Unheard]
  BY TypesOfRemote, PageRecord DEF RemoteInv
<1>2. /\ replies # <<>> /\ replies' = Tail(replies)
      /\ UNCHANGED <<sync, proxied, commands, host, relays, chained, updates>>
  BY DEF IngestReply, vars, observing
<1>3. r \in Replies /\ replies' \in Seq(Replies)
  BY <1>1, <1>2, HeadTailProperties
<1>4. i \in Ids /\ (r.type = "event" => r.status \in 0..Unheard)
  <2>1. MaxUpdates \in Nat
    BY RemoteAssumption
  <2> QED
    BY <1>3, <2>1 DEF Replies, Unheard
<1>5. \/ r.type = "event" /\ page.of[i] # NoObject /\ HearStatus(i, r.status)
      \/ r.type = "added" /\ i \in page.adding
           /\ Settle(page.adding \ {i}, page.removing, i, Now(i, "added"))
      \/ r.type = "removed" /\ i \in page.removing /\ ForgetId(i)
      \/ ~ (r.type = "event" /\ page.of[i] # NoObject) /\ page' = page
  <2>1. CASE r.type = "event" /\ page.of[i] # NoObject
    BY <2>1 DEF IngestReply, HearStatus
  <2>2. CASE r.type = "added" /\ i \in page.adding
    <3>1. SettleAdding(i, Now(i, "added"))
      BY <2>2 DEF IngestReply, SettleAdding
    <3> QED
      BY <1>1, <1>4, <2>2, <3>1, SettleFields
  <2>3. CASE r.type = "removed" /\ i \in page.removing
    BY <2>3 DEF IngestReply, ForgetId
  <2> QED
    BY <2>1, <2>2, <2>3 DEF IngestReply
<1> HIDE DEF i, r

<1>6. \A type, j : Has(replies, type, j) <=> Has(replies', type, j) \/ (r.type = type /\ i = j)
  BY <1>1, <1>2, HasTail DEF r, i
\* All there is to show of an observer.
<1>7. ASSUME NEW j \in Ids,
             page'.of[j] = page.of[j], page'.fn[j] = page.fn[j], OneFunction(j)',
             \/ page'.outcome[j] = page.outcome[j]
             \/ page'.outcome[j] \notin {"none", "adding", "added"}
             \/ page.outcome[j] = "adding" /\ page'.outcome[j] = "added",
             page.of[j] # NoObject =>
               page'.heard[j] = IF EventFor(r, j) THEN r.status ELSE page.heard[j]
      PROVE  ObserverInv(j)'
  <2>1. ObserverInv(j) /\ Commanded(j) /\ Relayed(j)
    BY DEF RemoteInv, ObserverInv
  <2>2. ASSUME NEW o \in Mutable, j \in relays[o]
        PROVE  Hears(replies', j, page'.heard[j], Status(o)')
    <3>1. page.of[j] # NoObject /\ Hears(replies, j, page.heard[j], Status(o))
      BY <2>1, <2>2, IdsFacts DEF Relayed
    <3>2. Hears(replies', j, IF EventFor(r, j) THEN r.status ELSE page.heard[j], Status(o))
      BY <1>1, <1>2, <3>1, HearsTail DEF r
    <3>3. Status(o)' = Status(o)
      BY <1>2, AgentsSame
    <3> QED
      BY <1>7, <3>1, <3>2, <3>3
  <2>3. Queued(commands', j, page.of[j])
    BY <1>2, <2>1 DEF Commanded
  <2> QED
    BY <1>2, <1>6, <1>7, <2>1, <2>2, <2>3, ObserverFrame
<1>8. \A p \in Mutable : AgentInv(p)'
  BY <1>2, AgentsSame DEF RemoteInv
<1>9. ASSUME page' \in PageType, \A j \in Ids : ObserverInv(j)'
      PROVE  RemoteInv'
  <2>1. proxied
    BY <1>2 DEF RemoteInv, DirectInv
  <2> QED
    BY <1>2, <1>8, <1>9, <2>1 DEF RemoteInv, DirectInv
<1>10. CASE r.type = "event" /\ page.of[i] # NoObject /\ HearStatus(i, r.status)
  <2>1. /\ page' \in PageType /\ page'.of = page.of /\ page'.fn = page.fn /\ page'.ids = page.ids
        /\ page'.outcome = page.outcome /\ page'.heard = [page.heard EXCEPT ![i] = r.status]
    BY <1>1, <1>4, <1>10, HeardFields
  <2>2. ASSUME NEW j \in Ids PROVE ObserverInv(j)'
    <3>1. OneFunction(j)'
      BY <2>1 DEF RemoteInv, ObserverInv, OneFunction
    <3>2. page'.heard[j] = IF EventFor(r, j) THEN r.status ELSE page.heard[j]
      BY <1>1, <1>10, <2>1 DEF EventFor, i
    <3> QED
      BY <1>7, <2>1, <3>1, <3>2
  <2> QED
    BY <1>9, <2>1, <2>2
<1>11. CASE r.type = "added" /\ i \in page.adding /\ Settle(page.adding \ {i}, page.removing, i, Now(i, "added"))
  <2>1. /\ Now(i, "added") \in Outcomes
        /\ Now(i, "added") = IF page.outcome[i] = "adding" THEN "added" ELSE page.outcome[i]
    BY <1>1, <1>4 DEF Now, Outcomes
  <2>2. page.adding \ {i} \in SUBSET Ids
    BY <1>1
  <2>3. /\ page' \in PageType /\ page'.of = page.of /\ page'.fn = page.fn /\ page'.ids = page.ids
        /\ page'.heard = page.heard /\ page'.outcome = [page.outcome EXCEPT ![i] = Now(i, "added")]
    BY <1>1, <1>4, <1>11, <2>1, <2>2, OutcomeFields
  <2>4. ASSUME NEW j \in Ids PROVE ObserverInv(j)'
    <3>1. OneFunction(j)'
      BY <2>3 DEF RemoteInv, ObserverInv, OneFunction
    <3>2. ~ EventFor(r, j)
      BY <1>11 DEF EventFor
    <3>3. \/ page'.outcome[j] = page.outcome[j]
          \/ page.outcome[j] = "adding" /\ page'.outcome[j] = "added"
      BY <1>1, <2>1, <2>3
    <3> QED
      BY <1>7, <2>3, <3>1, <3>2, <3>3
  <2> QED
    BY <1>9, <2>3, <2>4
<1>12. CASE r.type = "removed" /\ i \in page.removing /\ ForgetId(i)
  <2>1. /\ page' \in PageType /\ page'.heard = page.heard
        /\ page'.of = [page.of EXCEPT ![i] = NoObject] /\ page'.fn = [page.fn EXCEPT ![i] = NoObject]
        /\ page'.ids = [v \in Observers |-> IF v = page.fn[i] THEN 0 ELSE page.ids[v]]
        /\ page'.outcome = [page.outcome EXCEPT ![i] = "removed"]
    BY <1>1, <1>4, <1>12, ForgetFields
  <2>2. ASSUME NEW j \in Ids PROVE OneFunction(j)'
    <3>1. /\ \A v \in Observers : page.fn[j] = v <=> page.ids[v] = j
          /\ \A v \in Observers : page.fn[i] = v <=> page.ids[v] = i
      BY <1>4 DEF RemoteInv, ObserverInv, OneFunction
    <3>2. /\ page'.fn[j] = IF j = i THEN NoObject ELSE page.fn[j]
          /\ \A v \in Observers : page'.ids[v] = IF v = page.fn[i] THEN 0 ELSE page.ids[v]
      BY <1>1, <2>1
    <3> QED
      BY <3>1, <3>2, IdsFacts DEF OneFunction
  <2>3. ASSUME NEW j \in Ids, j # i PROVE ObserverInv(j)'
    <3>1. /\ page'.of[j] = page.of[j] /\ page'.fn[j] = page.fn[j] /\ page'.heard[j] = page.heard[j]
          /\ page'.outcome[j] = page.outcome[j]
      BY <1>1, <2>1, <2>3
    <3>2. ~ EventFor(r, j)
      BY <1>12 DEF EventFor
    <3> QED
      BY <1>7, <2>2, <3>1, <3>2
  <2>4. ASSUME NEW j \in Ids, j = i PROVE ObserverInv(j)'
    <3>1. Commanded(j) /\ Relayed(j)
      BY DEF RemoteInv, ObserverInv
    <3>2. Has(replies, "removed", j)
      BY <1>6, <1>12, <2>4
    <3>3. j \notin host /\ ~ Has(commands, "add", j)
      BY <3>1, <3>2 DEF Commanded
    <3>4. page'.of[j] = NoObject /\ page'.outcome[j] = "removed"
      BY <1>1, <2>1, <2>4
    <3>5. Queued(commands', j, NoObject)
      BY <1>2, <3>1, <3>3, QueueForgotten DEF Commanded
    <3>6. Commanded(j)'
      BY <1>2, <3>3, <3>4, <3>5 DEF Commanded
    <3>7. Relayed(j)'
      BY <1>2, <3>1, <3>3 DEF Relayed
    <3>8. Fresh(j)' /\ Kept(j)'
      BY <3>4 DEF Fresh, Kept
    <3> QED
      BY <2>2, <3>6, <3>7, <3>8 DEF ObserverInv
  <2> QED
    BY <1>9, <2>1, <2>3, <2>4
<1>13. CASE ~ (r.type = "event" /\ page.of[i] # NoObject) /\ page' = page
  <2>1. ASSUME NEW j \in Ids PROVE ObserverInv(j)'
    <3>1. OneFunction(j)'
      BY <1>13 DEF RemoteInv, ObserverInv, OneFunction
    <3>2. page.of[j] # NoObject => ~ EventFor(r, j)
      BY <1>13 DEF EventFor, i
    <3> QED
      BY <1>7, <1>13, <3>1, <3>2
  <2> QED
    BY <1>1, <1>9, <1>13, <2>1
<1> QED
  BY <1>5, <1>10, <1>11, <1>12, <1>13

-----------------------------------------------------------------------------
(* The actions of the sync agents and of the host keep it.                 *)

LEMMA ToldReplies ==
    ASSUME NEW q \in Seq(Replies), NEW r, NEW objs, NEW value, Told(r, objs, value), NEW i \in Ids
    PROVE  /\ q \o r \in Seq(Replies)
           /\ Has(q \o r, "removed", i) <=> Has(q, "removed", i)
           /\ \A last : (\E o \in objs : i \in relays[o]) => Hears(q \o r, i, last, value)
           /\ \A last, was : (\A o \in objs : i \notin relays[o]) /\ Hears(q, i, last, was)
                => Hears(q \o r, i, last, was)
<1>1. r \in Seq(Replies)
  BY DEF Told
<1>2. q \o r \in Seq(Replies)
  BY <1>1, ConcatProperties
<1>3. ~ Has(r, "removed", i)
  BY DEF Told, Has
<1>4. Has(q \o r, "removed", i) <=> Has(q, "removed", i)
  BY <1>1, <1>3, HasConcat
<1>5. ASSUME NEW last, NEW o \in objs, i \in relays[o]
      PROVE  Hears(q \o r, i, last, value)
  <2>1. PICK k \in 1..Len(r) :
          r[k] = Event(i, value) /\ \A n \in (k + 1)..Len(r) : ~ EventFor(r[n], i)
    BY <1>5 DEF Told
  <2> QED
    BY <1>1, <2>1, HearsNew
<1>6. ASSUME NEW last, NEW was, \A o \in objs : i \notin relays[o], Hears(q, i, last, was)
      PROVE  Hears(q \o r, i, last, was)
  <2>1. \A n \in 1..Len(r) : ~ EventFor(r[n], i)
    BY <1>6 DEF Told
  <2> QED
    BY <1>1, <1>6, <2>1, HearsSame
<1> QED
  BY <1>2, <1>4, <1>5, <1>6

LEMMA UpdateKeeps ==
    ASSUME RemoteInv, RemoteTypeOK', NEW o \in Mutable, SyncStateUpdate(o)
    PROVE  RemoteInv'
<1> DEFINE value == 1 + (updates[o] + 1)
           told  == SetToSeq(Emit({o}, value))
<1>1. /\ RemoteTypeOK /\ page \in PageType /\ replies \in Seq(Replies)
      /\ relays \in [Mutable -> SUBSET Ids] /\ updates \in [Mutable -> 0..MaxUpdates]
  BY TypesOfRemote DEF RemoteInv
<1>2. /\ proxied /\ o \in sync.agents /\ updates[o] < MaxUpdates
      /\ updates' = [updates EXCEPT ![o] = updates[o] + 1]
      /\ UNCHANGED <<sync, proxied, commands, page, host, relays, chained>>
  BY DEF SyncStateUpdate, vars
<1>3. updates' \in [Mutable -> 0..MaxUpdates] /\ updates'[o] = updates[o] + 1 /\ value \in 0..(MaxUpdates + 1)
  BY <1>1, <1>2, RemoteAssumption
<1>4. replies' = IF o \in chained THEN replies \o told ELSE replies
  BY <1>3 DEF SyncStateUpdate
<1>5. Told(told, {o}, value)
  BY <1>1, <1>3, EmitTells
<1>6. /\ Status(o)' = value
      /\ \A p \in Mutable : p # o => Status(p)' = Status(p)
  BY <1>1, <1>2, <1>3 DEF Status
<1> HIDE DEF told, value
<1>7. ASSUME NEW j \in Ids PROVE ObserverInv(j)'
  <2>1. ObserverInv(j) /\ OneFunction(j) /\ Commanded(j) /\ Relayed(j)
    BY DEF RemoteInv, ObserverInv
  <2>2. Has(replies', "removed", j) <=> Has(replies, "removed", j)
    BY <1>1, <1>4, <1>5, ToldReplies
  <2>3. OneFunction(j)'
    BY <1>2, <2>1 DEF OneFunction
  <2>4. ASSUME NEW p \in Mutable, j \in relays[p]
        PROVE  Hears(replies', j, page'.heard[j], Status(p)')
    <3>1. page.of[j] = p /\ Hears(replies, j, page.heard[j], Status(p))
      BY <2>1, <2>4 DEF Relayed
    <3>2. CASE p = o
      <4>1. o \in chained
        BY <1>2, <2>4, <3>2 DEF RemoteInv, AgentInv
      <4>2. Hears(replies \o told, j, page.heard[j], value)
        BY <1>1, <1>5, <2>4, <3>2, ToldReplies
      <4> QED
        BY <1>2, <1>4, <1>6, <3>2, <4>1, <4>2
    <3>3. CASE p # o
      <4>1. j \notin relays[o]
        BY <2>1, <3>1, <3>3 DEF Relayed
      <4>2. Hears(replies \o told, j, page.heard[j], Status(p))
        BY <1>1, <1>5, <3>1, <4>1, ToldReplies
      <4> QED
        BY <1>2, <1>4, <1>6, <3>1, <3>3, <4>2
    <3> QED
      BY <3>2, <3>3
  <2>5. Queued(commands', j, page.of[j])
    BY <1>2, <2>1 DEF Commanded
  <2> QED
    BY <1>2, <2>1, <2>2, <2>3, <2>4, <2>5, ObserverFrame
<1>8. ASSUME NEW p \in Mutable PROVE AgentInv(p)'
  <2>1. p # o => updates'[p] = updates[p]
    BY <1>1, <1>2
  <2> QED
    BY <1>2, <2>1 DEF RemoteInv, AgentInv
<1> QED
  BY <1>2, <1>7, <1>8 DEF RemoteInv, DirectInv

LEMMA ExecuteKeeps ==
    ASSUME RemoteInv, RemoteTypeOK', sync.agents \subseteq Mutable, sync'.agents \subseteq Mutable, ExecuteOnMesh
    PROVE  RemoteInv'
<1> DEFINE gone  == sync.agents \ sync'.agents
           new   == sync'.agents \ sync.agents
           told0 == SetToSeq(Emit(gone, 0))
           told1 == SetToSeq(Emit(new, 1))
           c     == Head(commands)
<1>1. /\ RemoteTypeOK /\ page \in PageType /\ replies \in Seq(Replies) /\ commands \in Seq(Commands)
      /\ relays \in [Mutable -> SUBSET Ids] /\ updates \in [Mutable -> 0..MaxUpdates] /\ chained \subseteq Mutable
  BY TypesOfRemote DEF RemoteInv
<1>2. /\ commands # <<>> /\ c.type \notin {"add", "remove"} /\ commands' = Tail(commands)
      /\ UNCHANGED <<proxied, page, host, relays>>
      /\ updates' = [o \in Mutable |-> IF o \in gone THEN 0 ELSE updates[o]]
      /\ chained' = (chained \ gone) \cup {o \in new : relays[o] # {}}
      /\ replies' = replies \o told0 \o told1
  BY DEF ExecuteOnMesh, Received, AgentSetChange, Rechained
<1>3. gone \subseteq Mutable /\ new \subseteq Mutable
  OBVIOUS
<1>4. Told(told0, gone, 0) /\ Told(told1, new, 1)
  <2>1. 0 \in 0..(MaxUpdates + 1) /\ 1 \in 0..(MaxUpdates + 1)
    BY RemoteAssumption
  <2> QED
    BY <1>1, <1>3, <2>1, EmitTells
<1>5. ASSUME NEW p \in Mutable
      PROVE  Status(p)' = IF p \in gone THEN 0 ELSE IF p \in new THEN 1 ELSE Status(p)
  <2>1. p \notin sync.agents => updates[p] = 0
    BY DEF RemoteInv, AgentInv
  <2>2. updates'[p] = IF p \in gone THEN 0 ELSE updates[p]
    BY <1>2
  <2>3. updates[p] \in Nat
    BY <1>1
  <2> QED
    BY <2>1, <2>2, <2>3 DEF Status
<1>6. ASSUME NEW p \in Mutable PROVE AgentInv(p)'
  <2>1. /\ p \in chained <=> p \in sync.agents /\ relays[p] # {}
        /\ p \notin sync.agents => updates[p] = 0
    BY DEF RemoteInv, AgentInv
  <2>2. updates'[p] = IF p \in gone THEN 0 ELSE updates[p]
    BY <1>2
  <2>3. p \in chained' <=> (p \in chained /\ p \notin gone) \/ (p \in new /\ relays[p] # {})
    BY <1>2
  <2> QED
    BY <1>2, <2>1, <2>2, <2>3 DEF AgentInv
<1> HIDE DEF told0, told1
<1>7. ASSUME NEW j \in Ids PROVE ObserverInv(j)'
  <2>1. ObserverInv(j) /\ OneFunction(j) /\ Commanded(j) /\ Relayed(j)
    BY DEF RemoteInv, ObserverInv
  <2>2. replies \o told0 \in Seq(Replies)
    BY <1>1, <1>4, ToldReplies
  <2>3. Has(replies', "removed", j) <=> Has(replies, "removed", j)
    <3>1. Has(replies \o told0, "removed", j) <=> Has(replies, "removed", j)
      BY <1>1, <1>4, ToldReplies
    <3>2. Has((replies \o told0) \o told1, "removed", j) <=> Has(replies \o told0, "removed", j)
      BY <1>4, <2>2, ToldReplies
    <3> QED
      BY <1>2, <3>1, <3>2
  <2>4. /\ Queued(commands', j, page.of[j])
        /\ Has(commands', "add", j) <=> Has(commands, "add", j)
        /\ Has(commands', "remove", j) <=> Has(commands, "remove", j)
    BY <1>1, <1>2, <2>1, QueueTail, HasTail DEF Commanded
  <2>5. OneFunction(j)'
    BY <1>2, <2>1 DEF OneFunction
  <2>6. ASSUME NEW p \in Mutable, j \in relays[p]
        PROVE  Hears(replies', j, page'.heard[j], Status(p)')
    <3> DEFINE last == page.heard[j]
    <3>1. /\ Hears(replies, j, last, Status(p))
          /\ \A o \in Mutable : o # p => j \notin relays[o]
      BY <2>1, <2>6 DEF Relayed
    <3> HIDE DEF last
    <3>2. CASE p \in gone
      <4>1. Hears(replies \o told0, j, last, 0)
        BY <1>1, <1>4, <2>6, <3>2, ToldReplies
      <4>2. \A o \in new : j \notin relays[o]
        BY <1>3, <3>1, <3>2
      <4>3. Hears((replies \o told0) \o told1, j, last, 0)
        BY <1>4, <2>2, <4>1, <4>2, ToldReplies
      <4> QED
        BY <1>2, <1>5, <3>2, <4>3 DEF last
    <3>3. CASE p \in new
      <4>1. Hears((replies \o told0) \o told1, j, last, 1)
        BY <1>4, <2>2, <2>6, <3>3, ToldReplies
      <4> QED
        BY <1>2, <1>5, <3>3, <4>1 DEF last
    <3>4. CASE p \notin gone /\ p \notin new
      <4>1. /\ \A o \in gone : j \notin relays[o]
            /\ \A o \in new : j \notin relays[o]
        BY <1>3, <3>1, <3>4
      <4>2. Hears(replies \o told0, j, last, Status(p))
        BY <1>1, <1>4, <3>1, <4>1, ToldReplies
      <4>3. Hears((replies \o told0) \o told1, j, last, Status(p))
        BY <1>4, <2>2, <4>1, <4>2, ToldReplies
      <4> QED
        BY <1>2, <1>5, <3>4, <4>3 DEF last
    <3> QED
      BY <3>2, <3>3, <3>4
  <2> QED
    BY <1>2, <2>1, <2>3, <2>4, <2>5, <2>6, ObserverFrame
<1>8. proxied
  BY <1>2 DEF RemoteInv, DirectInv
<1> QED
  BY <1>2, <1>6, <1>7, <1>8 DEF RemoteInv, DirectInv

LEMMA ExecuteAddKeeps ==
    ASSUME RemoteInv, RemoteTypeOK', ExecuteAddObserver
    PROVE  RemoteInv'
<1> DEFINE c     == Head(commands)
           i     == c.id
           o     == c.object
           event == Event(i, Status(o))
           added == [type |-> "added", id |-> i]
           told  == <<event, added>>
<1>1. /\ RemoteTypeOK /\ page \in PageType /\ replies \in Seq(Replies) /\ commands \in Seq(Commands)
      /\ host \subseteq Ids /\ relays \in [Mutable -> SUBSET Ids]
      /\ updates \in [Mutable -> 0..MaxUpdates] /\ chained \subseteq Mutable
  BY TypesOfRemote DEF RemoteInv
<1>2. /\ commands # <<>> /\ c.type = "add" /\ commands' = Tail(commands)
      /\ UNCHANGED <<sync, proxied, page, updates>> /\ host' = host \cup {i}
  BY DEF ExecuteAddObserver, Received, Command, vars
<1>3. c \in Commands /\ commands' \in Seq(Commands) /\ i \in Ids /\ o \in Mutable
  <2>1. c \in Commands /\ commands' \in Seq(Commands)
    BY <1>1, <1>2, HeadTailProperties
  <2> QED
    BY <1>2, <2>1 DEF Commands
<1>4. /\ c.given /\ page.of[i] = o /\ ~ Has(commands', "add", i)
      /\ i \notin host /\ ~ Has(replies, "removed", i)
      /\ \A p \in Mutable : i \notin relays[p]
  <2>1. Commanded(i) /\ Relayed(i)
    BY <1>3 DEF RemoteInv, ObserverInv
  <2>2. Has(commands, "add", i)
    BY <1>1, <1>2, HasTail
  <2>3. c.given /\ page.of[i] = o /\ ~ Has(commands', "add", i)
    BY <1>1, <1>2, <2>1, QueueTail DEF Commanded
  <2> QED
    BY <2>1, <2>2, <2>3 DEF Commanded, Relayed
<1>5. /\ replies' = replies \o told
      /\ relays' = [relays EXCEPT ![o] = relays[o] \cup {i}]
      /\ chained' = IF relays[o] = {} THEN chained \cup ({o} \cap sync.agents) ELSE chained
  BY <1>4 DEF ExecuteAddObserver, Command, AddToRelay
<1>6. Status(o) \in 0..(MaxUpdates + 1)
  BY <1>1, <1>3, RemoteAssumption DEF Status
<1>7. /\ told \in Seq(Replies) /\ Len(told) = 2
      /\ told[1] = event /\ told[2] = added
      /\ \A j : EventFor(event, j) <=> j = i
      /\ \A j : ~ EventFor(added, j)
  <2>1. event \in Replies /\ added \in Replies
    BY <1>3, <1>6 DEF Event, Replies
  <2> QED
    BY <2>1 DEF EventFor, Event
<1>8. \A j \in Ids : Has(replies', "removed", j) <=> Has(replies, "removed", j)
  <2>1. event.type # "removed" /\ added.type # "removed"
    BY DEF Event
  <2>2. ~ \E n \in 1..Len(told) : told[n].type = "removed"
    BY <1>7, <2>1
  <2>3. \A j \in Ids : ~ Has(told, "removed", j)
    BY <2>2 DEF Has
  <2> HIDE DEF told
  <2>4. \A j \in Ids : Has(replies \o told, "removed", j) <=> Has(replies, "removed", j)
    BY <1>1, <1>7, <2>3, HasConcat
  <2> QED
    BY <1>5, <2>4
<1>9. \A p \in Mutable : Status(p)' = Status(p)
  BY <1>2 DEF Status
<1> HIDE DEF told, event, added, i, o
<1>10. \A j \in Ids : \A p \in Mutable : j \in relays'[p] <=> j \in relays[p] \/ (j = i /\ p = o)
  BY <1>1, <1>5
<1>11. ASSUME NEW j \in Ids, j # i PROVE ObserverInv(j)'
  <2>1. ObserverInv(j) /\ OneFunction(j) /\ Commanded(j) /\ Relayed(j)
    BY DEF RemoteInv, ObserverInv
  <2>2. OneFunction(j)'
    BY <1>2, <2>1 DEF OneFunction
  <2>3. \A n \in 1..Len(told) : ~ EventFor(told[n], j)
    BY <1>7, <1>11
  <2>4. ASSUME NEW p \in Mutable, j \in relays[p]
        PROVE  Hears(replies', j, page'.heard[j], Status(p)')
    <3>1. Hears(replies, j, page.heard[j], Status(p))
      BY <2>1, <2>4 DEF Relayed
    <3>2. Hears(replies \o told, j, page.heard[j], Status(p))
      BY <1>1, <1>7, <2>3, <3>1, HearsSame
    <3> QED
      BY <1>2, <1>5, <1>9, <3>2
  <2>5. /\ Queued(commands', j, page.of[j])
        /\ Has(commands', "add", j) <=> Has(commands, "add", j)
        /\ Has(commands', "remove", j) <=> Has(commands, "remove", j)
    BY <1>1, <1>2, <1>11, <2>1, QueueTail, HasTail DEF Commanded, i
  <2>6. /\ j \in host' <=> j \in host
        /\ \A p \in Mutable : j \in relays'[p] <=> j \in relays[p]
    BY <1>2, <1>10, <1>11
  <2> QED
    BY <1>2, <1>8, <2>1, <2>2, <2>4, <2>5, <2>6, ObserverFrame
<1>12. ASSUME NEW j \in Ids, j = i PROVE ObserverInv(j)'
  <2>1. ObserverInv(j) /\ Fresh(j) /\ OneFunction(j) /\ Commanded(j) /\ Kept(j)
    BY DEF RemoteInv, ObserverInv
  <2>2. Has(commands, "add", j) /\ (Has(commands', "remove", j) => Has(commands, "remove", j))
    BY <1>1, <1>2, <1>12, HasTail DEF i
  <2>3. Fresh(j)'
    BY <1>2, <2>1, <2>2 DEF Fresh
  <2>4. OneFunction(j)'
    BY <1>2, <2>1 DEF OneFunction
  <2>5. Queued(commands', j, page.of[j])
    BY <1>1, <1>2, <2>1, QueueTail DEF Commanded
  <2>6. Commanded(j)'
    BY <1>2, <1>4, <1>8, <1>12, <2>5 DEF Commanded
  <2>7. Hears(replies \o told, j, page.heard[j], Status(o))
    <3>1. told[1] = Event(j, Status(o)) /\ 1 \in 1..Len(told)
      BY <1>7, <1>12 DEF event
    <3>2. \A n \in (1 + 1)..Len(told) : ~ EventFor(told[n], j)
      BY <1>7
    <3> QED
      BY <1>1, <1>7, <3>1, <3>2, HearsNew
  <2>8. Relayed(j)'
    BY <1>2, <1>3, <1>4, <1>5, <1>9, <1>10, <1>12, <2>7 DEF Relayed
  <2>9. Kept(j)'
    BY <1>2, <1>3, <1>4, <1>8, <1>10, <1>12, <2>1, <2>2 DEF Kept
  <2> QED
    BY <2>3, <2>4, <2>6, <2>8, <2>9 DEF ObserverInv
<1>13. ASSUME NEW p \in Mutable PROVE AgentInv(p)'
  <2>1. AgentInv(p)
    BY DEF RemoteInv
  <2>2. p # o => relays'[p] = relays[p] /\ (p \in chained' <=> p \in chained)
    BY <1>1, <1>5
  <2>3. p = o => relays'[p] # {} /\ (p \in chained' <=> p \in sync.agents)
    <3>1. relays'[o] # {}
      BY <1>1, <1>3, <1>5
    <3>2. p = o => (p \in chained' <=> p \in sync.agents)
      BY <1>5, <2>1 DEF AgentInv
    <3> QED
      BY <3>1, <3>2
  <2> QED
    BY <1>2, <2>1, <2>2, <2>3 DEF AgentInv
<1>14. proxied
  BY <1>2 DEF RemoteInv, DirectInv
<1> QED
  BY <1>2, <1>11, <1>12, <1>13, <1>14 DEF RemoteInv, DirectInv

LEMMA ExecuteRemoveKeeps ==
    ASSUME RemoteInv, RemoteTypeOK', ExecuteRemoveObserver
    PROVE  RemoteInv'
<1> DEFINE c       == Head(commands)
           i       == c.id
           o       == c.object
           removed == [type |-> "removed", id |-> i]
<1>1. /\ RemoteTypeOK /\ page \in PageType /\ replies \in Seq(Replies) /\ commands \in Seq(Commands)
      /\ host \subseteq Ids /\ relays \in [Mutable -> SUBSET Ids]
      /\ updates \in [Mutable -> 0..MaxUpdates] /\ chained \subseteq Mutable
  BY TypesOfRemote DEF RemoteInv
<1>2. /\ commands # <<>> /\ c.type = "remove" /\ commands' = Tail(commands)
      /\ UNCHANGED <<sync, proxied, page, updates>> /\ host' = host \ {i}
      /\ IF i \in host THEN RemoveFromRelay(i, o) ELSE UNCHANGED <<relays, chained>>
      /\ replies' = Append(replies, removed)
  BY DEF ExecuteRemoveObserver, Received, Command, vars
<1>3. c \in Commands /\ commands' \in Seq(Commands) /\ i \in Ids /\ o \in Mutable
  <2>1. c \in Commands /\ commands' \in Seq(Commands)
    BY <1>1, <1>2, HeadTailProperties
  <2> QED
    BY <1>2, <2>1 DEF Commands
<1>4. removed \in Replies /\ removed.type = "removed" /\ removed.id = i
  BY <1>3 DEF Replies
<1>5. /\ Has(commands, "remove", i) /\ ~ Has(commands', "add", i)
      /\ \A p \in Mutable : i \in relays[p] => p = o /\ i \in host
  <2>1. Commanded(i) /\ Relayed(i)
    BY <1>3 DEF RemoteInv, ObserverInv
  <2>2. Has(commands, "remove", i)
    BY <1>1, <1>2, HasTail
  <2>3. page.of[i] \in {o, NoObject} /\ ~ Has(commands', "add", i)
    BY <1>1, <1>2, <2>1, QueueTail DEF Commanded
  <2> QED
    BY <2>1, <2>2, <2>3, IdsFacts DEF Relayed
<1> HIDE DEF removed, i, o
<1>6. /\ relays' \in [Mutable -> SUBSET Ids] /\ chained' \subseteq Mutable
      /\ \A p \in Mutable : relays'[p] = relays[p] \ {i}
      /\ \A p \in Mutable : p \in chained' <=> p \in chained /\ relays'[p] # {}
  <2>1. ASSUME NEW p \in Mutable PROVE p \in chained => relays[p] # {}
    BY DEF RemoteInv, AgentInv
  <2>2. CASE i \notin host
    BY <1>1, <1>2, <1>5, <2>1, <2>2
  <2>3. CASE i \in host
    <3> DEFINE left == relays[o] \ {i}
    <3>1. /\ relays' = [relays EXCEPT ![o] = IF left # {} THEN left ELSE {}]
          /\ chained' = IF left # {} THEN chained ELSE chained \ {o}
      BY <1>2, <2>3 DEF RemoveFromRelay, SomeLeft
    <3>2. relays' = [relays EXCEPT ![o] = left]
      BY <3>1
    <3>3. \A p \in Mutable : relays'[p] = IF p = o THEN left ELSE relays[p]
      BY <1>1, <3>2
    <3> QED
      BY <1>1, <1>3, <1>5, <2>1, <3>1, <3>2, <3>3
  <2> QED
    BY <2>2, <2>3
<1>7. \A j \in Ids : Has(replies', "removed", j) <=> Has(replies, "removed", j) \/ j = i
  BY <1>1, <1>2, <1>4, HasAppend
<1>8. \A p \in Mutable : Status(p)' = Status(p)
  BY <1>2 DEF Status
<1>9. ASSUME NEW j \in Ids, j # i PROVE ObserverInv(j)'
  <2>1. ObserverInv(j) /\ OneFunction(j) /\ Commanded(j) /\ Relayed(j)
    BY DEF RemoteInv, ObserverInv
  <2>2. OneFunction(j)'
    BY <1>2, <2>1 DEF OneFunction
  <2>3. /\ <<removed>> \in Seq(Replies) /\ replies' = replies \o <<removed>>
        /\ \A n \in 1..Len(<<removed>>) : ~ EventFor(<<removed>>[n], j)
    <3>1. <<removed>> \in Seq(Replies) /\ Len(<<removed>>) = 1 /\ <<removed>>[1] = removed
      BY <1>4
    <3>2. replies' = replies \o <<removed>>
      BY <1>1, <1>2, <1>4, AppendIsConcat
    <3> QED
      BY <1>4, <3>1, <3>2 DEF EventFor
  <2>4. ASSUME NEW p \in Mutable, j \in relays[p]
        PROVE  Hears(replies', j, page'.heard[j], Status(p)')
    <3>1. Hears(replies, j, page.heard[j], Status(p))
      BY <2>1, <2>4 DEF Relayed
    <3>2. Hears(replies \o <<removed>>, j, page.heard[j], Status(p))
      BY <1>1, <2>3, <3>1, HearsSame
    <3> QED
      BY <1>2, <1>8, <2>3, <3>2
  <2>5. /\ Queued(commands', j, page.of[j])
        /\ Has(commands', "add", j) <=> Has(commands, "add", j)
        /\ Has(commands', "remove", j) <=> Has(commands, "remove", j)
    BY <1>1, <1>2, <1>9, <2>1, QueueTail, HasTail DEF Commanded, i
  <2>6. /\ j \in host' <=> j \in host
        /\ \A p \in Mutable : j \in relays'[p] <=> j \in relays[p]
    BY <1>2, <1>6, <1>9
  <2> QED
    BY <1>2, <1>7, <1>9, <2>1, <2>2, <2>4, <2>5, <2>6, ObserverFrame
<1>10. ASSUME NEW j \in Ids, j = i PROVE ObserverInv(j)'
  <2>1. ObserverInv(j) /\ Fresh(j) /\ OneFunction(j) /\ Commanded(j) /\ Kept(j)
    BY DEF RemoteInv, ObserverInv
  <2>2. Fresh(j)'
    BY <1>2, <1>5, <1>10, <2>1 DEF Fresh
  <2>3. OneFunction(j)'
    BY <1>2, <2>1 DEF OneFunction
  <2>4. Queued(commands', j, page.of[j])
    BY <1>1, <1>2, <2>1, QueueTail DEF Commanded
  <2>5. Commanded(j)'
    BY <1>2, <1>5, <1>10, <2>4 DEF Commanded
  <2>6. Relayed(j)'
    BY <1>6, <1>10 DEF Relayed
  <2>7. Kept(j)'
    BY <1>2, <1>5, <1>10, <2>1 DEF Kept
  <2> QED
    BY <2>2, <2>3, <2>5, <2>6, <2>7 DEF ObserverInv
<1>11. ASSUME NEW p \in Mutable PROVE AgentInv(p)'
  <2>1. AgentInv(p)
    BY DEF RemoteInv
  <2>2. relays'[p] # {} => relays[p] # {}
    BY <1>6
  <2> QED
    BY <1>2, <1>6, <2>1, <2>2 DEF AgentInv
<1>12. proxied
  BY <1>2 DEF RemoteInv, DirectInv
<1> QED
  BY <1>2, <1>9, <1>10, <1>11, <1>12 DEF RemoteInv, DirectInv

LEMMA DirectKeeps ==
    ASSUME RemoteInv, RemoteTypeOK', Direct
    PROVE  RemoteInv'
<1>1. /\ ~ proxied /\ ~ proxied'
      /\ UNCHANGED <<commands, replies, page, host, relays, chained, updates>>
  BY DEF Direct, channels, observing
<1>2. ASSUME NEW i \in Ids PROVE ObserverInv(i)'
  <2>1. ObserverInv(i) /\ \A o \in Mutable : relays[o] = {}
    BY <1>1 DEF RemoteInv, DirectInv
  <2> QED
    BY <1>1, <2>1 DEF ObserverInv, Fresh, OneFunction, Commanded, Relayed, Kept
<1>3. ASSUME NEW o \in Mutable PROVE AgentInv(o)'
  BY <1>1 DEF RemoteInv, DirectInv, AgentInv
<1> QED
  BY <1>1, <1>2, <1>3 DEF RemoteInv, DirectInv

-----------------------------------------------------------------------------
(* The specification keeps it.                                             *)

LEMMA RemoteStarts ==
    ASSUME RemoteInit
    PROVE  RemoteInv
<1>1. /\ commands = <<>> /\ replies = <<>> /\ host = {} /\ chained = {}
      /\ relays = [o \in Mutable |-> {}] /\ updates = [o \in Mutable |-> 0]
      /\ page = [held |-> [k \in Objects \cup {Group} |-> 0], of |-> [i \in Ids |-> NoObject],
                 fn |-> [i \in Ids |-> NoObject], ids |-> [w \in Observers |-> 0],
                 adding |-> {}, removing |-> {}, outcome |-> [i \in Ids |-> "none"],
                 heard |-> [i \in Ids |-> Unheard]]
      /\ sync.agents = {}
  BY DEF RemoteInit, Init
<1>2. /\ page.of = [i \in Ids |-> NoObject] /\ page.fn = [i \in Ids |-> NoObject]
      /\ page.ids = [w \in Observers |-> 0] /\ page.outcome = [i \in Ids |-> "none"]
  BY <1>1
<1>3. RemoteTypeOK
  <2>1. MaxUpdates \in Nat /\ Unheard \in 0..Unheard
    BY RemoteAssumption DEF Unheard
  <2>2. page \in PageType
    BY <1>1, <2>1 DEF PageType, Outcomes
  <2>3. commands \in Seq(Commands) /\ replies \in Seq(Replies)
    BY <1>1
  <2> QED
    BY <1>1, <2>1, <2>2, <2>3 DEF RemoteTypeOK
<1>4. Len(commands) = 0 /\ Len(replies) = 0
  BY <1>1
<1>5. ASSUME NEW i \in Ids PROVE ObserverInv(i)
  <2>1. \A type : ~ Has(commands, type, i) /\ ~ Has(replies, type, i)
    BY <1>4 DEF Has
  <2>2. Queued(commands, i, page.of[i])
    BY <1>4 DEF Queued
  <2>3. OneFunction(i)
    BY <1>2, IdsFacts DEF OneFunction
  <2> QED
    BY <1>1, <1>2, <2>1, <2>2, <2>3 DEF ObserverInv, Fresh, Commanded, Relayed, Kept
<1>6. ASSUME NEW o \in Mutable PROVE AgentInv(o)
  BY <1>1 DEF AgentInv
<1> QED
  BY <1>1, <1>2, <1>3, <1>5, <1>6 DEF RemoteInv, DirectInv

(* A step at the level of the mesh is a step of MeshSync, or changes       *)
(* nothing there.                                                          *)
LEMMA RemoteSteps ==
    ASSUME RemoteTypeOK, [RemoteNext]_remoteVars
    PROVE  [Next]_vars
<1>1. CASE ExecuteOnMesh
  <2>1. /\ commands # <<>> /\ Head(commands) \in Commands
        /\ \/ JoinPeerGroup \/ LeavePeerGroup
           \/ Command.type = "sync" /\ SyncObject(Command.object, "full")
           \/ Command.type = "stop" /\ StopSyncObject(Command.object)
    BY <1>1, TypesOfRemote, HeadTailProperties DEF ExecuteOnMesh, Received, Command
  <2>2. Command.type \in {"sync", "stop"} => Command.object \in Objects
    BY <2>1 DEF Command, Commands
  <2> QED
    BY <2>1, <2>2 DEF Next, Modes
<1>2. CASE UNCHANGED remoteVars
  BY <1>2 DEF remoteVars
<1>3. CASE Direct
  BY <1>3 DEF Direct
<1>4. ASSUME NEW command, Send(command)
      PROVE  UNCHANGED vars
  BY <1>4 DEF Send
<1>5. CASE ProxyJoin \/ ProxyLeave
  BY <1>4, <1>5 DEF ProxyJoin, ProxyLeave
<1>8. CASE \E o \in Shown : ProxySync(o) \/ ProxyStop(o)
  BY <1>4, <1>8 DEF ProxySync, ProxyStop
<1>9. CASE \E w \in Observers, o \in Mutable, given \in GroupGiven : ProxyAddObserver(w, o, given)
  BY <1>4, <1>9 DEF ProxyAddObserver
<1>10. CASE \E w \in Observers, o \in Mutable : ProxyRemoveObserver(w, o)
  BY <1>4, <1>10 DEF ProxyRemoveObserver
<1>6. CASE IngestReply \/ \E i \in Ids : TimeOut(i)
  BY <1>6 DEF TimeOut, IngestReply
<1>7. CASE ExecuteAddObserver \/ ExecuteRemoveObserver \/ \E o \in Mutable : SyncStateUpdate(o)
  BY <1>7 DEF ExecuteAddObserver, ExecuteRemoveObserver, SyncStateUpdate
<1> QED
  BY <1>1, <1>2, <1>3, <1>5, <1>6, <1>7, <1>8, <1>9, <1>10 DEF RemoteNext

LEMMA MeshAgents == MeshInv => sync.agents \subseteq Mutable
BY DEF MeshInv, TypesAndCounts, TypeOK, MapsType

LEMMA TypedInvariant == RemoteSpec => [](MeshInv /\ RemoteTypeOK)
<1>1. RemoteInit => MeshInv /\ RemoteTypeOK
  BY MeshInit, RemoteStarts DEF RemoteInit, RemoteInv
<1>2. MeshInv /\ RemoteTypeOK /\ [RemoteNext]_remoteVars => (MeshInv /\ RemoteTypeOK)'
  <2> SUFFICES ASSUME MeshInv, RemoteTypeOK, [RemoteNext]_remoteVars
               PROVE  (MeshInv /\ RemoteTypeOK)'
    OBVIOUS
  <2>1. MeshInv'
    BY RemoteSteps, MeshStep
  <2>2. sync.agents \subseteq Mutable /\ sync'.agents \subseteq Mutable
    BY <2>1, MeshAgents DEF MeshInv, TypesAndCounts, TypeOK, MapsType
  <2> QED
    BY <2>1, <2>2, RemoteTypesStep
<1> QED
  BY <1>1, <1>2, PTL DEF RemoteSpec

(* A mesh used through a proxy is a mesh: what MeshHost executes are calls *)
(* of the mesh that its application might have made (MeshHost.execute()),  *)
(* and the observers change nothing in it.                                 *)
THEOREM RemoteIsMesh == RemoteSpec => Spec
<1>1. RemoteInit => Init
  BY DEF RemoteInit
<1>2. MeshInv /\ RemoteTypeOK /\ [RemoteNext]_remoteVars => [Next]_vars
  BY RemoteSteps
<1> QED
  BY <1>1, <1>2, TypedInvariant, PTL DEF RemoteSpec, Spec

(* Through the proxy too, while nothing is late, what a token is held of   *)
(* is synchronized and what no token needs is released (the calls that     *)
(* MeshHost.execute() makes of syncObject- and stopSyncObject-             *)
(* WithPeerGroup()).                                                       *)
THEOREM RemoteSyncedWhileUsed == RemoteSpec => []SyncedWhileUsed
<1> QED
  BY RemoteIsMesh, MeshSyncedWhileUsed, PTL

(* ... and an op that came for an object a recursive root followed is      *)
(* followed itself, once its callback is through (watchForNewOps()).       *)
THEOREM RemoteFollowsNewOps == RemoteSpec => []NewOpsAreFollowed
<1> QED
  BY RemoteIsMesh, MeshFollowsNewOps, PTL

-----------------------------------------------------------------------------
(* The observers.                                                          *)

LEMMA RemoteStep ==
    ASSUME GroupGiven = {TRUE}, ~ Shared, MeshInv, RemoteInv, [RemoteNext]_remoteVars
    PROVE  MeshInv' /\ RemoteInv'
<1>1. MeshInv'
  BY RemoteSteps, MeshStep DEF RemoteInv
<1>2. sync.agents \subseteq Mutable /\ sync'.agents \subseteq Mutable
  BY <1>1, MeshAgents DEF MeshInv, TypesAndCounts, TypeOK, MapsType
<1>3. RemoteTypeOK'
  BY <1>2, RemoteTypesStep DEF RemoteInv
<1>4. CASE UNCHANGED remoteVars
  <2>1. UNCHANGED <<sync, proxied, commands, replies, page, host, relays, chained, updates>>
    BY <1>4 DEF remoteVars, vars, channels, observing
  <2>2. \A i \in Ids : ObserverInv(i)'
    BY <2>1 DEF RemoteInv, ObserverInv, Fresh, OneFunction, Commanded, Relayed, Kept, Status
  <2>3. \A o \in Mutable : AgentInv(o)'
    BY <2>1, AgentsSame DEF RemoteInv
  <2> QED
    BY <1>1, <1>3, <2>1, <2>2, <2>3 DEF RemoteInv, DirectInv
<1>5. ASSUME NEW c \in Commands, c.type \notin {"add", "remove"}, NEW k \in Objects \cup {Group},
             NEW d \in Int, Send(c), Held(k, d)
      PROVE  RemoteInv'
  BY <1>3, <1>5, SendKeeps
<1>6. CASE ProxyJoin \/ ProxyLeave
  <2>1. [type |-> "join"] \in Commands /\ [type |-> "leave"] \in Commands
    BY DEF Commands
  <2> QED
    BY <1>1, <1>5, <1>6, <2>1 DEF ProxyJoin, ProxyLeave
<1>7. ASSUME NEW o \in Shown, ProxySync(o) \/ ProxyStop(o)
      PROVE  RemoteInv'
  <2>1. /\ o \in Objects \cup {Group}
        /\ [type |-> "sync", object |-> o] \in Commands /\ [type |-> "stop", object |-> o] \in Commands
    BY RemoteAssumption DEF Commands
  <2> QED
    BY <1>5, <1>7, <2>1 DEF ProxySync, ProxyStop
<1> QED
  BY <1>1, <1>2, <1>3, <1>4, <1>6, <1>7, AddObserverKeeps, RemoveObserverKeeps, TimeOutKeeps,
     IngestKeeps, UpdateKeeps, ExecuteKeeps, ExecuteAddKeeps, ExecuteRemoveKeeps, DirectKeeps
     DEF RemoteNext

LEMMA InvInformed == RemoteInv => ObserversInformed
<1> SUFFICES ASSUME RemoteInv, Settled
             PROVE  ObserversInformed
  BY DEF ObserversInformed
<1>1. Len(commands) = 0 /\ Len(replies) = 0
  BY DEF Settled
<1>2. ASSUME NEW i \in Ids, page.outcome[i] = "added"
      PROVE  page.heard[i] = Status(page.of[i])
  <2>1. page.of[i] \in Mutable /\ i \in relays[page.of[i]]
    BY <1>1, <1>2 DEF RemoteInv, ObserverInv, Kept, Has
  <2>2. Hears(replies, i, page.heard[i], Status(page.of[i]))
    BY <2>1 DEF RemoteInv, ObserverInv, Relayed
  <2> QED
    BY <1>1, <2>2 DEF Hears
<1>3. ASSUME NEW o \in Mutable, NEW i \in relays[o]
      PROVE  page.of[i] = o
  BY TypesOfRemote DEF RemoteInv, ObserverInv, Relayed
<1> QED
  BY <1>2, <1>3 DEF ObserversInformed

(* Once nothing is on its way, an observer that was added has last heard   *)
(* the state its object is in, and no relay knows one the page has         *)
(* forgotten (MeshProxy, MeshHost and SyncObserverAgent): as long as the   *)
(* application names the peer group (else the host drops what the mesh     *)
(* rejects) and does not add one function for several objects (else        *)
(* removing it for one forgets another).                                   *)
THEOREM RemoteInformsObservers ==
    ASSUME GroupGiven = {TRUE}, ~ Shared
    PROVE  RemoteSpec => []ObserversInformed
<1>1. RemoteInit => MeshInv /\ RemoteInv
  BY MeshInit, RemoteStarts DEF RemoteInit
<1>2. MeshInv /\ RemoteInv /\ [RemoteNext]_remoteVars => (MeshInv /\ RemoteInv)'
  BY RemoteStep
<1>3. MeshInv /\ RemoteInv => ObserversInformed
  BY InvInformed
<1> QED
  BY <1>1, <1>2, <1>3, PTL DEF RemoteSpec
=============================================================================
