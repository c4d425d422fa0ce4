----------------------------- MODULE RemoteMesh -----------------------------
(***************************************************************************)
(* A mesh that runs in a worker and is used from a page                    *)
(* (src/mesh/service/remoting): MeshProxy sends every call to MeshHost,    *)
(* which makes it on the mesh of MeshSync and sends back the replies; and  *)
(* the observers of the synchronization of an object, which are kept at    *)
(* the level of the mesh so that they outlive its sync agent               *)
(* (src/mesh/agents/state/SyncObserverAgent.ts).                           *)
(*                                                                         *)
(* Messages between page and worker keep their order.  Adding and removing *)
(* an observer returns a promise with a timeout.  The state of an object   *)
(* is 0 while it has no sync agent, and from then on 1 and one more with   *)
(* each update of the agent.                                               *)
(***************************************************************************)
EXTENDS MeshSync, Integers, SequencesExt

CONSTANTS Observers,  \* functions of the application
          MaxIds,     \* bound on the observers added
          Shown,      \* what the page synchronizes
          MaxUpdates, \* bound on the updates of a sync agent
          MaxMessages, \* bound on the messages on their way when the page makes a call
          GroupGiven, \* does the application say which peer group it means? (a set of answers)
          Shared      \* may it add one function as the observer of several objects?

ASSUME RemoteAssumption ==
  /\ Shown \subseteq Objects /\ MaxIds \in Nat /\ MaxUpdates \in Nat
  /\ GroupGiven \subseteq BOOLEAN /\ Shared \in BOOLEAN
  /\ "none" \notin Observers \cup Mutable

VARIABLES proxied,    \* is the mesh used through a proxy?
          commands, replies,  \* on their way
          page,       \* MeshProxy, see RemoteInit
          host,       \* MeshHost: the ids of the observers it keeps
          relays,     \* SyncObserverAgent: the observers of each object
          chained,    \* the objects whose sync agent has the relay as an observer
          updates
channels   == <<commands, replies>>
observing  == <<relays, chained, updates>>
remoteVars == <<vars, proxied, channels, page, host, observing>>

Ids      == 1..MaxIds
Unheard  == MaxUpdates + 2
NoObject == "none"

RemoteInit ==
  /\ Init
  /\ proxied \in BOOLEAN
  /\ proxied => stored = {}
  /\ commands = <<>> /\ replies = <<>>
  /\ page = [held     |-> [k \in Objects \cup {Group} |-> 0],  \* tokens
             of       |-> [i \in Ids |-> NoObject],   \* syncObservers: the object of each
             fn       |-> [i \in Ids |-> NoObject],   \* and the function
             ids      |-> [w \in Observers |-> 0],    \* syncObserverIds
             adding   |-> {}, removing |-> {},        \* promises that are pending
             outcome  |-> [i \in Ids |-> "none"],     \* what became of each observer
             heard    |-> [i \in Ids |-> Unheard]]
  /\ host = {} /\ relays = [o \in Mutable |-> {}] /\ chained = {}
  /\ updates = [o \in Mutable |-> 0]

-----------------------------------------------------------------------------
(* SyncObserverAgent.                                                      *)

Status(o)       == IF o \in sync.agents THEN 1 + updates[o] ELSE 0
Event(i, value) == [type |-> "event", id |-> i, status |-> value]
\* EventRelay.emit(), with the callback that MeshHost made for each observer.
Emit(objs, value) == {Event(i, value) : i \in UNION {relays[o] : o \in objs}}

\* mutant: the relay is not chained to an agent that is created later.
NeverChained(o) == FALSE
Rechained(o)    == relays[o] # {}

\* receiveLocalEvent(): sync agents were registered or deregistered.
AgentSetChange ==
  LET gone == sync.agents \ sync'.agents
      new  == sync'.agents \ sync.agents
  IN  /\ updates' = [o \in Mutable |-> IF o \in gone THEN 0 ELSE updates[o]]
      /\ chained' = (chained \ gone) \cup {o \in new : Rechained(o)}
      /\ replies' = replies \o SetToSeq(Emit(gone, 0)) \o SetToSeq(Emit(new, 1))
      /\ UNCHANGED relays

\* emitSyncState(), by the sync agent of an object.
SyncStateUpdate(o) ==
  /\ proxied /\ o \in sync.agents /\ updates[o] < MaxUpdates
  /\ updates' = [updates EXCEPT ![o] = @ + 1]
  /\ replies' = IF o \in chained THEN replies \o SetToSeq(Emit({o}, 1 + updates'[o])) ELSE replies
  /\ UNCHANGED <<vars, proxied, commands, page, host, relays, chained>>

\* addSyncObserver()
AddToRelay(i, o) ==
  /\ relays'  = [relays EXCEPT ![o] = @ \cup {i}]
  /\ chained' = IF relays[o] = {} THEN chained \cup ({o} \cap sync.agents) ELSE chained

\* mutant: the relay goes with the first of its observers.
AnyLeft(o, left)  == FALSE
SomeLeft(o, left) == left # {}
\* removeSyncObserver(): the relay goes with the last observer.
RemoveFromRelay(i, o) ==
  LET left == relays[o] \ {i} IN
  /\ relays'  = [relays EXCEPT ![o] = IF SomeLeft(o, left) THEN left ELSE {}]
  /\ chained' = IF SomeLeft(o, left) THEN chained ELSE chained \ {o}

-----------------------------------------------------------------------------
(* MeshProxy: the calls of the page.  The page calls legally, for what the *)
(* worker throws never comes back.                                         *)

CallsOnTheirWay == Len(SelectSeq(commands, LAMBDA c : c.type \notin {"add", "remove"}))
Send(command) ==
  /\ proxied /\ Len(commands) + Len(replies) < MaxMessages
  /\ calls + CallsOnTheirWay < MaxCalls
  /\ commands' = Append(commands, command)
  /\ UNCHANGED <<vars, proxied, replies, host, observing>>

Held(k, d) == page' = [page EXCEPT !.held[k] = @ + d]
ProxyJoin    == Send([type |-> "join"]) /\ Held(Group, 1)
ProxyLeave   == /\ page.held[Group] > 0
                /\ page.held[Group] > 1 \/ \A o \in Objects : page.held[o] = 0
                /\ Send([type |-> "leave"]) /\ Held(Group, -1)
ProxySync(o) == page.held[Group] > 0 /\ Send([type |-> "sync", object |-> o]) /\ Held(o, 1)
ProxyStop(o) == page.held[o] > 0 /\ Send([type |-> "stop", object |-> o]) /\ Held(o, -1)

ProxyAddObserver(w, o, given) ==
  \E i \in Ids :
    /\ page.outcome[i] = "none" /\ \A j \in 1..(i - 1) : page.outcome[j] # "none"
    /\ Shared \/ page.ids[w] = 0
    /\ Send([type |-> "add", id |-> i, object |-> o, given |-> given])
    /\ page' = [page EXCEPT !.of[i] = o, !.fn[i] = w, !.ids[w] = i, !.adding = @ \cup {i},
                            !.outcome[i] = "adding"]

\* The observer is looked up by the function alone.
ProxyRemoveObserver(w, o) ==
  LET i == page.ids[w] IN
  /\ i # 0 /\ i \notin page.removing
  /\ \E j \in Ids : page.fn[j] = w /\ page.of[j] = o
  /\ Send([type |-> "remove", id |-> i, object |-> o, given |-> TRUE])
  /\ page' = [page EXCEPT !.removing = @ \cup {i}, !.outcome[i] = "removing"]

\* What was asked last counts, when the other promise is settled.
Now(i, result) == IF page.outcome[i] = "adding" THEN result ELSE page.outcome[i]

\* The timers: the promise is rejected, the observer stays in the maps.
TimeOut(i) ==
  /\ \/ i \in page.adding   /\ page' = [page EXCEPT !.adding = @ \ {i}, !.outcome[i] = Now(i, "failed")]
     \/ i \in page.removing /\ page' = [page EXCEPT !.removing = @ \ {i}, !.outcome[i] = "failed"]
  /\ UNCHANGED <<vars, proxied, channels, host, observing>>

\* commandStreamedReplyIngestFn()
Forget(p, i) ==
  LET w == p.fn[i] IN
  [p EXCEPT !.of[i] = NoObject, !.fn[i] = NoObject,
            !.ids = [v \in Observers |-> IF v = w THEN 0 ELSE p.ids[v]]]
IngestReply ==
  /\ replies # <<>> /\ replies' = Tail(replies)
  /\ LET r == Head(replies)
         i == r.id
     IN page' = CASE r.type = "event" /\ page.of[i] # NoObject -> [page EXCEPT !.heard[i] = r.status]
                  [] r.type = "added" /\ i \in page.adding ->
                       [page EXCEPT !.adding = @ \ {i}, !.outcome[i] = Now(i, "added")]
                  [] r.type = "removed" /\ i \in page.removing ->
                       [Forget(page, i) EXCEPT !.removing = @ \ {i}, !.outcome[i] = "removed"]
                  [] OTHER -> page
  /\ UNCHANGED <<vars, proxied, commands, host, observing>>

-----------------------------------------------------------------------------
(* MeshHost.execute().                                                     *)

Received(type) == commands # <<>> /\ Head(commands).type = type /\ commands' = Tail(commands)
Command        == Head(commands)

ExecuteOnMesh ==
  /\ \/ Received("join")  /\ JoinPeerGroup
     \/ Received("leave") /\ LeavePeerGroup
     \/ Received("sync")  /\ SyncObject(Command.object, "full")
     \/ Received("stop")  /\ StopSyncObject(Command.object)
  /\ AgentSetChange
  /\ UNCHANGED <<proxied, page, host>>

\* What the mesh rejects is not caught, since its method is asynchronous: the
\* reply says that the observer was added.
ExecuteAddObserver ==
  /\ Received("add")
  /\ LET i == Command.id
         o == Command.object
         added == [type |-> "added", id |-> i]
     IN /\ host' = host \cup {i}
        /\ IF Command.given
           THEN AddToRelay(i, o) /\ replies' = replies \o <<Event(i, Status(o)), added>>
           ELSE replies' = Append(replies, added) /\ UNCHANGED <<relays, chained>>
  /\ UNCHANGED <<vars, proxied, page, updates>>

ExecuteRemoveObserver ==
  /\ Received("remove")
  /\ LET i == Command.id IN
     /\ host' = host \ {i}
     /\ IF i \in host THEN RemoveFromRelay(i, Command.object) ELSE UNCHANGED <<relays, chained>>
     /\ replies' = Append(replies, [type |-> "removed", id |-> i])
  /\ UNCHANGED <<vars, proxied, page, updates>>

-----------------------------------------------------------------------------
Direct == ~ proxied /\ Next /\ UNCHANGED <<proxied, channels, page, host, observing>>

RemoteNext ==
  \/ Direct
  \/ ProxyJoin \/ ProxyLeave
  \/ \E o \in Shown : ProxySync(o) \/ ProxyStop(o)
  \/ \E w \in Observers, o \in Mutable, given \in GroupGiven : ProxyAddObserver(w, o, given)
  \/ \E w \in Observers, o \in Mutable : ProxyRemoveObserver(w, o)
  \/ \E i \in Ids : TimeOut(i)
  \/ IngestReply
  \/ ExecuteOnMesh \/ ExecuteAddObserver \/ ExecuteRemoveObserver
  \/ \E o \in Mutable : SyncStateUpdate(o)
RemoteSpec == RemoteInit /\ [][RemoteNext]_remoteVars

-----------------------------------------------------------------------------
Settled == commands = <<>> /\ replies = <<>>

(* Once nothing is on its way, an observer that was added has last heard   *)
(* what its object's state is, however often synchronization was stopped   *)
(* and resumed ("this works transparently for any observers that have been *)
(* added"), and nobody is told that the page has forgotten.                *)
ObserversInformed ==
  Settled =>
    /\ \A i \in Ids : page.outcome[i] = "added" => page.heard[i] = Status(page.of[i])
    /\ \A o \in Mutable : \A i \in relays[o] : page.of[i] = o
=============================================================================
