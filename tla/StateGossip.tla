----------------------------- MODULE StateGossip -----------------------------
(***************************************************************************)
(* How the peers of a group learn of each other's state: StateGossipAgent  *)
(* (src/mesh/agents/state/StateGossipAgent.ts) together with the agent     *)
(* whose state it gossips, HeaderBasedSyncAgent, on several nodes, for one *)
(* mutable object. Connections are ordered and reliable while they last;   *)
(* they are lost and made again.                                           *)
(*                                                                         *)
(* A state is the set of ops its terminal headers stand for, and its own   *)
(* hash. Op transfer is external: what the sync agent was told of and does *)
(* not have is fetched, sooner or later, from a peer that has it (see      *)
(* HistorySynchronizer.tla). There are fewer peers than a round of gossip  *)
(* reaches, so that it reaches all of them.                                *)
(***************************************************************************)
EXTENDS Naturals, Sequences, FiniteSets

CONSTANTS
    Node, Op,
    Situations,             \* ops each node has at first, and bounds of what goes wrong
    None,                   \* undefined
    MaxRepeats,             \* params.maxStateSendingRepeats
    OrderedReads            \* the store answers reads in the order they were made

State == SUBSET Op

ASSUME GossipAssumption ==
    /\ Situations \subseteq [ops: [Node -> State], disconnects: Nat, restarts: Nat]
    /\ \A s \in State : s # None
    /\ MaxRepeats \in Nat
    /\ OrderedReads \in BOOLEAN

VARIABLES
    store,                  \* ops in the store of each node
    callbacks,              \* ops whose opCallback() is yet to read the store
    loads,                  \* updateStateFromStore() calls: what each has read
    wanted,                 \* ops the synchronizer knows of and will fetch
    syncing,                \* the sync agent is registered, and tracked
    agentState,             \* HeaderBasedSyncAgent.state
    localState,             \* StateGossipAgent.localState
    remoteState,            \* StateGossipAgent.remoteState
    prevStates,             \* StateGossipAgent.previousStatesCaches
    sentState,              \* StateGossipAgent.sentStateCache
    receiving,              \* running receiveStateObject() calls
    connected, net,
    situation,              \* the one of this behaviour
    disconnects, restarts   \* lost connections, sync agents stopped and created anew

agentVars == <<callbacks, loads, wanted, syncing, agentState>>
gossipVars == <<localState, remoteState, prevStates, sentState, receiving>>
bounds == <<situation, disconnects, restarts>>
vars == <<store, agentVars, gossipVars, connected, net, bounds>>

MaybeState == {None} \cup State

(* A state object is one; a gossiped or a requested state may be undefined.*)
Message == [type: {"full", "request"}, state: MaybeState] \cup [type: {"state"}, state: State]

(* told: the agent was notified; old: it knew the state.                   *)
Receipt == [from: Node, state: State, told: BOOLEAN, old: BOOLEAN]
Load == [state: State, old: BOOLEAN]
Sent == [state: MaybeState, repeats: 0 .. MaxRepeats + 1]

TypeOK ==
    /\ store \in [Node -> State]
    /\ callbacks \in [Node -> State]
    /\ \A n \in Node : callbacks[n] \subseteq store[n]
    /\ loads \in [Node -> SUBSET Load]
    /\ wanted \in [Node -> State]
    /\ \A n \in Node : wanted[n] \cap store[n] = {}
    /\ syncing \in [Node -> BOOLEAN]
    /\ agentState \in [Node -> MaybeState] /\ localState \in [Node -> MaybeState]
    /\ remoteState \in [Node -> [Node -> MaybeState]]
    /\ prevStates \in [Node -> SUBSET State]
    /\ sentState \in [Node -> [Node -> Sent]]
    /\ receiving \in [Node -> SUBSET Receipt]
    /\ connected \in [Node -> SUBSET Node]
    /\ \A n \in Node : \A m \in connected[n] : n \in connected[m]
    /\ net \in [Node -> [Node -> Seq(Message)]]
    /\ situation \in Situations
    /\ disconnects \in 0 .. situation.disconnects /\ restarts \in 0 .. situation.restarts

NoneEach == [n \in Node |-> [m \in Node |-> None]]

Init ==
    /\ situation \in Situations
    /\ store = situation.ops
    /\ callbacks = [n \in Node |-> {}]
    /\ loads = [n \in Node |-> {}]
    /\ wanted = [n \in Node |-> {}]
    /\ syncing = [n \in Node |-> FALSE]
    /\ agentState = [n \in Node |-> None] /\ localState = [n \in Node |-> None]
    /\ remoteState = NoneEach
    /\ prevStates = [n \in Node |-> {}]
    /\ sentState = [n \in Node |-> [m \in Node |-> [state |-> None, repeats |-> 0]]]
    /\ receiving = [n \in Node |-> {}]
    /\ connected = [n \in Node |-> {}]
    /\ net = [n \in Node |-> [m \in Node |-> <<>>]]
    /\ disconnects = 0 /\ restarts = 0

-----------------------------------------------------------------------------
(* sendToPeer() for a set of peers: those that are not connected are not   *)
(* sent anything.                                                          *)
Sending(n, peers, msg) ==
    [net EXCEPT ![n] = [m \in Node |-> IF m \in peers \cap connected[n]
                                       THEN Append(net[n][m], msg) ELSE net[n][m]]]

FullState(s) == [type |-> "full", state |-> s]
StateObject(s) == [type |-> "state", state |-> s]
RequestStateObject == [type |-> "request", state |-> None]

(* sendStateObject(): a state that was gossiped to a peer before is sent   *)
(* again only so many times, unless it was asked for or some time went by. *)
IsRepeat(n, m, s) == sentState[n][m].state = s

Throttled(n, s, requested) ==
    {m \in Node : ~requested /\ IsRepeat(n, m, s) /\ sentState[n][m].repeats >= MaxRepeats}

CountSent(n, m, s) ==
    [state   |-> s,
     repeats |-> IF ~IsRepeat(n, m, s) THEN 1
                 ELSE IF sentState[n][m].repeats > MaxRepeats THEN MaxRepeats + 1
                 ELSE sentState[n][m].repeats + 1]

SendStateObject(n, peers, s, requested) ==
    \E elapsed \in SUBSET (peers \cap Throttled(n, s, requested)) :
        LET to == (peers \ Throttled(n, s, requested)) \cup elapsed
        IN  /\ net' = Sending(n, to, StateObject(s))
            /\ sentState' = [sentState EXCEPT ![n] = [m \in Node |->
                               IF m \in to \cap connected[n] THEN CountSent(n, m, s)
                                                             ELSE sentState[n][m]]]

(* cachePreviousState(); the cache holds more states than there are here.  *)
CachePreviousState(n, s) == prevStates' = [prevStates EXCEPT ![n] = @ \cup ({s} \ {None})]

-----------------------------------------------------------------------------
(* watchStoreForOps(): the agent that synchronizes is called.              *)
CalledBack(n, o) == IF syncing[n] THEN {o} ELSE {}

(* A local op is created and saved, or one that is missing is fetched and  *)
(* saved: the store calls opCallback().                                    *)
Save(n, o) ==
    /\ store' = [store EXCEPT ![n] = @ \cup {o}]
    /\ callbacks' = [callbacks EXCEPT ![n] = @ \cup CalledBack(n, o)]
    /\ wanted' = [wanted EXCEPT ![n] = @ \ {o}]
    /\ UNCHANGED <<loads, syncing, agentState, gossipVars, connected, net, bounds>>

CreateOp(n, o) == (\A m \in Node : o \notin store[m]) /\ Save(n, o)

Fetch(n, o) ==
    /\ syncing[n] /\ o \in wanted[n]
    /\ \E m \in connected[n] : o \in store[m]
    /\ Save(n, o)

(* opCallback() reads the state of the store, and updateState() announces  *)
(* it if it is a new one (localAgentStateUpdate() and gossipNewState()). A *)
(* stopped agent's last reads still end, and are announced if the agent    *)
(* that replaced it is tracked.                                            *)
ReadStore(n, o) ==
    /\ o \in callbacks[n]
    /\ callbacks' = [callbacks EXCEPT ![n] = @ \ {o}]
    /\ loads' = [loads EXCEPT ![n] = @ \cup {[state |-> store[n], old |-> FALSE]}]
    /\ UNCHANGED <<store, wanted, syncing, agentState, gossipVars, connected, net,
                   bounds>>

InOrder(n, l) == OrderedReads => \A x \in loads[n] : l.state \subseteq x.state

GossipToNone(n) == {}       \* mutant: the new state is kept, and not sent

GossipTo(n) == connected[n]

LocalAgentStateUpdate(n, s) ==
    /\ localState' = [localState EXCEPT ![n] = s]
    /\ IF localState[n] = s THEN UNCHANGED prevStates
                            ELSE CachePreviousState(n, localState[n])
    /\ SendStateObject(n, GossipTo(n), s, FALSE)

IsFirstState(n, l) == l.old \/ agentState[n] = None     \* mutant: later states are not announced

IsNewState(n, l) == l.old \/ agentState[n] # l.state

UpdateState(n, l) ==
    /\ l \in loads[n] /\ InOrder(n, l)
    /\ loads' = [loads EXCEPT ![n] = @ \ {l}]
    /\ agentState' = IF l.old THEN agentState ELSE [agentState EXCEPT ![n] = l.state]
    /\ IF IsNewState(n, l) /\ syncing[n] THEN LocalAgentStateUpdate(n, l.state)
                                         ELSE UNCHANGED <<localState, prevStates, sentState, net>>
    /\ UNCHANGED <<store, callbacks, wanted, syncing, remoteState, receiving, connected, bounds>>

RequestStateObjectToAllPeers(n) == net' = Sending(n, connected[n], RequestStateObject)

(* ready(): the agent reads the store for the first time.                  *)
Ready(n) == loads' = [loads EXCEPT ![n] = @ \cup {[state |-> store[n], old |-> FALSE]}]

(* addSingleObjectSync(): the state is tracked, and asked for of all peers,*)
(* then the agent is registered.                                           *)
StartSync(n) ==
    /\ ~syncing[n]
    /\ syncing' = [syncing EXCEPT ![n] = TRUE]
    /\ Ready(n)
    /\ RequestStateObjectToAllPeers(n)
    /\ UNCHANGED <<store, callbacks, wanted, agentState, gossipVars, connected, bounds>>

(* shutdown(): callbacks find that they are too late; what is being read   *)
(* is still read to its end.                                               *)
Shutdown(n) ==
    /\ callbacks' = [callbacks EXCEPT ![n] = {}]
    /\ loads' = [loads EXCEPT ![n] = {[l EXCEPT !.old = TRUE] : l \in loads[n]}]
    /\ wanted' = [wanted EXCEPT ![n] = {}]
    /\ agentState' = [agentState EXCEPT ![n] = None]

UntrackAgentState(n) ==
    /\ localState' = [localState EXCEPT ![n] = None]
    /\ prevStates' = [prevStates EXCEPT ![n] = {}]

(* removeSingleObjectSync(): untrackAgentState() and deregisterAgent(). The*)
(* gossip agent stays, for the other objects of the peer group.            *)
StopSync(n) ==
    /\ syncing[n] /\ restarts < situation.restarts
    /\ restarts' = restarts + 1
    /\ syncing' = [syncing EXCEPT ![n] = FALSE]
    /\ Shutdown(n)
    /\ UntrackAgentState(n)
    /\ UNCHANGED <<store, remoteState, sentState, receiving, connected, net, situation, disconnects>>

-----------------------------------------------------------------------------
(* receiveGossip(), of the message m's agent sent first.                   *)
Consume(n, m) == [net EXCEPT ![m][n] = Tail(@)]

(* receiveStateObject(), up to its first await.                            *)
Unseen(n, m, s) == remoteState[n][m] # s

BeginReceipt(n, m, s) ==
    receiving' = IF Unseen(n, m, s)
                 THEN [receiving EXCEPT ![n] = @ \cup
                         {[from |-> m, state |-> s, told |-> FALSE, old |-> FALSE]}]
                 ELSE receiving

(* receiveFullState(): the object is asked for unless it was met before.   *)
Met(n, s) == s \in prevStates[n] \/ \E p \in Node : remoteState[n][p] = s

AskFor(n) == RequestStateObject

ReceiveFullState(n, m, s) ==
    /\ IF syncing[n] /\ s # None /\ Met(n, s)
       THEN BeginReceipt(n, m, s) ELSE UNCHANGED receiving
    /\ net' = IF syncing[n] /\ s # None /\ ~Met(n, s) /\ m \in connected[n]
              THEN [Consume(n, m) EXCEPT ![n][m] = Append(@, AskFor(n))]
              ELSE Consume(n, m)
    /\ UNCHANGED sentState

ReceiveStateObject(n, m, s) ==
    /\ BeginReceipt(n, m, s)
    /\ net' = Consume(n, m)
    /\ UNCHANGED sentState

(* A requested state is never throttled.                                   *)
ReceiveRequest(n, m) ==
    /\ net' = IF localState[n] = None THEN Consume(n, m)
              ELSE [Consume(n, m) EXCEPT ![n][m] = Append(@, StateObject(localState[n]))]
    /\ sentState' = IF localState[n] = None THEN sentState
                    ELSE [sentState EXCEPT ![n][m] = CountSent(n, m, localState[n])]
    /\ UNCHANGED receiving

ReceiveGossip(n, m) ==
    /\ net[m][n] # <<>>
    /\ LET msg == Head(net[m][n])
       IN  \/ msg.type = "full" /\ ReceiveFullState(n, m, msg.state)
           \/ msg.type = "state" /\ ReceiveStateObject(n, m, msg.state)
           \/ msg.type = "request" /\ ReceiveRequest(n, m)
    /\ UNCHANGED <<store, agentVars, localState, remoteState, prevStates, connected,
                   bounds>>

(* The next part of receiveStateObject(): receiveRemoteState() of the sync *)
(* agent, if there is one, hands unknown ops to the synchronizer.          *)
Unknown(n, s) == s \ store[n]

HasLocalStateAgent(n) == syncing[n]

ReceiveRemoteState(n, s) == wanted' = [wanted EXCEPT ![n] = @ \cup Unknown(n, s)]

NotifyAgentOfStateArrival(n, r) ==
    /\ r \in receiving[n] /\ ~r.told
    /\ IF HasLocalStateAgent(n)
       THEN /\ ReceiveRemoteState(n, r.state)
            /\ receiving' = [receiving EXCEPT ![n] = (@ \ {r}) \cup
                               {[r EXCEPT !.told = TRUE, !.old = Unknown(n, r.state) = {}]}]
       ELSE /\ UNCHANGED wanted
            /\ receiving' = [receiving EXCEPT ![n] = @ \ {r}]
    /\ UNCHANGED <<store, callbacks, loads, syncing, agentState, localState, remoteState,
                   prevStates, sentState, connected, net, bounds>>

(* The rest of it: the state is recorded, and if it is an old one the peer *)
(* is sent ours.                                                           *)
Recorded(n, m, s) == [remoteState EXCEPT ![n][m] = s]

Replies(n, r) == r.old /\ localState[n] \notin {r.state, None}

SetRemoteState(n, r) ==
    /\ r \in receiving[n] /\ r.told
    /\ receiving' = [receiving EXCEPT ![n] = @ \ {r}]
    /\ remoteState' = Recorded(n, r.from, r.state)
    /\ CachePreviousState(n, r.state)
    /\ IF Replies(n, r) THEN SendStateObject(n, {r.from}, localState[n], FALSE)
                        ELSE UNCHANGED <<net, sentState>>
    /\ UNCHANGED <<store, agentVars, localState, connected, bounds>>

-----------------------------------------------------------------------------
(* The NewPeer event on both sides of a connection: each sends its states; *)
(* and the LostPeer event: each forgets the other's.                       *)
Connect(n, m) ==
    /\ n # m /\ m \notin connected[n]
    /\ connected' = [connected EXCEPT ![n] = @ \cup {m}, ![m] = @ \cup {n}]
    /\ net' = [net EXCEPT ![n][m] = <<FullState(localState[n])>>,
                          ![m][n] = <<FullState(localState[m])>>]
    /\ UNCHANGED <<store, agentVars, gossipVars, bounds>>

ForgetsPeers(n, m) ==
    [remoteState EXCEPT ![n][m] = None, ![m][n] = None]

Disconnect(n, m) ==
    /\ m \in connected[n] /\ disconnects < situation.disconnects
    /\ disconnects' = disconnects + 1
    /\ connected' = [connected EXCEPT ![n] = @ \ {m}, ![m] = @ \ {n}]
    /\ net' = [net EXCEPT ![n][m] = <<>>, ![m][n] = <<>>]
    /\ remoteState' = ForgetsPeers(n, m)
    /\ UNCHANGED <<store, agentVars, localState, prevStates, sentState, receiving, situation, restarts>>

-----------------------------------------------------------------------------
Next ==
    \/ \E n \in Node :
          \/ \E o \in Op : CreateOp(n, o) \/ Fetch(n, o) \/ ReadStore(n, o)
          \/ \E l \in loads[n] : UpdateState(n, l)
          \/ StartSync(n) \/ StopSync(n)
          \/ \E r \in receiving[n] : NotifyAgentOfStateArrival(n, r) \/ SetRemoteState(n, r)
    \/ \E n, m \in Node : ReceiveGossip(n, m) \/ Connect(n, m) \/ Disconnect(n, m)

(* What the system does by itself: async functions resume, messages of a   *)
(* connection that lasts arrive, the peer group keeps its peers connected, *)
(* what can be fetched is, and an object that is synchronized is so again  *)
(* after it was stopped. Some of it happens as long as there is any.       *)
Proceed ==
    \/ \E n \in Node :
          \/ \E o \in Op : Fetch(n, o) \/ ReadStore(n, o)
          \/ \E l \in loads[n] : UpdateState(n, l)
          \/ StartSync(n)
          \/ \E r \in receiving[n] : NotifyAgentOfStateArrival(n, r) \/ SetRemoteState(n, r)
    \/ \E n, m \in Node : ReceiveGossip(n, m) \/ Connect(n, m)

Spec == Init /\ [][Next]_vars /\ WF_vars(Proceed)

-----------------------------------------------------------------------------
(* The agent's idea of its own state, and what it gossips, is that of the  *)
(* store once its callbacks have run: "They are expected to spew an        *)
(* AgentStateUpdate event on the bus whenever they enter a new state".     *)
AnnouncedIsCurrent ==
    \A n \in Node : syncing[n] /\ callbacks[n] = {} /\ loads[n] = {}
        => agentState[n] = store[n] /\ localState[n] = store[n]

(* Nothing is on its way between the two, or being worked on in either.    *)
Idle(n) == callbacks[n] = {} /\ loads[n] = {} /\ wanted[n] = {} /\ receiving[n] = {}

Quiet(n, m) ==
    /\ m \in connected[n] /\ syncing[n] /\ syncing[m]
    /\ Idle(n) /\ Idle(m)
    /\ net[n][m] = <<>> /\ net[m][n] = <<>>

(* Also when synchronization was stopped and resumed: "if an observer is   *)
(* added, and the object stops being synchronized (and the sync agent is   *)
(* stopped), but later sync is resumed, this works transparently".         *)
ResumedMeansInSync == \A n, m \in Node : Quiet(n, m) => store[n] = store[m]

(* All nodes end up with the same ops, however their gossip interleaves and*)
(* whichever messages were lost with a connection (there is no retry: what *)
(* is exchanged when it is made again has to make up for it); and the      *)
(* exchange of states ends, no two agents answer each other forever. Left  *)
(* out are agents that were stopped and created anew: see the above.       *)
Converges ==
    <>[](restarts = 0 =>
            \A n, m \in Node : store[n] = store[m] /\ net[n][m] = <<>>)
=============================================================================
