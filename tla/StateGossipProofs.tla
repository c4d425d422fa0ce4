-------------------------- MODULE StateGossipProofs --------------------------
(***************************************************************************)
(* What an agent announces is the state of its store once its reads have   *)
(* ended, for any number of nodes and ops, whatever goes wrong between     *)
(* nodes, if the store answers its reads in the order they were made.      *)
(*                                                                         *)
(* The reads under way form a chain: what was announced is below each of   *)
(* them, and each is below the store.  The invariant is about one node     *)
(* only: nothing of it is written by what comes from another.              *)
(***************************************************************************)
EXTENDS StateGossip, TLAPS

(* s was not there at first, or all of it is in t.                         *)
Below(s, t) == s = None \/ (t # None /\ s \subseteq t)

(* A read saw part of the store, and no less than what is announced.       *)
ReadsAreAhead(n) ==
    \A l \in loads[n] : /\ l.state \subseteq store[n]
                        /\ Below(agentState[n], l.state) /\ Below(localState[n], l.state)

(* What is announced was in the store; the gossip agent knows of all that  *)
(* the sync agent does: a read it made before that was stopped may tell it *)
(* more.                                                                   *)
AnnouncedWasStored(n) ==
    /\ Below(agentState[n], store[n]) /\ Below(localState[n], store[n])
    /\ syncing[n] /\ agentState[n] # None => /\ localState[n] # None
                                             /\ agentState[n] \subseteq localState[n]

(* An agent that is stopped forgets all but the reads under way.           *)
NothingWhenStopped(n) ==
    ~syncing[n] => /\ callbacks[n] = {} /\ agentState[n] = None /\ localState[n] = None
                   /\ \A l \in loads[n] : l.old

(* When each op was read after it was saved, the last of the reads has yet *)
(* to end, or did and was announced.                                       *)
LastReadIsCurrent(n) ==
    syncing[n] /\ callbacks[n] = {} =>
        \/ \E l \in loads[n] : ~l.old /\ l.state = store[n]
        \/ agentState[n] = store[n] /\ localState[n] = store[n]

NodeInv(n) ==
    /\ ReadsAreAhead(n) /\ AnnouncedWasStored(n)
    /\ NothingWhenStopped(n) /\ LastReadIsCurrent(n)

GossipInv == TypeOK /\ \A n \in Node : NodeInv(n)

USE GossipAssumption

-----------------------------------------------------------------------------
(* Types.                                                                  *)

LEMMA SendingTypes ==
    ASSUME TypeOK, NEW n \in Node, NEW peers, NEW msg \in Message
    PROVE  Sending(n, peers, msg) \in [Node -> [Node -> Seq(Message)]]
<1>1. \A m \in Node : net[n][m] \in Seq(Message) /\ Append(net[n][m], msg) \in Seq(Message)
  BY DEF TypeOK
<1>2. [m \in Node |-> IF m \in peers \cap connected[n] THEN Append(net[n][m], msg) ELSE net[n][m]]
        \in [Node -> Seq(Message)]
  BY <1>1
<1> QED
  BY <1>2 DEF TypeOK, Sending

LEMMA SendStateObjectTypes ==
    ASSUME TypeOK, NEW n \in Node, NEW peers, NEW s \in State, NEW requested,
           SendStateObject(n, peers, s, requested)
    PROVE  net' \in [Node -> [Node -> Seq(Message)]] /\ sentState' \in [Node -> [Node -> Sent]]
<1>1. StateObject(s) \in Message
  BY DEF StateObject, Message
<1>2. \A m \in Node : CountSent(n, m, s) \in Sent
  BY DEF CountSent, IsRepeat, Sent, TypeOK, MaybeState
<1>3. net' \in [Node -> [Node -> Seq(Message)]]
  BY <1>1, SendingTypes DEF SendStateObject
<1>4. sentState' \in [Node -> [Node -> Sent]]
  BY <1>2 DEF SendStateObject, TypeOK
<1> QED
  BY <1>3, <1>4

LEMMA ConsumeTypes ==
    ASSUME TypeOK, NEW n \in Node, NEW m \in Node, net[m][n] # <<>>
    PROVE  /\ Consume(n, m) \in [Node -> [Node -> Seq(Message)]]
           /\ Head(net[m][n]) \in Message
<1>1. net[m][n] \in Seq(Message) /\ Tail(net[m][n]) \in Seq(Message) /\ Head(net[m][n]) \in Message
  BY DEF TypeOK
<1> QED
  BY <1>1 DEF Consume, TypeOK

LEMMA TypesInit == Init => TypeOK
<1> SUFFICES ASSUME Init PROVE TypeOK
  OBVIOUS
<1>1. situation \in [ops: [Node -> State], disconnects: Nat, restarts: Nat]
  BY DEF Init
<1>2. None \in MaybeState /\ <<>> \in Seq(Message) /\ [state |-> None, repeats |-> 0] \in Sent
  BY DEF MaybeState, Sent
<1>3. net \in [Node -> [Node -> Seq(Message)]] /\ sentState \in [Node -> [Node -> Sent]]
  BY <1>2 DEF Init
<1>4. remoteState \in [Node -> [Node -> MaybeState]]
  BY <1>2 DEF Init, NoneEach
<1> QED
  BY <1>1, <1>2, <1>3, <1>4 DEF Init, TypeOK, State

LEMMA TypesSave ==
    ASSUME TypeOK, NEW n \in Node, NEW o \in Op, Save(n, o)
    PROVE  TypeOK'
BY DEF TypeOK, Save, CalledBack, State, gossipVars, bounds

LEMMA TypesReadStore ==
    ASSUME TypeOK, NEW n \in Node, NEW o \in Op, ReadStore(n, o)
    PROVE  TypeOK'
<1>1. [state |-> store[n], old |-> FALSE] \in Load
  BY DEF TypeOK, Load
<1>2. loads' \in [Node -> SUBSET Load]
  BY <1>1 DEF TypeOK, ReadStore
<1> QED
  BY <1>2 DEF TypeOK, ReadStore, State, gossipVars, bounds

LEMMA TypesUpdateState ==
    ASSUME TypeOK, NEW n \in Node, NEW l \in loads[n], UpdateState(n, l)
    PROVE  TypeOK'
<1>1. l \in Load /\ l.state \in State /\ l.state \in MaybeState
  BY DEF TypeOK, Load, MaybeState
<1>2. loads' \in [Node -> SUBSET Load] /\ agentState' \in [Node -> MaybeState]
  BY <1>1 DEF TypeOK, UpdateState
<1>3. /\ localState' \in [Node -> MaybeState] /\ prevStates' \in [Node -> SUBSET State]
      /\ net' \in [Node -> [Node -> Seq(Message)]] /\ sentState' \in [Node -> [Node -> Sent]]
  <2>1. CASE LocalAgentStateUpdate(n, l.state)
    <3>1. localState' \in [Node -> MaybeState]
      BY <1>1, <2>1 DEF TypeOK, LocalAgentStateUpdate
    <3>2. prevStates' \in [Node -> SUBSET State]
      BY <2>1 DEF TypeOK, LocalAgentStateUpdate, CachePreviousState, MaybeState
    <3> QED
      BY <1>1, <2>1, <3>1, <3>2, SendStateObjectTypes DEF LocalAgentStateUpdate
  <2>2. CASE UNCHANGED <<localState, prevStates, sentState, net>>
    BY <2>2 DEF TypeOK
  <2> QED
    BY <2>1, <2>2 DEF UpdateState
<1> QED
  BY <1>2, <1>3 DEF TypeOK, UpdateState, bounds

LEMMA TypesStartSync ==
    ASSUME TypeOK, NEW n \in Node, StartSync(n)
    PROVE  TypeOK'
<1>1. [state |-> store[n], old |-> FALSE] \in Load
  BY DEF TypeOK, Load
<1>2. loads' \in [Node -> SUBSET Load]
  BY <1>1 DEF TypeOK, StartSync, Ready
<1>3. RequestStateObject \in Message
  BY DEF RequestStateObject, Message, MaybeState
<1>4. net' \in [Node -> [Node -> Seq(Message)]]
  BY <1>3, SendingTypes DEF StartSync, RequestStateObjectToAllPeers
<1> QED
  BY <1>2, <1>4 DEF TypeOK, StartSync, gossipVars, bounds

LEMMA TypesStopSync ==
    ASSUME TypeOK, NEW n \in Node, StopSync(n)
    PROVE  TypeOK'
<1>1. {[l EXCEPT !.old = TRUE] : l \in loads[n]} \subseteq Load
  <2>1. loads[n] \subseteq Load
    BY DEF TypeOK
  <2>2. ASSUME NEW l \in Load PROVE [l EXCEPT !.old = TRUE] \in Load
    BY DEF Load
  <2> QED
    BY <2>1, <2>2
<1>2. loads' \in [Node -> SUBSET Load]
  BY <1>1 DEF TypeOK, StopSync, Shutdown
<1>3. situation.restarts \in Nat
  BY DEF TypeOK
<1>4. restarts' \in 0 .. situation.restarts
  BY <1>3 DEF TypeOK, StopSync
<1>5. /\ callbacks' \in [Node -> State] /\ wanted' \in [Node -> State]
      /\ \A m \in Node : callbacks'[m] \subseteq store[m] /\ wanted'[m] \cap store[m] = {}
  BY DEF TypeOK, StopSync, Shutdown, State
<1>6. /\ agentState' \in [Node -> MaybeState] /\ localState' \in [Node -> MaybeState]
      /\ prevStates' \in [Node -> SUBSET State]
  BY DEF TypeOK, StopSync, Shutdown, UntrackAgentState, MaybeState
<1> QED
  BY <1>2, <1>4, <1>5, <1>6 DEF TypeOK, StopSync

LEMMA BeginReceiptTypes ==
    ASSUME TypeOK, NEW n \in Node, NEW m \in Node, NEW s \in State, BeginReceipt(n, m, s)
    PROVE  receiving' \in [Node -> SUBSET Receipt]
<1>1. [from |-> m, state |-> s, told |-> FALSE, old |-> FALSE] \in Receipt
  BY DEF Receipt
<1> QED
  BY <1>1 DEF BeginReceipt, TypeOK

(* What an answer adds to a channel.                                       *)
LEMMA AnswerTypes ==
    ASSUME NEW n \in Node, NEW m \in Node, NEW c \in [Node -> [Node -> Seq(Message)]],
           NEW msg \in Message
    PROVE  [c EXCEPT ![n][m] = Append(@, msg)] \in [Node -> [Node -> Seq(Message)]]
<1>1. c[n][m] \in Seq(Message) /\ Append(c[n][m], msg) \in Seq(Message)
  OBVIOUS
<1> QED
  BY <1>1

LEMMA TypesReceiveGossip ==
    ASSUME TypeOK, NEW n \in Node, NEW m \in Node, ReceiveGossip(n, m)
    PROVE  TypeOK'
<1> DEFINE msg == Head(net[m][n])
<1>1. msg \in Message /\ Consume(n, m) \in [Node -> [Node -> Seq(Message)]]
  BY ConsumeTypes DEF ReceiveGossip
<1>2. msg.state \in MaybeState /\ (msg.type = "state" => msg.state \in State)
  BY <1>1 DEF Message, MaybeState
<1>3. /\ net' \in [Node -> [Node -> Seq(Message)]]
      /\ sentState' \in [Node -> [Node -> Sent]]
      /\ receiving' \in [Node -> SUBSET Receipt]
  <2>1. CASE ReceiveFullState(n, m, msg.state)
    <3>1. AskFor(n) \in Message
      BY DEF AskFor, RequestStateObject, Message, MaybeState
    <3>2. net' \in [Node -> [Node -> Seq(Message)]]
      BY <1>1, <2>1, <3>1, AnswerTypes DEF ReceiveFullState
    <3>3. receiving' \in [Node -> SUBSET Receipt]
      BY <1>2, <2>1, BeginReceiptTypes DEF ReceiveFullState, TypeOK, MaybeState
    <3> QED
      BY <2>1, <3>2, <3>3 DEF ReceiveFullState, TypeOK
  <2>2. CASE msg.type = "state" /\ ReceiveStateObject(n, m, msg.state)
    BY <1>1, <1>2, <2>2, BeginReceiptTypes DEF ReceiveStateObject, TypeOK
  <2>3. CASE ReceiveRequest(n, m)
    <3>1. CASE localState[n] = None
      BY <1>1, <2>3, <3>1 DEF ReceiveRequest, TypeOK
    <3>2. CASE localState[n] # None
      <4>1. localState[n] \in State
        BY <3>2 DEF TypeOK, MaybeState
      <4>2. StateObject(localState[n]) \in Message
        BY <4>1 DEF StateObject, Message
      <4>3. CountSent(n, m, localState[n]) \in Sent
        <5>1. sentState[n][m].repeats \in 0 .. MaxRepeats + 1 /\ MaxRepeats \in Nat
          BY DEF Sent, TypeOK
        <5>2. CountSent(n, m, localState[n]).repeats \in 0 .. MaxRepeats + 1
          BY <5>1 DEF CountSent
        <5> QED
          BY <4>1, <5>2 DEF CountSent, Sent, MaybeState
      <4>4. net' \in [Node -> [Node -> Seq(Message)]]
        BY <1>1, <2>3, <3>2, <4>2, AnswerTypes DEF ReceiveRequest
      <4>5. sentState' \in [Node -> [Node -> Sent]]
        BY <2>3, <3>2, <4>3 DEF ReceiveRequest, TypeOK
      <4> QED
        BY <2>3, <4>4, <4>5 DEF ReceiveRequest, TypeOK
    <3> QED
      BY <3>1, <3>2
  <2> QED
    BY <2>1, <2>2, <2>3 DEF ReceiveGossip
<1> QED
  BY <1>3 DEF TypeOK, ReceiveGossip, agentVars, bounds

LEMMA TypesNotifyAgentOfStateArrival ==
    ASSUME TypeOK, NEW n \in Node, NEW r \in receiving[n], NotifyAgentOfStateArrival(n, r)
    PROVE  TypeOK'
<1>1. r \in Receipt /\ r.state \in State
  BY DEF TypeOK, Receipt
<1>2. [r EXCEPT !.told = TRUE, !.old = Unknown(n, r.state) = {}] \in Receipt
  BY <1>1 DEF Receipt
<1> DEFINE done == [r EXCEPT !.told = TRUE, !.old = Unknown(n, r.state) = {}]
<1>3. receiving' \in [Node -> SUBSET Receipt]
  <2>1. receiving' = [receiving EXCEPT ![n] = (@ \ {r}) \cup {done}]
            \/ receiving' = [receiving EXCEPT ![n] = @ \ {r}]
    BY DEF NotifyAgentOfStateArrival
  <2>2. done \in Receipt /\ receiving \in [Node -> SUBSET Receipt]
    BY <1>2 DEF TypeOK
  <2> HIDE DEF done
  <2>3. (receiving[n] \ {r}) \cup {done} \in SUBSET Receipt /\ receiving[n] \ {r} \in SUBSET Receipt
    BY ONLY <2>2, n \in Node
  <2> QED
    BY ONLY <2>1, <2>2, <2>3, n \in Node
<1>4. wanted' \in [Node -> State] /\ \A m \in Node : wanted'[m] \cap store[m] = {}
  <2>1. Unknown(n, r.state) \in State /\ Unknown(n, r.state) \cap store[n] = {}
    BY <1>1 DEF Unknown, State
  <2>2. wanted' = [wanted EXCEPT ![n] = @ \cup Unknown(n, r.state)] \/ wanted' = wanted
    BY DEF NotifyAgentOfStateArrival, ReceiveRemoteState
  <2>3. /\ wanted \in [Node -> State] /\ wanted[n] \cup Unknown(n, r.state) \in State
        /\ \A m \in Node : wanted[m] \cap store[m] = {}
    BY <2>1 DEF TypeOK, State
  <2>4. wanted' \in [Node -> State]
    BY ONLY <2>2, <2>3, n \in Node
  <2>5. ASSUME NEW m \in Node PROVE wanted'[m] \cap store[m] = {}
    <3> DEFINE u == Unknown(n, r.state)
    <3>1. u \cap store[n] = {}
      BY <2>1
    <3> HIDE DEF u
    <3>2. CASE wanted' = [wanted EXCEPT ![n] = @ \cup u]
      <4>1. CASE m = n
        <5>1. wanted'[n] = wanted[n] \cup u
          BY ONLY <2>3, <3>2, n \in Node
        <5> QED
          BY <2>3, <3>1, <4>1, <5>1
      <4>2. CASE m # n
        <5>1. wanted'[m] = wanted[m]
          BY ONLY <2>3, <3>2, <4>2, m \in Node
        <5> QED
          BY <2>3, <5>1
      <4> QED
        BY <4>1, <4>2
    <3>3. CASE wanted' = wanted
      BY <2>3, <3>3
    <3> QED
      BY <2>2, <3>2, <3>3 DEF u
  <2> QED
    BY <2>4, <2>5
<1> QED
  BY <1>3, <1>4 DEF TypeOK, NotifyAgentOfStateArrival, bounds

LEMMA TypesSetRemoteState ==
    ASSUME TypeOK, NEW n \in Node, NEW r \in receiving[n], SetRemoteState(n, r)
    PROVE  TypeOK'
<1>1. r \in Receipt /\ r.state \in State /\ r.from \in Node
  BY DEF TypeOK, Receipt
<1>2. remoteState' \in [Node -> [Node -> MaybeState]]
  BY <1>1 DEF TypeOK, SetRemoteState, Recorded, MaybeState
<1>3. prevStates' \in [Node -> SUBSET State] /\ receiving' \in [Node -> SUBSET Receipt]
  BY <1>1 DEF TypeOK, SetRemoteState, CachePreviousState
<1>4. net' \in [Node -> [Node -> Seq(Message)]] /\ sentState' \in [Node -> [Node -> Sent]]
  <2>1. CASE Replies(n, r)
    <3>1. localState[n] \in State
      BY <2>1 DEF Replies, TypeOK, MaybeState
    <3> QED
      BY <2>1, <3>1, SendStateObjectTypes DEF SetRemoteState
  <2>2. CASE ~Replies(n, r)
    BY <2>2 DEF SetRemoteState, TypeOK
  <2> QED
    BY <2>1, <2>2
<1> QED
  BY <1>2, <1>3, <1>4 DEF TypeOK, SetRemoteState, agentVars, bounds

LEMMA TypesConnect ==
    ASSUME TypeOK, NEW n \in Node, NEW m \in Node, Connect(n, m)
    PROVE  TypeOK'
<1>1. \A p \in Node : <<FullState(localState[p])>> \in Seq(Message)
  <2>1. \A p \in Node : FullState(localState[p]) \in Message
    BY DEF FullState, Message, TypeOK
  <2> QED
    BY <2>1
<1>2. net' \in [Node -> [Node -> Seq(Message)]]
  BY <1>1 DEF TypeOK, Connect
<1>3. /\ connected' \in [Node -> SUBSET Node]
      /\ \A p \in Node : \A q \in connected'[p] : p \in connected'[q]
  <2>1. connected' = [connected EXCEPT ![n] = @ \cup {m}, ![m] = @ \cup {n}] /\ n # m
    BY DEF Connect
  <2>2. /\ connected'[n] = connected[n] \cup {m} /\ connected'[m] = connected[m] \cup {n}
        /\ \A p \in Node \ {n, m} : connected'[p] = connected[p]
    BY <2>1 DEF TypeOK
  <2>3. connected' \in [Node -> SUBSET Node]
    BY <2>1 DEF TypeOK
  <2>4. ASSUME NEW p \in Node, NEW q \in connected'[p]
        PROVE  p \in connected'[q]
    <3>1. q \in Node /\ connected[q] \subseteq connected'[q]
      BY <2>2, <2>3
    <3>2. q \in connected[p] \/ (p = n /\ q = m) \/ (p = m /\ q = n)
      BY <2>2
    <3> QED
      BY <2>2, <3>1, <3>2 DEF TypeOK
  <2> QED
    BY <2>3, <2>4
<1> QED
  BY <1>2, <1>3 DEF TypeOK, Connect, agentVars, gossipVars, bounds

LEMMA TypesDisconnect ==
    ASSUME TypeOK, NEW n \in Node, NEW m \in Node, Disconnect(n, m)
    PROVE  TypeOK'
<1>1. <<>> \in Seq(Message)
  OBVIOUS
<1>2. net' \in [Node -> [Node -> Seq(Message)]]
  BY <1>1 DEF TypeOK, Disconnect
<1>3. /\ connected' \in [Node -> SUBSET Node]
      /\ \A p \in Node : \A q \in connected'[p] : p \in connected'[q]
  <2>1. connected' = [connected EXCEPT ![n] = @ \ {m}, ![m] = @ \ {n}]
    BY DEF Disconnect
  <2>2. ASSUME NEW p \in Node
        PROVE  connected'[p] = connected[p] \ ((IF p = n THEN {m} ELSE {})
                                                 \cup (IF p = m THEN {n} ELSE {}))
    BY <2>1 DEF TypeOK
  <2>3. connected' \in [Node -> SUBSET Node]
    BY <2>1 DEF TypeOK
  <2>4. ASSUME NEW p \in Node, NEW q \in connected'[p]
        PROVE  p \in connected'[q]
    <3>1. q \in Node /\ q \in connected[p] /\ p \in connected[q]
      BY <2>2, <2>3 DEF TypeOK
    <3>2. ~ (p = n /\ q = m) /\ ~ (p = m /\ q = n)
      BY <2>2
    <3> QED
      BY <2>2, <3>1, <3>2
  <2> QED
    BY <2>3, <2>4
<1>4. remoteState' \in [Node -> [Node -> MaybeState]]
  BY DEF TypeOK, Disconnect, ForgetsPeers, MaybeState
<1>5. situation.disconnects \in Nat
  BY DEF TypeOK
<1>6. disconnects' \in 0 .. situation.disconnects
  BY <1>5 DEF TypeOK, Disconnect
<1> QED
  BY <1>2, <1>3, <1>4, <1>6 DEF TypeOK, Disconnect, agentVars

LEMMA TypesNext == TypeOK /\ [Next]_vars => TypeOK'
<1> SUFFICES ASSUME TypeOK, [Next]_vars PROVE TypeOK'
  OBVIOUS
<1>1. CASE UNCHANGED vars
  BY <1>1 DEF TypeOK, vars, agentVars, gossipVars, bounds
<1>2. ASSUME NEW n \in Node, NEW o \in Op, CreateOp(n, o) \/ Fetch(n, o)
      PROVE  TypeOK'
  BY <1>2, TypesSave DEF CreateOp, Fetch
<1> QED
  BY <1>1, <1>2, TypesReadStore, TypesUpdateState, TypesStartSync, TypesStopSync,
     TypesNotifyAgentOfStateArrival, TypesSetRemoteState, TypesReceiveGossip, TypesConnect,
     TypesDisconnect DEF Next

(* Every message, every state and every count is of its kind.              *)
THEOREM GossipTypes == Spec => []TypeOK
BY TypesInit, TypesNext, PTL DEF Spec

-----------------------------------------------------------------------------
(* The steps of a node keep its invariant; those of another one, and those *)
(* that receive gossip, do not touch it.                                   *)
SameNode(n) ==
    /\ store'[n] = store[n] /\ callbacks'[n] = callbacks[n] /\ loads'[n] = loads[n]
    /\ syncing'[n] = syncing[n]
    /\ agentState'[n] = agentState[n] /\ localState'[n] = localState[n]

LEMMA SameNodeKeeps ==
    ASSUME NEW n \in Node, NodeInv(n), SameNode(n)
    PROVE  NodeInv(n)'
BY DEF NodeInv, SameNode, ReadsAreAhead, AnnouncedWasStored, NothingWhenStopped, LastReadIsCurrent

(* What a node's invariant is about has its types.                         *)
LEMMA NodeTypes ==
    ASSUME TypeOK, NEW n \in Node
    PROVE  /\ store[n] \in State /\ callbacks[n] \in State /\ syncing[n] \in BOOLEAN
           /\ agentState[n] \in MaybeState /\ localState[n] \in MaybeState
           /\ loads[n] \subseteq Load
           /\ \A l \in loads[n] : l.state \in State /\ l.old \in BOOLEAN /\ l.state # None
           /\ store[n] # None
BY DEF TypeOK, Load

LEMMA SaveKeeps ==
    ASSUME TypeOK, NEW n \in Node, NodeInv(n), NEW o \in Op, Save(n, o), TypeOK'
    PROVE  NodeInv(n)'
<1>1. /\ store'[n] = store[n] \cup {o} /\ callbacks'[n] = callbacks[n] \cup CalledBack(n, o)
      /\ loads' = loads /\ syncing' = syncing /\ agentState' = agentState
      /\ localState' = localState
  BY DEF Save, TypeOK, gossipVars
<1>2. store[n] # None /\ store'[n] # None
  BY NodeTypes DEF TypeOK
<1>3. ReadsAreAhead(n)'
  BY <1>1 DEF NodeInv, ReadsAreAhead
<1>4. AnnouncedWasStored(n)'
  BY <1>1, <1>2 DEF NodeInv, AnnouncedWasStored, Below
<1>5. NothingWhenStopped(n)'
  BY <1>1 DEF NodeInv, NothingWhenStopped, CalledBack
<1>6. LastReadIsCurrent(n)'
  BY <1>1 DEF LastReadIsCurrent, CalledBack
<1> QED
  BY <1>3, <1>4, <1>5, <1>6 DEF NodeInv

(* A read that begins.                                                     *)
LEMMA NewReadKeeps ==
    ASSUME TypeOK, NEW n \in Node, NodeInv(n), TypeOK',
           loads'[n] = loads[n] \cup {[state |-> store[n], old |-> FALSE]},
           syncing'[n], store' = store, agentState' = agentState, localState' = localState,
           ~syncing[n] => agentState[n] = None /\ localState[n] = None
    PROVE  NodeInv(n)'
<1> DEFINE read == [state |-> store[n], old |-> FALSE]
<1>1. read.state = store[n] /\ ~read.old /\ loads'[n] = loads[n] \cup {read}
  OBVIOUS
<1> HIDE DEF read
<1>2. ReadsAreAhead(n)'
  BY <1>1 DEF NodeInv, ReadsAreAhead, AnnouncedWasStored
<1>3. AnnouncedWasStored(n)'
  BY DEF NodeInv, AnnouncedWasStored
<1>4. NothingWhenStopped(n)'
  BY DEF NothingWhenStopped
<1>5. LastReadIsCurrent(n)'
  BY <1>1 DEF LastReadIsCurrent
<1> QED
  BY <1>2, <1>3, <1>4, <1>5 DEF NodeInv

LEMMA ReadStoreKeeps ==
    ASSUME TypeOK, NEW n \in Node, NodeInv(n), NEW o \in Op, ReadStore(n, o), TypeOK'
    PROVE  NodeInv(n)'
<1>1. syncing[n]
  BY NodeTypes DEF NodeInv, NothingWhenStopped, ReadStore
<1>2. loads'[n] = loads[n] \cup {[state |-> store[n], old |-> FALSE]}
  BY DEF ReadStore, TypeOK
<1> QED
  BY <1>1, <1>2, NewReadKeeps DEF ReadStore, gossipVars

LEMMA StartSyncKeeps ==
    ASSUME TypeOK, NEW n \in Node, NodeInv(n), StartSync(n), TypeOK'
    PROVE  NodeInv(n)'
<1>1. loads'[n] = loads[n] \cup {[state |-> store[n], old |-> FALSE]} /\ syncing'[n]
  BY DEF StartSync, Ready, TypeOK
<1>2. agentState[n] = None /\ localState[n] = None
  BY DEF NodeInv, NothingWhenStopped, StartSync
<1> QED
  BY <1>1, <1>2, NewReadKeeps DEF StartSync, gossipVars

LEMMA StopSyncKeeps ==
    ASSUME TypeOK, NEW n \in Node, NodeInv(n), StopSync(n)
    PROVE  NodeInv(n)'
<1>1. /\ callbacks'[n] = {} /\ agentState'[n] = None /\ localState'[n] = None /\ ~syncing'[n]
      /\ store' = store
      /\ loads'[n] = {[l EXCEPT !.old = TRUE] : l \in loads[n]}
  BY DEF StopSync, Shutdown, UntrackAgentState, TypeOK
<1>2. ASSUME NEW k \in loads'[n]
      PROVE  k.old /\ k.state \subseteq store[n]
  <2>1. PICK l \in loads[n] : k = [l EXCEPT !.old = TRUE]
    BY <1>1
  <2>2. l \in Load
    BY NodeTypes
  <2>3. k.old /\ k.state = l.state
    BY <2>1, <2>2 DEF Load
  <2> QED
    BY <2>3 DEF NodeInv, ReadsAreAhead
<1> QED
  BY <1>1, <1>2 DEF NodeInv, ReadsAreAhead, AnnouncedWasStored, NothingWhenStopped,
                    LastReadIsCurrent, Below

(* The read that ends is the first of the chain: it is below all others.   *)
LEMMA UpdateStateKeeps ==
    ASSUME OrderedReads,
           TypeOK, NEW n \in Node, NodeInv(n), NEW l \in loads[n], UpdateState(n, l), TypeOK'
    PROVE  NodeInv(n)'
<1>1. l.state \in State /\ l.state # None /\ l.old \in BOOLEAN /\ store[n] # None
  BY NodeTypes
<1>2. /\ loads'[n] = loads[n] \ {l} /\ store' = store /\ callbacks' = callbacks
      /\ syncing' = syncing
      /\ agentState'[n] = IF l.old THEN agentState[n] ELSE l.state
  BY DEF UpdateState, TypeOK
<1>3. \A x \in loads[n] : l.state \subseteq x.state
  BY DEF UpdateState, InOrder
<1>4. localState'[n] = IF IsNewState(n, l) /\ syncing[n] THEN l.state ELSE localState[n]
  <2>1. CASE IsNewState(n, l) /\ syncing[n]
    <3>1. localState' = [localState EXCEPT ![n] = l.state]
      BY <2>1 DEF UpdateState, LocalAgentStateUpdate
    <3> QED
      BY <2>1, <3>1 DEF TypeOK
  <2>2. CASE ~ (IsNewState(n, l) /\ syncing[n])
    BY <2>2 DEF UpdateState
  <2> QED
    BY <2>1, <2>2
<1>5. ~syncing[n] => l.old
  BY DEF NodeInv, NothingWhenStopped
<1>6. /\ Below(agentState[n], l.state) /\ Below(localState[n], l.state)
      /\ l.state \subseteq store[n]
  BY DEF NodeInv, ReadsAreAhead
<1>7. \A x \in loads[n] : x.state # None
  BY NodeTypes
<1>8. /\ agentState'[n] \in {agentState[n], l.state}
      /\ localState'[n] \in {localState[n], l.state}
  BY <1>2, <1>4
<1>9. ReadsAreAhead(n)'
  BY <1>2, <1>3, <1>7, <1>8 DEF NodeInv, ReadsAreAhead, Below
<1>10. AnnouncedWasStored(n)'
  <2>1. Below(agentState[n], store[n])' /\ Below(localState[n], store[n])'
    BY <1>1, <1>2, <1>6, <1>8 DEF NodeInv, AnnouncedWasStored, Below
  <2>2. ASSUME syncing'[n], agentState'[n] # None
        PROVE  localState'[n] # None /\ agentState'[n] \subseteq localState'[n]
    <3>1. CASE IsNewState(n, l)
      <4>1. localState'[n] = l.state
        BY <1>2, <1>4, <2>2, <3>1
      <4> QED
        BY <1>1, <1>2, <1>6, <2>2, <4>1 DEF Below
    <3>2. CASE ~IsNewState(n, l)
      <4>1. agentState'[n] = agentState[n] /\ localState'[n] = localState[n]
        BY <1>2, <1>4, <3>2 DEF IsNewState
      <4> QED
        BY <1>2, <2>2, <4>1 DEF NodeInv, AnnouncedWasStored
    <3> QED
      BY <3>1, <3>2
  <2> QED
    BY <2>1, <2>2 DEF AnnouncedWasStored
<1>11. NothingWhenStopped(n)'
  BY <1>2, <1>4, <1>5 DEF NodeInv, NothingWhenStopped
<1>12. LastReadIsCurrent(n)'
  <2>1. SUFFICES ASSUME syncing[n], callbacks[n] = {}
                 PROVE  \/ \E x \in loads'[n] : ~x.old /\ x.state = store[n]
                        \/ agentState'[n] = store[n] /\ localState'[n] = store[n]
    BY <1>2 DEF LastReadIsCurrent
  <2>2. CASE ~l.old /\ l.state = store[n]
    <3>1. agentState'[n] = store[n]
      BY <1>2, <2>2
    <3>2. CASE IsNewState(n, l)
      BY <1>4, <2>1, <2>2, <3>1, <3>2
    <3>3. CASE ~IsNewState(n, l)
      <4>1. agentState[n] = store[n] /\ localState'[n] = localState[n]
        BY <1>4, <2>2, <3>3 DEF IsNewState
      <4>2. localState[n] # None /\ store[n] \subseteq localState[n] /\ localState[n] \subseteq store[n]
        BY <1>1, <2>1, <4>1 DEF NodeInv, AnnouncedWasStored, Below
      <4> QED
        BY <3>1, <4>1, <4>2
    <3> QED
      BY <3>2, <3>3
  <2>3. CASE agentState[n] = store[n] /\ localState[n] = store[n]
    <3>1. l.state = store[n]
      BY <1>1, <1>6, <2>3 DEF Below
    <3> QED
      BY <1>8, <2>3, <3>1
  <2>4. CASE ~ (~l.old /\ l.state = store[n])
             /\ \E x \in loads[n] : ~x.old /\ x.state = store[n]
    BY <1>2, <2>4
  <2> QED
    BY <2>1, <2>2, <2>3, <2>4 DEF NodeInv, LastReadIsCurrent
<1> QED
  BY <1>9, <1>10, <1>11, <1>12 DEF NodeInv

(* The steps of one node are not those of another.                         *)
LEMMA OthersKeep ==
    ASSUME TypeOK, NEW n \in Node, NEW m \in Node \ {n}, NodeInv(m),
           \/ \E o \in Op : Save(n, o) \/ ReadStore(n, o)
           \/ \E l \in loads[n] : UpdateState(n, l)
           \/ StartSync(n) \/ StopSync(n)
    PROVE  NodeInv(m)'
<1>1. ASSUME NEW o \in Op, Save(n, o) PROVE SameNode(m)
  BY <1>1 DEF Save, SameNode, TypeOK, gossipVars
<1>2. ASSUME NEW o \in Op, ReadStore(n, o) PROVE SameNode(m)
  BY <1>2 DEF ReadStore, SameNode, TypeOK, gossipVars
<1>3. ASSUME NEW l \in loads[n], UpdateState(n, l) PROVE SameNode(m)
  <2>1. localState'[m] = localState[m]
    BY <1>3 DEF UpdateState, LocalAgentStateUpdate, TypeOK
  <2> QED
    BY <1>3, <2>1 DEF UpdateState, SameNode, TypeOK
<1>4. ASSUME StartSync(n) PROVE SameNode(m)
  BY <1>4 DEF StartSync, Ready, SameNode, TypeOK, gossipVars
<1>5. ASSUME StopSync(n) PROVE SameNode(m)
  BY <1>5 DEF StopSync, Shutdown, UntrackAgentState, SameNode, TypeOK
<1> QED
  BY <1>1, <1>2, <1>3, <1>4, <1>5, SameNodeKeeps

LEMMA GossipInvInit == Init => GossipInv
<1> SUFFICES ASSUME Init PROVE GossipInv
  OBVIOUS
<1>1. TypeOK
  BY TypesInit
<1>2. ASSUME NEW n \in Node PROVE NodeInv(n)
  BY <1>2 DEF Init, NodeInv, ReadsAreAhead, AnnouncedWasStored, NothingWhenStopped,
              LastReadIsCurrent, Below
<1> QED
  BY <1>1, <1>2 DEF GossipInv

LEMMA GossipInvNext ==
    ASSUME OrderedReads, GossipInv, [Next]_vars
    PROVE  GossipInv'
<1>1. TypeOK /\ TypeOK'
  BY TypesNext DEF GossipInv
<1>2. ASSUME NEW m \in Node PROVE NodeInv(m)'
  <2>1. NodeInv(m)
    BY DEF GossipInv
  <2>2. CASE UNCHANGED vars
    <3>1. SameNode(m)
      BY <2>2 DEF vars, agentVars, gossipVars, SameNode
    <3> QED
      BY <2>1, <3>1, SameNodeKeeps
  <2>3. ASSUME NEW n \in Node, NEW o \in Op, CreateOp(n, o) \/ Fetch(n, o)
        PROVE  NodeInv(m)'
    <3>1. Save(n, o)
      BY <2>3 DEF CreateOp, Fetch
    <3> QED
      BY <1>1, <2>1, <3>1, SaveKeeps, OthersKeep
  <2>4. ASSUME NEW n \in Node, NEW o \in Op, ReadStore(n, o)
        PROVE  NodeInv(m)'
    BY <1>1, <2>1, <2>4, ReadStoreKeeps, OthersKeep
  <2>5. ASSUME NEW n \in Node, NEW l \in loads[n], UpdateState(n, l)
        PROVE  NodeInv(m)'
    BY <1>1, <2>1, <2>5, UpdateStateKeeps, OthersKeep
  <2>6. ASSUME NEW n \in Node, StartSync(n) \/ StopSync(n)
        PROVE  NodeInv(m)'
    BY <1>1, <2>1, <2>6, StartSyncKeeps, StopSyncKeeps, OthersKeep
  <2>7. ASSUME NEW n \in Node, NEW r \in receiving[n],
               NotifyAgentOfStateArrival(n, r) \/ SetRemoteState(n, r)
        PROVE  NodeInv(m)'
    <3>1. SameNode(m)
      BY <2>7 DEF NotifyAgentOfStateArrival, SetRemoteState, SameNode, agentVars
    <3> QED
      BY <2>1, <3>1, SameNodeKeeps
  <2>8. ASSUME NEW n \in Node, NEW p \in Node,
               ReceiveGossip(n, p) \/ Connect(n, p) \/ Disconnect(n, p)
        PROVE  NodeInv(m)'
    <3>1. SameNode(m)
      BY <2>8 DEF ReceiveGossip, Connect, Disconnect, SameNode, agentVars, gossipVars
    <3> QED
      BY <2>1, <3>1, SameNodeKeeps
  <2> QED
    BY <2>2, <2>3, <2>4, <2>5, <2>6, <2>7, <2>8 DEF Next
<1> QED
  BY <1>1, <1>2 DEF GossipInv

(* The agent's idea of its own state, and what it gossips, is the state of *)
(* its store whenever no callback and no read is left to run, also after   *)
(* it was stopped and created anew.  That reads end in the order they were *)
(* made is what the backends with one connection to the storage give; with *)
(* reads in any order TLC finds that it fails.                             *)
THEOREM AnnouncedStateIsCurrent ==
    ASSUME OrderedReads
    PROVE  Spec => []AnnouncedIsCurrent
<1>1. GossipInv => AnnouncedIsCurrent
  BY DEF GossipInv, NodeInv, LastReadIsCurrent, AnnouncedIsCurrent
<1> QED
  BY <1>1, GossipInvInit, GossipInvNext, PTL DEF Spec
=============================================================================
