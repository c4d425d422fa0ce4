--------------------------- MODULE PeerGroupAgent ---------------------------
(***************************************************************************)
(* PeerGroupAgent (src/src/mesh/agents/peer) of one peer group at several  *)
(* nodes, over the connection table of their NetworkAgent: connections are *)
(* requested, accepted, offered and secured, duplicates are pruned, and    *)
(* the other agents are told of peers gained and lost.                     *)
(*                                                                         *)
(* A node is one running instance; instances of one peer share its         *)
(* endpoint.  node[n] holds what the two agents of n keep: status, order,  *)
(* instance and chosen are the peer group's connections,                   *)
(* connectionsPerEndpoint, instanceIdPerEndpoint and                       *)
(* chosenForDeduplication; net is the state of each connection in the      *)
(* NetworkAgent, asked and secured what the SecureNetworkAgent knows, and  *)
(* heard whether the last event broadcast about an endpoint was NewPeer.   *)
(* Handlers that await the peer source wait in pending[n].                 *)
(***************************************************************************)
EXTENDS Naturals, FiniteSets, SequencesExt

CONSTANTS Node, Endpoint,
          Conn,        \* connection ids, ordered as the code sorts them; none is used twice
          MinPeers, MaxPeers,
          NoNode,      \* no instance recorded
          PromptSource, \* the peer source answers before the reply to an offer arrives
          Situations   \* who takes part, and what may happen to them

\* A situation: the nodes that run and the endpoint of each, the connections they may use, the
\* nodes that may leave the peer group once and join it again, those that may stop for good,
\* the endpoints that the peer source may stop listing, and a bound on faults (channels that
\* break, connections given up too early).
ASSUME GroupAssumption ==
    /\ Situations \subseteq
           [nodes : SUBSET Node, endpointOf : [Node -> Endpoint], conns : SUBSET Conn,
            leave : SUBSET Node, crash : SUBSET Node, revoke : SUBSET Endpoint, faults : Nat]
    /\ NoNode \notin Node
    /\ Conn \subseteq Nat \ {0}
    /\ MinPeers \in Nat \ {0} /\ MaxPeers \in Nat \ {0}
    /\ PromptSource \in BOOLEAN

VARIABLES situation, node, ends, calls, down, channel, pending, source, crashed, left, faults

state == <<node, ends, calls, down, channel, pending, source, crashed, left, faults>>
vars == <<situation, state>>

EndpointOf == situation.endpointOf

PeerConnectionStatus ==
    {"connecting", "receiving-connection", "waiting-for-offer",
     "offer-sent", "offer-accepted", "ready"}

Fresh == [joined |-> FALSE,
          status |-> [c \in Conn |-> "none"],
          order |-> [ep \in Endpoint |-> <<>>],
          instance |-> [ep \in Endpoint |-> NoNode],
          chosen |-> [ep \in Endpoint |-> 0],
          heard |-> [ep \in Endpoint |-> FALSE],
          net |-> [c \in Conn |-> "none"],
          asked |-> {}, secured |-> {}]

Init ==
    /\ situation \in Situations
    /\ node = [n \in Node |-> [Fresh EXCEPT !.joined = n \in situation.nodes]]
    /\ ends = [c \in Conn |-> <<>>]            \* <<initiator, receiver>> once used
    /\ calls = {}                              \* requests on their way to the receiver
    /\ down = {}                               \* <<c, n>>: n can see that c is closed or broken
    /\ channel = [c \in Conn |-> [n \in Node |-> <<>>]]
    /\ pending = [n \in Node |-> {}]
    /\ source = Endpoint
    /\ crashed = {}
    /\ left = {}
    /\ faults = 0

Other(n, c) == IF ends[c][1] = n THEN ends[c][2] ELSE ends[c][1]
Remote(n, c) == EndpointOf[Other(n, c)]
Own(n) == EndpointOf[n]

\* who initiates learns which instance answers only when the connection is ready
RemoteInstance(s, n, c) ==
    IF ends[c][1] = n /\ s.net[c] # "ready" THEN NoNode ELSE Other(n, c)

Gone(n, c) == <<c, n>> \in down
Closed(n, c) == node[n].net[c] = "none"

Becomes(n, s) == node' = [node EXCEPT ![n] = s]

\* what is sent before it is seen that the other end closed c is lost
Sending(n, c, msg) ==
    channel' = [channel EXCEPT ![c][Other(n, c)] = IF Closed(Other(n, c), c) THEN @ ELSE Append(@, msg)]

-----------------------------------------------------------------------------
\* Connections of the group

Peers(s) == {ep \in Endpoint : s.order[ep] # <<>>}

\* mutant: a connection that was not ready counts as the last one too
LosesAny(s, c, rest) == s.status[c] = "ready"
Loses(s, c, rest) == s.status[c] = "ready" /\ rest = <<>>

BroadcastLostPeer(s, ep) == [s EXCEPT !.heard[ep] = FALSE]

RemovePeerConnection(s, n, c) ==
    IF s.status[c] = "none" THEN s
    ELSE LET ep == Remote(n, c)
             rest == SelectSeq(s.order[ep], LAMBDA d : d # c)
             t == [s EXCEPT !.status[c] = "none", !.order[ep] = rest] IN
         IF Loses(s, c, rest) THEN BroadcastLostPeer([t EXCEPT !.instance[ep] = NoNode], ep) ELSE t

\* the NetworkAgent forgets c and broadcasts that it is closed
ConnectionCloseCleanup(s, n, c) ==
    RemovePeerConnection([s EXCEPT !.net[c] = "none", !.asked = @ \ {c}, !.secured = @ \ {c}], n, c)

\* it throws, and changes nothing, when there is no connection object
ReleaseConnection(s, n, c) ==
    IF s.net[c] \in {"establishing", "ready"} THEN ConnectionCloseCleanup(s, n, c) ELSE s

\* mutant: what the group gives up stays open
RemoveOnly(s, n, c) == RemovePeerConnection(s, n, c)

RemoveAndRelease(s, n, c) == ReleaseConnection(RemovePeerConnection(s, n, c), n, c)

\* for (connId of connIds) over the connections to ep, with what the loop collects: what a
\* pass removes shifts the array under the loop, which then skips a connection
ForEachConn(s, ep, collected, Visit(_, _)) ==
    LET Step(acc, i) == IF i <= Len(acc.s.order[ep]) THEN Visit(acc, acc.s.order[ep][i]) ELSE acc IN
    FoldLeft(Step, [s |-> s, found |-> collected], [i \in 1..Len(s.order[ep]) |-> i])

\* the ready connections that work; those that do not are cleaned up when found
WorkingConnections(s, n, ep, Enough(_)) ==
    LET Visit(acc, c) ==
            CASE Enough(acc.found) \/ acc.s.status[c] # "ready" -> acc
              [] Gone(n, c) -> [acc EXCEPT !.s = ConnectionCloseCleanup(@, n, c)]
              [] OTHER -> [acc EXCEPT !.found = @ \cup {c}] IN
    ForEachConn(s, ep, {}, Visit)

FindWorkingConnectionId(s, n, ep) == WorkingConnections(s, n, ep, LAMBDA found : found # {})

CheckConnectionRemoteInstance(s, n, c) ==
    s.net[c] # "none" /\ s.instance[Remote(n, c)] \in {NoNode, RemoteInstance(s, n, c)}

FewPeers(s) == Cardinality(Peers(s)) < MinPeers

ShouldConnectToPeer(s, n, ep) ==
    /\ ep \in source
    /\ FewPeers(s)
    /\ s.order[ep] = <<>>
    /\ Own(n) # ep

\* mutant: a peer that connects is counted only once it is one
FitsReady(s, ep) == Cardinality({e \in Endpoint : s.heard[e]} \cup {ep}) <= MaxPeers
Fits(s, ep) == Cardinality(Peers(s) \cup {ep}) <= MaxPeers

\* the verdict, and the state after the search for a working connection
ShouldAcceptPeerConnection(s, n, c, ep) ==
    LET search == IF Fits(s, ep) THEN FindWorkingConnectionId(s, n, ep) ELSE [s |-> s, found |-> {}] IN
    IF ep \notin source THEN [s |-> s, accept |-> FALSE]
    ELSE [s |-> search.s,
          accept |-> /\ Fits(s, ep) /\ search.found = {} /\ Own(n) # ep
                     /\ CheckConnectionRemoteInstance(s, n, c)]

\* the instance recorded when c is added; throws when it is not the one recorded before
AttemptToSetRemoteInstance(s, n, c) ==
    LET ep == Remote(n, c) IN
    IF s.instance[ep] = NoNode THEN [s EXCEPT !.instance[ep] = RemoteInstance(s, n, c)] ELSE s
Throws(s, n, c) ==
    \/ s.net[c] = "none"
    \/ /\ RemoteInstance(s, n, c) # NoNode
       /\ s.instance[Remote(n, c)] \notin {NoNode, RemoteInstance(s, n, c)}

AddPeerConnection(s, n, c, status) ==
    IF s.status[c] # "none" THEN s
    ELSE [AttemptToSetRemoteInstance(s, n, c) EXCEPT
              !.status[c] = status, !.order[Remote(n, c)] = <<c>> \o @]

BroadcastNewPeer(s, ep) == [s EXCEPT !.heard[ep] = TRUE]

\* c is secured at once if its identities were verified before
Secure(s, n, c) ==
    IF c \in s.secured
    THEN BroadcastNewPeer([s EXCEPT !.status[c] = "ready"], Remote(n, c))
    ELSE [s EXCEPT !.status[c] = "offer-accepted", !.asked = @ \cup {c}]

-----------------------------------------------------------------------------
\* Finding and requesting connections

Waiting(n, kind, c, ep) == [kind |-> kind, conn |-> c, ep |-> ep]
Await(n, w) == pending' = [pending EXCEPT ![n] = @ \cup {w}]
Resumes(n, w) == w \in pending[n] /\ pending' = [pending EXCEPT ![n] = @ \ {w}]

\* the answer to the query and the answer of the peer source arrive later, in one step
QueryForOnlinePeers(n, ep) ==
    /\ node[n].joined /\ ep # Own(n) /\ ep \in source
    /\ Cardinality(Peers(node[n])) < MinPeers /\ node[n].order[ep] = <<>>
    /\ \E m \in situation.nodes \ crashed : EndpointOf[m] = ep
    /\ Waiting(n, "discovery", 0, ep) \notin pending[n]
    /\ Await(n, Waiting(n, "discovery", 0, ep))
    /\ UNCHANGED <<node, ends, calls, down, channel, source, crashed, left, faults>>

\* connect() takes up a connection to ep that the NetworkAgent has: a ready one first
Reusable(s, n, ep) ==
    LET With(status) == {c \in Conn : s.net[c] = status /\ Remote(n, c) = ep} IN
    IF With("ready") # {} THEN With("ready")
    ELSE IF With("establishing") # {} THEN With("establishing") ELSE With("received")

ConnectTo(n, ep, c) ==
    LET s == [node[n] EXCEPT !.net[c] = IF @ = "ready" THEN @ ELSE "establishing"] IN
    Becomes(n, IF Throws(s, n, c) THEN s ELSE AddPeerConnection(s, n, c, "connecting"))

OnOnlineEndpointDiscovery(n, ep) ==
    /\ Resumes(n, Waiting(n, "discovery", 0, ep))
    /\ IF ~ ShouldConnectToPeer(node[n], n, ep)
       THEN UNCHANGED <<node, ends, calls>>
       ELSE IF Reusable(node[n], n, ep) # {}
       THEN /\ \E c \in Reusable(node[n], n, ep) : ConnectTo(n, ep, c)
            /\ UNCHANGED <<ends, calls>>
       ELSE \E c \in situation.conns, m \in situation.nodes :
            /\ ends[c] = <<>> /\ EndpointOf[m] = ep
            /\ ends' = [ends EXCEPT ![c] = <<n, m>>]
            /\ calls' = calls \cup {c}
            /\ node' = [node EXCEPT ![n].net[c] = "establishing",
                                    ![n].status[c] = "connecting",
                                    ![n].order[ep] = <<c>>]
    /\ UNCHANGED <<down, channel, source, crashed, left, faults>>

\* the NetworkAgent of n broadcasts the request; with no agent for it, it just stays there
ReceiveConnectionRequest(n, c) ==
    /\ c \in calls /\ ends[c][2] = n
    /\ calls' = calls \ {c}
    /\ n \notin crashed
    /\ node' = [node EXCEPT ![n].net[c] = "received"]
    /\ IF node[n].joined THEN Await(n, Waiting(n, "request", c, Remote(n, c))) ELSE UNCHANGED pending
    /\ UNCHANGED <<ends, down, channel, source, crashed, left, faults>>

OnConnectionRequest(n, c) ==
    /\ Resumes(n, Waiting(n, "request", c, Remote(n, c)))
    /\ LET should == ShouldAcceptPeerConnection(node[n], n, c, Remote(n, c))
           s == should.s IN
       IF should.accept /\ ~ Throws(s, n, c)
       THEN Becomes(n, [AddPeerConnection(s, n, c, "receiving-connection") EXCEPT
                            !.net[c] = IF @ = "received" THEN "establishing" ELSE @])
       ELSE Becomes(n, s)
    /\ UNCHANGED <<ends, calls, down, channel, source, crashed, left, faults>>

SendOffer(n, c) == Sending(n, c, "offer")

\* the channel opens at n, once the other end has taken the call
OnConnectionEstablishment(n, c) ==
    LET s == [node[n] EXCEPT !.net[c] = "ready"] IN
    /\ node[n].net[c] = "establishing"
    /\ node[Other(n, c)].net[c] \in {"establishing", "ready"}
    /\ CASE s.status[c] = "none" ->
                Becomes(n, s) /\ UNCHANGED channel
         [] ~ CheckConnectionRemoteInstance(s, n, c) ->
                Becomes(n, RemoveAndRelease(s, n, c)) /\ UNCHANGED channel
         [] s.status[c] = "connecting" ->
                Becomes(n, [s EXCEPT !.status[c] = "offer-sent"]) /\ SendOffer(n, c)
         [] s.status[c] = "receiving-connection" ->
                Becomes(n, [s EXCEPT !.status[c] = "waiting-for-offer"]) /\ UNCHANGED channel
         [] OTHER -> Becomes(n, s) /\ UNCHANGED channel
    /\ UNCHANGED <<ends, calls, down, pending, source, crashed, left, faults>>

-----------------------------------------------------------------------------
\* Offers

\* the next message for n on c, until n sees c gone; the rest is lost with the channel
Receives(n, c, msg) ==
    /\ PromptSource => Waiting(n, "offer", c, Remote(n, c)) \notin pending[n]
    /\ node[n].net[c] = "ready" /\ ~ Gone(n, c)
    /\ channel[c][n] # <<>> /\ Head(channel[c][n]) = msg
Taken(n, c) == channel' = [channel EXCEPT ![c][n] = Tail(@)]

ReceiveOffer(n, c) ==
    /\ Receives(n, c, "offer")
    /\ Taken(n, c)
    /\ IF node[n].joined THEN Await(n, Waiting(n, "offer", c, Remote(n, c))) ELSE UNCHANGED pending
    /\ UNCHANGED <<node, ends, calls, down, source, crashed, left, faults>>

\* reply to an offer and act on it; a reply that cannot be sent ends the handler
Answer(n, c, s, accept) ==
    IF s.net[c] = "none" \/ Gone(n, c) THEN Becomes(n, s) /\ UNCHANGED channel
    ELSE IF accept THEN Becomes(n, Secure(s, n, c)) /\ Sending(n, c, "accept")
    ELSE Becomes(n, RemoveAndRelease(s, n, c)) /\ Sending(n, c, "reject")

OnReceivingOffer(n, c) ==
    /\ Resumes(n, Waiting(n, "offer", c, Remote(n, c)))
    /\ LET s == node[n]
           should == ShouldAcceptPeerConnection(s, n, c, Remote(n, c)) IN
       CASE s.status[c] = "none" /\ should.accept ->
                Answer(n, c, AddPeerConnection(should.s, n, c, "waiting-for-offer"), TRUE)
         [] s.status[c] = "none" /\ ~ should.accept /\ Remote(n, c) \in source ->
                Answer(n, c, should.s, FALSE)
         [] s.status[c] \in {"waiting-for-offer", "offer-sent"} ->
                Answer(n, c, s, CheckConnectionRemoteInstance(s, n, c))
         [] OTHER -> Becomes(n, RemoveAndRelease(s, n, c)) /\ UNCHANGED channel
    /\ UNCHANGED <<ends, calls, down, source, crashed, left, faults>>

OnReceivingOfferReply(n, c) ==
    /\ \/ /\ Receives(n, c, "accept")
          /\ Becomes(n, IF node[n].status[c] = "offer-sent" THEN Secure(node[n], n, c) ELSE node[n])
       \/ Receives(n, c, "reject") /\ UNCHANGED node
    /\ Taken(n, c)
    /\ UNCHANGED <<ends, calls, down, pending, source, crashed, left, faults>>

\* SecureNetworkAgent: the challenges of both ends have been answered
OnConnectionAuthentication(n, c) ==
    /\ c \in node[n].asked \ node[n].secured /\ ~ Gone(n, c)
    /\ c \in node[Other(n, c)].asked \cup node[Other(n, c)].secured
    /\ LET s == [node[n] EXCEPT !.secured = @ \cup {c}] IN
       Becomes(n, IF s.status[c] = "offer-accepted" THEN Secure(s, n, c) ELSE s)
    /\ UNCHANGED <<ends, calls, down, channel, pending, source, crashed, left, faults>>

-----------------------------------------------------------------------------
\* The tick

\* nothing will come of c at n: the other end does not have it, or its channel is gone
Hopeless(n, c) ==
    \/ Gone(n, c) \/ Other(n, c) \in crashed
    \/ /\ node[Other(n, c)].status[c] = "none" /\ c \notin calls
       /\ \A w \in pending[Other(n, c)] : w.conn # c

\* to wait too little for those of T that are not hopeless is a fault
GivesUp(n, T) ==
    /\ faults' = faults + Cardinality({c \in T : ~ Hopeless(n, c)})
    /\ faults' <= situation.faults

EndpointSeq == SetToSeq(Endpoint)

\* Ready connections that broke are removed, and those of T, whose time is over: the oldest
\* first (a new one is put at the front of its endpoint's).
CleanUp(n, T) ==
    LET s == node[n]
        oldestFirst == FoldLeft(LAMBDA seq, ep : seq \o Reverse(s.order[ep]), <<>>, EndpointSeq)
        over == {c \in Conn : s.status[c] = "ready" /\ Gone(n, c)} \cup T IN
    /\ T \subseteq {c \in Conn : s.status[c] \notin {"none", "ready"}}
    /\ over # {}
    /\ Becomes(n, FoldLeft(LAMBDA t, c : IF c \in over THEN RemoveAndRelease(t, n, c) ELSE t,
                           s, oldestFirst))
    /\ GivesUp(n, T)
    /\ UNCHANGED <<ends, calls, down, channel, pending, source, crashed, left>>

Least(S) == CHOOSE c \in S : \A d \in S : c <= d

\* the connection that n proposes to keep
SendChosenConnection(n, c) == Sending(n, c, "choose")

DeduplicateConnections(n, ep) ==
    LET s == node[n]
        kept == s.chosen[ep]
        known == kept # 0 /\ s.net[kept] = "ready"
        t == IF known /\ Gone(n, kept) THEN ConnectionCloseCleanup(s, n, kept) ELSE s
        ready == WorkingConnections(t, n, ep, LAMBDA found : FALSE)
        unchosen == [ready.s EXCEPT !.chosen[ep] = 0] IN
    /\ Len(s.order[ep]) > 1
    /\ ~ (known /\ ~ Gone(n, kept))
    /\ IF Cardinality(ready.found) > 1
       THEN /\ Becomes(n, [unchosen EXCEPT !.chosen[ep] = Least(ready.found)])
            /\ SendChosenConnection(n, Least(ready.found))
       ELSE Becomes(n, unchosen) /\ UNCHANGED channel
    /\ UNCHANGED <<ends, calls, down, pending, source, crashed, left, faults>>

\* mutant: the chosen connection is given up with the others
ChooseConnectionNone(s, n, c) ==
    LET Visit(acc, d) ==
            [acc EXCEPT !.s = RemovePeerConnection(ReleaseConnection(@, n, d), n, d)] IN
    ForEachConn(s, Remote(n, c), {}, Visit).s

ChooseConnection(s, n, c) ==
    LET Visit(acc, d) ==
            IF d = c THEN acc
            ELSE [acc EXCEPT !.s = RemovePeerConnection(ReleaseConnection(@, n, d), n, d)] IN
    ForEachConn(s, Remote(n, c), {}, Visit).s

\* mutant: what this end chose too is not taken
AcceptsSmaller(s, n, c) ==
    LET kept == s.chosen[Remote(n, c)] IN kept = 0 \/ c < kept

\* the smaller of the two wins when this end chose another
Accepts(s, n, c) ==
    LET kept == s.chosen[Remote(n, c)] IN kept = 0 \/ c <= kept

OnConnectionSelection(n, c) ==
    /\ \E type \in {"choose", "confirm"} :
        /\ Receives(n, c, type)
        /\ IF node[n].status[c] = "ready" /\ Accepts(node[n], n, c)
           THEN /\ Becomes(n, ChooseConnection(node[n], n, c))
                /\ channel' = [channel EXCEPT
                       ![c][n] = Tail(@),
                       ![c][Other(n, c)] = IF type = "choose" /\ ~ Closed(Other(n, c), c)
                                           THEN Append(@, "confirm") ELSE @]
           ELSE Taken(n, c) /\ UNCHANGED node
    /\ UNCHANGED <<ends, calls, down, pending, source, crashed, left, faults>>

\* mutant: the release is forgotten
CheckPeersOnly(n, ep) ==
    /\ node[n].order[ep] # <<>> /\ ep \notin source
    /\ UNCHANGED state

\* the connections of who is no longer listed are released, as the loop gets to them
CheckPeers(n, ep) ==
    LET Visit(acc, c) == [acc EXCEPT !.s = ReleaseConnection(@, n, c)] IN
    /\ node[n].order[ep] # <<>> /\ ep \notin source
    /\ Becomes(n, ForEachConn(node[n], ep, {}, Visit).s)
    /\ UNCHANGED <<ends, calls, down, channel, pending, source, crashed, left, faults>>

-----------------------------------------------------------------------------
\* The NetworkAgent's own tick, and the environment

\* a channel that broke, or was not established in time
NetworkTick(n, c) ==
    /\ \/ node[n].net[c] = "ready" /\ Gone(n, c)
       \/ node[n].net[c] = "establishing"
    /\ Becomes(n, ConnectionCloseCleanup(node[n], n, c))
    /\ GivesUp(n, {c})
    /\ UNCHANGED <<ends, calls, down, channel, pending, source, crashed, left>>

\* n sees that the other end closed c, or c breaks
ChannelCloses(n, c) ==
    /\ node[n].net[c] = "ready" /\ ~ Gone(n, c)
    /\ Closed(Other(n, c), c)
    /\ down' = down \cup {<<c, n>>}
    /\ UNCHANGED <<node, ends, calls, channel, pending, source, crashed, left, faults>>
ChannelBreaks(n, c) ==
    /\ node[n].net[c] = "ready" /\ ~ Gone(n, c)
    /\ down' = down \cup {<<c, n>>}
    /\ faults < situation.faults /\ faults' = faults + 1
    /\ UNCHANGED <<node, ends, calls, channel, pending, source, crashed, left>>

Crash(n) ==
    /\ n \in situation.crash \ crashed
    /\ crashed' = crashed \cup {n}
    /\ Becomes(n, Fresh)
    /\ pending' = [pending EXCEPT ![n] = {}]
    /\ UNCHANGED <<ends, calls, down, channel, source, left, faults>>

\* nothing but the tick is stopped: the connections stay with the NetworkAgent
Shutdown(n) == Becomes(n, [Fresh EXCEPT !.net = node[n].net, !.asked = node[n].asked,
                                        !.secured = node[n].secured])

LeavePeerGroup(n) ==
    /\ n \in situation.leave \ (left \cup crashed)
    /\ left' = left \cup {n}
    /\ Shutdown(n)
    /\ pending' = [pending EXCEPT ![n] = {}]
    /\ UNCHANGED <<ends, calls, down, channel, source, crashed, faults>>

\* a new agent goes over the connections that the NetworkAgent has
JoinPeerGroup(n) ==
    /\ n \in left /\ ~ node[n].joined /\ n \notin crashed
    /\ node' = [node EXCEPT ![n].joined = TRUE]
    /\ pending' = [pending EXCEPT ![n] =
           {Waiting(n, "start", c, Remote(n, c)) :
               c \in {d \in Conn : node[n].net[d] = "ready" /\ ~ Gone(n, d)}}]
    /\ UNCHANGED <<ends, calls, down, channel, source, crashed, left, faults>>

ResumeInit(n, c) ==
    LET s == node[n] IN
    /\ Resumes(n, Waiting(n, "start", c, Remote(n, c)))
    /\ IF ShouldConnectToPeer(s, n, Remote(n, c)) /\ ~ Throws(s, n, c)
       THEN /\ Becomes(n, AddPeerConnection(s, n, c, "offer-sent"))
            /\ IF Gone(n, c) THEN UNCHANGED channel ELSE SendOffer(n, c)
       ELSE UNCHANGED <<node, channel>>
    /\ UNCHANGED <<ends, calls, down, source, crashed, left, faults>>

Revoke(ep) ==
    /\ ep \in situation.revoke \cap source
    /\ source' = source \ {ep}
    /\ UNCHANGED <<node, ends, calls, down, channel, pending, crashed, left, faults>>

Used(n) == {c \in Conn : ends[c] # <<>> /\ n \in Range(ends[c])}

Tick(n) ==
    \/ \E T \in SUBSET Conn : CleanUp(n, T)
    \/ \E ep \in Endpoint : DeduplicateConnections(n, ep) \/ CheckPeers(n, ep)

Negotiate(n) == \E c \in Used(n) :
    \/ ReceiveConnectionRequest(n, c)
    \/ OnConnectionRequest(n, c)
    \/ OnConnectionEstablishment(n, c)
    \/ ReceiveOffer(n, c)
    \/ OnReceivingOffer(n, c)
    \/ OnReceivingOfferReply(n, c)
    \/ OnConnectionAuthentication(n, c)
    \/ OnConnectionSelection(n, c)
    \/ ResumeInit(n, c)

Next ==
    /\ UNCHANGED situation
    /\ \/ \E n \in Node :
           \/ \E ep \in Endpoint : QueryForOnlinePeers(n, ep) \/ OnOnlineEndpointDiscovery(n, ep)
           \/ Negotiate(n)
           \/ Tick(n)
           \/ \E c \in Used(n) : NetworkTick(n, c) \/ ChannelCloses(n, c) \/ ChannelBreaks(n, c)
           \/ Crash(n)
           \/ LeavePeerGroup(n)
           \/ JoinPeerGroup(n)
       \/ \E ep \in Endpoint : Revoke(ep)

Spec == Init /\ [][Next]_vars

Advance(n) ==
    \/ Negotiate(n)
    \/ Tick(n)
    \/ \E c \in Used(n) : NetworkTick(n, c) \/ ChannelCloses(n, c)
    \/ \E ep \in Endpoint : OnOnlineEndpointDiscovery(n, ep)

\* What was begun is answered, and ticks recur, until nothing is left for them to do.
LiveSpec ==
    /\ Spec
    /\ WF_vars((\E n \in Node : Advance(n)) /\ UNCHANGED situation)

-----------------------------------------------------------------------------
\* Properties

Handler == [kind : {"discovery", "request", "offer", "start"}, conn : Conn \cup {0}, ep : Endpoint]

\* Every variable keeps its shape, and no connection is listed twice.
TypeOK ==
    /\ \A n \in Node : LET s == node[n] IN
        /\ s.joined \in BOOLEAN
        /\ s.status \in [Conn -> PeerConnectionStatus \cup {"none"}]
        /\ \A ep \in Endpoint : IsInjective(s.order[ep]) /\ Range(s.order[ep]) \subseteq Conn
        /\ s.instance \in [Endpoint -> Node \cup {NoNode}]
        /\ s.chosen \in [Endpoint -> Conn \cup {0}]
        /\ s.heard \in [Endpoint -> BOOLEAN]
        /\ s.net \in [Conn -> {"none", "received", "establishing", "ready"}]
        /\ s.asked \subseteq Conn /\ s.secured \subseteq Conn
    /\ \A c \in Conn : ends[c] = <<>> \/ ends[c] \in Node \X Node
    /\ calls \subseteq Conn /\ down \subseteq Conn \X Node
    /\ \A c \in Conn, n \in Node :
           channel[c][n] \in Seq({"offer", "accept", "reject", "choose", "confirm"})
    /\ \A n \in Node : pending[n] \subseteq Handler
    /\ faults \in 0..situation.faults
    /\ source \subseteq Endpoint /\ crashed \subseteq Node /\ left \subseteq Node

\* A node never deals with more peers than the larger of its two limits, however many
\* discoveries and requests wait for the peer source at the same time.
PeersBounded ==
    \A n \in Node : \/ Cardinality(Peers(node[n])) <= MinPeers
                   \/ Cardinality(Peers(node[n])) <= MaxPeers

ReadyTo(n, ep) == {c \in Range(node[n].order[ep]) : node[n].status[c] = "ready"}

\* A peer is a peer for everybody. As long as there is a ready connection to it, the last thing the
\* other agents heard is that it is there: a duplicate that goes does not take the peer with it.
\* And it has the connection too: there it is at least accepted. Otherwise the node would talk to
\* nobody on a channel that looks well.  (Who left the group still has its connections, and belongs
\* to nobody's group on them.)
NoHalfPeers ==
    /\ \A n \in Node, ep \in Endpoint : ReadyTo(n, ep) # {} => node[n].heard[ep]
    /\ left = {} => \A n \in Node, c \in Conn :
           node[n].status[c] = "ready" /\ ~ Closed(Other(n, c), c) =>
               node[Other(n, c)].status[c] \in {"offer-accepted", "ready"}

Linked(c) == ends[c] # <<>> /\ \A n \in Range(ends[c]) : node[n].status[c] = "ready" /\ ~ Gone(n, c)
LinkedPeers == {{Own(n) : n \in Range(ends[c])} : c \in {d \in Conn : Linked(d)}}

\* every channel that one end sees gone was closed by the other
Unbroken == \A n \in Node, c \in Conn : Gone(n, c) => Closed(Other(n, c), c)

\* Deduplication never parts two peers: whatever two ends choose at the same time, and however
\* late they learn what the other one closed, some connection that both have ready survives
\* every step, failures and leaving aside.
ConnectedStayConnected ==
    [][node' # node /\ crashed' = {} /\ left' = {} /\ source = Endpoint /\ Unbroken =>
           LinkedPeers \subseteq LinkedPeers']_vars

\* Once all handlers have run, no two connections that both ends have ready are left between the
\* same peers, and whoever is no longer listed by the peer source has lost its connections, though
\* the loop over them skips some.
Duplicated == \E c, d \in Conn :
    c # d /\ Linked(c) /\ Linked(d) /\ Range(ends[c]) = Range(ends[d])
PeersSettle ==
    <>[](/\ ~ Duplicated
         /\ \A n \in Node, ep \in Endpoint : ep \notin source => node[n].order[ep] = <<>>)

\* Whom the other agents take for a peer has a connection: its loss was broadcast with the last.
LostIsAnnounced ==
    \A n \in Node, ep \in Endpoint : node[n].heard[ep] => node[n].order[ep] # <<>>

\* An instance is respected while there is a connection to its peer, and forgotten with the last.
InstanceForgotten ==
    \A n \in Node, ep \in Endpoint : node[n].order[ep] = <<>> => node[n].instance[ep] = NoNode

\* A node is never connected to two instances of one peer.
OneInstance ==
    \A n \in Node, ep \in Endpoint, c, d \in Conn :
        {c, d} \subseteq {e \in ReadyTo(n, ep) : ~ Gone(n, e)} => Other(n, c) = Other(n, d)
=============================================================================
