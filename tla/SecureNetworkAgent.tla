------------------------- MODULE SecureNetworkAgent -------------------------
(***************************************************************************)
(* SecureNetworkAgent (src/src/mesh/agents/network) over one connection:   *)
(* each end challenges the other to show that it holds an identity, and    *)
(* the secrets of the two challenges then protect the messages.            *)
(*                                                                         *)
(* chal[n] is what n keeps of the other end (remoteIdentities), hold[n]    *)
(* what it keeps of its own identity (localIdentities).  Secrets are       *)
(* numbered in the order their maker generates them.  Encrypting and       *)
(* decrypting one is asynchronous: the calls under way are in encrypting   *)
(* and decrypting, and the callbacks that wait for their turn after them   *)
(* are counted in challenges and answers.                                  *)
(***************************************************************************)
EXTENDS Naturals, SequencesExt

CONSTANTS Node,            \* the two ends of the connection
          User,            \* local agents
          Situations,      \* users: which of them ask to secure it; known: the ends that know
                           \* the other's identity when they do; early: whether users may ask
                           \* before the connection is ready
          MayClose,        \* the connection may be closed
          MaxSends         \* bound: secure messages each end sends

ASSUME NodeAssumption == /\ \E a, b \in Node : a # b /\ Node = {a, b}
                         /\ Situations \subseteq
                                [users : SUBSET User, known : SUBSET Node, early : BOOLEAN]
                         /\ MayClose \in BOOLEAN
                         /\ MaxSends \in Nat

VARIABLES conn, chal, hold, encrypting, challenges, decrypting, answers,
          channel, made, asked, sent,
          situation        \* never changes

vars == <<conn, chal, hold, encrypting, challenges, decrypting, answers,
          channel, made, asked, sent, situation>>

Other(n) == CHOOSE m \in Node : m # n

HolderStatus ==
    {"nil", "expecting-challenge", "received-unexpected-challenge",
     "received-unexpected-identity-request", "sent-identity",
     "sent-challenge-answer", "identity-verified", "identity-rejected"}

ChallengerStatus ==
    {"nil", "waiting-to-challenge", "sent-identity-request", "sent-challenge",
     "identity-verified", "identity-rejected"}

MessageType ==
    {"request-identity", "send-identity", "send-challenge", "answer-challenge",
     "challenge-result", "secure-message"}

\* secret: the one encrypted, hashed or used as a key; mac: the key of the hmac
Message(type, secret, mac, result) ==
    [type |-> type, secret |-> secret, mac |-> mac, result |-> result]
Plain(type) == Message(type, 0, 0, TRUE)

Unsecured == [status |-> "nil", identity |-> FALSE, secret |-> 0, encryptedSecret |-> 0]

Init ==
    /\ conn = [n \in Node |-> "establishing"]
    /\ chal = [n \in Node |-> Unsecured]
    /\ hold = [n \in Node |-> Unsecured]
    /\ encrypting = [n \in Node |-> {}]
    /\ challenges = [n \in Node |-> 0]
    /\ decrypting = [n \in Node |-> <<>>]
    /\ answers = [n \in Node |-> 0]
    /\ channel = [n \in Node |-> <<>>]
    /\ made = [n \in Node |-> 0]
    /\ asked = [n \in Node |-> {}]
    /\ sent = [n \in Node |-> 0]
    /\ situation \in Situations

\* the channel to an end that closed it leads nowhere
Sending(n, msgs) ==
    channel' = [channel EXCEPT ![Other(n)] = IF conn[Other(n)] = "closed" THEN @ ELSE @ \o msgs]

Verified(side) == side.status = "identity-verified"

\* getVerifiedIdentity(), asked for both directions
BothIdentitiesVerified(n) == Verified(hold[n]) /\ Verified(chal[n])

-----------------------------------------------------------------------------
\* Asking

Expects(h) ==
    [h EXCEPT !.identity = TRUE,
              !.status = CASE @ = "received-unexpected-identity-request" -> "sent-identity"
                           [] @ = "nil" -> "expecting-challenge"
                           [] OTHER -> @]

\* mutant: only challenges that come after the user asked are answered
TakesUpNothing(n) == decrypting[n]

\* a challenge came before the user asked: it is decrypted now
TakesUp(n) ==
    IF hold[n].status = "received-unexpected-challenge"
    THEN Append(decrypting[n], hold[n].encryptedSecret) ELSE decrypting[n]

Sends(n) ==
    IF hold[n].status = "received-unexpected-identity-request"
    THEN <<Plain("send-identity")>> ELSE <<>>

Starts(c) == c.status \in {"nil", "identity-rejected"}

\* a secret is generated, and its encryption begun, when the identity is known
Challenging(n, c) ==
    IF c.identity
    THEN /\ chal' = [chal EXCEPT ![n] = [c EXCEPT !.secret = made[n] + 1]]
         /\ made' = [made EXCEPT ![n] = @ + 1]
         /\ encrypting' = [encrypting EXCEPT ![n] = @ \cup {made[n] + 1}]
    ELSE /\ chal' = [chal EXCEPT ![n] = [c EXCEPT !.status = "sent-identity-request"]]
         /\ UNCHANGED <<made, encrypting>>

SecureForReceiving(n) ==
    /\ hold' = [hold EXCEPT ![n] = Expects(@)]
    /\ decrypting' = [decrypting EXCEPT ![n] = TakesUp(n)]

SecureForSending(n) ==
    LET c == [chal[n] EXCEPT !.identity = @ \/ n \in situation.known] IN
    IF conn[n] = "ready" /\ Starts(c)
    THEN /\ Challenging(n, c)
         /\ Sending(n, Sends(n) \o IF c.identity THEN <<>> ELSE <<Plain("request-identity")>>)
    ELSE /\ chal' = [chal EXCEPT ![n] =
                 IF conn[n] = "establishing" THEN [c EXCEPT !.status = "waiting-to-challenge"] ELSE c]
         /\ UNCHANGED <<made, encrypting>>
         /\ Sending(n, Sends(n))

\* a user finds the connection not secured yet and asks for both directions
Ask(n, u) ==
    /\ u \notin asked[n]
    /\ conn[n] = "ready" \/ (situation.early /\ conn[n] = "establishing")
    /\ ~ BothIdentitiesVerified(n)
    /\ asked' = [asked EXCEPT ![n] = @ \cup {u}]
    /\ SecureForReceiving(n)
    /\ SecureForSending(n)
    /\ UNCHANGED <<conn, challenges, answers, sent, situation>>

-----------------------------------------------------------------------------
\* Encrypting and decrypting

EncryptSecret(n, s) ==
    /\ s \in encrypting[n]
    /\ encrypting' = [encrypting EXCEPT ![n] = @ \ {s}]
    /\ chal' = [chal EXCEPT ![n].encryptedSecret = s]
    /\ challenges' = [challenges EXCEPT ![n] = @ + 1]
    /\ UNCHANGED <<conn, hold, decrypting, answers, channel, made, asked, sent, situation>>

SendKnownIdentityChallenge(n) ==
    /\ challenges[n] > 0
    /\ challenges' = [challenges EXCEPT ![n] = @ - 1]
    /\ Sending(n, <<Message("send-challenge", chal[n].encryptedSecret, 0, TRUE)>>)
    /\ chal' = [chal EXCEPT ![n].status = "sent-challenge"]
    /\ UNCHANGED <<conn, hold, encrypting, decrypting, answers, made, asked, sent, situation>>

DecryptSecret(n, i) ==
    /\ hold' = [hold EXCEPT ![n].secret = decrypting[n][i]]
    /\ decrypting' = [decrypting EXCEPT ![n] = RemoveAt(@, i)]
    /\ answers' = [answers EXCEPT ![n] = @ + 1]
    /\ UNCHANGED <<conn, chal, encrypting, challenges, channel, made, asked, sent, situation>>

StatusAfterAnswer == "sent-challenge-answer"

AnswerReceivedChallenge(n) ==
    /\ answers[n] > 0
    /\ answers' = [answers EXCEPT ![n] = @ - 1]
    /\ Sending(n, <<Message("answer-challenge", hold[n].secret, 0, TRUE)>>)
    /\ hold' = [hold EXCEPT ![n].status = StatusAfterAnswer]
    /\ UNCHANGED <<conn, chal, encrypting, challenges, decrypting, made, asked, sent, situation>>

-----------------------------------------------------------------------------
\* Messages.  The first one makes the connection ready where it is not yet.

Receive(n, type) ==
    /\ conn[n] # "closed"
    /\ channel[n] # <<>>
    /\ Head(channel[n]).type = type
    /\ conn' = [conn EXCEPT ![n] = "ready"]

Taking(n) == channel' = [channel EXCEPT ![n] = Tail(@)]

\* the received message is gone, and the reply is on its way
TakingAndSending(n, msg) ==
    channel' = [channel EXCEPT ![n] = Tail(@),
                               ![Other(n)] = IF conn[Other(n)] = "closed" THEN @ ELSE Append(@, msg)]

ReceiveRequestIdentity(n) ==
    /\ Receive(n, "request-identity")
    /\ IF hold[n].status = "expecting-challenge"
       THEN /\ hold' = [hold EXCEPT ![n].status = "sent-identity"]
            /\ TakingAndSending(n, Plain("send-identity"))
       ELSE /\ hold' = IF hold[n].status = "nil"
                       THEN [hold EXCEPT ![n].status = "received-unexpected-identity-request"]
                       ELSE hold
            /\ Taking(n)
    /\ UNCHANGED <<chal, encrypting, challenges, decrypting, answers, made, asked, sent, situation>>

ReceiveSendChallenge(n) ==
    /\ Receive(n, "send-challenge")
    /\ Taking(n)
    /\ LET h == [hold[n] EXCEPT !.encryptedSecret = Head(channel[n]).secret] IN
       CASE h.status \in {"expecting-challenge", "sent-identity"} ->
                /\ hold' = [hold EXCEPT ![n] = h]
                /\ decrypting' = [decrypting EXCEPT ![n] = Append(@, h.encryptedSecret)]
         [] h.status = "nil" ->
                /\ hold' = [hold EXCEPT ![n] = [h EXCEPT !.status = "received-unexpected-challenge"]]
                /\ UNCHANGED decrypting
         [] OTHER -> UNCHANGED <<hold, decrypting>>
    /\ UNCHANGED <<chal, encrypting, challenges, answers, made, asked, sent, situation>>

Verdict(result) == IF result THEN "identity-verified" ELSE "identity-rejected"

ReceiveChallengeResult(n) ==
    /\ Receive(n, "challenge-result")
    /\ Taking(n)
    /\ hold' = IF hold[n].status = "sent-challenge-answer"
               THEN [hold EXCEPT ![n].status = Verdict(Head(channel[n]).result)] ELSE hold
    /\ UNCHANGED <<chal, encrypting, challenges, decrypting, answers, made, asked, sent, situation>>

ReceiveSendIdentity(n) ==
    /\ Receive(n, "send-identity")
    /\ Taking(n)
    /\ IF chal[n].status = "sent-identity-request"
       THEN Challenging(n, [chal[n] EXCEPT !.identity = TRUE])
       ELSE UNCHANGED <<chal, made, encrypting>>
    /\ UNCHANGED <<hold, challenges, decrypting, answers, asked, sent, situation>>

ReceiveAnswerChallenge(n) ==
    /\ Receive(n, "answer-challenge")
    /\ IF chal[n].status = "sent-challenge"
       THEN LET accepted == Head(channel[n]).secret = chal[n].secret IN
            /\ chal' = [chal EXCEPT ![n].status = Verdict(accepted)]
            /\ TakingAndSending(n, Message("challenge-result", 0, 0, accepted))
       ELSE UNCHANGED chal /\ Taking(n)
    /\ UNCHANGED <<hold, encrypting, challenges, decrypting, answers, made, asked, sent, situation>>

\* it reaches the local agent it is for, and leaves this one as it was
ReceiveSecureMessage(n) ==
    /\ Receive(n, "secure-message")
    /\ Taking(n)
    /\ UNCHANGED <<chal, hold, encrypting, challenges, decrypting, answers, made, asked, sent, situation>>

\* mutant: a message is sent as soon as the other end is known
MaySendEarly(n) == Verified(chal[n])
MaySend(n) == Verified(chal[n]) /\ Verified(hold[n])

\* encrypted with the other's secret, authenticated with one's own
SendSecurely(n) ==
    /\ conn[n] = "ready" /\ sent[n] < MaxSends
    /\ MaySend(n)
    /\ sent' = [sent EXCEPT ![n] = @ + 1]
    /\ Sending(n, <<Message("secure-message", chal[n].secret, hold[n].secret, TRUE)>>)
    /\ UNCHANGED <<conn, chal, hold, encrypting, challenges, decrypting, answers, made, asked, situation>>

-----------------------------------------------------------------------------
\* The connection

\* the secured connections whose connId is the local endpoint's are challenged: there are none
BecomeReady(n) ==
    /\ conn[n] = "establishing"
    /\ conn' = [conn EXCEPT ![n] = "ready"]
    /\ UNCHANGED <<chal, hold, encrypting, challenges, decrypting, answers, channel, made, asked, sent, situation>>

\* the identities are removed; what ends later fails to send on the closed connection
Close(n) ==
    /\ MayClose /\ conn[n] # "closed"
    /\ conn' = [conn EXCEPT ![n] = "closed"]
    /\ chal' = [chal EXCEPT ![n] = Unsecured]
    /\ hold' = [hold EXCEPT ![n] = Unsecured]
    /\ encrypting' = [encrypting EXCEPT ![n] = {}]
    /\ challenges' = [challenges EXCEPT ![n] = 0]
    /\ decrypting' = [decrypting EXCEPT ![n] = <<>>]
    /\ answers' = [answers EXCEPT ![n] = 0]
    /\ channel' = [channel EXCEPT ![n] = <<>>]
    /\ UNCHANGED <<made, asked, sent, situation>>

ConnectionStatusChange(n) == BecomeReady(n) \/ Close(n)

ReceiveMessage(n) ==
    \/ ReceiveRequestIdentity(n)
    \/ ReceiveSendChallenge(n)
    \/ ReceiveChallengeResult(n)
    \/ ReceiveSendIdentity(n)
    \/ ReceiveAnswerChallenge(n)
    \/ ReceiveSecureMessage(n)

Crypto(n) ==
    \/ \E s \in encrypting[n] : EncryptSecret(n, s)
    \/ SendKnownIdentityChallenge(n)
    \/ \E i \in 1..Len(decrypting[n]) : DecryptSecret(n, i)
    \/ AnswerReceivedChallenge(n)

Next == \E n \in Node :
    \/ \E u \in situation.users : Ask(n, u)
    \/ Crypto(n)
    \/ ReceiveMessage(n)
    \/ SendSecurely(n)
    \/ ConnectionStatusChange(n)

Spec == Init /\ [][Next]_vars

\* a connection opens, users ask, what was begun ends, messages arrive
LiveSpec ==
    /\ Spec
    /\ \A n \in Node :
        /\ WF_vars(BecomeReady(n))
        /\ WF_vars(\E u \in situation.users : Ask(n, u))
        /\ WF_vars(Crypto(n))
        /\ WF_vars(ReceiveMessage(n))

-----------------------------------------------------------------------------
\* Properties

Side(status) == [status : status, identity : BOOLEAN, secret : Nat, encryptedSecret : Nat]

\* Every variable keeps its shape.
TypeOK ==
    /\ conn \in [Node -> {"establishing", "ready", "closed"}]
    /\ chal \in [Node -> Side(ChallengerStatus)]
    /\ hold \in [Node -> Side(HolderStatus)]
    /\ encrypting \in [Node -> SUBSET Nat] /\ decrypting \in [Node -> Seq(Nat)]
    /\ challenges \in [Node -> Nat] /\ answers \in [Node -> Nat]
    /\ channel \in [Node -> Seq([type : MessageType, secret : Nat, mac : Nat, result : BOOLEAN])]
    /\ made \in [Node -> Nat] /\ sent \in [Node -> 0..MaxSends]
    /\ asked \in [Node -> SUBSET User] /\ situation \in Situations

\* A secure message finds its recipient ready for it: the identity it is for and the sender's
\* are verified there, and the keys it was made with are the ones kept there.  (Otherwise
\* receiveMessage() drops it without a word.)
SecureMessagesAccepted ==
    \A n \in Node :
        conn[n] # "closed" /\ channel[n] # <<>> /\ Head(channel[n]).type = "secure-message" =>
            /\ Verified(hold[n]) /\ hold[n].secret = Head(channel[n]).secret
            /\ Verified(chal[n]) /\ chal[n].secret = Head(channel[n]).mac

\* Whoever asks first, and whatever crosses on the way, both directions get verified at both
\* ends, unless the connection closes first, or a challenger was asked to wait for it to be ready:
\* BecomeReady leaves that one waiting.
BothVerified ==
    <>[](\/ \A n \in Node : Verified(hold[n]) /\ Verified(chal[n])
         \/ \E n \in Node : conn[n] = "closed" \/ chal[n].status = "waiting-to-challenge")

\* Two ends that both hold their identities never reject each other.
HoldersNotRejected ==
    \A n \in Node : "identity-rejected" \notin {hold[n].status, chal[n].status}

\* The state machine documented in the source: a challenger that waits for the connection
\* challenges, or asks for the identity, once it is ready.
WaitingChallenges ==
    \A n \in Node : chal[n].status = "waiting-to-challenge" ~> chal[n].status # "waiting-to-challenge"
=============================================================================
