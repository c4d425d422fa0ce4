---------------------- MODULE SecureNetworkAgentProofs ----------------------
(***************************************************************************)
(* A secure message finds its recipient ready for it, whoever asks first,  *)
(* however the negotiations of the two directions cross and whenever the   *)
(* connection is closed, if each end makes one challenge only.             *)
(*                                                                         *)
(* A direction is a token that is passed on: the request of an identity,   *)
(* the identity, the secret that is encrypted, the challenge, the secret   *)
(* that is decrypted, the answer, the result.  There is one of them at a   *)
(* time, on a channel or in a pending call, and where it is says in which  *)
(* states the two ends are.                                                *)
(***************************************************************************)
EXTENDS SecureNetworkAgent, SequenceTheorems, TLAPS

(* Two users of an end that knows the identity of the other would generate *)
(* a secret each, and the answer to the first would not fit the second.    *)
OneChallenge == \A s \in Situations : s.known = {} \/ \A u, v \in s.users : u = v

Open(n) == conn[n] # "closed"

(* The challenge is being made; it is being answered.                      *)
InMaking(n) == encrypting[n] # {} \/ challenges[n] > 0
InHand(n)   == decrypting[n] # <<>> \/ answers[n] > 0

-----------------------------------------------------------------------------
(* What is on a channel.                                                   *)

AnyMessage == [type : MessageType, secret : Nat, mac : Nat, result : BOOLEAN]

On(q, type)   == \E i \in 1 .. Len(q) : q[i].type = type
Once(q, type) == \A i, j \in 1 .. Len(q) : q[i].type = type /\ q[j].type = type => i = j

(* There is one secret of each end, and no answer is wrong.                *)
Sound(msg) ==
    /\ msg.type \in {"send-challenge", "answer-challenge", "secure-message"} => msg.secret = 1
    /\ msg.type = "secure-message" => msg.mac = 1
    /\ msg.type = "challenge-result" => msg.result

SoundQueue(q) ==
    /\ \A i \in 1 .. Len(q) : Sound(q[i])
    /\ \A type \in MessageType \ {"secure-message"} : Once(q, type)

(* A secure message finds the challenger verified, and the holder verified *)
(* or about to be.                                                         *)
Ready(q, challenger, holder) ==
    \A i \in 1 .. Len(q) : q[i].type = "secure-message" =>
        /\ challenger
        /\ holder \/ \E j \in 1 .. (i - 1) : q[j].type = "challenge-result"

LEMMA NothingOnEmpty ==
    ASSUME NEW q, q = <<>>
    PROVE  SoundQueue(q) /\ (\A type : ~ On(q, type)) /\ \A v, w \in BOOLEAN : Ready(q, v, w)
<1>1. Len(q) = 0 /\ 1 .. Len(q) = {}
  OBVIOUS
<1> QED
  BY <1>1 DEF SoundQueue, Once, On, Ready

LEMMA Append1 ==
    ASSUME NEW q \in Seq(AnyMessage), NEW msg \in AnyMessage
    PROVE  /\ Append(q, msg) \in Seq(AnyMessage) /\ Len(q) \in Nat
           /\ Len(Append(q, msg)) = Len(q) + 1 /\ Append(q, msg)[Len(q) + 1] = msg
           /\ \A i \in 1 .. Len(q) : Append(q, msg)[i] = q[i]
<1> HIDE DEF AnyMessage
<1> QED
  OBVIOUS

LEMMA Tail1 ==
    ASSUME NEW q \in Seq(AnyMessage), q # <<>>
    PROVE  /\ Tail(q) \in Seq(AnyMessage) /\ Head(q) \in AnyMessage /\ Head(q) = q[1]
           /\ Len(q) \in Nat \ {0} /\ Len(Tail(q)) = Len(q) - 1
           /\ \A i \in 1 .. (Len(q) - 1) : Tail(q)[i] = q[i + 1]
<1> HIDE DEF AnyMessage
<1> QED
  OBVIOUS

LEMMA Sends1 ==
    ASSUME NEW q \in Seq(AnyMessage), NEW msg \in AnyMessage
    PROVE  /\ \A type : On(Append(q, msg), type) <=> On(q, type) \/ msg.type = type
           /\ SoundQueue(q) /\ Sound(msg) /\ (msg.type = "secure-message" \/ ~ On(q, msg.type))
                => SoundQueue(Append(q, msg))
           /\ \A v, w \in BOOLEAN :
                 /\ Ready(q, v, w)
                 /\ msg.type = "secure-message" => v /\ (w \/ On(q, "challenge-result"))
                 => Ready(Append(q, msg), v, w)
<1> DEFINE r == Append(q, msg)
<1>1. /\ Len(q) \in Nat /\ Len(r) = Len(q) + 1 /\ r[Len(q) + 1] = msg
      /\ \A i \in 1 .. Len(q) : r[i] = q[i]
  BY Append1
<1> HIDE DEF r
<1>2. ASSUME NEW i \in 1 .. Len(r) PROVE (i \in 1 .. Len(q) /\ r[i] = q[i]) \/ (i = Len(q) + 1 /\ r[i] = msg)
  BY <1>1
<1>3. 1 .. Len(q) \subseteq 1 .. Len(r) /\ Len(q) + 1 \in 1 .. Len(r)
  BY <1>1
<1>4. \A type : On(r, type) <=> On(q, type) \/ msg.type = type
  BY <1>1, <1>2, <1>3 DEF On
<1>5. ASSUME SoundQueue(q), Sound(msg), msg.type = "secure-message" \/ ~ On(q, msg.type)
      PROVE  SoundQueue(r)
  <2>1. \A i \in 1 .. Len(r) : Sound(r[i])
    BY <1>2, <1>5 DEF SoundQueue
  <2>2. ASSUME NEW type \in MessageType \ {"secure-message"} PROVE Once(r, type)
    <3>1. Once(q, type)
      BY <1>5, <2>2 DEF SoundQueue
    <3>2. msg.type = type => ~ On(q, type)
      BY <1>5, <2>2
    <3> QED
      BY <1>2, <3>1, <3>2 DEF Once, On
  <2> QED
    BY <2>1, <2>2 DEF SoundQueue
<1>6. ASSUME NEW v \in BOOLEAN, NEW w \in BOOLEAN, Ready(q, v, w),
             msg.type = "secure-message" => v /\ (w \/ On(q, "challenge-result"))
      PROVE  Ready(r, v, w)
  <2>1. ASSUME NEW i \in 1 .. Len(r), r[i].type = "secure-message"
        PROVE  v /\ (w \/ \E j \in 1 .. (i - 1) : r[j].type = "challenge-result")
    <3>1. CASE i \in 1 .. Len(q)
      <4>1. v /\ (w \/ \E j \in 1 .. (i - 1) : q[j].type = "challenge-result")
        BY <1>1, <1>6, <2>1, <3>1 DEF Ready
      <4> QED
        BY <1>1, <3>1, <4>1
    <3>2. CASE i = Len(q) + 1
      <4>1. v /\ (w \/ \E j \in 1 .. Len(q) : q[j].type = "challenge-result")
        BY <1>1, <1>6, <2>1, <3>2 DEF On
      <4>2. i - 1 = Len(q)
        BY <1>1, <3>2
      <4> QED
        BY <1>1, <4>1, <4>2
    <3> QED
      BY <1>2, <3>1, <3>2
  <2> QED
    BY <2>1 DEF Ready
<1> QED
  BY <1>4, <1>5, <1>6 DEF r

LEMMA Takes1 ==
    ASSUME NEW q \in Seq(AnyMessage), q # <<>>, SoundQueue(q)
    PROVE  /\ SoundQueue(Tail(q)) /\ Sound(Head(q)) /\ On(q, Head(q).type)
           /\ \A type \in MessageType \ {"secure-message"} :
                 On(Tail(q), type) <=> On(q, type) /\ Head(q).type # type
           /\ \A v, w, x \in BOOLEAN :
                 /\ Ready(q, v, w) /\ (w => x)
                 /\ Head(q).type = "challenge-result" => x
                 => Ready(Tail(q), v, x)
           /\ \A v, w \in BOOLEAN : Ready(q, v, w) /\ Head(q).type = "secure-message" => v /\ w
<1> DEFINE r == Tail(q)
<1>1. /\ Len(q) \in Nat \ {0} /\ Len(r) = Len(q) - 1 /\ Head(q) = q[1]
      /\ \A i \in 1 .. (Len(q) - 1) : r[i] = q[i + 1]
  BY Tail1
<1> HIDE DEF r
<1>2. ASSUME NEW i \in 1 .. Len(r) PROVE i + 1 \in 1 .. Len(q) /\ r[i] = q[i + 1] /\ i + 1 # 1
  BY <1>1
<1>3. ASSUME NEW i \in 1 .. Len(q), i # 1 PROVE i - 1 \in 1 .. Len(r) /\ r[i - 1] = q[i]
  <2>1. i - 1 \in 1 .. (Len(q) - 1) /\ (i - 1) + 1 = i
    BY <1>1, <1>3
  <2> QED
    BY <1>1, <2>1
<1>4. 1 \in 1 .. Len(q)
  BY <1>1
<1>5. SoundQueue(r)
  <2>1. \A i \in 1 .. Len(r) : Sound(r[i])
    BY <1>2 DEF SoundQueue
  <2>2. ASSUME NEW type \in MessageType \ {"secure-message"}, NEW i \in 1 .. Len(r), NEW j \in 1 .. Len(r),
               r[i].type = type, r[j].type = type
        PROVE  i = j
    <3>1. i + 1 = j + 1
      BY <1>2, <2>2 DEF SoundQueue, Once
    <3> QED
      BY <3>1
  <2> QED
    BY <2>1, <2>2 DEF SoundQueue, Once
<1>6. Sound(Head(q)) /\ On(q, Head(q).type)
  BY <1>1, <1>4 DEF SoundQueue, On
<1>7. ASSUME NEW type \in MessageType \ {"secure-message"}
      PROVE  On(r, type) <=> On(q, type) /\ Head(q).type # type
  <2>1. Once(q, type)
    BY <1>7 DEF SoundQueue
  <2>2. On(r, type) => On(q, type) /\ Head(q).type # type
    BY <1>1, <1>2, <1>4, <2>1 DEF On, Once
  <2>3. On(q, type) /\ Head(q).type # type => On(r, type)
    BY <1>1, <1>3 DEF On
  <2> QED
    BY <2>2, <2>3
<1>8. ASSUME NEW v \in BOOLEAN, NEW w \in BOOLEAN, Ready(q, v, w),
             NEW x \in BOOLEAN, w => x, Head(q).type = "challenge-result" => x
      PROVE  Ready(r, v, x)
  <2>1. ASSUME NEW i \in 1 .. Len(r), r[i].type = "secure-message", ~ x
        PROVE  \E j \in 1 .. (i - 1) : r[j].type = "challenge-result"
    <3>1. PICK j \in 1 .. ((i + 1) - 1) : q[j].type = "challenge-result"
      BY <1>2, <1>8, <2>1 DEF Ready
    <3>2. j # 1
      BY <1>1, <1>8, <2>1, <3>1
    <3>3. j \in 1 .. Len(q) /\ j - 1 \in 1 .. (i - 1)
      BY <1>1, <3>1, <3>2
    <3>4. r[j - 1].type = "challenge-result"
      BY <1>3, <3>1, <3>2, <3>3
    <3> QED
      BY <3>3, <3>4
  <2>2. ASSUME NEW i \in 1 .. Len(r), r[i].type = "secure-message" PROVE v
    BY <1>2, <1>8, <2>2 DEF Ready
  <2> QED
    BY <2>1, <2>2 DEF Ready
<1>9. ASSUME NEW v \in BOOLEAN, NEW w \in BOOLEAN, Ready(q, v, w), Head(q).type = "secure-message"
      PROVE  v /\ w
  <2>1. 1 .. (1 - 1) = {}
    OBVIOUS
  <2> QED
    BY <1>1, <1>4, <1>9, <2>1 DEF Ready
<1> QED
  BY <1>5, <1>6, <1>7, <1>8, <1>9 DEF r

LEMMA ReadyStays ==
    ASSUME NEW q, NEW v \in BOOLEAN, NEW w \in BOOLEAN, Ready(q, v, w),
           NEW v2 \in BOOLEAN, NEW w2 \in BOOLEAN, v => v2, w => w2
    PROVE  Ready(q, v2, w2)
BY DEF Ready

-----------------------------------------------------------------------------
(* The invariant.                                                          *)

ChannelInv(n) ==
    /\ SoundQueue(channel[n])
    /\ Ready(channel[n], Verified(chal[n]), Verified(hold[n]))
    /\ asked[n] \subseteq situation.users
    /\ ~ Open(n) => /\ channel[n] = <<>> /\ hold[n] = Unsecured /\ chal[n] = Unsecured
                    /\ encrypting[n] = {} /\ challenges[n] = 0
                    /\ decrypting[n] = <<>> /\ answers[n] = 0

(* Of an end that is challenged.                                           *)
HolderInv(h) ==
    LET s == hold[h].status  q == channel[h] IN
    /\ On(q, "request-identity") =>
          /\ s \in {"nil", "expecting-challenge"} /\ ~ InHand(h)
          /\ ~ On(q, "send-challenge") /\ ~ On(q, "challenge-result")
    /\ On(q, "send-challenge") =>
          /\ s \in {"nil", "expecting-challenge", "sent-identity"} /\ ~ InHand(h)
          /\ ~ On(q, "challenge-result")
          /\ s = "nil" => situation.known # {}
    /\ InHand(h) => s \in {"expecting-challenge", "sent-identity", "received-unexpected-challenge"}
    /\ s = "received-unexpected-challenge" =>
          /\ hold[h].encryptedSecret = 1 /\ situation.known # {}
          /\ InHand(h) => asked[h] # {}
    /\ On(q, "challenge-result") => s = "sent-challenge-answer"
    /\ s \in {"sent-challenge-answer", "identity-verified"} \/ answers[h] > 0 => hold[h].secret = 1
    /\ s # "identity-rejected"
    /\ decrypting[h] \in {<<>>, << 1 >>} /\ answers[h] \in {0, 1}
    /\ decrypting[h] # <<>> => answers[h] = 0

(* Of an end that challenges.                                              *)
ChallengerInv(c) ==
    LET s == chal[c].status  q == channel[c] IN
    /\ made[c] \in {0, 1} /\ encrypting[c] \subseteq {1} /\ challenges[c] \in {0, 1}
    /\ encrypting[c] # {} => challenges[c] = 0
    /\ challenges[c] > 0 => chal[c].encryptedSecret = 1
    /\ InMaking(c) => /\ s \in {"nil", "sent-identity-request"} /\ made[c] = 1
                      /\ s = "nil" => situation.known # {} /\ asked[c] # {}
    /\ Open(c) /\ s \in {"nil", "waiting-to-challenge", "sent-identity-request"} /\ ~ InMaking(c)
          => made[c] = 0
    /\ Open(c) /\ s = "nil" /\ chal[c].identity => situation.known # {}
    /\ conn[c] = "establishing" => s \in {"nil", "waiting-to-challenge"} /\ ~ InMaking(c)
    /\ On(q, "send-identity") => s = "sent-identity-request" /\ made[c] = 0
    /\ On(q, "answer-challenge") => s = "sent-challenge"
    /\ s \in {"sent-challenge", "identity-verified"} \/ InMaking(c) => chal[c].secret = 1
    /\ s # "identity-rejected"

(* Of both, while the connection is open.                                  *)
BothInv(c, h) ==
    LET s == chal[c].status  t == hold[h].status IN
    /\ s \in {"nil", "waiting-to-challenge"} =>
          t \in {"nil", "expecting-challenge"} /\ ~ On(channel[h], "request-identity")
    /\ s = "sent-identity-request" =>
          t \in {"nil", "expecting-challenge", "received-unexpected-identity-request", "sent-identity"}
    /\ On(channel[h], "request-identity") \/ t = "received-unexpected-identity-request" =>
          s = "sent-identity-request" /\ made[c] = 0 /\ ~ On(channel[c], "send-identity")
    /\ s = "sent-identity-request" /\ (On(channel[c], "send-identity") \/ InMaking(c)) =>
          t = "sent-identity"
    /\ On(channel[h], "send-challenge") \/ InHand(h) \/ t = "received-unexpected-challenge" =>
          s = "sent-challenge" /\ ~ On(channel[c], "answer-challenge")
    /\ On(channel[c], "answer-challenge") =>
          t = "sent-challenge-answer" /\ ~ On(channel[h], "challenge-result")
    /\ On(channel[h], "challenge-result") \/ t = "identity-verified" => s = "identity-verified"
    /\ s = "identity-verified" => t = "identity-verified" \/ On(channel[h], "challenge-result")

DirectionInv(c, h) ==
    HolderInv(h) /\ ChallengerInv(c) /\ (Open(c) /\ Open(h) => BothInv(c, h))

SecureAgentInv ==
    TypeOK /\ \A n \in Node : ChannelInv(n) /\ DirectionInv(n, Other(n))

-----------------------------------------------------------------------------
LEMMA Ends ==
    ASSUME NEW n \in Node
    PROVE  /\ Other(n) \in Node /\ Other(n) # n /\ Other(Other(n)) = n
           /\ \A m \in Node : m = n \/ m = Other(n)
<1>1. PICK a \in Node, b \in Node : a # b /\ Node = {a, b}
  BY NodeAssumption
<1>2. \A m \in Node : Other(m) \in Node /\ Other(m) # m
  <2>1. \A m \in Node : \E k \in Node : k # m
    BY <1>1
  <2> QED
    BY <2>1 DEF Other
<1> QED
  BY <1>1, <1>2

(* It is enough to look at the two ends and the two directions.            *)
LEMMA TwoEnds ==
    ASSUME NEW n \in Node, NEW o, o = Other(n), TypeOK',
           ChannelInv(n)', ChannelInv(o)', DirectionInv(n, o)', DirectionInv(o, n)'
    PROVE  SecureAgentInv'
<1>1. n = Other(o) /\ \A m \in Node : m = n \/ m = o
  BY Ends
<1>2. ASSUME NEW m \in Node PROVE (ChannelInv(m) /\ DirectionInv(m, Other(m)))'
  <2>1. CASE m = n
    BY <2>1
  <2>2. CASE m = o
    BY <1>1, <2>2
  <2> QED
    BY <1>1, <2>1, <2>2
<1> QED
  BY <1>2 DEF SecureAgentInv

LEMMA EndFacts ==
    ASSUME SecureAgentInv, NEW n \in Node, NEW o, o = Other(n)
    PROVE  /\ TypeOK /\ o \in Node /\ o # n /\ n = Other(o)
           /\ ChannelInv(n) /\ ChannelInv(o) /\ DirectionInv(n, o) /\ DirectionInv(o, n)
<1>1. o \in Node /\ o # n /\ n = Other(o)
  BY Ends
<1> QED
  BY <1>1 DEF SecureAgentInv

(* What matters of a direction is the state of the challenger and of the   *)
(* holder, and what is on the channels that belongs to it.                 *)
ToHolder     == {"request-identity", "send-challenge", "challenge-result"}
ToChallenger == {"send-identity", "answer-challenge"}

SameEnds(c, h) ==
    /\ situation' = situation /\ asked[c] \subseteq asked'[c] /\ asked[h] \subseteq asked'[h]
    /\ (conn'[c] = "closed" <=> conn[c] = "closed") /\ (conn'[h] = "closed" <=> conn[h] = "closed")
    /\ conn'[c] = "establishing" => conn[c] = "establishing"

SameChallenger(c) ==
    chal'[c] = chal[c] /\ made'[c] = made[c] /\ encrypting'[c] = encrypting[c] /\ challenges'[c] = challenges[c]

SameHolder(h) ==
    hold'[h] = hold[h] /\ decrypting'[h] = decrypting[h] /\ answers'[h] = answers[h]

LEMMA OnNext ==
    ASSUME NEW h
    PROVE  \A type : On(channel[h], type)' <=> On(channel'[h], type)
BY DEF On

LEMMA SameDirection ==
    ASSUME NEW c, NEW h, DirectionInv(c, h), SameEnds(c, h), SameChallenger(c), SameHolder(h),
           \A type \in ToHolder : On(channel'[h], type) <=> On(channel[h], type),
           \A type \in ToChallenger : On(channel'[c], type) <=> On(channel[c], type)
    PROVE  DirectionInv(c, h)'
<1>1. /\ (On(channel[h], "request-identity")' <=> On(channel[h], "request-identity"))
      /\ (On(channel[h], "send-challenge")' <=> On(channel[h], "send-challenge"))
      /\ (On(channel[h], "challenge-result")' <=> On(channel[h], "challenge-result"))
      /\ (On(channel[c], "send-identity")' <=> On(channel[c], "send-identity"))
      /\ (On(channel[c], "answer-challenge")' <=> On(channel[c], "answer-challenge"))
  BY OnNext DEF ToHolder, ToChallenger
<1>2. HolderInv(h)'
  BY <1>1 DEF DirectionInv, HolderInv, SameEnds, SameHolder, InHand
<1>3. ChallengerInv(c)'
  BY <1>1 DEF DirectionInv, ChallengerInv, SameEnds, SameChallenger, InMaking, Open
<1>4. (Open(c) /\ Open(h) => BothInv(c, h))'
  BY <1>1 DEF DirectionInv, BothInv, SameEnds, SameHolder, SameChallenger, InMaking, InHand, Open
<1> QED
  BY <1>2, <1>3, <1>4 DEF DirectionInv

-----------------------------------------------------------------------------
(* The shape of the state.                                                 *)

LEMMA Plains ==
    /\ \A type \in MessageType : Plain(type) \in AnyMessage
    /\ \A type \in MessageType, s, m \in Nat, r \in BOOLEAN : Message(type, s, m, r) \in AnyMessage
BY DEF Plain, Message, AnyMessage

LEMMA Singles ==
    ASSUME NEW msg \in AnyMessage
    PROVE  <<msg>> \in Seq(AnyMessage) /\ \A q \in Seq(AnyMessage) : q \o <<msg>> = Append(q, msg)
<1> HIDE DEF AnyMessage
<1> QED
  OBVIOUS

LEMMA OneRemoved ==
    ASSUME NEW i \in 1 .. Len(<< 1 >>)
    PROVE  << 1 >>[i] = 1 /\ RemoveAt(<< 1 >>, i) = <<>>
<1>1. i = 1 /\ Len(<< 1 >>) = 1
  OBVIOUS
<1>2. SubSeq(<< 1 >>, 1, 0) = <<>> /\ SubSeq(<< 1 >>, 2, 1) = <<>>
  OBVIOUS
<1> QED
  BY <1>1, <1>2 DEF RemoveAt

LEMMA SendingTypes ==
    ASSUME NEW n \in Node, NEW msgs \in Seq(AnyMessage), Sending(n, msgs),
           channel \in [Node -> Seq(AnyMessage)]
    PROVE  channel' \in [Node -> Seq(AnyMessage)]
<1>1. Other(n) \in Node
  BY Ends
<1> HIDE DEF AnyMessage
<1>2. channel[Other(n)] \o msgs \in Seq(AnyMessage)
  BY <1>1
<1> QED
  BY <1>1, <1>2 DEF Sending

LEMMA TakingTypes ==
    ASSUME NEW n \in Node, channel \in [Node -> Seq(AnyMessage)], channel[n] # <<>>
    PROVE  /\ Head(channel[n]) \in AnyMessage
           /\ Taking(n) => channel' \in [Node -> Seq(AnyMessage)]
           /\ \A msg \in AnyMessage :
                  TakingAndSending(n, msg) => channel' \in [Node -> Seq(AnyMessage)]
<1>1. Other(n) \in Node
  BY Ends
<1>2. Tail(channel[n]) \in Seq(AnyMessage) /\ Head(channel[n]) \in AnyMessage
  BY Tail1
<1>3. \A msg \in AnyMessage : /\ Append(channel[Other(n)], msg) \in Seq(AnyMessage)
                              /\ Append(Tail(channel[n]), msg) \in Seq(AnyMessage)
  BY <1>1, <1>2, Append1
<1> HIDE DEF AnyMessage
<1> QED
  BY <1>1, <1>2, <1>3 DEF Taking, TakingAndSending

LEMMA SideTypes ==
    ASSUME NEW S, NEW c \in Side(S)
    PROVE  /\ c.status \in S /\ c.identity \in BOOLEAN /\ c.secret \in Nat /\ c.encryptedSecret \in Nat
           /\ \A s \in S : [c EXCEPT !.status = s] \in Side(S)
           /\ \A b \in BOOLEAN : [c EXCEPT !.identity = b] \in Side(S)
           /\ \A k \in Nat : [c EXCEPT !.secret = k] \in Side(S)
           /\ \A k \in Nat : [c EXCEPT !.encryptedSecret = k] \in Side(S)
BY DEF Side

LEMMA ChallengingTypes ==
    ASSUME TypeOK, NEW n \in Node, NEW c \in Side(ChallengerStatus), Challenging(n, c)
    PROVE  /\ chal' \in [Node -> Side(ChallengerStatus)] /\ made' \in [Node -> Nat]
           /\ encrypting' \in [Node -> SUBSET Nat]
<1>1. made[n] + 1 \in Nat
  BY DEF TypeOK
<1>2. [c EXCEPT !.secret = made[n] + 1] \in Side(ChallengerStatus)
  BY <1>1, SideTypes
<1>3. [c EXCEPT !.status = "sent-identity-request"] \in Side(ChallengerStatus)
  BY SideTypes DEF ChallengerStatus
<1> HIDE DEF Side
<1>4. CASE c.identity
  <2>1. made' \in [Node -> Nat]
    BY <1>1, <1>4 DEF Challenging, TypeOK
  <2>3. encrypting' \in [Node -> SUBSET Nat]
    <3>1. encrypting[n] \cup {made[n] + 1} \in SUBSET Nat
      BY <1>1 DEF TypeOK
    <3>2. encrypting' = [encrypting EXCEPT ![n] = encrypting[n] \cup {made[n] + 1}]
      BY <1>4 DEF Challenging
    <3> QED
      BY <3>1, <3>2 DEF TypeOK
  <2>2. chal' \in [Node -> Side(ChallengerStatus)]
    BY <1>2, <1>4 DEF Challenging, TypeOK
  <2> QED
    BY <2>1, <2>2, <2>3
<1>5. CASE ~ c.identity
  BY <1>3, <1>5 DEF Challenging, TypeOK
<1> QED
  BY <1>4, <1>5

LEMMA AskTypes ==
    ASSUME TypeOK, NEW n \in Node, NEW u \in situation.users, Ask(n, u)
    PROVE  TypeOK'
<1>1. situation \in Situations /\ u \in User /\ channel \in [Node -> Seq(AnyMessage)]
  BY NodeAssumption DEF TypeOK, AnyMessage
<1>2. hold[n] \in Side(HolderStatus) /\ chal[n] \in Side(ChallengerStatus) /\ decrypting[n] \in Seq(Nat)
  BY DEF TypeOK
<1>3. hold' \in [Node -> Side(HolderStatus)]
  <2> DEFINE h == hold[n]
             g == [h EXCEPT !.identity = TRUE]
             s == CASE h.status = "received-unexpected-identity-request" -> "sent-identity"
                    [] h.status = "nil" -> "expecting-challenge"
                    [] OTHER -> h.status
  <2>1. s \in HolderStatus
    BY <1>2, SideTypes DEF HolderStatus
  <2>2. Expects(h) = [g EXCEPT !.status = s]
    BY <1>2 DEF Expects, Side
  <2>3. Expects(h) \in Side(HolderStatus)
    <3>1. g \in Side(HolderStatus)
      BY <1>2, SideTypes
    <3> HIDE DEF h, g, s
    <3> QED
      BY <2>1, <2>2, <3>1, SideTypes
  <2> QED
    BY <2>3 DEF Ask, SecureForReceiving, TypeOK
<1>4. decrypting' \in [Node -> Seq(Nat)]
  <2>1. TakesUp(n) \in Seq(Nat)
    BY <1>2, SideTypes DEF TakesUp
  <2> QED
    BY <2>1 DEF Ask, SecureForReceiving, TypeOK
<1> DEFINE k == chal[n].identity \/ n \in situation.known
           c == [chal[n] EXCEPT !.identity = k]
<1>5. c = [chal[n] EXCEPT !.identity = @ \/ n \in situation.known] /\ c \in Side(ChallengerStatus)
  <2>1. k \in BOOLEAN
    BY <1>2, SideTypes
  <2> QED
    BY <1>2, <2>1, SideTypes
<1>6. [c EXCEPT !.status = "waiting-to-challenge"] \in Side(ChallengerStatus)
  BY <1>5, SideTypes DEF ChallengerStatus
<1> HIDE DEF c
<1>7. /\ chal' \in [Node -> Side(ChallengerStatus)] /\ made' \in [Node -> Nat]
      /\ encrypting' \in [Node -> SUBSET Nat]
  <2>1. CASE conn[n] = "ready" /\ Starts(c)
    <3>1. Challenging(n, c)
      BY <1>5, <2>1 DEF Ask, SecureForSending
    <3> QED
      BY <1>5, <3>1, ChallengingTypes
  <2>2. CASE ~ (conn[n] = "ready" /\ Starts(c))
    <3>1. /\ chal' = [chal EXCEPT ![n] =
                  IF conn[n] = "establishing" THEN [c EXCEPT !.status = "waiting-to-challenge"] ELSE c]
          /\ UNCHANGED <<made, encrypting>>
      BY <1>5, <2>2 DEF Ask, SecureForSending
    <3> QED
      BY <1>5, <1>6, <3>1 DEF TypeOK
  <2> QED
    BY <2>1, <2>2
<1>8. channel' \in [Node -> Seq(AnyMessage)]
  <2>1. Plain("send-identity") \in AnyMessage /\ Plain("request-identity") \in AnyMessage
    BY Plains DEF MessageType
  <2> HIDE DEF AnyMessage
  <2>2. /\ Sends(n) \in Seq(AnyMessage)
        /\ Sends(n) \o (IF c.identity THEN <<>> ELSE <<Plain("request-identity")>>) \in Seq(AnyMessage)
    BY <2>1 DEF Sends
  <2>3. \/ Sending(n, Sends(n))
        \/ Sending(n, Sends(n) \o IF c.identity THEN <<>> ELSE <<Plain("request-identity")>>)
    BY <1>5 DEF Ask, SecureForSending
  <2> QED
    BY <1>1, <2>2, <2>3, SendingTypes
<1>9. asked' \in [Node -> SUBSET User]
  BY <1>1 DEF Ask, TypeOK
<1> QED
  BY <1>3, <1>4, <1>7, <1>8, <1>9 DEF Ask, TypeOK, AnyMessage

LEMMA CryptoTypes ==
    ASSUME TypeOK, NEW n \in Node, decrypting[n] \in {<<>>, << 1 >>}, Crypto(n)
    PROVE  TypeOK'
<1>1. channel \in [Node -> Seq(AnyMessage)]
  BY DEF TypeOK, AnyMessage
<1>2. hold[n] \in Side(HolderStatus) /\ chal[n] \in Side(ChallengerStatus)
  BY DEF TypeOK
<1>3. ASSUME NEW s \in encrypting[n], EncryptSecret(n, s) PROVE TypeOK'
  <2>1. s \in Nat /\ [chal[n] EXCEPT !.encryptedSecret = s] \in Side(ChallengerStatus)
    BY <1>2, SideTypes DEF TypeOK
  <2> HIDE DEF Side
  <2>2. chal' \in [Node -> Side(ChallengerStatus)]
    BY <1>3, <2>1 DEF EncryptSecret, TypeOK
  <2>3. encrypting' \in [Node -> SUBSET Nat] /\ challenges' \in [Node -> Nat]
    BY <1>3 DEF EncryptSecret, TypeOK
  <2> QED
    BY <1>3, <2>2, <2>3 DEF EncryptSecret, TypeOK
<1>4. CASE SendKnownIdentityChallenge(n)
  <2>1. [chal[n] EXCEPT !.status = "sent-challenge"] \in Side(ChallengerStatus)
    BY <1>2, SideTypes DEF ChallengerStatus
  <2>2. channel' \in [Node -> Seq(AnyMessage)]
    <3>1. Message("send-challenge", chal[n].encryptedSecret, 0, TRUE) \in AnyMessage
      BY <1>2, SideTypes, Plains DEF MessageType
    <3> QED
      BY <1>1, <1>4, <3>1, Singles, SendingTypes DEF SendKnownIdentityChallenge
  <2>3. challenges' \in [Node -> Nat]
    BY <1>4 DEF SendKnownIdentityChallenge, TypeOK
  <2>4. chal' \in [Node -> Side(ChallengerStatus)]
    BY <1>4, <2>1 DEF SendKnownIdentityChallenge, TypeOK
  <2> QED
    BY <1>4, <2>2, <2>3, <2>4 DEF SendKnownIdentityChallenge, TypeOK, AnyMessage
<1>5. ASSUME NEW i \in 1 .. Len(decrypting[n]), DecryptSecret(n, i) PROVE TypeOK'
  <2>1. decrypting[n] = << 1 >>
    <3>1. 1 .. Len(<<>>) = {}
      OBVIOUS
    <3> QED
      BY <1>5, <3>1
  <2>2. decrypting[n][i] \in Nat /\ RemoveAt(decrypting[n], i) \in Seq(Nat)
    <3>1. \A j \in 1 .. Len(<< 1 >>) : << 1 >>[j] = 1 /\ RemoveAt(<< 1 >>, j) = <<>>
      BY OneRemoved
    <3>2. decrypting[n][i] = 1 /\ RemoveAt(decrypting[n], i) = <<>>
      BY <1>5, <2>1, <3>1
    <3> QED
      BY <3>2
  <2>3. [hold[n] EXCEPT !.secret = decrypting[n][i]] \in Side(HolderStatus)
    BY <1>2, <2>2, SideTypes
  <2>4. hold' \in [Node -> Side(HolderStatus)]
    BY <1>5, <2>3 DEF DecryptSecret, TypeOK
  <2>5. decrypting' \in [Node -> Seq(Nat)] /\ answers' \in [Node -> Nat]
    BY <1>5, <2>2 DEF DecryptSecret, TypeOK
  <2> QED
    BY <1>5, <2>4, <2>5 DEF DecryptSecret, TypeOK
<1>6. CASE AnswerReceivedChallenge(n)
  <2>1. [hold[n] EXCEPT !.status = StatusAfterAnswer] \in Side(HolderStatus)
    BY <1>2, SideTypes DEF HolderStatus, StatusAfterAnswer
  <2>2. channel' \in [Node -> Seq(AnyMessage)]
    <3>1. Message("answer-challenge", hold[n].secret, 0, TRUE) \in AnyMessage
      BY <1>2, SideTypes, Plains DEF MessageType
    <3> QED
      BY <1>1, <1>6, <3>1, Singles, SendingTypes DEF AnswerReceivedChallenge
  <2>3. answers' \in [Node -> Nat]
    BY <1>6 DEF AnswerReceivedChallenge, TypeOK
  <2>4. hold' \in [Node -> Side(HolderStatus)]
    BY <1>6, <2>1 DEF AnswerReceivedChallenge, TypeOK
  <2> QED
    BY <1>6, <2>2, <2>3, <2>4 DEF AnswerReceivedChallenge, TypeOK, AnyMessage
<1> QED
  BY <1>3, <1>4, <1>5, <1>6 DEF Crypto

LEMMA ReceiveTypes ==
    ASSUME TypeOK, NEW n \in Node, ReceiveMessage(n)
    PROVE  TypeOK'
<1>1. channel \in [Node -> Seq(AnyMessage)]
  BY DEF TypeOK, AnyMessage
<1>2. hold[n] \in Side(HolderStatus) /\ chal[n] \in Side(ChallengerStatus)
  BY DEF TypeOK
<1>3. /\ conn' = [conn EXCEPT ![n] = "ready"] /\ channel[n] # <<>>
      /\ UNCHANGED <<challenges, answers, asked, sent, situation>>
  BY DEF ReceiveMessage, Receive, ReceiveRequestIdentity, ReceiveSendChallenge, ReceiveChallengeResult,
         ReceiveSendIdentity, ReceiveAnswerChallenge, ReceiveSecureMessage
<1>4. conn' \in [Node -> {"establishing", "ready", "closed"}]
  BY <1>3 DEF TypeOK
<1>5. /\ Head(channel[n]) \in AnyMessage
      /\ Taking(n) => channel' \in [Node -> Seq(AnyMessage)]
      /\ \A msg \in AnyMessage : TakingAndSending(n, msg) => channel' \in [Node -> Seq(AnyMessage)]
  BY <1>1, <1>3, TakingTypes
<1>6. Head(channel[n]).secret \in Nat /\ Head(channel[n]).result \in BOOLEAN
  BY <1>5 DEF AnyMessage
<1>7. \A type \in MessageType, r \in BOOLEAN : Message(type, 0, 0, r) \in AnyMessage /\ Plain(type) \in AnyMessage
  BY Plains
<1>8. ASSUME NEW st \in HolderStatus, hold' = [hold EXCEPT ![n].status = st]
      PROVE  hold' \in [Node -> Side(HolderStatus)]
  <2>1. [hold[n] EXCEPT !.status = st] \in Side(HolderStatus)
    BY <1>2, SideTypes
  <2> QED
    BY <1>8, <2>1 DEF TypeOK
<1>9. ASSUME NEW st \in ChallengerStatus, chal' = [chal EXCEPT ![n].status = st]
      PROVE  chal' \in [Node -> Side(ChallengerStatus)]
  <2>1. [chal[n] EXCEPT !.status = st] \in Side(ChallengerStatus)
    BY <1>2, SideTypes
  <2> QED
    BY <1>9, <2>1 DEF TypeOK
<1>10. /\ {"sent-identity", "received-unexpected-identity-request", "received-unexpected-challenge"} \subseteq HolderStatus
       /\ \A r \in BOOLEAN : Verdict(r) \in HolderStatus /\ Verdict(r) \in ChallengerStatus
       /\ {"send-identity", "challenge-result"} \subseteq MessageType
  BY DEF HolderStatus, ChallengerStatus, Verdict, MessageType
<1> HIDE DEF AnyMessage
<1>11. CASE ReceiveRequestIdentity(n)
  <2>1. channel' \in [Node -> Seq(AnyMessage)]
    BY <1>5, <1>7, <1>10, <1>11 DEF ReceiveRequestIdentity
  <2>2. hold' \in [Node -> Side(HolderStatus)]
    <3>1. \/ hold' = hold
          \/ hold' = [hold EXCEPT ![n].status = "sent-identity"]
          \/ hold' = [hold EXCEPT ![n].status = "received-unexpected-identity-request"]
      BY <1>11 DEF ReceiveRequestIdentity
    <3> QED
      BY <1>8, <1>10, <3>1 DEF TypeOK
  <2> QED
    BY <1>3, <1>4, <1>11, <2>1, <2>2 DEF ReceiveRequestIdentity, TypeOK, AnyMessage
<1>12. CASE ReceiveSendChallenge(n)
  <2> DEFINE h == [hold[n] EXCEPT !.encryptedSecret = Head(channel[n]).secret]
             g == [h EXCEPT !.status = "received-unexpected-challenge"]
  <2>1. h \in Side(HolderStatus) /\ h.encryptedSecret \in Nat
    BY <1>2, <1>6, SideTypes
  <2>2. g \in Side(HolderStatus)
    <3> HIDE DEF h
    <3> QED
      BY <1>10, <2>1, SideTypes
  <2>3. \/ hold' = [hold EXCEPT ![n] = h] /\ decrypting' = [decrypting EXCEPT ![n] = Append(@, h.encryptedSecret)]
        \/ hold' = [hold EXCEPT ![n] = g] /\ UNCHANGED decrypting
        \/ UNCHANGED <<hold, decrypting>>
    BY <1>12 DEF ReceiveSendChallenge
  <2> HIDE DEF h, g
  <2>4. hold' \in [Node -> Side(HolderStatus)]
    BY <2>1, <2>2, <2>3 DEF TypeOK
  <2>5. decrypting' \in [Node -> Seq(Nat)]
    <3>1. Append(decrypting[n], h.encryptedSecret) \in Seq(Nat)
      BY <2>1 DEF TypeOK
    <3> QED
      BY <2>3, <3>1 DEF TypeOK
  <2>6. channel' \in [Node -> Seq(AnyMessage)]
    BY <1>5, <1>12 DEF ReceiveSendChallenge
  <2> QED
    BY <1>3, <1>4, <1>12, <2>4, <2>5, <2>6 DEF ReceiveSendChallenge, TypeOK, AnyMessage
<1>13. CASE ReceiveChallengeResult(n)
  <2>1. hold' \in [Node -> Side(HolderStatus)]
    BY <1>6, <1>8, <1>10, <1>13 DEF ReceiveChallengeResult, TypeOK
  <2>2. channel' \in [Node -> Seq(AnyMessage)]
    BY <1>5, <1>13 DEF ReceiveChallengeResult
  <2> QED
    BY <1>3, <1>4, <1>13, <2>1, <2>2 DEF ReceiveChallengeResult, TypeOK, AnyMessage
<1>14. CASE ReceiveSendIdentity(n)
  <2> DEFINE c == [chal[n] EXCEPT !.identity = TRUE]
  <2>1. c \in Side(ChallengerStatus)
    BY <1>2, SideTypes
  <2>2. Challenging(n, c) \/ UNCHANGED <<chal, made, encrypting>>
    BY <1>14 DEF ReceiveSendIdentity
  <2> HIDE DEF c
  <2>3. /\ chal' \in [Node -> Side(ChallengerStatus)] /\ made' \in [Node -> Nat]
        /\ encrypting' \in [Node -> SUBSET Nat]
    BY <2>1, <2>2, ChallengingTypes DEF TypeOK
  <2>4. channel' \in [Node -> Seq(AnyMessage)]
    BY <1>5, <1>14 DEF ReceiveSendIdentity
  <2> QED
    BY <1>3, <1>4, <1>14, <2>3, <2>4 DEF ReceiveSendIdentity, TypeOK, AnyMessage
<1>15. CASE ReceiveAnswerChallenge(n)
  <2> DEFINE accepted == Head(channel[n]).secret = chal[n].secret
  <2>1. \/ /\ chal' = [chal EXCEPT ![n].status = Verdict(accepted)]
           /\ TakingAndSending(n, Message("challenge-result", 0, 0, accepted))
        \/ UNCHANGED chal /\ Taking(n)
    BY <1>15 DEF ReceiveAnswerChallenge
  <2>2. accepted \in BOOLEAN
    OBVIOUS
  <2> HIDE DEF accepted
  <2>3. chal' \in [Node -> Side(ChallengerStatus)]
    BY <1>9, <1>10, <2>1, <2>2 DEF TypeOK
  <2>4. channel' \in [Node -> Seq(AnyMessage)]
    BY <1>5, <1>7, <1>10, <2>1, <2>2
  <2> QED
    BY <1>3, <1>4, <1>15, <2>3, <2>4 DEF ReceiveAnswerChallenge, TypeOK, AnyMessage
<1>16. CASE ReceiveSecureMessage(n)
  <2>1. channel' \in [Node -> Seq(AnyMessage)]
    BY <1>5, <1>16 DEF ReceiveSecureMessage
  <2> QED
    BY <1>3, <1>4, <1>16, <2>1 DEF ReceiveSecureMessage, TypeOK, AnyMessage
<1> QED
  BY <1>11, <1>12, <1>13, <1>14, <1>15, <1>16 DEF ReceiveMessage

LEMMA TypeInit == Init => TypeOK
<1> SUFFICES ASSUME Init PROVE TypeOK
  OBVIOUS
<1>1. Unsecured \in Side(HolderStatus) /\ Unsecured \in Side(ChallengerStatus)
  BY DEF Unsecured, Side, HolderStatus, ChallengerStatus
<1>2. 0 \in 0 .. MaxSends
  BY NodeAssumption
<1> HIDE DEF Side
<1> QED
  BY <1>1, <1>2 DEF Init, TypeOK

LEMMA TypeStep ==
    ASSUME SecureAgentInv, [Next]_vars
    PROVE  TypeOK'
<1>1. TypeOK
  BY DEF SecureAgentInv
<1>2. CASE UNCHANGED vars
  BY <1>1, <1>2 DEF vars, TypeOK
<1>3. CASE Next
  <2>1. PICK n \in Node : \/ \E u \in situation.users : Ask(n, u)
                          \/ Crypto(n)
                          \/ ReceiveMessage(n)
                          \/ SendSecurely(n)
                          \/ ConnectionStatusChange(n)
    BY <1>3 DEF Next
  <2>2. decrypting[n] \in {<<>>, << 1 >>}
    BY EndFacts DEF DirectionInv, HolderInv
  <2>3. CASE SendSecurely(n)
    <3>1. sent' \in [Node -> 0 .. MaxSends]
      BY <1>1, <2>3, NodeAssumption DEF SendSecurely, TypeOK
    <3>2. channel' \in [Node -> Seq(AnyMessage)]
      <4>1. Message("secure-message", chal[n].secret, hold[n].secret, TRUE) \in AnyMessage
        BY <1>1, SideTypes, Plains DEF MessageType, TypeOK
      <4>2. channel \in [Node -> Seq(AnyMessage)]
        BY <1>1 DEF TypeOK, AnyMessage
      <4> QED
        BY <2>3, <4>1, <4>2, Singles, SendingTypes DEF SendSecurely
    <3> QED
      BY <1>1, <2>3, <3>1, <3>2 DEF SendSecurely, TypeOK, AnyMessage
  <2>4. CASE BecomeReady(n)
    <3>1. conn' \in [Node -> {"establishing", "ready", "closed"}]
      BY <1>1, <2>4 DEF BecomeReady, TypeOK
    <3> QED
      BY <1>1, <2>4, <3>1 DEF BecomeReady, TypeOK
  <2>5. CASE Close(n)
    <3>1. Unsecured \in Side(HolderStatus) /\ Unsecured \in Side(ChallengerStatus)
      BY DEF Unsecured, Side, HolderStatus, ChallengerStatus
    <3>2. /\ conn' \in [Node -> {"establishing", "ready", "closed"}]
          /\ chal' \in [Node -> Side(ChallengerStatus)]
          /\ hold' \in [Node -> Side(HolderStatus)]
      BY <1>1, <2>5, <3>1 DEF Close, TypeOK
    <3>3. encrypting' \in [Node -> SUBSET Nat] /\ challenges' \in [Node -> Nat] /\ answers' \in [Node -> Nat]
      BY <1>1, <2>5 DEF Close, TypeOK
    <3>4. decrypting' \in [Node -> Seq(Nat)]
      BY <1>1, <2>5 DEF Close, TypeOK
    <3>5. channel' \in [Node -> Seq(AnyMessage)]
      <4>1. channel \in [Node -> Seq(AnyMessage)]
        BY <1>1 DEF TypeOK, AnyMessage
      <4> HIDE DEF AnyMessage
      <4> QED
        BY <2>5, <4>1 DEF Close
    <3> QED
      BY <1>1, <2>5, <3>2, <3>3, <3>4, <3>5 DEF Close, TypeOK, AnyMessage
  <2> QED
    BY <1>1, <2>1, <2>2, <2>3, <2>4, <2>5, AskTypes, CryptoTypes, ReceiveTypes DEF ConnectionStatusChange
<1> QED
  BY <1>2, <1>3

-----------------------------------------------------------------------------
(* What a step does to the end that takes it, n, and to the other one, o.  *)

Bystander(n, o) ==
    /\ SameChallenger(o) /\ SameHolder(o) /\ conn'[o] = conn[o] /\ asked'[o] = asked[o]
    /\ situation' = situation

LEMMA ChannelOfOpen ==
    ASSUME NEW n, conn'[n] # "closed", situation' = situation, asked'[n] \subseteq situation.users,
           SoundQueue(channel'[n]),
           Ready(channel'[n], chal'[n].status = "identity-verified", hold'[n].status = "identity-verified")
    PROVE  ChannelInv(n)'
BY DEF ChannelInv, SoundQueue, Once, Ready, Verified, Open

LEMMA ChannelOfBystander ==
    ASSUME NEW n, NEW o, Bystander(n, o), ChannelInv(o),
           \/ channel'[o] = channel[o]
           \/ /\ Open(o) /\ SoundQueue(channel'[o])
              /\ Ready(channel'[o], Verified(chal[o]), Verified(hold[o]))
    PROVE  ChannelInv(o)'
<1>1. SoundQueue(channel[o])' /\ Ready(channel[o], Verified(chal[o]), Verified(hold[o]))'
  <2>1. SoundQueue(channel'[o]) /\ Ready(channel'[o], Verified(chal[o]), Verified(hold[o]))
    BY DEF ChannelInv
  <2>2. SoundQueue(channel[o])'
    BY <2>1 DEF SoundQueue, Once
  <2>3. Ready(channel[o], Verified(chal[o]), Verified(hold[o]))'
    BY <2>1 DEF Ready, Verified, Bystander, SameChallenger, SameHolder
  <2> QED
    BY <2>2, <2>3
<1> QED
  BY <1>1 DEF ChannelInv, Bystander, SameChallenger, SameHolder, Open

LEMMA SendsOne ==
    ASSUME TypeOK, NEW n \in Node, NEW o, o = Other(n), NEW msg \in AnyMessage,
           Sending(n, <<msg>>)
    PROVE  /\ channel'[n] = channel[n] /\ (~ Open(o) => channel'[o] = channel[o])
           /\ \A type : On(channel'[o], type) <=> On(channel[o], type) \/ (Open(o) /\ msg.type = type)
           /\ /\ SoundQueue(channel[o]) /\ Sound(msg)
              /\ msg.type = "secure-message" \/ ~ On(channel[o], msg.type)
              => SoundQueue(channel'[o])
           /\ \A v, w \in BOOLEAN :
                 /\ Ready(channel[o], v, w)
                 /\ msg.type = "secure-message" => v /\ (w \/ On(channel[o], "challenge-result"))
                 => Ready(channel'[o], v, w)
<1>1. o \in Node /\ o # n
  BY Ends
<1>2. channel[o] \in Seq(AnyMessage) /\ channel \in [Node -> Seq(AnyMessage)]
  BY <1>1 DEF TypeOK, AnyMessage
<1>3. channel[o] \o <<msg>> = Append(channel[o], msg)
  BY <1>2, Singles
<1>4. channel'[n] = channel[n] /\ channel'[o] = IF Open(o) THEN Append(channel[o], msg) ELSE channel[o]
  <2> HIDE DEF AnyMessage
  <2> QED
    BY <1>1, <1>2, <1>3 DEF Sending, Open
<1> HIDE DEF AnyMessage
<1> QED
  BY <1>2, <1>4, Sends1

LEMMA TakesOne ==
    ASSUME TypeOK, NEW n \in Node, NEW o, o = Other(n), ChannelInv(n), channel[n] # <<>>, Taking(n)
    PROVE  /\ channel'[o] = channel[o] /\ SoundQueue(channel'[n])
           /\ \A type \in MessageType \ {"secure-message"} :
                 On(channel'[n], type) <=> On(channel[n], type) /\ Head(channel[n]).type # type
           /\ \A w \in BOOLEAN :
                 /\ Verified(hold[n]) => w
                 /\ Head(channel[n]).type = "challenge-result" => w
                 => Ready(channel'[n], Verified(chal[n]), w)
<1>1. o \in Node /\ o # n
  BY Ends
<1>2. channel[n] \in Seq(AnyMessage) /\ channel \in [Node -> Seq(AnyMessage)]
  BY <1>1 DEF TypeOK, AnyMessage
<1>3. channel'[n] = Tail(channel[n]) /\ channel'[o] = channel[o]
  <2> HIDE DEF AnyMessage
  <2> QED
    BY <1>1, <1>2 DEF Taking
<1>4. SoundQueue(channel[n]) /\ Ready(channel[n], Verified(chal[n]), Verified(hold[n]))
  BY DEF ChannelInv
<1>5. Verified(chal[n]) \in BOOLEAN /\ Verified(hold[n]) \in BOOLEAN
  BY DEF Verified
<1> HIDE DEF AnyMessage
<1> QED
  BY <1>2, <1>3, <1>4, <1>5, Takes1

LEMMA FirstMessage ==
    ASSUME TypeOK, NEW n \in Node, ChannelInv(n), channel[n] # <<>>
    PROVE  Sound(Head(channel[n])) /\ On(channel[n], Head(channel[n]).type)
<1>1. channel[n] \in Seq(AnyMessage)
  BY DEF TypeOK, AnyMessage
<1> HIDE DEF AnyMessage
<1> QED
  BY <1>1, Takes1 DEF ChannelInv

(* It takes one and sends another.                                         *)
LEMMA TakesAndSends ==
    ASSUME TypeOK, NEW n \in Node, NEW o, o = Other(n), NEW msg \in AnyMessage,
           ChannelInv(n), channel[n] # <<>>, TakingAndSending(n, msg)
    PROVE  /\ SoundQueue(channel'[n]) /\ (~ Open(o) => channel'[o] = channel[o])
           /\ \A type \in MessageType \ {"secure-message"} :
                 On(channel'[n], type) <=> On(channel[n], type) /\ Head(channel[n]).type # type
           /\ \A w \in BOOLEAN :
                 /\ Verified(hold[n]) => w
                 /\ Head(channel[n]).type = "challenge-result" => w
                 => Ready(channel'[n], Verified(chal[n]), w)
           /\ \A type : On(channel'[o], type) <=> On(channel[o], type) \/ (Open(o) /\ msg.type = type)
           /\ /\ SoundQueue(channel[o]) /\ Sound(msg)
              /\ msg.type = "secure-message" \/ ~ On(channel[o], msg.type)
              => SoundQueue(channel'[o])
           /\ \A v, w \in BOOLEAN :
                 /\ Ready(channel[o], v, w)
                 /\ msg.type = "secure-message" => v /\ (w \/ On(channel[o], "challenge-result"))
                 => Ready(channel'[o], v, w)
<1>1. o \in Node /\ o # n
  BY Ends
<1>2. channel[n] \in Seq(AnyMessage) /\ channel[o] \in Seq(AnyMessage) /\ channel \in [Node -> Seq(AnyMessage)]
  BY <1>1 DEF TypeOK, AnyMessage
<1>3. channel'[n] = Tail(channel[n]) /\ channel'[o] = IF Open(o) THEN Append(channel[o], msg) ELSE channel[o]
  <2> HIDE DEF AnyMessage
  <2> QED
    BY <1>1, <1>2 DEF TakingAndSending, Open
<1>4. SoundQueue(channel[n]) /\ Ready(channel[n], Verified(chal[n]), Verified(hold[n]))
  BY DEF ChannelInv
<1>5. Verified(chal[n]) \in BOOLEAN /\ Verified(hold[n]) \in BOOLEAN
  BY DEF Verified
<1> HIDE DEF AnyMessage
<1>6. /\ SoundQueue(channel'[n])
      /\ \A type \in MessageType \ {"secure-message"} :
            On(channel'[n], type) <=> On(channel[n], type) /\ Head(channel[n]).type # type
      /\ \A w \in BOOLEAN :
            /\ Verified(hold[n]) => w
            /\ Head(channel[n]).type = "challenge-result" => w
            => Ready(channel'[n], Verified(chal[n]), w)
  BY <1>2, <1>3, <1>4, <1>5, Takes1
<1>7. CASE Open(o)
  BY <1>2, <1>3, <1>6, <1>7, Sends1
<1>8. CASE ~ Open(o)
  BY <1>2, <1>3, <1>6, <1>8
<1> QED
  BY <1>7, <1>8

LEMMA SameHolderInv ==
    ASSUME NEW h, HolderInv(h), SameHolder(h), situation' = situation, asked[h] \subseteq asked'[h],
           \A type \in ToHolder : On(channel'[h], type) <=> On(channel[h], type)
    PROVE  HolderInv(h)'
<1>1. /\ (On(channel[h], "request-identity")' <=> On(channel[h], "request-identity"))
      /\ (On(channel[h], "send-challenge")' <=> On(channel[h], "send-challenge"))
      /\ (On(channel[h], "challenge-result")' <=> On(channel[h], "challenge-result"))
  BY OnNext DEF ToHolder
<1> QED
  BY <1>1 DEF HolderInv, SameHolder, InHand

LEMMA SameChallengerInv ==
    ASSUME NEW c, ChallengerInv(c), SameChallenger(c), situation' = situation, asked[c] \subseteq asked'[c],
           conn'[c] = "closed" <=> conn[c] = "closed",
           conn'[c] = "establishing" => conn[c] = "establishing",
           \A type \in ToChallenger : On(channel'[c], type) <=> On(channel[c], type)
    PROVE  ChallengerInv(c)'
<1>1. /\ (On(channel[c], "send-identity")' <=> On(channel[c], "send-identity"))
      /\ (On(channel[c], "answer-challenge")' <=> On(channel[c], "answer-challenge"))
  BY OnNext DEF ToChallenger
<1> QED
  BY <1>1 DEF ChallengerInv, SameChallenger, InMaking, Open

LEMMA EncryptKeeps ==
    ASSUME SecureAgentInv, TypeOK', NEW n \in Node, NEW s \in encrypting[n], EncryptSecret(n, s)
    PROVE  SecureAgentInv'
<1>1. PICK o : o = Other(n)
  OBVIOUS
<1>2. /\ TypeOK /\ o \in Node /\ o # n /\ n = Other(o)
      /\ ChannelInv(n) /\ ChannelInv(o) /\ DirectionInv(n, o) /\ DirectionInv(o, n)
  BY <1>1, EndFacts
<1>3. /\ HolderInv(o) /\ HolderInv(n) /\ ChallengerInv(n) /\ Open(n) /\ s = 1
      /\ Open(o) => BothInv(n, o)
  BY <1>2 DEF DirectionInv, ChannelInv, ChallengerInv
<1>4. /\ Bystander(n, o) /\ SameHolder(n) /\ channel' = channel
      /\ conn' = conn /\ asked' = asked /\ made' = made /\ situation' = situation
  BY <1>2 DEF EncryptSecret, Bystander, SameChallenger, SameHolder, TypeOK
<1>5. /\ encrypting'[n] = {} /\ challenges[n] = 0 /\ challenges'[n] = 1
      /\ chal'[n] = [chal[n] EXCEPT !.encryptedSecret = 1]
  BY <1>2, <1>3 DEF EncryptSecret, ChallengerInv, TypeOK
<1>6. /\ chal'[n].status = chal[n].status /\ chal'[n].identity = chal[n].identity
      /\ chal'[n].secret = chal[n].secret /\ chal'[n].encryptedSecret = 1
  BY <1>2, <1>5 DEF TypeOK, Side
<1>7. ChannelInv(n)'
  BY <1>2, <1>3, <1>4, <1>6, ChannelOfOpen DEF ChannelInv, Verified, SameHolder, Open
<1>8. ChannelInv(o)'
  BY <1>2, <1>4, ChannelOfBystander
<1>9. DirectionInv(o, n)'
  BY <1>2, <1>4, SameDirection DEF SameEnds, Bystander
<1>10. DirectionInv(n, o)'
  <2>1. HolderInv(o)'
    BY <1>3, <1>4, SameHolderInv DEF Bystander
  <2>2. \A type : On(channel[n], type)' <=> On(channel[n], type)
    BY <1>4, OnNext
  <2>3. \A type : On(channel[o], type)' <=> On(channel[o], type)
    BY <1>4, OnNext
  <2>4. InMaking(n) /\ InMaking(n)'
    BY <1>5 DEF InMaking
  <2>5. ChallengerInv(n)'
    BY <1>3, <1>4, <1>5, <1>6, <2>2, <2>4 DEF ChallengerInv, Open
  <2>6. (Open(n) /\ Open(o) => BothInv(n, o))'
    BY <1>3, <1>4, <1>6, <2>2, <2>3, <2>4 DEF BothInv, Open, Bystander, SameHolder, InHand
  <2> QED
    BY <2>1, <2>5, <2>6 DEF DirectionInv
<1> QED
  BY <1>1, <1>2, <1>7, <1>8, <1>9, <1>10, TwoEnds

LEMMA SendChallengeKeeps ==
    ASSUME SecureAgentInv, TypeOK', NEW n \in Node, SendKnownIdentityChallenge(n)
    PROVE  SecureAgentInv'
<1>1. PICK o : o = Other(n)
  OBVIOUS
<1>2. /\ TypeOK /\ o \in Node /\ o # n /\ n = Other(o)
      /\ ChannelInv(n) /\ ChannelInv(o) /\ DirectionInv(n, o) /\ DirectionInv(o, n)
  BY <1>1, EndFacts
<1>3. /\ HolderInv(o) /\ HolderInv(n) /\ ChallengerInv(n) /\ Open(n) /\ InMaking(n)
      /\ Open(o) => BothInv(n, o)
      /\ challenges[n] = 1 /\ encrypting[n] = {} /\ chal[n].encryptedSecret = 1
  BY <1>2 DEF DirectionInv, ChannelInv, ChallengerInv, SendKnownIdentityChallenge, InMaking
<1>4. /\ Bystander(n, o) /\ SameHolder(n)
      /\ conn' = conn /\ asked' = asked /\ made' = made /\ situation' = situation
  BY <1>2 DEF SendKnownIdentityChallenge, Bystander, SameChallenger, SameHolder, TypeOK
<1>5. /\ encrypting'[n] = {} /\ challenges'[n] = 0
      /\ chal'[n] = [chal[n] EXCEPT !.status = "sent-challenge"]
  BY <1>2, <1>3 DEF SendKnownIdentityChallenge, TypeOK
<1>6. /\ chal'[n].status = "sent-challenge" /\ chal'[n].identity = chal[n].identity
      /\ chal'[n].secret = chal[n].secret /\ chal[n].secret = 1
      /\ chal[n].status \in {"nil", "sent-identity-request"}
  BY <1>2, <1>3, <1>5 DEF TypeOK, Side, ChallengerInv
<1>7. PICK msg \in AnyMessage : /\ msg.type = "send-challenge" /\ msg.secret = 1
                                /\ Sending(n, <<msg>>)
  <2>1. Message("send-challenge", 1, 0, TRUE) \in AnyMessage
    BY Plains DEF MessageType
  <2> QED
    BY <1>3, <2>1 DEF SendKnownIdentityChallenge, Message
<1>8. Open(o) => /\ ~ On(channel[o], "send-challenge") /\ ~ InHand(o) /\ ~ On(channel[o], "challenge-result")
                 /\ ~ On(channel[o], "request-identity") /\ ~ On(channel[n], "answer-challenge")
                 /\ hold[o].status \in {"nil", "expecting-challenge", "sent-identity"}
                 /\ hold[o].status = "nil" => situation.known # {}
  BY <1>3, <1>6 DEF BothInv, ChallengerInv
<1>9. /\ channel'[n] = channel[n] /\ (~ Open(o) => channel'[o] = channel[o])
      /\ \A type : On(channel'[o], type) <=> On(channel[o], type) \/ (Open(o) /\ type = "send-challenge")
      /\ Open(o) => /\ SoundQueue(channel'[o])
                    /\ Ready(channel'[o], Verified(chal[o]), Verified(hold[o]))
  <2>1. Sound(msg)
    BY <1>7 DEF Sound
  <2>2. SoundQueue(channel[o]) /\ Ready(channel[o], Verified(chal[o]), Verified(hold[o]))
    BY <1>2 DEF ChannelInv
  <2>3. Verified(chal[o]) \in BOOLEAN /\ Verified(hold[o]) \in BOOLEAN
    BY DEF Verified
  <2> QED
    BY <1>1, <1>2, <1>7, <1>8, <2>1, <2>2, <2>3, SendsOne
<1>10. ChannelInv(n)'
  <2>1. ~ Verified(chal[n])
    BY <1>6 DEF Verified
  <2>2. Verified(chal[n]) \in BOOLEAN /\ Verified(hold[n]) \in BOOLEAN
        /\ (chal'[n].status = "identity-verified") \in BOOLEAN
        /\ (hold'[n].status = "identity-verified") \in BOOLEAN
    BY DEF Verified
  <2>3. Ready(channel'[n], chal'[n].status = "identity-verified", hold'[n].status = "identity-verified")
    BY <1>2, <1>4, <1>9, <2>1, <2>2, ReadyStays DEF ChannelInv, Verified, SameHolder
  <2> QED
    BY <1>2, <1>3, <1>4, <1>9, <2>3, ChannelOfOpen DEF ChannelInv, Open
<1>11. ChannelInv(o)'
  BY <1>2, <1>4, <1>9, ChannelOfBystander
<1>12. DirectionInv(o, n)'
  <2>1. \A type \in ToChallenger : On(channel'[o], type) <=> On(channel[o], type)
    BY <1>9 DEF ToChallenger
  <2> QED
    BY <1>2, <1>4, <1>9, <2>1, SameDirection DEF SameEnds, Bystander
<1>13. DirectionInv(n, o)'
  <2>1. \A type : On(channel[n], type)' <=> On(channel[n], type)
    BY <1>9, OnNext
  <2>2. \A type : On(channel[o], type)' <=> On(channel[o], type) \/ (Open(o) /\ type = "send-challenge")
    BY <1>9, OnNext
  <2>3. ~ InMaking(n)'
    BY <1>5 DEF InMaking
  <2>4. InHand(o)' <=> InHand(o)
    BY <1>4 DEF Bystander, SameHolder, InHand
  <2>5. ChallengerInv(n)'
    BY <1>3, <1>4, <1>5, <1>6, <2>1, <2>3 DEF ChallengerInv, Open
  <2>6. HolderInv(o)'
    BY <1>3, <1>4, <1>8, <2>2, <2>4 DEF HolderInv, Bystander, SameHolder
  <2>7. (Open(n) /\ Open(o) => BothInv(n, o))'
    <3>1. ASSUME Open(o) PROVE BothInv(n, o)'
      BY <1>3, <1>4, <1>6, <1>8, <2>1, <2>2, <2>3, <2>4, <3>1 DEF BothInv, Bystander, SameHolder
    <3> QED
      BY <1>4, <3>1 DEF Open
  <2> QED
    BY <2>5, <2>6, <2>7 DEF DirectionInv
<1> QED
  BY <1>1, <1>2, <1>10, <1>11, <1>12, <1>13, TwoEnds

LEMMA DecryptKeeps ==
    ASSUME SecureAgentInv, TypeOK', NEW n \in Node, NEW i \in 1 .. Len(decrypting[n]), DecryptSecret(n, i)
    PROVE  SecureAgentInv'
<1>1. PICK o : o = Other(n)
  OBVIOUS
<1>2. /\ TypeOK /\ o \in Node /\ o # n /\ n = Other(o)
      /\ ChannelInv(n) /\ ChannelInv(o) /\ DirectionInv(n, o) /\ DirectionInv(o, n)
  BY <1>1, EndFacts
<1>3. /\ HolderInv(n) /\ ChallengerInv(o)
      /\ decrypting[n] = << 1 >> /\ answers[n] = 0 /\ Open(n) /\ InHand(n)
      /\ Open(o) => BothInv(o, n)
  <2>1. 1 .. Len(<<>>) = {} /\ << 1 >> # <<>>
    OBVIOUS
  <2> QED
    BY <1>2, <2>1 DEF DirectionInv, HolderInv, ChannelInv, InHand
<1>4. /\ Bystander(n, o) /\ SameChallenger(n) /\ channel' = channel
      /\ conn' = conn /\ asked' = asked /\ made' = made /\ situation' = situation
  BY <1>2 DEF DecryptSecret, Bystander, SameChallenger, SameHolder, TypeOK
<1>5. decrypting[n][i] = 1 /\ RemoveAt(decrypting[n], i) = <<>>
  <2>1. \A j \in 1 .. Len(<< 1 >>) : << 1 >>[j] = 1 /\ RemoveAt(<< 1 >>, j) = <<>>
    BY OneRemoved
  <2> QED
    BY <1>3, <2>1
<1>6. decrypting'[n] = <<>> /\ answers'[n] = 1 /\ hold'[n] = [hold[n] EXCEPT !.secret = 1]
  <2>1. decrypting'[n] = <<>> /\ hold'[n] = [hold[n] EXCEPT !.secret = 1]
    BY <1>2, <1>5 DEF DecryptSecret, TypeOK
  <2>2. answers'[n] = answers[n] + 1
    BY <1>2 DEF DecryptSecret, TypeOK
  <2> QED
    BY <1>3, <2>1, <2>2
<1>7. /\ hold'[n].status = hold[n].status /\ hold'[n].secret = 1
      /\ hold'[n].encryptedSecret = hold[n].encryptedSecret
  BY <1>2, <1>6 DEF TypeOK, Side
<1>8. ChannelInv(n)'
  BY <1>2, <1>3, <1>4, <1>7, ChannelOfOpen DEF ChannelInv, Verified, SameChallenger, Open
<1>9. ChannelInv(o)'
  BY <1>2, <1>4, ChannelOfBystander
<1>10. DirectionInv(n, o)'
  BY <1>2, <1>4, SameDirection DEF SameEnds, Bystander
<1>11. DirectionInv(o, n)'
  <2>1. ChallengerInv(o)'
    BY <1>3, <1>4, SameChallengerInv DEF Bystander
  <2>2. \A type : On(channel[n], type)' <=> On(channel[n], type)
    BY <1>4, OnNext
  <2>3. \A type : On(channel[o], type)' <=> On(channel[o], type)
    BY <1>4, OnNext
  <2>4. InHand(n)'
    BY <1>6 DEF InHand
  <2>5. HolderInv(n)'
    BY <1>3, <1>4, <1>6, <1>7, <2>2, <2>4 DEF HolderInv
  <2>6. (Open(o) /\ Open(n) => BothInv(o, n))'
    BY <1>3, <1>4, <1>7, <2>2, <2>3, <2>4 DEF BothInv, Open, Bystander, SameChallenger, InMaking
  <2> QED
    BY <2>1, <2>5, <2>6 DEF DirectionInv
<1> QED
  BY <1>1, <1>2, <1>8, <1>9, <1>10, <1>11, TwoEnds

LEMMA AnswerKeeps ==
    ASSUME SecureAgentInv, TypeOK', NEW n \in Node, AnswerReceivedChallenge(n)
    PROVE  SecureAgentInv'
<1>1. PICK o : o = Other(n)
  OBVIOUS
<1>2. /\ TypeOK /\ o \in Node /\ o # n /\ n = Other(o)
      /\ ChannelInv(n) /\ ChannelInv(o) /\ DirectionInv(n, o) /\ DirectionInv(o, n)
  BY <1>1, EndFacts
<1>3. /\ HolderInv(n) /\ ChallengerInv(o) /\ Open(n) /\ InHand(n)
      /\ Open(o) => BothInv(o, n)
      /\ decrypting[n] = <<>> /\ answers[n] = 1 /\ hold[n].secret = 1
      /\ hold[n].status \in {"expecting-challenge", "sent-identity", "received-unexpected-challenge"}
  BY <1>2 DEF DirectionInv, HolderInv, ChannelInv, InHand, AnswerReceivedChallenge
<1>4. /\ Bystander(n, o) /\ SameChallenger(n)
      /\ conn' = conn /\ asked' = asked /\ situation' = situation
  BY <1>2 DEF AnswerReceivedChallenge, Bystander, SameChallenger, SameHolder, TypeOK
<1>5. /\ decrypting'[n] = <<>> /\ answers'[n] = 0
      /\ hold'[n] = [hold[n] EXCEPT !.status = "sent-challenge-answer"]
  <2>1. decrypting'[n] = <<>>
    BY <1>3 DEF AnswerReceivedChallenge
  <2>2. answers'[n] = 0
    <3>1. answers'[n] = answers[n] - 1
      BY <1>2 DEF AnswerReceivedChallenge, TypeOK
    <3> QED
      BY <1>3, <3>1
  <2>3. hold'[n] = [hold[n] EXCEPT !.status = "sent-challenge-answer"]
    BY <1>2 DEF AnswerReceivedChallenge, StatusAfterAnswer, TypeOK
  <2> QED
    BY <2>1, <2>2, <2>3
<1>6. hold'[n].status = "sent-challenge-answer" /\ hold'[n].secret = 1
  BY <1>2, <1>3, <1>5 DEF TypeOK, Side
<1>7. PICK msg \in AnyMessage : /\ msg.type = "answer-challenge" /\ msg.secret = 1
                                /\ Sending(n, <<msg>>)
  <2>1. Message("answer-challenge", 1, 0, TRUE) \in AnyMessage
    BY Plains DEF MessageType
  <2> QED
    BY <1>3, <2>1 DEF AnswerReceivedChallenge, Message
<1>8. /\ ~ On(channel[n], "request-identity") /\ ~ On(channel[n], "send-challenge")
      /\ ~ On(channel[n], "challenge-result")
      /\ Open(o) => /\ ~ On(channel[o], "answer-challenge") /\ chal[o].status = "sent-challenge"
                    /\ ~ On(channel[o], "send-identity")
  BY <1>3 DEF BothInv, HolderInv, ChallengerInv
<1>9. /\ channel'[n] = channel[n] /\ (~ Open(o) => channel'[o] = channel[o])
      /\ \A type : On(channel'[o], type) <=> On(channel[o], type) \/ (Open(o) /\ type = "answer-challenge")
      /\ Open(o) => /\ SoundQueue(channel'[o])
                    /\ Ready(channel'[o], Verified(chal[o]), Verified(hold[o]))
  <2>1. Sound(msg)
    BY <1>7 DEF Sound
  <2>2. SoundQueue(channel[o]) /\ Ready(channel[o], Verified(chal[o]), Verified(hold[o]))
    BY <1>2 DEF ChannelInv
  <2>3. Verified(chal[o]) \in BOOLEAN /\ Verified(hold[o]) \in BOOLEAN
    BY DEF Verified
  <2> QED
    BY <1>1, <1>2, <1>7, <1>8, <2>1, <2>2, <2>3, SendsOne
<1>10. ChannelInv(n)'
  <2>1. ~ Verified(hold[n])
    BY <1>3 DEF Verified
  <2>2. Verified(chal[n]) \in BOOLEAN /\ Verified(hold[n]) \in BOOLEAN
        /\ (chal'[n].status = "identity-verified") \in BOOLEAN
        /\ (hold'[n].status = "identity-verified") \in BOOLEAN
    BY DEF Verified
  <2>3. Ready(channel'[n], chal'[n].status = "identity-verified", hold'[n].status = "identity-verified")
    BY <1>2, <1>4, <1>9, <2>1, <2>2, ReadyStays DEF ChannelInv, Verified, SameChallenger
  <2> QED
    BY <1>2, <1>3, <1>4, <1>9, <2>3, ChannelOfOpen DEF ChannelInv, Open
<1>11. ChannelInv(o)'
  BY <1>2, <1>4, <1>9, ChannelOfBystander
<1>12. DirectionInv(n, o)'
  <2>1. \A type \in ToHolder : On(channel'[o], type) <=> On(channel[o], type)
    BY <1>9 DEF ToHolder
  <2> QED
    BY <1>2, <1>4, <1>9, <2>1, SameDirection DEF SameEnds, Bystander
<1>13. DirectionInv(o, n)'
  <2>1. \A type : On(channel[n], type)' <=> On(channel[n], type)
    BY <1>9, OnNext
  <2>2. \A type : On(channel[o], type)' <=> On(channel[o], type) \/ (Open(o) /\ type = "answer-challenge")
    BY <1>9, OnNext
  <2>3. ~ InHand(n)'
    BY <1>5 DEF InHand
  <2>4. InMaking(o)' <=> InMaking(o)
    BY <1>4 DEF Bystander, SameChallenger, InMaking
  <2>5. HolderInv(n)'
    BY <1>3, <1>5, <1>6, <1>8, <2>1, <2>3 DEF HolderInv
  <2>6. ChallengerInv(o)'
    BY <1>3, <1>4, <1>8, <2>2, <2>4 DEF ChallengerInv, Bystander, SameChallenger, Open
  <2>7. (Open(o) /\ Open(n) => BothInv(o, n))'
    <3>1. ASSUME Open(o) PROVE BothInv(o, n)'
      BY <1>3, <1>4, <1>6, <1>8, <2>1, <2>2, <2>3, <2>4, <3>1 DEF BothInv, Bystander, SameChallenger
    <3> QED
      BY <1>4, <3>1 DEF Open
  <2> QED
    BY <2>5, <2>6, <2>7 DEF DirectionInv
<1> QED
  BY <1>1, <1>2, <1>10, <1>11, <1>12, <1>13, TwoEnds

LEMMA Receives ==
    ASSUME SecureAgentInv, NEW n \in Node, NEW type, Receive(n, type)
    PROVE  /\ Open(n) /\ channel[n] # <<>> /\ Head(channel[n]).type = type
           /\ On(channel[n], type) /\ Sound(Head(channel[n]))
           /\ conn'[n] = "ready" /\ \A m \in Node : m # n => conn'[m] = conn[m]
<1>1. TypeOK /\ ChannelInv(n)
  BY EndFacts
<1> QED
  BY <1>1, FirstMessage DEF Receive, Open, TypeOK

LEMMA RequestIdentityKeeps ==
    ASSUME SecureAgentInv, TypeOK', NEW n \in Node, ReceiveRequestIdentity(n)
    PROVE  SecureAgentInv'
<1>1. PICK o : o = Other(n)
  OBVIOUS
<1>2. /\ TypeOK /\ o \in Node /\ o # n /\ n = Other(o)
      /\ ChannelInv(n) /\ ChannelInv(o) /\ DirectionInv(n, o) /\ DirectionInv(o, n)
  BY <1>1, EndFacts
<1>3. /\ Open(n) /\ channel[n] # <<>> /\ Head(channel[n]).type = "request-identity"
      /\ On(channel[n], "request-identity") /\ conn'[n] = "ready" /\ conn'[o] = conn[o]
  BY <1>2, Receives DEF ReceiveRequestIdentity
<1>4. /\ HolderInv(n) /\ ChallengerInv(o) /\ ~ InHand(n)
      /\ hold[n].status \in {"nil", "expecting-challenge"}
      /\ ~ On(channel[n], "send-challenge") /\ ~ On(channel[n], "challenge-result")
      /\ Open(o) => /\ BothInv(o, n)
                    /\ chal[o].status = "sent-identity-request" /\ made[o] = 0
                    /\ ~ On(channel[o], "send-identity")
  BY <1>2, <1>3 DEF DirectionInv, HolderInv, BothInv
<1>5. /\ Bystander(n, o) /\ SameChallenger(n) /\ asked' = asked /\ situation' = situation
      /\ decrypting' = decrypting /\ answers' = answers
  BY <1>2, <1>3 DEF ReceiveRequestIdentity, Bystander, SameChallenger, SameHolder, TypeOK
<1>6. /\ hold'[n].secret = hold[n].secret
      /\ hold'[n].status \in {"sent-identity", "received-unexpected-identity-request"}
      /\ hold'[n].status = "sent-identity" <=> hold[n].status = "expecting-challenge"
  <2>1. CASE hold[n].status = "expecting-challenge"
    <3>1. hold'[n] = [hold[n] EXCEPT !.status = "sent-identity"]
      BY <1>2, <2>1 DEF ReceiveRequestIdentity, TypeOK
    <3> QED
      BY <1>2, <2>1, <3>1 DEF TypeOK, Side
  <2>2. CASE hold[n].status = "nil"
    <3>1. hold'[n] = [hold[n] EXCEPT !.status = "received-unexpected-identity-request"]
      BY <1>2, <2>2 DEF ReceiveRequestIdentity, TypeOK
    <3> QED
      BY <1>2, <2>2, <3>1 DEF TypeOK, Side
  <2> QED
    BY <1>4, <2>1, <2>2
<1>7. Plain("send-identity") \in AnyMessage /\ Plain("send-identity").type = "send-identity"
      /\ Sound(Plain("send-identity"))
  BY Plains DEF MessageType, Plain, Message, Sound
<1>8. /\ SoundQueue(channel'[n]) /\ (~ Open(o) => channel'[o] = channel[o])
      /\ \A type \in ToHolder \cup ToChallenger :
            On(channel'[n], type) <=> On(channel[n], type) /\ type # "request-identity"
      /\ \A w \in BOOLEAN : Ready(channel'[n], Verified(chal[n]), w)
      /\ \A type \in ToHolder \cup ToChallenger :
            On(channel'[o], type) <=>
                \/ On(channel[o], type)
                \/ Open(o) /\ type = "send-identity" /\ hold[n].status = "expecting-challenge"
      /\ Open(o) => SoundQueue(channel'[o]) /\ Ready(channel'[o], Verified(chal[o]), Verified(hold[o]))
  <2>1. ToHolder \cup ToChallenger \subseteq MessageType \ {"secure-message"}
    BY DEF ToHolder, ToChallenger, MessageType
  <2>2. Verified(chal[o]) \in BOOLEAN /\ Verified(hold[o]) \in BOOLEAN /\ ~ Verified(hold[n])
    BY <1>4 DEF Verified
  <2>3. SoundQueue(channel[o]) /\ Ready(channel[o], Verified(chal[o]), Verified(hold[o]))
    BY <1>2 DEF ChannelInv
  <2>4. CASE hold[n].status = "expecting-challenge"
    <3>1. TakingAndSending(n, Plain("send-identity"))
      BY <2>4 DEF ReceiveRequestIdentity
    <3>2. /\ SoundQueue(channel'[n]) /\ (~ Open(o) => channel'[o] = channel[o])
          /\ \A type \in MessageType \ {"secure-message"} :
                On(channel'[n], type) <=> On(channel[n], type) /\ type # "request-identity"
          /\ \A w \in BOOLEAN : Ready(channel'[n], Verified(chal[n]), w)
          /\ \A type : On(channel'[o], type) <=> On(channel[o], type) \/ (Open(o) /\ type = "send-identity")
          /\ ~ On(channel[o], "send-identity") => SoundQueue(channel'[o])
          /\ Ready(channel'[o], Verified(chal[o]), Verified(hold[o]))
      BY <1>1, <1>2, <1>3, <1>7, <2>2, <2>3, <3>1, TakesAndSends
    <3> QED
      BY <1>4, <2>1, <2>4, <3>2
  <2>5. CASE hold[n].status # "expecting-challenge"
    <3>1. Taking(n)
      BY <2>5 DEF ReceiveRequestIdentity
    <3> QED
      BY <1>1, <1>2, <1>3, <2>1, <2>2, <2>3, <2>5, <3>1, TakesOne
  <2> QED
    BY <2>4, <2>5
<1>9. ChannelInv(n)'
  <2>1. Ready(channel'[n], chal'[n].status = "identity-verified", hold'[n].status = "identity-verified")
    BY <1>5, <1>8 DEF Verified, SameChallenger
  <2> QED
    BY <1>2, <1>3, <1>5, <1>8, <2>1, ChannelOfOpen DEF ChannelInv
<1>10. ChannelInv(o)'
  BY <1>2, <1>5, <1>8, ChannelOfBystander
<1>11. DirectionInv(n, o)'
  <2>1. /\ \A type \in ToHolder : On(channel'[o], type) <=> On(channel[o], type)
        /\ \A type \in ToChallenger : On(channel'[n], type) <=> On(channel[n], type)
    BY <1>8 DEF ToHolder, ToChallenger
  <2> QED
    BY <1>2, <1>3, <1>5, <2>1, SameDirection DEF SameEnds, Bystander, Open
<1>12. DirectionInv(o, n)'
  <2>1. /\ ~ On(channel[n], "request-identity")' /\ ~ On(channel[n], "send-challenge")'
        /\ ~ On(channel[n], "challenge-result")'
    BY <1>4, <1>8, OnNext DEF ToHolder
  <2>2. /\ On(channel[o], "send-identity")' <=>
             On(channel[o], "send-identity") \/ (Open(o) /\ hold[n].status = "expecting-challenge")
        /\ On(channel[o], "answer-challenge")' <=> On(channel[o], "answer-challenge")
    BY <1>8, OnNext DEF ToChallenger
  <2>3. ~ InHand(n)' /\ (InMaking(o)' <=> InMaking(o))
    BY <1>4, <1>5 DEF InHand, InMaking, Bystander, SameChallenger
  <2>4. HolderInv(n)'
    BY <1>4, <1>5, <1>6, <2>1, <2>3 DEF HolderInv
  <2>5. ChallengerInv(o)'
    BY <1>4, <1>5, <2>2, <2>3 DEF ChallengerInv, Bystander, SameChallenger, Open
  <2>6. (Open(o) /\ Open(n) => BothInv(o, n))'
    <3>1. ASSUME Open(o) PROVE BothInv(o, n)'
      <4>1. ~ InMaking(o)
        BY <1>4, <3>1 DEF ChallengerInv
      <4> QED
        BY <1>4, <1>5, <1>6, <2>1, <2>2, <2>3, <3>1, <4>1 DEF BothInv, Bystander, SameChallenger
    <3> QED
      BY <1>3, <3>1 DEF Open
  <2> QED
    BY <2>4, <2>5, <2>6 DEF DirectionInv
<1> QED
  BY <1>1, <1>2, <1>9, <1>10, <1>11, <1>12, TwoEnds

LEMMA SendChallengeReceivedKeeps ==
    ASSUME SecureAgentInv, TypeOK', NEW n \in Node, ReceiveSendChallenge(n)
    PROVE  SecureAgentInv'
<1>1. PICK o : o = Other(n)
  OBVIOUS
<1>2. /\ TypeOK /\ o \in Node /\ o # n /\ n = Other(o)
      /\ ChannelInv(n) /\ ChannelInv(o) /\ DirectionInv(n, o) /\ DirectionInv(o, n)
  BY <1>1, EndFacts
<1>3. /\ Open(n) /\ channel[n] # <<>> /\ Head(channel[n]).type = "send-challenge"
      /\ On(channel[n], "send-challenge") /\ conn'[n] = "ready" /\ conn'[o] = conn[o]
      /\ Head(channel[n]).secret = 1
  BY <1>2, Receives DEF ReceiveSendChallenge, Sound
<1>4. /\ HolderInv(n) /\ ChallengerInv(o) /\ ~ InHand(n) /\ decrypting[n] = <<>> /\ answers[n] = 0
      /\ hold[n].status \in {"nil", "expecting-challenge", "sent-identity"}
      /\ hold[n].status = "nil" => situation.known # {}
      /\ ~ On(channel[n], "request-identity") /\ ~ On(channel[n], "challenge-result")
      /\ Open(o) => /\ BothInv(o, n)
                    /\ chal[o].status = "sent-challenge" /\ ~ On(channel[o], "answer-challenge")
                    /\ ~ On(channel[o], "send-identity")
  BY <1>2, <1>3 DEF DirectionInv, HolderInv, ChallengerInv, BothInv, InHand
<1>5. /\ Bystander(n, o) /\ SameChallenger(n) /\ asked' = asked /\ situation' = situation
      /\ answers' = answers /\ Taking(n)
  BY <1>2, <1>3 DEF ReceiveSendChallenge, Bystander, SameChallenger, SameHolder, TypeOK
<1>6. /\ hold'[n].encryptedSecret = 1
      /\ IF hold[n].status = "nil"
         THEN hold'[n].status = "received-unexpected-challenge" /\ decrypting'[n] = <<>>
         ELSE hold'[n].status = hold[n].status /\ decrypting'[n] = << 1 >>
  <2> DEFINE h == [hold[n] EXCEPT !.encryptedSecret = 1]
             g == [h EXCEPT !.status = "received-unexpected-challenge"]
  <2>1. /\ h.status = hold[n].status /\ h.encryptedSecret = 1
        /\ g.status = "received-unexpected-challenge" /\ g.encryptedSecret = 1
    BY <1>2 DEF TypeOK, Side
  <2>2. IF hold[n].status = "nil"
        THEN hold' = [hold EXCEPT ![n] = g] /\ UNCHANGED decrypting
        ELSE hold' = [hold EXCEPT ![n] = h] /\ decrypting' = [decrypting EXCEPT ![n] = Append(@, h.encryptedSecret)]
    <3>1. CASE hold[n].status = "nil"
      BY <1>3, <2>1, <3>1 DEF ReceiveSendChallenge
    <3>2. CASE hold[n].status \in {"expecting-challenge", "sent-identity"}
      BY <1>3, <2>1, <3>2 DEF ReceiveSendChallenge
    <3> QED
      BY <1>4, <3>1, <3>2
  <2> HIDE DEF h, g
  <2>3. Append(<<>>, 1) = << 1 >>
    OBVIOUS
  <2>4. CASE hold[n].status = "nil"
    BY <1>2, <1>4, <2>1, <2>2, <2>4 DEF TypeOK
  <2>5. CASE hold[n].status # "nil"
    <3>1. hold'[n] = h
      BY <1>2, <2>2, <2>5 DEF TypeOK
    <3>2. decrypting'[n] = Append(decrypting[n], h.encryptedSecret)
      BY <1>2, <2>2, <2>5 DEF TypeOK
    <3>3. decrypting'[n] = << 1 >>
      BY <1>4, <2>1, <2>3, <3>2
    <3> QED
      BY <2>1, <2>5, <3>1, <3>3
  <2> QED
    BY <2>4, <2>5
<1>7. /\ channel'[o] = channel[o] /\ SoundQueue(channel'[n])
      /\ \A type \in ToHolder \cup ToChallenger :
            On(channel'[n], type) <=> On(channel[n], type) /\ type # "send-challenge"
      /\ Ready(channel'[n], Verified(chal[n]), FALSE)
  <2>1. ToHolder \cup ToChallenger \subseteq MessageType \ {"secure-message"}
    BY DEF ToHolder, ToChallenger, MessageType
  <2>2. ~ Verified(hold[n])
    BY <1>4 DEF Verified
  <2> QED
    BY <1>1, <1>2, <1>3, <1>5, <2>1, <2>2, TakesOne
<1>8. ChannelInv(n)'
  <2>1. Ready(channel'[n], chal'[n].status = "identity-verified", hold'[n].status = "identity-verified")
    BY <1>4, <1>5, <1>6, <1>7 DEF Verified, SameChallenger
  <2> QED
    BY <1>2, <1>3, <1>5, <1>7, <2>1, ChannelOfOpen DEF ChannelInv
<1>9. ChannelInv(o)'
  BY <1>2, <1>5, <1>7, ChannelOfBystander
<1>10. DirectionInv(n, o)'
  <2>1. \A type \in ToChallenger : On(channel'[n], type) <=> On(channel[n], type)
    BY <1>7 DEF ToChallenger
  <2> QED
    BY <1>2, <1>3, <1>5, <1>7, <2>1, SameDirection DEF SameEnds, Bystander, Open
<1>11. DirectionInv(o, n)'
  <2>1. ChallengerInv(o)'
    BY <1>4, <1>5, <1>7, SameChallengerInv DEF Bystander
  <2>2. /\ ~ On(channel[n], "request-identity")' /\ ~ On(channel[n], "send-challenge")'
        /\ ~ On(channel[n], "challenge-result")'
    BY <1>4, <1>7, OnNext DEF ToHolder
  <2>3. \A type : On(channel[o], type)' <=> On(channel[o], type)
    BY <1>7, OnNext
  <2>4. << 1 >> # <<>> /\ answers'[n] = 0
    BY <1>4, <1>5
  <2>5. InHand(n)' <=> hold[n].status # "nil"
    <3>1. decrypting'[n] # <<>> <=> hold[n].status # "nil"
      BY <1>6, <2>4
    <3> QED
      BY <2>4, <3>1 DEF InHand
  <2>6. HolderInv(n)'
    <3>1. decrypting'[n] \in {<<>>, << 1 >>}
      BY <1>6
    <3>2. hold'[n].status \in {"expecting-challenge", "sent-identity", "received-unexpected-challenge"}
      BY <1>4, <1>6
    <3>3. hold'[n].status = "received-unexpected-challenge" => situation'.known # {} /\ ~ InHand(n)'
      BY <1>4, <1>5, <1>6, <2>5
    <3> QED
      BY <1>6, <2>2, <2>4, <3>1, <3>2, <3>3 DEF HolderInv
  <2>7. (Open(o) /\ Open(n) => BothInv(o, n))'
    <3>1. ASSUME Open(o) PROVE BothInv(o, n)'
      BY <1>4, <1>5, <1>6, <2>2, <2>3, <2>5, <3>1 DEF BothInv, Bystander, SameChallenger
    <3> QED
      BY <1>3, <3>1 DEF Open
  <2> QED
    BY <2>1, <2>6, <2>7 DEF DirectionInv
<1> QED
  BY <1>1, <1>2, <1>8, <1>9, <1>10, <1>11, TwoEnds

LEMMA ChallengeResultKeeps ==
    ASSUME SecureAgentInv, TypeOK', NEW n \in Node, ReceiveChallengeResult(n)
    PROVE  SecureAgentInv'
<1>1. PICK o : o = Other(n)
  OBVIOUS
<1>2. /\ TypeOK /\ o \in Node /\ o # n /\ n = Other(o)
      /\ ChannelInv(n) /\ ChannelInv(o) /\ DirectionInv(n, o) /\ DirectionInv(o, n)
  BY <1>1, EndFacts
<1>3. /\ Open(n) /\ channel[n] # <<>> /\ Head(channel[n]).type = "challenge-result"
      /\ On(channel[n], "challenge-result") /\ conn'[n] = "ready" /\ conn'[o] = conn[o]
      /\ Head(channel[n]).result
  BY <1>2, Receives DEF ReceiveChallengeResult, Sound
<1>4. /\ HolderInv(n) /\ ChallengerInv(o) /\ ~ InHand(n)
      /\ hold[n].status = "sent-challenge-answer" /\ hold[n].secret = 1
      /\ ~ On(channel[n], "request-identity") /\ ~ On(channel[n], "send-challenge")
      /\ Open(o) => /\ BothInv(o, n) /\ chal[o].status = "identity-verified"
                    /\ ~ On(channel[o], "answer-challenge") /\ ~ On(channel[o], "send-identity")
  BY <1>2, <1>3 DEF DirectionInv, HolderInv, ChallengerInv, BothInv
<1>5. /\ Bystander(n, o) /\ SameChallenger(n) /\ asked' = asked /\ situation' = situation
      /\ answers' = answers /\ decrypting' = decrypting /\ Taking(n)
  BY <1>2, <1>3 DEF ReceiveChallengeResult, Bystander, SameChallenger, SameHolder, TypeOK
<1>6. hold'[n].status = "identity-verified" /\ hold'[n].secret = 1
  <2>1. hold'[n] = [hold[n] EXCEPT !.status = "identity-verified"]
    BY <1>2, <1>3, <1>4 DEF ReceiveChallengeResult, Verdict, TypeOK
  <2> QED
    BY <1>2, <1>4, <2>1 DEF TypeOK, Side
<1>7. /\ channel'[o] = channel[o] /\ SoundQueue(channel'[n])
      /\ \A type \in ToHolder \cup ToChallenger :
            On(channel'[n], type) <=> On(channel[n], type) /\ type # "challenge-result"
      /\ Ready(channel'[n], Verified(chal[n]), TRUE)
  <2>1. ToHolder \cup ToChallenger \subseteq MessageType \ {"secure-message"}
    BY DEF ToHolder, ToChallenger, MessageType
  <2> QED
    BY <1>1, <1>2, <1>3, <1>5, <2>1, TakesOne
<1>8. ChannelInv(n)'
  <2>1. Ready(channel'[n], chal'[n].status = "identity-verified", hold'[n].status = "identity-verified")
    BY <1>5, <1>6, <1>7 DEF Verified, SameChallenger
  <2> QED
    BY <1>2, <1>3, <1>5, <1>7, <2>1, ChannelOfOpen DEF ChannelInv
<1>9. ChannelInv(o)'
  BY <1>2, <1>5, <1>7, ChannelOfBystander
<1>10. DirectionInv(n, o)'
  <2>1. \A type \in ToChallenger : On(channel'[n], type) <=> On(channel[n], type)
    BY <1>7 DEF ToChallenger
  <2> QED
    BY <1>2, <1>3, <1>5, <1>7, <2>1, SameDirection DEF SameEnds, Bystander, Open
<1>11. DirectionInv(o, n)'
  <2>1. ChallengerInv(o)'
    BY <1>4, <1>5, <1>7, SameChallengerInv DEF Bystander
  <2>2. /\ ~ On(channel[n], "request-identity")' /\ ~ On(channel[n], "send-challenge")'
        /\ ~ On(channel[n], "challenge-result")'
    BY <1>4, <1>7, OnNext DEF ToHolder
  <2>3. \A type : On(channel[o], type)' <=> On(channel[o], type)
    BY <1>7, OnNext
  <2>4. ~ InHand(n)'
    BY <1>4, <1>5 DEF InHand
  <2>5. HolderInv(n)'
    BY <1>4, <1>5, <1>6, <2>2, <2>4 DEF HolderInv
  <2>6. (Open(o) /\ Open(n) => BothInv(o, n))'
    <3>1. ASSUME Open(o) PROVE BothInv(o, n)'
      BY <1>4, <1>5, <1>6, <2>2, <2>3, <2>4, <3>1 DEF BothInv, Bystander, SameChallenger
    <3> QED
      BY <1>3, <3>1 DEF Open
  <2> QED
    BY <2>1, <2>5, <2>6 DEF DirectionInv
<1> QED
  BY <1>1, <1>2, <1>8, <1>9, <1>10, <1>11, TwoEnds

LEMMA SendIdentityKeeps ==
    ASSUME SecureAgentInv, TypeOK', NEW n \in Node, ReceiveSendIdentity(n)
    PROVE  SecureAgentInv'
<1>1. PICK o : o = Other(n)
  OBVIOUS
<1>2. /\ TypeOK /\ o \in Node /\ o # n /\ n = Other(o)
      /\ ChannelInv(n) /\ ChannelInv(o) /\ DirectionInv(n, o) /\ DirectionInv(o, n)
  BY <1>1, EndFacts
<1>3. /\ Open(n) /\ channel[n] # <<>> /\ Head(channel[n]).type = "send-identity"
      /\ On(channel[n], "send-identity") /\ conn'[n] = "ready" /\ conn'[o] = conn[o]
  BY <1>2, Receives DEF ReceiveSendIdentity
<1>4. /\ HolderInv(o) /\ ChallengerInv(n) /\ ~ InMaking(n) /\ encrypting[n] = {} /\ challenges[n] = 0
      /\ chal[n].status = "sent-identity-request" /\ made[n] = 0
      /\ ~ On(channel[n], "answer-challenge")
      /\ Open(o) => /\ BothInv(n, o) /\ hold[o].status = "sent-identity"
                    /\ ~ On(channel[o], "request-identity")
  <2>1. /\ HolderInv(o) /\ ChallengerInv(n) /\ chal[n].status = "sent-identity-request" /\ made[n] = 0
        /\ ~ On(channel[n], "answer-challenge")
    BY <1>2, <1>3 DEF DirectionInv, ChallengerInv
  <2>2. ~ InMaking(n)
    BY <2>1 DEF ChallengerInv
  <2>3. encrypting[n] = {} /\ challenges[n] = 0
    BY <2>1, <2>2 DEF ChallengerInv, InMaking
  <2>4. Open(o) => /\ BothInv(n, o) /\ hold[o].status = "sent-identity"
                   /\ ~ On(channel[o], "request-identity")
    BY <1>2, <1>3, <2>1 DEF DirectionInv, BothInv
  <2> QED
    BY <2>1, <2>2, <2>3, <2>4
<1>5. /\ Bystander(n, o) /\ SameHolder(n) /\ asked' = asked /\ situation' = situation
      /\ challenges' = challenges /\ Taking(n)
  <2>1. \/ Challenging(n, [chal[n] EXCEPT !.identity = TRUE])
        \/ UNCHANGED <<chal, made, encrypting>>
    BY DEF ReceiveSendIdentity
  <2>2. chal'[o] = chal[o] /\ made'[o] = made[o] /\ encrypting'[o] = encrypting[o]
    BY <1>2, <2>1 DEF Challenging, TypeOK
  <2> QED
    BY <1>2, <1>3, <2>2 DEF ReceiveSendIdentity, Bystander, SameChallenger, SameHolder
<1>6. /\ chal'[n].status = "sent-identity-request" /\ chal'[n].secret = 1
      /\ made'[n] = 1 /\ encrypting'[n] = {1}
  <2> DEFINE c == [chal[n] EXCEPT !.identity = TRUE]
             d == [c EXCEPT !.secret = made[n] + 1]
  <2>1. c.identity /\ d.status = chal[n].status /\ d.secret = 1
    BY <1>2, <1>4 DEF TypeOK, Side
  <2>2. Challenging(n, c)
    BY <1>4 DEF ReceiveSendIdentity
  <2>3. /\ chal' = [chal EXCEPT ![n] = d]
        /\ made' = [made EXCEPT ![n] = @ + 1]
        /\ encrypting' = [encrypting EXCEPT ![n] = @ \cup {made[n] + 1}]
    BY <2>1, <2>2 DEF Challenging
  <2> HIDE DEF c, d
  <2>4. made[n] + 1 = 1
    BY <1>4
  <2> QED
    BY <1>2, <1>4, <2>1, <2>3, <2>4 DEF TypeOK
<1>7. /\ channel'[o] = channel[o] /\ SoundQueue(channel'[n])
      /\ \A type \in ToHolder \cup ToChallenger :
            On(channel'[n], type) <=> On(channel[n], type) /\ type # "send-identity"
      /\ Ready(channel'[n], FALSE, Verified(hold[n]))
  <2>1. ToHolder \cup ToChallenger \subseteq MessageType \ {"secure-message"}
    BY DEF ToHolder, ToChallenger, MessageType
  <2>2. Verified(chal[n]) = FALSE /\ Verified(hold[n]) \in BOOLEAN
    BY <1>4 DEF Verified
  <2> QED
    BY <1>1, <1>2, <1>3, <1>5, <2>1, <2>2, TakesOne
<1>8. ChannelInv(n)'
  <2>1. Ready(channel'[n], chal'[n].status = "identity-verified", hold'[n].status = "identity-verified")
    BY <1>5, <1>6, <1>7 DEF Verified, SameHolder
  <2> QED
    BY <1>2, <1>3, <1>5, <1>7, <2>1, ChannelOfOpen DEF ChannelInv
<1>9. ChannelInv(o)'
  BY <1>2, <1>5, <1>7, ChannelOfBystander
<1>10. DirectionInv(o, n)'
  <2>1. \A type \in ToHolder : On(channel'[n], type) <=> On(channel[n], type)
    BY <1>7 DEF ToHolder
  <2> QED
    BY <1>2, <1>3, <1>5, <1>7, <2>1, SameDirection DEF SameEnds, Bystander, Open
<1>11. DirectionInv(n, o)'
  <2>1. HolderInv(o)'
    BY <1>4, <1>5, <1>7, SameHolderInv DEF Bystander
  <2>2. ~ On(channel[n], "send-identity")' /\ ~ On(channel[n], "answer-challenge")'
    BY <1>4, <1>7, OnNext DEF ToChallenger
  <2>3. \A type : On(channel[o], type)' <=> On(channel[o], type)
    BY <1>7, OnNext
  <2>4. InMaking(n)' /\ (InHand(o)' <=> InHand(o))
    BY <1>5, <1>6 DEF InMaking, InHand, Bystander, SameHolder
  <2>5. ChallengerInv(n)'
    BY <1>3, <1>4, <1>5, <1>6, <2>2, <2>4 DEF ChallengerInv
  <2>6. (Open(n) /\ Open(o) => BothInv(n, o))'
    <3>1. ASSUME Open(o) PROVE BothInv(n, o)'
      BY <1>4, <1>5, <1>6, <2>2, <2>3, <2>4, <3>1 DEF BothInv, Bystander, SameHolder
    <3> QED
      BY <1>3, <1>5, <3>1 DEF Open
  <2> QED
    BY <2>1, <2>5, <2>6 DEF DirectionInv
<1> QED
  BY <1>1, <1>2, <1>8, <1>9, <1>10, <1>11, TwoEnds

LEMMA AnswerReceivedKeeps ==
    ASSUME SecureAgentInv, TypeOK', NEW n \in Node, ReceiveAnswerChallenge(n)
    PROVE  SecureAgentInv'
<1>1. PICK o : o = Other(n)
  OBVIOUS
<1>2. /\ TypeOK /\ o \in Node /\ o # n /\ n = Other(o)
      /\ ChannelInv(n) /\ ChannelInv(o) /\ DirectionInv(n, o) /\ DirectionInv(o, n)
  BY <1>1, EndFacts
<1>3. /\ Open(n) /\ channel[n] # <<>> /\ Head(channel[n]).type = "answer-challenge"
      /\ On(channel[n], "answer-challenge") /\ conn'[n] = "ready" /\ conn'[o] = conn[o]
      /\ Head(channel[n]).secret = 1
  BY <1>2, Receives DEF ReceiveAnswerChallenge, Sound
<1>4. /\ HolderInv(o) /\ ChallengerInv(n) /\ ~ InMaking(n) /\ ~ (challenges[n] > 0) /\ encrypting[n] = {}
      /\ chal[n].status = "sent-challenge" /\ chal[n].secret = 1
      /\ ~ On(channel[n], "send-identity")
      /\ Open(o) => /\ BothInv(n, o) /\ hold[o].status = "sent-challenge-answer"
                    /\ ~ On(channel[o], "request-identity") /\ ~ On(channel[o], "send-challenge")
                    /\ ~ On(channel[o], "challenge-result") /\ ~ InHand(o)
  <2>1. /\ HolderInv(o) /\ ChallengerInv(n) /\ ~ InMaking(n)
        /\ chal[n].status = "sent-challenge" /\ chal[n].secret = 1
        /\ ~ On(channel[n], "send-identity")
    BY <1>2, <1>3 DEF DirectionInv, ChallengerInv
  <2>2. Open(o) => /\ BothInv(n, o) /\ hold[o].status = "sent-challenge-answer"
                   /\ ~ On(channel[o], "request-identity") /\ ~ On(channel[o], "send-challenge")
                   /\ ~ On(channel[o], "challenge-result") /\ ~ InHand(o)
    BY <1>2, <1>3, <2>1 DEF DirectionInv, BothInv
  <2> QED
    BY <2>1, <2>2 DEF InMaking
<1>5. /\ Bystander(n, o) /\ SameHolder(n) /\ asked' = asked /\ situation' = situation
      /\ challenges' = challenges /\ made' = made /\ encrypting' = encrypting
  BY <1>2, <1>3 DEF ReceiveAnswerChallenge, Bystander, SameChallenger, SameHolder, TypeOK
<1>6. /\ chal'[n].status = "identity-verified" /\ chal'[n].secret = 1
      /\ TakingAndSending(n, Message("challenge-result", 0, 0, TRUE))
  <2>1. (Head(channel[n]).secret = chal[n].secret) = TRUE
    BY <1>3, <1>4
  <2>2. /\ chal' = [chal EXCEPT ![n].status = Verdict(TRUE)]
        /\ TakingAndSending(n, Message("challenge-result", 0, 0, TRUE))
    BY <1>4, <2>1 DEF ReceiveAnswerChallenge
  <2>3. chal'[n] = [chal[n] EXCEPT !.status = "identity-verified"]
    BY <1>2, <2>2 DEF Verdict, TypeOK
  <2>4. chal'[n].status = "identity-verified" /\ chal'[n].secret = 1
    BY <1>2, <1>4, <2>3 DEF TypeOK, Side
  <2> QED
    BY <2>2, <2>4
<1>7. /\ SoundQueue(channel'[n]) /\ (~ Open(o) => channel'[o] = channel[o])
      /\ \A type \in ToHolder \cup ToChallenger :
            On(channel'[n], type) <=> On(channel[n], type) /\ type # "answer-challenge"
      /\ Ready(channel'[n], FALSE, Verified(hold[n]))
      /\ \A type : On(channel'[o], type) <=> On(channel[o], type) \/ (Open(o) /\ type = "challenge-result")
      /\ Open(o) => SoundQueue(channel'[o]) /\ Ready(channel'[o], Verified(chal[o]), Verified(hold[o]))
  <2> DEFINE msg == Message("challenge-result", 0, 0, TRUE)
  <2>1. msg \in AnyMessage /\ msg.type = "challenge-result" /\ Sound(msg)
    BY Plains DEF MessageType, Message, Sound
  <2>2. ToHolder \cup ToChallenger \subseteq MessageType \ {"secure-message"}
    BY DEF ToHolder, ToChallenger, MessageType
  <2>3. /\ Verified(chal[n]) = FALSE /\ Verified(hold[n]) \in BOOLEAN
        /\ Verified(chal[o]) \in BOOLEAN /\ Verified(hold[o]) \in BOOLEAN
    BY <1>4 DEF Verified
  <2>4. SoundQueue(channel[o]) /\ Ready(channel[o], Verified(chal[o]), Verified(hold[o]))
    BY <1>2 DEF ChannelInv
  <2> HIDE DEF msg
  <2>5. TakingAndSending(n, msg)
    BY <1>6 DEF msg
  <2>6. /\ SoundQueue(channel'[n]) /\ (~ Open(o) => channel'[o] = channel[o])
        /\ \A type \in MessageType \ {"secure-message"} :
              On(channel'[n], type) <=> On(channel[n], type) /\ Head(channel[n]).type # type
        /\ \A w \in BOOLEAN : (Verified(hold[n]) => w) => Ready(channel'[n], Verified(chal[n]), w)
    BY <1>1, <1>2, <1>3, <2>1, <2>5, TakesAndSends
  <2>7. /\ \A type : On(channel'[o], type) <=> On(channel[o], type) \/ (Open(o) /\ type = "challenge-result")
        /\ ~ On(channel[o], "challenge-result") => SoundQueue(channel'[o])
        /\ Ready(channel'[o], Verified(chal[o]), Verified(hold[o]))
    BY <1>1, <1>2, <1>3, <2>1, <2>3, <2>4, <2>5, TakesAndSends
  <2>8. Ready(channel'[n], FALSE, Verified(hold[n]))
    BY <2>3, <2>6
  <2> QED
    BY <1>3, <1>4, <2>2, <2>6, <2>7, <2>8
<1>8. ChannelInv(n)'
  <2>1. Ready(channel'[n], chal'[n].status = "identity-verified", hold'[n].status = "identity-verified")
    BY <1>5, <1>6, <1>7, ReadyStays DEF Verified, SameHolder
  <2> QED
    BY <1>2, <1>3, <1>5, <1>7, <2>1, ChannelOfOpen DEF ChannelInv
<1>9. ChannelInv(o)'
  BY <1>2, <1>5, <1>7, ChannelOfBystander
<1>10. DirectionInv(o, n)'
  <2>1. /\ \A type \in ToHolder : On(channel'[n], type) <=> On(channel[n], type)
        /\ \A type \in ToChallenger : On(channel'[o], type) <=> On(channel[o], type)
    BY <1>7 DEF ToHolder, ToChallenger
  <2> QED
    BY <1>2, <1>3, <1>5, <2>1, SameDirection DEF SameEnds, Bystander, Open
<1>11. DirectionInv(n, o)'
  <2>1. ~ On(channel[n], "send-identity")' /\ ~ On(channel[n], "answer-challenge")'
    BY <1>4, <1>7, OnNext DEF ToChallenger
  <2>2. \A type : On(channel[o], type)' <=> On(channel[o], type) \/ (Open(o) /\ type = "challenge-result")
    BY <1>7, OnNext
  <2>3. ~ InMaking(n)' /\ (InHand(o)' <=> InHand(o))
    BY <1>4, <1>5 DEF InMaking, InHand, Bystander, SameHolder
  <2>4. ChallengerInv(n)'
    BY <1>3, <1>4, <1>5, <1>6, <2>1, <2>3 DEF ChallengerInv
  <2>5. HolderInv(o)'
    BY <1>4, <1>5, <2>2, <2>3 DEF HolderInv, Bystander, SameHolder
  <2>6. (Open(n) /\ Open(o) => BothInv(n, o))'
    <3>1. ASSUME Open(o) PROVE BothInv(n, o)'
      BY <1>4, <1>5, <1>6, <2>1, <2>2, <2>3, <3>1 DEF BothInv, Bystander, SameHolder
    <3> QED
      BY <1>3, <1>5, <3>1 DEF Open
  <2> QED
    BY <2>4, <2>5, <2>6 DEF DirectionInv
<1> QED
  BY <1>1, <1>2, <1>8, <1>9, <1>10, <1>11, TwoEnds

LEMMA SecureMessageKeeps ==
    ASSUME SecureAgentInv, TypeOK', NEW n \in Node, ReceiveSecureMessage(n)
    PROVE  SecureAgentInv'
<1>1. PICK o : o = Other(n)
  OBVIOUS
<1>2. /\ TypeOK /\ o \in Node /\ o # n /\ n = Other(o)
      /\ ChannelInv(n) /\ ChannelInv(o) /\ DirectionInv(n, o) /\ DirectionInv(o, n)
  BY <1>1, EndFacts
<1>3. /\ Open(n) /\ channel[n] # <<>> /\ Head(channel[n]).type = "secure-message"
      /\ conn'[n] = "ready" /\ conn'[o] = conn[o]
  BY <1>2, Receives DEF ReceiveSecureMessage
<1>4. /\ Bystander(n, o) /\ SameHolder(n) /\ SameChallenger(n) /\ asked' = asked
      /\ situation' = situation /\ Taking(n)
  BY <1>2, <1>3 DEF ReceiveSecureMessage, Bystander, SameChallenger, SameHolder
<1>5. /\ channel'[o] = channel[o] /\ SoundQueue(channel'[n])
      /\ \A type \in ToHolder \cup ToChallenger : On(channel'[n], type) <=> On(channel[n], type)
      /\ Ready(channel'[n], Verified(chal[n]), Verified(hold[n]))
  <2>1. ToHolder \cup ToChallenger \subseteq MessageType \ {"secure-message"}
    BY DEF ToHolder, ToChallenger, MessageType
  <2>2. Verified(hold[n]) \in BOOLEAN
    BY DEF Verified
  <2> QED
    BY <1>1, <1>2, <1>3, <1>4, <2>1, <2>2, TakesOne
<1>6. ChannelInv(n)'
  BY <1>2, <1>3, <1>4, <1>5, ChannelOfOpen DEF ChannelInv, Verified, SameHolder, SameChallenger
<1>7. ChannelInv(o)'
  BY <1>2, <1>4, <1>5, ChannelOfBystander
<1>8. DirectionInv(n, o)' /\ DirectionInv(o, n)'
  BY <1>2, <1>3, <1>4, <1>5, SameDirection DEF SameEnds, Bystander, Open
<1> QED
  BY <1>1, <1>2, <1>6, <1>7, <1>8, TwoEnds

LEMMA SendSecurelyKeeps ==
    ASSUME SecureAgentInv, TypeOK', NEW n \in Node, SendSecurely(n)
    PROVE  SecureAgentInv'
<1>1. PICK o : o = Other(n)
  OBVIOUS
<1>2. /\ TypeOK /\ o \in Node /\ o # n /\ n = Other(o)
      /\ ChannelInv(n) /\ ChannelInv(o) /\ DirectionInv(n, o) /\ DirectionInv(o, n)
  BY <1>1, EndFacts
<1>3. /\ Open(n) /\ Verified(chal[n]) /\ Verified(hold[n]) /\ chal[n].secret = 1 /\ hold[n].secret = 1
      /\ Open(o) => Verified(chal[o]) /\ (Verified(hold[o]) \/ On(channel[o], "challenge-result"))
  BY <1>2 DEF SendSecurely, MaySend, Verified, DirectionInv, HolderInv, ChallengerInv, BothInv, Open
<1>4. /\ Bystander(n, o) /\ SameHolder(n) /\ SameChallenger(n) /\ conn' = conn /\ asked' = asked
      /\ situation' = situation
  BY DEF SendSecurely, Bystander, SameChallenger, SameHolder
<1>5. PICK msg \in AnyMessage : /\ msg.type = "secure-message" /\ Sound(msg)
                                /\ Sending(n, <<msg>>)
  <2>1. /\ Message("secure-message", 1, 1, TRUE) \in AnyMessage
        /\ Sound(Message("secure-message", 1, 1, TRUE))
        /\ Message("secure-message", 1, 1, TRUE).type = "secure-message"
    BY Plains DEF MessageType, Message, Sound
  <2> QED
    BY <1>3, <2>1 DEF SendSecurely
<1>6. /\ channel'[n] = channel[n] /\ (~ Open(o) => channel'[o] = channel[o])
      /\ \A type : On(channel'[o], type) <=> On(channel[o], type) \/ (Open(o) /\ type = "secure-message")
      /\ Open(o) => /\ SoundQueue(channel'[o])
                    /\ Ready(channel'[o], Verified(chal[o]), Verified(hold[o]))
  <2>1. SoundQueue(channel[o]) /\ Ready(channel[o], Verified(chal[o]), Verified(hold[o]))
    BY <1>2 DEF ChannelInv
  <2>2. Verified(chal[o]) \in BOOLEAN /\ Verified(hold[o]) \in BOOLEAN
    BY DEF Verified
  <2> QED
    BY <1>1, <1>2, <1>3, <1>5, <2>1, <2>2, SendsOne
<1>7. ChannelInv(n)'
  BY <1>2, <1>3, <1>4, <1>6, ChannelOfOpen DEF ChannelInv, Verified, SameHolder, SameChallenger, Open
<1>8. ChannelInv(o)'
  BY <1>2, <1>4, <1>6, ChannelOfBystander
<1>9. DirectionInv(n, o)' /\ DirectionInv(o, n)'
  <2>1. \A type \in ToHolder \cup ToChallenger : On(channel'[o], type) <=> On(channel[o], type)
    BY <1>6 DEF ToHolder, ToChallenger
  <2> QED
    BY <1>2, <1>4, <1>6, <2>1, SameDirection DEF SameEnds, Bystander
<1> QED
  BY <1>1, <1>2, <1>7, <1>8, <1>9, TwoEnds

LEMMA BecomeReadyKeeps ==
    ASSUME SecureAgentInv, TypeOK', NEW n \in Node, BecomeReady(n)
    PROVE  SecureAgentInv'
<1>1. PICK o : o = Other(n)
  OBVIOUS
<1>2. /\ TypeOK /\ o \in Node /\ o # n /\ n = Other(o)
      /\ ChannelInv(n) /\ ChannelInv(o) /\ DirectionInv(n, o) /\ DirectionInv(o, n)
  BY <1>1, EndFacts
<1>3. /\ Bystander(n, o) /\ SameHolder(n) /\ SameChallenger(n) /\ asked' = asked
      /\ situation' = situation /\ channel' = channel
      /\ conn[n] = "establishing" /\ conn'[n] = "ready" /\ conn'[o] = conn[o]
  BY <1>2 DEF BecomeReady, Bystander, SameChallenger, SameHolder, TypeOK
<1>4. ChannelInv(n)'
  BY <1>2, <1>3, ChannelOfOpen DEF ChannelInv, Verified, SameHolder, SameChallenger
<1>5. ChannelInv(o)'
  BY <1>2, <1>3, ChannelOfBystander
<1>6. DirectionInv(n, o)' /\ DirectionInv(o, n)'
  BY <1>2, <1>3, SameDirection DEF SameEnds, Bystander
<1> QED
  BY <1>1, <1>2, <1>4, <1>5, <1>6, TwoEnds

LEMMA CloseKeeps ==
    ASSUME SecureAgentInv, TypeOK', NEW n \in Node, Close(n)
    PROVE  SecureAgentInv'
<1>1. PICK o : o = Other(n)
  OBVIOUS
<1>2. /\ TypeOK /\ o \in Node /\ o # n /\ n = Other(o)
      /\ ChannelInv(n) /\ ChannelInv(o) /\ DirectionInv(n, o) /\ DirectionInv(o, n)
  BY <1>1, EndFacts
<1>3. /\ Bystander(n, o) /\ asked' = asked /\ made' = made
      /\ situation' = situation /\ channel'[o] = channel[o] /\ conn'[n] = "closed"
  <2>1. channel'[o] = channel[o]
    BY <1>2 DEF Close, TypeOK
  <2> QED
    BY <1>2, <2>1 DEF Close, Bystander, SameChallenger, SameHolder, TypeOK
<1>4. /\ chal'[n] = Unsecured /\ hold'[n] = Unsecured /\ encrypting'[n] = {} /\ challenges'[n] = 0
      /\ decrypting'[n] = <<>> /\ answers'[n] = 0 /\ channel'[n] = <<>>
  <2>1. channel'[n] = <<>> /\ decrypting'[n] = <<>>
    BY <1>2 DEF Close, TypeOK
  <2> QED
    BY <1>2, <2>1 DEF Close, TypeOK
<1>5. \A type : ~ On(channel[n], type)'
  BY <1>4, NothingOnEmpty, OnNext
<1>6. ChannelInv(n)'
  <2>1. SoundQueue(channel[n])'
    <3>1. SoundQueue(channel'[n])
      BY <1>4, NothingOnEmpty
    <3> QED
      BY <3>1 DEF SoundQueue, Once
  <2>2. Ready(channel[n], Verified(chal[n]), Verified(hold[n]))'
    <3>1. Len(channel'[n]) = 0 /\ 1 .. 0 = {}
      BY <1>4
    <3> QED
      BY <3>1 DEF Ready
  <2> QED
    BY <1>2, <1>3, <1>4, <2>1, <2>2 DEF ChannelInv
<1>7. ChannelInv(o)'
  BY <1>2, <1>3, ChannelOfBystander
<1>8. ~ InMaking(n)' /\ ~ InHand(n)' /\ ~ Open(n)'
  BY <1>3, <1>4 DEF InMaking, InHand, Open
<1>9. HolderInv(o)' /\ ChallengerInv(o)'
  BY <1>2, <1>3, SameHolderInv, SameChallengerInv DEF DirectionInv, Bystander
<1>10. HolderInv(n)'
  BY <1>4, <1>5, <1>8 DEF HolderInv, Unsecured
<1>11. ChallengerInv(n)'
  <2>1. made[n] \in {0, 1}
    BY <1>2 DEF DirectionInv, ChallengerInv
  <2> QED
    BY <1>3, <1>4, <1>5, <1>8, <2>1 DEF ChallengerInv, Unsecured
<1>12. DirectionInv(n, o)' /\ DirectionInv(o, n)'
  BY <1>8, <1>9, <1>10, <1>11 DEF DirectionInv
<1> QED
  BY <1>1, <1>2, <1>6, <1>7, <1>12, TwoEnds

-----------------------------------------------------------------------------
(* Asking may send the identity that was requested, and a request.         *)

LEMMA MaybeSends ==
    ASSUME NEW q \in Seq(AnyMessage), NEW m, NEW msg \in AnyMessage, m = <<>> \/ m = <<msg>>
    PROVE  /\ m \in Seq(AnyMessage) /\ q \o m \in Seq(AnyMessage)
           /\ \A type : On(q \o m, type) <=> On(q, type) \/ (m # <<>> /\ msg.type = type)
           /\ /\ SoundQueue(q) /\ Sound(msg) /\ msg.type # "secure-message"
              /\ m # <<>> => ~ On(q, msg.type)
              => SoundQueue(q \o m) /\ \A v, w \in BOOLEAN : Ready(q, v, w) => Ready(q \o m, v, w)
<1>1. CASE m = <<>>
  <2>1. q \o m = q /\ m \in Seq(AnyMessage)
    <3> HIDE DEF AnyMessage
    <3> QED
      BY <1>1
  <2> QED
    BY <1>1, <2>1
<1>2. CASE m = <<msg>>
  <2>1. q \o m = Append(q, msg) /\ m \in Seq(AnyMessage)
    BY <1>2, Singles
  <2>2. Append(q, msg) \in Seq(AnyMessage) /\ m # <<>>
    <3>1. <<msg>> # <<>>
      OBVIOUS
    <3> QED
      BY <1>2, <3>1, Append1
  <2> QED
    BY <2>1, <2>2, Sends1
<1> QED
  BY <1>1, <1>2

LEMMA AskSends ==
    ASSUME TypeOK, NEW n \in Node, NEW o, o = Other(n), NEW m, Sending(n, Sends(n) \o m),
           m = <<>> \/ m = <<Plain("request-identity")>>,
           SoundQueue(channel[o]), Ready(channel[o], Verified(chal[o]), Verified(hold[o])),
           Open(o) /\ Sends(n) # <<>> => ~ On(channel[o], "send-identity"),
           Open(o) /\ m # <<>> => ~ On(channel[o], "request-identity")
    PROVE  /\ channel'[n] = channel[n] /\ (~ Open(o) => channel'[o] = channel[o])
           /\ \A type : On(channel'[o], type) <=>
                 \/ On(channel[o], type)
                 \/ Open(o) /\ type = "send-identity" /\ Sends(n) # <<>>
                 \/ Open(o) /\ type = "request-identity" /\ m # <<>>
           /\ Open(o) => SoundQueue(channel'[o]) /\ Ready(channel'[o], Verified(chal[o]), Verified(hold[o]))
<1> DEFINE i == Plain("send-identity")
           r == Plain("request-identity")
<1>1. /\ i \in AnyMessage /\ i.type = "send-identity" /\ Sound(i)
      /\ r \in AnyMessage /\ r.type = "request-identity" /\ Sound(r)
  BY Plains DEF MessageType, Plain, Message, Sound
<1>2. (Sends(n) = <<>> \/ Sends(n) = <<i>>) /\ (m = <<>> \/ m = <<r>>)
  BY DEF Sends
<1> HIDE DEF i, r
<1>3. o \in Node /\ o # n
  BY Ends
<1>4. channel[o] \in Seq(AnyMessage) /\ channel \in [Node -> Seq(AnyMessage)]
  BY <1>3 DEF TypeOK, AnyMessage
<1> DEFINE q == channel[o] \o Sends(n)
<1>5. /\ Sends(n) \in Seq(AnyMessage) /\ q \in Seq(AnyMessage)
      /\ \A type : On(q, type) <=> On(channel[o], type) \/ (Sends(n) # <<>> /\ type = "send-identity")
      /\ Open(o) =>
            SoundQueue(q) /\ \A v, w \in BOOLEAN : Ready(channel[o], v, w) => Ready(q, v, w)
  <2>1. /\ Sends(n) \in Seq(AnyMessage) /\ q \in Seq(AnyMessage)
        /\ \A type : On(q, type) <=> On(channel[o], type) \/ (Sends(n) # <<>> /\ i.type = type)
        /\ SoundQueue(channel[o]) /\ Sound(i) /\ i.type # "secure-message"
              /\ (Sends(n) # <<>> => ~ On(channel[o], i.type))
           => SoundQueue(q) /\ \A v, w \in BOOLEAN : Ready(channel[o], v, w) => Ready(q, v, w)
    BY <1>1, <1>2, <1>4, MaybeSends
  <2> HIDE DEF q
  <2> QED
    BY <1>1, <2>1
<1> HIDE DEF q
<1>6. /\ m \in Seq(AnyMessage)
      /\ \A type : On(q \o m, type) <=> On(q, type) \/ (m # <<>> /\ type = "request-identity")
      /\ Open(o) =>
            SoundQueue(q \o m) /\ \A v, w \in BOOLEAN : Ready(q, v, w) => Ready(q \o m, v, w)
  BY <1>1, <1>2, <1>5, MaybeSends
<1>7. channel'[n] = channel[n] /\ channel'[o] = IF Open(o) THEN q \o m ELSE channel[o]
  <2> HIDE DEF AnyMessage
  <2>1. channel[o] \o (Sends(n) \o m) = q \o m
    <3>1. \A a, b, c \in Seq(AnyMessage) : (a \o b) \o c = a \o (b \o c)
      BY ConcatAssociative
    <3> QED
      BY <1>4, <1>5, <1>6, <3>1 DEF q
  <2>2. channel'[o] = IF conn[o] = "closed" THEN channel[o] ELSE channel[o] \o (Sends(n) \o m)
    BY <1>3, <1>4 DEF Sending
  <2>3. channel'[n] = channel[n]
    BY <1>3, <1>4 DEF Sending
  <2> QED
    BY <2>1, <2>2, <2>3 DEF Open
<1>8. Verified(chal[o]) \in BOOLEAN /\ Verified(hold[o]) \in BOOLEAN
  BY DEF Verified
<1>9. CASE Open(o)
  BY <1>5, <1>6, <1>7, <1>8, <1>9
<1>10. CASE ~ Open(o)
  BY <1>7, <1>10
<1> QED
  BY <1>9, <1>10

(* What asking does to the end as a challenger: it challenges, it requests *)
(* the identity, it waits for the connection, or it has begun already.     *)
LEMMA AskChallenges ==
    ASSUME SecureAgentInv, OneChallenge, NEW n \in Node, NEW u \in situation.users, Ask(n, u)
    PROVE  \E m :
        /\ m = <<>> \/ m = <<Plain("request-identity")>>
        /\ Sending(n, Sends(n) \o m)
        /\ \/ /\ conn[n] = "ready" /\ chal[n].status = "nil" /\ m = <<>>
              /\ made[n] = 0 /\ ~ InMaking(n) /\ situation.known # {}
              /\ chal'[n].status = "nil" /\ chal'[n].secret = 1
              /\ made'[n] = 1 /\ encrypting'[n] = {1}
           \/ /\ conn[n] = "ready" /\ chal[n].status = "nil" /\ m # <<>>
              /\ made[n] = 0 /\ ~ InMaking(n)
              /\ chal'[n].status = "sent-identity-request"
              /\ made'[n] = 0 /\ encrypting'[n] = encrypting[n]
           \/ /\ conn[n] = "establishing" /\ chal[n].status \in {"nil", "waiting-to-challenge"} /\ m = <<>>
              /\ ~ InMaking(n) /\ made[n] = 0
              /\ chal'[n].status = "waiting-to-challenge"
              /\ made'[n] = made[n] /\ encrypting'[n] = encrypting[n]
           \/ /\ conn[n] = "ready" /\ chal[n].status # "nil" /\ m = <<>>
              /\ chal'[n].status = chal[n].status /\ chal'[n].secret = chal[n].secret
              /\ chal'[n].encryptedSecret = chal[n].encryptedSecret
              /\ made'[n] = made[n] /\ encrypting'[n] = encrypting[n]
<1>1. TypeOK /\ ChannelInv(n) /\ ChallengerInv(n)
  BY EndFacts DEF DirectionInv
<1>2. chal[n] \in Side(ChallengerStatus) /\ chal[n].status # "identity-rejected" /\ situation \in Situations
  BY <1>1 DEF TypeOK, ChallengerInv
<1>3. u \notin asked[n] /\ asked[n] \subseteq situation.users
  BY <1>1 DEF Ask, ChannelInv
<1>4. situation.known # {} => asked[n] = {}
  BY <1>2, <1>3 DEF OneChallenge
<1>5. conn[n] \in {"ready", "establishing"}
  BY DEF Ask
<1> DEFINE k == chal[n].identity \/ n \in situation.known
           c == [chal[n] EXCEPT !.identity = k]
           d == [c EXCEPT !.secret = made[n] + 1]
           e == [c EXCEPT !.status = "sent-identity-request"]
           w == [c EXCEPT !.status = "waiting-to-challenge"]
<1>6. /\ c = [chal[n] EXCEPT !.identity = @ \/ n \in situation.known]
      /\ c.identity = k /\ c.status = chal[n].status /\ c.secret = chal[n].secret
      /\ c.encryptedSecret = chal[n].encryptedSecret /\ c \in Side(ChallengerStatus)
  <2>1. k \in BOOLEAN
    BY <1>2 DEF Side
  <2> QED
    BY <1>2, <2>1 DEF Side
<1> HIDE DEF c
<1>7. /\ d.status = chal[n].status /\ d.secret = made[n] + 1
      /\ e.status = "sent-identity-request" /\ w.status = "waiting-to-challenge"
  BY <1>6 DEF Side
<1> HIDE DEF d, e, w
<1>8. SecureForSending(n)
  BY DEF Ask
<1>9. chal[n].status = "nil" /\ conn[n] = "ready" =>
          ~ InMaking(n) /\ made[n] = 0 /\ encrypting[n] = {} /\ (k => situation.known # {})
  BY <1>1, <1>4 DEF ChallengerInv, InMaking, Open
<1>10. CASE conn[n] = "ready" /\ Starts(c) /\ c.identity
  <2>1. chal[n].status = "nil"
    BY <1>2, <1>6, <1>10 DEF Starts
  <2>2. /\ chal' = [chal EXCEPT ![n] = d] /\ made' = [made EXCEPT ![n] = @ + 1]
        /\ encrypting' = [encrypting EXCEPT ![n] = @ \cup {made[n] + 1}]
        /\ Sending(n, Sends(n) \o <<>>)
    BY <1>6, <1>8, <1>10 DEF SecureForSending, Challenging, d
  <2>3. made[n] + 1 = 1
    BY <1>9, <1>10, <2>1
  <2>4. /\ chal'[n].status = "nil" /\ chal'[n].secret = 1
        /\ made'[n] = 1 /\ encrypting'[n] = {1}
    <3>1. chal'[n] = d
      BY <1>1, <2>2 DEF TypeOK
    <3>2. made'[n] = made[n] + 1 /\ encrypting'[n] = encrypting[n] \cup {made[n] + 1}
      BY <1>1, <2>2 DEF TypeOK
    <3> QED
      BY <1>7, <1>9, <1>10, <2>1, <2>3, <3>1, <3>2
  <2> WITNESS <<>>
  <2> QED
    BY <1>6, <1>9, <1>10, <2>1, <2>2, <2>4
<1>11. CASE conn[n] = "ready" /\ Starts(c) /\ ~ c.identity
  <2> DEFINE m == <<Plain("request-identity")>>
  <2>1. chal[n].status = "nil"
    BY <1>2, <1>6, <1>11 DEF Starts
  <2>2. /\ chal' = [chal EXCEPT ![n] = e] /\ made' = made /\ encrypting' = encrypting
        /\ Sending(n, Sends(n) \o m)
    BY <1>6, <1>8, <1>11 DEF SecureForSending, Challenging, e
  <2>3. chal'[n] = e
    BY <1>1, <2>2 DEF TypeOK
  <2>4. m # <<>>
    OBVIOUS
  <2> WITNESS m
  <2> HIDE DEF m
  <2> QED
    BY <1>7, <1>9, <1>11, <2>1, <2>2, <2>3, <2>4 DEF m
<1>12. CASE ~ (conn[n] = "ready" /\ Starts(c))
  <2>1. /\ chal' = [chal EXCEPT ![n] = IF conn[n] = "establishing" THEN w ELSE c]
        /\ made' = made /\ encrypting' = encrypting /\ Sending(n, Sends(n))
    BY <1>6, <1>8, <1>12 DEF SecureForSending, w
  <2>2. Sends(n) \o <<>> = Sends(n)
    <3>1. \A x : <<x>> \o <<>> = <<x>>
      OBVIOUS
    <3> QED
      BY <3>1 DEF Sends
  <2>3. chal'[n] = IF conn[n] = "establishing" THEN w ELSE c
    BY <1>1, <2>1 DEF TypeOK
  <2> WITNESS <<>>
  <2>4. CASE conn[n] = "establishing"
    <3>1. chal[n].status \in {"nil", "waiting-to-challenge"} /\ ~ InMaking(n) /\ made[n] = 0
      BY <1>1, <2>4 DEF ChallengerInv, Open
    <3> QED
      BY <1>7, <2>1, <2>2, <2>3, <2>4, <3>1
  <2>5. CASE conn[n] = "ready"
    <3>1. chal[n].status # "nil"
      BY <1>6, <1>12, <2>5 DEF Starts
    <3> QED
      BY <1>6, <2>1, <2>2, <2>3, <2>5, <3>1
  <2> QED
    BY <1>5, <2>4, <2>5
<1> QED
  BY <1>10, <1>11, <1>12

(* What it does to the end as a holder.                                    *)
LEMMA AskHolds ==
    ASSUME SecureAgentInv, OneChallenge, NEW n \in Node, NEW u \in situation.users, Ask(n, u)
    PROVE  /\ hold'[n].secret = hold[n].secret /\ hold'[n].encryptedSecret = hold[n].encryptedSecret
           /\ hold'[n].status = CASE hold[n].status = "received-unexpected-identity-request" -> "sent-identity"
                                  [] hold[n].status = "nil" -> "expecting-challenge"
                                  [] OTHER -> hold[n].status
           /\ IF hold[n].status = "received-unexpected-challenge"
              THEN ~ InHand(n) /\ decrypting'[n] = << 1 >>
              ELSE decrypting'[n] = decrypting[n]
           /\ answers' = answers /\ asked'[n] # {}
<1>1. TypeOK /\ ChannelInv(n) /\ HolderInv(n)
  BY EndFacts DEF DirectionInv
<1>2. hold[n] \in Side(HolderStatus) /\ situation \in Situations
  BY <1>1 DEF TypeOK
<1>3. u \notin asked[n] /\ asked[n] \subseteq situation.users /\ asked'[n] # {}
  BY <1>1 DEF Ask, ChannelInv, TypeOK
<1>4. situation.known # {} => asked[n] = {}
  BY <1>2, <1>3 DEF OneChallenge
<1>5. hold'[n] = Expects(hold[n]) /\ decrypting'[n] = TakesUp(n) /\ answers' = answers
  BY <1>1 DEF Ask, SecureForReceiving, TypeOK
<1>6. /\ Expects(hold[n]).secret = hold[n].secret
      /\ Expects(hold[n]).encryptedSecret = hold[n].encryptedSecret
      /\ Expects(hold[n]).status = CASE hold[n].status = "received-unexpected-identity-request" -> "sent-identity"
                                  [] hold[n].status = "nil" -> "expecting-challenge"
                                  [] OTHER -> hold[n].status
  BY <1>2 DEF Expects, Side
<1>7. CASE hold[n].status = "received-unexpected-challenge"
  <2>1. ~ InHand(n) /\ hold[n].encryptedSecret = 1
    BY <1>1, <1>4, <1>7 DEF HolderInv
  <2>2. decrypting[n] = <<>> /\ Append(<<>>, 1) = << 1 >>
    BY <2>1 DEF InHand
  <2> QED
    BY <1>3, <1>5, <1>6, <1>7, <2>1, <2>2 DEF TakesUp
<1>8. CASE hold[n].status # "received-unexpected-challenge"
  BY <1>3, <1>5, <1>6, <1>8 DEF TakesUp
<1> QED
  BY <1>7, <1>8

LEMMA AskKeeps ==
    ASSUME SecureAgentInv, TypeOK', OneChallenge, NEW n \in Node, NEW u \in situation.users, Ask(n, u)
    PROVE  SecureAgentInv'
<1>1. PICK o : o = Other(n)
  OBVIOUS
<1>2. /\ TypeOK /\ o \in Node /\ o # n /\ n = Other(o)
      /\ ChannelInv(n) /\ ChannelInv(o) /\ DirectionInv(n, o) /\ DirectionInv(o, n)
  BY <1>1, EndFacts
<1>3. PICK m :
        /\ m = <<>> \/ m = <<Plain("request-identity")>>
        /\ Sending(n, Sends(n) \o m)
        /\ \/ /\ conn[n] = "ready" /\ chal[n].status = "nil" /\ m = <<>>
              /\ made[n] = 0 /\ ~ InMaking(n) /\ situation.known # {}
              /\ chal'[n].status = "nil" /\ chal'[n].secret = 1
              /\ made'[n] = 1 /\ encrypting'[n] = {1}
           \/ /\ conn[n] = "ready" /\ chal[n].status = "nil" /\ m # <<>>
              /\ made[n] = 0 /\ ~ InMaking(n)
              /\ chal'[n].status = "sent-identity-request"
              /\ made'[n] = 0 /\ encrypting'[n] = encrypting[n]
           \/ /\ conn[n] = "establishing" /\ chal[n].status \in {"nil", "waiting-to-challenge"} /\ m = <<>>
              /\ ~ InMaking(n) /\ made[n] = 0
              /\ chal'[n].status = "waiting-to-challenge"
              /\ made'[n] = made[n] /\ encrypting'[n] = encrypting[n]
           \/ /\ conn[n] = "ready" /\ chal[n].status # "nil" /\ m = <<>>
              /\ chal'[n].status = chal[n].status /\ chal'[n].secret = chal[n].secret
              /\ chal'[n].encryptedSecret = chal[n].encryptedSecret
              /\ made'[n] = made[n] /\ encrypting'[n] = encrypting[n]
  BY AskChallenges
<1>4. /\ hold'[n].secret = hold[n].secret /\ hold'[n].encryptedSecret = hold[n].encryptedSecret
      /\ hold'[n].status = CASE hold[n].status = "received-unexpected-identity-request" -> "sent-identity"
                             [] hold[n].status = "nil" -> "expecting-challenge"
                             [] OTHER -> hold[n].status
      /\ IF hold[n].status = "received-unexpected-challenge"
         THEN ~ InHand(n) /\ decrypting'[n] = << 1 >>
         ELSE decrypting'[n] = decrypting[n]
      /\ answers' = answers /\ asked'[n] # {}
  BY AskHolds
<1>5. /\ HolderInv(n) /\ HolderInv(o) /\ ChallengerInv(n) /\ ChallengerInv(o)
      /\ Open(n) /\ conn' = conn /\ challenges' = challenges /\ situation' = situation
      /\ Open(o) => BothInv(n, o) /\ BothInv(o, n)
  BY <1>2 DEF DirectionInv, Ask, Open
<1>6. Bystander(n, o) /\ asked[n] \subseteq asked'[n] /\ asked'[n] \subseteq situation.users
  <2>1. chal'[o] = chal[o] /\ made'[o] = made[o] /\ encrypting'[o] = encrypting[o]
    <3>1. SecureForSending(n)
      BY DEF Ask
    <3> QED
      BY <1>2, <3>1 DEF SecureForSending, Challenging, TypeOK
  <2>2. hold'[o] = hold[o] /\ decrypting'[o] = decrypting[o]
    BY <1>2 DEF Ask, SecureForReceiving, TypeOK
  <2>3. asked'[n] = asked[n] \cup {u} /\ asked'[o] = asked[o]
    BY <1>2 DEF Ask, TypeOK
  <2>4. asked[n] \subseteq situation.users
    BY <1>2 DEF ChannelInv
  <2> QED
    BY <1>4, <1>5, <2>1, <2>2, <2>3, <2>4 DEF Ask, Bystander, SameChallenger, SameHolder
<1>7. Sends(n) # <<>> <=> hold[n].status = "received-unexpected-identity-request"
  <2>1. <<Plain("send-identity")>> # <<>>
    OBVIOUS
  <2> QED
    BY <2>1 DEF Sends
<1>8. Open(o) =>
        /\ Sends(n) # <<>> => /\ chal[o].status = "sent-identity-request" /\ made[o] = 0
                              /\ ~ On(channel[o], "send-identity")
        /\ m # <<>> => /\ hold[o].status \in {"nil", "expecting-challenge"} /\ ~ InHand(o)
                       /\ ~ On(channel[o], "request-identity") /\ ~ On(channel[o], "send-challenge")
                       /\ ~ On(channel[o], "challenge-result") /\ ~ On(channel[n], "send-identity")
  BY <1>3, <1>5, <1>7 DEF BothInv, ChallengerInv
<1>9. /\ channel'[n] = channel[n] /\ (~ Open(o) => channel'[o] = channel[o])
      /\ \A type : On(channel'[o], type) <=>
            \/ On(channel[o], type)
            \/ Open(o) /\ type = "send-identity" /\ Sends(n) # <<>>
            \/ Open(o) /\ type = "request-identity" /\ m # <<>>
      /\ Open(o) => SoundQueue(channel'[o]) /\ Ready(channel'[o], Verified(chal[o]), Verified(hold[o]))
  <2>1. SoundQueue(channel[o]) /\ Ready(channel[o], Verified(chal[o]), Verified(hold[o]))
    BY <1>2 DEF ChannelInv
  <2>2. /\ Open(o) /\ Sends(n) # <<>> => ~ On(channel[o], "send-identity")
        /\ Open(o) /\ m # <<>> => ~ On(channel[o], "request-identity")
    BY <1>8
  <2>3. Sending(n, Sends(n) \o m) /\ (m = <<>> \/ m = <<Plain("request-identity")>>)
    BY <1>3
  <2> QED
    BY <1>1, <1>2, <2>1, <2>2, <2>3, AskSends
<1>10. ChannelInv(n)'
  <2>1. /\ Verified(chal[n]) => chal'[n].status = "identity-verified"
        /\ Verified(hold[n]) => hold'[n].status = "identity-verified"
    BY <1>3, <1>4 DEF Verified
  <2>2. Verified(chal[n]) \in BOOLEAN /\ Verified(hold[n]) \in BOOLEAN
        /\ (chal'[n].status = "identity-verified") \in BOOLEAN
        /\ (hold'[n].status = "identity-verified") \in BOOLEAN
    BY DEF Verified
  <2>3. Ready(channel'[n], chal'[n].status = "identity-verified", hold'[n].status = "identity-verified")
    BY <1>2, <1>9, <2>1, <2>2, ReadyStays DEF ChannelInv
  <2> QED
    BY <1>2, <1>5, <1>6, <1>9, <2>3, ChannelOfOpen DEF ChannelInv, Open
<1>11. ChannelInv(o)'
  BY <1>2, <1>6, <1>9, ChannelOfBystander
<1>12. /\ \A type : On(channel[n], type)' <=> On(channel[n], type)
       /\ On(channel[o], "request-identity")' <=> On(channel[o], "request-identity") \/ (Open(o) /\ m # <<>>)
       /\ On(channel[o], "send-identity")' <=> On(channel[o], "send-identity") \/ (Open(o) /\ Sends(n) # <<>>)
       /\ On(channel[o], "send-challenge")' <=> On(channel[o], "send-challenge")
       /\ On(channel[o], "challenge-result")' <=> On(channel[o], "challenge-result")
       /\ On(channel[o], "answer-challenge")' <=> On(channel[o], "answer-challenge")
  BY <1>9, OnNext
<1>13. /\ InHand(o)' <=> InHand(o)
       /\ InMaking(o)' <=> InMaking(o)
       /\ Open(n)' /\ (Open(o)' <=> Open(o))
  BY <1>5, <1>6 DEF InHand, InMaking, Bystander, SameChallenger, SameHolder, Open
<1>14. InHand(n)' <=> InHand(n) \/ hold[n].status = "received-unexpected-challenge"
  <2>1. << 1 >> # <<>>
    OBVIOUS
  <2> QED
    BY <1>4, <2>1 DEF InHand
<1>15. HolderInv(o)'
  BY <1>5, <1>6, <1>8, <1>12, <1>13 DEF HolderInv, Bystander, SameHolder
<1>16. ChallengerInv(o)'
  BY <1>5, <1>6, <1>8, <1>12, <1>13 DEF ChallengerInv, Bystander, SameChallenger
<1>17. HolderInv(n)'
  <2>1. CASE hold[n].status = "received-unexpected-challenge"
    <3>1. answers'[n] = 0 /\ decrypting'[n] = << 1 >> /\ hold'[n].status = "received-unexpected-challenge"
      BY <1>4, <1>5, <2>1 DEF HolderInv, InHand
    <3> QED
      BY <1>4, <1>5, <1>12, <2>1, <3>1 DEF HolderInv
  <2>2. CASE hold[n].status # "received-unexpected-challenge"
    <3>1. decrypting'[n] = decrypting[n] /\ answers'[n] = answers[n] /\ (InHand(n)' <=> InHand(n))
      BY <1>4, <1>14, <2>2
    <3> QED
      BY <1>4, <1>5, <1>12, <2>2, <3>1 DEF HolderInv
  <2> QED
    BY <2>1, <2>2
<1>18. InMaking(n)' <=> InMaking(n) \/ made'[n] # made[n]
  BY <1>3, <1>5 DEF InMaking
<1>19. ChallengerInv(n)'
  <2>1. ~ InMaking(n) => encrypting[n] = {} /\ challenges[n] = 0 /\ challenges'[n] = 0
    BY <1>5 DEF InMaking, ChallengerInv
  <2>2. CASE chal[n].status = "nil" /\ m = <<>> /\ conn[n] = "ready"
    BY <1>3, <1>4, <1>5, <1>12, <1>18, <2>1, <2>2 DEF ChallengerInv
  <2>3. CASE m # <<>>
    BY <1>3, <1>5, <1>12, <1>18, <2>1, <2>3 DEF ChallengerInv
  <2>4. CASE conn[n] = "establishing"
    BY <1>3, <1>5, <1>12, <1>18, <2>1, <2>4 DEF ChallengerInv
  <2>5. CASE chal[n].status # "nil" /\ conn[n] = "ready"
    BY <1>3, <1>5, <1>12, <1>13, <1>18, <2>5 DEF ChallengerInv
  <2> QED
    BY <1>3, <2>2, <2>3, <2>4, <2>5
<1>20. ASSUME Open(o) PROVE BothInv(n, o)'
  BY <1>3, <1>5, <1>6, <1>8, <1>12, <1>13, <1>18, <1>20 DEF BothInv, Bystander, SameHolder
<1>21. ASSUME Open(o) PROVE BothInv(o, n)'
  <2>1. /\ chal'[o] = chal[o] /\ made'[o] = made[o]
    BY <1>6 DEF Bystander, SameChallenger
  <2>2. CASE hold[n].status = "received-unexpected-identity-request"
    <3>1. ~ InHand(n) /\ ~ InHand(n)' /\ hold'[n].status = "sent-identity"
      BY <1>4, <1>5, <1>14, <2>2 DEF HolderInv
    <3> QED
      BY <1>5, <1>7, <1>8, <1>12, <1>13, <1>21, <2>1, <2>2, <3>1 DEF BothInv, HolderInv
  <2>3. CASE hold[n].status = "nil"
    <3>1. hold'[n].status = "expecting-challenge" /\ (InHand(n)' <=> InHand(n))
      BY <1>4, <1>14, <2>3
    <3> QED
      BY <1>5, <1>7, <1>12, <1>13, <1>21, <2>1, <2>3, <3>1 DEF BothInv
  <2>4. CASE hold[n].status \notin {"nil", "received-unexpected-identity-request"}
    <3>1. hold'[n].status = hold[n].status
      BY <1>4, <2>4
    <3> QED
      BY <1>5, <1>7, <1>12, <1>13, <1>14, <1>21, <2>1, <2>4, <3>1 DEF BothInv
  <2> QED
    BY <2>2, <2>3, <2>4
<1>22. DirectionInv(n, o)' /\ DirectionInv(o, n)'
  BY <1>13, <1>15, <1>16, <1>17, <1>19, <1>20, <1>21 DEF DirectionInv
<1> QED
  BY <1>1, <1>2, <1>10, <1>11, <1>22, TwoEnds

-----------------------------------------------------------------------------
LEMMA InvInit == Init => SecureAgentInv
<1> SUFFICES ASSUME Init PROVE SecureAgentInv
  OBVIOUS
<1>1. TypeOK
  BY TypeInit
<1>2. ASSUME NEW n \in Node
      PROVE  /\ SoundQueue(channel[n]) /\ (\A type : ~ On(channel[n], type))
             /\ \A v, w \in BOOLEAN : Ready(channel[n], v, w)
             /\ conn[n] = "establishing" /\ chal[n] = Unsecured /\ hold[n] = Unsecured
             /\ encrypting[n] = {} /\ challenges[n] = 0 /\ decrypting[n] = <<>> /\ answers[n] = 0
             /\ made[n] = 0 /\ asked[n] = {}
  <2>1. channel[n] = <<>>
    BY DEF Init
  <2> QED
    BY <2>1, NothingOnEmpty DEF Init
<1>3. ASSUME NEW n \in Node PROVE ChannelInv(n)
  BY <1>2 DEF ChannelInv, Verified, Open
<1>4. ASSUME NEW n \in Node PROVE DirectionInv(n, Other(n))
  <2>1. Other(n) \in Node
    BY Ends
  <2>2. HolderInv(Other(n))
    BY <1>2, <2>1 DEF HolderInv, InHand, Unsecured
  <2>3. ChallengerInv(n)
    BY <1>2 DEF ChallengerInv, InMaking, Unsecured
  <2>4. BothInv(n, Other(n))
    <3>1. PICK o : o = Other(n)
      OBVIOUS
    <3>2. ~ InHand(o) /\ ~ InMaking(n)
      BY <1>2, <2>1, <3>1 DEF InHand, InMaking
    <3>3. chal[n].status = "nil" /\ hold[o].status = "nil"
      BY <1>2, <2>1, <3>1 DEF Unsecured
    <3>4. \A type : ~ On(channel[n], type) /\ ~ On(channel[o], type)
      BY <1>2, <2>1, <3>1
    <3>5. BothInv(n, o)
      BY <3>2, <3>3, <3>4 DEF BothInv
    <3> QED
      BY <3>1, <3>5
  <2> QED
    BY <2>2, <2>3, <2>4 DEF DirectionInv
<1> QED
  BY <1>1, <1>3, <1>4 DEF SecureAgentInv

LEMMA InvStutters ==
    ASSUME SecureAgentInv, UNCHANGED vars
    PROVE  SecureAgentInv'
<1>1. TypeOK'
  BY DEF SecureAgentInv, TypeOK, vars
<1>2. PICK n \in Node : TRUE
  BY NodeAssumption
<1>3. PICK o : o = Other(n)
  OBVIOUS
<1>4. /\ TypeOK /\ o \in Node /\ o # n /\ n = Other(o)
      /\ ChannelInv(n) /\ ChannelInv(o) /\ DirectionInv(n, o) /\ DirectionInv(o, n)
  BY <1>3, EndFacts
<1>5. /\ SameEnds(n, o) /\ SameEnds(o, n) /\ SameChallenger(n) /\ SameChallenger(o)
      /\ SameHolder(n) /\ SameHolder(o) /\ Bystander(n, o) /\ Bystander(o, n) /\ channel' = channel
  BY DEF vars, SameEnds, SameChallenger, SameHolder, Bystander
<1> QED
  BY <1>1, <1>3, <1>4, <1>5, SameDirection, ChannelOfBystander, TwoEnds

LEMMA InvStep ==
    ASSUME OneChallenge, SecureAgentInv, [Next]_vars
    PROVE  SecureAgentInv'
<1>1. TypeOK'
  BY TypeStep
<1>2. CASE UNCHANGED vars
  BY <1>2, InvStutters
<1>3. ASSUME NEW n \in Node, \E u \in situation.users : Ask(n, u) PROVE SecureAgentInv'
  BY <1>1, <1>3, AskKeeps
<1>4. ASSUME NEW n \in Node, Crypto(n) PROVE SecureAgentInv'
  BY <1>1, <1>4, EncryptKeeps, SendChallengeKeeps, DecryptKeeps, AnswerKeeps DEF Crypto
<1>5. ASSUME NEW n \in Node, ReceiveMessage(n) PROVE SecureAgentInv'
  BY <1>1, <1>5, RequestIdentityKeeps, SendChallengeReceivedKeeps, ChallengeResultKeeps,
     SendIdentityKeeps, AnswerReceivedKeeps, SecureMessageKeeps DEF ReceiveMessage
<1>6. ASSUME NEW n \in Node, SendSecurely(n) PROVE SecureAgentInv'
  BY <1>1, <1>6, SendSecurelyKeeps
<1>7. ASSUME NEW n \in Node, ConnectionStatusChange(n) PROVE SecureAgentInv'
  BY <1>1, <1>7, BecomeReadyKeeps, CloseKeeps DEF ConnectionStatusChange
<1> QED
  BY <1>2, <1>3, <1>4, <1>5, <1>6, <1>7 DEF Next

LEMMA InvAccepts ==
    ASSUME SecureAgentInv
    PROVE  SecureMessagesAccepted
<1> SUFFICES ASSUME NEW n \in Node, Open(n), channel[n] # <<>>, Head(channel[n]).type = "secure-message"
             PROVE  /\ Verified(hold[n]) /\ hold[n].secret = Head(channel[n]).secret
                    /\ Verified(chal[n]) /\ chal[n].secret = Head(channel[n]).mac
  BY DEF SecureMessagesAccepted, Open
<1>1. /\ TypeOK /\ ChannelInv(n) /\ HolderInv(n) /\ ChallengerInv(n)
  BY EndFacts DEF DirectionInv
<1>2. Head(channel[n]).secret = 1 /\ Head(channel[n]).mac = 1
  BY <1>1, FirstMessage DEF Sound
<1>3. Verified(chal[n]) /\ Verified(hold[n])
  <2>1. channel[n] \in Seq(AnyMessage) /\ SoundQueue(channel[n])
    BY <1>1 DEF TypeOK, AnyMessage, ChannelInv
  <2>2. Verified(chal[n]) \in BOOLEAN /\ Verified(hold[n]) \in BOOLEAN
    BY DEF Verified
  <2> HIDE DEF AnyMessage
  <2> QED
    BY <1>1, <2>1, <2>2, Takes1 DEF ChannelInv
<1>4. chal[n].secret = 1 /\ hold[n].secret = 1
  BY <1>1, <1>3 DEF ChallengerInv, HolderInv, Verified
<1> QED
  BY <1>2, <1>3, <1>4

(* Where each end makes one challenge, a secure message reaches an end     *)
(* that has verified the other and been verified by it, and holds the two  *)
(* secrets it was made with: receiveMessage() never drops one.             *)
THEOREM SecureMessagesAreAccepted ==
    ASSUME OneChallenge
    PROVE  Spec => []SecureMessagesAccepted
<1>1. Init => SecureAgentInv
  BY InvInit
<1>2. SecureAgentInv /\ [Next]_vars => SecureAgentInv'
  BY InvStep
<1>3. SecureAgentInv => SecureMessagesAccepted
  BY InvAccepts
<1> QED
  BY <1>1, <1>2, <1>3, PTL DEF Spec

(* There the answer to a challenge is never compared with the secret of    *)
(* another one, so that receiveMessage() rejects nobody (the statuses      *)
(* IdentityRejected), and the shapes of the state are kept.                *)
THEOREM HoldersAreNotRejected ==
    ASSUME OneChallenge
    PROVE  Spec => [](TypeOK /\ HoldersNotRejected)
<1>1. Init => SecureAgentInv
  BY InvInit
<1>2. SecureAgentInv /\ [Next]_vars => SecureAgentInv'
  BY InvStep
<1>3. SecureAgentInv => TypeOK /\ HoldersNotRejected
  <2> SUFFICES ASSUME SecureAgentInv, NEW n \in Node
               PROVE  TypeOK /\ hold[n].status # "identity-rejected" /\ chal[n].status # "identity-rejected"
    BY DEF HoldersNotRejected, SecureAgentInv
  <2> QED
    BY EndFacts DEF DirectionInv, HolderInv, ChallengerInv
<1> QED
  BY <1>1, <1>2, <1>3, PTL DEF Spec
=============================================================================
