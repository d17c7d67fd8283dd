---------------------- MODULE PersistentProtocolProofs ----------------------
(***************************************************************************)
(* Proofs about PersistentProtocol, for any bounds and any set of payloads.*)
(*                                                                         *)
(* The invariant is stated for one endpoint e against its peer f, so that  *)
(* each method of the class is dealt with once, as a lemma on records, and *)
(* an action only has to name the method it applies.                       *)
(***************************************************************************)
EXTENDS PersistentProtocol, SequenceTheorems, TLAPS

\* What a message written by endpoint e may claim: an ack of something e has
\* received, and for a Regular message the payload that e gave it.
Good(e, msg) ==
    /\ msg.ack <= e.incomingMsgId
    /\ msg.type = "Regular" =>
          /\ msg.id \in 1..Len(e.sent)
          /\ msg.data = e.sent[msg.id]

AllGood(e, msgs) == \A i \in 1..Len(msgs) : Good(e, msgs[i])

\* The counters of an endpoint agree with what was sent and delivered.
Counts(e) ==
    /\ e.outgoingMsgId = Len(e.sent)
    /\ e.incomingMsgId = Len(e.delivered)

\* What e has delivered is a prefix of what f has sent.
Prefix(e, f) ==
    /\ Len(e.delivered) <= Len(f.sent)
    /\ \A i \in 1..Len(e.delivered) : e.delivered[i] = f.sent[i]

QueueExact(e) ==
    /\ Len(e.outgoingUnackMsg) = e.outgoingMsgId - e.outgoingAckId
    /\ \A i \in 1..Len(e.outgoingUnackMsg) :
          /\ e.outgoingUnackMsg[i].id = e.outgoingAckId + i
          /\ e.outgoingUnackMsg[i].data = e.sent[e.outgoingAckId + i]

\* The part of the invariant about e, whose peer is f.
EndpointInv(e, f) ==
    /\ e \in Endpoint
    /\ Counts(e)
    /\ Prefix(e, f)
    /\ QueueExact(e)
    /\ e.outgoingAckId <= f.incomingMsgId
    /\ AllGood(e, e.outgoingUnackMsg)
    /\ AllGood(e, e.writerData)

\* A step of e keeps what it sent and received before.
Extends(e, e1) ==
    /\ e.incomingMsgId <= e1.incomingMsgId
    /\ Len(e.sent) <= Len(e1.sent)
    /\ \A i \in 1..Len(e.sent) : e1.sent[i] = e.sent[i]

Kept(e, e1, f) == EndpointInv(e1, f) /\ Extends(e, e1)

\* ... and neither sends nor delivers anything.
Quiet(e, e1, f) ==
    /\ Kept(e, e1, f)
    /\ e1.sent = e.sent
    /\ e1.delivered = e.delivered

-----------------------------------------------------------------------------
(* Sequences of messages *)

\* Buffering good messages behind good messages (ProtocolWriter._bufferAdd).
LEMMA ConcatGood ==
    ASSUME NEW e, NEW s \in Seq(ProtocolMessage), NEW t \in Seq(ProtocolMessage),
           AllGood(e, s), AllGood(e, t)
    PROVE  s \o t \in Seq(ProtocolMessage) /\ AllGood(e, s \o t)
<1>1. s \o t \in Seq(ProtocolMessage) /\ Len(s \o t) = Len(s) + Len(t)
  OBVIOUS
<1>2. ASSUME NEW i \in 1..Len(s \o t)
      PROVE  Good(e, (s \o t)[i])
  <2>1. CASE i <= Len(s)
    <3>1. (s \o t)[i] = s[i] /\ i \in 1..Len(s)
      BY <2>1, <1>1
    <3>2. QED  BY <3>1 DEF AllGood
  <2>2. CASE i > Len(s)
    <3>1. (s \o t)[i] = t[i - Len(s)] /\ i - Len(s) \in 1..Len(t)
      BY <2>2, <1>1
    <3>2. QED  BY <3>1 DEF AllGood
  <2>3. QED  BY <2>1, <2>2, <1>1
<1>3. QED  BY <1>1, <1>2 DEF AllGood

\* What was good stays good when the endpoint moves on.
LEMMA ExtendsGood ==
    ASSUME NEW e \in Endpoint, NEW e1 \in Endpoint, Extends(e, e1),
           NEW s \in Seq(ProtocolMessage), AllGood(e, s)
    PROVE  AllGood(e1, s)
<1>1. ASSUME NEW i \in 1..Len(s) PROVE Good(e1, s[i])
  <2>1. s[i] \in ProtocolMessage /\ Good(e, s[i])
    BY DEF AllGood
  <2>2. e.incomingMsgId \in Nat /\ e1.incomingMsgId \in Nat /\ s[i].ack \in Nat
        /\ e.sent \in Seq(Data) /\ e1.sent \in Seq(Data)
    BY <2>1 DEF Endpoint, ProtocolMessage
  <2>3. QED  BY <2>1, <2>2, SMTT(40) DEF Good, Extends
<1>2. QED  BY <1>1 DEF AllGood

-----------------------------------------------------------------------------
(* The methods *)

\* Assigning fields outside the stream, or buffering good messages.
LEMMA SameStream ==
    ASSUME NEW e, NEW f \in Endpoint, EndpointInv(e, f), NEW e1 \in Endpoint,
           e1.sent = e.sent, e1.delivered = e.delivered,
           e1.incomingMsgId = e.incomingMsgId,
           e1.outgoingMsgId = e.outgoingMsgId,
           e1.outgoingAckId = e.outgoingAckId,
           e1.outgoingUnackMsg = e.outgoingUnackMsg,
           AllGood(e, e1.writerData)
    PROVE  Quiet(e, e1, f)
<1>1. Extends(e, e1)
  BY DEF Extends, EndpointInv, Endpoint
<1>2. EndpointInv(e1, f)
  BY DEF EndpointInv, Counts, Prefix, QueueExact, AllGood, Good
<1>3. QED  BY <1>1, <1>2 DEF Quiet, Kept

\* Methods that are called one after the other.
LEMMA KeptThenQuiet ==
    ASSUME NEW e \in Endpoint, NEW e1, NEW e2, NEW f,
           Kept(e, e1, f), Quiet(e1, e2, f)
    PROVE  Kept(e, e2, f) /\ e2.sent = e1.sent /\ e2.delivered = e1.delivered
<1>1. e1 \in Endpoint /\ e2 \in Endpoint
  BY DEF Quiet, Kept, EndpointInv
<1>2. Extends(e, e2)
  <2>1. e1.incomingMsgId \in Nat /\ e2.incomingMsgId \in Nat /\ e.incomingMsgId \in Nat
    BY <1>1 DEF Endpoint
  <2>2. QED  BY <2>1 DEF Quiet, Kept, Extends
<1>3. QED  BY <1>2 DEF Quiet, Kept

\* Two steps that neither send nor deliver make one that does neither.
LEMMA QuietThenQuiet ==
    ASSUME NEW e \in Endpoint, NEW e1, NEW e2, NEW f,
           Quiet(e, e1, f), Quiet(e1, e2, f)
    PROVE  Quiet(e, e2, f)
<1>1. Kept(e, e2, f) /\ e2.sent = e1.sent /\ e2.delivered = e1.delivered
  BY KeptThenQuiet DEF Quiet
<1>2. QED  BY <1>1 DEF Quiet

\* The step of the peer does not disturb an endpoint.
LEMMA PeerKept ==
    ASSUME NEW e \in Endpoint, NEW e1 \in Endpoint, NEW f,
           Extends(e, e1), EndpointInv(f, e)
    PROVE  EndpointInv(f, e1)
<1>1. f \in Endpoint
  BY DEF EndpointInv
<1>2. Prefix(f, e1)
  <2>1. f.delivered \in Seq(Data) /\ e.sent \in Seq(Data) /\ e1.sent \in Seq(Data)
    BY <1>1 DEF Endpoint
  <2>2. Prefix(f, e)
    BY DEF EndpointInv
  <2>3. QED  BY <2>1, <2>2 DEF Prefix, Extends
<1>3. f.outgoingAckId <= e1.incomingMsgId
  <2>1. f.outgoingAckId \in Nat /\ e.incomingMsgId \in Nat /\ e1.incomingMsgId \in Nat
    BY <1>1 DEF Endpoint
  <2>2. f.outgoingAckId <= e.incomingMsgId /\ e.incomingMsgId <= e1.incomingMsgId
    BY DEF EndpointInv, Extends
  <2>3. QED  BY <2>1, <2>2
<1>4. QED  BY <1>2, <1>3 DEF EndpointInv

\* ProtocolWriter.write changes nothing but the writer.
LEMMA WriteAllQuiet ==
    ASSUME NEW e, NEW f \in Endpoint, EndpointInv(e, f),
           NEW msgs \in Seq(ProtocolMessage), AllGood(e, msgs)
    PROVE  Quiet(e, WriteAll(e, msgs), f)
<1>1. e \in Endpoint /\ e.writerData \in Seq(ProtocolMessage)
      /\ AllGood(e, e.writerData)
  BY DEF EndpointInv, Endpoint
<1>2. CASE msgs = <<>>
  BY <1>2, <1>1, SameStream DEF WriteAll
<1>3. CASE msgs # <<>>
  <2> DEFINE e1 == WriteAll(e, msgs)
  <2>1. e.writerData \o msgs \in Seq(ProtocolMessage)
        /\ AllGood(e, e.writerData \o msgs)
    BY <1>1, ConcatGood
  <2>2. e1 = [e EXCEPT !.writerData = e.writerData \o msgs,
                       !.writeNowTimeout = e.writeNowTimeout \/ e.writerData = <<>>]
    BY <1>3 DEF WriteAll
  <2>3. e1 \in Endpoint
    BY <2>1, <2>2, <1>1 DEF Endpoint
  <2>4. /\ e1.writerData = e.writerData \o msgs
        /\ e1.sent = e.sent
        /\ e1.delivered = e.delivered
        /\ e1.incomingMsgId = e.incomingMsgId
        /\ e1.outgoingMsgId = e.outgoingMsgId
        /\ e1.outgoingAckId = e.outgoingAckId
        /\ e1.outgoingUnackMsg = e.outgoingUnackMsg
    BY <2>2, <1>1 DEF Endpoint
  <2> HIDE DEF e1
  <2>5. Quiet(e, e1, f)
    BY <2>1, <2>3, <2>4, SameStream
  <2>6. QED  BY <2>5 DEF e1
<1>4. QED  BY <1>2, <1>3

\* ProtocolWriter.write() of one message.
LEMMA WriteQuiet ==
    ASSUME NEW e, NEW f \in Endpoint, EndpointInv(e, f),
           NEW msg \in ProtocolMessage, Good(e, msg)
    PROVE  Quiet(e, Write(e, msg), f)
<1>1. <<msg>> \in Seq(ProtocolMessage) /\ AllGood(e, <<msg>>)
  BY DEF AllGood
<1>2. QED  BY <1>1, WriteAllQuiet DEF Write

\* The two ack checks only arm timers.
LEMMA RecvAckCheckQuiet ==
    ASSUME NEW e, NEW f \in Endpoint, EndpointInv(e, f), NEW late \in BOOLEAN
    PROVE  Quiet(e, RecvAckCheck(e, late), f)
<1>1. e \in Endpoint /\ AllGood(e, e.writerData)
  BY DEF EndpointInv
<1>2. CASE RecvAckCheck(e, late) = e
  BY <1>1, <1>2, SameStream
<1>3. CASE RecvAckCheck(e, late) = [e EXCEPT !.outgoingAckTimeout = TRUE]
  <2>1. [e EXCEPT !.outgoingAckTimeout = TRUE] \in Endpoint
    BY <1>1 DEF Endpoint
  <2>2. QED  BY <1>1, <1>3, <2>1, SameStream DEF Endpoint
<1>4. QED  BY <1>2, <1>3 DEF RecvAckCheck

\* _sendAckCheck() only arms a timer.
LEMMA SendAckCheckQuiet ==
    ASSUME NEW e, NEW f \in Endpoint, EndpointInv(e, f)
    PROVE  Quiet(e, SendAckCheck(e), f)
<1>1. e \in Endpoint /\ AllGood(e, e.writerData)
  BY DEF EndpointInv
<1>2. CASE SendAckCheck(e) = e
  BY <1>1, <1>2, SameStream
<1>3. CASE SendAckCheck(e) = [e EXCEPT !.incomingAckTimeout = TRUE]
  <2>1. [e EXCEPT !.incomingAckTimeout = TRUE] \in Endpoint
    BY <1>1 DEF Endpoint
  <2>2. QED  BY <1>1, <1>3, <2>1, SameStream DEF Endpoint
<1>4. QED  BY <1>2, <1>3 DEF SendAckCheck

\* A message that carries nothing but the ack of what was received.
LEMMA BareGood ==
    ASSUME NEW e \in Endpoint, NEW type \in MessageType \ {"Regular"},
           NEW ack \in Nat, ack <= e.incomingMsgId,
           NEW data \in Data \cup ControlData \cup {NoData}
    PROVE  /\ Message(type, 0, ack, data) \in ProtocolMessage
           /\ Good(e, Message(type, 0, ack, data))
BY DEF Message, ProtocolMessage, Good, Endpoint

\* Acknowledging what has been delivered is honest and sends nothing.
LEMMA AckNowQuiet ==
    ASSUME NEW e, NEW f \in Endpoint, EndpointInv(e, f),
           NEW type \in {"Ack", "KeepAlive"}
    PROVE  Quiet(e, AckNow(e, type), f)
<1> DEFINE e1  == [e EXCEPT !.incomingAckId = e.incomingMsgId]
           msg == Message(type, 0, e.incomingMsgId, NoData)
<1>1. e \in Endpoint /\ AllGood(e, e.writerData) /\ e.incomingMsgId \in Nat
  BY DEF EndpointInv, Endpoint
<1>2. e1 \in Endpoint /\ e1.incomingMsgId = e.incomingMsgId
  BY <1>1 DEF Endpoint
<1>3. Quiet(e, e1, f)
  BY <1>1, <1>2, SameStream DEF Endpoint
<1>4. msg \in ProtocolMessage /\ Good(e1, msg)
  <2>1. type \in MessageType \ {"Regular"}
    BY DEF MessageType
  <2>2. e.incomingMsgId <= e1.incomingMsgId
    BY <1>1, <1>2
  <2> HIDE DEF e1
  <2>3. QED  BY <1>1, <1>2, <2>1, <2>2, BareGood
<1>5. Quiet(e1, Write(e1, msg), f)
  <2>1. EndpointInv(e1, f)
    BY <1>3 DEF Quiet, Kept
  <2> HIDE DEF e1, msg
  <2>2. QED  BY <2>1, <1>4, WriteQuiet
<1>6. AckNow(e, type) = Write(e1, msg)
  BY DEF AckNow
<1> HIDE DEF e1, msg
<1>7. QED  BY <1>1, <1>3, <1>5, <1>6, QuietThenQuiet

\* _sendAck() acknowledges or does nothing.
LEMMA SendAckQuiet ==
    ASSUME NEW e, NEW f \in Endpoint, EndpointInv(e, f)
    PROVE  Quiet(e, SendAck(e), f)
<1>1. e \in Endpoint /\ AllGood(e, e.writerData)
  BY DEF EndpointInv
<1>2. CASE SendAck(e) = e
  BY <1>1, <1>2, SameStream
<1>3. CASE SendAck(e) = AckNow(e, "Ack")
  BY <1>3, AckNowQuiet
<1>4. QED  BY <1>2, <1>3 DEF SendAck

\* send(): the new message is the next one, at the end of the queue.
LEMMA SendRegularKept ==
    ASSUME NEW e, NEW f \in Endpoint, EndpointInv(e, f),
           NEW d \in Data, NEW late \in BOOLEAN
    PROVE  /\ Kept(e, SendRegular(e, d, late), f)
           /\ SendRegular(e, d, late).sent = Append(e.sent, d)
           /\ SendRegular(e, d, late).delivered = e.delivered
<1> DEFINE msg == Message("Regular", e.outgoingMsgId + 1, e.incomingMsgId, d)
           e1  == [e EXCEPT !.outgoingMsgId = @ + 1,
                            !.incomingAckId = e.incomingMsgId,
                            !.outgoingUnackMsg = Append(@, msg),
                            !.sent = Append(@, d)]
<1>1. /\ e \in Endpoint
      /\ e.outgoingMsgId \in Nat /\ e.incomingMsgId \in Nat /\ e.outgoingAckId \in Nat
      /\ e.outgoingUnackMsg \in Seq(ProtocolMessage)
      /\ e.writerData \in Seq(ProtocolMessage)
      /\ e.sent \in Seq(Data)
      /\ e.outgoingMsgId = Len(e.sent)
  BY DEF EndpointInv, Endpoint, Counts
<1>2. msg \in ProtocolMessage /\ msg.id = e.outgoingMsgId + 1 /\ msg.data = d
      /\ msg.ack = e.incomingMsgId /\ msg.type = "Regular"
  BY <1>1 DEF Message, ProtocolMessage, MessageType
<1> HIDE DEF msg
<1>3. e1 \in Endpoint
  <2>1. /\ Append(e.outgoingUnackMsg, msg) \in Seq(ProtocolMessage)
        /\ Append(e.sent, d) \in Seq(Data)
        /\ e.outgoingMsgId + 1 \in Nat
    BY <1>1, <1>2
  <2>2. QED  BY <1>1, <2>1 DEF Endpoint
<1>4. /\ e1.sent = Append(e.sent, d)
      /\ e1.outgoingUnackMsg = Append(e.outgoingUnackMsg, msg)
      /\ e1.outgoingMsgId = e.outgoingMsgId + 1
      /\ e1.outgoingAckId = e.outgoingAckId
      /\ e1.incomingMsgId = e.incomingMsgId
      /\ e1.delivered = e.delivered
      /\ e1.writerData = e.writerData
      /\ e1.isReconnecting = e.isReconnecting
  BY <1>1 DEF Endpoint
<1> HIDE DEF e1
<1>5. Extends(e, e1)
  BY <1>1, <1>4 DEF Extends
<1>6. Good(e1, msg)
  BY <1>1, <1>2, <1>4 DEF Good
<1>7. EndpointInv(e1, f)
  <2>1. Counts(e1)
    BY <1>1, <1>4 DEF EndpointInv, Counts
  <2>2. Prefix(e1, f)
    BY <1>4 DEF EndpointInv, Prefix
  <2>3. QueueExact(e1)
    <3>1. QueueExact(e)
      BY DEF EndpointInv
    <3>2. Len(e1.outgoingUnackMsg) = Len(e.outgoingUnackMsg) + 1
      BY <1>1, <1>2, <1>4
    <3>3. ASSUME NEW i \in 1..Len(e1.outgoingUnackMsg)
          PROVE  /\ e1.outgoingUnackMsg[i].id = e1.outgoingAckId + i
                 /\ e1.outgoingUnackMsg[i].data = e1.sent[e1.outgoingAckId + i]
      <4>1. CASE i \in 1..Len(e.outgoingUnackMsg)
        <5>1. e1.outgoingUnackMsg[i] = e.outgoingUnackMsg[i]
          BY <1>1, <1>2, <1>4, <4>1
        <5>2. e.outgoingAckId + i \in 1..Len(e.sent)
          BY <1>1, <3>1, <4>1 DEF QueueExact
        <5>3. e1.sent[e.outgoingAckId + i] = e.sent[e.outgoingAckId + i]
          BY <1>1, <1>4, <5>2
        <5>4. QED  BY <5>1, <5>3, <1>4, <3>1, <4>1 DEF QueueExact
      <4>2. CASE i = Len(e.outgoingUnackMsg) + 1
        <5>1. e1.outgoingUnackMsg[i] = msg
          BY <1>1, <1>2, <1>4, <4>2
        <5>2. e.outgoingAckId + i = Len(e.sent) + 1
          BY <1>1, <3>1, <4>2 DEF QueueExact
        <5>3. QED  BY <1>1, <1>2, <1>4, <5>1, <5>2
      <4>3. QED  BY <1>1, <3>2, <4>1, <4>2
    <3>4. Len(e1.outgoingUnackMsg) = e1.outgoingMsgId - e1.outgoingAckId
      BY <1>1, <1>4, <3>1, <3>2 DEF QueueExact
    <3>5. QED  BY <3>3, <3>4 DEF QueueExact
  <2>4. AllGood(e1, e1.writerData)
    BY <1>1, <1>3, <1>4, <1>5, ExtendsGood DEF EndpointInv
  <2>5. AllGood(e1, e1.outgoingUnackMsg)
    <3>1. AllGood(e1, e.outgoingUnackMsg)
      BY <1>1, <1>3, <1>5, ExtendsGood DEF EndpointInv
    <3>2. QED  BY <1>1, <1>2, <1>4, <1>6, <3>1 DEF AllGood
  <2>6. QED  BY <1>3, <1>4, <2>1, <2>2, <2>3, <2>4, <2>5 DEF EndpointInv
<1>8. CASE e.isReconnecting
  <2>1. SendRegular(e, d, late) = e1
    BY <1>8 DEF SendRegular, e1, msg
  <2>2. QED  BY <2>1, <1>4, <1>5, <1>7 DEF Kept
<1>9. CASE ~e.isReconnecting
  <2> DEFINE e2 == Write(e1, msg)
  <2>1. SendRegular(e, d, late) = RecvAckCheck(e2, late)
    BY <1>9 DEF SendRegular, e1, msg
  <2>2. Quiet(e1, e2, f)
    BY <1>2, <1>6, <1>7, WriteQuiet
  <2> HIDE DEF e2
  <2>3. Quiet(e2, RecvAckCheck(e2, late), f)
    BY <2>2, RecvAckCheckQuiet DEF Quiet, Kept
  <2>4. Quiet(e1, RecvAckCheck(e2, late), f)
    BY <1>3, <2>2, <2>3, QuietThenQuiet
  <2>5. QED  BY <1>1, <1>4, <1>5, <1>7, <2>1, <2>4, KeptThenQuiet DEF Kept
<1>10. QED  BY <1>8, <1>9

\* The first message that an ack leaves in the queue.
LEMMA FirstUnconfirmedIs ==
    ASSUME NEW e \in Endpoint, QueueExact(e), NEW ack \in Nat,
           ack > e.outgoingAckId, ack <= e.outgoingMsgId
    PROVE  FirstUnconfirmed(e.outgoingUnackMsg, ack) = ack - e.outgoingAckId + 1
<1> DEFINE q == e.outgoingUnackMsg
           n == ack - e.outgoingAckId + 1
           P(i) == /\ i <= Len(q) => q[i].id > ack
                   /\ \A j \in 1..(i - 1) : q[j].id <= ack
<1>1. /\ q \in Seq(ProtocolMessage) /\ e.outgoingAckId \in Nat /\ e.outgoingMsgId \in Nat
      /\ Len(q) = e.outgoingMsgId - e.outgoingAckId
      /\ Len(q) \in Nat
      /\ \A i \in 1..Len(q) : q[i].id = e.outgoingAckId + i
  BY DEF Endpoint, QueueExact
<1> HIDE DEF q
<1>2. n \in 1..(Len(q) + 1) /\ P(n)
  BY <1>1, SMTT(40)
<1>3. ASSUME NEW i \in 1..(Len(q) + 1), P(i) PROVE i = n
  <2>1. CASE i < n
    BY <1>1, <1>3, <2>1
  <2>2. CASE i > n
    <3>1. n \in 1..(i - 1) /\ n \in 1..Len(q) /\ q[n].id = ack + 1
      BY <1>1, <2>2, SMTT(40)
    <3>2. q[n].id <= ack
      BY <1>3, <3>1
    <3>3. QED  BY <3>1, <3>2
  <2>3. QED  BY <1>1, <2>1, <2>2
<1>4. FirstUnconfirmed(q, ack) = CHOOSE i \in 1..(Len(q) + 1) : P(i)
  BY DEF FirstUnconfirmed
<1> HIDE DEF n, P
<1>5. FirstUnconfirmed(q, ack) = n
  BY <1>2, <1>3, <1>4
<1>6. QED  BY <1>5 DEF q, n

\* Popping what an ack confirms, an ack of something the peer has received.
LEMMA AcceptAckQuiet ==
    ASSUME NEW e, NEW f \in Endpoint, EndpointInv(e, f), EndpointInv(f, e),
           NEW ack \in Nat, ack <= f.incomingMsgId
    PROVE  Quiet(e, AcceptAck(e, ack), f)
<1>1. /\ e \in Endpoint
      /\ e.outgoingMsgId \in Nat /\ e.outgoingAckId \in Nat
      /\ e.outgoingUnackMsg \in Seq(ProtocolMessage)
      /\ QueueExact(e)
      /\ AllGood(e, e.writerData)
      /\ AllGood(e, e.outgoingUnackMsg)
  BY DEF EndpointInv, Endpoint
<1>2. ack <= e.outgoingMsgId
  <2>1. f.delivered \in Seq(Data) /\ e.sent \in Seq(Data)
    BY <1>1 DEF Endpoint
  <2>2. /\ f.incomingMsgId = Len(f.delivered)
        /\ Len(f.delivered) <= Len(e.sent)
        /\ e.outgoingMsgId = Len(e.sent)
    BY DEF EndpointInv, Counts, Prefix
  <2>3. QED  BY <1>1, <2>1, <2>2
<1>3. CASE ~(ack > e.outgoingAckId)
  BY <1>1, <1>3, SameStream DEF AcceptAck
<1>4. CASE ack > e.outgoingAckId
  <2> DEFINE q  == e.outgoingUnackMsg
             n  == ack - e.outgoingAckId + 1
             q1 == SubSeq(q, n, Len(q))
             e1 == [e EXCEPT !.outgoingAckId = ack, !.outgoingUnackMsg = q1]
  <2>1. AcceptAck(e, ack) = e1
    BY <1>1, <1>2, <1>4, FirstUnconfirmedIs DEF AcceptAck
  <2>2. /\ Len(q) = e.outgoingMsgId - e.outgoingAckId
        /\ n \in 1..(Len(q) + 1)
    BY <1>1, <1>2, <1>4 DEF QueueExact
  <2>3. /\ q1 \in Seq(ProtocolMessage)
        /\ Len(q1) = Len(q) - n + 1
        /\ \A i \in 1..Len(q1) : q1[i] = q[n + i - 1] /\ n + i - 1 \in 1..Len(q)
    <3>1. Len(q) \in Nat /\ n \in Int /\ \A i \in n..Len(q) : q[i] \in ProtocolMessage
      BY <1>1, <2>2
    <3> HIDE DEF q, n
    <3>2. /\ q1 \in Seq(ProtocolMessage)
          /\ Len(q1) = IF n <= Len(q) THEN Len(q) - n + 1 ELSE 0
          /\ \A i \in 1..(Len(q) - n + 1) : q1[i] = q[n + i - 1]
      BY <3>1, SubSeqProperties
    <3> HIDE DEF q1
    <3>3. QED  BY <2>2, <3>1, <3>2
  <2> HIDE DEF q1
  <2>4. e1 \in Endpoint
    BY <1>1, <2>3 DEF Endpoint
  <2>5. /\ e1.sent = e.sent /\ e1.delivered = e.delivered
        /\ e1.incomingMsgId = e.incomingMsgId
        /\ e1.outgoingMsgId = e.outgoingMsgId
        /\ e1.outgoingAckId = ack
        /\ e1.outgoingUnackMsg = q1
        /\ e1.writerData = e.writerData
    BY <1>1 DEF Endpoint
  <2> HIDE DEF e1
  <2>6. QueueExact(e1)
    <3>1. Len(q1) = e1.outgoingMsgId - e1.outgoingAckId
      <4>1. /\ e.outgoingMsgId \in Nat /\ e.outgoingAckId \in Nat
            /\ Len(q) = e.outgoingMsgId - e.outgoingAckId
            /\ Len(q1) = Len(q) - (ack - e.outgoingAckId + 1) + 1
        BY <1>1, <2>2, <2>3
      <4>2. Len(q1) = e.outgoingMsgId - ack
        BY <4>1
      <4>3. QED  BY <4>2, <2>5
    <3>2. ASSUME NEW i \in 1..Len(q1)
          PROVE  q1[i].id = ack + i /\ q1[i].data = e.sent[ack + i]
      <4>1. q1[i] = q[n + i - 1] /\ n + i - 1 \in 1..Len(q)
        BY <2>3
      <4>2. e.outgoingAckId + (n + i - 1) = ack + i
        BY <1>1, <2>3
      <4>3. QED  BY <1>1, <4>1, <4>2 DEF QueueExact
    <3>3. QED  BY <2>5, <3>1, <3>2 DEF QueueExact
  <2>7. AllGood(e1, q1)
    BY <1>1, <2>3, <2>5 DEF AllGood, Good
  <2>8. EndpointInv(e1, f)
    <3>1. AllGood(e1, e1.writerData)
      BY <1>1, <2>5 DEF AllGood, Good
    <3>2. Counts(e1) /\ Prefix(e1, f)
      BY <2>5 DEF EndpointInv, Counts, Prefix
    <3>3. QED  BY <2>4, <2>5, <2>6, <2>7, <3>1, <3>2 DEF EndpointInv
  <2>9. Extends(e, e1)
    BY <1>1, <2>5 DEF Extends, Endpoint
  <2>10. QED  BY <2>1, <2>5, <2>8, <2>9 DEF Quiet, Kept
<1>5. QED  BY <1>3, <1>4

\* Either nothing is delivered, or the next payload of the peer.
Delivers(e, e1, f) ==
    \/ e1.delivered = e.delivered
    \/ /\ Len(e.delivered) < Len(f.sent)
       /\ e1.delivered = Append(e.delivered, f.sent[Len(e.delivered) + 1])

\* A Regular message delivers the next payload or none.
LEMMA AcceptRegularKept ==
    ASSUME NEW e, NEW f \in Endpoint, EndpointInv(e, f),
           NEW msg \in ProtocolMessage, msg.type = "Regular", Good(f, msg),
           NEW ask \in BOOLEAN
    PROVE  /\ Kept(e, AcceptRegular(e, msg, ask), f)
           /\ AcceptRegular(e, msg, ask).sent = e.sent
           /\ Delivers(e, AcceptRegular(e, msg, ask), f)
<1>1. /\ e \in Endpoint
      /\ e.incomingMsgId \in Nat /\ msg.id \in Nat
      /\ e.delivered \in Seq(Data) /\ f.sent \in Seq(Data)
      /\ e.incomingMsgId = Len(e.delivered)
      /\ AllGood(e, e.writerData)
      /\ msg.id \in 1..Len(f.sent) /\ msg.data = f.sent[msg.id]
  BY DEF EndpointInv, Endpoint, ProtocolMessage, Counts, Good
<1>2. CASE AcceptRegular(e, msg, ask) = e
  <2>1. Quiet(e, e, f)
    BY <1>1, SameStream
  <2>2. QED  BY <1>2, <2>1 DEF Quiet, Delivers
<1>3. CASE AcceptRegular(e, msg, ask) = Write(e, Message("ReplayRequest", 0, 0, NoData))
  <2>1. "ReplayRequest" \in MessageType \ {"Regular"} /\ 0 <= e.incomingMsgId
    BY <1>1 DEF MessageType
  <2>2. Quiet(e, AcceptRegular(e, msg, ask), f)
    BY <1>1, <1>3, <2>1, BareGood, WriteQuiet
  <2>3. QED  BY <2>2 DEF Quiet, Delivers
<1>4. CASE msg.id = e.incomingMsgId + 1
  <2> DEFINE e1 == [e EXCEPT !.incomingMsgId = msg.id,
                             !.delivered = Append(@, msg.data)]
  <2>1. AcceptRegular(e, msg, ask) = SendAckCheck(e1)
    BY <1>1, <1>4 DEF AcceptRegular
  <2>2. /\ Append(e.delivered, msg.data) \in Seq(Data)
        /\ Len(e.delivered) < Len(f.sent)
        /\ msg.data = f.sent[Len(e.delivered) + 1]
    BY <1>1, <1>4
  <2>3. e1 \in Endpoint
    BY <1>1, <2>2 DEF Endpoint
  <2>4. /\ e1.sent = e.sent /\ e1.delivered = Append(e.delivered, msg.data)
        /\ e1.incomingMsgId = msg.id
        /\ e1.outgoingMsgId = e.outgoingMsgId
        /\ e1.outgoingAckId = e.outgoingAckId
        /\ e1.outgoingUnackMsg = e.outgoingUnackMsg
        /\ e1.writerData = e.writerData
        /\ e.writerData \in Seq(ProtocolMessage)
        /\ e.outgoingUnackMsg \in Seq(ProtocolMessage)
    BY <1>1 DEF Endpoint
  <2> HIDE DEF e1
  <2>5. Extends(e, e1)
    BY <1>1, <1>4, <2>4 DEF Extends, Endpoint
  <2>6. EndpointInv(e1, f)
    <3>1. Counts(e1)
      BY <1>1, <1>4, <2>2, <2>4 DEF EndpointInv, Counts
    <3>2. Prefix(e1, f)
      <4>1. Prefix(e, f)
        BY DEF EndpointInv
      <4>2. QED  BY <1>1, <2>2, <2>4, <4>1 DEF Prefix
    <3>3. QueueExact(e1)
      BY <2>4 DEF EndpointInv, QueueExact
    <3>4. AllGood(e1, e1.writerData) /\ AllGood(e1, e1.outgoingUnackMsg)
      BY <1>1, <2>3, <2>4, <2>5, ExtendsGood DEF EndpointInv
    <3>5. QED  BY <2>3, <2>4, <3>1, <3>2, <3>3, <3>4 DEF EndpointInv
  <2>7. Quiet(e1, SendAckCheck(e1), f)
    BY <2>6, SendAckCheckQuiet
  <2>8. /\ Kept(e, SendAckCheck(e1), f)
        /\ SendAckCheck(e1).sent = e1.sent
        /\ SendAckCheck(e1).delivered = e1.delivered
    BY <1>1, <2>5, <2>6, <2>7, KeptThenQuiet DEF Kept
  <2>9. QED  BY <2>1, <2>2, <2>4, <2>8 DEF Delivers
<1>5. QED  BY <1>2, <1>3, <1>4 DEF AcceptRegular

\* Writing the queue again is no new send.
LEMMA ReplayAllQuiet ==
    ASSUME NEW e, NEW f \in Endpoint, EndpointInv(e, f)
    PROVE  Quiet(e, ReplayAll(e), f)
<1> DEFINE e1 == WriteAll(e, e.outgoingUnackMsg)
<1>1. e \in Endpoint /\ e.outgoingUnackMsg \in Seq(ProtocolMessage)
      /\ AllGood(e, e.outgoingUnackMsg)
  BY DEF EndpointInv, Endpoint
<1>2. Quiet(e, e1, f)
  BY <1>1, WriteAllQuiet
<1> HIDE DEF e1
<1>3. Quiet(e1, RecvAckCheck(e1, FALSE), f)
  BY <1>2, RecvAckCheckQuiet DEF Quiet, Kept
<1>4. QED  BY <1>1, <1>2, <1>3, QuietThenQuiet DEF ReplayAll, e1

\* The writer may be paused and resumed.
LEMMA PauseResumeQuiet ==
    ASSUME NEW e, NEW f \in Endpoint, EndpointInv(e, f)
    PROVE  Quiet(e, Pause(e), f) /\ Quiet(e, Resume(e), f)
<1>1. e \in Endpoint /\ AllGood(e, e.writerData)
  BY DEF EndpointInv
<1>2. Quiet(e, Pause(e), f)
  <2>1. Pause(e) \in Endpoint
    BY <1>1 DEF Pause, Endpoint
  <2>2. QED  BY <1>1, <2>1, SameStream DEF Pause, Endpoint
<1>3. Quiet(e, Resume(e), f)
  <2>1. Resume(e) \in Endpoint
    BY <1>1 DEF Resume, Endpoint
  <2>2. QED  BY <1>1, <2>1, SameStream DEF Resume, Endpoint
<1>4. QED  BY <1>2, <1>3

\* _receiveMessage, for a message the peer really wrote.
LEMMA ReceiveMessageKept ==
    ASSUME NEW e, NEW f \in Endpoint, EndpointInv(e, f), EndpointInv(f, e),
           NEW msg \in ProtocolMessage, Good(f, msg), NEW ask \in BOOLEAN
    PROVE  /\ Kept(e, ReceiveMessage(e, msg, ask), f)
           /\ ReceiveMessage(e, msg, ask).sent = e.sent
           /\ Delivers(e, ReceiveMessage(e, msg, ask), f)
<1> DEFINE e1 == AcceptAck(e, msg.ack)
           e2 == ReceiveMessage(e, msg, ask)
<1>1. e \in Endpoint /\ msg.ack \in Nat /\ msg.ack <= f.incomingMsgId
  BY DEF EndpointInv, ProtocolMessage, Good
<1>2. Quiet(e, e1, f)
  BY <1>1, AcceptAckQuiet
<1>3. EndpointInv(e1, f)
  BY <1>2 DEF Quiet, Kept
<1>4. e2 = CASE msg.type = "Regular"       -> AcceptRegular(e1, msg, ask)
             [] msg.type = "ReplayRequest" -> ReplayAll(e1)
             [] msg.type = "Pause"         -> Pause(e1)
             [] msg.type = "Resume"        -> Resume(e1)
             [] OTHER                      -> e1
  BY DEF ReceiveMessage
<1> HIDE DEF e1, e2
<1>5. CASE msg.type = "Regular"
  <2>1. e2 = AcceptRegular(e1, msg, ask)
    BY <1>4, <1>5
  <2>2. Kept(e1, e2, f) /\ e2.sent = e1.sent /\ Delivers(e1, e2, f)
    BY <1>3, <1>5, <2>1, AcceptRegularKept
  <2>3. e1.sent = e.sent /\ e1.delivered = e.delivered
    BY <1>2 DEF Quiet
  <2>4. Extends(e, e2)
    <3>1. e1 \in Endpoint /\ e2 \in Endpoint
      BY <1>3, <2>2 DEF EndpointInv, Kept
    <3>2. e1.incomingMsgId \in Nat /\ e2.incomingMsgId \in Nat /\ e.incomingMsgId \in Nat
      BY <1>1, <3>1 DEF Endpoint
    <3>3. QED  BY <1>2, <2>2, <2>3, <3>2 DEF Quiet, Kept, Extends
  <2>5. QED  BY <2>2, <2>3, <2>4 DEF Kept, Delivers, e2
<1>6. CASE msg.type # "Regular"
  <2>1. Quiet(e1, e1, f)
    <3>1. e1 \in Endpoint /\ AllGood(e1, e1.writerData)
      BY <1>3 DEF EndpointInv
    <3>2. QED  BY <1>3, <3>1, SameStream
  <2>2. Quiet(e1, ReplayAll(e1), f) /\ Quiet(e1, Pause(e1), f) /\ Quiet(e1, Resume(e1), f)
    BY <1>3, ReplayAllQuiet, PauseResumeQuiet
  <2>3. Quiet(e1, e2, f)
    <3>1. CASE msg.type = "ReplayRequest"
      BY <1>4, <2>2, <3>1
    <3>2. CASE msg.type = "Pause"
      BY <1>4, <2>2, <3>2
    <3>3. CASE msg.type = "Resume"
      BY <1>4, <2>2, <3>3
    <3>4. CASE msg.type \notin {"Regular", "ReplayRequest", "Pause", "Resume"}
      BY <1>4, <2>1, <3>4
    <3>5. QED  BY <1>6, <3>1, <3>2, <3>3, <3>4
  <2>4. Quiet(e, e2, f)
    BY <1>1, <1>2, <2>3, QuietThenQuiet
  <2>5. QED  BY <2>4 DEF Quiet, Delivers, e2
<1>7. QED  BY <1>5, <1>6

\* beginAcceptReconnection moves the stream to a socket with an empty writer.
LEMMA BeginAcceptReconnectionQuiet ==
    ASSUME NEW e, NEW f \in Endpoint, EndpointInv(e, f), NEW k \in Socket
    PROVE  Quiet(e, BeginAcceptReconnection(e, k), f)
<1> DEFINE e1 == BeginAcceptReconnection(e, k)
<1>1. e \in Endpoint
  BY DEF EndpointInv
<1>2. e1 \in Endpoint
  <2>1. <<>> \in Seq(ProtocolMessage) /\ <<>> \in Seq(Data \cup ControlData \cup {NoData})
    OBVIOUS
  <2>2. QED  BY <1>1, <2>1 DEF BeginAcceptReconnection, Endpoint
<1>3. /\ e1.sent = e.sent /\ e1.delivered = e.delivered
      /\ e1.incomingMsgId = e.incomingMsgId
      /\ e1.outgoingMsgId = e.outgoingMsgId
      /\ e1.outgoingAckId = e.outgoingAckId
      /\ e1.outgoingUnackMsg = e.outgoingUnackMsg
      /\ e1.writerData = <<>>
  BY <1>1 DEF BeginAcceptReconnection, Endpoint
<1>4. AllGood(e, <<>>)
  BY DEF AllGood
<1> HIDE DEF e1
<1>5. Quiet(e, e1, f)
  BY <1>2, <1>3, <1>4, SameStream
<1>6. QED  BY <1>5 DEF e1

\* endAcceptReconnection acknowledges, and sends again what it must.
LEMMA EndAcceptReconnectionQuiet ==
    ASSUME NEW e, NEW f \in Endpoint, EndpointInv(e, f)
    PROVE  Quiet(e, EndAcceptReconnection(e), f)
<1> DEFINE e1 == [e EXCEPT !.isReconnecting = FALSE]
           e2 == AckNow(e1, "Ack")
<1>1. e \in Endpoint /\ AllGood(e, e.writerData)
  BY DEF EndpointInv
<1>2. e1 \in Endpoint
  BY <1>1 DEF Endpoint
<1>3. Quiet(e, e1, f)
  BY <1>1, <1>2, SameStream DEF Endpoint
<1> HIDE DEF e1
<1>4. Quiet(e1, e2, f)
  BY <1>3, AckNowQuiet DEF Quiet, Kept
<1> HIDE DEF e2
<1>5. Quiet(e2, ReplayAll(e2), f)
  BY <1>4, ReplayAllQuiet DEF Quiet, Kept
<1>6. Quiet(e1, ReplayAll(e2), f)
  BY <1>2, <1>4, <1>5, QuietThenQuiet
<1>7. Quiet(e, ReplayAll(e2), f)
  BY <1>1, <1>3, <1>6, QuietThenQuiet
<1>8. QED  BY <1>7 DEF EndAcceptReconnection, e1, e2

-----------------------------------------------------------------------------
(* The state: both endpoints E and the sockets c. *)

EndsOK(E) ==
    /\ E \in [Side -> Endpoint]
    /\ \A p \in Side : EndpointInv(E[p], E[Peer(p)])

ChanOK(E, c) ==
    /\ c \in [Socket -> [Side -> Seq(ProtocolMessage)]]
    /\ \A k \in Socket, p \in Side : AllGood(E[p], c[k][p])

\* The inductive invariant.
IInv ==
    /\ TypeOK
    /\ EndsOK(ep)
    /\ ChanOK(ep, chan)

\* What a step may do to what was sent and delivered.
Silent(E, E1) ==
    \A p \in Side : E1[p].sent = E[p].sent /\ E1[p].delivered = E[p].delivered

Gives(E, E1, p) ==
    /\ \E d \in Data : E1[p].sent = Append(E[p].sent, d)
    /\ E1[p].delivered = E[p].delivered
    /\ E1[Peer(p)] = E[Peer(p)]

DeliversAt(E, E1, p) ==
    /\ E1[p].sent = E[p].sent
    /\ Delivers(E[p], E1[p], E[Peer(p)])
    /\ E1[Peer(p)] = E[Peer(p)]

StreamStep(E, E1) ==
    \/ Silent(E, E1)
    \/ \E p \in Side : Gives(E, E1, p) \/ DeliversAt(E, E1, p)

\* There are two sides, each the other's peer.
LEMMA PeerFacts ==
    ASSUME NEW p \in Side
    PROVE  Peer(p) \in Side /\ Peer(p) # p /\ Peer(Peer(p)) = p
           /\ \A q \in Side : q = p \/ q = Peer(p)
BY DEF Side, Peer

\* A method that keeps the invariant of its endpoint keeps the whole of it.
LEMMA EndpointMoves ==
    ASSUME NEW E, EndsOK(E), NEW c, ChanOK(E, c), NEW p \in Side, NEW e1,
           Kept(E[p], e1, E[Peer(p)])
    PROVE  /\ EndsOK([E EXCEPT ![p] = e1])
           /\ ChanOK([E EXCEPT ![p] = e1], c)
<1> DEFINE E1 == [E EXCEPT ![p] = e1]
<1>1. /\ E[p] \in Endpoint /\ E[Peer(p)] \in Endpoint
      /\ EndpointInv(E[p], E[Peer(p)]) /\ EndpointInv(E[Peer(p)], E[p])
  BY PeerFacts DEF EndsOK
<1>2. e1 \in Endpoint /\ EndpointInv(e1, E[Peer(p)]) /\ Extends(E[p], e1)
  BY DEF Kept, EndpointInv
<1>3. E1 \in [Side -> Endpoint] /\ E1[p] = e1 /\ E1[Peer(p)] = E[Peer(p)]
  BY <1>2, PeerFacts DEF EndsOK
<1> HIDE DEF E1
<1>4. EndpointInv(E[Peer(p)], e1)
  BY <1>1, <1>2, PeerKept
<1>5. EndsOK(E1)
  <2>1. ASSUME NEW q \in Side PROVE EndpointInv(E1[q], E1[Peer(q)])
    <3>1. CASE q = p
      BY <1>2, <1>3, <3>1
    <3>2. CASE q = Peer(p)
      BY <1>3, <1>4, <3>2, PeerFacts
    <3>3. QED  BY <3>1, <3>2, PeerFacts
  <2>2. QED  BY <1>3, <2>1 DEF EndsOK
<1>6. ChanOK(E1, c)
  <2>1. ASSUME NEW k \in Socket, NEW q \in Side PROVE AllGood(E1[q], c[k][q])
    <3>1. c[k][q] \in Seq(ProtocolMessage) /\ AllGood(E[q], c[k][q])
      BY DEF ChanOK
    <3>2. CASE q = p
      BY <1>1, <1>2, <1>3, <3>1, <3>2, ExtendsGood
    <3>3. CASE q = Peer(p)
      BY <1>3, <3>1, <3>3
    <3>4. QED  BY <3>2, <3>3, PeerFacts
  <2>2. QED  BY <2>1 DEF ChanOK
<1>7. QED  BY <1>5, <1>6 DEF E1

\* A quiet change of one endpoint, seen from both.
LEMMA QuietMoves ==
    ASSUME NEW E, EndsOK(E), NEW c, ChanOK(E, c), NEW p \in Side, NEW e1,
           Quiet(E[p], e1, E[Peer(p)])
    PROVE  /\ EndsOK([E EXCEPT ![p] = e1])
           /\ ChanOK([E EXCEPT ![p] = e1], c)
           /\ StreamStep(E, [E EXCEPT ![p] = e1])
<1>1. EndsOK([E EXCEPT ![p] = e1]) /\ ChanOK([E EXCEPT ![p] = e1], c)
  BY EndpointMoves DEF Quiet
<1>2. ASSUME NEW q \in Side
      PROVE  /\ [E EXCEPT ![p] = e1][q].sent = E[q].sent
             /\ [E EXCEPT ![p] = e1][q].delivered = E[q].delivered
  BY DEF Quiet, EndsOK
<1>3. QED  BY <1>1, <1>2 DEF StreamStep, Silent

\* A write adds good messages, a read takes a good message.
LEMMA PutKeeps ==
    ASSUME NEW E, NEW c, ChanOK(E, c), NEW k \in Socket, NEW p \in Side,
           NEW msgs \in Seq(ProtocolMessage), AllGood(E[p], msgs)
    PROVE  ChanOK(E, Put(c, k, p, msgs))
<1>1. CASE ~open[k]
  BY <1>1 DEF Put
<1>2. CASE open[k]
  <2> DEFINE t  == c[k][p] \o msgs
             c1 == Put(c, k, p, msgs)
  <2>1. c[k][p] \in Seq(ProtocolMessage) /\ AllGood(E[p], c[k][p])
    BY DEF ChanOK
  <2>2. t \in Seq(ProtocolMessage) /\ AllGood(E[p], t)
    BY <2>1, ConcatGood
  <2>3. c1 = [c EXCEPT ![k][p] = t]
    BY <1>2 DEF Put, ChanOK
  <2> HIDE DEF t, c1
  <2>4. c1 \in [Socket -> [Side -> Seq(ProtocolMessage)]]
    BY <2>2, <2>3 DEF ChanOK
  <2>5. ASSUME NEW j \in Socket, NEW q \in Side PROVE AllGood(E[q], c1[j][q])
    <3>1. c1[j][q] = IF j = k /\ q = p THEN t ELSE c[j][q]
      BY <2>3 DEF ChanOK
    <3>2. QED  BY <2>2, <3>1 DEF ChanOK
  <2>6. QED  BY <2>4, <2>5 DEF ChanOK, c1
<1>3. QED  BY <1>1, <1>2

\* Taking a message from a socket leaves honest messages on it.
LEMMA ConsumeKeeps ==
    ASSUME NEW E, NEW c, ChanOK(E, c), NEW k \in Socket, NEW p \in Side,
           c[k][p] # <<>>
    PROVE  /\ Head(c[k][p]) \in ProtocolMessage
           /\ Good(E[p], Head(c[k][p]))
           /\ ChanOK(E, [c EXCEPT ![k][p] = Tail(@)])
<1> DEFINE s  == c[k][p]
           t  == Tail(s)
           c1 == [c EXCEPT ![k][p] = t]
<1>1. s \in Seq(ProtocolMessage) /\ s # <<>> /\ AllGood(E[p], s)
  BY DEF ChanOK
<1> HIDE DEF s
<1>2. /\ t \in Seq(ProtocolMessage) /\ Len(t) = Len(s) - 1
      /\ \A i \in 1..Len(t) : t[i] = s[i + 1]
      /\ Head(s) \in ProtocolMessage /\ Head(s) = s[1] /\ Len(s) \in Nat /\ Len(s) > 0
  BY <1>1, HeadTailProperties
<1> HIDE DEF t
<1>3. AllGood(E[p], t) /\ Good(E[p], Head(s))
  BY <1>1, <1>2 DEF AllGood
<1>4. c1 \in [Socket -> [Side -> Seq(ProtocolMessage)]]
  BY <1>2 DEF ChanOK
<1>5. ASSUME NEW j \in Socket, NEW q \in Side PROVE AllGood(E[q], c1[j][q])
  <2>1. c1[j][q] = IF j = k /\ q = p THEN t ELSE c[j][q]
    BY DEF ChanOK
  <2>2. QED  BY <1>3, <2>1 DEF ChanOK
<1> HIDE DEF c1
<1>6. ChanOK(E, c1)
  BY <1>4, <1>5 DEF ChanOK
<1>7. QED  BY <1>2, <1>3, <1>6 DEF c1, s, t

-----------------------------------------------------------------------------
(* The steps *)

\* Buffered messages are good, so handing them to a socket is harmless.
LEMMA WrittenGood ==
    ASSUME NEW e, NEW f, EndpointInv(e, f)
    PROVE  Written(e) \in Seq(ProtocolMessage) /\ AllGood(e, Written(e))
<1>1. e.writerData \in Seq(ProtocolMessage) /\ AllGood(e, e.writerData)
  BY DEF EndpointInv, Endpoint
<1>2. <<>> \in Seq(ProtocolMessage) /\ AllGood(e, <<>>)
  BY DEF AllGood
<1>3. QED  BY <1>1, <1>2 DEF Written

\* What is left of the type invariant once the stream is dealt with.
RestOK ==
    /\ phase \in {"Connected", "Reconnecting", "AwaitSign", "AwaitFirst"}
    /\ handshake \in [Socket -> {"None", "WaitingForAuth",
                        "WaitingForConnectionType", "FindingPort",
                        "InTransit", "Done"}]
    /\ open \in [Socket -> BOOLEAN]
    /\ numSockets \in Socket
    /\ budget \in [{"keepAlives", "faults", "losses"} -> Nat]

\* The invariant by its parts, so that a step can change some of them.
LEMMA IInvSplit == IInv <=> RestOK /\ EndsOK(ep) /\ ChanOK(ep, chan)
BY DEF IInv, TypeOK, RestOK, EndsOK, ChanOK

\* The same for the next state.
LEMMA IInvSplitPrime == IInv' <=> RestOK' /\ EndsOK(ep') /\ ChanOK(ep', chan')
BY DEF IInv, TypeOK, RestOK, EndsOK, ChanOK

\* Spending a fault leaves a budget.
LEMMA SpendFaultOK ==
    ASSUME RestOK, NEW k \in Socket, SpendFault(k)
    PROVE  budget' \in [{"keepAlives", "faults", "losses"} -> Nat]
BY DEF RestOK, SpendFault, Spend

\* A step of one endpoint that keeps its peer and the sockets.
LEMMA EndpointStepKeeps ==
    ASSUME IInv, NEW p \in Side, EndpointStep(p)
    PROVE  IInv' /\ StreamStep(ep, ep')
<1> DEFINE e == ep[p]
           f == ep[Peer(p)]
<1>1. RestOK /\ EndsOK(ep) /\ ChanOK(ep, chan)
  BY IInvSplit
<1>2. /\ e \in Endpoint /\ f \in Endpoint /\ e.socket \in Socket
      /\ EndpointInv(e, f) /\ EndpointInv(f, e)
      /\ AllGood(e, e.writerData) /\ e.writerData \in Seq(ProtocolMessage)
  BY <1>1, PeerFacts DEF EndsOK, EndpointInv, Endpoint
<1>3. ASSUME NEW d \in Data, NEW late \in BOOLEAN,
             ep' = [ep EXCEPT ![p] = SendRegular(@, d, late)], chan' = chan
      PROVE  EndsOK(ep') /\ ChanOK(ep', chan') /\ StreamStep(ep, ep')
  <2> DEFINE e1 == SendRegular(e, d, late)
  <2>1. Kept(e, e1, f) /\ e1.sent = Append(e.sent, d) /\ e1.delivered = e.delivered
    BY <1>2, SendRegularKept
  <2> HIDE DEF e1
  <2>2. ep' = [ep EXCEPT ![p] = e1]
    BY <1>3 DEF e1
  <2>3. EndsOK(ep') /\ ChanOK(ep', chan')
    <3>1. EndsOK([ep EXCEPT ![p] = e1]) /\ ChanOK([ep EXCEPT ![p] = e1], chan)
      BY <1>1, <2>1, EndpointMoves
    <3>2. QED  BY <1>3, <2>2, <3>1
  <2>4. Gives(ep, ep', p)
    BY <1>1, <2>1, <2>2, PeerFacts DEF Gives, EndsOK
  <2>5. QED  BY <2>3, <2>4 DEF StreamStep
<1>4. CASE \E d \in Data : Send(p, d)
  <2>1. PICK d \in Data : Send(p, d)
    BY <1>4
  <2>2. EndsOK(ep') /\ ChanOK(ep', chan') /\ StreamStep(ep, ep')
    BY <1>3, <2>1 DEF Send
  <2>3. RestOK'
    BY <1>1, <2>1 DEF Send, RestOK
  <2>4. QED  BY <2>2, <2>3, IInvSplitPrime
<1>5. CASE \E d \in Data : SendLate(p, d)
  <2>1. PICK d \in Data : SendLate(p, d)
    BY <1>5
  <2>2. EndsOK(ep') /\ ChanOK(ep', chan') /\ StreamStep(ep, ep')
    BY <1>3, <2>1 DEF SendLate
  <2>3. budget' \in [{"keepAlives", "faults", "losses"} -> Nat]
    BY <1>1, <1>2, <2>1, SpendFaultOK DEF SendLate
  <2>4. RestOK'
    BY <1>1, <2>1, <2>3 DEF SendLate, RestOK, OnSocketTimeout
  <2>5. QED  BY <2>2, <2>4, IInvSplitPrime
<1>6. CASE WriteNow(p)
  <2> DEFINE e1 == [e EXCEPT !.writeNowTimeout = FALSE,
                             !.writerData = IF e.isPaused THEN e.writerData ELSE <<>>]
  <2>1. ep' = [ep EXCEPT ![p] = e1]
    BY <1>1, <1>2, <1>6 DEF WriteNow, EndsOK, Endpoint
  <2>2. e1 \in Endpoint /\ AllGood(e, e1.writerData)
    <3>1. <<>> \in Seq(ProtocolMessage) /\ AllGood(e, <<>>)
      BY DEF AllGood
    <3>2. CASE e.isPaused
      BY <1>2, <3>2 DEF Endpoint
    <3>3. CASE ~e.isPaused
      BY <1>2, <3>1, <3>3 DEF Endpoint
    <3>4. QED  BY <3>2, <3>3
  <2>3. Quiet(e, e1, f)
    BY <1>2, <2>2, SameStream DEF Endpoint
  <2> HIDE DEF e1
  <2>4. EndsOK(ep') /\ ChanOK(ep', chan) /\ StreamStep(ep, ep')
    BY <1>1, <2>1, <2>3, QuietMoves
  <2>5. AllGood(ep'[p], Written(e)) /\ Written(e) \in Seq(ProtocolMessage)
    <3>1. e1 \in Endpoint /\ Extends(e, e1) /\ ep'[p] = e1
      BY <1>1, <2>1, <2>3 DEF Quiet, Kept, EndpointInv, EndsOK
    <3>2. QED  BY <1>2, <3>1, WrittenGood, ExtendsGood
  <2>6. ChanOK(ep', chan')
    BY <1>2, <1>6, <2>4, <2>5, PutKeeps DEF WriteNow
  <2>7. RestOK'
    BY <1>1, <1>6 DEF WriteNow, RestOK
  <2>8. QED  BY <2>4, <2>6, <2>7, IInvSplitPrime
<1>7. ASSUME NEW e1, Quiet(e, e1, f), ep' = [ep EXCEPT ![p] = e1], chan' = chan, RestOK'
      PROVE  IInv' /\ StreamStep(ep, ep')
  BY <1>1, <1>7, QuietMoves, IInvSplitPrime
<1>8. CASE AckTimer(p)
  <2> DEFINE e1 == [e EXCEPT !.incomingAckTimeout = FALSE]
  <2>1. ep' = [ep EXCEPT ![p] = SendAck(e1)]
    BY <1>8 DEF AckTimer
  <2>2. e1 \in Endpoint
    BY <1>2 DEF Endpoint
  <2>3. Quiet(e, e1, f)
    BY <1>2, <2>2, SameStream DEF Endpoint
  <2> HIDE DEF e1
  <2>4. Quiet(e, SendAck(e1), f)
    <3>1. Quiet(e1, SendAck(e1), f)
      BY <1>2, <2>3, SendAckQuiet DEF Quiet, Kept
    <3>2. QED  BY <1>2, <2>3, <3>1, QuietThenQuiet
  <2>5. RestOK' /\ chan' = chan
    BY <1>1, <1>8 DEF AckTimer, RestOK
  <2>6. QED  BY <1>7, <2>1, <2>4, <2>5
<1>9. CASE KeepAlive(p)
  <2>1. ep' = [ep EXCEPT ![p] = AckNow(e, "KeepAlive")] /\ chan' = chan
    BY <1>9 DEF KeepAlive, SendKeepAlive
  <2>2. Quiet(e, AckNow(e, "KeepAlive"), f)
    BY <1>2, AckNowQuiet
  <2>3. RestOK'
    BY <1>1, <1>9 DEF KeepAlive, RestOK, Spend
  <2>4. QED  BY <1>7, <2>1, <2>2, <2>3
<1>10. ASSUME ep' = [ep EXCEPT ![p].outgoingAckTimeout = FALSE], chan' = chan, RestOK'
       PROVE  IInv' /\ StreamStep(ep, ep')
  <2> DEFINE e1 == [e EXCEPT !.outgoingAckTimeout = FALSE]
  <2>1. e1 \in Endpoint
    BY <1>2 DEF Endpoint
  <2>2. Quiet(e, e1, f)
    BY <1>2, <2>1, SameStream DEF Endpoint
  <2>3. ep' = [ep EXCEPT ![p] = e1]
    BY <1>10
  <2>4. QED  BY <1>7, <1>10, <2>2, <2>3
<1>11. CASE RecvAckTimerDone(p)
  <2>1. RestOK'
    BY <1>1, <1>11 DEF RecvAckTimerDone, RestOK
  <2>2. QED  BY <1>10, <1>11, <2>1 DEF RecvAckTimerDone
<1>12. CASE SocketTimeout(p)
  <2>1. budget' \in [{"keepAlives", "faults", "losses"} -> Nat]
    BY <1>1, <1>2, <1>12, SpendFaultOK DEF SocketTimeout
  <2>2. RestOK'
    BY <1>1, <1>12, <2>1 DEF SocketTimeout, RestOK, OnSocketTimeout
  <2>3. QED  BY <1>10, <1>12, <2>2 DEF SocketTimeout
<1>13. CASE SocketClose(p)
  <2> DEFINE e1 == [e EXCEPT !.socketClosed = TRUE]
  <2>1. e1 \in Endpoint
    BY <1>2 DEF Endpoint
  <2>2. Quiet(e, e1, f)
    BY <1>2, <2>1, SameStream DEF Endpoint
  <2>3. ep' = [ep EXCEPT ![p] = e1] /\ chan' = chan
    BY <1>13 DEF SocketClose
  <2>4. RestOK'
    BY <1>1, <1>13 DEF SocketClose, RestOK
  <2>5. QED  BY <1>7, <2>2, <2>3, <2>4
<1>14. CASE \E ask \in BOOLEAN : Read(p, ask)
  <2>1. PICK ask \in BOOLEAN : Read(p, ask)
    BY <1>14
  <2> DEFINE s   == chan[e.socket][Peer(p)]
             msg == Head(s)
             e1  == ReceiveMessage(e, msg, ask)
             c1  == [chan EXCEPT ![e.socket][Peer(p)] = Tail(@)]
  <2>2. s # <<>> /\ ep' = [ep EXCEPT ![p] = e1] /\ chan' = c1
    BY <2>1 DEF Read, CanRead, Incoming, Consume
  <2>3. msg \in ProtocolMessage /\ Good(f, msg) /\ ChanOK(ep, c1)
    BY <1>1, <1>2, <2>2, PeerFacts, ConsumeKeeps
  <2> HIDE DEF msg, c1
  <2>4. Kept(e, e1, f) /\ e1.sent = e.sent /\ Delivers(e, e1, f)
    BY <1>2, <2>3, ReceiveMessageKept
  <2> HIDE DEF e1
  <2>5. EndsOK(ep') /\ ChanOK(ep', chan')
    BY <1>1, <2>2, <2>3, <2>4, EndpointMoves
  <2>6. DeliversAt(ep, ep', p)
    BY <1>1, <2>2, <2>4, PeerFacts DEF DeliversAt, EndsOK
  <2>7. RestOK'
    BY <1>1, <2>1 DEF Read, RestOK
  <2>8. QED  BY <2>5, <2>6, <2>7, IInvSplitPrime DEF StreamStep
<1>15. QED
  BY <1>4, <1>5, <1>6, <1>8, <1>9, <1>11, <1>12, <1>13, <1>14 DEF EndpointStep

\* The client's endpoint, whose peer is the server's.
LEMMA ClientFacts ==
    ASSUME EndsOK(ep)
    PROVE  /\ "client" \in Side /\ "server" \in Side
           /\ Peer("client") = "server" /\ Peer("server") = "client"
           /\ \A p \in Side : ep[p] \in Endpoint /\ ep[p].socket \in Socket
           /\ EndpointInv(ep["client"], ep["server"])
           /\ EndpointInv(ep["server"], ep["client"])
BY DEF EndsOK, Side, Peer, Endpoint

\* A control message is good whoever writes it.
LEMMA ControlGood ==
    ASSUME NEW e \in Endpoint, NEW data \in ControlData
    PROVE  ControlMessage(data) \in ProtocolMessage /\ Good(e, ControlMessage(data))
<1>1. "Control" \in MessageType \ {"Regular"} /\ 0 <= e.incomingMsgId
  BY DEF MessageType, Endpoint
<1>2. QED  BY <1>1, BareGood DEF ControlMessage

\* The steps of the client's reconnection loop and handshake.
LEMMA ClientStepKeeps ==
    ASSUME IInv, BeginAttempt \/ AttemptTimeout \/ ReadSign \/ ReadFirst \/ BufferControl
    PROVE  IInv' /\ StreamStep(ep, ep')
<1> DEFINE e == ep["client"]
           f == ep["server"]
<1>1. RestOK /\ EndsOK(ep) /\ ChanOK(ep, chan)
  BY IInvSplit
<1>2. /\ e \in Endpoint /\ f \in Endpoint /\ e.socket \in Socket
      /\ EndpointInv(e, f) /\ EndpointInv(f, e)
      /\ AllGood(e, e.writerData)
      /\ e.controlBuffer \in Seq(Data \cup ControlData \cup {NoData})
  BY <1>1, ClientFacts DEF EndpointInv, Endpoint
<1>3. ASSUME NEW e1, Quiet(e, e1, f), ep' = [ep EXCEPT !["client"] = e1],
             ChanOK(ep, chan'), RestOK'
      PROVE  IInv' /\ StreamStep(ep, ep')
  <2>1. Quiet(ep["client"], e1, ep[Peer("client")])
    BY <1>1, <1>3, ClientFacts
  <2>2. QED  BY <1>1, <1>3, <2>1, ClientFacts, QuietMoves, IInvSplitPrime
<1>4. CASE BeginAttempt
  <2> DEFINE k  == numSockets + 1
             e1 == BeginAcceptReconnection(e, k)
             e2 == Write(e1, ControlMessage("auth"))
  <2>1. k \in Socket /\ ep' = [ep EXCEPT !["client"] = e2]
    BY <1>4 DEF BeginAttempt
  <2>2. Quiet(e, e1, f)
    BY <1>2, <2>1, BeginAcceptReconnectionQuiet
  <2> HIDE DEF e1
  <2>3. Quiet(e1, e2, f)
    <3>1. EndpointInv(e1, f) /\ e1 \in Endpoint
      BY <2>2 DEF Quiet, Kept, EndpointInv
    <3>2. ControlMessage("auth") \in ProtocolMessage /\ Good(e1, ControlMessage("auth"))
      BY <3>1, ControlGood DEF ControlData
    <3>3. QED  BY <1>2, <3>1, <3>2, WriteQuiet
  <2> HIDE DEF e2
  <2>4. Quiet(e, e2, f)
    BY <1>2, <2>2, <2>3, QuietThenQuiet
  <2>5. ChanOK(ep, chan')
    <3>1. Written(e) \in Seq(ProtocolMessage) /\ AllGood(e, Written(e))
      BY <1>2, WrittenGood
    <3>2. ChanOK(ep, Put(chan, e.socket, "client", Written(e)))
      BY <1>1, <1>2, <3>1, ClientFacts, PutKeeps
    <3>3. QED  BY <1>4, <3>2 DEF BeginAttempt
  <2>6. RestOK'
    BY <1>1, <1>2, <1>4, <2>1 DEF BeginAttempt, RestOK
  <2>7. QED  BY <1>3, <2>1, <2>4, <2>5, <2>6
<1>5. CASE AttemptTimeout
  <2>1. budget' \in [{"keepAlives", "faults", "losses"} -> Nat]
    BY <1>1, <1>2, <1>5, SpendFaultOK DEF AttemptTimeout
  <2>2. RestOK' /\ ep' = ep /\ chan' = chan
    BY <1>1, <1>5, <2>1 DEF AttemptTimeout, RestOK
  <2>3. QED  BY <1>1, <2>2, IInvSplitPrime DEF StreamStep, Silent
<1>6. ASSUME ReadControl
      PROVE  /\ ChanOK(ep, chan')
             /\ handshake' = handshake /\ open' = open
             /\ numSockets' = numSockets /\ budget' = budget
             /\ ControlQueue \in Seq(Data \cup ControlData \cup {NoData})
             /\ Tail(ControlQueue) \in Seq(Data \cup ControlData \cup {NoData})
  <2> DEFINE s == chan[e.socket]["server"]
  <2>1. s # <<>> /\ chan' = [chan EXCEPT ![e.socket]["server"] = Tail(@)]
    BY <1>1, <1>6, ClientFacts DEF ReadControl, CanRead, Incoming, Consume
  <2>2. Head(s) \in ProtocolMessage /\ ChanOK(ep, chan')
    BY <1>1, <1>2, <2>1, ClientFacts, ConsumeKeeps
  <2>3. Head(s).data \in Data \cup ControlData \cup {NoData}
    BY <2>2 DEF ProtocolMessage
  <2>4. ControlQueue = Append(e.controlBuffer, Head(s).data)
    BY <1>1, ClientFacts DEF ControlQueue, Incoming
  <2> HIDE DEF s
  <2>5. /\ ControlQueue \in Seq(Data \cup ControlData \cup {NoData})
        /\ ControlQueue # <<>>
    BY <1>2, <2>3, <2>4
  <2>6. Tail(ControlQueue) \in Seq(Data \cup ControlData \cup {NoData})
    BY <2>5, HeadTailProperties
  <2>7. QED  BY <1>6, <2>2, <2>5, <2>6 DEF ReadControl
<1>7. ASSUME NEW q \in Seq(Data \cup ControlData \cup {NoData})
      PROVE  Quiet(e, [e EXCEPT !.controlBuffer = q], f)
  <2>1. [e EXCEPT !.controlBuffer = q] \in Endpoint
    BY <1>2 DEF Endpoint
  <2>2. QED  BY <1>2, <2>1, SameStream DEF Endpoint
<1>8. CASE ReadSign
  <2> DEFINE e1  == [e EXCEPT !.controlBuffer = Tail(ControlQueue)]
             msg == ControlMessage("connectionType")
  <2>1. ReadControl /\ ep' = [ep EXCEPT !["client"] = Write(e1, msg)] /\ phase' = "AwaitFirst"
    BY <1>8 DEF ReadSign
  <2>2. Quiet(e, e1, f)
    BY <1>6, <1>7, <2>1
  <2> HIDE DEF e1
  <2>3. Quiet(e1, Write(e1, msg), f)
    <3>1. EndpointInv(e1, f) /\ e1 \in Endpoint
      BY <2>2 DEF Quiet, Kept, EndpointInv
    <3>2. msg \in ProtocolMessage /\ Good(e1, msg)
      BY <3>1, ControlGood DEF ControlData
    <3>3. QED  BY <1>2, <3>1, <3>2, WriteQuiet
  <2>4. Quiet(e, Write(e1, msg), f)
    BY <1>2, <2>2, <2>3, QuietThenQuiet
  <2>5. RestOK' /\ ChanOK(ep, chan')
    BY <1>1, <1>6, <2>1 DEF RestOK
  <2>6. QED  BY <1>3, <2>1, <2>4, <2>5
<1>9. CASE ReadFirst
  <2> DEFINE e1 == [e EXCEPT !.controlBuffer = Tail(ControlQueue)]
  <2>1. /\ ReadControl
        /\ ep' = [ep EXCEPT !["client"] = EndAcceptReconnection(e1)]
        /\ phase' = "Connected"
    BY <1>9 DEF ReadFirst
  <2>2. Quiet(e, e1, f)
    BY <1>6, <1>7, <2>1
  <2> HIDE DEF e1
  <2>3. Quiet(e1, EndAcceptReconnection(e1), f)
    BY <1>2, <2>2, EndAcceptReconnectionQuiet DEF Quiet, Kept
  <2>4. Quiet(e, EndAcceptReconnection(e1), f)
    BY <1>2, <2>2, <2>3, QuietThenQuiet
  <2>5. RestOK' /\ ChanOK(ep, chan')
    BY <1>1, <1>6, <2>1 DEF RestOK
  <2>6. QED  BY <1>3, <2>1, <2>4, <2>5
<1>10. CASE BufferControl
  <2> DEFINE e1 == [e EXCEPT !.controlBuffer = ControlQueue]
  <2>1. ReadControl /\ ep' = [ep EXCEPT !["client"] = e1] /\ phase' = phase
    BY <1>10 DEF BufferControl
  <2>2. Quiet(e, e1, f)
    BY <1>6, <1>7, <2>1
  <2> HIDE DEF e1
  <2>3. RestOK' /\ ChanOK(ep, chan')
    BY <1>1, <1>6, <2>1 DEF RestOK
  <2>4. QED  BY <1>3, <2>1, <2>2, <2>3
<1>11. QED  BY <1>4, <1>5, <1>8, <1>9, <1>10

\* The handshake on the server, and the acceptance of a socket.
LEMMA ServerStepKeeps ==
    ASSUME IInv, (\E k \in Socket : ServerStep(k)) \/ EndAccept
    PROVE  IInv' /\ StreamStep(ep, ep')
<1> DEFINE e == ep["server"]
           f == ep["client"]
<1>1. RestOK /\ EndsOK(ep) /\ ChanOK(ep, chan)
  BY IInvSplit
<1>2. /\ e \in Endpoint /\ f \in Endpoint /\ e.socket \in Socket
      /\ EndpointInv(e, f) /\ EndpointInv(f, e)
      /\ "server" \in Side /\ "client" \in Side
  BY <1>1, ClientFacts
<1>3. ASSUME NEW e1, Quiet(e, e1, f), ep' = [ep EXCEPT !["server"] = e1],
             ChanOK(ep, chan'), RestOK'
      PROVE  IInv' /\ StreamStep(ep, ep')
  <2>1. Quiet(ep["server"], e1, ep[Peer("server")])
    BY <1>1, <1>3, ClientFacts
  <2>2. QED  BY <1>1, <1>2, <1>3, <2>1, QuietMoves, IInvSplitPrime
<1>4. ASSUME ep' = ep, ChanOK(ep, chan'), RestOK'
      PROVE  IInv' /\ StreamStep(ep, ep')
  BY <1>1, <1>4, IInvSplitPrime DEF StreamStep, Silent
<1>5. ASSUME NEW data \in ControlData
      PROVE  /\ <<ControlMessage(data)>> \in Seq(ProtocolMessage)
             /\ AllGood(e, <<ControlMessage(data)>>)
  BY <1>2, <1>5, ControlGood DEF AllGood
<1>6. ASSUME NEW type \in {"Pause", "Resume"}
      PROVE  /\ Message(type, 0, 0, NoData) \in ProtocolMessage
             /\ \A d \in Endpoint : Good(d, Message(type, 0, 0, NoData))
  <2>1. type \in MessageType \ {"Regular"}
    BY DEF MessageType
  <2>2. \A d \in Endpoint : 0 <= d.incomingMsgId
    BY DEF Endpoint
  <2>3. QED  BY <1>2, <2>1, <2>2, BareGood
<1>7. ASSUME NEW k \in Socket, chan[k]["client"] # <<>>
      PROVE  ChanOK(ep, [chan EXCEPT ![k]["client"] = Tail(@)])
  BY <1>1, <1>2, <1>7, ConsumeKeeps
<1>8. ASSUME NEW k \in Socket, NEW c, ChanOK(ep, c), BeginAccept(k, c),
             phase' = phase, numSockets' = numSockets, budget' = budget
      PROVE  IInv' /\ StreamStep(ep, ep')
  <2> DEFINE e1 == BeginAcceptReconnection(e, k)
  <2>1. Quiet(e, e1, f) /\ ep' = [ep EXCEPT !["server"] = e1]
    BY <1>2, <1>8, BeginAcceptReconnectionQuiet DEF BeginAccept
  <2>2. ChanOK(ep, chan')
    <3>1. Written(e) \in Seq(ProtocolMessage) /\ AllGood(e, Written(e))
      BY <1>2, WrittenGood
    <3>2. ChanOK(ep, Put(c, e.socket, "server", Written(e)))
      BY <1>2, <1>8, <3>1, PutKeeps
    <3>3. QED  BY <1>8, <3>2 DEF BeginAccept
  <2>3. RestOK'
    BY <1>1, <1>2, <1>8 DEF BeginAccept, RestOK
  <2> HIDE DEF e1
  <2>4. QED  BY <1>3, <2>1, <2>2, <2>3
<1>9. ASSUME NEW k \in Socket, ServerStep(k)
      PROVE  IInv' /\ StreamStep(ep, ep')
  <2>1. CASE SkipMessage(k)
    <3>1. chan[k]["client"] # <<>> /\ chan' = [chan EXCEPT ![k]["client"] = Tail(@)]
          /\ ep' = ep
      BY <2>1 DEF SkipMessage, Handshaking, Consume
    <3>2. RestOK'
      BY <1>1, <2>1 DEF SkipMessage, RestOK
    <3>3. QED  BY <1>4, <1>7, <3>1, <3>2
  <2>2. CASE ReadAuth(k)
    <3> DEFINE c == [chan EXCEPT ![k]["client"] = Tail(@)]
    <3>1. /\ chan[k]["client"] # <<>> /\ ep' = ep
          /\ chan' = Put(c, k, "server", <<ControlMessage("sign")>>)
      BY <2>2 DEF ReadAuth, Handshaking
    <3>2. ChanOK(ep, c)
      BY <1>7, <3>1
    <3> HIDE DEF c
    <3>3. ChanOK(ep, chan')
      BY <1>2, <1>5, <3>1, <3>2, PutKeeps DEF ControlData
    <3>4. RestOK'
      BY <1>1, <2>2 DEF ReadAuth, RestOK
    <3>5. QED  BY <1>4, <3>1, <3>3, <3>4
  <2>3. CASE ReadConnectionType(k)
    <3> DEFINE c  == [chan EXCEPT ![k]["client"] = Tail(@)]
               c1 == Put(c, k, "server", <<ControlMessage("first")>>)
    <3>1. chan[k]["client"] # <<>> /\ BeginAccept(k, c1)
          /\ phase' = phase /\ numSockets' = numSockets /\ budget' = budget
      BY <2>3 DEF ReadConnectionType, Handshaking
    <3>2. ChanOK(ep, c)
      BY <1>7, <3>1
    <3> HIDE DEF c
    <3>3. ChanOK(ep, c1)
      BY <1>2, <1>5, <3>2, PutKeeps DEF ControlData
    <3> HIDE DEF c1
    <3>4. QED  BY <1>8, <3>1, <3>3
  <2>4. CASE FindFreePort(k)
    <3>1. chan[k]["client"] # <<>> /\ chan' = [chan EXCEPT ![k]["client"] = Tail(@)]
          /\ ep' = ep
      BY <2>4 DEF FindFreePort, Handshaking, Consume
    <3>2. RestOK'
      BY <1>1, <2>4 DEF FindFreePort, RestOK
    <3>3. QED  BY <1>4, <1>7, <3>1, <3>2
  <2>5. CASE SendSocket(k)
    <3> DEFINE m1 == Message("Pause", 0, 0, NoData)
               m2 == ControlMessage("first")
    <3>1. chan' = Put(chan, k, "server", <<m1, m2>>) /\ ep' = ep
      BY <2>5 DEF SendSocket
    <3>2. m1 \in ProtocolMessage /\ Good(e, m1) /\ m2 \in ProtocolMessage /\ Good(e, m2)
      BY <1>2, <1>6, ControlGood DEF ControlData
    <3> HIDE DEF m1, m2
    <3>3. <<m1, m2>> \in Seq(ProtocolMessage) /\ AllGood(e, <<m1, m2>>)
      BY <3>2 DEF AllGood
    <3>4. ChanOK(ep, chan')
      BY <1>1, <1>2, <3>1, <3>3, PutKeeps
    <3>5. RestOK'
      BY <1>1, <2>5 DEF SendSocket, RestOK
    <3>6. QED  BY <1>4, <3>1, <3>4, <3>5
  <2>6. CASE AdoptSocket(k)
    BY <1>1, <1>8, <2>6 DEF AdoptSocket
  <2>7. QED  BY <1>9, <2>1, <2>2, <2>3, <2>4, <2>5, <2>6 DEF ServerStep
<1>10. CASE EndAccept
  <2> DEFINE e1 == EndAcceptReconnection(e)
             e2 == Write(e1, Message("Resume", 0, 0, NoData))
  <2>1. Quiet(e, e1, f)
    BY <1>2, EndAcceptReconnectionQuiet
  <2>2. ep' = [ep EXCEPT !["server"] = IF HandsOver THEN e2 ELSE e1]
        /\ chan' = chan
    BY <1>10 DEF EndAccept
  <2> HIDE DEF e1
  <2>3. Quiet(e, e2, f)
    <3>1. EndpointInv(e1, f) /\ e1 \in Endpoint
      BY <2>1 DEF Quiet, Kept, EndpointInv
    <3>2. Quiet(e1, e2, f)
      BY <1>2, <1>6, <3>1, WriteQuiet
    <3>3. QED  BY <1>2, <2>1, <3>2, QuietThenQuiet
  <2>4. RestOK'
    BY <1>1, <1>10 DEF EndAccept, RestOK
  <2> HIDE DEF e2
  <2>5. QED  BY <1>1, <1>3, <2>1, <2>2, <2>3, <2>4
<1>11. QED  BY <1>9, <1>10

\* The network loses sockets and, on a bad one, messages.
LEMMA NetworkStepKeeps ==
    ASSUME IInv, NEW k \in Socket, NetworkStep(k)
    PROVE  IInv' /\ StreamStep(ep, ep')
<1>1. RestOK /\ EndsOK(ep) /\ ChanOK(ep, chan) /\ "client" \in Side
  BY IInvSplit DEF Side
<1>2. ASSUME NEW p \in Side, chan[k][p] # <<>>
      PROVE  ChanOK(ep, [chan EXCEPT ![k][p] = Tail(@)])
  BY <1>1, <1>2, ConsumeKeeps
<1>3. CASE Fail(k)
  <2>1. RestOK' /\ ep' = ep /\ chan' = chan
    BY <1>1, <1>3 DEF Fail, RestOK, Spend
  <2>2. QED  BY <1>1, <2>1, IInvSplitPrime DEF StreamStep, Silent
<1>4. CASE LoseInTransit(k)
  <2>1. RestOK' /\ ep' = ep
    BY <1>1, <1>4 DEF LoseInTransit, RestOK
  <2>2. ChanOK(ep, chan')
    BY <1>1, <1>2, <1>4 DEF LoseInTransit, Consume
  <2>3. QED  BY <1>1, <2>1, <2>2, IInvSplitPrime DEF StreamStep, Silent
<1>5. CASE \E p \in Side : Lose(k, p)
  <2>1. PICK p \in Side : Lose(k, p)
    BY <1>5
  <2>2. RestOK' /\ ep' = ep
    BY <1>1, <2>1 DEF Lose, RestOK, Spend
  <2>3. ChanOK(ep, chan')
    BY <1>2, <2>1 DEF Lose, Consume
  <2>4. QED  BY <1>1, <2>2, <2>3, IInvSplitPrime DEF StreamStep, Silent
<1>6. QED  BY <1>3, <1>4, <1>5 DEF NetworkStep

-----------------------------------------------------------------------------
(* The theorems *)

\* A connection starts with two new endpoints and empty sockets.
LEMMA InitIInv == Init => IInv
<1> SUFFICES ASSUME Init PROVE IInv
  OBVIOUS
<1>1. 1 \in Socket
  BY ConstantsAssumption DEF Socket
<1>2. /\ <<>> \in Seq(ProtocolMessage) /\ <<>> \in Seq(Data)
      /\ <<>> \in Seq(Data \cup ControlData \cup {NoData})
  OBVIOUS
<1>3. NewEndpoint \in Endpoint
  BY <1>1, <1>2 DEF NewEndpoint, Endpoint
<1>4. EndpointInv(NewEndpoint, NewEndpoint)
  <2>1. /\ NewEndpoint.sent = <<>> /\ NewEndpoint.delivered = <<>>
        /\ NewEndpoint.incomingMsgId = 0 /\ NewEndpoint.outgoingMsgId = 0
        /\ NewEndpoint.outgoingAckId = 0 /\ NewEndpoint.outgoingUnackMsg = <<>>
        /\ NewEndpoint.writerData = <<>>
    BY DEF NewEndpoint
  <2>2. QED
    BY <1>3, <2>1 DEF EndpointInv, Counts, Prefix, QueueExact, AllGood
<1>5. ep = [p \in Side |-> NewEndpoint]
  BY DEF Init
<1>6. EndsOK(ep)
  BY <1>3, <1>4, <1>5, PeerFacts DEF EndsOK
<1>7. ChanOK(ep, chan)
  BY <1>2 DEF Init, ChanOK, AllGood
<1>8. RestOK
  BY <1>1, ConstantsAssumption DEF Init, RestOK
<1>9. QED  BY <1>6, <1>7, <1>8, IInvSplit

\* Every step keeps the invariant, and maps to a step of the channel.
LEMMA NextIInv == IInv /\ [Next]_vars => IInv' /\ StreamStep(ep, ep')
<1> SUFFICES ASSUME IInv, [Next]_vars PROVE IInv' /\ StreamStep(ep, ep')
  OBVIOUS
<1>1. CASE \E p \in Side : EndpointStep(p)
  BY <1>1, EndpointStepKeeps
<1>2. CASE BeginAttempt \/ AttemptTimeout \/ ReadSign \/ ReadFirst \/ BufferControl
  BY <1>2, ClientStepKeeps
<1>3. CASE (\E k \in Socket : ServerStep(k)) \/ EndAccept
  BY <1>3, ServerStepKeeps
<1>4. CASE \E k \in Socket : NetworkStep(k)
  BY <1>4, NetworkStepKeeps
<1>5. CASE UNCHANGED vars
  <2>1. ep' = ep /\ chan' = chan /\ RestOK'
    BY <1>5, IInvSplit DEF vars, RestOK
  <2>2. QED  BY <2>1, IInvSplit, IInvSplitPrime DEF StreamStep, Silent
<1>6. QED  BY <1>1, <1>2, <1>3, <1>4, <1>5 DEF Next

\* The inductive invariant holds in every reachable state.
LEMMA SpecIInv == Spec => []IInv
<1>1. IInv /\ [Next]_vars => IInv'
  BY NextIInv
<1>2. QED  BY <1>1, InitIInv, PTL DEF Spec

\* Every reachable state is well formed: the fields of both endpoints, the
\* reconnection loop, the handshakes and the sockets.
THEOREM TypeCorrect == Spec => []TypeOK
<1>1. IInv => TypeOK
  BY DEF IInv
<1>2. QED  BY <1>1, SpecIInv, PTL

\* Whatever happens to the sockets, onMessage fires what the other side gave
\* to send(), once each and in order.
THEOREM DeliveryCorrect == Spec => []ExactlyOnceInOrder
<1>1. IInv => ExactlyOnceInOrder
  BY DEF IInv, EndsOK, EndpointInv, Prefix, ExactlyOnceInOrder
<1>2. QED  BY <1>1, SpecIInv, PTL

\* _receiveMessage never pops a message that the peer has not delivered.
THEOREM ForgetCorrect == Spec => []ForgottenOnlyWhenDelivered
<1>1. ASSUME IInv PROVE ForgottenOnlyWhenDelivered
  <2>1. ASSUME NEW p \in Side PROVE ep[p].outgoingAckId <= Len(ep[Peer(p)].delivered)
    <3>1. EndpointInv(ep[p], ep[Peer(p)]) /\ EndpointInv(ep[Peer(p)], ep[Peer(Peer(p))])
      BY <1>1, PeerFacts DEF IInv, EndsOK
    <3>2. QED  BY <3>1 DEF EndpointInv, Counts
  <2>2. QED  BY <2>1 DEF ForgottenOnlyWhenDelivered
<1>2. QED  BY <1>1, SpecIInv, PTL

\* The unacknowledged queue is exactly what has been sent and not confirmed.
THEOREM QueueCorrect == Spec => []UnackQueueExact
<1>1. IInv => UnackQueueExact
  BY DEF IInv, EndsOK, EndpointInv, QueueExact, UnackQueueExact
<1>2. QED  BY <1>1, SpecIInv, PTL

\* The two endpoints, over all their sockets, implement a reliable channel.
THEOREM ChannelImplemented == Spec => ImplementsChannel
<1> DEFINE snt == [p \in Side |-> ep[p].sent]
           dlv == [p \in Side |-> ep[p].delivered]
<1>1. Init => Channel!ChanInit
  BY DEF Init, Channel!ChanInit, NewEndpoint
<1>2. IInv /\ [Next]_vars => [Channel!ChanNext]_(Channel!chanVars)
  <2> SUFFICES ASSUME IInv, [Next]_vars
               PROVE  [Channel!ChanNext]_(Channel!chanVars)
    OBVIOUS
  <2>1. StreamStep(ep, ep')
    BY NextIInv
  <2>2. CASE Silent(ep, ep')
    <3>1. snt' = snt /\ dlv' = dlv
      BY <2>2 DEF Silent
    <3>2. QED  BY <3>1 DEF Channel!chanVars
  <2>3. ASSUME NEW p \in Side, Gives(ep, ep', p)
        PROVE  Channel!ChanNext
    <3>1. PICK d \in Data : ep'[p].sent = Append(ep[p].sent, d)
      BY <2>3 DEF Gives
    <3>2. snt' = [snt EXCEPT ![p] = Append(@, d)]
      BY <2>3, <3>1, PeerFacts, ZenonT(40) DEF Gives
    <3>3. dlv' = dlv
      BY <2>3, PeerFacts DEF Gives
    <3>4. Channel!Give(p)
      BY <3>2, <3>3 DEF Channel!Give
    <3>5. QED  BY <3>4 DEF Channel!ChanNext
  <2>4. ASSUME NEW p \in Side, DeliversAt(ep, ep', p), ~Silent(ep, ep')
        PROVE  Channel!ChanNext
    <3>1. /\ ep'[p].sent = ep[p].sent
          /\ ep'[Peer(p)] = ep[Peer(p)]
          /\ Delivers(ep[p], ep'[p], ep[Peer(p)])
      BY <2>4 DEF DeliversAt
    <3>2. ep'[p].delivered # ep[p].delivered
      BY <2>4, <3>1, PeerFacts DEF Silent
    <3>3. /\ Len(ep[p].delivered) < Len(ep[Peer(p)].sent)
          /\ ep'[p].delivered =
                Append(ep[p].delivered, ep[Peer(p)].sent[Len(ep[p].delivered) + 1])
      BY <3>1, <3>2 DEF Delivers
    <3>4. snt' = snt
      BY <3>1, PeerFacts
    <3>5. dlv' = [dlv EXCEPT ![p] = Append(@, snt[Peer(p)][Len(@) + 1])]
      <4> DEFINE d == Append(ep[p].delivered, ep[Peer(p)].sent[Len(ep[p].delivered) + 1])
      <4>1. /\ dlv[p] = ep[p].delivered /\ snt[Peer(p)] = ep[Peer(p)].sent
            /\ ep'[p].delivered = d
        BY <3>3, PeerFacts
      <4> HIDE DEF d
      <4>2. dlv' = [dlv EXCEPT ![p] = d]
        BY <3>1, <4>1, PeerFacts, ZenonT(40)
      <4>3. QED  BY <4>1, <4>2 DEF d
    <3>6. Len(dlv[p]) < Len(snt[Peer(p)])
      BY <3>3, PeerFacts
    <3>7. Channel!Deliver(p)
      BY <3>4, <3>5, <3>6 DEF Channel!Deliver
    <3>8. QED  BY <3>7 DEF Channel!ChanNext
  <2>5. QED  BY <2>1, <2>2, <2>3, <2>4 DEF StreamStep
<1>3. QED  BY <1>1, <1>2, SpecIInv, PTL DEF Spec, ImplementsChannel, Channel!ChanSpec

=============================================================================
