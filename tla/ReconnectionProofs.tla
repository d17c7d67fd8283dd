------------------------- MODULE ReconnectionProofs -------------------------
(***************************************************************************)
(* Proofs about the reconnections of PersistentProtocol: that no timer is  *)
(* missing, that control messages of an attempt do not outlive it, that    *)
(* the stream waits until the server's end of it is there, and that no     *)
(* reconnection leaves a gap.                                              *)
(*                                                                         *)
(* The invariant rests on that of PersistentProtocolProofs.  It is stated  *)
(* for the endpoints E, the sockets c that are open (o), the handshakes h  *)
(* and the number n of sockets, so that an action can be taken apart into  *)
(* changes of one of them.                                                 *)
(***************************************************************************)
EXTENDS PersistentProtocolProofs

\* What is written to a socket while its handshake goes on
NoRegular(s) == \A i \in 1..Len(s) : s[i].type # "Regular"

\* A reader that has received n messages meets no gap in s.
Chain(s, n) ==
    \A i \in 1..Len(s) : s[i].type = "Regular" =>
        \/ s[i].id <= n + 1
        \/ \E j \in 1..(i - 1) : s[j].type = "Regular" /\ s[i].id <= s[j].id + 1

\* ... and has received m messages when it has read s.
Reaches(s, n, m) ==
    \/ m <= n
    \/ \E j \in 1..Len(s) : s[j].type = "Regular" /\ m <= s[j].id

\* What is on the way from e brings the reader to where the next message of e
\* follows; an endpoint that is reconnecting writes no next message.
Feeds(s, n, e) == Chain(s, n) /\ (~e.isReconnecting => Reaches(s, n, e.outgoingMsgId))

\* The first message of the accepted connection comes after a Pause.
Guarded(s) ==
    \A i \in 1..Len(s) : s[i].type = "Control" /\ s[i].data = "first" =>
        \E j \in 1..(i - 1) : s[j].type = "Pause"

Handshakes(s) == \A i \in 1..Len(s) : s[i].type \in {"Control", "Pause"}

-----------------------------------------------------------------------------
(* The invariant *)

Timers(e) ==
    /\ e.writerData # <<>> /\ ~e.isPaused => e.writeNowTimeout
    /\ e.incomingMsgId > e.incomingAckId => e.incomingAckTimeout

\* The queue of unacknowledged messages holds messages of the stream only.
QueueRegular(e) ==
    \A i \in 1..Len(e.outgoingUnackMsg) : e.outgoingUnackMsg[i].type = "Regular"

ClientInv(e, ph) ==
    /\ ph = "Connected" => /\ ~e.isReconnecting
                           /\ e.outgoingUnackMsg # <<>> => e.outgoingAckTimeout
    /\ ph \in {"AwaitSign", "AwaitFirst"} => e.controlBuffer = <<>>

\* The client is on the latest socket, the server on one that it has accepted,
\* and nothing was ever on a socket that does not exist yet.
SocketsInv(E, c, h, n) ==
    /\ E["client"].socket = n
    /\ h[E["server"].socket] = "Done"
    /\ \A k \in Socket : k > n => h[k] = "None" /\ \A p \in Side : c[k][p] = <<>>

\* Until the server accepts a socket no message of the stream is on it, and
\* the client has none in its writer or is paused.
AdoptInv(E, c, h) ==
    \A k \in Socket : h[k] # "Done" =>
        /\ NoRegular(c[k]["client"])
        /\ Handshakes(c[k]["server"])
        /\ k = E["client"].socket =>
              \/ E["client"].isPaused
              \/ /\ E["client"].isReconnecting
                 /\ NoRegular(E["client"].writerData)
                 /\ Guarded(c[k]["server"])

\* A reader meets no gap in what is on its socket, nor in what is added to it
\* as long as the socket is open: to its own one or to one not yet accepted.
Fed(E, c, o, h, p) ==
    /\ Chain(c[E[p].socket][Peer(p)], E[p].incomingMsgId)
    /\ o[E[p].socket] /\ (E[Peer(p)].socket = E[p].socket \/ h[E[p].socket] # "Done") =>
          Feeds(c[E[p].socket][p] \o E[p].writerData, E[Peer(p)].incomingMsgId, E[p])

FeedInv(E, c, o, h) == \A p \in Side : Fed(E, c, o, h, p)

NoLoss == budget["losses"] = MaxLoss

ReInv ==
    /\ \A p \in Side : Timers(ep[p]) /\ QueueRegular(ep[p])
    /\ ClientInv(ep["client"], phase)
    /\ SocketsInv(ep, chan, handshake, numSockets)
    /\ budget["losses"] <= MaxLoss
    /\ NoLoss => AdoptInv(ep, chan, handshake) /\ FeedInv(ep, chan, open, handshake)

-----------------------------------------------------------------------------
(* Sequences of messages *)

\* What a concatenation consists of.
LEMMA ConcatFacts ==
    ASSUME NEW s \in Seq(ProtocolMessage), NEW t \in Seq(ProtocolMessage)
    PROVE  /\ s \o t \in Seq(ProtocolMessage)
           /\ Len(s \o t) = Len(s) + Len(t) /\ Len(s) \in Nat /\ Len(t) \in Nat
           /\ \A i \in 1..Len(s) : (s \o t)[i] = s[i] /\ i \in 1..Len(s \o t)
           /\ \A i \in 1..Len(t) : /\ (s \o t)[Len(s) + i] = t[i]
                                   /\ Len(s) + i \in 1..Len(s \o t)
           /\ \A i \in 1..Len(s \o t) : i \in 1..Len(s) \/ (i > Len(s) /\ i - Len(s) \in 1..Len(t))
OBVIOUS

\* What a tail consists of.
LEMMA TailOf ==
    ASSUME NEW s \in Seq(ProtocolMessage), s # <<>>
    PROVE  /\ Tail(s) \in Seq(ProtocolMessage) /\ Head(s) \in ProtocolMessage
           /\ Head(s) = s[1] /\ Len(Tail(s)) = Len(s) - 1 /\ Len(s) \in Nat /\ Len(s) >= 1
           /\ \A i \in 1..Len(Tail(s)) : Tail(s)[i] = s[i + 1]
OBVIOUS

\* Concatenations are rearranged.
LEMMA Rearranged ==
    ASSUME NEW s \in Seq(ProtocolMessage), NEW t \in Seq(ProtocolMessage),
           NEW u \in Seq(ProtocolMessage)
    PROVE  /\ (s \o t) \o u = s \o (t \o u) /\ s \o <<>> = s /\ <<>> \o s = s
           /\ s # <<>> => Tail(s) \o t = Tail(s \o t) /\ s \o t # <<>> /\ Head(s \o t) = Head(s)
<1>1. (s \o t) \o u = s \o (t \o u) /\ s \o <<>> = s /\ <<>> \o s = s
  OBVIOUS
<1>2. ASSUME s # <<>>
      PROVE  Tail(s) \o t = Tail(s \o t) /\ s \o t # <<>> /\ Head(s \o t) = Head(s)
  BY <1>2
<1>3. QED  BY <1>1, <1>2

\* The ids of messages are numbers.
LEMMA IdTypes ==
    ASSUME NEW s \in Seq(ProtocolMessage)
    PROVE  \A i \in 1..Len(s) : s[i] \in ProtocolMessage /\ s[i].id \in Nat
<1>1. \A i \in 1..Len(s) : s[i] \in ProtocolMessage
  OBVIOUS
<1>2. \A m \in ProtocolMessage : m.id \in Nat
  BY DEF ProtocolMessage
<1>3. QED  BY <1>1, <1>2

\* Messages outside the stream leave no gap.
LEMMA BareChain ==
    ASSUME NEW s \in Seq(ProtocolMessage), NEW t \in Seq(ProtocolMessage), NEW n \in Nat
    PROVE  /\ NoRegular(s) => Chain(s, n)
           /\ Chain(s, n) /\ NoRegular(t) => Chain(s \o t, n)
           /\ NoRegular(s) /\ NoRegular(t) => NoRegular(s \o t)
           /\ Chain(s \o t, n) => Chain(s, n)
           /\ \A m \in Nat : Reaches(s, n, m) => Reaches(s \o t, n, m)
<1>1. NoRegular(s) => Chain(s, n)
  BY DEF NoRegular, Chain
<1>2. ASSUME NoRegular(t), NEW i \in 1..Len(s \o t), (s \o t)[i].type = "Regular"
      PROVE  i \in 1..Len(s)
  <2>1. CASE i > Len(s)
    <3>1. (s \o t)[i] = t[i - Len(s)] /\ i - Len(s) \in 1..Len(t)
      BY <2>1, ConcatFacts
    <3>2. QED  BY <1>2, <3>1 DEF NoRegular
  <2>2. QED  BY <2>1, ConcatFacts
<1>3. ASSUME Chain(s, n), NoRegular(t)
      PROVE  Chain(s \o t, n)
  <2> SUFFICES ASSUME NEW i \in 1..Len(s \o t), (s \o t)[i].type = "Regular"
               PROVE  \/ (s \o t)[i].id <= n + 1
                      \/ \E j \in 1..(i - 1) : /\ (s \o t)[j].type = "Regular"
                                               /\ (s \o t)[i].id <= (s \o t)[j].id + 1
    BY DEF Chain
  <2>1. i \in 1..Len(s)
    BY <1>2, <1>3
  <2>2. \A j \in 1..i : (s \o t)[j] = s[j]
    BY <2>1, ConcatFacts
  <2>3. QED  BY <1>3, <2>1, <2>2 DEF Chain
<1>4. NoRegular(s) /\ NoRegular(t) => NoRegular(s \o t)
  BY <1>2, ConcatFacts DEF NoRegular
<1>5. ASSUME Chain(s \o t, n)
      PROVE  Chain(s, n)
  <2> SUFFICES ASSUME NEW i \in 1..Len(s), s[i].type = "Regular"
               PROVE  \/ s[i].id <= n + 1
                      \/ \E j \in 1..(i - 1) : s[j].type = "Regular" /\ s[i].id <= s[j].id + 1
    BY DEF Chain
  <2>1. i \in 1..Len(s \o t) /\ \A j \in 1..i : (s \o t)[j] = s[j]
    BY ConcatFacts
  <2>2. QED  BY <1>5, <2>1 DEF Chain
<1>6. \A m \in Nat : Reaches(s, n, m) => Reaches(s \o t, n, m)
  BY ConcatFacts DEF Reaches
<1>7. QED  BY <1>1, <1>3, <1>4, <1>5, <1>6

\* A reader that has received more is no worse off.
LEMMA ChainMonotone ==
    ASSUME NEW s \in Seq(ProtocolMessage), NEW n \in Nat, NEW n1 \in Nat, n <= n1
    PROVE  /\ Chain(s, n) => Chain(s, n1)
           /\ \A m \in Nat : Reaches(s, n, m) => Reaches(s, n1, m)
<1>1. \A i \in 1..Len(s) : s[i] \in ProtocolMessage /\ s[i].id \in Nat
  BY IdTypes
<1>2. Chain(s, n) => Chain(s, n1)
  BY <1>1 DEF Chain
<1>3. \A m \in Nat : Reaches(s, n, m) => Reaches(s, n1, m)
  BY <1>1 DEF Reaches
<1>4. QED  BY <1>2, <1>3

\* The head has been read: it counts for nothing any more.
LEMMA ChainTail ==
    ASSUME NEW s \in Seq(ProtocolMessage), s # <<>>, NEW n \in Nat,
           Head(s).type = "Regular" => Head(s).id <= n
    PROVE  /\ Chain(s, n) => Chain(Tail(s), n)
           /\ \A m \in Nat : Reaches(s, n, m) => Reaches(Tail(s), n, m)
           /\ NoRegular(s) => NoRegular(Tail(s))
<1>1. \A i \in 1..Len(s) : s[i] \in ProtocolMessage /\ s[i].id \in Nat
  BY IdTypes
<1>2. ASSUME Chain(s, n)
      PROVE  Chain(Tail(s), n)
  <2> SUFFICES ASSUME NEW i \in 1..Len(Tail(s)), Tail(s)[i].type = "Regular"
               PROVE  \/ Tail(s)[i].id <= n + 1
                      \/ \E j \in 1..(i - 1) : /\ Tail(s)[j].type = "Regular"
                                               /\ Tail(s)[i].id <= Tail(s)[j].id + 1
    BY DEF Chain
  <2>1. Tail(s)[i] = s[i + 1] /\ i + 1 \in 1..Len(s) /\ 1 \in 1..Len(s)
    BY TailOf
  <2>2. CASE s[i + 1].id <= n + 1
    BY <2>1, <2>2
  <2>3. ASSUME NEW j \in 1..i, s[j].type = "Regular", s[i + 1].id <= s[j].id + 1
        PROVE  \/ Tail(s)[i].id <= n + 1
               \/ \E l \in 1..(i - 1) : /\ Tail(s)[l].type = "Regular"
                                        /\ Tail(s)[i].id <= Tail(s)[l].id + 1
    <3>1. CASE j = 1
      BY <1>1, <2>1, <2>3, <3>1, TailOf
    <3>2. CASE j # 1
      <4>1. j - 1 \in 1..(i - 1) /\ j - 1 \in 1..Len(Tail(s))
        BY <2>1, <3>2, TailOf
      <4>2. Tail(s)[j - 1] = s[j]
        BY <4>1, TailOf
      <4>3. QED  BY <2>1, <2>3, <4>1, <4>2
    <3>3. QED  BY <3>1, <3>2
  <2>4. QED  BY <1>2, <2>1, <2>2, <2>3 DEF Chain
<1>3. ASSUME NEW m \in Nat, Reaches(s, n, m)
      PROVE  Reaches(Tail(s), n, m)
  <2>1. CASE m <= n
    BY <2>1 DEF Reaches
  <2>2. ASSUME NEW j \in 1..Len(s), s[j].type = "Regular", m <= s[j].id
        PROVE  Reaches(Tail(s), n, m)
    <3>1. CASE j = 1
      BY <1>1, <2>2, <3>1, TailOf DEF Reaches
    <3>2. CASE j # 1
      <4>1. j - 1 \in 1..Len(Tail(s))
        BY <3>2, TailOf
      <4>2. Tail(s)[j - 1] = s[j]
        BY <4>1, TailOf
      <4>3. QED  BY <2>2, <4>1, <4>2 DEF Reaches
    <3>3. QED  BY <3>1, <3>2
  <2>3. QED  BY <1>3, <2>1, <2>2 DEF Reaches
<1>4. NoRegular(s) => NoRegular(Tail(s))
  BY TailOf DEF NoRegular
<1>5. QED  BY <1>2, <1>3, <1>4

\* The next message of the stream follows what reaches it.
LEMMA ChainNext ==
    ASSUME NEW s \in Seq(ProtocolMessage), NEW n \in Nat, NEW m \in Nat,
           Chain(s, n), Reaches(s, n, m),
           NEW msg \in ProtocolMessage, msg.type = "Regular", msg.id = m + 1
    PROVE  Chain(s \o <<msg>>, n) /\ Reaches(s \o <<msg>>, n, m + 1)
<1> DEFINE t == s \o <<msg>>
<1>1. /\ <<msg>> \in Seq(ProtocolMessage) /\ Len(<<msg>>) = 1 /\ <<msg>>[1] = msg
      /\ Len(s) \in Nat
  OBVIOUS
<1>2. /\ Len(t) = Len(s) + 1 /\ t[Len(s) + 1] = msg
      /\ \A i \in 1..Len(s) : t[i] = s[i]
  BY <1>1, ConcatFacts
<1>3. \A i \in 1..Len(s) : s[i] \in ProtocolMessage /\ s[i].id \in Nat
  BY IdTypes
<1> HIDE DEF t
<1>4. Reaches(t, n, m + 1)
  BY <1>1, <1>2 DEF Reaches
<1>5. ASSUME NEW i \in 1..Len(t), t[i].type = "Regular"
      PROVE  \/ t[i].id <= n + 1
             \/ \E j \in 1..(i - 1) : t[j].type = "Regular" /\ t[i].id <= t[j].id + 1
  <2>1. CASE i \in 1..Len(s)
    <3>1. \A j \in 1..i : t[j] = s[j]
      BY <1>1, <1>2, <2>1
    <3>2. QED  BY <1>5, <2>1, <3>1 DEF Chain
  <2>2. CASE i = Len(s) + 1
    <3>1. CASE m <= n
      BY <1>2, <2>2, <3>1
    <3>2. ASSUME NEW j \in 1..Len(s), s[j].type = "Regular", m <= s[j].id
          PROVE  \E l \in 1..(i - 1) : t[l].type = "Regular" /\ t[i].id <= t[l].id + 1
      <4>1. j \in 1..(i - 1) /\ t[j].type = "Regular" /\ t[i].id <= t[j].id + 1
        BY <1>1, <1>2, <1>3, <2>2, <3>2
      <4>2. QED  BY <4>1
    <3>3. QED  BY <3>1, <3>2 DEF Reaches
  <2>3. QED  BY <1>1, <1>2, <2>1, <2>2
<1>6. QED  BY <1>4, <1>5 DEF Chain, t

\* The whole queue of unacknowledged messages follows anything, for a reader
\* that has received what they come after.
LEMMA ChainQueue ==
    ASSUME NEW s \in Seq(ProtocolMessage), NEW n \in Nat, Chain(s, n),
           NEW q \in Seq(ProtocolMessage), NEW a \in Nat, a <= n,
           \A i \in 1..Len(q) : q[i].type = "Regular" /\ q[i].id = a + i
    PROVE  Chain(s \o q, n) /\ Reaches(s \o q, n, a + Len(q))
<1> DEFINE t == s \o q
<1>1. /\ Len(t) = Len(s) + Len(q) /\ Len(s) \in Nat /\ Len(q) \in Nat
      /\ \A i \in 1..Len(s) : t[i] = s[i]
      /\ \A i \in 1..Len(q) : t[Len(s) + i] = q[i]
  BY ConcatFacts
<1> HIDE DEF t
<1>2. ASSUME NEW i \in 1..Len(t), t[i].type = "Regular"
      PROVE  \/ t[i].id <= n + 1
             \/ \E j \in 1..(i - 1) : t[j].type = "Regular" /\ t[i].id <= t[j].id + 1
  <2>1. CASE i \in 1..Len(s)
    <3>1. \A j \in 1..i : t[j] = s[j]
      BY <1>1, <2>1
    <3>2. s[i].type = "Regular" /\ t[i] = s[i]
      BY <1>2, <2>1, <3>1
    <3>3. \/ s[i].id <= n + 1
          \/ \E j \in 1..(i - 1) : s[j].type = "Regular" /\ s[i].id <= s[j].id + 1
      BY <2>1, <3>2 DEF Chain
    <3>4. \A j \in 1..(i - 1) : t[j] = s[j]
      BY <1>1, <2>1
    <3>5. QED  BY <3>2, <3>3, <3>4
  <2>2. CASE i > Len(s) + 1
    <3>1. /\ i - Len(s) \in 1..Len(q) /\ i - 1 - Len(s) \in 1..Len(q)
          /\ i - 1 \in 1..(i - 1)
      BY <1>1, <2>2
    <3>2. t[Len(s) + (i - Len(s))] = q[i - Len(s)] /\ t[Len(s) + (i - 1 - Len(s))] = q[i - 1 - Len(s)]
      BY <1>1, <3>1
    <3>3. Len(s) + (i - Len(s)) = i /\ Len(s) + (i - 1 - Len(s)) = i - 1
      BY <1>1
    <3>4. /\ t[i - 1].type = "Regular" /\ t[i].id = a + (i - Len(s))
          /\ t[i - 1].id = a + (i - 1 - Len(s))
      BY <3>1, <3>2, <3>3
    <3>5. t[i].id <= t[i - 1].id + 1
      BY <1>1, <3>4
    <3>6. QED  BY <3>1, <3>4, <3>5
  <2>3. CASE i = Len(s) + 1
    <3>1. 1 \in 1..Len(q)
      BY <1>1, <2>3
    <3>2. t[i] = q[1] /\ q[1].id = a + 1
      BY <1>1, <2>3, <3>1
    <3>3. QED  BY <3>2
  <2>4. i \in 1..Len(s) \/ i > Len(s) + 1 \/ i = Len(s) + 1
    BY <1>1
  <2>5. QED  BY <2>1, <2>2, <2>3, <2>4
<1>3. Reaches(t, n, a + Len(q))
  <2>1. CASE Len(q) = 0
    BY <2>1 DEF Reaches
  <2>2. CASE Len(q) # 0
    <3>1. Len(q) \in 1..Len(q) /\ Len(s) + Len(q) \in 1..Len(t)
      BY <1>1, <2>2
    <3>2. t[Len(s) + Len(q)].type = "Regular" /\ t[Len(s) + Len(q)].id = a + Len(q)
      BY <1>1, <3>1
    <3>3. a + Len(q) <= t[Len(s) + Len(q)].id
      BY <1>1, <3>2
    <3>4. QED  BY <3>1, <3>2, <3>3 DEF Reaches
  <2>3. QED  BY <2>1, <2>2
<1>4. QED  BY <1>2, <1>3 DEF Chain, t

-----------------------------------------------------------------------------
(* The methods *)

Sound(e) == Timers(e) /\ QueueRegular(e)

\* e goes on to e1 on its socket: no timer is missing, and what it writes
\* continues what it has written, for a peer that has received n messages.
GoesOn(e, e1, n) ==
    /\ e1 \in Endpoint
    /\ Sound(e1)
    /\ e1.socket = e.socket
    /\ e.incomingMsgId <= e1.incomingMsgId
    /\ \A s \in Seq(ProtocolMessage) :
          Feeds(s \o e.writerData, n, e) => Feeds(s \o e1.writerData, n, e1)

\* What only a reconnection changes
SameMode(e, e1) ==
    /\ e1.isReconnecting = e.isReconnecting
    /\ e1.isPaused = e.isPaused
    /\ e1.controlBuffer = e.controlBuffer

\* The timer of the oldest unacknowledged message stays.
SameCheck(e, e1) ==
    /\ e.outgoingAckTimeout => e1.outgoingAckTimeout
    /\ e1.outgoingUnackMsg # <<>> => e.outgoingUnackMsg # <<>>

\* Nothing that e1 writes leaves a gap.
Unbroken(e, e1, n) ==
    \A s \in Seq(ProtocolMessage) :
        Chain(s \o e.writerData, n) => Chain(s \o e1.writerData, n)

\* One thing after the other.
LEMMA GoesOnTwice ==
    ASSUME NEW e \in Endpoint, NEW e1, NEW e2, NEW n,
           GoesOn(e, e1, n), GoesOn(e1, e2, n)
    PROVE  GoesOn(e, e2, n)
<1>1. e.incomingMsgId \in Nat /\ e1.incomingMsgId \in Nat /\ e2.incomingMsgId \in Nat
  BY DEF GoesOn, Endpoint
<1>2. e.incomingMsgId <= e2.incomingMsgId
  BY <1>1 DEF GoesOn
<1>3. QED  BY <1>2 DEF GoesOn

\* Nothing is written.
LEMMA NothingWritten ==
    ASSUME NEW e \in Endpoint, NEW e1 \in Endpoint, NEW n, Sound(e1),
           e1.socket = e.socket, e.incomingMsgId <= e1.incomingMsgId,
           e1.writerData = e.writerData, e1.outgoingMsgId = e.outgoingMsgId,
           e1.isReconnecting = e.isReconnecting
    PROVE  GoesOn(e, e1, n)
BY DEF GoesOn, Feeds

\* ProtocolWriter.write
LEMMA WriteEffect ==
    ASSUME NEW e \in Endpoint, NEW msgs \in Seq(ProtocolMessage)
    PROVE  LET e1 == WriteAll(e, msgs)
           IN  /\ e1 \in Endpoint /\ e1.writerData = e.writerData \o msgs
               /\ e1.socket = e.socket /\ e1.incomingMsgId = e.incomingMsgId
               /\ e1.incomingAckId = e.incomingAckId
               /\ e1.outgoingMsgId = e.outgoingMsgId /\ e1.outgoingAckId = e.outgoingAckId
               /\ e1.outgoingUnackMsg = e.outgoingUnackMsg
               /\ e1.outgoingAckTimeout = e.outgoingAckTimeout
               /\ SameMode(e, e1)
               /\ Sound(e) => Sound(e1)
<1> DEFINE e1 == WriteAll(e, msgs)
<1>1. e.writerData \in Seq(ProtocolMessage) /\ e.writerData \o msgs \in Seq(ProtocolMessage)
  BY DEF Endpoint
<1>2. CASE msgs = <<>>
  <2>1. e1 = e /\ e.writerData \o msgs = e.writerData
    BY <1>1, <1>2 DEF WriteAll
  <2>2. QED  BY <2>1 DEF SameMode
<1>3. CASE msgs # <<>>
  <2>1. e1 = [e EXCEPT !.writerData = e.writerData \o msgs,
                       !.writeNowTimeout = e.writeNowTimeout \/ e.writerData = <<>>]
    BY <1>3 DEF WriteAll
  <2>2. e1 \in Endpoint
    BY <1>1, <2>1 DEF Endpoint
  <2>3. /\ e1.writerData = e.writerData \o msgs
        /\ e1.writeNowTimeout = (e.writeNowTimeout \/ e.writerData = <<>>)
        /\ e1.socket = e.socket /\ e1.incomingMsgId = e.incomingMsgId
        /\ e1.incomingAckId = e.incomingAckId
        /\ e1.outgoingMsgId = e.outgoingMsgId /\ e1.outgoingAckId = e.outgoingAckId
        /\ e1.outgoingUnackMsg = e.outgoingUnackMsg
        /\ e1.incomingAckTimeout = e.incomingAckTimeout
        /\ e1.outgoingAckTimeout = e.outgoingAckTimeout
        /\ e1.isReconnecting = e.isReconnecting /\ e1.isPaused = e.isPaused
        /\ e1.controlBuffer = e.controlBuffer
    BY <2>1 DEF Endpoint
  <2> HIDE DEF e1
  <2>4. Sound(e) => Sound(e1)
    BY <2>3 DEF Sound, Timers, QueueRegular
  <2>5. QED  BY <2>2, <2>3, <2>4 DEF SameMode, e1
<1>4. QED  BY <1>2, <1>3

\* Writing messages outside the stream.
LEMMA WriteBare ==
    ASSUME NEW e \in Endpoint, Sound(e), NEW n \in Nat,
           NEW msgs \in Seq(ProtocolMessage), NoRegular(msgs)
    PROVE  /\ GoesOn(e, WriteAll(e, msgs), n)
           /\ Unbroken(e, WriteAll(e, msgs), n)
<1> DEFINE e1 == WriteAll(e, msgs)
<1>1. /\ e1 \in Endpoint /\ e1.writerData = e.writerData \o msgs
      /\ e1.socket = e.socket /\ e1.incomingMsgId = e.incomingMsgId
      /\ e1.outgoingMsgId = e.outgoingMsgId /\ e1.isReconnecting = e.isReconnecting
      /\ Sound(e1)
  BY WriteEffect DEF SameMode
<1> HIDE DEF e1
<1>2. /\ e.writerData \in Seq(ProtocolMessage) /\ e.outgoingMsgId \in Nat
      /\ e.incomingMsgId \in Nat
  BY DEF Endpoint
<1>3. ASSUME NEW s \in Seq(ProtocolMessage), Chain(s \o e.writerData, n)
      PROVE  /\ Chain(s \o e1.writerData, n)
             /\ \A m \in Nat : Reaches(s \o e.writerData, n, m) => Reaches(s \o e1.writerData, n, m)
  <2> DEFINE w == e.writerData
             t == s \o w
  <2>1. w \in Seq(ProtocolMessage) /\ e1.writerData = w \o msgs
    BY <1>1, <1>2
  <2> HIDE DEF w
  <2>2. t \in Seq(ProtocolMessage)
    BY <2>1, ConcatFacts
  <2>3. s \o (w \o msgs) = t \o msgs
    BY <2>1, Rearranged, SMTT(40)
  <2>4. Chain(t, n)
    BY <1>3 DEF w
  <2> HIDE DEF t
  <2>5. Chain(t \o msgs, n) /\ \A m \in Nat : Reaches(t, n, m) => Reaches(t \o msgs, n, m)
    BY <2>2, <2>4, BareChain
  <2>6. QED  BY <2>1, <2>3, <2>5 DEF t, w
<1>4. e.incomingMsgId <= e1.incomingMsgId
  BY <1>1, <1>2
<1>5. Unbroken(e, e1, n)
  BY <1>3 DEF Unbroken
<1>6. \A s \in Seq(ProtocolMessage) :
         Feeds(s \o e.writerData, n, e) => Feeds(s \o e1.writerData, n, e1)
  BY <1>1, <1>2, <1>3 DEF Feeds
<1>7. QED  BY <1>1, <1>4, <1>5, <1>6 DEF GoesOn, e1

\* Writing one message outside the stream.
LEMMA WriteOne ==
    ASSUME NEW e \in Endpoint, Sound(e), NEW n \in Nat,
           NEW msg \in ProtocolMessage, msg.type # "Regular"
    PROVE  /\ GoesOn(e, Write(e, msg), n)
           /\ SameMode(e, Write(e, msg)) /\ SameCheck(e, Write(e, msg))
           /\ Unbroken(e, Write(e, msg), n)
           /\ NoRegular(e.writerData) => NoRegular(Write(e, msg).writerData)
<1>1. <<msg>> \in Seq(ProtocolMessage) /\ NoRegular(<<msg>>)
  BY DEF NoRegular
<1>2. GoesOn(e, Write(e, msg), n) /\ Unbroken(e, Write(e, msg), n)
  BY <1>1, WriteBare DEF Write
<1>3. /\ SameMode(e, Write(e, msg)) /\ SameCheck(e, Write(e, msg))
      /\ Write(e, msg).writerData = e.writerData \o <<msg>>
  BY <1>1, WriteEffect DEF Write, SameCheck
<1>4. NoRegular(e.writerData) => NoRegular(e.writerData \o <<msg>>)
  <2>1. e.writerData \in Seq(ProtocolMessage)
    BY DEF Endpoint
  <2>2. QED  BY <1>1, <2>1, BareChain
<1>5. QED  BY <1>2, <1>3, <1>4

\* Messages that carry no data are outside the stream.
LEMMA BareMessage ==
    ASSUME NEW type \in MessageType \ {"Regular"}, NEW ack \in Nat,
           NEW data \in Data \cup ControlData \cup {NoData}
    PROVE  /\ Message(type, 0, ack, data) \in ProtocolMessage
           /\ Message(type, 0, ack, data).type = type
           /\ Message(type, 0, ack, data).data = data
           /\ Message(type, 0, ack, data).ack = ack
BY DEF Message, ProtocolMessage

\* _recvAckCheck: the timer is armed if something is unacknowledged.
LEMMA RecvAckCheckGoesOn ==
    ASSUME NEW e \in Endpoint, Sound(e), NEW n, NEW late \in BOOLEAN
    PROVE  LET e1 == RecvAckCheck(e, late)
           IN  /\ GoesOn(e, e1, n) /\ SameMode(e, e1) /\ SameCheck(e, e1)
               /\ e1.writerData = e.writerData
               /\ e1.outgoingUnackMsg = e.outgoingUnackMsg
               /\ ~late /\ ~e.isReconnecting /\ e.outgoingMsgId > e.outgoingAckId =>
                     e1.outgoingAckTimeout
<1>1. e.incomingMsgId \in Nat /\ e.outgoingMsgId \in Nat /\ e.outgoingAckId \in Nat
  BY DEF Endpoint
<1>2. CASE /\ RecvAckCheck(e, late) = e
           /\ ~late /\ ~e.isReconnecting /\ e.outgoingMsgId > e.outgoingAckId =>
                 e.outgoingAckTimeout
  BY <1>1, <1>2, NothingWritten DEF SameMode, SameCheck
<1>3. CASE RecvAckCheck(e, late) = [e EXCEPT !.outgoingAckTimeout = TRUE]
  <2> DEFINE e1 == [e EXCEPT !.outgoingAckTimeout = TRUE]
  <2>1. e1 \in Endpoint
    BY DEF Endpoint
  <2>2. /\ e1.socket = e.socket /\ e1.incomingMsgId = e.incomingMsgId
        /\ e1.incomingAckId = e.incomingAckId /\ e1.incomingAckTimeout = e.incomingAckTimeout
        /\ e1.writerData = e.writerData /\ e1.writeNowTimeout = e.writeNowTimeout
        /\ e1.outgoingMsgId = e.outgoingMsgId /\ e1.outgoingUnackMsg = e.outgoingUnackMsg
        /\ e1.isReconnecting = e.isReconnecting /\ e1.isPaused = e.isPaused
        /\ e1.controlBuffer = e.controlBuffer /\ e1.outgoingAckTimeout = TRUE
    BY DEF Endpoint
  <2> HIDE DEF e1
  <2>3. Sound(e1)
    BY <2>2 DEF Sound, Timers, QueueRegular
  <2>4. GoesOn(e, e1, n)
    BY <1>1, <2>1, <2>2, <2>3, NothingWritten
  <2>5. RecvAckCheck(e, late) = e1
    BY <1>3 DEF e1
  <2>6. QED  BY <2>2, <2>4, <2>5 DEF SameMode, SameCheck
<1>4. QED
  <2>1. \/ RecvAckCheck(e, late) = [e EXCEPT !.outgoingAckTimeout = TRUE]
        \/ /\ RecvAckCheck(e, late) = e
           /\ \/ e.outgoingMsgId <= e.outgoingAckId
              \/ e.outgoingAckTimeout \/ e.isReconnecting \/ late
    BY DEF RecvAckCheck
  <2>2. QED  BY <1>1, <1>2, <1>3, <2>1

\* _sendAckCheck: what was received will be acknowledged.
LEMMA SendAckCheckEffect ==
    ASSUME NEW e \in Endpoint
    PROVE  LET e1 == SendAckCheck(e)
           IN  /\ e1 \in Endpoint /\ e1.socket = e.socket
               /\ e1.incomingMsgId = e.incomingMsgId
               /\ e1.incomingAckId = e.incomingAckId
               /\ e1.writerData = e.writerData /\ e1.writeNowTimeout = e.writeNowTimeout
               /\ e1.outgoingMsgId = e.outgoingMsgId
               /\ e1.outgoingUnackMsg = e.outgoingUnackMsg
               /\ e1.outgoingAckTimeout = e.outgoingAckTimeout
               /\ SameMode(e, e1)
               /\ e1.incomingMsgId > e1.incomingAckId => e1.incomingAckTimeout
<1> DEFINE e1 == [e EXCEPT !.incomingAckTimeout = TRUE]
<1>1. e.incomingMsgId \in Nat /\ e.incomingAckId \in Nat
  BY DEF Endpoint
<1>2. e1 \in Endpoint
  BY DEF Endpoint
<1>3. /\ e1.socket = e.socket /\ e1.incomingMsgId = e.incomingMsgId
      /\ e1.incomingAckId = e.incomingAckId /\ e1.incomingAckTimeout = TRUE
      /\ e1.writerData = e.writerData /\ e1.writeNowTimeout = e.writeNowTimeout
      /\ e1.outgoingMsgId = e.outgoingMsgId /\ e1.outgoingUnackMsg = e.outgoingUnackMsg
      /\ e1.outgoingAckTimeout = e.outgoingAckTimeout
      /\ e1.isReconnecting = e.isReconnecting /\ e1.isPaused = e.isPaused
      /\ e1.controlBuffer = e.controlBuffer
  BY DEF Endpoint
<1>4. \/ SendAckCheck(e) = e1
      \/ /\ SendAckCheck(e) = e
         /\ e.incomingMsgId <= e.incomingAckId \/ e.incomingAckTimeout
  BY DEF SendAckCheck
<1> HIDE DEF e1
<1>5. QED  BY <1>1, <1>2, <1>3, <1>4 DEF SameMode

\* _sendAck, sendKeepAlive: all that was received is acknowledged.
LEMMA AckNowGoesOn ==
    ASSUME NEW e \in Endpoint, QueueRegular(e),
           e.writerData # <<>> /\ ~e.isPaused => e.writeNowTimeout,
           NEW n \in Nat, NEW type \in {"Ack", "KeepAlive"}
    PROVE  LET e1 == AckNow(e, type)
           IN  /\ GoesOn(e, e1, n) /\ SameMode(e, e1) /\ SameCheck(e, e1)
               /\ e1.outgoingUnackMsg = e.outgoingUnackMsg
               /\ e1.outgoingMsgId = e.outgoingMsgId /\ e1.outgoingAckId = e.outgoingAckId
               /\ Unbroken(e, e1, n)
               /\ NoRegular(e.writerData) => NoRegular(e1.writerData)
<1> DEFINE a   == [e EXCEPT !.incomingAckId = e.incomingMsgId]
           msg == Message(type, 0, e.incomingMsgId, NoData)
<1>1. e.incomingMsgId \in Nat
  BY DEF Endpoint
<1>2. a \in Endpoint
  BY <1>1 DEF Endpoint
<1>3. /\ a.socket = e.socket /\ a.incomingMsgId = e.incomingMsgId
      /\ a.incomingAckId = e.incomingMsgId
      /\ a.writerData = e.writerData /\ a.writeNowTimeout = e.writeNowTimeout
      /\ a.outgoingMsgId = e.outgoingMsgId /\ a.outgoingUnackMsg = e.outgoingUnackMsg
      /\ a.outgoingAckId = e.outgoingAckId
      /\ a.outgoingAckTimeout = e.outgoingAckTimeout
      /\ a.isReconnecting = e.isReconnecting /\ a.isPaused = e.isPaused
      /\ a.controlBuffer = e.controlBuffer
  BY DEF Endpoint
<1>4. msg \in ProtocolMessage /\ msg.type # "Regular"
  BY <1>1, BareMessage DEF MessageType
<1>5. AckNow(e, type) = Write(a, msg)
  BY DEF AckNow
<1> HIDE DEF a, msg
<1>6. Sound(a)
  BY <1>1, <1>3 DEF Sound, Timers, QueueRegular
<1>7. GoesOn(e, a, n)
  BY <1>1, <1>2, <1>3, <1>6, NothingWritten
<1>8. /\ GoesOn(a, Write(a, msg), n)
      /\ SameMode(a, Write(a, msg)) /\ SameCheck(a, Write(a, msg))
      /\ Unbroken(a, Write(a, msg), n)
      /\ NoRegular(a.writerData) => NoRegular(Write(a, msg).writerData)
  BY <1>2, <1>4, <1>6, WriteOne
<1>9. /\ Write(a, msg).outgoingUnackMsg = a.outgoingUnackMsg
      /\ Write(a, msg).outgoingMsgId = a.outgoingMsgId
      /\ Write(a, msg).outgoingAckId = a.outgoingAckId
  <2>1. <<msg>> \in Seq(ProtocolMessage)
    BY <1>4
  <2>2. QED  BY <1>2, <2>1, WriteEffect DEF Write
<1>10. GoesOn(e, Write(a, msg), n)
  BY <1>7, <1>8, GoesOnTwice
<1>11. QED  BY <1>3, <1>5, <1>8, <1>9, <1>10 DEF SameMode, SameCheck, Unbroken

\* sendRegular: the next message of the stream, unless it waits in the queue.
LEMMA SendRegularGoesOn ==
    ASSUME NEW e \in Endpoint, Sound(e), QueueExact(e), NEW n \in Nat,
           NEW d \in Data, NEW late \in BOOLEAN
    PROVE  LET e1 == SendRegular(e, d, late)
           IN  /\ GoesOn(e, e1, n) /\ SameMode(e, e1)
               /\ e.isReconnecting => e1.writerData = e.writerData
               /\ e.outgoingAckTimeout => e1.outgoingAckTimeout
               /\ ~late /\ ~e.isReconnecting => e1.outgoingAckTimeout
<1> DEFINE msg == Message("Regular", e.outgoingMsgId + 1, e.incomingMsgId, d)
           a   == [e EXCEPT !.outgoingMsgId = @ + 1,
                            !.incomingAckId = e.incomingMsgId,
                            !.outgoingUnackMsg = Append(@, msg),
                            !.sent = Append(@, d)]
<1>1. /\ e.outgoingMsgId \in Nat /\ e.incomingMsgId \in Nat /\ e.outgoingAckId \in Nat
      /\ e.outgoingUnackMsg \in Seq(ProtocolMessage) /\ e.sent \in Seq(Data)
      /\ e.writerData \in Seq(ProtocolMessage)
  BY DEF Endpoint
<1>2. /\ msg \in ProtocolMessage /\ msg.id = e.outgoingMsgId + 1
      /\ msg.type = "Regular"
  BY <1>1 DEF Message, ProtocolMessage, MessageType
<1> HIDE DEF msg
<1>3. a \in Endpoint
  <2>1. /\ Append(e.outgoingUnackMsg, msg) \in Seq(ProtocolMessage)
        /\ Append(e.sent, d) \in Seq(Data)
        /\ e.outgoingMsgId + 1 \in Nat
    BY <1>1, <1>2
  <2>2. QED  BY <1>1, <2>1 DEF Endpoint
<1>4. /\ a.outgoingUnackMsg = Append(e.outgoingUnackMsg, msg)
      /\ a.outgoingMsgId = e.outgoingMsgId + 1 /\ a.outgoingAckId = e.outgoingAckId
      /\ a.incomingMsgId = e.incomingMsgId /\ a.incomingAckId = e.incomingMsgId
      /\ a.writerData = e.writerData /\ a.writeNowTimeout = e.writeNowTimeout
      /\ a.isReconnecting = e.isReconnecting /\ a.isPaused = e.isPaused
      /\ a.controlBuffer = e.controlBuffer /\ a.socket = e.socket
      /\ a.outgoingAckTimeout = e.outgoingAckTimeout
  BY <1>1 DEF Endpoint
<1> HIDE DEF a
<1>5. Sound(a)
  <2>1. Timers(a)
    BY <1>1, <1>4 DEF Sound, Timers
  <2>2. \A i \in 1..Len(a.outgoingUnackMsg) : a.outgoingUnackMsg[i].type = "Regular"
    BY <1>1, <1>2, <1>4 DEF Sound, QueueRegular
  <2>3. QED  BY <2>1, <2>2 DEF Sound, QueueRegular
<1>6. a.outgoingMsgId > a.outgoingAckId /\ a.outgoingMsgId \in Nat
  <2>1. Len(e.outgoingUnackMsg) \in Nat /\ Len(e.outgoingUnackMsg) = e.outgoingMsgId - e.outgoingAckId
    BY <1>1 DEF QueueExact
  <2>2. QED  BY <1>1, <1>4, <2>1
<1>7. CASE e.isReconnecting
  <2>1. SendRegular(e, d, late) = a
    BY <1>7 DEF SendRegular, a, msg
  <2>2. GoesOn(e, a, n)
    <3>1. e.incomingMsgId <= a.incomingMsgId
      BY <1>1, <1>4
    <3>2. \A s : Feeds(s \o e.writerData, n, e) => Feeds(s \o a.writerData, n, a)
      BY <1>4, <1>7 DEF Feeds
    <3>3. QED  BY <1>3, <1>4, <1>5, <3>1, <3>2 DEF GoesOn
  <2>3. QED  BY <1>4, <1>7, <2>1, <2>2 DEF SameMode
<1>8. CASE ~e.isReconnecting
  <2> DEFINE b == Write(a, msg)
  <2>1. SendRegular(e, d, late) = RecvAckCheck(b, late)
    BY <1>8 DEF SendRegular, a, msg
  <2>2. <<msg>> \in Seq(ProtocolMessage)
    BY <1>2
  <2>3. /\ b \in Endpoint /\ b.writerData = a.writerData \o <<msg>>
        /\ b.socket = a.socket /\ b.incomingMsgId = a.incomingMsgId
        /\ b.outgoingMsgId = a.outgoingMsgId /\ b.outgoingAckId = a.outgoingAckId
        /\ b.outgoingAckTimeout = a.outgoingAckTimeout
        /\ SameMode(a, b) /\ Sound(b)
    BY <1>3, <1>5, <2>2, WriteEffect DEF Write
  <2> HIDE DEF b
  <2>4. GoesOn(e, b, n)
    <3>1. e.incomingMsgId <= b.incomingMsgId
      BY <1>1, <1>4, <2>3
    <3>2. ASSUME NEW s \in Seq(ProtocolMessage), Feeds(s \o e.writerData, n, e)
          PROVE  Feeds(s \o b.writerData, n, b)
      <4> DEFINE w == e.writerData
                 t == s \o w
      <4>1. w \in Seq(ProtocolMessage) /\ b.writerData = w \o <<msg>>
        BY <1>1, <1>4, <2>3
      <4> HIDE DEF w
      <4>2. t \in Seq(ProtocolMessage) /\ s \o (w \o <<msg>>) = t \o <<msg>>
        BY <2>2, <4>1, Rearranged, ConcatFacts
      <4>3. Chain(t, n) /\ Reaches(t, n, e.outgoingMsgId)
        BY <1>8, <3>2 DEF Feeds, w
      <4> HIDE DEF t
      <4>4. Chain(t \o <<msg>>, n) /\ Reaches(t \o <<msg>>, n, e.outgoingMsgId + 1)
        BY <1>1, <1>2, <4>2, <4>3, ChainNext
      <4>5. b.outgoingMsgId = e.outgoingMsgId + 1 /\ s \o b.writerData = t \o <<msg>>
        BY <1>4, <2>3, <4>1, <4>2
      <4>6. QED  BY <4>4, <4>5 DEF Feeds
    <3>3. QED  BY <1>4, <2>3, <3>1, <3>2 DEF GoesOn
  <2>5. /\ GoesOn(b, RecvAckCheck(b, late), n) /\ SameMode(b, RecvAckCheck(b, late))
        /\ SameCheck(b, RecvAckCheck(b, late))
        /\ ~late /\ ~b.isReconnecting /\ b.outgoingMsgId > b.outgoingAckId =>
              RecvAckCheck(b, late).outgoingAckTimeout
    BY <2>3, RecvAckCheckGoesOn
  <2>6. GoesOn(e, RecvAckCheck(b, late), n)
    BY <2>4, <2>5, GoesOnTwice
  <2>7. QED  BY <1>4, <1>6, <1>8, <2>1, <2>3, <2>5, <2>6 DEF SameMode, SameCheck
<1>9. QED  BY <1>7, <1>8

\* An ack takes messages from the queue and leaves the writer alone.
LEMMA AcceptAckGoesOn ==
    ASSUME NEW e, NEW f \in Endpoint, EndpointInv(e, f), EndpointInv(f, e), Sound(e),
           NEW ack \in Nat, ack <= f.incomingMsgId, NEW n
    PROVE  LET e1 == AcceptAck(e, ack)
           IN  /\ GoesOn(e, e1, n) /\ SameMode(e, e1) /\ SameCheck(e, e1)
               /\ e1.writerData = e.writerData
               /\ e1.incomingMsgId = e.incomingMsgId
<1>1. /\ e \in Endpoint /\ QueueExact(e)
      /\ e.outgoingMsgId \in Nat /\ e.outgoingAckId \in Nat /\ e.incomingMsgId \in Nat
      /\ e.outgoingUnackMsg \in Seq(ProtocolMessage)
  BY DEF EndpointInv, Endpoint
<1>2. ack <= e.outgoingMsgId
  <2>1. f.delivered \in Seq(Data) /\ e.sent \in Seq(Data)
    BY <1>1 DEF Endpoint
  <2>2. /\ f.incomingMsgId = Len(f.delivered)
        /\ Len(f.delivered) <= Len(e.sent)
        /\ e.outgoingMsgId = Len(e.sent)
    BY DEF EndpointInv, Counts, Prefix
  <2>3. QED  BY <1>1, <2>1, <2>2
<1>3. CASE ~(ack > e.outgoingAckId)
  <2>1. AcceptAck(e, ack) = e
    BY <1>3 DEF AcceptAck
  <2>2. GoesOn(e, e, n)
    BY <1>1, NothingWritten
  <2>3. QED  BY <2>1, <2>2 DEF SameMode, SameCheck
<1>4. CASE ack > e.outgoingAckId
  <2> DEFINE q  == e.outgoingUnackMsg
             l  == ack - e.outgoingAckId + 1
             q1 == SubSeq(q, l, Len(q))
             e1 == [e EXCEPT !.outgoingAckId = ack, !.outgoingUnackMsg = q1]
  <2>1. AcceptAck(e, ack) = e1
    BY <1>1, <1>2, <1>4, FirstUnconfirmedIs DEF AcceptAck
  <2>2. /\ Len(q) = e.outgoingMsgId - e.outgoingAckId
        /\ l \in 1..(Len(q) + 1)
    BY <1>1, <1>2, <1>4 DEF QueueExact
  <2>3. /\ q1 \in Seq(ProtocolMessage)
        /\ Len(q1) = Len(q) - l + 1
        /\ \A i \in 1..Len(q1) : q1[i] = q[l + i - 1] /\ l + i - 1 \in 1..Len(q)
    <3>1. Len(q) \in Nat /\ l \in Int /\ \A i \in l..Len(q) : q[i] \in ProtocolMessage
      BY <1>1, <2>2
    <3> HIDE DEF q, l
    <3>2. /\ q1 \in Seq(ProtocolMessage)
          /\ Len(q1) = IF l <= Len(q) THEN Len(q) - l + 1 ELSE 0
          /\ \A i \in 1..(Len(q) - l + 1) : q1[i] = q[l + i - 1]
      BY <3>1, SubSeqProperties
    <3> HIDE DEF q1
    <3>3. QED  BY <2>2, <3>1, <3>2
  <2>4. q1 # <<>> => q # <<>>
    <3>1. Len(q1) <= Len(q) /\ Len(q) \in Nat /\ q \in Seq(ProtocolMessage)
      BY <1>1, <2>2, <2>3
    <3> HIDE DEF q, q1, l
    <3>2. QED  BY <2>3, <3>1
  <2> HIDE DEF q1
  <2>5. e1 \in Endpoint
    BY <1>1, <2>3 DEF Endpoint
  <2>6. /\ e1.socket = e.socket /\ e1.incomingMsgId = e.incomingMsgId
        /\ e1.incomingAckId = e.incomingAckId /\ e1.incomingAckTimeout = e.incomingAckTimeout
        /\ e1.writerData = e.writerData /\ e1.writeNowTimeout = e.writeNowTimeout
        /\ e1.outgoingMsgId = e.outgoingMsgId /\ e1.outgoingUnackMsg = q1
        /\ e1.isReconnecting = e.isReconnecting /\ e1.isPaused = e.isPaused
        /\ e1.controlBuffer = e.controlBuffer
        /\ e1.outgoingAckTimeout = e.outgoingAckTimeout
    BY <1>1 DEF Endpoint
  <2> HIDE DEF e1
  <2>7. Sound(e1)
    <3>1. \A i \in 1..Len(q1) : q1[i].type = "Regular"
      BY <2>3 DEF Sound, QueueRegular
    <3>2. QED  BY <2>6, <3>1 DEF Sound, Timers, QueueRegular
  <2>8. GoesOn(e, e1, n)
    BY <1>1, <2>5, <2>6, <2>7, NothingWritten
  <2>9. QED  BY <2>1, <2>4, <2>6, <2>8 DEF SameMode, SameCheck
<1>5. QED  BY <1>3, <1>4

\* A message of the stream: afterwards the reader has received it, if it had
\* received the one before.
LEMMA AcceptRegularGoesOn ==
    ASSUME NEW e \in Endpoint, Sound(e), NEW n \in Nat, NEW ask \in BOOLEAN,
           NEW msg \in ProtocolMessage, msg.data \in Data
    PROVE  LET e1 == AcceptRegular(e, msg, ask)
           IN  /\ GoesOn(e, e1, n) /\ SameMode(e, e1) /\ SameCheck(e, e1)
               /\ msg.id <= e.incomingMsgId + 1 => msg.id <= e1.incomingMsgId
<1>1. e.incomingMsgId \in Nat /\ e.incomingAckId \in Nat /\ msg.id \in Nat
      /\ e.delivered \in Seq(Data)
  BY DEF Endpoint, ProtocolMessage
<1>2. CASE AcceptRegular(e, msg, ask) = e /\ msg.id <= e.incomingMsgId
  <2>1. GoesOn(e, e, n)
    BY <1>1, NothingWritten
  <2>2. QED  BY <1>2, <2>1 DEF SameMode, SameCheck
<1>3. CASE AcceptRegular(e, msg, ask) = e /\ msg.id > e.incomingMsgId + 1
  <2>1. GoesOn(e, e, n)
    BY <1>1, NothingWritten
  <2>2. QED  BY <1>1, <1>3, <2>1 DEF SameMode, SameCheck
<1>4. CASE /\ AcceptRegular(e, msg, ask) = Write(e, Message("ReplayRequest", 0, 0, NoData))
           /\ msg.id > e.incomingMsgId + 1
  <2>1. /\ Message("ReplayRequest", 0, 0, NoData) \in ProtocolMessage
        /\ Message("ReplayRequest", 0, 0, NoData).type # "Regular"
    BY BareMessage DEF MessageType
  <2>2. /\ GoesOn(e, AcceptRegular(e, msg, ask), n)
        /\ SameMode(e, AcceptRegular(e, msg, ask))
        /\ SameCheck(e, AcceptRegular(e, msg, ask))
    BY <1>4, <2>1, WriteOne
  <2>3. QED  BY <1>1, <1>4, <2>2
<1>5. CASE msg.id = e.incomingMsgId + 1
  <2> DEFINE a  == [e EXCEPT !.incomingMsgId = msg.id, !.delivered = Append(@, msg.data)]
             e1 == SendAckCheck(a)
  <2>1. AcceptRegular(e, msg, ask) = e1
    BY <1>1, <1>5 DEF AcceptRegular
  <2>2. a \in Endpoint
    <3>1. Append(e.delivered, msg.data) \in Seq(Data)
      BY <1>1, <1>5
    <3>2. QED  BY <1>1, <3>1 DEF Endpoint
  <2>3. /\ a.socket = e.socket /\ a.incomingMsgId = msg.id
        /\ a.incomingAckId = e.incomingAckId
        /\ a.writerData = e.writerData /\ a.writeNowTimeout = e.writeNowTimeout
        /\ a.outgoingMsgId = e.outgoingMsgId /\ a.outgoingUnackMsg = e.outgoingUnackMsg
        /\ a.isReconnecting = e.isReconnecting /\ a.isPaused = e.isPaused
        /\ a.controlBuffer = e.controlBuffer
        /\ a.outgoingAckTimeout = e.outgoingAckTimeout
    BY <1>1 DEF Endpoint
  <2> HIDE DEF a
  <2>4. /\ e1 \in Endpoint /\ e1.socket = a.socket /\ e1.incomingMsgId = a.incomingMsgId
        /\ e1.writerData = a.writerData /\ e1.writeNowTimeout = a.writeNowTimeout
        /\ e1.outgoingMsgId = a.outgoingMsgId /\ e1.outgoingUnackMsg = a.outgoingUnackMsg
        /\ e1.outgoingAckTimeout = a.outgoingAckTimeout /\ SameMode(a, e1)
        /\ e1.incomingMsgId > e1.incomingAckId => e1.incomingAckTimeout
    BY <2>2, SendAckCheckEffect
  <2> HIDE DEF e1
  <2>5. Sound(e1)
    BY <2>3, <2>4 DEF Sound, Timers, QueueRegular, SameMode
  <2>6. e.incomingMsgId <= e1.incomingMsgId /\ msg.id <= e1.incomingMsgId
    BY <1>1, <1>5, <2>3, <2>4
  <2>7. GoesOn(e, e1, n)
    BY <2>3, <2>4, <2>5, <2>6, NothingWritten DEF SameMode
  <2>8. QED  BY <2>1, <2>3, <2>4, <2>6, <2>7 DEF SameMode, SameCheck
<1>6. QED
  <2>1. \/ AcceptRegular(e, msg, ask) = e /\ msg.id <= e.incomingMsgId
        \/ msg.id = e.incomingMsgId + 1
        \/ AcceptRegular(e, msg, ask) = e /\ msg.id > e.incomingMsgId + 1
        \/ /\ AcceptRegular(e, msg, ask) = Write(e, Message("ReplayRequest", 0, 0, NoData))
           /\ msg.id > e.incomingMsgId + 1
    BY <1>1 DEF AcceptRegular
  <2>2. QED  BY <1>2, <1>3, <1>4, <1>5, <2>1

\* _outgoingUnackMsg is written again: the peer needs nothing that is not in it.
LEMMA ReplayAllGoesOn ==
    ASSUME NEW e \in Endpoint, Sound(e), QueueExact(e), NEW n \in Nat,
           e.outgoingAckId <= n
    PROVE  LET e1 == ReplayAll(e)
           IN  /\ GoesOn(e, e1, n) /\ SameMode(e, e1) /\ SameCheck(e, e1)
               /\ \A s \in Seq(ProtocolMessage) :
                     Chain(s \o e.writerData, n) => Feeds(s \o e1.writerData, n, e1)
               /\ ~e.isReconnecting /\ e1.outgoingUnackMsg # <<>> => e1.outgoingAckTimeout
<1> DEFINE q  == e.outgoingUnackMsg
           a  == WriteAll(e, q)
           e1 == RecvAckCheck(a, FALSE)
<1>1. /\ q \in Seq(ProtocolMessage) /\ e.outgoingAckId \in Nat /\ e.outgoingMsgId \in Nat
      /\ e.incomingMsgId \in Nat /\ e.writerData \in Seq(ProtocolMessage)
  BY DEF Endpoint
<1>2. /\ a \in Endpoint /\ a.writerData = e.writerData \o q
      /\ a.socket = e.socket /\ a.incomingMsgId = e.incomingMsgId
      /\ a.outgoingMsgId = e.outgoingMsgId /\ a.outgoingAckId = e.outgoingAckId
      /\ a.outgoingUnackMsg = e.outgoingUnackMsg
      /\ a.outgoingAckTimeout = e.outgoingAckTimeout
      /\ SameMode(e, a) /\ Sound(a)
  BY <1>1, WriteEffect
<1>3. /\ Len(q) = e.outgoingMsgId - e.outgoingAckId /\ Len(q) \in Nat
      /\ \A i \in 1..Len(q) : q[i].type = "Regular" /\ q[i].id = e.outgoingAckId + i
      /\ q # <<>> => Len(q) > 0
  BY <1>1 DEF QueueExact, Sound, QueueRegular
<1>4. ReplayAll(e) = e1
  BY DEF ReplayAll
<1>5. q = e.outgoingUnackMsg
  OBVIOUS
<1> HIDE DEF q, a
<1>6. /\ GoesOn(a, e1, n) /\ SameMode(a, e1) /\ SameCheck(a, e1)
      /\ e1.writerData = a.writerData
      /\ e1.outgoingUnackMsg = a.outgoingUnackMsg
      /\ ~a.isReconnecting /\ a.outgoingMsgId > a.outgoingAckId => e1.outgoingAckTimeout
  BY <1>2, RecvAckCheckGoesOn
<1> HIDE DEF e1
<1>7. ASSUME NEW s \in Seq(ProtocolMessage), Chain(s \o e.writerData, n)
      PROVE  Feeds(s \o a.writerData, n, a)
  <2> DEFINE w == e.writerData
             t == s \o w
  <2>1. w \in Seq(ProtocolMessage) /\ a.writerData = w \o q /\ Chain(s \o w, n)
    BY <1>1, <1>2, <1>7
  <2> HIDE DEF w
  <2>2. t \in Seq(ProtocolMessage)
    BY <2>1, ConcatFacts
  <2>3. s \o (w \o q) = t \o q
    <3>1. w \in Seq(ProtocolMessage) /\ q \in Seq(ProtocolMessage)
      BY <1>1, <2>1
    <3>2. (s \o w) \o q = s \o (w \o q)
      BY ONLY <3>1, s \in Seq(ProtocolMessage), Rearranged
    <3>3. QED  BY <3>2
  <2>4. Chain(t, n)
    BY <2>1
  <2> HIDE DEF t
  <2>5. Chain(t \o q, n) /\ Reaches(t \o q, n, e.outgoingAckId + Len(q))
    BY <1>1, <1>3, <2>2, <2>4, ChainQueue
  <2>6. e.outgoingAckId + Len(q) = a.outgoingMsgId
    BY <1>1, <1>2, <1>3
  <2>7. QED  BY <2>1, <2>3, <2>5, <2>6 DEF Feeds
<1>8. GoesOn(e, a, n)
  <2>1. e.incomingMsgId <= a.incomingMsgId
    BY <1>1, <1>2
  <2>2. QED  BY <1>2, <1>7, <2>1 DEF GoesOn, Feeds
<1>9. GoesOn(e, e1, n)
  BY <1>6, <1>8, GoesOnTwice
<1>10. \A s \in Seq(ProtocolMessage) :
          Chain(s \o e.writerData, n) => Feeds(s \o e1.writerData, n, e1)
  BY <1>6, <1>7 DEF GoesOn
<1>11. ~e.isReconnecting /\ e1.outgoingUnackMsg # <<>> => e1.outgoingAckTimeout
  <2>1. e1.outgoingUnackMsg # <<>> => a.outgoingMsgId > a.outgoingAckId
    BY <1>1, <1>2, <1>3, <1>5, <1>6
  <2>2. QED  BY <1>2, <1>6, <2>1 DEF SameMode
<1>12. QED  BY <1>2, <1>4, <1>6, <1>9, <1>10, <1>11 DEF SameMode, SameCheck

\* Pause and Resume
LEMMA PauseResumeGoesOn ==
    ASSUME NEW e \in Endpoint, Sound(e), NEW n
    PROVE  /\ GoesOn(e, Pause(e), n) /\ SameCheck(e, Pause(e)) /\ Pause(e).isPaused
           /\ Pause(e).isReconnecting = e.isReconnecting
           /\ Pause(e).controlBuffer = e.controlBuffer
           /\ GoesOn(e, Resume(e), n) /\ SameCheck(e, Resume(e))
           /\ Resume(e).isReconnecting = e.isReconnecting
           /\ Resume(e).controlBuffer = e.controlBuffer
<1> DEFINE a == Pause(e)
           b == Resume(e)
<1>1. a \in Endpoint /\ b \in Endpoint /\ e.incomingMsgId \in Nat
  BY DEF Pause, Resume, Endpoint
<1>2. /\ a.socket = e.socket /\ a.incomingMsgId = e.incomingMsgId
      /\ a.incomingAckId = e.incomingAckId /\ a.incomingAckTimeout = e.incomingAckTimeout
      /\ a.writerData = e.writerData /\ a.isPaused = TRUE
      /\ a.outgoingMsgId = e.outgoingMsgId /\ a.outgoingUnackMsg = e.outgoingUnackMsg
      /\ a.isReconnecting = e.isReconnecting /\ a.controlBuffer = e.controlBuffer
      /\ a.outgoingAckTimeout = e.outgoingAckTimeout
  BY DEF Pause, Endpoint
<1>3. /\ b.socket = e.socket /\ b.incomingMsgId = e.incomingMsgId
      /\ b.incomingAckId = e.incomingAckId /\ b.incomingAckTimeout = e.incomingAckTimeout
      /\ b.writerData = e.writerData /\ b.writeNowTimeout = TRUE
      /\ b.outgoingMsgId = e.outgoingMsgId /\ b.outgoingUnackMsg = e.outgoingUnackMsg
      /\ b.isReconnecting = e.isReconnecting /\ b.controlBuffer = e.controlBuffer
      /\ b.outgoingAckTimeout = e.outgoingAckTimeout
  BY DEF Resume, Endpoint
<1> HIDE DEF a, b
<1>4. Sound(a) /\ Sound(b)
  BY <1>2, <1>3 DEF Sound, Timers, QueueRegular
<1>5. GoesOn(e, a, n) /\ GoesOn(e, b, n)
  BY <1>1, <1>2, <1>3, <1>4, NothingWritten
<1>6. QED  BY <1>2, <1>3, <1>5 DEF SameCheck, a, b

\* _receiveMessage: afterwards the writer is paused if the message says so,
\* and a message that leaves no gap has been received.
LEMMA ReceiveMessageGoesOn ==
    ASSUME NEW e, NEW f \in Endpoint, EndpointInv(e, f), EndpointInv(f, e), Sound(e),
           NEW msg \in ProtocolMessage, Good(f, msg), NEW ask \in BOOLEAN
    PROVE  LET e1 == ReceiveMessage(e, msg, ask)
           IN  /\ GoesOn(e, e1, f.incomingMsgId) /\ SameCheck(e, e1)
               /\ e1.isReconnecting = e.isReconnecting
               /\ e1.controlBuffer = e.controlBuffer
               /\ msg.type = "Pause" => e1.isPaused
               /\ msg.type = "Regular" /\ msg.id <= e.incomingMsgId + 1 =>
                     msg.id <= e1.incomingMsgId
<1> DEFINE n  == f.incomingMsgId
           a  == AcceptAck(e, msg.ack)
           e1 == ReceiveMessage(e, msg, ask)
<1>1. e \in Endpoint /\ msg.ack \in Nat /\ msg.ack <= f.incomingMsgId /\ n \in Nat
  BY DEF EndpointInv, ProtocolMessage, Good, Endpoint
<1>2. /\ GoesOn(e, a, n) /\ SameMode(e, a) /\ SameCheck(e, a)
      /\ a.incomingMsgId = e.incomingMsgId
  BY <1>1, AcceptAckGoesOn
<1>3. Quiet(e, a, f)
  BY <1>1, AcceptAckQuiet
<1>4. /\ a \in Endpoint /\ Sound(a) /\ QueueExact(a) /\ a.outgoingAckId <= n
  BY <1>2, <1>3 DEF GoesOn, Quiet, Kept, EndpointInv
<1>5. e1 = CASE msg.type = "Regular"       -> AcceptRegular(a, msg, ask)
             [] msg.type = "ReplayRequest" -> ReplayAll(a)
             [] msg.type = "Pause"         -> Pause(a)
             [] msg.type = "Resume"        -> Resume(a)
             [] OTHER                      -> a
  BY DEF ReceiveMessage
<1> HIDE DEF a, e1, n
<1>6. /\ GoesOn(a, e1, n) /\ SameCheck(a, e1)
      /\ e1.isReconnecting = a.isReconnecting
      /\ e1.controlBuffer = a.controlBuffer
      /\ msg.type = "Pause" => e1.isPaused
      /\ msg.type = "Regular" /\ msg.id <= a.incomingMsgId + 1 => msg.id <= e1.incomingMsgId
  <2>1. CASE msg.type = "Regular"
    <3>1. e1 = AcceptRegular(a, msg, ask)
      BY <1>5, <2>1
    <3>2. msg.data \in Data
      <4>1. f.sent \in Seq(Data) /\ msg.id \in 1..Len(f.sent) /\ msg.data = f.sent[msg.id]
        BY <2>1 DEF Good, Endpoint
      <4>2. QED  BY <4>1
    <3>3. QED  BY <1>1, <1>4, <2>1, <3>1, <3>2, AcceptRegularGoesOn DEF SameMode
  <2>2. CASE msg.type = "ReplayRequest"
    <3>1. e1 = ReplayAll(a)
      BY <1>5, <2>2
    <3>2. QED  BY <1>1, <1>4, <2>2, <3>1, ReplayAllGoesOn DEF SameMode
  <2>3. CASE msg.type = "Pause"
    <3>1. e1 = Pause(a)
      BY <1>5, <2>3
    <3>2. QED  BY <1>4, <2>3, <3>1, PauseResumeGoesOn
  <2>4. CASE msg.type = "Resume"
    <3>1. e1 = Resume(a)
      BY <1>5, <2>4
    <3>2. QED  BY <1>4, <2>4, <3>1, PauseResumeGoesOn
  <2>5. CASE msg.type \notin {"Regular", "ReplayRequest", "Pause", "Resume"}
    <3>1. e1 = a
      BY <1>5, <2>5
    <3>2. a.incomingMsgId <= a.incomingMsgId
      BY <1>4 DEF Endpoint
    <3>3. GoesOn(a, a, n)
      BY <1>4, <3>2, NothingWritten
    <3>4. QED  BY <2>5, <3>1, <3>3 DEF SameCheck
  <2>6. QED  BY <2>1, <2>2, <2>3, <2>4, <2>5
<1>7. GoesOn(e, e1, n)
  BY <1>1, <1>2, <1>6, GoesOnTwice
<1>8. QED  BY <1>2, <1>6, <1>7 DEF SameMode, SameCheck, e1, n

\* endAcceptReconnection: the stream goes on, on the new socket.
LEMMA EndAcceptReconnectionGoesOn ==
    ASSUME NEW e, NEW f \in Endpoint, EndpointInv(e, f), Sound(e)
    PROVE  LET e1 == EndAcceptReconnection(e)
           IN  /\ GoesOn(e, e1, f.incomingMsgId)
               /\ e1.isPaused = e.isPaused /\ e1.controlBuffer = e.controlBuffer
               /\ ~e1.isReconnecting
               /\ e1.outgoingUnackMsg # <<>> => e1.outgoingAckTimeout
<1> DEFINE n  == f.incomingMsgId
           a  == [e EXCEPT !.isReconnecting = FALSE]
           b  == AckNow(a, "Ack")
           e1 == ReplayAll(b)
<1>1. /\ e \in Endpoint /\ n \in Nat /\ QueueExact(e) /\ e.outgoingAckId <= n
      /\ e.incomingMsgId \in Nat
  BY DEF EndpointInv, Endpoint
<1>2. a \in Endpoint
  BY <1>1 DEF Endpoint
<1>3. /\ a.socket = e.socket /\ a.incomingMsgId = e.incomingMsgId
      /\ a.incomingAckId = e.incomingAckId /\ a.incomingAckTimeout = e.incomingAckTimeout
      /\ a.writerData = e.writerData /\ a.writeNowTimeout = e.writeNowTimeout
      /\ a.outgoingMsgId = e.outgoingMsgId /\ a.outgoingUnackMsg = e.outgoingUnackMsg
      /\ a.outgoingAckId = e.outgoingAckId /\ a.sent = e.sent
      /\ a.isReconnecting = FALSE /\ a.isPaused = e.isPaused
      /\ a.controlBuffer = e.controlBuffer
  BY <1>1 DEF Endpoint
<1>4. EndAcceptReconnection(e) = e1
  BY DEF EndAcceptReconnection
<1> HIDE DEF a
<1>5. Sound(a) /\ QueueExact(a)
  BY <1>1, <1>3 DEF Sound, Timers, QueueRegular, QueueExact
<1>6. /\ QueueRegular(a) /\ (a.writerData # <<>> /\ ~a.isPaused => a.writeNowTimeout)
  BY <1>5 DEF Sound, Timers
<1>7. /\ GoesOn(a, b, n) /\ SameMode(a, b) /\ Unbroken(a, b, n)
      /\ b.outgoingUnackMsg = a.outgoingUnackMsg
      /\ b.outgoingMsgId = a.outgoingMsgId /\ b.outgoingAckId = a.outgoingAckId
  BY <1>1, <1>2, <1>6, AckNowGoesOn
<1>8. b.sent = a.sent
  BY <1>2 DEF AckNow, Write, WriteAll, Endpoint
<1> HIDE DEF b, n
<1>9. b \in Endpoint /\ Sound(b) /\ QueueExact(b) /\ b.outgoingAckId <= n
  BY <1>1, <1>3, <1>5, <1>7, <1>8 DEF GoesOn, QueueExact
<1>10. /\ GoesOn(b, e1, n) /\ SameMode(b, e1)
       /\ \A s \in Seq(ProtocolMessage) :
             Chain(s \o b.writerData, n) => Feeds(s \o e1.writerData, n, e1)
       /\ ~b.isReconnecting /\ e1.outgoingUnackMsg # <<>> => e1.outgoingAckTimeout
  BY <1>1, <1>9, ReplayAllGoesOn
<1> HIDE DEF e1
<1>11. ASSUME NEW s \in Seq(ProtocolMessage), Feeds(s \o e.writerData, n, e)
       PROVE  Feeds(s \o e1.writerData, n, e1)
  <2>1. Chain(s \o b.writerData, n)
    BY <1>3, <1>7, <1>11 DEF Feeds, Unbroken
  <2>2. QED  BY <1>10, <2>1
<1>12. GoesOn(e, e1, n)
  <2>1. /\ e1 \in Endpoint /\ Sound(e1) /\ e1.socket = e.socket
    BY <1>3, <1>7, <1>10 DEF GoesOn
  <2>2. e.incomingMsgId <= e1.incomingMsgId
    <3>1. b.incomingMsgId \in Nat /\ e1.incomingMsgId \in Nat
      BY <1>9, <2>1 DEF Endpoint
    <3>2. QED  BY <1>1, <1>3, <1>7, <1>10, <3>1 DEF GoesOn
  <2>3. QED  BY <1>11, <2>1, <2>2 DEF GoesOn
<1>13. QED  BY <1>3, <1>4, <1>7, <1>10, <1>12 DEF SameMode, n

\* The _incomingAckTimeout timer acknowledges what was received.
LEMMA AckTimerGoesOn ==
    ASSUME NEW e \in Endpoint, Sound(e), NEW n \in Nat
    PROVE  LET e1 == SendAck([e EXCEPT !.incomingAckTimeout = FALSE])
           IN  /\ GoesOn(e, e1, n) /\ SameMode(e, e1) /\ SameCheck(e, e1)
               /\ NoRegular(e.writerData) => NoRegular(e1.writerData)
<1> DEFINE a  == [e EXCEPT !.incomingAckTimeout = FALSE]
           e1 == SendAck(a)
<1>1. e.incomingMsgId \in Nat /\ e.incomingAckId \in Nat
  BY DEF Endpoint
<1>2. a \in Endpoint
  BY DEF Endpoint
<1>3. /\ a.socket = e.socket /\ a.incomingMsgId = e.incomingMsgId
      /\ a.incomingAckId = e.incomingAckId
      /\ a.writerData = e.writerData /\ a.writeNowTimeout = e.writeNowTimeout
      /\ a.outgoingMsgId = e.outgoingMsgId /\ a.outgoingUnackMsg = e.outgoingUnackMsg
      /\ a.isReconnecting = e.isReconnecting /\ a.isPaused = e.isPaused
      /\ a.controlBuffer = e.controlBuffer
      /\ a.outgoingAckTimeout = e.outgoingAckTimeout
  BY DEF Endpoint
<1> HIDE DEF a
<1>4. QueueRegular(a) /\ (a.writerData # <<>> /\ ~a.isPaused => a.writeNowTimeout)
  BY <1>3 DEF Sound, Timers, QueueRegular
<1>5. CASE a.incomingMsgId <= a.incomingAckId
  <2>1. e1 = a
    BY <1>5 DEF SendAck
  <2>2. Sound(a)
    BY <1>1, <1>3, <1>4, <1>5 DEF Sound, Timers
  <2>3. GoesOn(e, a, n)
    BY <1>1, <1>2, <1>3, <2>2, NothingWritten
  <2>4. QED  BY <1>3, <2>1, <2>3 DEF SameMode, SameCheck, a
<1>6. CASE ~(a.incomingMsgId <= a.incomingAckId)
  <2>1. e1 = AckNow(a, "Ack")
    BY <1>6 DEF SendAck
  <2>2. /\ GoesOn(a, e1, n) /\ SameMode(a, e1) /\ SameCheck(a, e1)
        /\ NoRegular(a.writerData) => NoRegular(e1.writerData)
    BY <1>2, <1>4, <2>1, AckNowGoesOn
  <2> HIDE DEF e1
  <2>3. GoesOn(e, e1, n)
    BY <1>3, <2>2 DEF GoesOn, Feeds
  <2>4. QED  BY <1>3, <2>2, <2>3 DEF SameMode, SameCheck, e1, a
<1>7. QED  BY <1>5, <1>6

\* beginAcceptReconnection: a new writer, and no control message is kept.
LEMMA BeginAcceptReconnectionFields ==
    ASSUME NEW e \in Endpoint, Sound(e), NEW k \in Socket
    PROVE  LET e1 == BeginAcceptReconnection(e, k)
           IN  /\ e1 \in Endpoint /\ Sound(e1) /\ e1.socket = k
               /\ e1.isReconnecting /\ ~e1.isPaused /\ e1.writerData = <<>>
               /\ e1.controlBuffer = <<>> /\ e1.incomingMsgId = e.incomingMsgId
<1> DEFINE e1 == BeginAcceptReconnection(e, k)
<1>1. e1 \in Endpoint
  <2>1. <<>> \in Seq(ProtocolMessage) /\ <<>> \in Seq(Data \cup ControlData \cup {NoData})
    OBVIOUS
  <2>2. QED  BY <2>1 DEF BeginAcceptReconnection, Endpoint
<1>2. /\ e1.socket = k /\ e1.isReconnecting = TRUE /\ e1.isPaused = FALSE
      /\ e1.writerData = <<>> /\ e1.controlBuffer = <<>>
      /\ e1.incomingMsgId = e.incomingMsgId /\ e1.incomingAckId = e.incomingAckId
      /\ e1.incomingAckTimeout = e.incomingAckTimeout
      /\ e1.outgoingUnackMsg = e.outgoingUnackMsg
  BY DEF BeginAcceptReconnection, Endpoint
<1> HIDE DEF e1
<1>3. Sound(e1)
  BY <1>2 DEF Sound, Timers, QueueRegular
<1>4. QED  BY <1>1, <1>2, <1>3 DEF e1

-----------------------------------------------------------------------------
(* Changes of one part of the state *)

Ends == [Side -> Endpoint]

Sockets == [Socket -> [Side -> Seq(ProtocolMessage)]]

StreamInv(E, c, o, h) == AdoptInv(E, c, h) /\ FeedInv(E, c, o, h)

\* The client stays out of a socket that is not accepted.
StaysOut(e, e1) ==
    /\ e.isPaused => e1.isPaused
    /\ e.isReconnecting /\ NoRegular(e.writerData) =>
          e1.isPaused \/ (e1.isReconnecting /\ NoRegular(e1.writerData))

\* Both ends, from the one of them that is named.
LEMMA SideFacts ==
    /\ "client" \in Side /\ "server" \in Side
    /\ Peer("client") = "server" /\ Peer("server") = "client"
    /\ \A p \in Side : p = "client" \/ p = "server"
BY DEF Side, Peer

\* What the types say of an endpoint ...
LEMMA EndTypes ==
    ASSUME NEW E \in Ends, NEW p \in Side
    PROVE  /\ E[p] \in Endpoint /\ E[p].socket \in Socket /\ E[p].incomingMsgId \in Nat
           /\ E[p].outgoingMsgId \in Nat /\ E[p].writerData \in Seq(ProtocolMessage)
<1>1. E[p] \in Endpoint
  BY DEF Ends
<1>2. QED  BY <1>1 DEF Endpoint

\* ... and of a socket.
LEMMA SocketTypes ==
    ASSUME NEW c \in Sockets
    PROVE  \A k \in Socket, p \in Side : c[k][p] \in Seq(ProtocolMessage)
BY DEF Sockets

\* The conditions on what feeds a reader only weaken when it has received more.
LEMMA FeedsMonotone ==
    ASSUME NEW s \in Seq(ProtocolMessage), NEW n \in Nat, NEW n1 \in Nat, n <= n1,
           NEW e \in Endpoint, Feeds(s, n, e)
    PROVE  Feeds(s, n1, e)
<1>1. e.outgoingMsgId \in Nat
  BY DEF Endpoint
<1>2. QED  BY <1>1, ChainMonotone DEF Feeds

\* An endpoint goes on.
LEMMA StreamGrows ==
    ASSUME NEW E \in Ends, NEW c \in Sockets, NEW o, NEW h, StreamInv(E, c, o, h),
           NEW p \in Side, NEW e1, GoesOn(E[p], e1, E[Peer(p)].incomingMsgId),
           p = "client" /\ h[E[p].socket] # "Done" => StaysOut(E[p], e1)
    PROVE  StreamInv([E EXCEPT ![p] = e1], c, o, h)
<1> DEFINE F == [E EXCEPT ![p] = e1]
           q == Peer(p)
<1>1. q \in Side /\ q # p /\ Peer(q) = p /\ \A r \in Side : r = p \/ r = q
  BY PeerFacts
<1>2. /\ E[p] \in Endpoint /\ E[q] \in Endpoint
      /\ E[p].incomingMsgId \in Nat /\ E[q].incomingMsgId \in Nat
      /\ E[q].writerData \in Seq(ProtocolMessage) /\ E[p].socket \in Socket
      /\ E[q].socket \in Socket
      /\ \A k \in Socket : c[k][p] \in Seq(ProtocolMessage) /\ c[k][q] \in Seq(ProtocolMessage)
  <2> HIDE DEF q
  <2>1. QED  BY <1>1, EndTypes, SocketTypes
<1>3. F[p] = e1 /\ F[q] = E[q]
  BY <1>1 DEF Ends
<1>4. /\ e1 \in Endpoint /\ e1.socket = E[p].socket
      /\ E[p].incomingMsgId <= e1.incomingMsgId
  BY DEF GoesOn
<1>5. e1.incomingMsgId \in Nat
  BY <1>4 DEF Endpoint
<1> HIDE DEF F, q
<1>6. AdoptInv(F, c, h)
  <2>1. F["client"].socket = E["client"].socket
    BY <1>1, <1>3, <1>4, SideFacts
  <2>2. CASE p = "client"
    BY <1>3, <1>4, <2>1, <2>2 DEF StreamInv, AdoptInv, StaysOut
  <2>3. CASE p = "server"
    <3>1. F["client"] = E["client"]
      BY <1>3, <2>3, SideFacts DEF q
    <3>2. QED  BY <3>1 DEF StreamInv, AdoptInv
  <2>4. QED  BY <2>2, <2>3, SideFacts
<1>7. FeedInv(F, c, o, h)
  <2> DEFINE k == E[p].socket
             l == E[q].socket
  <2>1. /\ Chain(c[k][q], E[p].incomingMsgId)
        /\ o[k] /\ (l = k \/ h[k] # "Done") =>
              Feeds(c[k][p] \o E[p].writerData, E[q].incomingMsgId, E[p])
        /\ Chain(c[l][p], E[q].incomingMsgId)
        /\ o[l] /\ (k = l \/ h[l] # "Done") =>
              Feeds(c[l][q] \o E[q].writerData, E[p].incomingMsgId, E[q])
    BY <1>1 DEF StreamInv, FeedInv, Fed, q
  <2>2. k \in Socket /\ l \in Socket
    BY <1>2
  <2> HIDE DEF k, l
  <2>3. Chain(c[k][q], e1.incomingMsgId)
    BY <1>2, <1>4, <1>5, <2>1, <2>2, ChainMonotone
  <2>4. o[k] /\ (l = k \/ h[k] # "Done") =>
           Feeds(c[k][p] \o e1.writerData, E[q].incomingMsgId, e1)
    BY <1>2, <2>1, <2>2 DEF GoesOn, q
  <2>5. o[l] /\ (k = l \/ h[l] # "Done") =>
           Feeds(c[l][q] \o E[q].writerData, e1.incomingMsgId, E[q])
    <3>1. c[l][q] \o E[q].writerData \in Seq(ProtocolMessage)
      BY <1>2, <2>2, ConcatFacts
    <3>2. QED  BY <1>2, <1>4, <1>5, <2>1, <3>1, FeedsMonotone
  <2>6. F[p].socket = k /\ F[q].socket = l
    BY <1>3, <1>4 DEF k, l
  <2>7. Fed(F, c, o, h, p)
    BY <1>3, <2>3, <2>4, <2>6 DEF Fed, q
  <2>8. Fed(F, c, o, h, q)
    BY <1>1, <1>3, <2>1, <2>5, <2>6 DEF Fed
  <2>9. QED  BY <1>1, <2>7, <2>8 DEF FeedInv
<1>8. QED  BY <1>6, <1>7 DEF StreamInv, F

\* A Pause that is not read yet guards what comes after it.
LEMMA GuardedTail ==
    ASSUME NEW s \in Seq(ProtocolMessage), s # <<>>, Guarded(s), Head(s).type # "Pause"
    PROVE  Guarded(Tail(s))
<1> SUFFICES ASSUME NEW i \in 1..Len(Tail(s)), Tail(s)[i].type = "Control",
                    Tail(s)[i].data = "first"
             PROVE  \E j \in 1..(i - 1) : Tail(s)[j].type = "Pause"
  BY DEF Guarded
<1>1. Tail(s)[i] = s[i + 1] /\ i + 1 \in 1..Len(s) /\ (i + 1) - 1 = i
  BY TailOf
<1>2. PICK j \in 1..i : s[j].type = "Pause"
  BY <1>1 DEF Guarded
<1>3. j # 1
  BY <1>2, TailOf
<1>4. j - 1 \in 1..(i - 1) /\ j - 1 \in 1..Len(Tail(s)) /\ (j - 1) + 1 = j
  BY <1>1, <1>3, TailOf
<1>5. Tail(s)[j - 1] = s[j]
  BY <1>4, TailOf
<1>6. QED  BY <1>2, <1>4, <1>5

\* A message is taken from a socket that the reader has received, or that is
\* outside the stream.
LEMMA StreamConsumes ==
    ASSUME NEW E \in Ends, NEW c \in Sockets, NEW o, NEW h, StreamInv(E, c, o, h),
           NEW p \in Side, NEW k \in Socket, c[k][p] # <<>>,
           Head(c[k][p]).type = "Regular" => Head(c[k][p]).id <= E[Peer(p)].incomingMsgId,
           p = "server" => E["client"].isPaused \/ Head(c[k][p]).type # "Pause"
    PROVE  StreamInv(E, [c EXCEPT ![k][p] = Tail(@)], o, h)
<1> DEFINE d == [c EXCEPT ![k][p] = Tail(@)]
           q == Peer(p)
           s == c[k][p]
<1>1. q \in Side /\ q # p /\ Peer(q) = p /\ \A r \in Side : r = p \/ r = q
  BY PeerFacts
<1>2. /\ d[k][p] = Tail(s) /\ d[k][q] = c[k][q]
      /\ \A l \in Socket : l # k => d[l] = c[l]
  BY <1>1 DEF Sockets
<1>3. s \in Seq(ProtocolMessage)
  BY SocketTypes
<1>4. s = c[k][p]
  OBVIOUS
<1> HIDE DEF d, q, s
<1>5. E[q].incomingMsgId \in Nat /\ E[p].outgoingMsgId \in Nat /\ E[p].writerData \in Seq(ProtocolMessage)
  BY <1>1, EndTypes
<1>6. /\ Chain(s, E[q].incomingMsgId) => Chain(Tail(s), E[q].incomingMsgId)
      /\ NoRegular(s) => NoRegular(Tail(s))
  BY <1>3, <1>4, <1>5, ChainTail DEF q
<1>7. AdoptInv(E, d, h)
  <2>1. Handshakes(s) => Handshakes(Tail(s))
    BY <1>3, <1>4, TailOf DEF Handshakes
  <2>2. Guarded(s) /\ Head(s).type # "Pause" => Guarded(Tail(s))
    BY <1>3, <1>4, GuardedTail
  <2> SUFFICES ASSUME NEW l \in Socket, h[l] # "Done"
               PROVE  /\ NoRegular(d[l]["client"])
                      /\ Handshakes(d[l]["server"])
                      /\ l = E["client"].socket =>
                            \/ E["client"].isPaused
                            \/ /\ E["client"].isReconnecting
                               /\ NoRegular(E["client"].writerData)
                               /\ Guarded(d[l]["server"])
    BY DEF AdoptInv
  <2>3. /\ NoRegular(c[l]["client"])
        /\ Handshakes(c[l]["server"])
        /\ l = E["client"].socket =>
              \/ E["client"].isPaused
              \/ /\ E["client"].isReconnecting
                 /\ NoRegular(E["client"].writerData)
                 /\ Guarded(c[l]["server"])
    BY DEF StreamInv, AdoptInv
  <2>4. CASE l # k
    BY <1>2, <2>3, <2>4
  <2>5. CASE l = k /\ p = "client"
    <3>1. d[l]["server"] = c[l]["server"] /\ d[l]["client"] = Tail(s) /\ s = c[l]["client"]
      BY <1>2, <1>4, <2>5, SideFacts DEF q
    <3>2. QED  BY <1>6, <2>3, <3>1
  <2>6. CASE l = k /\ p = "server"
    <3>1. d[l]["client"] = c[l]["client"] /\ d[l]["server"] = Tail(s) /\ s = c[l]["server"]
      BY <1>2, <1>4, <2>6, SideFacts DEF q
    <3>2. E["client"].isPaused \/ Head(s).type # "Pause"
      BY <1>4, <2>6
    <3>3. QED  BY <2>1, <2>2, <2>3, <3>1, <3>2
  <2>7. QED  BY <2>4, <2>5, <2>6, SideFacts
<1>8. Fed(E, d, o, h, p)
  <2> DEFINE l == E[p].socket
             w == E[p].writerData
             n == E[q].incomingMsgId
  <2>1. /\ Chain(c[l][q], E[p].incomingMsgId)
        /\ o[l] /\ (E[q].socket = l \/ h[l] # "Done") => Feeds(c[l][p] \o w, n, E[p])
    BY DEF StreamInv, FeedInv, Fed, q
  <2>2. l \in Socket
    BY EndTypes
  <2>3. CASE l # k
    <3>1. d[l] = c[l]
      BY <1>2, <2>2, <2>3
    <3>2. QED  BY <2>1, <3>1 DEF Fed, q
  <2>4. CASE l = k
    <3>1. d[l][q] = c[l][q] /\ d[l][p] = Tail(s) /\ c[l][p] = s
      BY <1>2, <1>4, <2>4
    <3>2. ASSUME Feeds(s \o w, n, E[p])
          PROVE  Feeds(Tail(s) \o w, n, E[p])
      <4>1. w \in Seq(ProtocolMessage) /\ n \in Nat /\ E[p].outgoingMsgId \in Nat
        BY <1>5
      <4>2. Head(s).type = "Regular" => Head(s).id <= n
        BY <1>4 DEF q
      <4> HIDE DEF w, n
      <4>3. /\ Tail(s) \o w = Tail(s \o w) /\ s \o w # <<>> /\ Head(s \o w) = Head(s)
        BY <1>3, <1>4, <4>1, Rearranged, ZenonT(30)
      <4>4. s \o w \in Seq(ProtocolMessage)
        BY <1>3, <4>1, ConcatFacts
      <4>5. /\ Chain(s \o w, n) => Chain(Tail(s \o w), n)
            /\ \A m \in Nat : Reaches(s \o w, n, m) => Reaches(Tail(s \o w), n, m)
        BY <4>1, <4>2, <4>3, <4>4, ChainTail
      <4>6. QED  BY <3>2, <4>1, <4>3, <4>5 DEF Feeds
    <3>3. QED  BY <2>1, <3>1, <3>2 DEF Fed, q
  <2>5. QED  BY <2>3, <2>4
<1>9. Fed(E, d, o, h, q)
  <2> DEFINE l == E[q].socket
             n == E[q].incomingMsgId
  <2>1. /\ Chain(c[l][p], n)
        /\ o[l] /\ (E[p].socket = l \/ h[l] # "Done") =>
              Feeds(c[l][q] \o E[q].writerData, E[p].incomingMsgId, E[q])
    BY <1>1 DEF StreamInv, FeedInv, Fed
  <2>2. l \in Socket
    BY <1>1, EndTypes
  <2>3. CASE l # k
    <3>1. d[l] = c[l]
      BY <1>2, <2>2, <2>3
    <3>2. QED  BY <1>1, <2>1, <3>1 DEF Fed
  <2>4. CASE l = k
    <3>1. d[l][q] = c[l][q] /\ d[l][p] = Tail(s) /\ c[l][p] = s
      BY <1>2, <1>4, <2>4
    <3>2. QED  BY <1>1, <1>6, <2>1, <3>1 DEF Fed
  <2>5. QED  BY <2>3, <2>4
<1>10. QED  BY <1>1, <1>7, <1>8, <1>9 DEF StreamInv, FeedInv, d

\* Messages are put on a socket.
Puts(c, o, k, p, msgs) == IF o[k] THEN [c EXCEPT ![k][p] = @ \o msgs] ELSE c

\* What is on the sockets after a write.
LEMMA PutsFacts ==
    ASSUME NEW c \in Sockets, NEW o \in [Socket -> BOOLEAN], NEW k \in Socket, NEW p \in Side,
           NEW msgs \in Seq(ProtocolMessage), NEW d, d = Puts(c, o, k, p, msgs)
    PROVE  /\ d \in Sockets
           /\ o[k] => d[k][p] = c[k][p] \o msgs
           /\ ~o[k] => d[k][p] = c[k][p]
           /\ d[k][Peer(p)] = c[k][Peer(p)]
           /\ \A l \in Socket : l # k => d[l] = c[l]
<1>1. /\ Peer(p) \in Side /\ Peer(p) # p /\ c[k] \in [Side -> Seq(ProtocolMessage)]
      /\ c[k][p] \in Seq(ProtocolMessage)
  BY PeerFacts DEF Sockets
<1>2. c[k][p] \o msgs \in Seq(ProtocolMessage)
  BY <1>1, ConcatFacts
<1>3. CASE o[k]
  <2>1. d = [c EXCEPT ![k][p] = @ \o msgs]
    BY <1>3 DEF Puts
  <2>2. /\ d[k][p] = c[k][p] \o msgs /\ d[k][Peer(p)] = c[k][Peer(p)]
        /\ \A l \in Socket : l # k => d[l] = c[l]
    BY <1>1, <2>1 DEF Sockets
  <2>3. d \in Sockets
    BY <1>1, <1>2, <2>1 DEF Sockets
  <2>4. QED  BY <1>3, <2>2, <2>3
<1>4. CASE ~o[k]
  <2>1. d = c
    BY <1>4 DEF Puts
  <2>2. QED  BY <1>4, <2>1
<1>5. QED  BY <1>3, <1>4

\* _writeNow: what an endpoint has buffered goes to its socket.
LEMMA StreamFlushes ==
    ASSUME NEW E \in Ends, NEW c \in Sockets, NEW o \in [Socket -> BOOLEAN], NEW h, StreamInv(E, c, o, h),
           NEW p \in Side, p = "server" => h[E[p].socket] = "Done",
           ~E[p].isPaused,
           NEW e1 \in Endpoint, e1.socket = E[p].socket, e1.writerData = <<>>,
           e1.incomingMsgId = E[p].incomingMsgId, e1.outgoingMsgId = E[p].outgoingMsgId,
           e1.isReconnecting = E[p].isReconnecting
    PROVE  StreamInv([E EXCEPT ![p] = e1],
                     Puts(c, o, E[p].socket, p, E[p].writerData), o, h)
<1> DEFINE k == E[p].socket
           w == E[p].writerData
           F == [E EXCEPT ![p] = e1]
           d == Puts(c, o, k, p, w)
           q == Peer(p)
<1>1. q \in Side /\ q # p /\ Peer(q) = p /\ \A r \in Side : r = p \/ r = q
  BY PeerFacts
<1>2. /\ E[p] \in Endpoint /\ k \in Socket /\ w \in Seq(ProtocolMessage)
      /\ E[p].incomingMsgId \in Nat
  BY EndTypes
<1>3. F[p] = e1 /\ F[q] = E[q]
  BY <1>1 DEF Ends
<1>4. k = E[p].socket /\ w = E[p].writerData
  OBVIOUS
<1> HIDE DEF k, w, F
<1>5. /\ d \in Sockets
      /\ o[k] => d[k][p] = c[k][p] \o w
      /\ ~o[k] => d[k][p] = c[k][p]
      /\ d[k][q] = c[k][q]
      /\ \A l \in Socket : l # k => d[l] = c[l]
  <2>1. k \in Socket /\ w \in Seq(ProtocolMessage)
    BY <1>2
  <2>2. d = Puts(c, o, k, p, w)
    OBVIOUS
  <2> HIDE DEF d
  <2>3. QED  BY <2>1, <2>2, PutsFacts, SMTT(40)
<1> HIDE DEF d, q
<1>6. E[q].socket \in Socket
  BY <1>1, EndTypes
<1>7. AdoptInv(F, d, h)
  <2>1. CASE p = "client"
    <3>1. F["client"] = e1 /\ d[k]["server"] = c[k]["server"]
      BY <1>3, <1>5, <2>1, SideFacts DEF q
    <3> SUFFICES ASSUME NEW l \in Socket, h[l] # "Done"
                 PROVE  /\ NoRegular(d[l]["client"])
                        /\ Handshakes(d[l]["server"])
                        /\ l = k => /\ e1.isReconnecting
                                    /\ NoRegular(<<>>)
                                    /\ Guarded(d[l]["server"])
      BY <1>4, <3>1 DEF AdoptInv
    <3>2. /\ NoRegular(c[l]["client"]) /\ Handshakes(c[l]["server"])
          /\ l = k => E[p].isReconnecting /\ NoRegular(w) /\ Guarded(c[l]["server"])
      BY <1>4, <2>1 DEF StreamInv, AdoptInv
    <3>3. NoRegular(<<>>)
      BY DEF NoRegular
    <3>4. CASE l # k
      BY <1>5, <3>2, <3>3, <3>4
    <3>5. CASE l = k
      <4>1. c[k]["client"] \in Seq(ProtocolMessage)
        BY <1>2, SideFacts, SocketTypes
      <4>2. NoRegular(d[l]["client"])
        <5>1. NoRegular(c[k]["client"] \o w)
          BY <1>2, <3>2, <3>5, <4>1, BareChain
        <5>2. QED  BY <1>5, <2>1, <3>2, <3>5, <5>1
      <4>3. QED  BY <3>1, <3>2, <3>3, <3>5, <4>2
    <3>6. QED  BY <3>4, <3>5
  <2>2. CASE p = "server"
    <3>1. F["client"] = E["client"]
      BY <1>3, <2>2, SideFacts DEF q
    <3>2. \A l \in Socket : h[l] # "Done" => d[l] = c[l]
      BY <1>4, <1>5, <2>2
    <3>3. QED  BY <3>1, <3>2 DEF StreamInv, AdoptInv
  <2>3. QED  BY <2>1, <2>2, SideFacts
<1>8. Fed(F, d, o, h, p)
  <2>1. /\ Chain(c[k][q], E[p].incomingMsgId)
        /\ o[k] /\ (E[q].socket = k \/ h[k] # "Done") =>
              Feeds(c[k][p] \o w, E[q].incomingMsgId, E[p])
    BY <1>4 DEF StreamInv, FeedInv, Fed, q
  <2>2. ASSUME o[k] PROVE d[k][p] \o <<>> = c[k][p] \o w
    <3>1. d[k][p] \in Seq(ProtocolMessage) /\ d[k][p] = c[k][p] \o w
      BY <1>2, <1>5, <2>2, SocketTypes
    <3>2. QED  BY <3>1
  <2>3. /\ F[p].socket = k /\ F[q].socket = E[q].socket /\ F[p].writerData = <<>>
        /\ F[p].incomingMsgId = E[p].incomingMsgId
        /\ F[q].incomingMsgId = E[q].incomingMsgId
        /\ F[p].isReconnecting = E[p].isReconnecting
        /\ F[p].outgoingMsgId = E[p].outgoingMsgId
    BY <1>3, <1>4
  <2>4. Chain(d[k][q], F[p].incomingMsgId)
    BY <1>5, <2>1, <2>3
  <2>5. o[k] /\ (E[q].socket = k \/ h[k] # "Done") =>
           Feeds(d[k][p] \o <<>>, E[q].incomingMsgId, F[p])
    BY <2>1, <2>2, <2>3 DEF Feeds
  <2>6. QED  BY <2>3, <2>4, <2>5 DEF Fed, q
<1>9. Fed(F, d, o, h, q)
  <2> DEFINE l == E[q].socket
  <2>1. /\ Chain(c[l][p], E[q].incomingMsgId)
        /\ o[l] /\ (k = l \/ h[l] # "Done") =>
              Feeds(c[l][q] \o E[q].writerData, E[p].incomingMsgId, E[q])
    BY <1>1, <1>4 DEF StreamInv, FeedInv, Fed
  <2>2. F[q] = E[q] /\ F[p].socket = k /\ F[p].incomingMsgId = E[p].incomingMsgId
    BY <1>3, <1>4
  <2>3. d[l][q] = c[l][q]
    BY <1>5, <1>6
  <2>4. Chain(d[l][p], E[q].incomingMsgId)
    <3>1. CASE l = k /\ o[k]
      <4>1. Feeds(c[k][p] \o w, E[q].incomingMsgId, E[p])
        BY <1>4, <3>1 DEF StreamInv, FeedInv, Fed, q
      <4>2. QED  BY <1>5, <3>1, <4>1 DEF Feeds
    <3>2. CASE l = k /\ ~o[k]
      BY <1>5, <2>1, <3>2
    <3>3. CASE l # k
      BY <1>5, <1>6, <2>1, <3>3
    <3>4. QED  BY <3>1, <3>2, <3>3
  <2>5. QED  BY <1>1, <2>1, <2>2, <2>3, <2>4 DEF Fed
<1>10. QED  BY <1>1, <1>4, <1>7, <1>8, <1>9 DEF StreamInv, FeedInv, F, d

\* The client begins an attempt on a new socket k.
LEMMA ClientMoves ==
    ASSUME NEW E \in Ends, NEW c \in Sockets, NEW o, NEW h, NEW k \in Socket,
           StreamInv(E, c, o, h),
           \A p \in Side : c[k][p] = <<>>,
           NEW e1 \in Endpoint, e1.socket = k, e1.isReconnecting, NoRegular(e1.writerData),
           NEW o1, NEW h1, h1[k] # "Done",
           \A l \in Socket : l # k => (h1[l] = "Done" <=> h[l] = "Done"),
           k # E["server"].socket, h[E["server"].socket] = "Done"
    PROVE  StreamInv([E EXCEPT !["client"] = e1], c, o1, h1)
<1> DEFINE F == [E EXCEPT !["client"] = e1]
<1>1. F["client"] = e1 /\ F["server"] = E["server"]
  BY SideFacts DEF Ends
<1>2. c[k]["client"] = <<>> /\ c[k]["server"] = <<>>
  BY SideFacts
<1>3. e1.writerData \in Seq(ProtocolMessage) /\ E["server"].incomingMsgId \in Nat
      /\ E["server"].socket \in Socket
  BY SideFacts, EndTypes DEF Endpoint
<1> HIDE DEF F
<1>4. AdoptInv(F, c, h1)
  <2> SUFFICES ASSUME NEW l \in Socket, h1[l] # "Done"
               PROVE  /\ NoRegular(c[l]["client"])
                      /\ Handshakes(c[l]["server"])
                      /\ l = k => Guarded(c[l]["server"])
    BY <1>1 DEF AdoptInv
  <2>1. CASE l = k
    BY <1>2, <2>1 DEF NoRegular, Handshakes, Guarded
  <2>2. CASE l # k
    BY <2>2 DEF StreamInv, AdoptInv
  <2>3. QED  BY <2>1, <2>2
<1>5. Fed(F, c, o1, h1, "client")
  <2>1. Chain(<<>>, F["client"].incomingMsgId)
    BY DEF Chain
  <2>2. Feeds(<<>> \o e1.writerData, E["server"].incomingMsgId, e1)
    <3>1. <<>> \o e1.writerData = e1.writerData
      BY <1>3
    <3>2. QED  BY <1>3, <3>1, BareChain DEF Feeds
  <2>3. QED  BY <1>1, <1>2, <2>1, <2>2, SideFacts DEF Fed
<1>6. Fed(F, c, o1, h1, "server")
  <2>1. Chain(c[E["server"].socket]["client"], E["server"].incomingMsgId)
    BY SideFacts DEF StreamInv, FeedInv, Fed
  <2>2. QED  BY <1>1, <1>3, <2>1, SideFacts DEF Fed
<1>7. QED  BY <1>4, <1>5, <1>6, SideFacts DEF StreamInv, FeedInv, F

\* The server accepts socket k.
LEMMA ServerMoves ==
    ASSUME NEW E \in Ends, NEW c \in Sockets, NEW o \in [Socket -> BOOLEAN], NEW h, NEW k \in Socket,
           StreamInv(E, c, o, h), h[k] # "Done",
           NEW e1 \in Endpoint, e1.socket = k, e1.isReconnecting, e1.writerData = <<>>,
           e1.incomingMsgId = E["server"].incomingMsgId,
           NEW o1 \in [Socket -> BOOLEAN], \A l \in Socket : o1[l] => o[l],
           NEW h1, h1[k] = "Done", \A l \in Socket : l # k => h1[l] = h[l]
    PROVE  StreamInv([E EXCEPT !["server"] = e1], c, o1, h1)
<1> DEFINE F == [E EXCEPT !["server"] = e1]
<1>1. F["server"] = e1 /\ F["client"] = E["client"]
  BY SideFacts DEF Ends
<1>2. /\ E["client"].socket \in Socket /\ E["client"].incomingMsgId \in Nat
      /\ E["server"].incomingMsgId \in Nat
      /\ c[k]["client"] \in Seq(ProtocolMessage) /\ c[k]["server"] \in Seq(ProtocolMessage)
  BY SideFacts, EndTypes, SocketTypes
<1>3. NoRegular(c[k]["client"]) /\ Handshakes(c[k]["server"])
  BY DEF StreamInv, AdoptInv
<1>4. NoRegular(c[k]["server"])
  BY <1>3 DEF Handshakes, NoRegular
<1> HIDE DEF F
<1>5. AdoptInv(F, c, h1)
  BY <1>1 DEF StreamInv, AdoptInv
<1>6. Fed(F, c, o1, h1, "server")
  <2>1. Chain(c[k]["client"], e1.incomingMsgId)
    BY <1>2, <1>3, BareChain
  <2>2. Feeds(c[k]["server"] \o <<>>, E["client"].incomingMsgId, e1)
    <3>1. c[k]["server"] \o <<>> = c[k]["server"]
      BY <1>2
    <3>2. QED  BY <1>2, <1>4, <3>1, BareChain DEF Feeds
  <2>3. QED  BY <1>1, <2>1, <2>2, SideFacts DEF Fed
<1>7. Fed(F, c, o1, h1, "client")
  <2> DEFINE l == E["client"].socket
  <2>1. /\ Chain(c[l]["server"], E["client"].incomingMsgId)
        /\ o[l] /\ (E["server"].socket = l \/ h[l] # "Done") =>
              Feeds(c[l]["client"] \o E["client"].writerData, E["server"].incomingMsgId, E["client"])
    BY SideFacts DEF StreamInv, FeedInv, Fed
  <2>2. o1[l] /\ (k = l \/ h1[l] # "Done") => o[l] /\ h[l] # "Done"
    BY <1>2
  <2>3. QED  BY <1>1, <2>1, <2>2, SideFacts DEF Fed
<1>8. QED  BY <1>5, <1>6, <1>7, SideFacts DEF StreamInv, FeedInv, F

\* Behind a Pause or not, nothing is unguarded.
LEMMA GuardedConcat ==
    ASSUME NEW s \in Seq(ProtocolMessage), NEW t \in Seq(ProtocolMessage),
           Guarded(s), Guarded(t)
    PROVE  Guarded(s \o t)
<1> SUFFICES ASSUME NEW i \in 1..Len(s \o t), (s \o t)[i].type = "Control",
                    (s \o t)[i].data = "first"
             PROVE  \E j \in 1..(i - 1) : (s \o t)[j].type = "Pause"
  BY DEF Guarded
<1>1. CASE i \in 1..Len(s)
  <2>1. \A j \in 1..i : (s \o t)[j] = s[j]
    BY <1>1, ConcatFacts
  <2>2. QED  BY <1>1, <2>1 DEF Guarded
<1>2. CASE i > Len(s) /\ i - Len(s) \in 1..Len(t)
  <2>1. (s \o t)[i] = t[i - Len(s)]
    BY <1>2, ConcatFacts
  <2>2. PICK j \in 1..(i - Len(s) - 1) : t[j].type = "Pause"
    BY <1>2, <2>1 DEF Guarded
  <2>3. j \in 1..Len(t) /\ Len(s) + j \in 1..(i - 1)
    BY <1>2, ConcatFacts
  <2>4. (s \o t)[Len(s) + j] = t[j]
    BY <2>3, ConcatFacts
  <2>5. QED  BY <2>2, <2>3, <2>4
<1>3. QED  BY <1>1, <1>2, ConcatFacts

\* The server writes messages of a handshake to socket k.
LEMMA ServerPuts ==
    ASSUME NEW E \in Ends, NEW c \in Sockets, NEW o \in [Socket -> BOOLEAN], NEW h, NEW k \in Socket,
           StreamInv(E, c, o, h),
           NEW msgs \in Seq(ProtocolMessage), Handshakes(msgs),
           h[k] # "Done" => Guarded(msgs),
           E["server"].socket = k => E["server"].writerData = <<>>
    PROVE  StreamInv(E, Puts(c, o, k, "server", msgs), o, h)
<1> DEFINE d == Puts(c, o, k, "server", msgs)
           s == c[k]["server"]
<1>1. CASE ~o[k]
  <2>1. d = c
    BY <1>1 DEF Puts
  <2>2. QED  BY <2>1
<1>2. CASE o[k]
  <2>1. /\ d[k]["server"] = s \o msgs /\ d[k]["client"] = c[k]["client"]
        /\ \A l \in Socket : l # k => d[l] = c[l]
    <3>1. "server" \in Side /\ Peer("server") = "client"
      BY SideFacts
    <3>a. d = Puts(c, o, k, "server", msgs)
      OBVIOUS
    <3> HIDE DEF d
    <3>2. /\ d[k]["server"] = s \o msgs
          /\ d[k][Peer("server")] = c[k][Peer("server")]
          /\ \A l \in Socket : l # k => d[l] = c[l]
      BY <1>2, <3>1, <3>a, PutsFacts
    <3>3. QED  BY <1>2, <3>1, <3>2
  <2>2. /\ s \in Seq(ProtocolMessage)
        /\ E["client"].socket \in Socket /\ E["client"].incomingMsgId \in Nat
        /\ E["server"].socket \in Socket /\ E["server"].outgoingMsgId \in Nat
    BY SideFacts, EndTypes, SocketTypes
  <2>3. NoRegular(msgs)
    BY DEF Handshakes, NoRegular
  <2> HIDE DEF d
  <2>4. AdoptInv(E, d, h)
    <3>1. Handshakes(s) => Handshakes(s \o msgs)
      BY <2>2, ConcatFacts DEF Handshakes
    <3>2. h[k] # "Done" /\ Guarded(s) => Guarded(s \o msgs)
      BY <2>2, GuardedConcat
    <3>3. \A l \in Socket : l # k => d[l] = c[l]
      BY <2>1
    <3>4. QED  BY <2>1, <3>1, <3>2 DEF StreamInv, AdoptInv
  <2>5. Fed(E, d, o, h, "client")
    <3> DEFINE l == E["client"].socket
    <3>1. /\ Chain(c[l]["server"], E["client"].incomingMsgId)
          /\ o[l] /\ (E["server"].socket = l \/ h[l] # "Done") =>
                Feeds(c[l]["client"] \o E["client"].writerData, E["server"].incomingMsgId, E["client"])
      BY SideFacts DEF StreamInv, FeedInv, Fed
    <3>2. d[l]["client"] = c[l]["client"]
      BY <2>1, <2>2
    <3>3. Chain(d[l]["server"], E["client"].incomingMsgId)
      <4>1. CASE l = k
        <5>1. d[l]["server"] = s \o msgs /\ Chain(s, E["client"].incomingMsgId)
          BY <2>1, <3>1, <4>1
        <5>2. QED  BY <2>2, <2>3, <5>1, BareChain
      <4>2. CASE l # k
        BY <2>1, <2>2, <3>1, <4>2
      <4>3. QED  BY <4>1, <4>2
    <3>4. QED  BY <3>1, <3>2, <3>3, SideFacts DEF Fed
  <2>6. Fed(E, d, o, h, "server")
    <3> DEFINE l == E["server"].socket
               n == E["client"].incomingMsgId
    <3>1. /\ Chain(c[l]["client"], E["server"].incomingMsgId)
          /\ o[l] /\ (E["client"].socket = l \/ h[l] # "Done") =>
                Feeds(c[l]["server"] \o E["server"].writerData, n, E["server"])
      BY SideFacts DEF StreamInv, FeedInv, Fed
    <3>2. d[l]["client"] = c[l]["client"]
      BY <2>1, <2>2
    <3>3. ASSUME Feeds(c[l]["server"] \o E["server"].writerData, n, E["server"])
          PROVE  Feeds(d[l]["server"] \o E["server"].writerData, n, E["server"])
      <4>1. CASE l # k
        BY <2>1, <2>2, <3>3, <4>1
      <4>2. CASE l = k
        <5>1. /\ c[l]["server"] = s /\ E["server"].writerData = <<>> /\ s \o <<>> = s
              /\ d[l]["server"] = s \o msgs
          BY <2>1, <2>2, <4>2
        <5>2. s \o msgs \in Seq(ProtocolMessage)
          BY <2>2, ConcatFacts
        <5>3. (s \o msgs) \o <<>> = s \o msgs
          BY <5>2
        <5>4. Feeds(s, n, E["server"])
          BY <3>3, <5>1
        <5>5. Feeds(s \o msgs, n, E["server"])
          BY <2>2, <2>3, <5>4, BareChain DEF Feeds
        <5>6. QED  BY <5>1, <5>3, <5>5
      <4>3. QED  BY <4>1, <4>2
    <3>4. QED  BY <3>1, <3>2, <3>3, SideFacts DEF Fed
  <2>7. QED  BY <2>4, <2>5, <2>6, SideFacts DEF StreamInv, FeedInv, d
<1>3. QED  BY <1>1, <1>2

\* A socket fails, or a handshake goes on.
LEMMA StreamWeakens ==
    ASSUME NEW E \in Ends, NEW c, NEW o \in [Socket -> BOOLEAN], NEW h, StreamInv(E, c, o, h),
           NEW o1 \in [Socket -> BOOLEAN], \A l \in Socket : o1[l] => o[l],
           NEW h1, \A l \in Socket : h1[l] = "Done" <=> h[l] = "Done"
    PROVE  StreamInv(E, c, o1, h1)
<1>1. \A p \in Side : E[p].socket \in Socket
  BY EndTypes
<1>2. AdoptInv(E, c, h1)
  BY DEF StreamInv, AdoptInv
<1>3. FeedInv(E, c, o1, h1)
  BY <1>1 DEF StreamInv, FeedInv, Fed
<1>4. QED  BY <1>2, <1>3 DEF StreamInv

\* Writing nothing changes nothing.
LEMMA PutsNothing ==
    ASSUME NEW c \in Sockets, NEW o \in [Socket -> BOOLEAN], NEW k \in Socket, NEW p \in Side
    PROVE  Puts(c, o, k, p, <<>>) = c
<1>1. c[k][p] \in Seq(ProtocolMessage)
  BY SocketTypes
<1>2. c[k][p] \o <<>> = c[k][p]
  BY <1>1
<1>3. [c EXCEPT ![k][p] = c[k][p]] = c
  BY DEF Sockets
<1>4. QED  BY <1>2, <1>3 DEF Puts

\* What an endpoint has written goes to its socket, before it leaves it.
LEMMA StreamLeaves ==
    ASSUME NEW E \in Ends, NEW c \in Sockets, NEW o \in [Socket -> BOOLEAN], NEW h,
           StreamInv(E, c, o, h),
           NEW p \in Side, p = "server" => h[E[p].socket] = "Done"
    PROVE  \E F \in Ends :
              /\ StreamInv(F, Puts(c, o, E[p].socket, p, Written(E[p])), o, h)
              /\ F[Peer(p)] = E[Peer(p)] /\ F[p].socket = E[p].socket
              /\ F[p].incomingMsgId = E[p].incomingMsgId
              /\ \A e2 : [F EXCEPT ![p] = e2] = [E EXCEPT ![p] = e2]
<1> DEFINE k == E[p].socket
           d == Puts(c, o, k, p, Written(E[p]))
<1>1. k \in Socket /\ E[p] \in Endpoint
  BY EndTypes
<1>2. CASE E[p].isPaused
  <2>1. Written(E[p]) = <<>>
    BY <1>2 DEF Written
  <2>2. d = c
    BY <1>1, <2>1, PutsNothing
  <2>3. QED  BY <2>2
<1>3. CASE ~E[p].isPaused
  <2> DEFINE e1 == [E[p] EXCEPT !.writerData = <<>>]
             F  == [E EXCEPT ![p] = e1]
  <2>1. Written(E[p]) = E[p].writerData
    BY <1>3 DEF Written
  <2>2. e1 \in Endpoint
    <3>1. <<>> \in Seq(ProtocolMessage)
      OBVIOUS
    <3>2. QED  BY <1>1, <3>1 DEF Endpoint
  <2>3. /\ e1.socket = E[p].socket /\ e1.writerData = <<>>
        /\ e1.incomingMsgId = E[p].incomingMsgId /\ e1.outgoingMsgId = E[p].outgoingMsgId
        /\ e1.isReconnecting = E[p].isReconnecting
    BY <1>1 DEF Endpoint
  <2>4. F \in Ends /\ F[p] = e1 /\ F[Peer(p)] = E[Peer(p)]
    BY <2>2, PeerFacts DEF Ends
  <2>5. \A e2 : [F EXCEPT ![p] = e2] = [E EXCEPT ![p] = e2]
    BY DEF Ends
  <2> HIDE DEF e1
  <2>6. StreamInv(F, d, o, h)
    BY <1>3, <2>1, <2>2, <2>3, StreamFlushes
  <2> HIDE DEF F, d
  <2>7. QED  BY <2>3, <2>4, <2>5, <2>6 DEF d
<1>4. QED  BY <1>2, <1>3

-----------------------------------------------------------------------------
(* The actions *)

\* The invariant after a step.
LEMMA ReInvPrime ==
    ReInv' <=>
        /\ \A p \in Side : Sound(ep'[p])
        /\ ClientInv(ep'["client"], phase')
        /\ SocketsInv(ep', chan', handshake', numSockets')
        /\ budget'["losses"] <= MaxLoss
        /\ budget'["losses"] = MaxLoss => StreamInv(ep', chan', open', handshake')
BY DEF ReInv, NoLoss, Sound, StreamInv

\* What the two invariants say before a step.
LEMMA Before ==
    ASSUME IInv, ReInv
    PROVE  /\ ep \in Ends /\ chan \in Sockets /\ open \in [Socket -> BOOLEAN]
           /\ numSockets \in Nat /\ MaxLoss \in Nat /\ budget["losses"] \in Nat
           /\ \A p \in Side : Sound(ep[p])
           /\ ClientInv(ep["client"], phase)
           /\ SocketsInv(ep, chan, handshake, numSockets)
           /\ budget["losses"] <= MaxLoss
           /\ budget["losses"] = MaxLoss => StreamInv(ep, chan, open, handshake)
<1>1. TypeOK
  BY DEF IInv
<1>2. numSockets \in Nat
  BY <1>1 DEF TypeOK, Socket
<1>3. budget["losses"] \in Nat
  BY <1>1 DEF TypeOK
<1>4. ep \in Ends /\ chan \in Sockets /\ open \in [Socket -> BOOLEAN]
  BY <1>1 DEF TypeOK, Ends, Sockets
<1>5. QED  BY <1>2, <1>3, <1>4, ConstantsAssumption DEF ReInv, NoLoss, Sound, StreamInv

\* Sockets that exist: those of the endpoints, and those with a handshake.
LEMMA Existing ==
    ASSUME NEW E \in Ends, NEW c, NEW h, NEW n \in Nat, SocketsInv(E, c, h, n)
    PROVE  /\ \A p \in Side : E[p].socket \in Socket /\ E[p].socket <= n
           /\ \A k \in Socket : h[k] # "None" => k <= n
<1>1. \A p \in Side : E[p].socket \in Socket
  BY EndTypes
<1>2. \A k \in Socket : h[k] # "None" => k <= n
  BY DEF SocketsInv, Socket
<1>3. E["client"].socket <= n
  BY <1>1, SideFacts DEF SocketsInv
<1>4. E["server"].socket <= n
  BY <1>1, <1>2, SideFacts DEF SocketsInv
<1>5. QED  BY <1>1, <1>2, <1>3, <1>4, SideFacts

\* The endpoints stay on their sockets, and no new one comes.
LEMMA SocketsStay ==
    ASSUME NEW E \in Ends, NEW c, NEW h, NEW n \in Nat, SocketsInv(E, c, h, n),
           NEW F, \A p \in Side : F[p].socket = E[p].socket,
           NEW c1, NEW h1, h1[E["server"].socket] = "Done",
           \A k \in Socket : k > n => h1[k] = h[k] /\ c1[k] = c[k]
    PROVE  SocketsInv(F, c1, h1, n)
BY SideFacts DEF SocketsInv

\* Nothing of the mode changes, so the client stays out.
LEMMA ModeStaysOut ==
    ASSUME NEW e, NEW e1, e1.isReconnecting = e.isReconnecting, e.isPaused => e1.isPaused,
           e.isReconnecting /\ NoRegular(e.writerData) => NoRegular(e1.writerData)
    PROVE  StaysOut(e, e1)
BY DEF StaysOut

\* An endpoint goes on, and all else stays.
LEMMA EndpointGoesOn ==
    ASSUME IInv, ReInv, NEW p \in Side, NEW e1,
           GoesOn(ep[p], e1, ep[Peer(p)].incomingMsgId),
           p = "client" /\ handshake[ep[p].socket] # "Done" => StaysOut(ep[p], e1),
           ep' = [ep EXCEPT ![p] = e1],
           UNCHANGED <<handshake, chan, open, numSockets>>,
           budget'["losses"] = budget["losses"],
           IF p = "client" THEN ClientInv(e1, phase') ELSE phase' = phase
    PROVE  ReInv'
<1>1. /\ ep \in Ends /\ chan \in Sockets /\ numSockets \in Nat
      /\ \A q \in Side : Sound(ep[q])
      /\ ClientInv(ep["client"], phase)
      /\ SocketsInv(ep, chan, handshake, numSockets)
      /\ budget["losses"] <= MaxLoss
      /\ budget["losses"] = MaxLoss => StreamInv(ep, chan, open, handshake)
  BY Before
<1>2. /\ ep'[p] = e1 /\ ep'[Peer(p)] = ep[Peer(p)] /\ \A q \in Side : q = p \/ q = Peer(p)
  BY <1>1, PeerFacts DEF Ends
<1>3. Sound(e1) /\ e1.socket = ep[p].socket
  BY DEF GoesOn
<1>4. ClientInv(ep'["client"], phase')
  BY <1>1, <1>2, SideFacts
<1>5. \A q \in Side : Sound(ep'[q]) /\ ep'[q].socket = ep[q].socket
  BY <1>1, <1>2, <1>3
<1>6. handshake[ep["server"].socket] = "Done"
  BY <1>1 DEF SocketsInv
<1>7. SocketsInv(ep', chan', handshake', numSockets')
  BY <1>1, <1>5, <1>6, SocketsStay
<1>8. budget["losses"] = MaxLoss => StreamInv(ep', chan', open', handshake')
  BY <1>1, StreamGrows
<1>9. QED  BY <1>1, <1>4, <1>5, <1>7, <1>8, ReInvPrime

\* What both sides know of themselves before a step.
LEMMA SideBefore ==
    ASSUME IInv, ReInv, NEW p \in Side
    PROVE  /\ Peer(p) \in Side
           /\ ep[p] \in Endpoint /\ ep[Peer(p)] \in Endpoint /\ Sound(ep[p])
           /\ EndpointInv(ep[p], ep[Peer(p)]) /\ EndpointInv(ep[Peer(p)], ep[p])
           /\ QueueExact(ep[p]) /\ ep[Peer(p)].incomingMsgId \in Nat
           /\ ep[p].socket \in Socket
           /\ ClientInv(ep["client"], phase)
           /\ p = "client" => ClientInv(ep[p], phase)
<1>1. Peer(p) \in Side /\ Peer(Peer(p)) = p
  BY PeerFacts
<1>2. EndpointInv(ep[p], ep[Peer(p)]) /\ EndpointInv(ep[Peer(p)], ep[p])
  BY <1>1 DEF IInv, EndsOK
<1>3. ep[p] \in Endpoint /\ ep[Peer(p)] \in Endpoint /\ QueueExact(ep[p])
  BY <1>2 DEF EndpointInv
<1>4. ep[Peer(p)].incomingMsgId \in Nat /\ ep[p].socket \in Socket
  BY <1>3 DEF Endpoint
<1>5. QED  BY <1>1, <1>2, <1>3, <1>4, Before

\* Keep-alives and faults are no losses.
LEMMA NoLossSpent ==
    ASSUME IInv
    PROVE  /\ \A k : SpendFault(k) => budget'["losses"] = budget["losses"]
           /\ Spend("keepAlives") => budget'["losses"] = budget["losses"]
           /\ Spend("faults") => budget'["losses"] = budget["losses"]
           /\ UNCHANGED budget => budget'["losses"] = budget["losses"]
<1>1. budget \in [{"keepAlives", "faults", "losses"} -> Nat]
  BY DEF IInv, TypeOK
<1>2. /\ Spend("keepAlives") => budget'["losses"] = budget["losses"]
      /\ Spend("faults") => budget'["losses"] = budget["losses"]
  BY <1>1 DEF Spend
<1>3. QED  BY <1>2 DEF SpendFault

\* The client's loop begins when a timeout or a close event is noticed.
LEMMA LoopBegins ==
    ASSUME NEW e, NEW e1, ClientInv(e, phase), e1.controlBuffer = e.controlBuffer,
           phase' = IF phase = "Connected" THEN "Reconnecting" ELSE phase
    PROVE  ClientInv(e1, phase')
BY DEF ClientInv

\* Nothing that the client's loop relies on changes.
LEMMA ClientStays ==
    ASSUME NEW e, NEW e1, NEW ph, ClientInv(e, ph), SameCheck(e, e1),
           e1.controlBuffer = e.controlBuffer, e1.isReconnecting = e.isReconnecting
    PROVE  ClientInv(e1, ph)
BY DEF ClientInv, SameCheck

\* send()
LEMMA SendRe ==
    ASSUME IInv, ReInv, NEW p \in Side, NEW d \in Data, Send(p, d) \/ SendLate(p, d)
    PROVE  ReInv'
<1>1. PICK late \in BOOLEAN :
        /\ ep' = [ep EXCEPT ![p] = SendRegular(@, d, late)]
        /\ late => OnSocketTimeout(p) /\ ~ep[p].isReconnecting
        /\ ~late => phase' = phase
        /\ UNCHANGED <<handshake, chan, open, numSockets>>
        /\ budget'["losses"] = budget["losses"]
  BY NoLossSpent DEF Send, SendLate
<1> DEFINE e  == ep[p]
           e1 == SendRegular(e, d, late)
           n  == ep[Peer(p)].incomingMsgId
<1>2. e \in Endpoint /\ Sound(e) /\ QueueExact(e) /\ n \in Nat
      /\ (p = "client" => ClientInv(e, phase))
  BY SideBefore
<1>3. ep' = [ep EXCEPT ![p] = e1]
  BY <1>1
<1> HIDE DEF e, n
<1>4. /\ GoesOn(e, e1, n) /\ SameMode(e, e1)
      /\ e.isReconnecting => e1.writerData = e.writerData
      /\ e.outgoingAckTimeout => e1.outgoingAckTimeout
      /\ ~late /\ ~e.isReconnecting => e1.outgoingAckTimeout
  BY <1>2, SendRegularGoesOn
<1> HIDE DEF e1
<1>5. StaysOut(e, e1)
  BY <1>4, ModeStaysOut DEF SameMode
<1>6. ASSUME p = "client" PROVE ClientInv(e1, phase')
  <2>1. CASE late
    <3>1. phase' = IF phase = "Connected" THEN "Reconnecting" ELSE phase
      BY <1>1, <1>6, <2>1 DEF OnSocketTimeout
    <3>2. QED  BY <1>2, <1>4, <1>6, <3>1, LoopBegins DEF SameMode
  <2>2. CASE ~late
    BY <1>1, <1>2, <1>4, <1>6, <2>2 DEF ClientInv, SameMode
  <2>3. QED  BY <2>1, <2>2
<1>7. p # "client" => phase' = phase
  BY <1>1 DEF OnSocketTimeout
<1>8. QED  BY <1>1, <1>3, <1>4, <1>5, <1>6, <1>7, EndpointGoesOn DEF e, n

\* The timers of the acks, and keep-alives.
LEMMA AckRe ==
    ASSUME IInv, ReInv, NEW p \in Side, AckTimer(p) \/ KeepAlive(p)
    PROVE  ReInv'
<1> DEFINE e  == ep[p]
           n  == ep[Peer(p)].incomingMsgId
<1>1. /\ UNCHANGED <<phase, handshake, chan, open, numSockets>>
      /\ budget'["losses"] = budget["losses"]
  BY NoLossSpent DEF AckTimer, KeepAlive
<1>2. e \in Endpoint /\ Sound(e) /\ n \in Nat
      /\ (p = "client" => ClientInv(e, phase))
  BY SideBefore
<1>3. PICK e1 : /\ ep' = [ep EXCEPT ![p] = e1]
                /\ GoesOn(e, e1, n) /\ SameMode(e, e1) /\ SameCheck(e, e1)
                /\ NoRegular(e.writerData) => NoRegular(e1.writerData)
  <2>1. CASE AckTimer(p)
    <3> DEFINE e1 == SendAck([e EXCEPT !.incomingAckTimeout = FALSE])
    <3>1. ep' = [ep EXCEPT ![p] = e1]
      BY <2>1 DEF AckTimer
    <3> HIDE DEF e, n
    <3>2. /\ GoesOn(e, e1, n) /\ SameMode(e, e1) /\ SameCheck(e, e1)
          /\ NoRegular(e.writerData) => NoRegular(e1.writerData)
      BY <1>2, AckTimerGoesOn
    <3> HIDE DEF e1
    <3>3. QED  BY <3>1, <3>2
  <2>2. CASE KeepAlive(p)
    <3> DEFINE e1 == AckNow(e, "KeepAlive")
    <3>1. ep' = [ep EXCEPT ![p] = e1]
      BY <2>2 DEF KeepAlive, SendKeepAlive
    <3> HIDE DEF e, n
    <3>2. QueueRegular(e) /\ (e.writerData # <<>> /\ ~e.isPaused => e.writeNowTimeout)
      BY <1>2 DEF Sound, Timers
    <3>3. /\ GoesOn(e, e1, n) /\ SameMode(e, e1) /\ SameCheck(e, e1)
          /\ NoRegular(e.writerData) => NoRegular(e1.writerData)
      BY <1>2, <3>2, AckNowGoesOn
    <3> HIDE DEF e1
    <3>4. QED  BY <3>1, <3>3
  <2>3. QED  BY <2>1, <2>2
<1> HIDE DEF e, n
<1>4. StaysOut(e, e1)
  BY <1>3, ModeStaysOut DEF SameMode
<1>5. p = "client" => ClientInv(e1, phase')
  BY <1>1, <1>2, <1>3, ClientStays DEF SameMode
<1>6. QED  BY <1>1, <1>3, <1>4, <1>5, EndpointGoesOn DEF e, n

\* The socket timeout's timer, and the close event.
LEMMA TimeoutRe ==
    ASSUME IInv, ReInv, NEW p \in Side,
           RecvAckTimerDone(p) \/ SocketTimeout(p) \/ SocketClose(p)
    PROVE  ReInv'
<1> DEFINE e == ep[p]
           n == ep[Peer(p)].incomingMsgId
           a == [e EXCEPT !.outgoingAckTimeout = FALSE]
           b == [e EXCEPT !.socketClosed = TRUE]
<1>1. /\ UNCHANGED <<handshake, chan, open, numSockets>>
      /\ budget'["losses"] = budget["losses"]
  BY NoLossSpent DEF RecvAckTimerDone, SocketTimeout, SocketClose
<1>2. e \in Endpoint /\ Sound(e) /\ n \in Nat /\ QueueExact(e)
      /\ e.outgoingMsgId \in Nat /\ e.outgoingAckId \in Nat /\ e.incomingMsgId \in Nat
      /\ (p = "client" => ClientInv(e, phase))
  BY SideBefore DEF Endpoint
<1>3. PICK e1 \in {a, b} :
        /\ ep' = [ep EXCEPT ![p] = e1]
        /\ p # "client" => phase' = phase
        /\ \/ /\ phase' = phase
              /\ e.outgoingMsgId <= e.outgoingAckId \/ e.isReconnecting
           \/ p = "client" => phase' = IF phase = "Connected" THEN "Reconnecting" ELSE phase
  <2>1. CASE RecvAckTimerDone(p)
    BY <2>1 DEF RecvAckTimerDone
  <2>2. CASE SocketTimeout(p)
    BY <2>2 DEF SocketTimeout, OnSocketTimeout
  <2>3. CASE SocketClose(p)
    BY <2>3 DEF SocketClose
  <2>4. QED  BY <2>1, <2>2, <2>3
<1>4. e1 \in Endpoint
  <2>1. a \in Endpoint
    BY <1>2 DEF Endpoint
  <2>2. b \in Endpoint
    BY <1>2 DEF Endpoint
  <2>3. QED  BY <2>1, <2>2
<1>5. /\ e1.socket = e.socket /\ e1.incomingMsgId = e.incomingMsgId
      /\ e1.incomingAckId = e.incomingAckId /\ e1.incomingAckTimeout = e.incomingAckTimeout
      /\ e1.writerData = e.writerData /\ e1.writeNowTimeout = e.writeNowTimeout
      /\ e1.outgoingMsgId = e.outgoingMsgId /\ e1.outgoingUnackMsg = e.outgoingUnackMsg
      /\ e1.isReconnecting = e.isReconnecting /\ e1.isPaused = e.isPaused
      /\ e1.controlBuffer = e.controlBuffer
  BY <1>2 DEF Endpoint
<1> HIDE DEF e, n, a, b
<1>6. Sound(e1)
  BY <1>2, <1>5 DEF Sound, Timers, QueueRegular
<1>7. GoesOn(e, e1, n)
  BY <1>2, <1>4, <1>5, <1>6, NothingWritten
<1>8. StaysOut(e, e1)
  BY <1>5, ModeStaysOut
<1>9. ASSUME p = "client" PROVE ClientInv(e1, phase')
  <2>1. CASE phase' = IF phase = "Connected" THEN "Reconnecting" ELSE phase
    BY <1>2, <1>5, <1>9, <2>1, LoopBegins
  <2>2. CASE phase' = phase /\ (e.outgoingMsgId <= e.outgoingAckId \/ e.isReconnecting)
    <3>1. e.outgoingMsgId <= e.outgoingAckId => e.outgoingUnackMsg = <<>>
      <4>1. e.outgoingUnackMsg \in Seq(ProtocolMessage)
        BY <1>2 DEF Endpoint
      <4>2. QED  BY <1>2, <4>1 DEF QueueExact
    <3>2. QED  BY <1>2, <1>5, <1>9, <2>2, <3>1 DEF ClientInv
  <2>3. QED  BY <1>3, <1>9, <2>1, <2>2
<1>10. QED  BY <1>1, <1>3, <1>7, <1>8, <1>9, EndpointGoesOn DEF e, n

\* The timer of the ProtocolWriter.
LEMMA WriteNowRe ==
    ASSUME IInv, ReInv, NEW p \in Side, WriteNow(p)
    PROVE  ReInv'
<1> DEFINE e == ep[p]
           n == ep[Peer(p)].incomingMsgId
           k == e.socket
<1>1. /\ UNCHANGED <<phase, handshake, open, numSockets, budget>>
      /\ ep' = [ep EXCEPT ![p].writeNowTimeout = FALSE,
                          ![p].writerData = IF ep[p].isPaused THEN @ ELSE <<>>]
      /\ chan' = Puts(chan, open, k, p, Written(e))
  BY DEF WriteNow, Put, Puts
<1>2. e \in Endpoint /\ Sound(e) /\ n \in Nat /\ k \in Socket /\ e.incomingMsgId \in Nat
      /\ e.writerData \in Seq(ProtocolMessage)
      /\ (p = "client" => ClientInv(e, phase))
  BY SideBefore DEF Endpoint
<1>3. /\ ep \in Ends /\ chan \in Sockets /\ open \in [Socket -> BOOLEAN] /\ numSockets \in Nat
      /\ \A q \in Side : Sound(ep[q])
      /\ ClientInv(ep["client"], phase)
      /\ SocketsInv(ep, chan, handshake, numSockets)
      /\ budget["losses"] <= MaxLoss
      /\ budget["losses"] = MaxLoss => StreamInv(ep, chan, open, handshake)
  BY Before
<1>4. CASE e.isPaused
  <2> DEFINE e1 == [e EXCEPT !.writeNowTimeout = FALSE]
  <2>1. ep' = [ep EXCEPT ![p] = e1]
    BY <1>1, <1>2, <1>3, <1>4 DEF Ends, Endpoint
  <2>2. chan' = chan
    BY <1>1, <1>2, <1>3, <1>4, PutsNothing DEF Written
  <2>3. e1 \in Endpoint
    BY <1>2 DEF Endpoint
  <2>4. /\ e1.socket = e.socket /\ e1.incomingMsgId = e.incomingMsgId
        /\ e1.incomingAckId = e.incomingAckId /\ e1.incomingAckTimeout = e.incomingAckTimeout
        /\ e1.writerData = e.writerData
        /\ e1.outgoingMsgId = e.outgoingMsgId /\ e1.outgoingUnackMsg = e.outgoingUnackMsg
        /\ e1.isReconnecting = e.isReconnecting /\ e1.isPaused = e.isPaused
        /\ e1.controlBuffer = e.controlBuffer
        /\ e1.outgoingAckTimeout = e.outgoingAckTimeout
    BY <1>2 DEF Endpoint
  <2> HIDE DEF e, n, k, e1
  <2>5. Sound(e1)
    BY <1>2, <1>4, <2>4 DEF Sound, Timers, QueueRegular
  <2>6. GoesOn(e, e1, n)
    BY <1>2, <2>3, <2>4, <2>5, NothingWritten
  <2>7. StaysOut(e, e1)
    BY <2>4, ModeStaysOut
  <2>8. p = "client" => ClientInv(e1, phase')
    BY <1>1, <1>2, <2>4, ClientStays DEF SameCheck
  <2>9. QED  BY <1>1, <2>1, <2>2, <2>6, <2>7, <2>8, EndpointGoesOn DEF e, n
<1>5. CASE ~e.isPaused
  <2> DEFINE e1 == [e EXCEPT !.writeNowTimeout = FALSE, !.writerData = <<>>]
  <2>1. ep' = [ep EXCEPT ![p] = e1]
    BY <1>1, <1>2, <1>3, <1>5 DEF Ends, Endpoint
  <2>2. chan' = Puts(chan, open, k, p, e.writerData)
    BY <1>1, <1>5 DEF Written
  <2>3. e1 \in Endpoint
    <3>1. <<>> \in Seq(ProtocolMessage)
      OBVIOUS
    <3>2. QED  BY <1>2, <3>1 DEF Endpoint
  <2>4. /\ e1.socket = e.socket /\ e1.incomingMsgId = e.incomingMsgId
        /\ e1.incomingAckId = e.incomingAckId /\ e1.incomingAckTimeout = e.incomingAckTimeout
        /\ e1.writerData = <<>>
        /\ e1.outgoingMsgId = e.outgoingMsgId /\ e1.outgoingUnackMsg = e.outgoingUnackMsg
        /\ e1.isReconnecting = e.isReconnecting
        /\ e1.controlBuffer = e.controlBuffer
        /\ e1.outgoingAckTimeout = e.outgoingAckTimeout
    BY <1>2 DEF Endpoint
  <2> HIDE DEF e1
  <2>5. Sound(e1)
    BY <1>2, <2>4 DEF Sound, Timers, QueueRegular
  <2>6. p = "server" => handshake[ep[p].socket] = "Done"
    BY <1>3 DEF SocketsInv
  <2>7. budget["losses"] = MaxLoss => StreamInv(ep', chan', open', handshake')
    <3>1. ASSUME budget["losses"] = MaxLoss
          PROVE  StreamInv([ep EXCEPT ![p] = e1],
                           Puts(chan, open, ep[p].socket, p, ep[p].writerData), open, handshake)
      BY <1>3, <1>5, <2>3, <2>4, <2>6, <3>1, StreamFlushes
    <3>2. QED  BY <1>1, <2>1, <2>2, <3>1
  <2>8. ep'[p] = e1 /\ ep'[Peer(p)] = ep[Peer(p)] /\ \A q \in Side : q = p \/ q = Peer(p)
    BY <1>3, <2>1, PeerFacts DEF Ends
  <2>9. ClientInv(ep'["client"], phase')
    <3>1. p = "client" => ClientInv(e1, phase)
      BY <1>2, <2>4, ClientStays DEF SameCheck
    <3>2. QED  BY <1>1, <1>3, <2>8, <3>1, SideFacts
  <2>10. SocketsInv(ep', chan', handshake', numSockets')
    <3>1. \A l \in Socket : l > numSockets => chan'[l] = chan[l]
      <4>1. k <= numSockets
        BY <1>3, Existing
      <4>2. \A l \in Socket : l # k => chan'[l] = chan[l]
        BY <1>2, <1>3, <2>2, PutsFacts
      <4>3. k \in Nat /\ \A l \in Socket : l \in Nat
        BY <1>2 DEF Socket
      <4>4. QED  BY <1>3, <4>1, <4>2, <4>3
    <3>2. \A q \in Side : ep'[q].socket = ep[q].socket
      BY <2>4, <2>8
    <3>3. handshake[ep["server"].socket] = "Done"
      BY <1>3 DEF SocketsInv
    <3>4. /\ handshake'[ep["server"].socket] = "Done" /\ numSockets' = numSockets
          /\ \A l \in Socket : l > numSockets =>
                handshake'[l] = handshake[l] /\ chan'[l] = chan[l]
      BY <1>1, <3>1, <3>3
    <3>5. SocketsInv(ep', chan', handshake', numSockets)
      BY <1>3, <3>2, <3>4, SocketsStay
    <3>6. QED  BY <3>4, <3>5
  <2>11. \A q \in Side : Sound(ep'[q])
    BY <1>3, <2>5, <2>8
  <2>12. QED  BY <1>1, <1>3, <2>7, <2>9, <2>10, <2>11, ReInvPrime
<1>6. QED  BY <1>4, <1>5

\* A reader takes one message from its socket and goes on.
LEMMA ReaderGoesOn ==
    ASSUME IInv, ReInv, NEW p \in Side, CanRead(p), NEW e1,
           GoesOn(ep[p], e1, ep[Peer(p)].incomingMsgId),
           p = "client" /\ handshake[ep[p].socket] # "Done" /\ NoLoss => StaysOut(ep[p], e1),
           NoLoss /\ Head(Incoming(p)).type = "Regular" =>
              Head(Incoming(p)).id <= e1.incomingMsgId,
           p = "client" /\ Head(Incoming(p)).type = "Pause" => e1.isPaused,
           ep' = [ep EXCEPT ![p] = e1],
           Consume(ep[p].socket, Peer(p)),
           UNCHANGED <<handshake, open, numSockets, budget>>,
           IF p = "client" THEN ClientInv(e1, phase') ELSE phase' = phase
    PROVE  ReInv'
<1> DEFINE k == ep[p].socket
           q == Peer(p)
           F == [ep EXCEPT ![p] = e1]
<1>1. /\ ep \in Ends /\ chan \in Sockets /\ numSockets \in Nat
      /\ \A r \in Side : Sound(ep[r])
      /\ ClientInv(ep["client"], phase)
      /\ SocketsInv(ep, chan, handshake, numSockets)
      /\ budget["losses"] <= MaxLoss
      /\ budget["losses"] = MaxLoss => StreamInv(ep, chan, open, handshake)
  BY Before
<1>2. q \in Side /\ Peer(q) = p /\ q # p /\ \A r \in Side : r = p \/ r = q
  BY PeerFacts
<1>3. k \in Socket /\ k <= numSockets
  BY <1>1, Existing
<1>4. F[p] = e1 /\ F[q] = ep[q]
  BY <1>1, <1>2 DEF Ends
<1>5. Sound(e1) /\ e1.socket = ep[p].socket /\ e1 \in Endpoint
  BY DEF GoesOn
<1>6. F \in Ends
  BY <1>1, <1>5 DEF Ends
<1>7. /\ chan' = [chan EXCEPT ![k][q] = Tail(@)] /\ ep' = F
      /\ chan[k][q] # <<>> /\ Incoming(p) = chan[k][q]
  BY DEF Consume, CanRead, Incoming
<1> HIDE DEF F, k, q
<1>8. ClientInv(ep'["client"], phase')
  BY <1>1, <1>2, <1>4, <1>7, SideFacts
<1>9. \A r \in Side : Sound(ep'[r]) /\ ep'[r].socket = ep[r].socket
  BY <1>1, <1>2, <1>4, <1>5, <1>7
<1>10. SocketsInv(ep', chan', handshake', numSockets')
  <2>1. \A l \in Socket : l # k => chan'[l] = chan[l]
    BY <1>1, <1>7 DEF Sockets
  <2>2. k \in Nat /\ \A l \in Socket : l \in Nat
    BY <1>3 DEF Socket
  <2>3. \A l \in Socket : l > numSockets => chan'[l] = chan[l]
    <3> SUFFICES ASSUME NEW l \in Socket, l > numSockets PROVE l # k
      BY <2>1
    <3>1. numSockets \in Nat
      BY <1>1
    <3>2. QED  BY <1>3, <2>2, <3>1
  <2>4. handshake[ep["server"].socket] = "Done"
    BY <1>1 DEF SocketsInv
  <2>5. /\ handshake'[ep["server"].socket] = "Done" /\ numSockets' = numSockets
        /\ \A l \in Socket : l > numSockets =>
              handshake'[l] = handshake[l] /\ chan'[l] = chan[l]
    BY <2>3, <2>4
  <2>6. SocketsInv(ep', chan', handshake', numSockets)
    <3>1. ep \in Ends /\ numSockets \in Nat /\ SocketsInv(ep, chan, handshake, numSockets)
      BY <1>1
    <3>2. \A r \in Side : ep'[r].socket = ep[r].socket
      BY <1>9
    <3>3. QED  BY ONLY <2>5, <3>1, <3>2, SocketsStay
  <2>7. QED  BY <2>5, <2>6
<1>11. ASSUME budget["losses"] = MaxLoss PROVE StreamInv(ep', chan', open', handshake')
  <2>1. NoLoss
    BY <1>11 DEF NoLoss
  <2>2. StreamInv(F, chan, open, handshake)
    BY <1>1, <1>11, <2>1, StreamGrows DEF F
  <2>3. Head(chan[k][q]).type = "Regular" => Head(chan[k][q]).id <= F[Peer(q)].incomingMsgId
    BY <1>2, <1>4, <1>7, <2>1
  <2>4. q = "server" => F["client"].isPaused \/ Head(chan[k][q]).type # "Pause"
    BY <1>2, <1>4, <1>7, SideFacts
  <2>5. StreamInv(F, [chan EXCEPT ![k][q] = Tail(@)], open, handshake)
    BY <1>1, <1>2, <1>3, <1>6, <1>7, <2>2, <2>3, <2>4, StreamConsumes
  <2>6. QED  BY <1>7, <2>5
<1>12. QED  BY <1>1, <1>8, <1>9, <1>10, <1>11, ReInvPrime

\* _receiveMessage
LEMMA ReadRe ==
    ASSUME IInv, ReInv, NEW p \in Side, NEW ask \in BOOLEAN, Read(p, ask)
    PROVE  ReInv'
<1> DEFINE e   == ep[p]
           f   == ep[Peer(p)]
           msg == Head(Incoming(p))
           e1  == ReceiveMessage(e, msg, ask)
           k   == e.socket
           s   == chan[k][Peer(p)]
<1>1. /\ CanRead(p) /\ msg.type # "Control" /\ ep' = [ep EXCEPT ![p] = e1]
      /\ Consume(ep[p].socket, Peer(p))
      /\ UNCHANGED <<phase, handshake, open, numSockets, budget>>
  BY DEF Read
<1>2. /\ e \in Endpoint /\ f \in Endpoint /\ Sound(e) /\ k \in Socket /\ Peer(p) \in Side
      /\ EndpointInv(e, f) /\ EndpointInv(f, e) /\ e.incomingMsgId \in Nat
      /\ (p = "client" => ClientInv(e, phase))
  BY SideBefore DEF Endpoint
<1>3. s \in Seq(ProtocolMessage) /\ s # <<>> /\ msg = Head(s)
  BY <1>1, <1>2, Before, SocketTypes DEF CanRead, Incoming
<1>4. msg \in ProtocolMessage /\ msg = s[1] /\ 1 \in 1..Len(s)
  BY <1>3, TailOf
<1>5. Good(f, msg)
  BY <1>2, <1>4 DEF IInv, ChanOK, AllGood
<1>6. NoLoss => Chain(s, e.incomingMsgId)
  BY Before DEF NoLoss, StreamInv, FeedInv, Fed
<1>7. NoLoss /\ p = "client" /\ handshake[k] # "Done" => Handshakes(s)
  BY <1>2, Before, SideFacts DEF NoLoss, StreamInv, AdoptInv
<1> HIDE DEF msg, s, k, e, f
<1>8. /\ GoesOn(e, e1, f.incomingMsgId) /\ SameCheck(e, e1)
      /\ e1.isReconnecting = e.isReconnecting
      /\ e1.controlBuffer = e.controlBuffer
      /\ msg.type = "Pause" => e1.isPaused
      /\ msg.type = "Regular" /\ msg.id <= e.incomingMsgId + 1 => msg.id <= e1.incomingMsgId
  BY <1>2, <1>4, <1>5, ReceiveMessageGoesOn
<1> HIDE DEF e1
<1>9. NoLoss /\ p = "client" /\ handshake[k] # "Done" => StaysOut(e, e1)
  BY <1>1, <1>4, <1>7, <1>8 DEF Handshakes, StaysOut
<1>10. NoLoss /\ msg.type = "Regular" => msg.id <= e1.incomingMsgId
  <2>1. NoLoss /\ msg.type = "Regular" => msg.id <= e.incomingMsgId + 1
    BY <1>4, <1>6 DEF Chain
  <2>2. QED  BY <1>8, <2>1
<1>11. p = "client" => ClientInv(e1, phase')
  BY <1>1, <1>2, <1>8, ClientStays
<1>12. QED  BY <1>1, <1>8, <1>9, <1>10, <1>11, ReaderGoesOn DEF e, f, msg, k

-----------------------------------------------------------------------------
(* The client's attempts *)

\* What the client has read so far.
LEMMA ClientBefore ==
    ASSUME IInv, ReInv, ReadControl
    PROVE  LET e == ep["client"]
               s == chan[e.socket]["server"]
           IN  /\ e \in Endpoint /\ ep["server"] \in Endpoint /\ Sound(e)
               /\ EndpointInv(e, ep["server"]) /\ ep["server"].incomingMsgId \in Nat
               /\ e.incomingMsgId \in Nat
               /\ ClientInv(e, phase) /\ e.socket \in Socket
               /\ s \in Seq(ProtocolMessage) /\ s # <<>> /\ Head(s).type = "Control"
               /\ Incoming("client") = s /\ Head(s) \in ProtocolMessage
               /\ e.controlBuffer \in Seq(Data \cup ControlData \cup {NoData})
               /\ ControlQueue \in Seq(Data \cup ControlData \cup {NoData})
               /\ ControlQueue # <<>>
               /\ e.controlBuffer = <<>> => ControlQueue = <<Head(s).data>>
<1> DEFINE e == ep["client"]
           s == chan[e.socket]["server"]
<1>1. "client" \in Side /\ Peer("client") = "server" /\ "server" \in Side
  BY SideFacts
<1>2. /\ e \in Endpoint /\ ep["server"] \in Endpoint /\ Sound(e)
      /\ EndpointInv(e, ep["server"]) /\ ep["server"].incomingMsgId \in Nat
      /\ ClientInv(e, phase) /\ e.socket \in Socket
  BY <1>1, SideBefore
<1>3. s \in Seq(ProtocolMessage)
  BY <1>1, <1>2, Before, SocketTypes
<1>4. Incoming("client") = s
  BY <1>1 DEF Incoming
<1>5. s # <<>> /\ Head(s).type = "Control"
  BY <1>4 DEF ReadControl, CanRead
<1>6. /\ e.controlBuffer \in Seq(Data \cup ControlData \cup {NoData}) /\ e.incomingMsgId \in Nat
  BY <1>2 DEF Endpoint
<1>7. ControlQueue = Append(e.controlBuffer, Head(s).data)
  BY <1>4 DEF ControlQueue
<1> HIDE DEF s, e
<1>8. Head(s) \in ProtocolMessage
  BY <1>3, <1>5
<1>9. Head(s).data \in Data \cup ControlData \cup {NoData}
  BY <1>8 DEF ProtocolMessage
<1>10. /\ ControlQueue \in Seq(Data \cup ControlData \cup {NoData}) /\ ControlQueue # <<>>
       /\ e.controlBuffer = <<>> => ControlQueue = <<Head(s).data>>
  <2> DEFINE T == Data \cup ControlData \cup {NoData}
             x == Head(s).data
             b == e.controlBuffer
  <2>1. b \in Seq(T) /\ x \in T
    BY <1>6, <1>9
  <2>2. ControlQueue = Append(b, x)
    BY <1>7
  <2> HIDE DEF T, x, b
  <2>3. ControlQueue \in Seq(T) /\ ControlQueue # <<>>
    BY <2>1, <2>2
  <2>4. b = <<>> => ControlQueue = <<x>>
    BY <2>2
  <2>5. QED  BY <2>3, <2>4 DEF T, x, b
<1>11. QED  BY <1>2, <1>3, <1>4, <1>5, <1>6, <1>8, <1>10 DEF s, e

\* Taking over the rest of the buffered control messages.
LEMMA ControlBuffered ==
    ASSUME NEW e \in Endpoint, Sound(e), NEW n, 
           NEW b \in Seq(Data \cup ControlData \cup {NoData})
    PROVE  LET a == [e EXCEPT !.controlBuffer = b]
           IN  /\ GoesOn(e, a, n) /\ a.controlBuffer = b /\ SameCheck(e, a)
               /\ a.isReconnecting = e.isReconnecting /\ a.isPaused = e.isPaused
               /\ a.writerData = e.writerData
<1> DEFINE a == [e EXCEPT !.controlBuffer = b]
<1>1. a \in Endpoint /\ e.incomingMsgId \in Nat
  BY DEF Endpoint
<1>2. /\ a.socket = e.socket /\ a.incomingMsgId = e.incomingMsgId
      /\ a.incomingAckId = e.incomingAckId /\ a.incomingAckTimeout = e.incomingAckTimeout
      /\ a.writerData = e.writerData /\ a.writeNowTimeout = e.writeNowTimeout
      /\ a.outgoingMsgId = e.outgoingMsgId /\ a.outgoingUnackMsg = e.outgoingUnackMsg
      /\ a.isReconnecting = e.isReconnecting /\ a.isPaused = e.isPaused
      /\ a.controlBuffer = b /\ a.outgoingAckTimeout = e.outgoingAckTimeout
  BY DEF Endpoint
<1> HIDE DEF a
<1>3. Sound(a)
  BY <1>2 DEF Sound, Timers, QueueRegular
<1>4. GoesOn(e, a, n)
  BY <1>1, <1>2, <1>3, NothingWritten
<1>5. QED  BY <1>2, <1>4 DEF SameCheck, a

\* The client reads a control message and goes on.
LEMMA ControlRead ==
    ASSUME IInv, ReInv, ReadControl, NEW e1,
           GoesOn(ep["client"], e1, ep["server"].incomingMsgId),
           handshake[ep["client"].socket] # "Done" /\ NoLoss => StaysOut(ep["client"], e1),
           ep' = [ep EXCEPT !["client"] = e1],
           ClientInv(e1, phase')
    PROVE  ReInv'
<1>1. Head(Incoming("client")).type = "Control" /\ CanRead("client")
      /\ Consume(ep["client"].socket, "server")
      /\ UNCHANGED <<handshake, open, numSockets, budget>>
  BY DEF ReadControl
<1>2. "client" \in Side /\ Peer("client") = "server"
  BY SideFacts
<1>3. QED  BY <1>1, <1>2, ReaderGoesOn

\* The server's sign request.
LEMMA ReadSignRe ==
    ASSUME IInv, ReInv, ReadSign
    PROVE  ReInv'
<1> DEFINE e  == ep["client"]
           n  == ep["server"].incomingMsgId
           b  == Tail(ControlQueue)
           a  == [e EXCEPT !.controlBuffer = b]
           m  == ControlMessage("connectionType")
           e1 == Write(a, m)
<1>1. ReadControl /\ phase = "AwaitSign" /\ phase' = "AwaitFirst"
      /\ ep' = [ep EXCEPT !["client"] = e1]
  BY DEF ReadSign
<1>2. e \in Endpoint /\ Sound(e) /\ n \in Nat /\ ClientInv(e, phase)
  BY <1>1, ClientBefore
<1>3. b = <<>>
  <2> DEFINE x == Head(chan[e.socket]["server"]).data
  <2>1. e.controlBuffer = <<>> => ControlQueue = <<x>>
    BY <1>1, ClientBefore
  <2>2. e.controlBuffer = <<>>
    BY <1>1, <1>2 DEF ClientInv
  <2> HIDE DEF x
  <2>3. ControlQueue = <<x>>
    BY <2>1, <2>2
  <2>4. QED  BY <2>3
<1> HIDE DEF e, n, b
<1>4. b \in Seq(Data \cup ControlData \cup {NoData})
  BY <1>3
<1>5. /\ GoesOn(e, a, n) /\ a.controlBuffer = b
      /\ a.isReconnecting = e.isReconnecting /\ a.isPaused = e.isPaused
      /\ a.writerData = e.writerData
  BY <1>2, <1>4, ControlBuffered
<1>6. m \in ProtocolMessage /\ m.type # "Regular"
  BY BareMessage DEF ControlMessage, ControlData, MessageType
<1> HIDE DEF a, m
<1>7. /\ GoesOn(a, e1, n) /\ SameMode(a, e1)
      /\ NoRegular(a.writerData) => NoRegular(e1.writerData)
  BY <1>2, <1>5, <1>6, WriteOne DEF GoesOn
<1> HIDE DEF e1
<1>8. GoesOn(e, e1, n)
  BY <1>2, <1>5, <1>7, GoesOnTwice
<1>9. StaysOut(e, e1)
  BY <1>5, <1>7, ModeStaysOut DEF SameMode
<1>10. ClientInv(e1, phase')
  BY <1>1, <1>3, <1>5, <1>7 DEF ClientInv, SameMode
<1>11. QED  BY <1>1, <1>8, <1>9, <1>10, ControlRead DEF e, n

\* The first message: as long as the server has not accepted the socket it
\* comes behind a Pause, so the client writes nothing yet.
LEMMA ReadFirstRe ==
    ASSUME IInv, ReInv, ReadFirst
    PROVE  ReInv'
<1> DEFINE e  == ep["client"]
           f  == ep["server"]
           n  == f.incomingMsgId
           b  == Tail(ControlQueue)
           a  == [e EXCEPT !.controlBuffer = b]
           e1 == EndAcceptReconnection(a)
           s  == chan[e.socket]["server"]
<1>1. ReadControl /\ phase = "AwaitFirst" /\ phase' = "Connected"
      /\ Head(ControlQueue) = "first"
      /\ ep' = [ep EXCEPT !["client"] = e1]
  BY DEF ReadFirst
<1>2. /\ e \in Endpoint /\ f \in Endpoint /\ Sound(e) /\ n \in Nat /\ ClientInv(e, phase)
      /\ EndpointInv(e, f) /\ e.socket \in Socket
      /\ s \in Seq(ProtocolMessage) /\ s # <<>> /\ Head(s).type = "Control"
  BY <1>1, ClientBefore
<1>3. b = <<>> /\ Head(s).data = "first"
  <2>1. e.controlBuffer = <<>> => ControlQueue = <<Head(s).data>>
    BY <1>1, ClientBefore
  <2>2. e.controlBuffer = <<>>
    BY <1>1, <1>2 DEF ClientInv
  <2>3. ControlQueue = <<Head(s).data>>
    BY <2>1, <2>2
  <2> HIDE DEF s
  <2>4. Head(ControlQueue) = Head(s).data /\ b = <<>>
    BY <2>3
  <2>5. QED  BY <1>1, <2>4
<1>4. b \in Seq(Data \cup ControlData \cup {NoData})
  <2> HIDE DEF b
  <2>1. QED  BY <1>3
<1>5. handshake[e.socket] # "Done" /\ NoLoss => e.isPaused
  <2> SUFFICES ASSUME handshake[e.socket] # "Done", NoLoss, ~e.isPaused
               PROVE  FALSE
    OBVIOUS
  <2>1. Guarded(s)
    BY <1>2, Before DEF NoLoss, StreamInv, AdoptInv
  <2>2. s[1] = Head(s) /\ 1 \in 1..Len(s)
    BY <1>2, TailOf
  <2>3. \E j \in 1..(1 - 1) : s[j].type = "Pause"
    BY <1>2, <1>3, <2>1, <2>2 DEF Guarded
  <2>4. QED  BY <2>3
<1> HIDE DEF e, f, b, s
<1>6. /\ GoesOn(e, a, n) /\ a.controlBuffer = b
      /\ a.isReconnecting = e.isReconnecting /\ a.isPaused = e.isPaused
      /\ a.writerData = e.writerData
  BY <1>2, <1>4, ControlBuffered
<1>7. EndpointInv(a, f)
  <2>1. a \in Endpoint
    BY <1>6 DEF GoesOn
  <2>2. /\ a.sent = e.sent /\ a.delivered = e.delivered
        /\ a.incomingMsgId = e.incomingMsgId /\ a.outgoingMsgId = e.outgoingMsgId
        /\ a.outgoingAckId = e.outgoingAckId /\ a.outgoingUnackMsg = e.outgoingUnackMsg
    BY <1>2 DEF Endpoint
  <2>3. AllGood(e, a.writerData)
    BY <1>2, <1>6 DEF EndpointInv
  <2> HIDE DEF a
  <2>4. Quiet(e, a, f)
    BY <1>2, <2>1, <2>2, <2>3, SameStream
  <2>5. QED  BY <2>4 DEF Quiet, Kept
<1> HIDE DEF a
<1>8. /\ GoesOn(a, e1, n) /\ e1.isPaused = a.isPaused /\ ~e1.isReconnecting
      /\ e1.controlBuffer = a.controlBuffer
      /\ e1.outgoingUnackMsg # <<>> => e1.outgoingAckTimeout
  BY <1>2, <1>6, <1>7, EndAcceptReconnectionGoesOn DEF GoesOn
<1> HIDE DEF e1, n
<1>9. GoesOn(e, e1, n)
  BY <1>2, <1>6, <1>8, GoesOnTwice
<1>10. handshake[e.socket] # "Done" /\ NoLoss => StaysOut(e, e1)
  BY <1>5, <1>6, <1>8 DEF StaysOut
<1>11. ClientInv(e1, phase')
  BY <1>1, <1>8 DEF ClientInv
<1>12. QED  BY <1>1, <1>9, <1>10, <1>11, ControlRead DEF e, f, n

\* A control message without a listener.
LEMMA BufferControlRe ==
    ASSUME IInv, ReInv, BufferControl
    PROVE  ReInv'
<1> DEFINE e  == ep["client"]
           n  == ep["server"].incomingMsgId
           b  == ControlQueue
           a  == [e EXCEPT !.controlBuffer = b]
<1>1. ReadControl /\ phase \in {"Connected", "Reconnecting"} /\ phase' = phase
  BY DEF BufferControl
<1>2. ep' = [ep EXCEPT !["client"] = a]
  BY DEF BufferControl
<1>3. e \in Endpoint /\ Sound(e) /\ n \in Nat /\ ClientInv(e, phase)
      /\ b \in Seq(Data \cup ControlData \cup {NoData})
  BY <1>1, ClientBefore
<1> HIDE DEF e, n, b
<1>4. /\ GoesOn(e, a, n) /\ SameCheck(e, a)
      /\ a.isReconnecting = e.isReconnecting /\ a.isPaused = e.isPaused
      /\ a.writerData = e.writerData
  BY <1>3, ControlBuffered
<1> HIDE DEF a
<1>5. StaysOut(e, a)
  BY <1>4, ModeStaysOut
<1>6. ClientInv(a, phase')
  BY <1>1, <1>3, <1>4 DEF ClientInv, SameCheck
<1>7. QED  BY <1>1, <1>2, <1>4, <1>5, <1>6, ControlRead DEF e, n

\* A socket has been created for the next attempt.
LEMMA BeginAttemptRe ==
    ASSUME IInv, ReInv, BeginAttempt
    PROVE  ReInv'
<1> DEFINE k  == numSockets + 1
           e  == ep["client"]
           j  == e.socket
           a  == BeginAcceptReconnection(e, k)
           m  == ControlMessage("auth")
           e1 == Write(a, m)
<1>1. /\ k \in Socket /\ numSockets' = k /\ phase' = "AwaitSign" /\ budget' = budget
      /\ chan' = Puts(chan, open, j, "client", Written(e))
      /\ handshake' = [handshake EXCEPT ![k] = "WaitingForAuth"]
      /\ ep' = [ep EXCEPT !["client"] = e1]
  BY DEF BeginAttempt, Put, Puts
<1>2. /\ ep \in Ends /\ chan \in Sockets /\ open \in [Socket -> BOOLEAN] /\ numSockets \in Nat
      /\ \A q \in Side : Sound(ep[q])
      /\ SocketsInv(ep, chan, handshake, numSockets)
      /\ budget["losses"] <= MaxLoss
      /\ budget["losses"] = MaxLoss => StreamInv(ep, chan, open, handshake)
  BY Before
<1>3. /\ "client" \in Side /\ "server" \in Side /\ Peer("client") = "server"
      /\ \A p \in Side : p = "client" \/ p = "server"
  BY SideFacts
<1>4. e \in Endpoint /\ Sound(e) /\ j \in Socket /\ j <= numSockets
      /\ ep["server"].socket \in Socket /\ ep["server"].socket <= numSockets
  BY <1>2, <1>3, EndTypes, Existing
<1>5. Written(e) \in Seq(ProtocolMessage)
  BY <1>4 DEF Written, Endpoint
<1> HIDE DEF e, j, k
<1>6. /\ a \in Endpoint /\ Sound(a) /\ a.socket = k
      /\ a.isReconnecting /\ ~a.isPaused /\ a.writerData = <<>>
      /\ a.controlBuffer = <<>>
  BY <1>1, <1>4, BeginAcceptReconnectionFields
<1>7. m \in ProtocolMessage /\ m.type # "Regular"
  BY BareMessage DEF ControlMessage, ControlData, MessageType
<1> HIDE DEF a, m
<1>8. /\ GoesOn(a, e1, 0) /\ SameMode(a, e1)
      /\ NoRegular(a.writerData) => NoRegular(e1.writerData)
  BY <1>6, <1>7, WriteOne
<1> HIDE DEF e1
<1>9. /\ e1 \in Endpoint /\ Sound(e1) /\ e1.socket = k /\ e1.isReconnecting
      /\ e1.controlBuffer = <<>> /\ NoRegular(e1.writerData)
  BY <1>6, <1>8 DEF GoesOn, SameMode, NoRegular
<1>10. ep'["client"] = e1 /\ ep'["server"] = ep["server"]
  BY <1>1, <1>2, <1>3 DEF Ends
<1>11. handshake \in [Socket -> {"None", "WaitingForAuth",
                        "WaitingForConnectionType", "FindingPort",
                        "InTransit", "Done"}]
  BY DEF IInv, TypeOK
<1>12. /\ \A l \in Socket : l # j => chan'[l] = chan[l]
       /\ chan' \in Sockets
  BY <1>1, <1>2, <1>3, <1>4, <1>5, PutsFacts
<1>13. \A l \in Socket : l \in Nat
  BY DEF Socket
<1>14. /\ k # ep["server"].socket /\ k # j /\ k > numSockets
  BY <1>2, <1>4, <1>13 DEF k
<1>15. handshake[ep["server"].socket] = "Done"
  BY <1>2 DEF SocketsInv
<1>16. SocketsInv(ep', chan', handshake', numSockets')
  <2>1. handshake'[ep'["server"].socket] = "Done"
    BY <1>1, <1>4, <1>10, <1>11, <1>14, <1>15
  <2>2. ASSUME NEW l \in Socket, l > numSockets'
        PROVE  handshake'[l] = "None" /\ \A p \in Side : chan'[l][p] = <<>>
    <3>1. l > numSockets /\ l # k /\ l # j
      BY <1>1, <1>2, <1>4, <1>13, <2>2 DEF k
    <3>2. handshake'[l] = handshake[l] /\ chan'[l] = chan[l]
      BY <1>1, <1>11, <1>12, <3>1
    <3>3. QED  BY <1>2, <3>1, <3>2 DEF SocketsInv
  <2>3. ep'["client"].socket = numSockets'
    BY <1>1, <1>9, <1>10
  <2>4. QED  BY <2>1, <2>2, <2>3 DEF SocketsInv
<1>17. ASSUME budget["losses"] = MaxLoss PROVE StreamInv(ep', chan', open', handshake')
  <2>1. StreamInv(ep, chan, open, handshake)
    BY <1>2, <1>17
  <2>2. PICK F \in Ends :
           /\ StreamInv(F, Puts(chan, open, ep["client"].socket, "client", Written(ep["client"])),
                        open, handshake)
           /\ F["server"] = ep["server"]
           /\ \A e2 : [F EXCEPT !["client"] = e2] = [ep EXCEPT !["client"] = e2]
    BY <1>2, <1>3, <2>1, StreamLeaves
  <2>3. StreamInv(F, chan', open, handshake) /\ ep' = [F EXCEPT !["client"] = e1]
    BY <1>1, <2>2 DEF e, j
  <2>4. \A p \in Side : chan'[k][p] = <<>>
    BY <1>1, <1>2, <1>12, <1>14 DEF SocketsInv
  <2>5. handshake'[k] # "Done"
    BY <1>1, <1>11
  <2>6. \A l \in Socket : l # k => (handshake'[l] = "Done" <=> handshake[l] = "Done")
    BY <1>1, <1>11
  <2>7. k # F["server"].socket /\ handshake[F["server"].socket] = "Done"
    BY <1>14, <1>15, <2>2
  <2>8. StreamInv([F EXCEPT !["client"] = e1], chan', open', handshake')
    <3>1. StreamInv(F, chan', open, handshake) /\ chan' \in Sockets /\ k \in Socket
      BY <1>1, <1>12, <2>3
    <3>2. /\ e1 \in Endpoint /\ e1.socket = k /\ e1.isReconnecting /\ NoRegular(e1.writerData)
      BY <1>9
    <3>3. QED  BY ONLY F \in Ends, <3>1, <3>2, <2>4, <2>5, <2>6, <2>7, ClientMoves
  <2>9. QED  BY <2>3, <2>8
<1>18. ClientInv(ep'["client"], phase')
  BY <1>1, <1>9, <1>10 DEF ClientInv
<1>19. \A q \in Side : Sound(ep'[q])
  BY <1>2, <1>3, <1>9, <1>10
<1>20. QED  BY <1>1, <1>2, <1>16, <1>17, <1>18, <1>19, ReInvPrime

\* The attempt times out.
LEMMA AttemptTimeoutRe ==
    ASSUME IInv, ReInv, AttemptTimeout
    PROVE  ReInv'
<1>1. /\ phase' = "Reconnecting" /\ UNCHANGED <<ep, handshake, chan, open, numSockets>>
      /\ budget'["losses"] = budget["losses"]
  BY NoLossSpent DEF AttemptTimeout
<1>2. ClientInv(ep'["client"], phase')
  BY <1>1 DEF ClientInv
<1>3. QED  BY <1>1, <1>2, Before, ReInvPrime

-----------------------------------------------------------------------------
(* The server's handshakes *)

\* A socket with a handshake that goes on is not the server's.
LEMMA SocketBefore ==
    ASSUME IInv, ReInv, NEW k \in Socket, handshake[k] \notin {"None", "Done"}
    PROVE  k <= numSockets /\ ep["server"].socket # k
<1>1. ep \in Ends /\ numSockets \in Nat /\ SocketsInv(ep, chan, handshake, numSockets)
  BY Before
<1>2. k <= numSockets
  BY <1>1, Existing
<1>3. QED  BY <1>1, <1>2 DEF SocketsInv

\* Only socket k changes.
LEMMA HandshakeGoesOn ==
    ASSUME IInv, ReInv, NEW k \in Socket, k <= numSockets,
           UNCHANGED <<ep, phase, numSockets>>, budget'["losses"] = budget["losses"],
           \A l \in Socket : l # k => chan'[l] = chan[l] /\ handshake'[l] = handshake[l],
           handshake[k] = "Done" => handshake'[k] = "Done",
           budget["losses"] = MaxLoss => StreamInv(ep, chan', open', handshake')
    PROVE  ReInv'
<1>1. /\ ep \in Ends /\ numSockets \in Nat /\ budget["losses"] <= MaxLoss
      /\ SocketsInv(ep, chan, handshake, numSockets)
      /\ ClientInv(ep["client"], phase) /\ \A q \in Side : Sound(ep[q])
  BY Before
<1>2. \A l \in Socket : l > numSockets => handshake'[l] = handshake[l] /\ chan'[l] = chan[l]
  <2>1. \A l \in Socket : l \in Nat
    BY DEF Socket
  <2>2. QED  BY <1>1, <2>1
<1>3. ep["server"].socket \in Socket
  BY <1>1, EndTypes, SideFacts
<1>4. handshake'[ep["server"].socket] = "Done"
  BY <1>1, <1>3 DEF SocketsInv
<1>5. SocketsInv(ep, chan', handshake', numSockets)
  BY <1>1, <1>2, <1>4, SocketsStay
<1>6. QED  BY <1>1, <1>5, ReInvPrime

\* The temporary protocol of a handshake reads nothing of the stream.
LEMMA HandshakeReads ==
    ASSUME IInv, ReInv, NEW k \in Socket, handshake[k] # "Done", chan[k]["client"] # <<>>
    PROVE  LET d == [chan EXCEPT ![k]["client"] = Tail(@)]
           IN  /\ d \in Sockets
               /\ \A l \in Socket : l # k => d[l] = chan[l]
               /\ budget["losses"] = MaxLoss => StreamInv(ep, d, open, handshake)
<1> DEFINE d == [chan EXCEPT ![k]["client"] = Tail(@)]
           s == chan[k]["client"]
<1>1. ep \in Ends /\ chan \in Sockets /\ "client" \in Side
      /\ (budget["losses"] = MaxLoss => StreamInv(ep, chan, open, handshake))
  BY Before, SideFacts
<1>2. s \in Seq(ProtocolMessage)
  BY <1>1, SocketTypes
<1>3. Tail(s) \in Seq(ProtocolMessage) /\ Head(s) = s[1] /\ 1 \in 1..Len(s)
  BY <1>2, TailOf
<1>4. d \in Sockets /\ \A l \in Socket : l # k => d[l] = chan[l]
  BY <1>1, <1>3 DEF Sockets
<1>5. ASSUME budget["losses"] = MaxLoss PROVE StreamInv(ep, d, open, handshake)
  <2>1. StreamInv(ep, chan, open, handshake)
    BY <1>1, <1>5
  <2>2. Head(s).type # "Regular"
    BY <1>3, <2>1 DEF StreamInv, AdoptInv, NoRegular
  <2>3. QED  BY <1>1, <2>1, <2>2, StreamConsumes
<1>6. QED  BY <1>4, <1>5

\* What the temporary protocol reads besides control messages.
LEMMA SkipRe ==
    ASSUME IInv, ReInv, NEW k \in Socket, SkipMessage(k) \/ LoseInTransit(k)
    PROVE  ReInv'
<1>1. /\ handshake[k] \notin {"None", "Done"} /\ chan[k]["client"] # <<>>
      /\ chan' = [chan EXCEPT ![k]["client"] = Tail(@)]
      /\ UNCHANGED <<ep, phase, handshake, open, numSockets, budget>>
  BY DEF SkipMessage, LoseInTransit, Handshaking, Consume
<1>2. k <= numSockets
  BY <1>1, SocketBefore
<1>3. /\ \A l \in Socket : l # k => chan'[l] = chan[l]
      /\ budget["losses"] = MaxLoss => StreamInv(ep, chan', open, handshake)
  BY <1>1, HandshakeReads
<1>4. QED  BY <1>1, <1>2, <1>3, HandshakeGoesOn

\* The messages of a handshake.
LEMMA HandshakeMessages ==
    LET sign  == <<ControlMessage("sign")>>
        first == <<ControlMessage("first")>>
        pause == <<Message("Pause", 0, 0, NoData), ControlMessage("first")>>
    IN  /\ sign \in Seq(ProtocolMessage) /\ Handshakes(sign) /\ Guarded(sign)
        /\ first \in Seq(ProtocolMessage) /\ Handshakes(first)
        /\ pause \in Seq(ProtocolMessage) /\ Handshakes(pause) /\ Guarded(pause)
<1>1. /\ ControlMessage("sign") \in ProtocolMessage /\ ControlMessage("sign").type = "Control"
      /\ ControlMessage("sign").data = "sign"
  BY BareMessage DEF ControlMessage, ControlData, MessageType
<1>2. /\ ControlMessage("first") \in ProtocolMessage /\ ControlMessage("first").type = "Control"
  BY BareMessage DEF ControlMessage, ControlData, MessageType
<1>3. /\ Message("Pause", 0, 0, NoData) \in ProtocolMessage
      /\ Message("Pause", 0, 0, NoData).type = "Pause"
  BY BareMessage DEF MessageType
<1>4. QED  BY <1>1, <1>2, <1>3 DEF Handshakes, Guarded

\* The client's first message is answered with a sign request.
LEMMA ReadAuthRe ==
    ASSUME IInv, ReInv, NEW k \in Socket, ReadAuth(k)
    PROVE  ReInv'
<1> DEFINE d == [chan EXCEPT ![k]["client"] = Tail(@)]
           m == <<ControlMessage("sign")>>
<1>1. /\ handshake[k] = "WaitingForAuth" /\ chan[k]["client"] # <<>>
      /\ chan' = Puts(d, open, k, "server", m)
      /\ handshake' = [handshake EXCEPT ![k] = "WaitingForConnectionType"]
      /\ UNCHANGED <<ep, phase, open, numSockets, budget>>
  BY DEF ReadAuth, Handshaking, Put, Puts
<1>2. k <= numSockets /\ ep["server"].socket # k
  BY <1>1, SocketBefore
<1>3. /\ d \in Sockets
      /\ \A l \in Socket : l # k => d[l] = chan[l]
      /\ budget["losses"] = MaxLoss => StreamInv(ep, d, open, handshake)
  BY <1>1, HandshakeReads
<1>4. /\ ep \in Ends /\ open \in [Socket -> BOOLEAN] /\ "server" \in Side
      /\ m \in Seq(ProtocolMessage) /\ Handshakes(m) /\ Guarded(m)
  BY Before, SideFacts, HandshakeMessages
<1> HIDE DEF d, m
<1>5. \A l \in Socket : l # k => chan'[l] = d[l]
  BY <1>1, <1>3, <1>4, PutsFacts
<1>6. \A l \in Socket : /\ l # k => handshake'[l] = handshake[l]
                        /\ handshake'[l] = "Done" <=> handshake[l] = "Done"
  BY <1>1 DEF IInv, TypeOK
<1>7. ASSUME budget["losses"] = MaxLoss PROVE StreamInv(ep, chan', open', handshake')
  <2>1. StreamInv(ep, Puts(d, open, k, "server", m), open, handshake)
    BY <1>2, <1>3, <1>4, <1>7, ServerPuts
  <2>2. StreamInv(ep, chan', open, handshake) /\ open' = open
    BY <1>1, <2>1
  <2>3. QED  BY <1>4, <1>6, <2>2, StreamWeakens
<1>8. \A l \in Socket : l # k => chan'[l] = chan[l] /\ handshake'[l] = handshake[l]
  BY <1>3, <1>5, <1>6
<1>9. QED  BY <1>1, <1>2, <1>7, <1>8, HandshakeGoesOn

\* For an extension host the server first awaits a free debug port.
LEMMA FindFreePortRe ==
    ASSUME IInv, ReInv, NEW k \in Socket, FindFreePort(k)
    PROVE  ReInv'
<1>1. /\ handshake[k] = "WaitingForConnectionType" /\ chan[k]["client"] # <<>>
      /\ chan' = [chan EXCEPT ![k]["client"] = Tail(@)]
      /\ handshake' = [handshake EXCEPT ![k] = "FindingPort"]
      /\ UNCHANGED <<ep, phase, open, numSockets, budget>>
  BY DEF FindFreePort, Handshaking, Consume
<1>2. k <= numSockets
  BY <1>1, SocketBefore
<1>3. /\ \A l \in Socket : l # k => chan'[l] = chan[l]
      /\ budget["losses"] = MaxLoss => StreamInv(ep, chan', open, handshake)
  BY <1>1, HandshakeReads
<1>4. \A l \in Socket : /\ l # k => handshake'[l] = handshake[l]
                        /\ handshake'[l] = "Done" <=> handshake[l] = "Done"
  BY <1>1 DEF IInv, TypeOK
<1>5. ASSUME budget["losses"] = MaxLoss PROVE StreamInv(ep, chan', open', handshake')
  <2>1. /\ StreamInv(ep, chan', open, handshake) /\ open' = open
        /\ ep \in Ends /\ open \in [Socket -> BOOLEAN]
    BY <1>1, <1>3, <1>5, Before
  <2>2. QED  BY <1>4, <2>1, StreamWeakens
<1>6. QED  BY <1>1, <1>2, <1>3, <1>4, <1>5, HandshakeGoesOn

\* The client is paused, and the socket goes to the other process.
LEMMA SendSocketRe ==
    ASSUME IInv, ReInv, NEW k \in Socket, SendSocket(k)
    PROVE  ReInv'
<1> DEFINE m == <<Message("Pause", 0, 0, NoData), ControlMessage("first")>>
<1>1. /\ handshake[k] = "FindingPort"
      /\ chan' = Puts(chan, open, k, "server", m)
      /\ handshake' = [handshake EXCEPT ![k] = "InTransit"]
      /\ UNCHANGED <<ep, phase, open, numSockets, budget>>
  BY DEF SendSocket, Put, Puts
<1>2. k <= numSockets /\ ep["server"].socket # k
  BY <1>1, SocketBefore
<1>3. /\ ep \in Ends /\ open \in [Socket -> BOOLEAN] /\ "server" \in Side /\ chan \in Sockets
      /\ m \in Seq(ProtocolMessage) /\ Handshakes(m) /\ Guarded(m)
      /\ budget["losses"] = MaxLoss => StreamInv(ep, chan, open, handshake)
  BY Before, SideFacts, HandshakeMessages
<1> HIDE DEF m
<1>4. \A l \in Socket : l # k => chan'[l] = chan[l]
  BY <1>1, <1>3, PutsFacts
<1>5. \A l \in Socket : /\ l # k => handshake'[l] = handshake[l]
                        /\ handshake'[l] = "Done" <=> handshake[l] = "Done"
  BY <1>1 DEF IInv, TypeOK
<1>6. ASSUME budget["losses"] = MaxLoss PROVE StreamInv(ep, chan', open', handshake')
  <2>1. StreamInv(ep, Puts(chan, open, k, "server", m), open, handshake)
    BY <1>2, <1>3, <1>6, ServerPuts
  <2>2. StreamInv(ep, chan', open, handshake) /\ open' = open
    BY <1>1, <2>1
  <2>3. QED  BY <1>3, <1>5, <2>2, StreamWeakens
<1>7. QED  BY <1>1, <1>2, <1>4, <1>5, <1>6, HandshakeGoesOn

\* Writes to two sockets may come in any order.
LEMMA PutsCommute ==
    ASSUME NEW c \in Sockets, NEW o \in [Socket -> BOOLEAN], NEW p \in Side,
           NEW j \in Socket, NEW k \in Socket, j # k,
           NEW s \in Seq(ProtocolMessage), NEW t \in Seq(ProtocolMessage)
    PROVE  Puts(Puts(c, o, k, p, s), o, j, p, t) = Puts(Puts(c, o, j, p, t), o, k, p, s)
<1>1. CASE o[j] /\ o[k]
  <2> DEFINE a == [c[k] EXCEPT ![p] = @ \o s]
             b == [c[j] EXCEPT ![p] = @ \o t]
  <2>1. Puts(c, o, k, p, s) = [c EXCEPT ![k] = a] /\ Puts(c, o, j, p, t) = [c EXCEPT ![j] = b]
    BY <1>1 DEF Puts, Sockets
  <2>2. [c EXCEPT ![k] = a][j] = c[j] /\ [c EXCEPT ![j] = b][k] = c[k]
    BY DEF Sockets
  <2>3. /\ Puts([c EXCEPT ![k] = a], o, j, p, t) = [[c EXCEPT ![k] = a] EXCEPT ![j] = b]
        /\ Puts([c EXCEPT ![j] = b], o, k, p, s) = [[c EXCEPT ![j] = b] EXCEPT ![k] = a]
    BY <1>1, <2>2 DEF Puts, Sockets
  <2> HIDE DEF a, b
  <2>4. [[c EXCEPT ![k] = a] EXCEPT ![j] = b] = [[c EXCEPT ![j] = b] EXCEPT ![k] = a]
    BY DEF Sockets
  <2>5. QED  BY <2>1, <2>3, <2>4
<1>2. CASE ~o[j]
  BY <1>2 DEF Puts
<1>3. CASE ~o[k]
  BY <1>3 DEF Puts
<1>4. QED  BY <1>1, <1>2, <1>3

\* The server's protocol moves to socket k, on which it has written msgs.
LEMMA Accepts ==
    ASSUME IInv, ReInv, NEW k \in Socket, handshake[k] \notin {"None", "Done"},
           NEW c \in Sockets, \A l \in Socket : l # k => c[l] = chan[l],
           budget["losses"] = MaxLoss => StreamInv(ep, c, open, handshake),
           NEW msgs \in Seq(ProtocolMessage), Handshakes(msgs),
           BeginAccept(k, Puts(c, open, k, "server", msgs)),
           UNCHANGED <<phase, numSockets, budget>>
    PROVE  ReInv'
<1> DEFINE e  == ep["server"]
           j  == e.socket
           e1 == BeginAcceptReconnection(e, k)
           w  == Written(e)
           d  == Puts(c, open, j, "server", w)
<1>1. /\ chan' = Puts(Puts(c, open, k, "server", msgs), open, j, "server", w)
      /\ open' = [open EXCEPT ![j] = FALSE]
      /\ ep' = [ep EXCEPT !["server"] = e1]
      /\ handshake' = [handshake EXCEPT ![k] = "Done"]
  BY DEF BeginAccept, Put, Puts
<1>2. /\ ep \in Ends /\ chan \in Sockets /\ open \in [Socket -> BOOLEAN] /\ numSockets \in Nat
      /\ \A q \in Side : Sound(ep[q])
      /\ ClientInv(ep["client"], phase)
      /\ SocketsInv(ep, chan, handshake, numSockets)
      /\ budget["losses"] <= MaxLoss
  BY Before
<1>3. /\ "client" \in Side /\ "server" \in Side /\ Peer("server") = "client"
      /\ \A p \in Side : p = "client" \/ p = "server"
  BY SideFacts
<1>4. e \in Endpoint /\ Sound(e) /\ j \in Socket /\ j <= numSockets
  BY <1>2, <1>3, EndTypes, Existing
<1>5. w \in Seq(ProtocolMessage)
  BY <1>4 DEF Written, Endpoint
<1>6. k <= numSockets /\ j # k
  BY SocketBefore
<1>7. j = ep["server"].socket /\ e = ep["server"]
  OBVIOUS
<1> HIDE DEF e, j, w
<1>8. /\ e1 \in Endpoint /\ Sound(e1) /\ e1.socket = k
      /\ e1.isReconnecting /\ e1.writerData = <<>> /\ e1.incomingMsgId = e.incomingMsgId
  BY <1>4, BeginAcceptReconnectionFields
<1> HIDE DEF e1
<1>9. ep'["server"] = e1 /\ ep'["client"] = ep["client"] /\ ep' \in Ends
  BY <1>1, <1>2, <1>3, <1>8 DEF Ends
<1>10. d \in Sockets /\ \A l \in Socket : l # j => d[l] = c[l]
  BY <1>2, <1>3, <1>4, <1>5, PutsFacts
<1>11. chan' = Puts(d, open, k, "server", msgs)
  BY <1>1, <1>2, <1>3, <1>4, <1>5, <1>6, PutsCommute
<1>12. \A l \in Socket : l # k => chan'[l] = d[l]
  <2> HIDE DEF d
  <2>1. QED  BY <1>2, <1>3, <1>10, <1>11, PutsFacts
<1>13. /\ open' \in [Socket -> BOOLEAN] /\ open'[k] = open[k]
       /\ \A l \in Socket : open'[l] => open[l]
  BY <1>1, <1>2, <1>4, <1>6
<1>14. handshake'[k] = "Done" /\ \A l \in Socket : l # k => handshake'[l] = handshake[l]
  BY <1>1 DEF IInv, TypeOK
<1>15. SocketsInv(ep', chan', handshake', numSockets')
  <2>1. ASSUME NEW l \in Socket, l > numSockets
        PROVE  handshake'[l] = "None" /\ \A p \in Side : chan'[l][p] = <<>>
    <3>1. l # k /\ l # j
      BY <1>2, <1>4, <1>6, <2>1 DEF Socket
    <3>2. handshake'[l] = handshake[l] /\ chan'[l] = chan[l]
      BY <1>10, <1>12, <1>14, <3>1
    <3>3. QED  BY <1>2, <2>1, <3>2 DEF SocketsInv
  <2>2. ep'["client"].socket = numSockets
    BY <1>2, <1>9 DEF SocketsInv
  <2>3. QED  BY <1>8, <1>9, <1>14, <2>1, <2>2 DEF SocketsInv
<1>16. ASSUME budget["losses"] = MaxLoss PROVE StreamInv(ep', chan', open', handshake')
  <2>1. handshake[ep["server"].socket] = "Done"
    BY <1>2 DEF SocketsInv
  <2>2. PICK F \in Ends :
           /\ StreamInv(F, Puts(c, open, ep["server"].socket, "server", Written(ep["server"])),
                        open, handshake)
           /\ F["server"].incomingMsgId = ep["server"].incomingMsgId
           /\ \A e2 : [F EXCEPT !["server"] = e2] = [ep EXCEPT !["server"] = e2]
    <3>1. /\ StreamInv(ep, c, open, handshake) /\ "server" \in Side
          /\ ep \in Ends /\ open \in [Socket -> BOOLEAN]
      BY <1>2, <1>3, <1>16
    <3> DEFINE p == "server"
    <3>2. p \in Side /\ (p = "server" => handshake[ep[p].socket] = "Done")
      BY <2>1, <3>1
    <3>3. p = "server"
      OBVIOUS
    <3> HIDE DEF p
    <3>4. \E F \in Ends :
            /\ StreamInv(F, Puts(c, open, ep[p].socket, p, Written(ep[p])), open, handshake)
            /\ F[Peer(p)] = ep[Peer(p)] /\ F[p].socket = ep[p].socket
            /\ F[p].incomingMsgId = ep[p].incomingMsgId
            /\ \A e2 : [F EXCEPT ![p] = e2] = [ep EXCEPT ![p] = e2]
      BY ONLY c \in Sockets, <3>1, <3>2, StreamLeaves, SMTT(60)
    <3>5. QED  BY <3>3, <3>4
  <2>3. StreamInv(F, d, open, handshake) /\ ep' = [F EXCEPT !["server"] = e1]
        /\ e1.incomingMsgId = F["server"].incomingMsgId
    BY <1>1, <1>7, <1>8, <2>2 DEF w
  <2> HIDE DEF d
  <2>4. StreamInv([F EXCEPT !["server"] = e1], d, open', handshake')
    <3>1. e1 \in Endpoint /\ e1.socket = k /\ e1.isReconnecting /\ e1.writerData = <<>>
      BY <1>8
    <3>2. open \in [Socket -> BOOLEAN] /\ d \in Sockets /\ handshake[k] # "Done"
      BY <1>2, <1>10
    <3>3. open' \in [Socket -> BOOLEAN] /\ \A l \in Socket : open'[l] => open[l]
      BY <1>13
    <3>4. StreamInv(F, d, open, handshake) /\ e1.incomingMsgId = F["server"].incomingMsgId
      BY <2>3
    <3>5. QED  BY ONLY F \in Ends, k \in Socket, <1>14, <3>1, <3>2, <3>3, <3>4, ServerMoves
  <2>5. StreamInv(ep', d, open', handshake')
    BY <2>3, <2>4
  <2>6. ep'["server"].writerData = <<>>
    BY <1>8, <1>9
  <2>7. StreamInv(ep', Puts(d, open', k, "server", msgs), open', handshake')
    BY <1>9, <1>10, <1>13, <1>14, <2>5, <2>6, ServerPuts
  <2>8. Puts(d, open', k, "server", msgs) = Puts(d, open, k, "server", msgs)
    BY <1>13 DEF Puts
  <2>9. QED  BY <1>11, <2>7, <2>8
<1>17. ClientInv(ep'["client"], phase')
  BY <1>2, <1>9
<1>18. \A q \in Side : Sound(ep'[q])
  BY <1>2, <1>3, <1>8, <1>9
<1>19. QED  BY <1>2, <1>15, <1>16, <1>17, <1>18, ReInvPrime

\* A management connection is accepted at once, ...
LEMMA ReadConnectionTypeRe ==
    ASSUME IInv, ReInv, NEW k \in Socket, ReadConnectionType(k)
    PROVE  ReInv'
<1> DEFINE d == [chan EXCEPT ![k]["client"] = Tail(@)]
           m == <<ControlMessage("first")>>
<1>1. /\ handshake[k] = "WaitingForConnectionType" /\ chan[k]["client"] # <<>>
      /\ BeginAccept(k, Puts(d, open, k, "server", m))
      /\ UNCHANGED <<phase, numSockets, budget>>
  BY DEF ReadConnectionType, Handshaking, Put, Puts
<1>2. /\ d \in Sockets
      /\ \A l \in Socket : l # k => d[l] = chan[l]
      /\ budget["losses"] = MaxLoss => StreamInv(ep, d, open, handshake)
  BY <1>1, HandshakeReads
<1>3. m \in Seq(ProtocolMessage) /\ Handshakes(m)
  BY HandshakeMessages
<1> HIDE DEF d, m
<1>4. QED  BY <1>1, <1>2, <1>3, Accepts

\* ... one for an extension host by the process the socket was sent to.
LEMMA AdoptSocketRe ==
    ASSUME IInv, ReInv, NEW k \in Socket, AdoptSocket(k)
    PROVE  ReInv'
<1>1. /\ handshake[k] = "InTransit" /\ BeginAccept(k, chan)
      /\ UNCHANGED <<phase, numSockets, budget>>
  BY DEF AdoptSocket
<1>2. /\ chan \in Sockets /\ open \in [Socket -> BOOLEAN] /\ "server" \in Side
      /\ budget["losses"] = MaxLoss => StreamInv(ep, chan, open, handshake)
  BY Before, SideFacts
<1>3. Puts(chan, open, k, "server", <<>>) = chan
  BY <1>2, PutsNothing
<1>4. <<>> \in Seq(ProtocolMessage) /\ Handshakes(<<>>)
  BY DEF Handshakes
<1>5. BeginAccept(k, Puts(chan, open, k, "server", <<>>))
  BY <1>1, <1>3
<1>6. QED  BY <1>1, <1>2, <1>4, <1>5, Accepts

\* endAcceptReconnection on the server, with the Resume for the client.
LEMMA EndAcceptRe ==
    ASSUME IInv, ReInv, EndAccept
    PROVE  ReInv'
<1> DEFINE e == ep["server"]
           f == ep["client"]
           n == f.incomingMsgId
           a == EndAcceptReconnection(e)
           m == Message("Resume", 0, 0, NoData)
           b == Write(a, m)
<1>1. /\ UNCHANGED <<phase, handshake, chan, open, numSockets, budget>>
      /\ ep' = [ep EXCEPT !["server"] = IF HandsOver THEN b ELSE a]
  BY DEF EndAccept
<1>2. /\ "server" \in Side /\ Peer("server") = "client"
  BY SideFacts
<1>3. e \in Endpoint /\ f \in Endpoint /\ EndpointInv(e, f) /\ Sound(e) /\ n \in Nat
  BY <1>2, SideBefore
<1> HIDE DEF e, f
<1>4. GoesOn(e, a, n)
  BY <1>3, EndAcceptReconnectionGoesOn
<1>5. m \in ProtocolMessage /\ m.type # "Regular"
  BY BareMessage DEF MessageType
<1> HIDE DEF a, m, n
<1>6. GoesOn(a, b, n)
  <2>1. a \in Endpoint /\ Sound(a)
    BY <1>4 DEF GoesOn
  <2>2. QED  BY <1>3, <1>5, <2>1, WriteOne
<1> HIDE DEF b
<1>7. GoesOn(e, b, n)
  BY <1>3, <1>4, <1>6, GoesOnTwice
<1>8. PICK e1 : ep' = [ep EXCEPT !["server"] = e1] /\ GoesOn(e, e1, n)
  BY <1>1, <1>4, <1>7
<1>9. QED  BY <1>1, <1>2, <1>8, EndpointGoesOn DEF e, f, n

\* A socket fails.
LEMMA FailRe ==
    ASSUME IInv, ReInv, NEW k \in Socket, Fail(k)
    PROVE  ReInv'
<1>1. /\ open' = [open EXCEPT ![k] = FALSE] /\ budget'["losses"] = budget["losses"]
      /\ UNCHANGED <<ep, phase, handshake, chan, numSockets>>
  BY NoLossSpent DEF Fail
<1>2. /\ ep \in Ends /\ open \in [Socket -> BOOLEAN]
      /\ budget["losses"] = MaxLoss => StreamInv(ep, chan, open, handshake)
  BY Before
<1>3. open' \in [Socket -> BOOLEAN] /\ \A l \in Socket : open'[l] => open[l]
  BY <1>1, <1>2
<1>4. budget["losses"] = MaxLoss => StreamInv(ep, chan, open', handshake)
  BY <1>2, <1>3, StreamWeakens
<1>5. QED  BY <1>1, <1>4, Before, ReInvPrime

\* A socket loses a message: it is no faithful byte stream any more.
LEMMA LoseRe ==
    ASSUME IInv, ReInv, NEW k \in Socket, NEW p \in Side, Lose(k, p)
    PROVE  ReInv'
<1>1. /\ budget["losses"] > 0 /\ budget' = [budget EXCEPT !["losses"] = @ - 1]
      /\ chan[k][p] # <<>> /\ chan' = [chan EXCEPT ![k][p] = Tail(@)]
      /\ UNCHANGED <<ep, phase, handshake, open, numSockets>>
  BY DEF Lose, Spend, Consume
<1>2. budget \in [{"keepAlives", "faults", "losses"} -> Nat]
  BY DEF IInv, TypeOK
<1>3. budget'["losses"] = budget["losses"] - 1
  BY <1>1, <1>2
<1>4. /\ ep \in Ends /\ chan \in Sockets /\ numSockets \in Nat /\ MaxLoss \in Nat
      /\ budget["losses"] \in Nat /\ budget["losses"] <= MaxLoss
      /\ SocketsInv(ep, chan, handshake, numSockets)
      /\ ClientInv(ep["client"], phase) /\ \A q \in Side : Sound(ep[q])
  BY Before
<1>5. budget'["losses"] <= MaxLoss /\ budget'["losses"] # MaxLoss
  BY <1>3, <1>4
<1>6. SocketsInv(ep, chan', handshake, numSockets)
  <2>1. \A l \in Socket : l # k => chan'[l] = chan[l]
    BY <1>1, <1>4 DEF Sockets
  <2>2. ~(k > numSockets)
    BY <1>1, <1>4 DEF SocketsInv
  <2>3. \A l \in Socket : l > numSockets => handshake[l] = handshake[l] /\ chan'[l] = chan[l]
    BY <2>1, <2>2
  <2>4. handshake[ep["server"].socket] = "Done"
    BY <1>4 DEF SocketsInv
  <2>5. QED  BY <1>4, <2>3, <2>4, SocketsStay
<1>7. QED  BY <1>1, <1>4, <1>5, <1>6, ReInvPrime

-----------------------------------------------------------------------------
(* The invariant and what it shows *)

\* A new connection.
LEMMA InitReInv == Init => ReInv
<1> SUFFICES ASSUME Init PROVE ReInv
  OBVIOUS
<1>1. "client" \in Side /\ "server" \in Side
  BY SideFacts
<1>2. /\ ep["client"] = NewEndpoint /\ ep["server"] = NewEndpoint
      /\ \A p \in Side : ep[p] = NewEndpoint
  BY <1>1 DEF Init
<1>3. /\ NewEndpoint.writerData = <<>> /\ NewEndpoint.incomingMsgId = 0
      /\ NewEndpoint.incomingAckId = 0 /\ NewEndpoint.outgoingUnackMsg = <<>>
      /\ NewEndpoint.isReconnecting = FALSE /\ NewEndpoint.controlBuffer = <<>>
      /\ NewEndpoint.socket = 1 /\ NewEndpoint.outgoingMsgId = 0
  BY DEF NewEndpoint
<1>4. 1 \in Socket
  BY ConstantsAssumption DEF Socket
<1>5. /\ \A k \in Socket, p \in Side : chan[k][p] = <<>>
      /\ handshake[1] = "Done" /\ \A k \in Socket : k # 1 => handshake[k] = "None"
      /\ numSockets = 1 /\ budget["losses"] = MaxLoss /\ phase = "Connected"
  BY <1>4 DEF Init
<1>6. \A p \in Side : Timers(ep[p]) /\ QueueRegular(ep[p])
  BY <1>2, <1>3 DEF Timers, QueueRegular
<1>7. ClientInv(ep["client"], phase)
  BY <1>2, <1>3, <1>5 DEF ClientInv
<1>8. SocketsInv(ep, chan, handshake, numSockets)
  BY <1>2, <1>3, <1>5 DEF SocketsInv, Socket
<1>9. AdoptInv(ep, chan, handshake)
  <2>1. \A k \in Socket : NoRegular(chan[k]["client"]) /\ Handshakes(chan[k]["server"])
    BY <1>1, <1>5 DEF NoRegular, Handshakes
  <2>2. handshake[ep["client"].socket] = "Done"
    BY <1>2, <1>3, <1>5
  <2>3. QED  BY <2>1, <2>2 DEF AdoptInv
<1>10. ASSUME NEW p \in Side PROVE Fed(ep, chan, open, handshake, p)
  <2>1. Peer(p) \in Side
    BY PeerFacts
  <2>2. Chain(<<>>, 0) /\ Reaches(<<>>, 0, 0)
    BY DEF Chain, Reaches
  <2>3. chan[1][p] \o ep[p].writerData = <<>>
    BY <1>2, <1>3, <1>4, <1>5
  <2>4. chan[1][Peer(p)] = <<>>
    BY <1>4, <1>5, <2>1
  <2>5. /\ ep[p].socket = 1 /\ ep[p].incomingMsgId = 0 /\ ep[p].outgoingMsgId = 0
        /\ ep[Peer(p)].incomingMsgId = 0
    BY <1>2, <1>3, <2>1
  <2>6. QED  BY <2>2, <2>3, <2>4, <2>5 DEF Fed, Feeds
<1>11. budget["losses"] <= MaxLoss
  BY <1>5, ConstantsAssumption
<1>12. QED  BY <1>6, <1>7, <1>8, <1>9, <1>10, <1>11 DEF ReInv, FeedInv

\* Every step keeps it.
LEMMA NextReInv == IInv /\ ReInv /\ [Next]_vars => ReInv'
<1> SUFFICES ASSUME IInv, ReInv, [Next]_vars PROVE ReInv'
  OBVIOUS
<1>1. ASSUME NEW p \in Side, EndpointStep(p) PROVE ReInv'
  BY <1>1, SendRe, AckRe, TimeoutRe, WriteNowRe, ReadRe DEF EndpointStep
<1>2. ASSUME NEW k \in Socket, ServerStep(k) PROVE ReInv'
  BY <1>2, SkipRe, ReadAuthRe, ReadConnectionTypeRe, FindFreePortRe, SendSocketRe,
     AdoptSocketRe DEF ServerStep
<1>3. ASSUME NEW k \in Socket, NetworkStep(k) PROVE ReInv'
  BY <1>3, FailRe, SkipRe, LoseRe DEF NetworkStep
<1>4. CASE BeginAttempt \/ AttemptTimeout \/ ReadSign \/ ReadFirst \/ BufferControl \/ EndAccept
  BY <1>4, BeginAttemptRe, AttemptTimeoutRe, ReadSignRe, ReadFirstRe, BufferControlRe,
     EndAcceptRe
<1>5. CASE UNCHANGED vars
  BY <1>5, Before, ReInvPrime DEF vars
<1>6. QED  BY <1>1, <1>2, <1>3, <1>4, <1>5 DEF Next

\* Both invariants hold throughout.
LEMMA SpecReInv == Spec => [](IInv /\ ReInv)
<1>1. Init => IInv /\ ReInv
  BY InitIInv, InitReInv
<1>2. IInv /\ ReInv /\ [Next]_vars => (IInv /\ ReInv)'
  BY NextIInv, NextReInv
<1>3. QED  BY <1>1, <1>2, PTL DEF Spec

\* No timer that progress depends on is ever missing: not the writer's, not the
\* one of the pending ack, not the one that notices a dead socket.
THEOREM TimersCorrect == Spec => []TimersArmed
<1>1. ReInv => TimersArmed
  BY SideFacts DEF ReInv, Timers, ClientInv, TimersArmed
<1>2. QED  BY <1>1, SpecReInv, PTL

\* Whatever an abandoned attempt leaves behind, the listener of the next one
\* finds the BufferedEmitter of control messages empty.
THEOREM HandshakeCorrect == Spec => []HandshakeStartsClean
<1>1. ReInv => HandshakeStartsClean
  BY DEF ReInv, ClientInv, HandshakeStartsClean
<1>2. QED  BY <1>1, SpecReInv, PTL

\* As long as no socket has lost a message no reader meets a gap, so the
\* ReplayRequest of _receiveMessage is never needed.
THEOREM ReconnectionLeavesNoGap == Spec => []NoGapAfterReconnection
<1>1. ASSUME IInv, ReInv PROVE NoGapAfterReconnection
  <2> SUFFICES ASSUME NEW p \in Side, budget["losses"] = MaxLoss, CanRead(p),
                      Head(Incoming(p)).type = "Regular"
               PROVE  Head(Incoming(p)).id <= ep[p].incomingMsgId + 1
    BY DEF NoGapAfterReconnection
  <2> DEFINE s == chan[ep[p].socket][Peer(p)]
  <2>1. Peer(p) \in Side /\ ep[p].socket \in Socket
    BY <1>1, SideBefore
  <2>2. s \in Seq(ProtocolMessage)
    BY <1>1, <2>1, Before, SocketTypes
  <2>3. s = Incoming(p) /\ s # <<>>
    BY DEF Incoming, CanRead
  <2>4. Chain(s, ep[p].incomingMsgId)
    BY <1>1, Before DEF StreamInv, FeedInv, Fed
  <2> HIDE DEF s
  <2>5. Head(s) = s[1] /\ 1 \in 1..Len(s)
    BY <2>2, <2>3, TailOf
  <2>6. QED  BY <2>3, <2>4, <2>5 DEF Chain
<1>2. QED  BY <1>1, SpecReInv, PTL

\* On a faithful byte stream (MaxLoss = 0) the stream waits until the server's
\* end of it has adopted the socket: nothing is swallowed by the temporary
\* protocol of the handshake or on the way to the extension host.
THEOREM AdoptionAwaited ==
    ASSUME MaxLoss = 0
    PROVE  Spec => []StreamWaitsForAdoption
<1>1. ASSUME IInv, ReInv PROVE StreamWaitsForAdoption
  <2>1. budget["losses"] = MaxLoss
    BY <1>1, Before
  <2>2. AdoptInv(ep, chan, handshake)
    BY <1>1, <2>1, Before DEF StreamInv
  <2>3. QED  BY <2>2 DEF AdoptInv, NoRegular, StreamWaitsForAdoption
<1>2. QED  BY <1>1, SpecReInv, PTL

=============================================================================
