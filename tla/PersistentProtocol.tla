------------------------- MODULE PersistentProtocol -------------------------
(***************************************************************************)
(* Two PersistentProtocol endpoints (ipc.net.ts) that keep one reliable    *)
(* message stream alive over a succession of sockets: the client is the    *)
(* renderer's PersistentConnection (remoteAgentConnection.ts), the server  *)
(* is the remote agent (remoteExtensionHostAgentServer.ts), whose end of   *)
(* the stream lives in the server process (HandsOver = FALSE, a management *)
(* connection) or in an extension host process that the accepted socket is *)
(* handed over to (HandsOver = TRUE).                                      *)
(*                                                                         *)
(* JavaScript runs one event handler at a time, so a step is one handler:  *)
(* a timer, a socket event, a call of send().  The methods of the class    *)
(* are operators on the endpoint record, and the actions apply them.       *)
(*                                                                         *)
(* Time is abstracted: a timer that is armed may fire at any moment, and a *)
(* test on the clock is a nondeterministic choice.                         *)
(***************************************************************************)
EXTENDS Integers, Sequences

CONSTANTS
    Data,          \* the payloads given to send()
    NoData,        \* the empty buffer of the messages that carry none
    HandsOver,     \* TRUE: the accepted socket goes to an extension host
    MaxSend,       \* bound: calls of send(), for each side
    MaxKeepAlive,  \* bound: keep-alive messages, both sides together
    MaxFaults,     \* bound: failures of a socket that works
    MaxLoss,       \* bound: messages a working socket loses (0: TCP)
    MaxSockets     \* bound: sockets ever created

Side == {"client", "server"}

ControlData == {"auth", "sign", "connectionType", "first"}

ASSUME ConstantsAssumption ==
    /\ HandsOver \in BOOLEAN
    /\ MaxSend \in [Side -> Nat]
    /\ MaxKeepAlive \in Nat
    /\ MaxFaults \in Nat
    /\ MaxLoss \in Nat
    /\ MaxSockets \in Nat \ {0}
    /\ NoData \notin Data
    /\ Data \cap ControlData = {}

Peer(p) == IF p = "client" THEN "server" ELSE "client"

Socket == 1..MaxSockets

VARIABLES
    ep,          \* ep[p]: the fields of the PersistentProtocol of side p
    phase,       \* the client's reconnection loop and handshake
    handshake,   \* handshake[k]: the server's handling of socket k
    chan,        \* chan[k][p]: written by p to socket k and not yet read
    open,        \* open[k]: both ends of socket k are connected
    numSockets,  \* sockets created so far
    budget       \* what is left of MaxKeepAlive, MaxFaults and MaxLoss

vars == <<ep, phase, handshake, chan, open, numSockets, budget>>

-----------------------------------------------------------------------------
(* Messages *)

MessageType ==
    {"Regular", "Control", "Ack", "ReplayRequest", "Pause", "Resume",
     "KeepAlive"}

ProtocolMessage ==
    [type : MessageType, id : Nat, ack : Nat, data : Data \cup ControlData \cup {NoData}]

Message(type, id, ack, data) ==
    [type |-> type, id |-> id, ack |-> ack, data |-> data]

ControlMessage(data) == Message("Control", 0, 0, data)

-----------------------------------------------------------------------------
(* ProtocolWriter *)

\* write(): buffered, and the timer is armed when the buffer was empty.
WriteAll(e, msgs) ==
    IF msgs = <<>> THEN e
    ELSE [e EXCEPT !.writerData = @ \o msgs,
                   !.writeNowTimeout = @ \/ e.writerData = <<>>]

Write(e, msg) == WriteAll(e, <<msg>>)

\* What _writeNow() hands to the socket.
Written(e) == IF e.isPaused THEN <<>> ELSE e.writerData

Pause(e) == [e EXCEPT !.isPaused = TRUE]

\* MUTANT: no write is scheduled.
ResumeUnscheduled(e) == [e EXCEPT !.isPaused = FALSE]

Resume(e) == [e EXCEPT !.isPaused = FALSE, !.writeNowTimeout = TRUE]

-----------------------------------------------------------------------------
(* PersistentProtocol: its methods as operators on the endpoint record. *)

\* The ack checks.  With late = TRUE the three clock tests of _recvAckCheck
\* succeed: onSocketTimeout fires and no new check is scheduled.
RecvAckCheck(e, late) ==
    IF \/ e.outgoingMsgId <= e.outgoingAckId
       \/ e.outgoingAckTimeout
       \/ e.isReconnecting
       \/ late
    THEN e
    ELSE [e EXCEPT !.outgoingAckTimeout = TRUE]

SendAckCheck(e) ==
    IF e.incomingMsgId <= e.incomingAckId \/ e.incomingAckTimeout
    THEN e
    ELSE [e EXCEPT !.incomingAckTimeout = TRUE]

\* MUTANT: the ack leaves out the last message.
AckNowOffByOne(e, type) ==
    Write([e EXCEPT !.incomingAckId = e.incomingMsgId],
          Message(type, 0, e.incomingMsgId - 1, NoData))

AckNow(e, type) ==
    Write([e EXCEPT !.incomingAckId = e.incomingMsgId],
          Message(type, 0, e.incomingMsgId, NoData))

SendAck(e) ==
    IF e.incomingMsgId <= e.incomingAckId THEN e ELSE AckNow(e, "Ack")

SendKeepAlive(e) == AckNow(e, "KeepAlive")

\* MUTANT: the message acknowledges by the wrong counter.
SendRegularWrongAck(e, d, late) ==
    LET msg == Message("Regular", e.outgoingMsgId + 1, e.outgoingMsgId, d)
        e1  == [e EXCEPT !.outgoingMsgId = @ + 1,
                         !.incomingAckId = e.incomingMsgId,
                         !.outgoingUnackMsg = Append(@, msg),
                         !.sent = Append(@, d)]
    IN  IF e.isReconnecting THEN e1 ELSE RecvAckCheck(Write(e1, msg), late)

\* MUTANT: an endpoint that is reconnecting writes all the same.
SendRegularAnyway(e, d, late) ==
    LET msg == Message("Regular", e.outgoingMsgId + 1, e.incomingMsgId, d)
        e1  == [e EXCEPT !.outgoingMsgId = @ + 1,
                         !.incomingAckId = e.incomingMsgId,
                         !.outgoingUnackMsg = Append(@, msg),
                         !.sent = Append(@, d)]
    IN  RecvAckCheck(Write(e1, msg), late)

SendRegular(e, d, late) ==
    LET msg == Message("Regular", e.outgoingMsgId + 1, e.incomingMsgId, d)
        e1  == [e EXCEPT !.outgoingMsgId = @ + 1,
                         !.incomingAckId = e.incomingMsgId,
                         !.outgoingUnackMsg = Append(@, msg),
                         !.sent = Append(@, d)]
    IN  IF e.isReconnecting THEN e1 ELSE RecvAckCheck(Write(e1, msg), late)

\* MUTANT: the confirmed message itself is kept.
FirstUnconfirmedOffByOne(msgs, ack) ==
    CHOOSE i \in 1..(Len(msgs) + 1) :
        /\ i <= Len(msgs) => msgs[i].id >= ack
        /\ \A j \in 1..(i - 1) : msgs[j].id < ack

\* Popping the queue stops at the first message that is not confirmed.
FirstUnconfirmed(msgs, ack) ==
    CHOOSE i \in 1..(Len(msgs) + 1) :
        /\ i <= Len(msgs) => msgs[i].id > ack
        /\ \A j \in 1..(i - 1) : msgs[j].id <= ack

AcceptAck(e, ack) ==
    IF ack > e.outgoingAckId
    THEN [e EXCEPT !.outgoingAckId = ack,
                   !.outgoingUnackMsg =
                       SubSeq(@, FirstUnconfirmed(@, ack), Len(@))]
    ELSE e

\* MUTANT: a message that was seen before is delivered again.
AcceptRegularAgain(e, msg, ask) ==
    IF msg.id > e.incomingMsgId + 1
    THEN IF ask THEN Write(e, Message("ReplayRequest", 0, 0, NoData)) ELSE e
    ELSE SendAckCheck([e EXCEPT !.incomingMsgId = msg.id,
                                !.delivered = Append(@, msg.data)])

\* MUTANT: a gap is not noticed.
AcceptRegularWithGap(e, msg, ask) ==
    IF msg.id <= e.incomingMsgId THEN e
    ELSE SendAckCheck([e EXCEPT !.incomingMsgId = msg.id,
                                !.delivered = Append(@, msg.data)])

\* A Regular message: delivered when it is the next one, ignored when it was
\* seen before; a gap asks for a replay, at most once every 10s (ask).
AcceptRegular(e, msg, ask) ==
    IF msg.id <= e.incomingMsgId THEN e
    ELSE IF msg.id # e.incomingMsgId + 1
    THEN IF ask THEN Write(e, Message("ReplayRequest", 0, 0, NoData)) ELSE e
    ELSE SendAckCheck([e EXCEPT !.incomingMsgId = msg.id,
                                !.delivered = Append(@, msg.data)])

\* MUTANT: nobody checks that the resent messages are acknowledged.
ReplayAllUnchecked(e) == WriteAll(e, e.outgoingUnackMsg)

\* Sending again what is unacknowledged renews its writtenTime, so the check
\* cannot be late.
ReplayAll(e) == RecvAckCheck(WriteAll(e, e.outgoingUnackMsg), FALSE)

ReceiveMessage(e, msg, ask) ==
    LET e1 == AcceptAck(e, msg.ack)
    IN  CASE msg.type = "Regular"       -> AcceptRegular(e1, msg, ask)
          [] msg.type = "ReplayRequest" -> ReplayAll(e1)
          [] msg.type = "Pause"         -> Pause(e1)
          [] msg.type = "Resume"        -> Resume(e1)
          [] OTHER                      -> e1

\* MUTANT: the control messages of the old socket are kept.
BeginAcceptReconnectionNoFlush(e, k) ==
    [e EXCEPT !.isReconnecting = TRUE,
              !.socket = k,
              !.writerData = <<>>,
              !.isPaused = FALSE,
              !.writeNowTimeout = FALSE,
              !.socketClosed = FALSE]

\* A new socket comes with a new writer (empty, not paused, no timer).  The
\* buffered control messages of the old socket are dropped.
BeginAcceptReconnection(e, k) ==
    [e EXCEPT !.isReconnecting = TRUE,
              !.socket = k,
              !.writerData = <<>>,
              !.isPaused = FALSE,
              !.writeNowTimeout = FALSE,
              !.socketClosed = FALSE,
              !.controlBuffer = <<>>]

\* MUTANT: the unacknowledged messages are not sent again.
EndAcceptReconnectionNoResend(e) ==
    RecvAckCheck(AckNow([e EXCEPT !.isReconnecting = FALSE], "Ack"), FALSE)

EndAcceptReconnection(e) ==
    ReplayAll(AckNow([e EXCEPT !.isReconnecting = FALSE], "Ack"))

-----------------------------------------------------------------------------
(* Sockets *)

\* What p's socket.write() adds to socket k: nothing once it is gone.
Put(c, k, p, msgs) ==
    IF open[k] THEN [c EXCEPT ![k][p] = @ \o msgs] ELSE c

Spend(what) ==
    /\ budget[what] > 0
    /\ budget' = [budget EXCEPT ![what] = @ - 1]

\* A failure of a socket that works is one of MaxFaults.
SpendFault(k) == IF open[k] THEN Spend("faults") ELSE UNCHANGED budget

-----------------------------------------------------------------------------
(* Both sides of a new connection after its first handshake. *)

NewEndpoint ==
    [outgoingMsgId      |-> 0,
     outgoingAckId      |-> 0,
     outgoingUnackMsg   |-> <<>>,
     outgoingAckTimeout |-> FALSE,
     incomingMsgId      |-> 0,
     incomingAckId      |-> 0,
     incomingAckTimeout |-> FALSE,
     isReconnecting     |-> FALSE,
     socket             |-> 1,
     socketClosed       |-> FALSE,
     writerData         |-> <<>>,
     isPaused           |-> FALSE,
     writeNowTimeout    |-> FALSE,
     controlBuffer      |-> <<>>,
     sent               |-> <<>>,
     delivered          |-> <<>>]

Init ==
    /\ ep = [p \in Side |-> NewEndpoint]
    /\ phase = "Connected"
    /\ handshake = [k \in Socket |-> IF k = 1 THEN "Done" ELSE "None"]
    /\ chan = [k \in Socket |-> [p \in Side |-> <<>>]]
    /\ open = [k \in Socket |-> k = 1]
    /\ numSockets = 1
    /\ budget = [keepAlives |-> MaxKeepAlive, faults |-> MaxFaults,
                 losses |-> MaxLoss]

\* The server runs beginAcceptReconnection, the messages of the initial data
\* chunk and endAcceptReconnection in one go: its other handlers wait.
Free(p) == p = "client" \/ ~ep["server"].isReconnecting

-----------------------------------------------------------------------------
(* Steps of an endpoint *)

\* MUTANT: no one listens.
OnSocketTimeoutIgnored(p) == UNCHANGED phase

\* onSocketTimeout: only the client listens, and starts its loop.
OnSocketTimeout(p) ==
    phase' = IF p = "client" /\ phase = "Connected" THEN "Reconnecting"
             ELSE phase

Send(p, d) ==
    /\ Free(p)
    /\ ep[p].outgoingMsgId < MaxSend[p]
    /\ ep' = [ep EXCEPT ![p] = SendRegular(@, d, FALSE)]
    /\ UNCHANGED <<phase, handshake, chan, open, numSockets, budget>>

\* The same call when its own check finds the socket late, which takes an
\* earlier timeout that left no timer behind.
SendLate(p, d) ==
    /\ Free(p)
    /\ ep[p].outgoingMsgId < MaxSend[p]
    /\ ep[p].outgoingUnackMsg # <<>>
    /\ ~ep[p].outgoingAckTimeout
    /\ ~ep[p].isReconnecting
    /\ SpendFault(ep[p].socket)
    /\ ep' = [ep EXCEPT ![p] = SendRegular(@, d, TRUE)]
    /\ OnSocketTimeout(p)
    /\ UNCHANGED <<handshake, chan, open, numSockets>>

\* The timer of the ProtocolWriter.
WriteNow(p) ==
    /\ Free(p)
    /\ ep[p].writeNowTimeout
    /\ ep' = [ep EXCEPT ![p].writeNowTimeout = FALSE,
                        ![p].writerData = IF ep[p].isPaused THEN @ ELSE <<>>]
    /\ chan' = Put(chan, ep[p].socket, p, Written(ep[p]))
    /\ UNCHANGED <<phase, handshake, open, numSockets, budget>>

\* The _incomingAckTimeout timer, once AcknowledgeTime has passed.
AckTimer(p) ==
    /\ Free(p)
    /\ ep[p].incomingAckTimeout
    /\ ep' = [ep EXCEPT ![p] = SendAck([@ EXCEPT !.incomingAckTimeout = FALSE])]
    /\ UNCHANGED <<phase, handshake, chan, open, numSockets, budget>>

KeepAlive(p) ==
    /\ Free(p)
    /\ Spend("keepAlives")
    /\ ep' = [ep EXCEPT ![p] = SendKeepAlive(@)]
    /\ UNCHANGED <<phase, handshake, chan, open, numSockets>>

\* The _outgoingAckTimeout timer finds nothing left to check.
RecvAckTimerDone(p) ==
    /\ Free(p)
    /\ ep[p].outgoingAckTimeout
    /\ \/ ep[p].outgoingMsgId <= ep[p].outgoingAckId
       \/ ep[p].isReconnecting
    /\ ep' = [ep EXCEPT ![p].outgoingAckTimeout = FALSE]
    /\ UNCHANGED <<phase, handshake, chan, open, numSockets, budget>>

\* The same timer finds the oldest message unacknowledged for too long.
SocketTimeout(p) ==
    /\ Free(p)
    /\ ep[p].outgoingAckTimeout
    /\ ep[p].outgoingMsgId > ep[p].outgoingAckId
    /\ ~ep[p].isReconnecting
    /\ SpendFault(ep[p].socket)
    /\ ep' = [ep EXCEPT ![p].outgoingAckTimeout = FALSE]
    /\ OnSocketTimeout(p)
    /\ UNCHANGED <<handshake, chan, open, numSockets>>

\* MUTANT: the client does not react.
SocketCloseIgnored(p) ==
    /\ Free(p)
    /\ ~open[ep[p].socket]
    /\ ~ep[p].socketClosed
    /\ ep' = [ep EXCEPT ![p].socketClosed = TRUE]
    /\ UNCHANGED <<phase, handshake, chan, open, numSockets, budget>>

\* The close event of the current socket.
SocketClose(p) ==
    /\ Free(p)
    /\ ~open[ep[p].socket]
    /\ ~ep[p].socketClosed
    /\ ep' = [ep EXCEPT ![p].socketClosed = TRUE]
    /\ phase' = IF p = "client" /\ phase = "Connected" THEN "Reconnecting"
                ELSE phase
    /\ UNCHANGED <<handshake, chan, open, numSockets, budget>>

\* The next message on the current socket of p.
Incoming(p) == chan[ep[p].socket][Peer(p)]

CanRead(p) ==
    /\ ~ep[p].socketClosed
    /\ Incoming(p) # <<>>

Consume(k, p) == chan' = [chan EXCEPT ![k][p] = Tail(@)]

\* Everything but the control messages.
Read(p, ask) ==
    /\ CanRead(p)
    /\ LET msg == Head(Incoming(p))
       IN  /\ msg.type # "Control"
           /\ ep' = [ep EXCEPT ![p] = ReceiveMessage(@, msg, ask)]
    /\ Consume(ep[p].socket, Peer(p))
    /\ UNCHANGED <<phase, handshake, open, numSockets, budget>>

-----------------------------------------------------------------------------
(* The client's side of a reconnection *)

\* A socket has been created for the next attempt.
BeginAttempt ==
    LET k == numSockets + 1
    IN  /\ phase = "Reconnecting"
        /\ k \in Socket
        /\ numSockets' = k
        /\ chan' = Put(chan, ep["client"].socket, "client", Written(ep["client"]))
        /\ open' = [open EXCEPT ![ep["client"].socket] = FALSE, ![k] = TRUE]
        /\ handshake' = [handshake EXCEPT ![k] = "WaitingForAuth"]
        /\ ep' = [ep EXCEPT !["client"] =
                    Write(BeginAcceptReconnection(@, k), ControlMessage("auth"))]
        /\ phase' = "AwaitSign"
        /\ UNCHANGED budget

\* The attempt times out: its control listener is gone.
AttemptTimeout ==
    /\ phase \in {"AwaitSign", "AwaitFirst"}
    /\ SpendFault(ep["client"].socket)
    /\ phase' = "Reconnecting"
    /\ UNCHANGED <<ep, handshake, chan, open, numSockets>>

\* Control messages that wait in the BufferedEmitter come before the new one.
ControlQueue ==
    Append(ep["client"].controlBuffer, Head(Incoming("client")).data)

ReadControl ==
    /\ CanRead("client")
    /\ Head(Incoming("client")).type = "Control"
    /\ Consume(ep["client"].socket, "server")
    /\ UNCHANGED <<handshake, open, numSockets, budget>>

\* The server's sign request: answered with the connection type.
ReadSign ==
    /\ ReadControl
    /\ phase = "AwaitSign"
    /\ Head(ControlQueue) = "sign"
    /\ ep' = [ep EXCEPT !["client"] =
                Write([@ EXCEPT !.controlBuffer = Tail(ControlQueue)],
                      ControlMessage("connectionType"))]
    /\ phase' = "AwaitFirst"

\* The first message of the accepted connection ends the reconnection.
ReadFirst ==
    /\ ReadControl
    /\ phase = "AwaitFirst"
    /\ Head(ControlQueue) = "first"
    /\ ep' = [ep EXCEPT !["client"] =
                EndAcceptReconnection([@ EXCEPT !.controlBuffer = Tail(ControlQueue)])]
    /\ phase' = "Connected"

\* Without a listener a control message is buffered.
BufferControl ==
    /\ ReadControl
    /\ phase \in {"Connected", "Reconnecting"}
    /\ ep' = [ep EXCEPT !["client"].controlBuffer = ControlQueue]
    /\ UNCHANGED phase

-----------------------------------------------------------------------------
(* The server's side: a temporary protocol runs the handshake of socket k. *)

Handshaking(k, state) ==
    /\ handshake[k] = state
    /\ HandsOver \/ Free("server")
    /\ chan[k]["client"] # <<>>

\* What the temporary protocol reads besides control messages is lost: it
\* holds no state of the stream.
SkipMessage(k) ==
    /\ \/ Handshaking(k, "WaitingForAuth")
       \/ Handshaking(k, "WaitingForConnectionType")
       \/ Handshaking(k, "FindingPort")
    /\ Head(chan[k]["client"]).type # "Control"
    /\ Consume(k, "client")
    /\ UNCHANGED <<ep, phase, handshake, open, numSockets, budget>>

ReadAuth(k) ==
    /\ Handshaking(k, "WaitingForAuth")
    /\ Head(chan[k]["client"]).type = "Control"
    /\ chan' = Put([chan EXCEPT ![k]["client"] = Tail(@)],
                   k, "server", <<ControlMessage("sign")>>)
    /\ handshake' = [handshake EXCEPT ![k] = "WaitingForConnectionType"]
    /\ UNCHANGED <<ep, phase, open, numSockets, budget>>

\* The server's protocol moves to socket k, and its old socket is disposed of.
\* Between this step and EndAccept it reads the initial data chunk.
BeginAccept(k, c) ==
    LET old == ep["server"].socket
    IN  /\ chan' = Put(c, old, "server", Written(ep["server"]))
        /\ open' = [open EXCEPT ![old] = FALSE]
        /\ ep' = [ep EXCEPT !["server"] = BeginAcceptReconnection(@, k)]
        /\ handshake' = [handshake EXCEPT ![k] = "Done"]

\* A management connection is accepted in the handler of the message.
ReadConnectionType(k) ==
    /\ ~HandsOver
    /\ Handshaking(k, "WaitingForConnectionType")
    /\ Head(chan[k]["client"]).type = "Control"
    /\ BeginAccept(k, Put([chan EXCEPT ![k]["client"] = Tail(@)],
                          k, "server", <<ControlMessage("first")>>))
    /\ UNCHANGED <<phase, numSockets, budget>>

\* For an extension host the server first awaits a free debug port ...
FindFreePort(k) ==
    /\ HandsOver
    /\ Handshaking(k, "WaitingForConnectionType")
    /\ Head(chan[k]["client"]).type = "Control"
    /\ Consume(k, "client")
    /\ handshake' = [handshake EXCEPT ![k] = "FindingPort"]
    /\ UNCHANGED <<ep, phase, open, numSockets, budget>>

\* MUTANT: the client is not paused.
SendSocketUnpaused(k) ==
    /\ handshake[k] = "FindingPort"
    /\ chan' = Put(chan, k, "server", <<ControlMessage("first")>>)
    /\ handshake' = [handshake EXCEPT ![k] = "InTransit"]
    /\ UNCHANGED <<ep, phase, open, numSockets, budget>>

\* ... pauses the client, and sends the socket on to the other process ...
SendSocket(k) ==
    /\ handshake[k] = "FindingPort"
    /\ chan' = Put(chan, k, "server",
                   <<Message("Pause", 0, 0, NoData), ControlMessage("first")>>)
    /\ handshake' = [handshake EXCEPT ![k] = "InTransit"]
    /\ UNCHANGED <<ep, phase, open, numSockets, budget>>

\* ... which accepts it.
AdoptSocket(k) ==
    /\ handshake[k] = "InTransit"
    /\ Free("server")
    /\ BeginAccept(k, chan)
    /\ UNCHANGED <<phase, numSockets, budget>>

EndAccept ==
    /\ ep["server"].isReconnecting
    /\ ep' = [ep EXCEPT !["server"] =
                IF HandsOver
                THEN Write(EndAcceptReconnection(@), Message("Resume", 0, 0, NoData))
                ELSE EndAcceptReconnection(@)]
    /\ UNCHANGED <<phase, handshake, chan, open, numSockets, budget>>

-----------------------------------------------------------------------------
(* The network *)

Fail(k) ==
    /\ open[k]
    /\ Spend("faults")
    /\ open' = [open EXCEPT ![k] = FALSE]
    /\ UNCHANGED <<ep, phase, handshake, chan, numSockets>>

\* Data that reaches the server while the socket is between two processes.
LoseInTransit(k) ==
    /\ handshake[k] = "InTransit"
    /\ chan[k]["client"] # <<>>
    /\ Consume(k, "client")
    /\ UNCHANGED <<ep, phase, handshake, open, numSockets, budget>>

\* A socket that is not a faithful byte stream.
Lose(k, p) ==
    /\ chan[k][p] # <<>>
    /\ Spend("losses")
    /\ Consume(k, p)
    /\ UNCHANGED <<ep, phase, handshake, open, numSockets>>

-----------------------------------------------------------------------------

EndpointStep(p) ==
    \/ \E d \in Data : Send(p, d)
    \/ \E d \in Data : SendLate(p, d)
    \/ WriteNow(p)
    \/ AckTimer(p)
    \/ KeepAlive(p)
    \/ RecvAckTimerDone(p)
    \/ SocketTimeout(p)
    \/ SocketClose(p)
    \/ \E ask \in BOOLEAN : Read(p, ask)

ServerStep(k) ==
    \/ SkipMessage(k)
    \/ ReadAuth(k)
    \/ ReadConnectionType(k)
    \/ FindFreePort(k)
    \/ SendSocket(k)
    \/ AdoptSocket(k)

NetworkStep(k) ==
    \/ Fail(k)
    \/ LoseInTransit(k)
    \/ \E p \in Side : Lose(k, p)

Next ==
    \/ \E p \in Side : EndpointStep(p)
    \/ BeginAttempt
    \/ AttemptTimeout
    \/ ReadSign
    \/ ReadFirst
    \/ BufferControl
    \/ \E k \in Socket : ServerStep(k)
    \/ EndAccept
    \/ \E k \in Socket : NetworkStep(k)

Spec == Init /\ [][Next]_vars

-----------------------------------------------------------------------------
(* Fairness.  Timers fire, the event loop reads what a working socket holds *)
(* and writes what is buffered, the reconnection loop goes on, an attempt   *)
(* on a dead socket times out.  No fairness is assumed of the user's calls, *)
(* of the network, or (in FairSpec) of the close event of a dead socket.    *)

Working(p) == open[ep[p].socket]

EndpointFairness(p) ==
    /\ WF_vars(WriteNow(p))
    /\ WF_vars(AckTimer(p))
    /\ WF_vars(~Working(p) /\ SocketTimeout(p))
    /\ WF_vars(Working(p) /\ \E ask \in BOOLEAN : Read(p, ask))

ClientFairness ==
    /\ WF_vars(BeginAttempt)
    /\ WF_vars(~Working("client") /\ AttemptTimeout)
    /\ WF_vars(Working("client") /\ (ReadSign \/ ReadFirst \/ BufferControl))

ServerFairness ==
    /\ WF_vars(EndAccept)
    /\ \A k \in Socket : WF_vars(open[k] /\ ServerStep(k))

FairSpec ==
    /\ Spec
    /\ \A p \in Side : EndpointFairness(p)
    /\ ClientFairness
    /\ ServerFairness

\* The operating system eventually reports that the client's socket is dead.
FairCloseSpec == FairSpec /\ WF_vars(SocketClose("client"))

-----------------------------------------------------------------------------
(* Properties *)

Endpoint ==
    [outgoingMsgId      : Nat,
     outgoingAckId      : Nat,
     outgoingUnackMsg   : Seq(ProtocolMessage),
     outgoingAckTimeout : BOOLEAN,
     incomingMsgId      : Nat,
     incomingAckId      : Nat,
     incomingAckTimeout : BOOLEAN,
     isReconnecting     : BOOLEAN,
     socket             : Socket,
     socketClosed       : BOOLEAN,
     writerData         : Seq(ProtocolMessage),
     isPaused           : BOOLEAN,
     writeNowTimeout    : BOOLEAN,
     controlBuffer      : Seq(Data \cup ControlData \cup {NoData}),
     sent               : Seq(Data),
     delivered          : Seq(Data)]

\* The shape of the state.
TypeOK ==
    /\ ep \in [Side -> Endpoint]
    /\ phase \in {"Connected", "Reconnecting", "AwaitSign", "AwaitFirst"}
    /\ handshake \in [Socket -> {"None", "WaitingForAuth",
                        "WaitingForConnectionType", "FindingPort",
                        "InTransit", "Done"}]
    /\ chan \in [Socket -> [Side -> Seq(ProtocolMessage)]]
    /\ open \in [Socket -> BOOLEAN]
    /\ numSockets \in Socket
    /\ budget \in [{"keepAlives", "faults", "losses"} -> Nat]

\* Across any number of socket failures, resends and replays, onMessage fires
\* exactly the payloads the other side gave to send(), once each, in order.
ExactlyOnceInOrder ==
    \A p \in Side :
        /\ Len(ep[p].delivered) <= Len(ep[Peer(p)].sent)
        /\ \A i \in 1..Len(ep[p].delivered) :
              ep[p].delivered[i] = ep[Peer(p)].sent[i]

\* _receiveMessage pops a message from _outgoingUnackMsg only when the other
\* side has delivered it: nothing that may still be needed for a replay goes.
ForgottenOnlyWhenDelivered ==
    \A p \in Side : ep[p].outgoingAckId <= Len(ep[Peer(p)].delivered)

\* The unacknowledged queue holds exactly the messages after _outgoingAckId,
\* in order: the peek()! of _recvAckCheck never meets an empty queue.
UnackQueueExact ==
    \A p \in Side :
        LET e == ep[p]
        IN  /\ Len(e.outgoingUnackMsg) = e.outgoingMsgId - e.outgoingAckId
            /\ \A i \in 1..Len(e.outgoingUnackMsg) :
                  /\ e.outgoingUnackMsg[i].id = e.outgoingAckId + i
                  /\ e.outgoingUnackMsg[i].data = e.sent[e.outgoingAckId + i]

\* No message of the stream reaches a socket while the server's end of it is
\* held by the temporary handshake protocol or is between two processes,
\* where it would be swallowed.
StreamWaitsForAdoption ==
    \A k \in Socket :
        handshake[k] # "Done" =>
            \A i \in 1..Len(chan[k]["client"]) :
                chan[k]["client"][i].type # "Regular"

\* As long as sockets are faithful byte streams a reconnection leaves no gap
\* in what an endpoint reads: the replay request is never needed.
NoGapAfterReconnection ==
    \A p \in Side :
        budget["losses"] = MaxLoss
            /\ CanRead(p) /\ (p = "client" \/ handshake[ep[p].socket] = "Done") =>
            LET msg == Head(Incoming(p))
            IN  msg.type = "Regular" => msg.id <= ep[p].incomingMsgId + 1

\* Every timer that progress depends on is armed when it is needed: the
\* writer's while data waits, the ack's while something received is not yet
\* acknowledged, the socket timeout's while the client waits for an ack.
TimersArmed ==
    \A p \in Side :
        LET e == ep[p]
        IN  /\ e.writerData # <<>> /\ ~e.isPaused => e.writeNowTimeout
            /\ e.incomingMsgId > e.incomingAckId => e.incomingAckTimeout
            /\ (p = "client" /\ phase = "Connected" /\ e.outgoingUnackMsg # <<>>)
                   => e.outgoingAckTimeout

\* A control message of an abandoned attempt (a late sign request or first
\* message) is never left for the listener of the next attempt.
HandshakeStartsClean ==
    phase \in {"AwaitSign", "AwaitFirst"} => ep["client"].controlBuffer = <<>>

\* The endpoints implement a reliable channel in each direction.
Channel ==
    INSTANCE ReliableChannel WITH
        Sides     <- Side,
        Other     <- Peer,
        Payload   <- Data,
        sent      <- [p \in Side |-> ep[p].sent],
        delivered <- [p \in Side |-> ep[p].delivered]

ImplementsChannel == Channel!ChanSpec

\* A silently dead socket, one whose close event never comes, is noticed by
\* the ack timeout: whatever the client sends is eventually delivered.
ClientMessagesDelivered ==
    \A i \in 1..MaxSend["client"] :
        Len(ep["client"].sent) >= i ~> Len(ep["server"].delivered) >= i

\* When dead sockets are reported, the server's messages arrive too.
ServerMessagesDelivered ==
    \A i \in 1..MaxSend["server"] :
        Len(ep["server"].sent) >= i ~> Len(ep["client"].delivered) >= i

\* The queue of unacknowledged messages drains on either side, that of the
\* server when dead sockets are reported: after the pause of the hand-over, a
\* resume, a resend or a piggybacked ack no message is kept for ever.
QueuesDrain ==
    \A p \in Side :
        ep[p].outgoingUnackMsg # <<>> ~> ep[p].outgoingUnackMsg = <<>>

=============================================================================
