------------------------- MODULE RemoteConnections --------------------------
(***************************************************************************)
(* The life cycle of the connections of one window to a remote server: the *)
(* management connection and the connections of its extension hosts.  The  *)
(* client is PersistentConnection (remoteAgentConnection.ts) and its two   *)
(* owners; the server is the remote agent with its ManagementConnection    *)
(* and ExtensionHostConnection objects and the extension host processes.   *)
(*                                                                         *)
(* What travels on an established stream is the subject of the module      *)
(* PersistentProtocol; here a socket is up or down, and a handshake is a   *)
(* request and its answer.  A socket is named by its connection and the    *)
(* number of the attempt that created it; socket 1 is a fresh connection,  *)
(* the others ask for a reconnection.  A clock test becomes true in a step *)
(* of its own, a timer that is armed may fire at any moment.               *)
(***************************************************************************)
EXTENDS Integers, Sequences

CONSTANTS
    Management,       \* the management connection
    ExtensionHosts,   \* the connections of extension hosts
    Opened,           \* the connections that the window opens
    CanDispose,       \* the connections that the window may give up
    MAX_ATTEMPTS,     \* attempts of an initial connection
    MaxSockets,       \* bound: sockets for each connection
    MaxFaults         \* bound: sockets, attempts and processes that fail

Connection == {Management} \cup ExtensionHosts

ASSUME ConnectionsAssumption ==
    /\ Management \notin ExtensionHosts
    /\ Opened \subseteq Connection
    /\ CanDispose \subseteq Connection
    /\ MAX_ATTEMPTS \in Nat \ {0}
    /\ MaxSockets \in Nat \ {0}
    /\ MaxFaults \in Nat

Socket == 1..MaxSockets
NoSocket == 0

VARIABLES
    permanentFailure, \* the static PersistentConnection._permanentFailure
    instances,        \* the static PersistentConnection._instances
    client,           \* client[c]: a PersistentConnection and its protocol
    server,           \* server[c]: what the remote server holds for c
    request,          \* request[c][k]: the server's handling of socket k
    answer,           \* answer[c][k]: the server's last handshake message
    up,               \* up[c][k]: socket k is connected
    farewell,         \* sockets that carry a Disconnect or a Terminate
    ipc,              \* ipc[c]: messages to the extension host process
    faults            \* what is left of MaxFaults

netVars == <<request, answer, up, farewell>>
vars == <<permanentFailure, instances, client, server, request, answer, up,
          farewell, ipc, faults>>

ReduceGraceTime == 0

-----------------------------------------------------------------------------
(* Initial state: nothing is connected. *)

NewClient ==
    [loop         |-> "New",     \* where connecting or reconnecting stands
     attempts     |-> 0,         \* of createInitialConnection
     sock         |-> NoSocket,  \* the protocol's socket
     listens      |-> FALSE,     \* the protocol listens to its socket
     socketClosed |-> FALSE,     \* the close event of the socket has come
     graceOver    |-> FALSE,     \* the loop has run for the grace time
     isDisposed   |-> FALSE,
     failed       |-> FALSE,     \* _gotoPermanentFailure has run
     events       |-> <<>>]      \* what onDidStateChange fired last

NewServer ==
    [status         |-> "None",
     sock           |-> NoSocket,
     socketClosed   |-> FALSE,
     connectionData |-> NoSocket,
     runner1        |-> FALSE,
     runner2        |-> FALSE]

Init ==
    /\ permanentFailure = FALSE
    /\ instances = <<>>
    /\ client = [c \in Connection |-> NewClient]
    /\ server = [c \in Connection |-> NewServer]
    /\ request = [c \in Connection |-> [k \in Socket |-> "None"]]
    /\ answer = [c \in Connection |-> [k \in Socket |-> "None"]]
    /\ up = [c \in Connection |-> [k \in Socket |-> FALSE]]
    /\ farewell = [c \in Connection |-> {}]
    /\ ipc = [c \in Connection |-> <<>>]
    /\ faults = MaxFaults

SpendFault ==
    /\ faults > 0
    /\ faults' = faults - 1

-----------------------------------------------------------------------------
(* PersistentConnection: its methods as operators on the client record. *)

Active == {"Waiting", "Resolving", "Handshaking"}

\* The emitter of a disposed connection is disposed too.
Fire(r, events) == IF r.isDisposed THEN r ELSE [r EXCEPT !.events = events]

\* MUTANT: the owner does not react.
GotoPermanentFailureKept(c, r) ==
    [Fire(r, <<"ReconnectionPermanentFailure">>) EXCEPT
        !.failed = TRUE,
        !.listens = FALSE]

\* The event, and then the protocol and its socket are disposed of.  The
\* owner of the management connection reacts by disposing of the connection.
GotoPermanentFailure(c, r) ==
    [Fire(r, <<"ReconnectionPermanentFailure">>) EXCEPT
        !.failed = TRUE,
        !.listens = FALSE,
        !.isDisposed = @ \/ c = Management]

\* A connection that is disposed of is spliced out of the array.
WithoutInstance(c) ==
    IF \E i \in 1..Len(instances) : instances[i] = c
    THEN LET i == CHOOSE j \in 1..Len(instances) : instances[j] = c
         IN  SubSeq(instances, 1, i - 1) \o SubSeq(instances, i + 1, Len(instances))
    ELSE instances

\* The instances forEach visits: the management connection takes itself out
\* of the array during its visit, which makes forEach skip the next one.
Reached ==
    {instances[i] : i \in {j \in 1..Len(instances) :
        j = 1 \/ instances[j - 1] # Management}}

\* The connections of S fail, with the client records cl.
Fail(S, cl) ==
    /\ client' = [c \in Connection |->
                    IF c \in S THEN GotoPermanentFailure(c, cl[c]) ELSE cl[c]]
    /\ up' = [c \in Connection |-> [k \in Socket |->
                up[c][k] /\ ~(c \in S /\ k = cl[c].sock)]]
    /\ instances' = IF Management \in S THEN WithoutInstance(Management)
                    ELSE instances

TriggerPermanentFailure(cl) ==
    /\ permanentFailure' = TRUE
    /\ Fail(Reached, cl)

\* A failure to reconnect is fatal for all when it is the management's.
OnReconnectionPermanentFailure(c, cl) ==
    IF c = Management
    THEN TriggerPermanentFailure(cl)
    ELSE /\ Fail({c}, cl)
         /\ UNCHANGED permanentFailure

\* The client's protocol moves to socket k: its old socket goes.
MoveTo(r, k) ==
    [r EXCEPT !.sock = k, !.listens = TRUE, !.socketClosed = FALSE]

NextSocket(c) == client[c].sock + 1

OpenSocket(c) ==
    /\ NextSocket(c) \in Socket
    /\ up' = [up EXCEPT ![c] = [k \in Socket |->
                IF k = client[c].sock THEN FALSE ELSE @[k] \/ k = NextSocket(c)]]
    /\ request' = [request EXCEPT ![c][NextSocket(c)] = "Pending"]

-----------------------------------------------------------------------------
(* The initial connection *)

BeginInitialAttempt(c) ==
    /\ c \in Opened
    /\ client[c].loop = "New"
    /\ OpenSocket(c)
    /\ client' = [client EXCEPT ![c] =
                    [MoveTo(@, NextSocket(c)) EXCEPT !.loop = "Connecting"]]
    /\ UNCHANGED <<permanentFailure, instances, server, answer, farewell, ipc, faults>>

\* MUTANT: one attempt too many.
InitialAttemptFailsOnceMore(c) ==
    LET r == [client[c] EXCEPT !.attempts = @ + 1]
    IN  /\ c \in Opened
        /\ client[c].loop = "New"
        /\ IF r.attempts <= MAX_ATTEMPTS
           THEN /\ client' = [client EXCEPT ![c] = r]
                /\ UNCHANGED <<permanentFailure, instances, up>>
           ELSE TriggerPermanentFailure(
                    [client EXCEPT ![c] = [r EXCEPT !.loop = "Failed"]])
        /\ SpendFault
        /\ UNCHANGED <<server, request, answer, farewell, ipc>>

\* An attempt that fails before the server creates anything: another one
\* follows, with a new token, up to MAX_ATTEMPTS.
InitialAttemptFails(c) ==
    LET r == [client[c] EXCEPT !.attempts = @ + 1]
    IN  /\ c \in Opened
        /\ client[c].loop = "New"
        /\ IF r.attempts < MAX_ATTEMPTS
           THEN /\ client' = [client EXCEPT ![c] = r]
                /\ UNCHANGED <<permanentFailure, instances, up>>
           ELSE TriggerPermanentFailure(
                    [client EXCEPT ![c] = [r EXCEPT !.loop = "Failed"]])
        /\ SpendFault
        /\ UNCHANGED <<server, request, answer, farewell, ipc>>

CanReadAnswer(c, what) ==
    /\ client[c].listens
    /\ ~client[c].socketClosed
    /\ answer[c][client[c].sock] = what

\* The constructor; a connection that comes after a permanent failure fails.
Construct(c) ==
    LET r == Fire([client[c] EXCEPT !.loop = "Idle"], <<"ConnectionGain">>)
    IN  /\ client[c].loop = "Connecting"
        /\ CanReadAnswer(c, "ok")
        /\ IF permanentFailure
           THEN /\ client' = [client EXCEPT ![c] = GotoPermanentFailure(c, r)]
                /\ up' = [up EXCEPT ![c][r.sock] = FALSE]
           ELSE /\ client' = [client EXCEPT ![c] = r]
                /\ UNCHANGED up
        /\ instances' = IF permanentFailure /\ c = Management THEN instances
                        ELSE Append(instances, c)
        /\ UNCHANGED <<permanentFailure, server, request, answer, farewell, ipc, faults>>

-----------------------------------------------------------------------------
(* The reconnection loop *)

\* _beginReconnecting: one loop at a time; the first attempt does not wait.
BeginReconnecting(r) ==
    IF r.loop # "Idle" \/ r.isDisposed \/ permanentFailure THEN r
    ELSE [Fire(r, <<"ConnectionLost", "ReconnectionRunning">>) EXCEPT
            !.loop = "Resolving",
            !.graceOver = FALSE]

SocketClose(c) ==
    /\ client[c].listens
    /\ ~client[c].socketClosed
    /\ ~up[c][client[c].sock]
    /\ client' = [client EXCEPT ![c] =
                    BeginReconnecting([@ EXCEPT !.socketClosed = TRUE])]
    /\ UNCHANGED <<permanentFailure, instances, server, netVars, ipc, faults>>

\* onSocketTimeout: the socket may be one that works.
SocketTimeout(c) ==
    /\ client[c].loop = "Idle"
    /\ client[c].listens
    /\ ~client[c].isDisposed
    /\ SpendFault
    /\ client' = [client EXCEPT ![c] = BeginReconnecting(@)]
    /\ UNCHANGED <<permanentFailure, instances, server, netVars, ipc>>

\* The sleep between two attempts ends, by itself or by skipWait().
WaitDone(c) ==
    /\ client[c].loop = "Waiting"
    /\ client' = [client EXCEPT ![c] =
                    IF permanentFailure
                    THEN [@ EXCEPT !.loop = "Idle"]
                    ELSE [Fire(@, <<"ReconnectionRunning">>) EXCEPT !.loop = "Resolving"]]
    /\ UNCHANGED <<permanentFailure, instances, server, netVars, ipc, faults>>

\* The address is resolved and the socket created: the handshake begins.
BeginAttempt(c) ==
    /\ client[c].loop = "Resolving"
    /\ OpenSocket(c)
    /\ client' = [client EXCEPT ![c] =
                    [MoveTo(@, NextSocket(c)) EXCEPT !.loop = "Handshaking"]]
    /\ UNCHANGED <<permanentFailure, instances, server, answer, farewell, ipc, faults>>

HandshakeOk(c) ==
    /\ client[c].loop = "Handshaking"
    /\ CanReadAnswer(c, "ok")
    /\ client' = [client EXCEPT ![c] =
                    [Fire(@, <<"ConnectionGain">>) EXCEPT !.loop = "Idle"]]
    \* endAcceptReconnection sends the unacknowledged Terminate again
    /\ farewell' = [farewell EXCEPT ![c] =
                    IF /\ c # Management /\ client[c].isDisposed
                       /\ up[c][client[c].sock]
                    THEN @ \cup {client[c].sock} ELSE @]
    /\ UNCHANGED <<permanentFailure, instances, server, request, answer, up, ipc, faults>>

Idle(c) == [client EXCEPT ![c].loop = "Idle"]

\* The server refuses: a VSCODE_CONNECTION_ERROR.
HandshakeError(c) ==
    /\ client[c].loop = "Handshaking"
    /\ CanReadAnswer(c, "error")
    /\ OnReconnectionPermanentFailure(c, Idle(c))
    /\ UNCHANGED <<server, request, answer, farewell, ipc, faults>>

\* Resolving, connecting or the handshake fails or times out.
AttemptCanFail(c) ==
    /\ client[c].loop \in {"Resolving", "Handshaking"}
    /\ IF client[c].loop = "Handshaking" /\ client[c].listens /\ up[c][client[c].sock]
       THEN SpendFault
       ELSE UNCHANGED faults

\* MUTANT: the grace time is not looked at.
RetryForever(c) ==
    /\ AttemptCanFail(c)
    /\ client' = [client EXCEPT ![c] =
                    IF permanentFailure \/ client[c].isDisposed
                    THEN [@ EXCEPT !.loop = "Idle"]
                    ELSE [Fire(@, <<"ReconnectionWait">>) EXCEPT !.loop = "Waiting"]]
    /\ UNCHANGED <<permanentFailure, instances, server, netVars, ipc>>

\* A network error or a timeout, within the grace time.
Retry(c) ==
    /\ AttemptCanFail(c)
    /\ ~client[c].graceOver
    /\ client' = [client EXCEPT ![c] =
                    IF permanentFailure \/ client[c].isDisposed
                    THEN [@ EXCEPT !.loop = "Idle"]
                    ELSE [Fire(@, <<"ReconnectionWait">>) EXCEPT !.loop = "Waiting"]]
    /\ UNCHANGED <<permanentFailure, instances, server, netVars, ipc>>

\* Any error after the grace time, and a resolver's or an unknown error.
GiveUp(c) ==
    /\ AttemptCanFail(c)
    /\ OnReconnectionPermanentFailure(c, Idle(c))
    /\ UNCHANGED <<server, request, answer, farewell, ipc>>

GraceTimePasses(c) ==
    /\ client[c].loop \in Active
    /\ ~client[c].graceOver
    /\ client' = [client EXCEPT ![c].graceOver = TRUE]
    /\ UNCHANGED <<permanentFailure, instances, server, netVars, ipc, faults>>

\* The owner gives the connection up.  endConnection() sends a Disconnect;
\* RemoteExtensionHost.dispose() sends Terminate and Disconnect, which a
\* writer that is paused keeps to itself, and ends the socket.
Dispose(c) ==
    LET k == client[c].sock
    IN  /\ c \in CanDispose
        /\ client[c].loop \in Active \cup {"Idle"}
        /\ ~client[c].isDisposed
        /\ client' = [client EXCEPT ![c].isDisposed = TRUE]
        /\ instances' = WithoutInstance(c)
        /\ farewell' = [farewell EXCEPT ![c] =
                IF up[c][k] /\ (c = Management \/ server[c].sock = k)
                THEN @ \cup {k} ELSE @]
        /\ up' = [up EXCEPT ![c][k] = @ /\ c = Management]
        /\ UNCHANGED <<permanentFailure, server, request, answer, ipc, faults>>

-----------------------------------------------------------------------------
(* The server: handshakes *)

\* The extension host process has been launched and has not exited.
HasProcess(c) == server[c].status \in {"Forked", "Ready", "Live", "Exiting"}

Schedule2(r) == [r EXCEPT !.runner2 = @ \/ r.runner1]

\* Any client that completes a handshake shortens the grace time of all the
\* connections that are disconnected.
Shortened == [server EXCEPT ![Management] = Schedule2(@)]

SendReduceGraceTime ==
    ipc' = [c \in Connection |->
              IF c # Management /\ HasProcess(c)
              THEN Append(ipc[c], ReduceGraceTime) ELSE ipc[c]]

Reject(c, k) ==
    /\ answer' = [answer EXCEPT ![c][k] = "error"]
    /\ up' = [up EXCEPT ![c][k] = FALSE]

\* MUTANT: the short timer goes on.
AcceptReconnectionStillShort(r, k) ==
    [r EXCEPT !.status = "Live", !.sock = k, !.socketClosed = FALSE,
              !.runner1 = FALSE]

\* The protocol of r moves to socket k, and the timers are cancelled.
AcceptReconnection(r, k) ==
    [r EXCEPT !.status = "Live", !.sock = k, !.socketClosed = FALSE,
              !.runner1 = FALSE, !.runner2 = FALSE]

\* MUTANT: the old socket is kept.
ReplaceNothing(c, k) == UNCHANGED up

\* The socket that the server's protocol leaves for socket k goes.
Replace(c, k) ==
    up' = [up EXCEPT ![c] = [j \in Socket |->
            @[j] /\ ~(j = server[c].sock /\ j # k)]]

\* The connection type message of a management connection: in one handler
\* the grace times are shortened and the connection is created, taken up
\* again, or refused because it is no longer there.
HandleManagement(k) ==
    /\ request[Management][k] = "Pending"
    /\ request' = [request EXCEPT ![Management][k] = "Done"]
    /\ SendReduceGraceTime
    /\ IF k = 1 \/ server[Management].status = "Live"
       THEN /\ server' = [Shortened EXCEPT ![Management] = AcceptReconnection(@, k)]
            /\ Replace(Management, k)
            /\ answer' = [answer EXCEPT ![Management][k] = "ok"]
       ELSE /\ server' = Shortened
            /\ Reject(Management, k)
    /\ UNCHANGED <<permanentFailure, instances, client, farewell, faults>>

\* For an extension host the server then awaits a free debug port.
HandleExtensionHost(c, k) ==
    /\ request[c][k] = "Pending"
    /\ request' = [request EXCEPT ![c][k] = "FindingPort"]
    /\ SendReduceGraceTime
    /\ server' = Shortened
    /\ UNCHANGED <<permanentFailure, instances, client, answer, up, farewell, faults>>

\* The socket is kept for a process that is not there yet.
KeepSocket(r, k) ==
    [r EXCEPT !.connectionData = k,
              !.status = IF k = 1 THEN "Starting" ELSE r.status]

\* With the port the connection is created or taken up again.  A process
\* that is not there yet gets the latest socket, others get it by message.
AcceptExtensionHost(c, k) ==
    /\ request[c][k] = "FindingPort"
    /\ request' = [request EXCEPT ![c][k] = IF HasProcess(c) THEN "Draining" ELSE "Done"]
    /\ IF k = 1 \/ server[c].status \notin {"None", "Gone"}
       THEN /\ answer' = [answer EXCEPT ![c][k] = "ok"]
            /\ server' = [server EXCEPT ![c] =
                 IF HasProcess(c) THEN @ ELSE KeepSocket(@, k)]
            /\ UNCHANGED up
       ELSE /\ Reject(c, k)
            /\ UNCHANGED server
    /\ UNCHANGED <<permanentFailure, instances, client, farewell, ipc, faults>>

-----------------------------------------------------------------------------
(* The server: the extension host process of c *)

Fork(c) ==
    /\ server[c].status = "Starting"
    /\ server' = [server EXCEPT ![c].status = "Forked"]
    /\ UNCHANGED <<permanentFailure, instances, client, netVars, ipc, faults>>

\* start() throws: the error is logged, and the connection stays.
StartFails(c) ==
    /\ server[c].status = "Starting"
    /\ SpendFault
    /\ server' = [server EXCEPT ![c].status = "NotStarted"]
    /\ UNCHANGED <<permanentFailure, instances, client, netVars, ipc>>

\* The process asks for the socket of the connection.
Ready(c) ==
    /\ server[c].status = "Forked"
    /\ server' = [server EXCEPT ![c].status = "Ready", ![c].connectionData = NoSocket]
    /\ request' = [request EXCEPT ![c][server[c].connectionData] = "Draining"]
    /\ UNCHANGED <<permanentFailure, instances, client, answer, up, farewell, ipc, faults>>

\* A socket is drained and sent; a process that is gone does not get it.
SendSocket(c, k) ==
    /\ request[c][k] = "Draining"
    /\ request' = [request EXCEPT ![c][k] = "Done"]
    /\ ipc' = [ipc EXCEPT ![c] = IF HasProcess(c) THEN Append(@, k) ELSE @]
    /\ UNCHANGED <<permanentFailure, instances, client, server, answer, up, farewell, faults>>

HasMessage(c) ==
    /\ server[c].status \in {"Ready", "Live"}
    /\ ipc[c] # <<>>
    /\ ipc' = [ipc EXCEPT ![c] = Tail(@)]

ReceiveReduceGraceTime(c) ==
    /\ HasMessage(c)
    /\ Head(ipc[c]) = ReduceGraceTime
    /\ server' = [server EXCEPT ![c] = Schedule2(@)]
    /\ UNCHANGED <<permanentFailure, instances, client, netVars, faults>>

\* The first socket makes the protocol, a later one reconnects it.  What a
\* dead socket carried does not arrive.
ReceiveSocket(c) ==
    LET k == Head(ipc[c])
    IN  /\ HasMessage(c)
        /\ k # ReduceGraceTime
        /\ server' = [server EXCEPT ![c] = AcceptReconnection(@, k)]
        /\ Replace(c, k)
        /\ farewell' = [farewell EXCEPT ![c] = IF up[c][k] THEN @ ELSE @ \ {k}]
        /\ UNCHANGED <<permanentFailure, instances, client, request, answer, faults>>

\* A socket that was closed before it was sent comes without a handle, and
\* the handler throws.
ReceiveNoHandle(c) ==
    /\ HasMessage(c)
    /\ Head(ipc[c]) # ReduceGraceTime
    /\ ~up[c][Head(ipc[c])]
    /\ UNCHANGED <<permanentFailure, instances, client, server, netVars, faults>>

\* _cleanResources of a management connection; onTerminate of a process.
End(c) ==
    /\ server' = [server EXCEPT
            ![c].status = IF c = Management THEN "Gone" ELSE "Exiting",
            ![c].runner1 = FALSE, ![c].runner2 = FALSE]
    /\ up' = [up EXCEPT ![c] = [k \in Socket |->
                @[k] /\ ~(c = Management /\ k = server[c].sock)]]

\* No socket came for 60 seconds.
SocketMessageTimeout(c) ==
    /\ server[c].status = "Ready"
    /\ End(c)
    /\ UNCHANGED <<permanentFailure, instances, client, request, answer, farewell, ipc, faults>>

\* The process exits, by itself or because it crashes, and with it go its
\* sockets, the ones under way to it and the one kept for it.
ProcessExit(c) ==
    /\ HasProcess(c)
    /\ IF server[c].status = "Exiting" THEN UNCHANGED faults ELSE SpendFault
    /\ server' = [server EXCEPT ![c] = [NewServer EXCEPT !.status = "Gone"]]
    /\ up' = [up EXCEPT ![c] = [k \in Socket |->
                @[k] /\ k # server[c].sock /\ k # server[c].connectionData
                     /\ \A i \in 1..Len(ipc[c]) : ipc[c][i] # k]]
    /\ ipc' = [ipc EXCEPT ![c] = <<>>]
    /\ UNCHANGED <<permanentFailure, instances, client, request, answer, farewell>>

-----------------------------------------------------------------------------
(* The server: the end of a connection *)

\* MUTANT: no timer is started.
ServerSocketCloseIgnored(c) ==
    /\ server[c].status = "Live"
    /\ ~up[c][server[c].sock]
    /\ ~server[c].socketClosed
    /\ server' = [server EXCEPT ![c].socketClosed = TRUE]
    /\ UNCHANGED <<permanentFailure, instances, client, netVars, ipc, faults>>

\* The close event of the server's socket starts the grace time.
ServerSocketClose(c) ==
    /\ server[c].status = "Live"
    /\ ~up[c][server[c].sock]
    /\ ~server[c].socketClosed
    /\ server' = [server EXCEPT ![c].socketClosed = TRUE, ![c].runner1 = TRUE]
    /\ UNCHANGED <<permanentFailure, instances, client, netVars, ipc, faults>>

GraceExpires(c) ==
    /\ server[c].status = "Live"
    /\ server[c].runner1 \/ server[c].runner2
    /\ End(c)
    /\ UNCHANGED <<permanentFailure, instances, client, request, answer, farewell, ipc, faults>>

\* A Disconnect or a Terminate arrives.
ReadFarewell(c) ==
    /\ server[c].status = "Live"
    /\ server[c].sock \in farewell[c]
    /\ ~server[c].socketClosed
    /\ End(c)
    /\ farewell' = [farewell EXCEPT ![c] = @ \ {server[c].sock}]
    /\ UNCHANGED <<permanentFailure, instances, client, request, answer, ipc, faults>>

\* The temporary protocol of the handshake has no ear for a Disconnect.
SwallowFarewell(c, k) ==
    /\ request[c][k] = "Pending"
    /\ k \in farewell[c]
    /\ farewell' = [farewell EXCEPT ![c] = @ \ {k}]
    /\ UNCHANGED <<permanentFailure, instances, client, server, request, answer, up, ipc, faults>>

-----------------------------------------------------------------------------
(* The network *)

SocketFails(c, k) ==
    /\ up[c][k]
    /\ SpendFault
    /\ up' = [up EXCEPT ![c][k] = FALSE]
    /\ \E lost \in SUBSET {k} : farewell' = [farewell EXCEPT ![c] = @ \ lost]
    /\ UNCHANGED <<permanentFailure, instances, client, server, request, answer, ipc>>

-----------------------------------------------------------------------------

ClientStep(c) ==
    \/ BeginInitialAttempt(c)
    \/ InitialAttemptFails(c)
    \/ Construct(c)
    \/ SocketClose(c)
    \/ SocketTimeout(c)
    \/ WaitDone(c)
    \/ BeginAttempt(c)
    \/ HandshakeOk(c)
    \/ HandshakeError(c)
    \/ Retry(c)
    \/ GiveUp(c)
    \/ GraceTimePasses(c)
    \/ Dispose(c)

HostStep(c) ==
    \/ Fork(c)
    \/ StartFails(c)
    \/ Ready(c)
    \/ ReceiveReduceGraceTime(c)
    \/ ReceiveSocket(c)
    \/ ReceiveNoHandle(c)
    \/ SocketMessageTimeout(c)
    \/ ProcessExit(c)
    \/ \E k \in Socket :
        \/ HandleExtensionHost(c, k)
        \/ AcceptExtensionHost(c, k)
        \/ SendSocket(c, k)

ServerStep(c) ==
    \/ ServerSocketClose(c)
    \/ GraceExpires(c)
    \/ ReadFarewell(c)
    \/ \E k \in Socket : SwallowFarewell(c, k)

Next ==
    \/ \E c \in Connection : ClientStep(c) \/ ServerStep(c)
    \/ \E k \in Socket : HandleManagement(k)
    \/ \E c \in ExtensionHosts : HostStep(c)
    \/ \E c \in Connection, k \in Socket : SocketFails(c, k)

Spec == Init /\ [][Next]_vars

-----------------------------------------------------------------------------
(* Fairness.  Every await of the reconnection loop settles and the clock    *)
(* runs; the server handles what a working socket brings, an extension      *)
(* host process starts, answers and exits, timers fire, and the server is   *)
(* told that a socket is dead.  Nothing is assumed of users or faults.      *)

LoopFairness(c) ==
    /\ WF_vars(GraceTimePasses(c))
    /\ WF_vars(WaitDone(c))
    /\ WF_vars(BeginAttempt(c) \/ HandshakeOk(c) \/ HandshakeError(c)
               \/ Retry(c) \/ GiveUp(c))

HandshakeFairness(c) ==
    \A k \in Socket :
        WF_vars(/\ up[c][k] /\ k = client[c].sock
                /\ IF c = Management THEN HandleManagement(k)
                   ELSE HandleExtensionHost(c, k))

HostFairness(c) ==
    /\ WF_vars(Fork(c))
    /\ WF_vars(Ready(c))
    /\ WF_vars(ReceiveReduceGraceTime(c) \/ ReceiveSocket(c) \/ ReceiveNoHandle(c))
    /\ WF_vars(SocketMessageTimeout(c))
    /\ WF_vars(server[c].status = "Exiting" /\ ProcessExit(c))
    /\ \A k \in Socket : WF_vars(AcceptExtensionHost(c, k)) /\ WF_vars(SendSocket(c, k))

FairSpec ==
    /\ Spec
    /\ \A c \in Connection :
        /\ LoopFairness(c)
        /\ HandshakeFairness(c)
        /\ WF_vars(ServerSocketClose(c))
        /\ WF_vars(GraceExpires(c))
    /\ \A c \in ExtensionHosts : HostFairness(c)

-----------------------------------------------------------------------------
(* Properties *)

Event ==
    {"ConnectionGain", "ConnectionLost", "ReconnectionWait",
     "ReconnectionRunning", "ReconnectionPermanentFailure"}

ClientRecord ==
    [loop         : Active \cup {"New", "Connecting", "Idle", "Failed"},
     attempts     : 0..MAX_ATTEMPTS,
     sock         : Socket \cup {NoSocket},
     listens      : BOOLEAN,
     socketClosed : BOOLEAN,
     graceOver    : BOOLEAN,
     isDisposed   : BOOLEAN,
     failed       : BOOLEAN,
     events       : Seq(Event)]

ServerRecord ==
    [status : {"None", "Starting", "NotStarted", "Forked", "Ready", "Live",
               "Exiting", "Gone"},
     sock           : Socket \cup {NoSocket},
     socketClosed   : BOOLEAN,
     connectionData : Socket \cup {NoSocket},
     runner1        : BOOLEAN,
     runner2        : BOOLEAN]

\* The shape of the state.
TypeOK ==
    /\ permanentFailure \in BOOLEAN
    /\ instances \in Seq(Connection)
    /\ client \in [Connection -> ClientRecord]
    /\ server \in [Connection -> ServerRecord]
    /\ request \in [Connection -> [Socket -> {"None", "Pending", "FindingPort",
                                              "Draining", "Done"}]]
    /\ answer \in [Connection -> [Socket -> {"None", "ok", "error"}]]
    /\ up \in [Connection -> [Socket -> BOOLEAN]]
    /\ farewell \in [Connection -> SUBSET Socket]
    /\ ipc \in [Connection -> Seq(Socket \cup {ReduceGraceTime})]
    /\ faults \in 0..MaxFaults

\* The long and the short grace timer run only while the socket of the
\* connection is dead: no connection is thrown away under a client that is
\* connected, whatever reconnections and reduce messages cross.
GraceOnlyWhenDisconnected ==
    \A c \in Connection :
        server[c].runner1 \/ server[c].runner2 => ~up[c][server[c].sock]

\* Client and server agree on the socket of the management connection: one
\* the client counts on (its handshake is done and nobody has closed it) is
\* the socket of a live connection of the server, also when requests of
\* attempts that were given up are handled after newer ones.
ConnectedIsServed ==
    LET k == client[Management].sock
    IN  /\ client[Management].loop = "Idle"
        /\ answer[Management][k] = "ok"
        /\ up[Management][k]
        => /\ server[Management].status = "Live"
           /\ server[Management].sock = k

\* The events the code lets the window see one after the other
Transitions ==
    {<<"ConnectionGain", "ConnectionLost">>,
     <<"ConnectionGain", "ReconnectionPermanentFailure">>,
     <<"ConnectionLost", "ReconnectionRunning">>,
     <<"ReconnectionWait", "ReconnectionRunning">>,
     <<"ReconnectionWait", "ReconnectionPermanentFailure">>,
     <<"ReconnectionRunning", "ConnectionGain">>,
     <<"ReconnectionRunning", "ReconnectionWait">>,
     <<"ReconnectionRunning", "ReconnectionPermanentFailure">>}

Follows(table, before, after) ==
    LET s == (IF before = <<>> THEN <<>> ELSE <<before[Len(before)]>>) \o after
    IN  \A i \in 1..(Len(s) - 1) : <<s[i], s[i + 1]>> \in table

\* The events the window sees of the management connection come in the order
\* of Transitions.  A permanent failure is the last one, also when it strikes
\* from another connection in the middle of an attempt, and no attempt starts
\* without the loss being announced.
EventOrder ==
    [][ client[Management].events # client[Management].events' =>
          Follows(Transitions, client[Management].events,
                  client[Management].events') ]_vars

\* The events the listener of the window expects one after the other
\* (workbench/contrib/remote/browser/remote.ts, "Possible state transitions")
DocumentedTransitions ==
    {<<"ConnectionGain", "ConnectionLost">>,
     <<"ConnectionLost", "ReconnectionWait">>,
     <<"ConnectionLost", "ReconnectionRunning">>,
     <<"ReconnectionWait", "ReconnectionRunning">>,
     <<"ReconnectionRunning", "ConnectionGain">>,
     <<"ReconnectionRunning", "ReconnectionPermanentFailure">>}

\* The events of the management connection come in the order its listener in
\* the window documents.  The code has three more: a failed attempt is followed
\* by a wait, and a failure for good that strikes from another connection
\* follows a wait or finds the connection in good order.
DocumentedEventOrder ==
    [][ client[Management].events # client[Management].events' =>
          Follows(DocumentedTransitions, client[Management].events,
                  client[Management].events') ]_vars

\* A permanent failure is fatal for every connection of the window: each one
\* that exists has been told and has given up its socket.
FailureReachesAll ==
    permanentFailure =>
        \A i \in 1..Len(instances) : client[instances[i]].failed

\* A reconnection loop comes to an end: the connection is back, or it has
\* failed for good, or it is not wanted any more.
LoopEnds ==
    \A c \in Connection : client[c].loop \in Active ~> client[c].loop = "Idle"

\* The client has gone for good.
Abandoned(c) ==
    /\ client[c].loop = "Idle"
    /\ client[c].failed \/ client[c].isDisposed
    /\ ~up[c][client[c].sock]

\* What the server holds for a connection whose client has gone for good is
\* released, without a Disconnect too: connections, processes and timers.
\* (A connection whose process could not be started stays: see StartFails.)
AbandonedIsReleased ==
    \A c \in Connection :
        Abandoned(c) ~> server[c].status \in {"Gone", "NotStarted"}

=============================================================================
