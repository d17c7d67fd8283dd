-------------------------- MODULE ManagementProofs --------------------------
(***************************************************************************)
(* Theorems about the management connection of a window (RemoteConnections)*)
(* that need more than the shape of the state: the client and the server   *)
(* agree on its socket, and the window sees its events in order.           *)
(***************************************************************************)
EXTENDS RemoteConnectionsProofs

-----------------------------------------------------------------------------
(* The invariants *)

\* Only a socket with a request has an answer, and of all the sockets that
\* were accepted at most one works: the one of the live connection.
AgreeInv ==
    \A k \in Socket :
        /\ answer[Management][k] # "None" => request[Management][k] # "None"
        /\ answer[Management][k] = "ok" /\ up[Management][k] =>
              /\ server[Management].status = "Live"
              /\ server[Management].sock = k

Constructed == Active \cup {"Idle"}

\* The events that the window saw last, while the loop is where it is.
LastEvents(loop) ==
    CASE loop = "Idle"    -> {<<"ConnectionGain">>}
      [] loop = "Waiting" -> {<<"ReconnectionWait">>}
      [] OTHER            -> {<<"ReconnectionRunning">>,
                              <<"ConnectionLost", "ReconnectionRunning">>}

\* The management connection is in the array at most once.
Listed == \E i \in 1..Len(instances) : instances[i] = Management

ListedOnce ==
    \A i, j \in 1..Len(instances) :
        instances[i] = Management /\ instances[j] = Management => i = j

\* Only a connection that was constructed is in the array.  As long as it is
\* not disposed of it is there, so that no permanent failure can pass it by,
\* and its last events tell where its loop is.
EventInv ==
    LET r == client[Management]
    IN  /\ ListedOnce
        /\ Listed => r.loop \in Constructed
        /\ r.loop \notin Constructed => r.events = <<>>
        /\ r.loop \in Constructed /\ ~r.isDisposed =>
              /\ ~permanentFailure
              /\ Listed
              /\ r.events \in LastEvents(r.loop)

-----------------------------------------------------------------------------
(* Agreement on the socket *)

\* A step that answers no handshake of the management connection, leaves its
\* record on the server alone and brings no socket of it up.
Silent ==
    /\ answer'[Management] = answer[Management]
    /\ \A k \in Socket :
          request[Management][k] # "None" => request'[Management][k] # "None"
    /\ server'[Management].status = server[Management].status
    /\ server'[Management].sock = server[Management].sock
    /\ \A k \in Socket : up'[Management][k] => up[Management][k]

\* Such a step keeps the agreement.
LEMMA SilentKeeps ==
    ASSUME AgreeInv, Silent
    PROVE  AgreeInv'
BY DEF AgreeInv, Silent

\* The management connection is a connection, and no extension host.
LEMMA ManagementFacts ==
    /\ Management \in Connection
    /\ \A c \in ExtensionHosts : c \in Connection /\ c # Management
BY ConnectionsAssumption DEF Connection

\* A permanent failure only closes sockets.
LEMMA FailSilent ==
    ASSUME TypeOK, NEW S, NEW cl \in [Connection -> ClientRecord], Fail(S, cl),
           UNCHANGED <<server, request, answer>>
    PROVE  Silent
BY FailKeeps, ManagementFacts DEF Silent

\* The next socket was not known to the server, so it has no answer.
LEMMA OpenSocketAgrees ==
    ASSUME IInv, AgreeInv, NEW c \in Connection, OpenSocket(c),
           UNCHANGED <<server, answer>>
    PROVE  AgreeInv'
<1>1. /\ up \in [Connection -> [Socket -> BOOLEAN]]
      /\ request \in [Connection -> [Socket -> RequestState]]
      /\ client[c] \in ClientRecord
  BY DEF IInv, TypeOK, RequestState
<1>2. NextSocket(c) \in Socket /\ Management \in Connection
  BY ManagementFacts DEF OpenSocket
<1>3. request[c][NextSocket(c)] = "None"
  <2>1. client[c].sock \in Int /\ NextSocket(c) = client[c].sock + 1
    BY <1>1 DEF ClientRecord, Socket, NoSocket, NextSocket
  <2>2. request[c][NextSocket(c)] # "None" => NextSocket(c) <= client[c].sock
    BY <1>2 DEF IInv, SocketsKnown
  <2> QED BY <2>1, <2>2
<1>4. \A k \in Socket :
        /\ request[Management][k] # "None" => request'[Management][k] # "None"
        /\ up'[Management][k] => \/ up[Management][k]
                                 \/ c = Management /\ k = NextSocket(c)
  BY <1>1, <1>2 DEF OpenSocket
<1> QED BY <1>3, <1>4 DEF AgreeInv

\* The handlers of the client.
LEMMA ClientStepAgrees ==
    ASSUME IInv, AgreeInv, NEW c \in Connection, ClientStep(c)
    PROVE  AgreeInv'
<1>1. /\ up \in [Connection -> [Socket -> BOOLEAN]]
      /\ client \in [Connection -> ClientRecord]
      /\ TypeOK
  BY DEF IInv, TypeOK
<1>2. Management \in Connection
  BY ManagementFacts
<1>3. CASE BeginInitialAttempt(c) \/ BeginAttempt(c)
  BY <1>3, OpenSocketAgrees DEF BeginInitialAttempt, BeginAttempt
<1>4. CASE UNCHANGED <<server, request, answer, up>>
  BY <1>4, SilentKeeps DEF Silent
<1>5. CASE Construct(c)
  <2>1. /\ UNCHANGED <<server, request, answer>>
        /\ \/ up' = up
           \/ \E k : up' = [up EXCEPT ![c][k] = FALSE]
    BY <1>5 DEF Construct
  <2> QED BY <1>1, <1>2, <2>1, SilentKeeps DEF Silent
<1>6. CASE Dispose(c)
  <2>1. /\ UNCHANGED <<server, request, answer>>
        /\ up' = [up EXCEPT ![c][client[c].sock] = @ /\ c = Management]
    BY <1>6 DEF Dispose
  <2> QED BY <1>1, <1>2, <2>1, SilentKeeps DEF Silent
<1>7. ASSUME NEW r \in ClientRecord, NEW S, Fail(S, [client EXCEPT ![c] = r]),
             UNCHANGED <<server, request, answer>>
      PROVE  AgreeInv'
  <2>1. [client EXCEPT ![c] = r] \in [Connection -> ClientRecord]
    BY <1>1
  <2>2. Silent
    BY <1>1, <1>7, <2>1, FailSilent
  <2> QED BY <2>2, SilentKeeps
<1>8. CASE InitialAttemptFails(c)
  <2> DEFINE r1 == [client[c] EXCEPT !.attempts = @ + 1]
             r2 == [r1 EXCEPT !.loop = "Failed"]
  <2>1. /\ UNCHANGED <<server, request, answer>>
        /\ \/ up' = up
           \/ TriggerPermanentFailure([client EXCEPT ![c] = r2])
    BY <1>8 DEF InitialAttemptFails
  <2>2. r2 \in ClientRecord
    <3>1. client[c].attempts + 1 \in 0..MAX_ATTEMPTS
      BY <1>1, <1>8, ConnectionsAssumption
      DEF InitialAttemptFails, IInv, ClientsInOrder, LoopInv, ClientRecord
    <3> QED BY <1>1, <3>1 DEF ClientRecord
  <2> HIDE DEF r2
  <2>3. CASE up' = up
    BY <1>4, <2>1, <2>3
  <2>4. CASE TriggerPermanentFailure([client EXCEPT ![c] = r2])
    BY <1>7, <2>1, <2>2, <2>4 DEF TriggerPermanentFailure
  <2> QED BY <2>1, <2>3, <2>4
<1>9. CASE HandshakeError(c) \/ GiveUp(c)
  <2> DEFINE i == [client[c] EXCEPT !.loop = "Idle"]
  <2>1. /\ OnReconnectionPermanentFailure(c, [client EXCEPT ![c] = i])
        /\ UNCHANGED <<server, request, answer>>
    BY <1>9 DEF HandshakeError, GiveUp, Idle
  <2>2. i \in ClientRecord
    BY <1>1 DEF ClientRecord
  <2> HIDE DEF i
  <2>3. \E S : Fail(S, [client EXCEPT ![c] = i])
    BY <2>1 DEF OnReconnectionPermanentFailure, TriggerPermanentFailure
  <2> QED BY <1>7, <2>1, <2>2, <2>3
<1>10. CASE \/ SocketClose(c) \/ SocketTimeout(c) \/ WaitDone(c) \/ Retry(c)
            \/ GraceTimePasses(c)
  BY <1>4, <1>10 DEF SocketClose, SocketTimeout, WaitDone, Retry, GraceTimePasses, netVars
<1>11. CASE HandshakeOk(c)
  BY <1>4, <1>11 DEF HandshakeOk
<1> QED BY <1>3, <1>5, <1>6, <1>8, <1>9, <1>10, <1>11 DEF ClientStep

\* The steps that belong to an extension host.
LEMMA HostStepAgrees ==
    ASSUME IInv, AgreeInv, NEW c \in ExtensionHosts, HostStep(c)
    PROVE  AgreeInv'
<1>1. /\ up \in [Connection -> [Socket -> BOOLEAN]]
      /\ server \in [Connection -> ServerRecord]
      /\ request \in [Connection -> [Socket -> RequestState]]
      /\ answer \in [Connection -> [Socket -> {"None", "ok", "error"}]]
  BY DEF IInv, TypeOK, RequestState
<1>2. Management \in Connection /\ c \in Connection /\ c # Management
  BY ManagementFacts
<1>3. Schedule2(server[Management]).status = server[Management].status
      /\ Schedule2(server[Management]).sock = server[Management].sock
  BY <1>1, <1>2 DEF Schedule2, ServerRecord
<1>4. CASE Fork(c) \/ StartFails(c) \/ ReceiveReduceGraceTime(c)
  BY <1>1, <1>2, <1>4, SilentKeeps
  DEF Fork, StartFails, ReceiveReduceGraceTime, netVars, Silent
<1>5. CASE Ready(c)
  BY <1>1, <1>2, <1>5, SilentKeeps DEF Ready, Silent
<1>6. CASE ReceiveSocket(c)
  BY <1>1, <1>2, <1>6, SilentKeeps DEF ReceiveSocket, Replace, Silent
<1>7. CASE ReceiveNoHandle(c)
  BY <1>7, SilentKeeps DEF ReceiveNoHandle, netVars, Silent
<1>8. CASE SocketMessageTimeout(c)
  BY <1>1, <1>2, <1>8, SilentKeeps DEF SocketMessageTimeout, End, Silent
<1>9. CASE ProcessExit(c)
  BY <1>1, <1>2, <1>9, SilentKeeps DEF ProcessExit, Silent
<1>10. ASSUME NEW k \in Socket, HandleExtensionHost(c, k) PROVE AgreeInv'
  <2>1. server'[Management] = Schedule2(server[Management])
    BY <1>1, <1>2, <1>10 DEF HandleExtensionHost, Shortened
  <2>2. /\ request'[Management] = request[Management]
        /\ UNCHANGED <<answer, up>>
    BY <1>1, <1>2, <1>10 DEF HandleExtensionHost
  <2> QED BY <1>3, <2>1, <2>2, SilentKeeps DEF Silent
<1>11. ASSUME NEW k \in Socket, AcceptExtensionHost(c, k) PROVE AgreeInv'
  <2>1. request'[Management] = request[Management]
    BY <1>1, <1>2, <1>11 DEF AcceptExtensionHost
  <2>2. /\ server'[Management] = server[Management]
        /\ answer'[Management] = answer[Management]
        /\ up'[Management] = up[Management]
    BY <1>1, <1>2, <1>11 DEF AcceptExtensionHost, Reject
  <2> QED BY <2>1, <2>2, SilentKeeps DEF Silent
<1>12. ASSUME NEW k \in Socket, SendSocket(c, k) PROVE AgreeInv'
  BY <1>1, <1>2, <1>12, SilentKeeps DEF SendSocket, Silent
<1> QED BY <1>4, <1>5, <1>6, <1>7, <1>8, <1>9, <1>10, <1>11, <1>12 DEF HostStep

\* When the server ends the management connection it closes its socket.
LEMMA EndAgrees ==
    ASSUME IInv, AgreeInv, NEW c \in Connection, server[c].status = "Live",
           End(c), UNCHANGED <<request, answer>>
    PROVE  AgreeInv'
<1>1. /\ up \in [Connection -> [Socket -> BOOLEAN]]
      /\ server \in [Connection -> ServerRecord]
      /\ Management \in Connection
  BY ManagementFacts DEF IInv, TypeOK
<1>2. CASE c = Management
  <2>1. \A k \in Socket : up'[Management][k] =>
          up[Management][k] /\ k # server[Management].sock
    BY <1>1, <1>2 DEF End
  <2> QED BY <2>1 DEF AgreeInv
<1>3. CASE c # Management
  BY <1>1, <1>3, SilentKeeps DEF End, Silent
<1> QED BY <1>2, <1>3

\* The close event, the grace timers and the Disconnect.
LEMMA ServerStepAgrees ==
    ASSUME IInv, AgreeInv, NEW c \in Connection, ServerStep(c)
    PROVE  AgreeInv'
<1>1. CASE ServerSocketClose(c)
  <2>1. server'[Management].status = server[Management].status
        /\ server'[Management].sock = server[Management].sock
    <3>1. server \in [Connection -> ServerRecord] /\ Management \in Connection
      BY ManagementFacts DEF IInv, TypeOK
    <3>2. server' = [server EXCEPT ![c] =
                       [@ EXCEPT !.socketClosed = TRUE, !.runner1 = TRUE]]
      BY <1>1, <3>1 DEF ServerSocketClose
    <3> QED BY <3>1, <3>2 DEF ServerRecord
  <2> QED BY <1>1, <2>1, SilentKeeps DEF ServerSocketClose, netVars, Silent
<1>2. CASE GraceExpires(c)
  BY <1>2, EndAgrees DEF GraceExpires
<1>3. CASE ReadFarewell(c)
  BY <1>3, EndAgrees DEF ReadFarewell
<1>4. ASSUME NEW k \in Socket, SwallowFarewell(c, k) PROVE AgreeInv'
  BY <1>4, SilentKeeps DEF SwallowFarewell, Silent
<1> QED BY <1>1, <1>2, <1>3, <1>4 DEF ServerStep

\* A request that is accepted, however late it is, takes the place of the
\* socket that was accepted before, which is closed.
LEMMA HandleManagementAgrees ==
    ASSUME IInv, AgreeInv, NEW k \in Socket, HandleManagement(k)
    PROVE  AgreeInv'
<1>1. /\ up \in [Connection -> [Socket -> BOOLEAN]]
      /\ server \in [Connection -> ServerRecord]
      /\ request \in [Connection -> [Socket -> RequestState]]
      /\ answer \in [Connection -> [Socket -> {"None", "ok", "error"}]]
      /\ Management \in Connection
  BY ManagementFacts DEF IInv, TypeOK, RequestState
<1>2. \A j \in Socket :
        /\ request[Management][j] # "None" => request'[Management][j] # "None"
        /\ request'[Management][k] # "None"
  BY <1>1 DEF HandleManagement
<1>3. CASE k = 1 \/ server[Management].status = "Live"
  <2>1. /\ server' = [Shortened EXCEPT ![Management] = AcceptReconnection(@, k)]
        /\ Replace(Management, k)
        /\ answer' = [answer EXCEPT ![Management][k] = "ok"]
    BY <1>3 DEF HandleManagement
  <2>2. server'[Management].status = "Live" /\ server'[Management].sock = k
    <3>1. Schedule2(server[Management]) \in ServerRecord
      <4> DEFINE r == server[Management]
      <4>1. r \in ServerRecord /\ (r.runner2 \/ r.runner1) \in BOOLEAN
        BY <1>1
      <4> HIDE DEF r
      <4>2. Schedule2(r) \in ServerRecord
        BY <4>1 DEF Schedule2, ServerRecord
      <4> QED BY <4>2 DEF r
    <3>2. server'[Management] = AcceptReconnection(Schedule2(server[Management]), k)
      BY <1>1, <2>1 DEF Shortened
    <3> QED BY <3>1, <3>2 DEF AcceptReconnection, ServerRecord
  <2>3. \A j \in Socket :
          /\ up'[Management][j] => up[Management][j]
          /\ j # k /\ up'[Management][j] => j # server[Management].sock
          /\ j # k => answer'[Management][j] = answer[Management][j]
    BY <1>1, <2>1 DEF Replace
  <2> QED BY <1>2, <2>2, <2>3 DEF AgreeInv
<1>4. CASE ~(k = 1 \/ server[Management].status = "Live")
  <2>1. server' = Shortened /\ Reject(Management, k)
    BY <1>4 DEF HandleManagement
  <2>2. server'[Management].status = server[Management].status
        /\ server'[Management].sock = server[Management].sock
    BY <1>1, <2>1 DEF Shortened, Schedule2, ServerRecord
  <2>3. \A j \in Socket :
          /\ up'[Management][j] => up[Management][j] /\ j # k
          /\ j # k => answer'[Management][j] = answer[Management][j]
    BY <1>1, <2>1 DEF Reject
  <2> QED BY <1>2, <2>2, <2>3 DEF AgreeInv
<1> QED BY <1>3, <1>4

\* Client and server agree on the socket of the management connection, also
\* when requests of abandoned attempts are handled after newer ones.
LEMMA NextAgrees == IInv /\ AgreeInv /\ [Next]_vars => AgreeInv'
<1> SUFFICES ASSUME IInv, AgreeInv, [Next]_vars PROVE AgreeInv'
  OBVIOUS
<1>1. ASSUME NEW c \in Connection, NEW k \in Socket, SocketFails(c, k) PROVE AgreeInv'
  <2>1. up \in [Connection -> [Socket -> BOOLEAN]] /\ Management \in Connection
    BY ManagementFacts DEF IInv, TypeOK
  <2> QED BY <1>1, <2>1, SilentKeeps DEF SocketFails, Silent
<1>2. CASE UNCHANGED vars
  BY <1>2, SilentKeeps DEF vars, Silent
<1> QED BY <1>1, <1>2, ClientStepAgrees, ServerStepAgrees, HandleManagementAgrees,
           HostStepAgrees DEF Next

-----------------------------------------------------------------------------
(* The order of the events *)

\* What a step may fire: nothing, or something that may follow.
InOrder ==
    client'[Management].events # client[Management].events =>
        Follows(Transitions, client[Management].events, client'[Management].events)

\* An event after one event.
LEMMA FollowsOne ==
    ASSUME NEW a, NEW b, <<a, b>> \in Transitions
    PROVE  Follows(Transitions, <<a>>, <<b>>)
<1>1. <<a>>[Len(<<a>>)] = a /\ <<a>> # <<>>
  OBVIOUS
<1>2. Follows(Transitions, <<a>>, <<b>>)
        <=> \A i \in 1..1 : <<(<<a, b>>)[i], (<<a, b>>)[i + 1]>> \in Transitions
  BY <1>1 DEF Follows
<1> QED BY <1>2

\* An event after two that were fired together.
LEMMA FollowsTwo ==
    ASSUME NEW a, NEW b, NEW c, <<b, c>> \in Transitions
    PROVE  Follows(Transitions, <<a, b>>, <<c>>)
<1>1. <<a, b>>[Len(<<a, b>>)] = b /\ <<a, b>> # <<>>
  OBVIOUS
<1>2. Follows(Transitions, <<a, b>>, <<c>>)
        <=> \A i \in 1..1 : <<(<<b, c>>)[i], (<<b, c>>)[i + 1]>> \in Transitions
  BY <1>1 DEF Follows
<1> QED BY <1>2

\* Two events that are fired together after one.
LEMMA FollowsByTwo ==
    ASSUME NEW a, NEW b, NEW c, <<a, b>> \in Transitions, <<b, c>> \in Transitions
    PROVE  Follows(Transitions, <<a>>, <<b, c>>)
<1>1. <<a>>[Len(<<a>>)] = a /\ <<a>> # <<>>
  OBVIOUS
<1>2. Follows(Transitions, <<a>>, <<b, c>>)
        <=> \A i \in 1..2 : <<(<<a, b, c>>)[i], (<<a, b, c>>)[i + 1]>> \in Transitions
  BY <1>1 DEF Follows
<1> QED BY <1>2

\* The first event follows nothing.
LEMMA FollowsNone ==
    ASSUME NEW a
    PROVE  Follows(Transitions, <<>>, <<a>>)
BY DEF Follows

\* What the last events allow next, wherever the loop is.
LEMMA EventsFollow ==
    ASSUME NEW loop \in Constructed, NEW e \in LastEvents(loop)
    PROVE  /\ loop = "Idle" =>
                Follows(Transitions, e, <<"ConnectionLost", "ReconnectionRunning">>)
           /\ loop = "Waiting" => Follows(Transitions, e, <<"ReconnectionRunning">>)
           /\ loop \in {"Resolving", "Handshaking"} =>
                /\ Follows(Transitions, e, <<"ConnectionGain">>)
                /\ Follows(Transitions, e, <<"ReconnectionWait">>)
           /\ Follows(Transitions, e, <<"ReconnectionPermanentFailure">>)
<1>1. CASE loop = "Idle"
  <2>1. e = <<"ConnectionGain">>
    BY <1>1 DEF LastEvents
  <2>2. /\ <<"ConnectionGain", "ConnectionLost">> \in Transitions
        /\ <<"ConnectionLost", "ReconnectionRunning">> \in Transitions
        /\ <<"ConnectionGain", "ReconnectionPermanentFailure">> \in Transitions
    BY DEF Transitions
  <2> QED BY <1>1, <2>1, <2>2, FollowsOne, FollowsByTwo
<1>2. CASE loop = "Waiting"
  <2>1. e = <<"ReconnectionWait">>
    BY <1>2 DEF LastEvents
  <2>2. /\ <<"ReconnectionWait", "ReconnectionRunning">> \in Transitions
        /\ <<"ReconnectionWait", "ReconnectionPermanentFailure">> \in Transitions
    BY DEF Transitions
  <2> QED BY <1>2, <2>1, <2>2, FollowsOne
<1>3. CASE loop \in {"Resolving", "Handshaking"}
  <2>1. \/ e = <<"ReconnectionRunning">>
        \/ e = <<"ConnectionLost", "ReconnectionRunning">>
    BY <1>3 DEF LastEvents
  <2>2. /\ <<"ReconnectionRunning", "ConnectionGain">> \in Transitions
        /\ <<"ReconnectionRunning", "ReconnectionWait">> \in Transitions
        /\ <<"ReconnectionRunning", "ReconnectionPermanentFailure">> \in Transitions
    BY DEF Transitions
  <2> QED BY <1>3, <2>1, <2>2, FollowsOne, FollowsTwo
<1> QED BY <1>1, <1>2, <1>3 DEF Constructed, Active

\* The elements of a concatenation.
LEMMA ConcatParts ==
    ASSUME NEW S, NEW a \in Seq(S), NEW b \in Seq(S)
    PROVE  /\ Len(a \o b) = Len(a) + Len(b)
           /\ \A j \in 1..Len(a) : (a \o b)[j] = a[j]
           /\ \A j \in (Len(a) + 1)..(Len(a) + Len(b)) : (a \o b)[j] = b[j - Len(a)]
<1>1. Len(a) \in Nat /\ Len(b) \in Nat
  OBVIOUS
<1>2. Len(a \o b) = Len(a) + Len(b)
  OBVIOUS
<1>3. ASSUME NEW j \in 1..(Len(a) + Len(b))
      PROVE  (a \o b)[j] = IF j <= Len(a) THEN a[j] ELSE b[j - Len(a)]
  OBVIOUS
<1>4. ASSUME NEW j \in 1..Len(a) PROVE (a \o b)[j] = a[j]
  <2>1. j \in 1..(Len(a) + Len(b)) /\ j <= Len(a)
    BY <1>1
  <2> QED BY <1>3, <2>1
<1>5. ASSUME NEW j \in (Len(a) + 1)..(Len(a) + Len(b))
      PROVE  (a \o b)[j] = b[j - Len(a)]
  <2>1. j \in 1..(Len(a) + Len(b)) /\ ~(j <= Len(a))
    BY <1>1
  <2> QED BY <1>3, <2>1
<1> QED BY <1>2, <1>4, <1>5

\* Taking a connection out of the array leaves the others in it.
LEMMA RemovalKeeps ==
    ASSUME NEW c \in Connection, instances \in Seq(Connection), ListedOnce,
           instances' = WithoutInstance(c)
    PROVE  /\ ListedOnce'
           /\ Listed' => Listed
           /\ c # Management /\ Listed => Listed'
<1>1. CASE \E i \in 1..Len(instances) : instances[i] = c
  <2> DEFINE i == CHOOSE j \in 1..Len(instances) : instances[j] = c
  <2>1. i \in 1..Len(instances) /\ instances[i] = c
    BY <1>1
  <2>2. instances' =
          SubSeq(instances, 1, i - 1) \o SubSeq(instances, i + 1, Len(instances))
    BY <1>1 DEF WithoutInstance
  <2> HIDE DEF i
  <2>3. /\ Len(instances') = Len(instances) - 1
        /\ \A j \in 1..Len(instances') :
              instances'[j] = IF j < i THEN instances[j] ELSE instances[j + 1]
    <3> DEFINE a == SubSeq(instances, 1, i - 1)
               b == SubSeq(instances, i + 1, Len(instances))
    <3>1. /\ a \in Seq(Connection) /\ Len(a) = i - 1
          /\ \A j \in 1..(i - 1) : a[j] = instances[j]
      BY <2>1
    <3>2. /\ b \in Seq(Connection) /\ Len(b) = Len(instances) - i
          /\ \A j \in 1..(Len(instances) - i) : b[j] = instances[i + j]
      BY <2>1
    <3> HIDE DEF a, b
    <3>3. /\ Len(a \o b) = Len(a) + Len(b)
          /\ \A j \in 1..Len(a) : (a \o b)[j] = a[j]
          /\ \A j \in (Len(a) + 1)..(Len(a) + Len(b)) : (a \o b)[j] = b[j - Len(a)]
      BY <3>1, <3>2, ConcatParts
    <3>4. instances' = a \o b
      BY <2>2 DEF a, b
    <3>5. Len(instances) \in Nat
      OBVIOUS
    <3>6. ASSUME NEW j \in 1..Len(instances')
          PROVE  instances'[j] = IF j < i THEN instances[j] ELSE instances[j + 1]
      <4>1. CASE j < i
        <5>1. j \in 1..Len(a) /\ j \in 1..(i - 1)
          BY <2>1, <3>1, <3>5, <4>1
        <5> QED BY <3>1, <3>3, <3>4, <4>1, <5>1
      <4>2. CASE ~(j < i)
        <5>1. /\ j \in (Len(a) + 1)..(Len(a) + Len(b))
              /\ j - Len(a) \in 1..(Len(instances) - i)
              /\ i + (j - Len(a)) = j + 1
          BY <2>1, <3>1, <3>2, <3>3, <3>4, <3>5, <4>2
        <5> QED BY <3>2, <3>3, <3>4, <4>2, <5>1
      <4> QED BY <4>1, <4>2
    <3>7. Len(instances') = Len(instances) - 1
      BY <2>1, <3>1, <3>2, <3>3, <3>4, <3>5
    <3> QED BY <3>6, <3>7
  <2>4. Len(instances) \in Nat /\ Len(instances') \in Nat
    BY <2>1, <2>3
  <2>5. Listed' => Listed
    BY <2>1, <2>3, <2>4 DEF Listed
  <2>6. ListedOnce'
    BY <2>1, <2>3, <2>4 DEF ListedOnce
  <2>7. ASSUME c # Management, Listed PROVE Listed'
    <3>1. PICK j \in 1..Len(instances) : instances[j] = Management
      BY <2>7 DEF Listed
    <3>2. CASE j < i
      <4>1. j \in 1..Len(instances') /\ instances'[j] = Management
        BY <2>1, <2>3, <2>4, <3>1, <3>2
      <4> QED BY <4>1 DEF Listed
    <3>3. CASE ~(j < i)
      <4>1. j > i
        BY <2>1, <2>4, <2>7, <3>1, <3>3
      <4>2. /\ j - 1 \in 1..Len(instances') /\ ~(j - 1 < i)
            /\ (j - 1) + 1 = j
        BY <2>1, <2>3, <2>4, <3>1, <4>1
      <4>3. instances'[j - 1] = Management
        BY <2>3, <3>1, <4>2
      <4> QED BY <4>2, <4>3 DEF Listed
    <3> QED BY <3>2, <3>3
  <2> QED BY <2>5, <2>6, <2>7
<1>2. CASE ~\E i \in 1..Len(instances) : instances[i] = c
  BY <1>2 DEF WithoutInstance, ListedOnce, Listed
<1> QED BY <1>1, <1>2

\* The record r takes the place of client[c], without a change of the array:
\* the events stay as they are and fit the loop, or new ones follow.
LEMMA RecordOrder ==
    ASSUME IInv, EventInv, NEW c \in Connection, NEW r,
           client' = [client EXCEPT ![c] = r],
           UNCHANGED <<permanentFailure, instances>>,
           c = Management =>
              /\ r.loop \in Constructed <=> client[c].loop \in Constructed
              /\ r.isDisposed = client[c].isDisposed
              /\ \/ /\ r.events = client[c].events
                    /\ ~r.isDisposed => LastEvents(r.loop) = LastEvents(client[c].loop)
                 \/ /\ r.loop \in Constructed
                    /\ r.events \in LastEvents(r.loop)
                    /\ Follows(Transitions, client[c].events, r.events)
    PROVE  EventInv' /\ InOrder
<1>1. client \in [Connection -> ClientRecord] /\ Management \in Connection
  BY ManagementFacts DEF IInv, TypeOK
<1>2. (Listed <=> Listed') /\ (ListedOnce <=> ListedOnce')
  BY DEF Listed, ListedOnce
<1>3. CASE c # Management
  <2>1. client'[Management] = client[Management]
    BY <1>1, <1>3
  <2> QED BY <1>2, <2>1 DEF EventInv, InOrder
<1>4. CASE c = Management
  <2>1. client'[Management] = r
    BY <1>1, <1>4
  <2> QED BY <1>2, <1>4, <2>1 DEF EventInv, InOrder
<1> QED BY <1>3, <1>4

\* A permanent failure of all reaches the management connection wherever its
\* loop is, is its last event, and disposes of it.
LEMMA TriggerOrder ==
    ASSUME IInv, EventInv, NEW c \in Connection, NEW r \in ClientRecord,
           TriggerPermanentFailure([client EXCEPT ![c] = r]),
           r.loop \in Constructed <=> client[c].loop \in Constructed,
           r.isDisposed = client[c].isDisposed,
           r.events = client[c].events
    PROVE  EventInv' /\ InOrder
<1> DEFINE cl == [client EXCEPT ![c] = r]
           m == client[Management]
           n == cl[Management]
           g == GotoPermanentFailure(Management, n)
<1>1. /\ client \in [Connection -> ClientRecord] /\ Management \in Connection
      /\ instances \in Seq(Connection)
  BY ManagementFacts DEF IInv, TypeOK
<1>2. /\ n \in ClientRecord
      /\ n.loop \in Constructed <=> m.loop \in Constructed
      /\ n.isDisposed = m.isDisposed
      /\ n.events = m.events
  BY <1>1
<1>3. /\ client' = [d \in Connection |->
                      IF d \in Reached THEN GotoPermanentFailure(d, cl[d]) ELSE cl[d]]
      /\ instances' = IF Management \in Reached THEN WithoutInstance(Management)
                      ELSE instances
  BY DEF TriggerPermanentFailure, Fail
<1> HIDE DEF cl
<1>4. CASE Management \in Reached
  <2>1. client'[Management] = g
    BY <1>1, <1>3, <1>4
  <2>2. Listed
    BY <1>4 DEF Reached, Listed
  <2>3. ListedOnce' /\ (Listed' => Listed)
    BY <1>1, <1>3, <1>4, RemovalKeeps DEF EventInv
  <2>4. m.loop \in Constructed
    BY <2>2 DEF EventInv
  <2>5. /\ g.isDisposed = TRUE /\ g.loop = n.loop
        /\ g.events = IF n.isDisposed THEN n.events
                      ELSE <<"ReconnectionPermanentFailure">>
    <3>1. CASE n.isDisposed
      <4>1. g = [n EXCEPT !.failed = TRUE, !.listens = FALSE,
                          !.isDisposed = @ \/ Management = Management]
        BY <3>1 DEF GotoPermanentFailure, Fire
      <4> HIDE DEF g, n
      <4> QED BY <1>2, <3>1, <4>1 DEF ClientRecord
    <3>2. CASE ~n.isDisposed
      <4>1. g = [[n EXCEPT !.events = <<"ReconnectionPermanentFailure">>]
                   EXCEPT !.failed = TRUE, !.listens = FALSE,
                          !.isDisposed = @ \/ Management = Management]
        BY <3>2 DEF GotoPermanentFailure, Fire
      <4> HIDE DEF g, n
      <4> QED BY <1>2, <3>2, <4>1 DEF ClientRecord
    <3> QED BY <3>1, <3>2
  <2> HIDE DEF g, n
  <2>6. EventInv'
    BY <1>2, <2>1, <2>2, <2>3, <2>4, <2>5 DEF EventInv
  <2>7. InOrder
    <3>1. CASE n.isDisposed
      BY <1>2, <2>1, <2>5, <3>1 DEF InOrder
    <3>2. CASE ~n.isDisposed
      <4>1. m.events \in LastEvents(m.loop)
        BY <1>2, <2>4, <3>2 DEF EventInv
      <4>2. Follows(Transitions, m.events, <<"ReconnectionPermanentFailure">>)
        BY <2>4, <4>1, EventsFollow
      <4> QED BY <2>1, <2>5, <3>2, <4>2 DEF InOrder
    <3> QED BY <3>1, <3>2
  <2> QED BY <2>6, <2>7
<1>5. CASE Management \notin Reached
  <2>1. client'[Management] = n /\ instances' = instances
    BY <1>1, <1>3, <1>5
  <2>2. ~Listed
    <3> SUFFICES ASSUME NEW i \in 1..Len(instances), instances[i] = Management
                 PROVE  Management \in Reached
      BY <1>5 DEF Listed
    <3>1. i = 1 \/ instances[i - 1] # Management
      <4> SUFFICES ASSUME i # 1, instances[i - 1] = Management PROVE FALSE
        OBVIOUS
      <4>1. i - 1 \in 1..Len(instances) /\ i - 1 # i
        BY <1>1
      <4> QED BY <4>1 DEF EventInv, ListedOnce
    <3> QED BY <3>1 DEF Reached
  <2>3. ~Listed' /\ ListedOnce'
    BY <2>1, <2>2 DEF Listed, ListedOnce
  <2>4. m.loop \notin Constructed \/ m.isDisposed
    BY <2>2 DEF EventInv
  <2>5. m.loop \notin Constructed => n.events = <<>>
    BY <1>2 DEF EventInv
  <2> HIDE DEF n
  <2> QED BY <1>2, <2>1, <2>3, <2>4, <2>5 DEF EventInv, InOrder
<1> QED BY <1>4, <1>5

\* What Fire() does to a record.
LEMMA FireEffect ==
    ASSUME NEW r \in ClientRecord, NEW e \in Seq(Event)
    PROVE  /\ Fire(r, e) \in ClientRecord
           /\ Fire(r, e).loop = r.loop
           /\ Fire(r, e).isDisposed = r.isDisposed
           /\ Fire(r, e).events = IF r.isDisposed THEN r.events ELSE e
BY DEF Fire, ClientRecord

\* Every handler of the client fires what may follow.
LEMMA ClientStepOrder ==
    ASSUME IInv, EventInv, NEW c \in Connection, ClientStep(c)
    PROVE  EventInv' /\ InOrder
<1> DEFINE r == client[c]
<1>1. /\ r \in ClientRecord /\ client \in [Connection -> ClientRecord]
      /\ instances \in Seq(Connection) /\ permanentFailure \in BOOLEAN
      /\ Management \in Connection
  BY ManagementFacts DEF IInv, TypeOK
<1>2. /\ r.isDisposed \in BOOLEAN
      /\ r.loop \in Constructed \cup {"New", "Connecting", "Failed"}
  BY <1>1 DEF ClientRecord, Constructed
<1>3. /\ {"Idle", "Waiting", "Resolving", "Handshaking"} = Constructed
      /\ {"New", "Connecting", "Failed"} \cap Constructed = {}
      /\ LastEvents("Resolving") = LastEvents("Handshaking")
      /\ <<"ConnectionGain">> \in LastEvents("Idle")
      /\ <<"ReconnectionWait">> \in LastEvents("Waiting")
      /\ <<"ReconnectionRunning">> \in LastEvents("Resolving")
      /\ <<"ConnectionLost", "ReconnectionRunning">> \in LastEvents("Resolving")
  BY DEF Constructed, Active, LastEvents
<1>4. c = Management =>
        /\ r.loop \notin Constructed => r.events = <<>>
        /\ r.loop \in Constructed /\ ~r.isDisposed =>
              ~permanentFailure /\ r.events \in LastEvents(r.loop)
  BY DEF EventInv
\* A handler that fires the events e and goes on to loop l.
<1>5. ASSUME NEW l \in Constructed, NEW e, NEW s \in ClientRecord, NEW x \in ClientRecord,
             s.loop = r.loop, s.events = r.events, s.isDisposed = r.isDisposed,
             r.loop \in Constructed,
             x.loop = l, x.isDisposed = r.isDisposed, x.events = Fire(s, e).events,
             e \in LastEvents(l),
             r.events \in LastEvents(r.loop) => Follows(Transitions, r.events, e),
             client' = [client EXCEPT ![c] = x],
             UNCHANGED <<permanentFailure, instances>>
      PROVE  EventInv' /\ InOrder
  <2>1. x.events = IF r.isDisposed THEN r.events ELSE e
    BY <1>5 DEF Fire, ClientRecord
  <2>2. c = Management =>
              /\ x.loop \in Constructed <=> client[c].loop \in Constructed
              /\ x.isDisposed = client[c].isDisposed
              /\ \/ /\ x.events = client[c].events
                    /\ ~x.isDisposed => LastEvents(x.loop) = LastEvents(client[c].loop)
                 \/ /\ x.loop \in Constructed
                    /\ x.events \in LastEvents(x.loop)
                    /\ Follows(Transitions, client[c].events, x.events)
    BY <1>2, <1>4, <1>5, <2>1
  <2> QED BY <1>5, <2>2, RecordOrder
\* A handler that fires nothing, and changes the loop only between two places
\* that go with the same events or because the connection is disposed of.
<1>6. ASSUME NEW x,
             x.loop \in Constructed <=> r.loop \in Constructed,
             x.isDisposed = r.isDisposed, x.events = r.events,
             c = Management /\ ~r.isDisposed => LastEvents(x.loop) = LastEvents(r.loop),
             client' = [client EXCEPT ![c] = x],
             UNCHANGED <<permanentFailure, instances>>
      PROVE  EventInv' /\ InOrder
  BY <1>6, RecordOrder
<1>7. CASE BeginInitialAttempt(c) \/ BeginAttempt(c)
  <2>1. PICK x \in {[MoveTo(r, NextSocket(c)) EXCEPT !.loop = "Connecting"],
                    [MoveTo(r, NextSocket(c)) EXCEPT !.loop = "Handshaking"]} :
          /\ client' = [client EXCEPT ![c] = x]
          /\ UNCHANGED <<permanentFailure, instances>>
          /\ \/ x.loop = "Connecting" /\ r.loop = "New"
             \/ x.loop = "Handshaking" /\ r.loop = "Resolving"
    <3>1. CASE BeginInitialAttempt(c)
      <4>1. [MoveTo(r, NextSocket(c)) EXCEPT !.loop = "Connecting"].loop = "Connecting"
        BY <1>1 DEF MoveTo, ClientRecord
      <4> QED BY <3>1, <4>1 DEF BeginInitialAttempt
    <3>2. CASE BeginAttempt(c)
      <4>1. [MoveTo(r, NextSocket(c)) EXCEPT !.loop = "Handshaking"].loop = "Handshaking"
        BY <1>1 DEF MoveTo, ClientRecord
      <4> QED BY <3>2, <4>1 DEF BeginAttempt
    <3> QED BY <1>7, <3>1, <3>2
  <2>2. x.isDisposed = r.isDisposed /\ x.events = r.events
    BY <1>1, <2>1 DEF MoveTo, ClientRecord
  <2>3. LastEvents("Connecting") = LastEvents("New")
    BY DEF LastEvents
  <2> HIDE DEF r
  <2> QED BY <1>3, <1>6, <2>1, <2>2, <2>3
<1>8. CASE InitialAttemptFails(c)
  <2> DEFINE r1 == [r EXCEPT !.attempts = @ + 1]
             r2 == [r1 EXCEPT !.loop = "Failed"]
  <2>1. \/ /\ client' = [client EXCEPT ![c] = r1]
           /\ UNCHANGED <<permanentFailure, instances>>
        \/ TriggerPermanentFailure([client EXCEPT ![c] = r2])
    BY <1>8 DEF InitialAttemptFails
  <2>2. r.loop = "New" /\ r.attempts + 1 \in 0..MAX_ATTEMPTS
    <3>1. r.loop = "New" /\ r.attempts \in 0..MAX_ATTEMPTS
      BY <1>1, <1>8 DEF InitialAttemptFails, ClientRecord
    <3>2. r.attempts < MAX_ATTEMPTS
      BY <3>1 DEF IInv, ClientsInOrder, LoopInv
    <3> QED BY <3>1, <3>2, ConnectionsAssumption
  <2>3. /\ r1.loop = "New" /\ r1.isDisposed = r.isDisposed /\ r1.events = r.events
        /\ r2 \in ClientRecord
        /\ r2.loop = "Failed" /\ r2.isDisposed = r.isDisposed /\ r2.events = r.events
    BY <1>1, <2>2 DEF ClientRecord
  <2> HIDE DEF r1, r2
  <2>4. CASE /\ client' = [client EXCEPT ![c] = r1]
             /\ UNCHANGED <<permanentFailure, instances>>
    BY <1>6, <2>2, <2>3, <2>4
  <2>5. CASE TriggerPermanentFailure([client EXCEPT ![c] = r2])
    BY <1>3, <2>2, <2>3, <2>5, TriggerOrder
  <2> QED BY <2>1, <2>4, <2>5
<1>9. CASE HandshakeError(c) \/ GiveUp(c)
  <2> DEFINE i == [r EXCEPT !.loop = "Idle"]
  <2>1. /\ OnReconnectionPermanentFailure(c, [client EXCEPT ![c] = i])
        /\ r.loop \in {"Resolving", "Handshaking"}
    BY <1>9 DEF HandshakeError, GiveUp, AttemptCanFail, Idle
  <2>2. /\ i \in ClientRecord /\ i.loop = "Idle" /\ i.isDisposed = r.isDisposed
        /\ i.events = r.events
    BY <1>1 DEF ClientRecord
  <2> HIDE DEF i
  <2>3. CASE c = Management
    <3>1. TriggerPermanentFailure([client EXCEPT ![c] = i])
      BY <2>1, <2>3 DEF OnReconnectionPermanentFailure
    <3> QED BY <1>3, <2>1, <2>2, <3>1, TriggerOrder
  <2>4. CASE c # Management
    <3>1. Fail({c}, [client EXCEPT ![c] = i]) /\ UNCHANGED permanentFailure
      BY <2>1, <2>4 DEF OnReconnectionPermanentFailure
    <3>2. client'[Management] = client[Management] /\ instances' = instances
      BY <1>1, <2>4, <3>1 DEF Fail
    <3> QED BY <3>1, <3>2 DEF EventInv, InOrder, Listed, ListedOnce
  <2> QED BY <2>3, <2>4
<1>10. CASE Construct(c)
  <2> DEFINE i == [r EXCEPT !.loop = "Idle"]
             s == Fire(i, <<"ConnectionGain">>)
             g == GotoPermanentFailure(c, s)
  <2>1. /\ r.loop = "Connecting"
        /\ client' = [client EXCEPT ![c] = IF permanentFailure THEN g ELSE s]
        /\ instances' = IF permanentFailure /\ c = Management THEN instances
                        ELSE Append(instances, c)
        /\ permanentFailure' = permanentFailure
    BY <1>10 DEF Construct
  <2>2. /\ i \in ClientRecord /\ i.loop = "Idle" /\ i.isDisposed = r.isDisposed
        /\ i.events = r.events
    BY <1>1 DEF ClientRecord
  <2>3. CASE c # Management
    <3>1. client'[Management] = client[Management] /\ instances' = Append(instances, c)
      BY <1>1, <2>1, <2>3
    <3>2. (Listed <=> Listed') /\ (ListedOnce => ListedOnce')
      <4>1. /\ Len(instances') = Len(instances) + 1 /\ Len(instances) \in Nat
            /\ \A j \in 1..Len(instances) : instances'[j] = instances[j]
            /\ instances'[Len(instances) + 1] = c
        BY <1>1, <3>1
      <4>2. \A j \in 1..Len(instances') : instances'[j] = Management => j \in 1..Len(instances)
        BY <2>3, <4>1
      <4>3. \A j \in 1..Len(instances) : j \in 1..Len(instances')
        BY <4>1
      <4> QED BY <4>1, <4>2, <4>3 DEF Listed, ListedOnce
    <3> QED BY <2>1, <3>1, <3>2 DEF EventInv, InOrder
  <2>4. CASE c = Management
    <3>1. r.events = <<>> /\ ~Listed
      BY <1>3, <2>1, <2>4 DEF EventInv
    <3>2. CASE permanentFailure
      <4>1. /\ s \in ClientRecord /\ s.loop = "Idle" /\ s.isDisposed = r.isDisposed
        <5>1. <<"ConnectionGain">> \in Seq(Event)
          BY DEF Event
        <5> HIDE DEF i
        <5> QED BY <2>2, <5>1, FireEffect
      <4>2. s.events = IF r.isDisposed THEN <<>> ELSE <<"ConnectionGain">>
        BY <2>2, <3>1 DEF Fire, ClientRecord
      <4> HIDE DEF i, s
      <4>3. /\ g.loop = "Idle" /\ g.isDisposed = TRUE
            /\ g.events = IF s.isDisposed THEN s.events ELSE <<"ReconnectionPermanentFailure">>
        <5>1. CASE s.isDisposed
          <6>1. g = [s EXCEPT !.failed = TRUE, !.listens = FALSE,
                              !.isDisposed = @ \/ c = Management]
            BY <5>1 DEF GotoPermanentFailure, Fire
          <6> HIDE DEF g
          <6> QED BY <2>4, <4>1, <5>1, <6>1 DEF ClientRecord
        <5>2. CASE ~s.isDisposed
          <6>1. g = [[s EXCEPT !.events = <<"ReconnectionPermanentFailure">>]
                       EXCEPT !.failed = TRUE, !.listens = FALSE,
                              !.isDisposed = @ \/ c = Management]
            BY <5>2 DEF GotoPermanentFailure, Fire
          <6> HIDE DEF g
          <6> QED BY <2>4, <4>1, <5>2, <6>1 DEF ClientRecord
        <5> QED BY <5>1, <5>2
      <4> HIDE DEF g
      <4>4. client'[Management] = g /\ instances' = instances
        BY <1>1, <2>1, <2>4, <3>2
      <4>5. Follows(Transitions, <<>>, <<"ReconnectionPermanentFailure">>)
        BY FollowsNone
      <4>6. ~Listed' /\ ListedOnce'
        BY <3>1, <4>4 DEF EventInv, Listed, ListedOnce
      <4>7. EventInv'
        BY <1>3, <4>3, <4>4, <4>6 DEF EventInv
      <4>8. InOrder
        BY <2>4, <3>1, <4>1, <4>2, <4>3, <4>4, <4>5 DEF InOrder
      <4> QED BY <4>7, <4>8
    <3>3. CASE ~permanentFailure
      <4>1. /\ s.loop = "Idle" /\ s.isDisposed = r.isDisposed
            /\ s.events = IF r.isDisposed THEN <<>> ELSE <<"ConnectionGain">>
        BY <2>2, <3>1 DEF Fire, ClientRecord
      <4>2. client'[Management] = s /\ instances' = Append(instances, Management)
        BY <1>1, <2>1, <2>4, <3>3
      <4>3. Listed' /\ ListedOnce'
        <5>1. /\ Len(instances') = Len(instances) + 1 /\ Len(instances) \in Nat
              /\ \A j \in 1..Len(instances) : instances'[j] = instances[j]
              /\ instances'[Len(instances) + 1] = Management
          BY <1>1, <4>2
        <5>2. \A j \in 1..Len(instances') :
                instances'[j] = Management => j = Len(instances) + 1
          BY <3>1, <5>1 DEF Listed
        <5>3. Len(instances) + 1 \in 1..Len(instances')
          BY <5>1
        <5> QED BY <5>1, <5>2, <5>3 DEF Listed, ListedOnce
      <4>4. Follows(Transitions, <<>>, <<"ConnectionGain">>)
        BY FollowsNone
      <4> HIDE DEF s
      <4>5. EventInv'
        BY <1>3, <2>1, <3>3, <4>1, <4>2, <4>3 DEF EventInv
      <4>6. InOrder
        BY <2>4, <3>1, <4>1, <4>2, <4>4 DEF InOrder
      <4> QED BY <4>5, <4>6
    <3> QED BY <3>2, <3>3
  <2> QED BY <2>3, <2>4
\* _beginReconnecting, with a record s that differs in the socket's state only.
<1>11. ASSUME NEW s \in ClientRecord,
              s.loop = r.loop, s.events = r.events, s.isDisposed = r.isDisposed,
              client' = [client EXCEPT ![c] = BeginReconnecting(s)],
              UNCHANGED <<permanentFailure, instances>>
       PROVE  EventInv' /\ InOrder
  <2> DEFINE e == <<"ConnectionLost", "ReconnectionRunning">>
             x == [Fire(s, e) EXCEPT !.loop = "Resolving", !.graceOver = FALSE]
  <2>1. CASE BeginReconnecting(s) = s
    BY <1>6, <1>11, <2>1
  <2>2. CASE BeginReconnecting(s) = x /\ s.loop = "Idle"
    <3>1. Fire(s, e) \in ClientRecord /\ Fire(s, e).isDisposed = s.isDisposed
      <4>1. e \in Seq(Event)
        BY DEF Event
      <4> HIDE DEF e
      <4> QED BY <1>11, <4>1, FireEffect
    <3>2. /\ x \in ClientRecord /\ x.loop = "Resolving"
          /\ x.isDisposed = s.isDisposed /\ x.events = Fire(s, e).events
      BY <3>1 DEF ClientRecord, Active
    <3>3. "Idle" \in Constructed /\ "Resolving" \in Constructed
      BY <1>3
    <3>4. r.events \in LastEvents(r.loop) => Follows(Transitions, r.events, e)
      BY <1>11, <2>2, <3>3, EventsFollow
    <3>5. e \in LastEvents("Resolving") /\ client' = [client EXCEPT ![c] = x]
      BY <1>3, <1>11, <2>2
    <3> HIDE DEF e, x, r
    <3>6. /\ x \in ClientRecord /\ x.loop = "Resolving" /\ x.isDisposed = r.isDisposed
          /\ r.loop \in Constructed
      BY <1>11, <2>2, <3>2, <3>3
    <3> QED BY <1>5, <1>11, <3>2, <3>3, <3>4, <3>5, <3>6
  <2> QED BY <2>1, <2>2 DEF BeginReconnecting
<1>12. CASE SocketClose(c)
  <2> DEFINE s == [r EXCEPT !.socketClosed = TRUE]
  <2>1. /\ s \in ClientRecord /\ s.loop = r.loop /\ s.events = r.events
        /\ s.isDisposed = r.isDisposed
    BY <1>1 DEF ClientRecord
  <2>2. /\ client' = [client EXCEPT ![c] = BeginReconnecting(s)]
        /\ UNCHANGED <<permanentFailure, instances>>
    BY <1>12 DEF SocketClose
  <2> HIDE DEF s
  <2> QED BY <1>11, <2>1, <2>2
<1>13. CASE SocketTimeout(c)
  BY <1>1, <1>11, <1>13 DEF SocketTimeout
\* Fire(r, e), and then the loop goes on to l.
<1>14. ASSUME NEW l \in Constructed, NEW e \in Seq(Event), r.loop \in Constructed,
              e \in LastEvents(l),
              r.events \in LastEvents(r.loop) => Follows(Transitions, r.events, e),
              client' = [client EXCEPT ![c] = [Fire(r, e) EXCEPT !.loop = l]],
              UNCHANGED <<permanentFailure, instances>>
       PROVE  EventInv' /\ InOrder
  <2> DEFINE f == Fire(r, e)
             x == [f EXCEPT !.loop = l]
  <2>1. f \in ClientRecord /\ f.isDisposed = r.isDisposed
    BY <1>1, <1>14 DEF Fire, ClientRecord
  <2>2. f.events = Fire(r, e).events /\ client' = [client EXCEPT ![c] = x]
    BY <1>14
  <2> HIDE DEF f
  <2>3. x \in ClientRecord /\ x.loop = l /\ x.isDisposed = r.isDisposed
        /\ x.events = f.events
    BY <1>14, <2>1 DEF ClientRecord, Constructed
  <2> HIDE DEF x, r
  <2> QED BY <1>1, <1>5, <1>14, <2>2, <2>3
\* A loop that ends without an event: the connection is disposed of.
<1>15. ASSUME r.loop \in Constructed, c = Management => r.isDisposed,
              client' = [client EXCEPT ![c] = [r EXCEPT !.loop = "Idle"]],
              UNCHANGED <<permanentFailure, instances>>
       PROVE  EventInv' /\ InOrder
  <2> DEFINE x == [r EXCEPT !.loop = "Idle"]
  <2>1. x.loop = "Idle" /\ x.isDisposed = r.isDisposed /\ x.events = r.events
    BY <1>1 DEF ClientRecord
  <2>2. client' = [client EXCEPT ![c] = x]
    BY <1>15
  <2> HIDE DEF x
  <2> QED BY <1>3, <1>6, <1>15, <2>1, <2>2
<1>16. /\ <<"ConnectionGain">> \in Seq(Event)
       /\ <<"ReconnectionRunning">> \in Seq(Event)
       /\ <<"ReconnectionWait">> \in Seq(Event)
  BY DEF Event
<1>17. CASE WaitDone(c)
  <2>1. /\ r.loop = "Waiting" /\ r.loop \in Constructed
        /\ UNCHANGED <<permanentFailure, instances>>
    BY <1>3, <1>17 DEF WaitDone
  <2>2. CASE permanentFailure
    <3>1. client' = [client EXCEPT ![c] = [r EXCEPT !.loop = "Idle"]]
      BY <1>17, <2>2 DEF WaitDone
    <3>2. c = Management => r.isDisposed
      BY <1>2, <1>4, <2>1, <2>2
    <3> QED BY <1>15, <2>1, <3>1, <3>2
  <2>3. CASE ~permanentFailure
    <3> DEFINE e == <<"ReconnectionRunning">>
    <3>1. client' = [client EXCEPT ![c] = [Fire(r, e) EXCEPT !.loop = "Resolving"]]
      BY <1>17, <2>3 DEF WaitDone
    <3>2. r.events \in LastEvents(r.loop) => Follows(Transitions, r.events, e)
      BY <2>1, EventsFollow
    <3>3. e \in Seq(Event) /\ e \in LastEvents("Resolving") /\ "Resolving" \in Constructed
      BY <1>3, <1>16
    <3> HIDE DEF e, r
    <3> QED BY <1>14, <2>1, <3>1, <3>2, <3>3
  <2> QED BY <2>2, <2>3
<1>18. CASE HandshakeOk(c)
  <2> DEFINE e == <<"ConnectionGain">>
  <2>1. /\ r.loop = "Handshaking" /\ r.loop \in Constructed
        /\ UNCHANGED <<permanentFailure, instances>>
        /\ client' = [client EXCEPT ![c] = [Fire(r, e) EXCEPT !.loop = "Idle"]]
    BY <1>3, <1>18 DEF HandshakeOk
  <2>2. r.events \in LastEvents(r.loop) => Follows(Transitions, r.events, e)
    BY <2>1, EventsFollow
  <2>3. e \in Seq(Event) /\ e \in LastEvents("Idle") /\ "Idle" \in Constructed
    BY <1>3, <1>16
  <2> HIDE DEF e, r
  <2> QED BY <1>14, <2>1, <2>2, <2>3
<1>19. CASE Retry(c)
  <2>1. /\ r.loop \in {"Resolving", "Handshaking"} /\ r.loop \in Constructed
        /\ UNCHANGED <<permanentFailure, instances>>
    BY <1>3, <1>19 DEF Retry, AttemptCanFail
  <2>2. CASE permanentFailure \/ r.isDisposed
    <3>1. client' = [client EXCEPT ![c] = [r EXCEPT !.loop = "Idle"]]
      BY <1>19, <2>2 DEF Retry
    <3>2. c = Management => r.isDisposed
      BY <1>2, <1>4, <2>1, <2>2
    <3> QED BY <1>15, <2>1, <3>1, <3>2
  <2>3. CASE ~(permanentFailure \/ r.isDisposed)
    <3> DEFINE e == <<"ReconnectionWait">>
    <3>1. client' = [client EXCEPT ![c] = [Fire(r, e) EXCEPT !.loop = "Waiting"]]
      BY <1>19, <2>3 DEF Retry
    <3>2. r.events \in LastEvents(r.loop) => Follows(Transitions, r.events, e)
      BY <2>1, EventsFollow
    <3>3. e \in Seq(Event) /\ e \in LastEvents("Waiting") /\ "Waiting" \in Constructed
      BY <1>3, <1>16
    <3> HIDE DEF e, r
    <3> QED BY <1>14, <2>1, <3>1, <3>2, <3>3
  <2> QED BY <2>2, <2>3
<1>20. CASE GraceTimePasses(c)
  <2> DEFINE x == [r EXCEPT !.graceOver = TRUE]
  <2>1. x.loop = r.loop /\ x.isDisposed = r.isDisposed /\ x.events = r.events
    BY <1>1 DEF ClientRecord
  <2>2. /\ client' = [client EXCEPT ![c] = x]
        /\ UNCHANGED <<permanentFailure, instances>>
    BY <1>20 DEF GraceTimePasses
  <2> HIDE DEF x
  <2> QED BY <1>6, <2>1, <2>2
<1>21. CASE Dispose(c)
  <2> DEFINE x == [r EXCEPT !.isDisposed = TRUE]
  <2>1. /\ client' = [client EXCEPT ![c] = x]
        /\ instances' = WithoutInstance(c)
        /\ permanentFailure' = permanentFailure
        /\ r.loop \in Constructed
    BY <1>21 DEF Dispose, Constructed
  <2>2. x.loop = r.loop /\ x.isDisposed = TRUE /\ x.events = r.events
    BY <1>1 DEF ClientRecord
  <2>3. /\ ListedOnce' /\ (Listed' => Listed)
        /\ c # Management /\ Listed => Listed'
    BY <1>1, <2>1, RemovalKeeps DEF EventInv
  <2> HIDE DEF x
  <2>4. CASE c = Management
    <3>1. client'[Management] = x
      BY <1>1, <2>1, <2>4
    <3> QED BY <2>1, <2>2, <2>3, <2>4, <3>1 DEF EventInv, InOrder
  <2>5. CASE c # Management
    <3>1. client'[Management] = client[Management]
      BY <1>1, <2>1, <2>5
    <3> QED BY <2>1, <2>3, <2>5, <3>1 DEF EventInv, InOrder
  <2> QED BY <2>4, <2>5
<1> QED BY <1>7, <1>8, <1>9, <1>10, <1>12, <1>13, <1>17, <1>18, <1>19, <1>20, <1>21
    DEF ClientStep

\* The server and the network leave the client's records alone.
LEMMA OthersQuiet ==
    ASSUME [Next]_vars, ~\E c \in Connection : ClientStep(c)
    PROVE  UNCHANGED <<client, instances, permanentFailure>>
<1>1. ASSUME NEW c \in Connection, ServerStep(c)
      PROVE  UNCHANGED <<client, instances, permanentFailure>>
  BY <1>1 DEF ServerStep, ServerSocketClose, GraceExpires, ReadFarewell, SwallowFarewell
<1>2. ASSUME NEW c \in ExtensionHosts, HostStep(c)
      PROVE  UNCHANGED <<client, instances, permanentFailure>>
  BY <1>2 DEF HostStep, Fork, StartFails, Ready, ReceiveReduceGraceTime, ReceiveSocket,
              ReceiveNoHandle, SocketMessageTimeout, ProcessExit, HandleExtensionHost,
              AcceptExtensionHost, SendSocket
<1>3. ASSUME NEW k \in Socket, HandleManagement(k)
      PROVE  UNCHANGED <<client, instances, permanentFailure>>
  BY <1>3 DEF HandleManagement
<1>4. ASSUME NEW c \in Connection, NEW k \in Socket, SocketFails(c, k)
      PROVE  UNCHANGED <<client, instances, permanentFailure>>
  BY <1>4 DEF SocketFails
<1> QED BY <1>1, <1>2, <1>3, <1>4 DEF Next, vars

\* Every step keeps the order.
LEMMA NextOrder ==
    ASSUME IInv, EventInv, [Next]_vars
    PROVE  EventInv' /\ InOrder
<1>1. CASE \E c \in Connection : ClientStep(c)
  BY <1>1, ClientStepOrder
<1>2. CASE ~\E c \in Connection : ClientStep(c)
  <2>1. UNCHANGED <<client, instances, permanentFailure>>
    BY <1>2, OthersQuiet
  <2> QED BY <2>1 DEF EventInv, InOrder, Listed, ListedOnce
<1> QED BY <1>1, <1>2

-----------------------------------------------------------------------------
(* The theorems *)

\* Nothing is connected at first.
LEMMA InitManagement == Init => AgreeInv /\ EventInv
<1> SUFFICES ASSUME Init PROVE AgreeInv /\ EventInv
  OBVIOUS
<1>1. /\ Management \in Connection
      /\ client[Management] = NewClient /\ instances = <<>>
      /\ \A k \in Socket : answer[Management][k] = "None"
  BY ManagementFacts DEF Init
<1>2. AgreeInv
  BY <1>1 DEF AgreeInv
<1>3. EventInv
  <2>1. ~Listed /\ ListedOnce
    BY <1>1 DEF Listed, ListedOnce
  <2>2. /\ NewClient.loop = "New" /\ NewClient.events = <<>>
        /\ "New" \notin Constructed
    BY DEF NewClient, Constructed, Active
  <2> QED BY <1>1, <2>1, <2>2 DEF EventInv
<1> QED BY <1>2, <1>3

\* Both invariants hold in every reachable state.
LEMMA SpecManagement == Spec => [](IInv /\ AgreeInv /\ EventInv)
<1>1. Init => IInv /\ AgreeInv /\ EventInv
  BY InitIInv, InitManagement
<1>2. IInv /\ AgreeInv /\ EventInv /\ [Next]_vars => (IInv /\ AgreeInv /\ EventInv)'
  BY NextIInv, NextAgrees, NextOrder
<1> QED BY <1>1, <1>2, PTL DEF Spec

\* A socket that the client of the management connection counts on is the one
\* of a live connection of the server, for any number of abandoned attempts
\* whose requests are handled late.
THEOREM ManagementAgrees == Spec => []ConnectedIsServed
<1>1. IInv /\ AgreeInv => ConnectedIsServed
  <2> SUFFICES ASSUME IInv, AgreeInv, client[Management].loop = "Idle" PROVE ConnectedIsServed
    BY DEF ConnectedIsServed
  <2>1. client[Management].sock \in Socket
    BY ManagementFacts DEF IInv, ClientsInOrder, LoopInv
  <2> QED BY <2>1 DEF AgreeInv, ConnectedIsServed
<1> QED BY <1>1, SpecManagement, PTL

\* The window sees the events of the management connection in order, and
\* nothing after a permanent failure, whichever connection brings it about.
THEOREM EventsInOrder == Spec => EventOrder
<1>1. IInv /\ EventInv /\ [Next]_vars
        => [client[Management].events # client[Management].events' =>
              Follows(Transitions, client[Management].events,
                      client[Management].events')]_vars
  BY NextOrder DEF InOrder
<1> QED BY <1>1, SpecManagement, PTL DEF Spec, EventOrder

=============================================================================
