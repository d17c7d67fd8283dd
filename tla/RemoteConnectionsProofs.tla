----------------------- MODULE RemoteConnectionsProofs ----------------------
(***************************************************************************)
(* The theorems about RemoteConnections: the shape of the state, and that  *)
(* no grace timer of the server runs under a socket that works.  A timer   *)
(* is safe because sockets are only ever opened ahead of everything the    *)
(* server knows of, so a socket that a timer runs for stays dead.          *)
(***************************************************************************)
EXTENDS RemoteConnections, TLAPS

\* Another initial attempt is made only while there is one left, and a
\* connection that is past its first attempts has a socket.
LoopInv(r) ==
    /\ r.loop = "New" => r.attempts < MAX_ATTEMPTS
    /\ r.loop \notin {"New", "Failed"} => r.sock \in Socket

ClientsInOrder == \A c \in Connection : LoopInv(client[c])

\* The server knows of no socket that the client has not opened yet.
SocketsKnown ==
    \A c \in Connection :
        /\ server[c].sock <= client[c].sock
        /\ server[c].connectionData <= client[c].sock
        /\ \A i \in 1..Len(ipc[c]) : ipc[c][i] <= client[c].sock
        /\ \A k \in Socket : request[c][k] # "None" => k <= client[c].sock

LiveHasSocket ==
    \A c \in Connection : server[c].status = "Live" => server[c].sock \in Socket

TimersOfTheDead ==
    \A c \in Connection :
        server[c].runner1 \/ server[c].runner2 =>
            server[c].status = "Live" /\ ~up[c][server[c].sock]

IInv ==
    /\ TypeOK
    /\ ClientsInOrder
    /\ SocketsKnown
    /\ LiveHasSocket
    /\ TimersOfTheDead

-----------------------------------------------------------------------------
(* What the operators on a client record preserve. *)

\* Fire() touches nothing but the events.
LEMMA FireKeeps ==
    ASSUME NEW r \in ClientRecord, NEW events \in Seq(Event)
    PROVE  /\ Fire(r, events) \in ClientRecord
           /\ Fire(r, events).sock = r.sock
           /\ Fire(r, events).loop = r.loop
           /\ Fire(r, events).attempts = r.attempts
BY DEF Fire, ClientRecord

\* _gotoPermanentFailure() leaves the socket number and the loop alone.
LEMMA FailureKeeps ==
    ASSUME NEW c, NEW r \in ClientRecord
    PROVE  /\ GotoPermanentFailure(c, r) \in ClientRecord
           /\ GotoPermanentFailure(c, r).sock = r.sock
           /\ GotoPermanentFailure(c, r).loop = r.loop
           /\ GotoPermanentFailure(c, r).attempts = r.attempts
<1> DEFINE f == Fire(r, <<"ReconnectionPermanentFailure">>)
<1>1. f \in ClientRecord /\ f.sock = r.sock /\ f.loop = r.loop /\ f.attempts = r.attempts
  <2>1. <<"ReconnectionPermanentFailure">> \in Seq(Event)
    BY DEF Event
  <2> QED BY <2>1, FireKeeps
<1> HIDE DEF f
<1>2. GotoPermanentFailure(c, r) =
        [f EXCEPT !.failed = TRUE, !.listens = FALSE,
                  !.isDisposed = @ \/ c = Management]
  BY DEF GotoPermanentFailure, f
<1> QED BY <1>1, <1>2 DEF ClientRecord

\* The array of instances stays one of connections.
LEMMA WithoutInstanceType ==
    ASSUME NEW c, instances \in Seq(Connection)
    PROVE  WithoutInstance(c) \in Seq(Connection)
<1>1. CASE \E i \in 1..Len(instances) : instances[i] = c
  <2> DEFINE i == CHOOSE j \in 1..Len(instances) : instances[j] = c
  <2>1. i \in 1..Len(instances)
    BY <1>1
  <2>2. WithoutInstance(c) =
          SubSeq(instances, 1, i - 1) \o SubSeq(instances, i + 1, Len(instances))
    BY <1>1 DEF WithoutInstance
  <2> HIDE DEF i
  <2>3. /\ SubSeq(instances, 1, i - 1) \in Seq(Connection)
        /\ SubSeq(instances, i + 1, Len(instances)) \in Seq(Connection)
    BY <2>1
  <2> QED BY <2>2, <2>3
<1>2. CASE ~\E i \in 1..Len(instances) : instances[i] = c
  BY <1>2 DEF WithoutInstance
<1> QED BY <1>1, <1>2

\* What a permanent failure does to the connections: sockets may go down,
\* nothing else that the invariant speaks of changes.
LEMMA FailKeeps ==
    ASSUME TypeOK, NEW S, NEW cl \in [Connection -> ClientRecord], Fail(S, cl)
    PROVE  /\ client' \in [Connection -> ClientRecord]
           /\ up' \in [Connection -> [Socket -> BOOLEAN]]
           /\ instances' \in Seq(Connection)
           /\ \A c \in Connection :
                /\ client'[c].sock = cl[c].sock
                /\ client'[c].loop = cl[c].loop
                /\ client'[c].attempts = cl[c].attempts
           /\ \A c \in Connection, k \in Socket : up'[c][k] => up[c][k]
<1>1. \A c \in Connection :
        /\ GotoPermanentFailure(c, cl[c]) \in ClientRecord
        /\ GotoPermanentFailure(c, cl[c]).sock = cl[c].sock
        /\ GotoPermanentFailure(c, cl[c]).loop = cl[c].loop
        /\ GotoPermanentFailure(c, cl[c]).attempts = cl[c].attempts
  BY FailureKeeps
<1>2. client' = [c \in Connection |->
                   IF c \in S THEN GotoPermanentFailure(c, cl[c]) ELSE cl[c]]
  BY DEF Fail
<1>3. up' = [c \in Connection |-> [k \in Socket |->
               up[c][k] /\ ~(c \in S /\ k = cl[c].sock)]]
  BY DEF Fail
<1>4. instances' \in Seq(Connection)
  BY WithoutInstanceType DEF Fail, TypeOK
<1>5. /\ up' \in [Connection -> [Socket -> BOOLEAN]]
      /\ \A c \in Connection, k \in Socket : up'[c][k] => up[c][k]
  BY <1>3 DEF TypeOK
<1>6. /\ client' \in [Connection -> ClientRecord]
      /\ \A c \in Connection :
            /\ client'[c].sock = cl[c].sock
            /\ client'[c].loop = cl[c].loop
            /\ client'[c].attempts = cl[c].attempts
  BY <1>1, <1>2
<1> QED BY <1>4, <1>5, <1>6

-----------------------------------------------------------------------------
(* The steps of the client *)

\* A step of the client that opens no socket and tells the server nothing.
ClientOnly ==
    /\ UNCHANGED <<server, request, ipc>>
    /\ \A c \in Connection : client'[c].sock = client[c].sock
    /\ \A c \in Connection, k \in Socket : up'[c][k] => up[c][k]

\* Such a step leaves the server's part of the invariant alone.
LEMMA ClientOnlyKeeps ==
    ASSUME IInv, TypeOK', ClientsInOrder', ClientOnly
    PROVE  IInv'
<1>1. SocketsKnown'
  BY DEF IInv, SocketsKnown, ClientOnly
<1>2. LiveHasSocket'
  BY DEF IInv, LiveHasSocket, ClientOnly
<1>3. TimersOfTheDead'
  BY DEF IInv, LiveHasSocket, TimersOfTheDead, ClientOnly
<1> QED BY <1>1, <1>2, <1>3 DEF IInv

\* The record r takes the place of client[c], with the same socket.
LEMMA ClientRecordKeeps ==
    ASSUME IInv, NEW c \in Connection, NEW r \in ClientRecord,
           client' = [client EXCEPT ![c] = r],
           r.sock = client[c].sock,
           LoopInv(r),
           UNCHANGED <<server, request, answer, ipc>>,
           permanentFailure' \in BOOLEAN,
           instances' \in Seq(Connection),
           up' \in [Connection -> [Socket -> BOOLEAN]],
           \A d \in Connection, k \in Socket : up'[d][k] => up[d][k],
           farewell' \in [Connection -> SUBSET Socket],
           faults' \in 0..MaxFaults
    PROVE  IInv'
<1>1. TypeOK'
  BY DEF IInv, TypeOK
<1>2. ClientsInOrder'
  BY DEF IInv, TypeOK, ClientsInOrder
<1>3. ClientOnly
  BY DEF IInv, TypeOK, ClientOnly
<1> QED BY <1>1, <1>2, <1>3, ClientOnlyKeeps

\* Connections fail for good, with one client record changed before.
LEMMA FailInv ==
    ASSUME IInv, NEW S, NEW c \in Connection, NEW r \in ClientRecord,
           Fail(S, [client EXCEPT ![c] = r]),
           r.sock = client[c].sock,
           LoopInv(r),
           UNCHANGED <<server, request, answer, ipc, farewell>>,
           permanentFailure' \in BOOLEAN,
           faults' \in 0..MaxFaults
    PROVE  IInv'
<1> DEFINE cl == [client EXCEPT ![c] = r]
<1>1. /\ cl \in [Connection -> ClientRecord]
      /\ \A d \in Connection : cl[d].sock = client[d].sock
      /\ \A d \in Connection : LoopInv(cl[d])
  BY DEF IInv, TypeOK, ClientsInOrder
<1>2. Fail(S, cl)
  OBVIOUS
<1> HIDE DEF cl
<1>3. /\ client' \in [Connection -> ClientRecord]
      /\ up' \in [Connection -> [Socket -> BOOLEAN]]
      /\ instances' \in Seq(Connection)
      /\ \A d \in Connection :
           /\ client'[d].sock = cl[d].sock
           /\ client'[d].loop = cl[d].loop
           /\ client'[d].attempts = cl[d].attempts
      /\ \A d \in Connection, k \in Socket : up'[d][k] => up[d][k]
  BY <1>1, <1>2, FailKeeps DEF IInv
<1>4. TypeOK'
  BY <1>3 DEF IInv, TypeOK
<1>5. ClientsInOrder'
  BY <1>1, <1>3 DEF ClientsInOrder, LoopInv
<1>6. ClientOnly
  BY <1>1, <1>3 DEF ClientOnly
<1> QED BY <1>4, <1>5, <1>6, ClientOnlyKeeps

\* The same for the two ways a failure is brought about.
LEMMA PermanentFailureInv ==
    ASSUME IInv, NEW c \in Connection, NEW r \in ClientRecord,
           \/ TriggerPermanentFailure([client EXCEPT ![c] = r])
           \/ OnReconnectionPermanentFailure(c, [client EXCEPT ![c] = r]),
           r.sock = client[c].sock,
           LoopInv(r),
           UNCHANGED <<server, request, answer, ipc, farewell>>,
           faults' \in 0..MaxFaults
    PROVE  IInv'
<1>1. /\ permanentFailure' \in BOOLEAN
      /\ \E S : Fail(S, [client EXCEPT ![c] = r])
  BY DEF IInv, TypeOK, TriggerPermanentFailure, OnReconnectionPermanentFailure
<1>2. PICK S : Fail(S, [client EXCEPT ![c] = r])
  BY <1>1
<1> QED BY <1>1, <1>2, FailInv

\* A connection opens its next socket, ahead of all that the server knows.
LEMMA OpenSocketKeeps ==
    ASSUME IInv, NEW c \in Connection, OpenSocket(c), NEW l \in Active \cup {"Connecting"},
           client' = [client EXCEPT ![c] =
                        [MoveTo(@, NextSocket(c)) EXCEPT !.loop = l]],
           UNCHANGED <<permanentFailure, instances, server, answer, farewell, ipc, faults>>
    PROVE  IInv'
<1> DEFINE r == [MoveTo(client[c], NextSocket(c)) EXCEPT !.loop = l]
<1>1. client[c] \in ClientRecord
  BY DEF IInv, TypeOK
<1>2. NextSocket(c) \in Socket
  BY DEF OpenSocket
<1>3. /\ r \in ClientRecord
      /\ r.sock = client[c].sock + 1
      /\ r.loop = l
  BY <1>1, <1>2 DEF MoveTo, ClientRecord, NextSocket, Active
<1>4. client' = [client EXCEPT ![c] = r]
  OBVIOUS
<1> HIDE DEF r
<1>5. /\ client' \in [Connection -> ClientRecord]
      /\ client'[c] = r
      /\ \A d \in Connection : d # c => client'[d] = client[d]
  BY <1>3, <1>4 DEF IInv, TypeOK
<1>6. /\ request' \in [Connection -> [Socket -> {"None", "Pending", "FindingPort",
                                              "Draining", "Done"}]]
      /\ \A d \in Connection, k \in Socket :
            request'[d][k] # request[d][k] => d = c /\ k = client[c].sock + 1
  BY <1>2 DEF IInv, TypeOK, OpenSocket, NextSocket
<1>7. /\ up' \in [Connection -> [Socket -> BOOLEAN]]
      /\ \A d \in Connection, k \in Socket :
            up'[d][k] => up[d][k] \/ (d = c /\ k = client[c].sock + 1)
  BY <1>2 DEF IInv, TypeOK, OpenSocket, NextSocket
<1>8. TypeOK'
  BY <1>5, <1>6, <1>7 DEF IInv, TypeOK
<1>9. ClientsInOrder'
  BY <1>2, <1>3, <1>5 DEF IInv, ClientsInOrder, LoopInv, Active, NextSocket
<1>10. \A d \in Connection : client[d].sock \in Int /\ client'[d].sock \in Int
                              /\ client[d].sock <= client'[d].sock
  BY <1>3, <1>5, SMTT(40) DEF IInv, TypeOK, ClientRecord, Socket, NoSocket
<1>11. SocketsKnown'
  <2> SUFFICES ASSUME NEW d \in Connection
               PROVE  /\ server[d].sock <= client'[d].sock
                      /\ server[d].connectionData <= client'[d].sock
                      /\ \A i \in 1..Len(ipc[d]) : ipc[d][i] <= client'[d].sock
                      /\ \A k \in Socket : request'[d][k] # "None" => k <= client'[d].sock
    BY DEF SocketsKnown
  <2>0. server[d] \in ServerRecord /\ ipc[d] \in Seq(Socket \cup {ReduceGraceTime})
    BY DEF IInv, TypeOK
  <2>1. server[d].sock \in Int /\ server[d].connectionData \in Int
    BY <2>0 DEF ServerRecord, Socket, NoSocket
  <2>2. server[d].sock <= client'[d].sock /\ server[d].connectionData <= client'[d].sock
    BY <1>10, <2>1 DEF IInv, SocketsKnown
  <2>3. \A i \in 1..Len(ipc[d]) : ipc[d][i] <= client'[d].sock
    BY <1>10, <2>0 DEF IInv, SocketsKnown, Socket, ReduceGraceTime
  <2>4. \A k \in Socket : request'[d][k] # "None" => k <= client'[d].sock
    <3> SUFFICES ASSUME NEW k \in Socket, request'[d][k] # "None"
                 PROVE  k <= client'[d].sock
      OBVIOUS
    <3>1. CASE request'[d][k] # request[d][k]
      <4>1. d = c /\ k = client[c].sock + 1
        BY <1>6, <3>1
      <4>2. client'[d].sock = client[c].sock + 1
        BY <1>3, <1>5, <4>1
      <4> QED BY <4>1, <4>2, <1>10
    <3>2. CASE request'[d][k] = request[d][k]
      <4>1. k <= client[d].sock
        BY <3>2 DEF IInv, SocketsKnown
      <4> QED BY <4>1, <1>10 DEF Socket
    <3> QED BY <3>1, <3>2
  <2> QED BY <2>2, <2>3, <2>4
<1>12. LiveHasSocket'
  BY DEF IInv, LiveHasSocket
<1>13. TimersOfTheDead'
  <2> SUFFICES ASSUME NEW d \in Connection, server[d].runner1 \/ server[d].runner2
               PROVE  server[d].status = "Live" /\ ~up'[d][server[d].sock]
    BY DEF TimersOfTheDead
  <2>1. server[d].status = "Live" /\ ~up[d][server[d].sock]
    BY DEF IInv, TimersOfTheDead
  <2>2. server[d].sock \in Socket
    BY <2>1 DEF IInv, LiveHasSocket
  <2>3. server[d].sock <= client[d].sock
    BY DEF IInv, SocketsKnown
  <2> QED BY <1>7, <1>10, <2>1, <2>2, <2>3 DEF Socket
<1> QED BY <1>8, <1>9, <1>11, <1>12, <1>13 DEF IInv

\* Every handler of the client keeps the invariant.
LEMMA ClientStepKeeps ==
    ASSUME IInv, NEW c \in Connection, ClientStep(c)
    PROVE  IInv'
<1> DEFINE r == client[c]
<1>0. /\ r \in ClientRecord
      /\ r.loop = "New" => r.attempts < MAX_ATTEMPTS
      /\ r.loop \notin {"New", "Failed"} => r.sock \in Socket
  BY DEF IInv, TypeOK, ClientsInOrder, LoopInv
<1>1. /\ permanentFailure \in BOOLEAN
      /\ instances \in Seq(Connection)
      /\ up \in [Connection -> [Socket -> BOOLEAN]]
      /\ farewell \in [Connection -> SUBSET Socket]
      /\ faults \in 0..MaxFaults
  BY DEF IInv, TypeOK
<1>2. SpendFault => faults' \in 0..MaxFaults
  BY <1>1, ConnectionsAssumption DEF SpendFault
<1>3. /\ <<"ConnectionGain">> \in Seq(Event)
      /\ <<"ConnectionLost", "ReconnectionRunning">> \in Seq(Event)
      /\ <<"ReconnectionRunning">> \in Seq(Event)
      /\ <<"ReconnectionWait">> \in Seq(Event)
  BY DEF Event
<1>4. \A s \in ClientRecord :
        /\ BeginReconnecting(s) \in ClientRecord
        /\ BeginReconnecting(s).sock = s.sock
        /\ LoopInv(s) => LoopInv(BeginReconnecting(s))
  <2> SUFFICES ASSUME NEW s \in ClientRecord
               PROVE  /\ BeginReconnecting(s) \in ClientRecord
                      /\ BeginReconnecting(s).sock = s.sock
                      /\ LoopInv(s) => LoopInv(BeginReconnecting(s))
    OBVIOUS
  <2> DEFINE f == Fire(s, <<"ConnectionLost", "ReconnectionRunning">>)
  <2>1. f \in ClientRecord /\ f.sock = s.sock /\ f.attempts = s.attempts
    BY <1>3, FireKeeps
  <2>2. \/ BeginReconnecting(s) = s
        \/ /\ BeginReconnecting(s) = [f EXCEPT !.loop = "Resolving", !.graceOver = FALSE]
           /\ s.loop = "Idle"
    BY DEF BeginReconnecting
  <2>3. CASE BeginReconnecting(s) = s
    BY <2>3
  <2>4. CASE /\ BeginReconnecting(s) = [f EXCEPT !.loop = "Resolving", !.graceOver = FALSE]
             /\ s.loop = "Idle"
    <3> HIDE DEF f
    <3> QED BY <2>1, <2>4 DEF ClientRecord, Active, LoopInv
  <2> QED BY <2>2, <2>3, <2>4
<1>5. CASE BeginInitialAttempt(c)
  BY <1>5, OpenSocketKeeps DEF BeginInitialAttempt
<1>6. CASE BeginAttempt(c)
  BY <1>6, OpenSocketKeeps DEF BeginAttempt, Active
<1>7. CASE InitialAttemptFails(c)
  <2> DEFINE r1 == [r EXCEPT !.attempts = @ + 1]
             r2 == [r1 EXCEPT !.loop = "Failed"]
  <2>1. r.attempts + 1 \in 0..MAX_ATTEMPTS
    BY <1>0, <1>7, ConnectionsAssumption DEF InitialAttemptFails, ClientRecord
  <2>2. /\ r1 \in ClientRecord /\ r1.sock = r.sock
        /\ r2 \in ClientRecord /\ r2.sock = r.sock /\ r2.loop = "Failed"
    BY <1>0, <2>1 DEF ClientRecord
  <2>3. CASE r1.attempts < MAX_ATTEMPTS
    <3>1. /\ client' = [client EXCEPT ![c] = r1]
          /\ UNCHANGED <<permanentFailure, instances, up, server, request, answer, farewell, ipc>>
          /\ SpendFault
      BY <1>7, <2>3 DEF InitialAttemptFails
    <3>2. LoopInv(r1)
      BY <1>0, <1>7, <2>3 DEF LoopInv, InitialAttemptFails, ClientRecord
    <3> HIDE DEF r1
    <3> QED BY <1>1, <1>2, <2>2, <3>1, <3>2, ClientRecordKeeps
  <2>4. CASE ~(r1.attempts < MAX_ATTEMPTS)
    <3>1. /\ TriggerPermanentFailure([client EXCEPT ![c] = r2])
          /\ UNCHANGED <<server, request, answer, farewell, ipc>>
          /\ SpendFault
      BY <1>7, <2>4 DEF InitialAttemptFails
    <3> HIDE DEF r1, r2
    <3>2. LoopInv(r2)
      BY <2>2 DEF LoopInv
    <3> QED BY <1>2, <2>2, <3>1, <3>2, PermanentFailureInv
  <2> QED BY <2>3, <2>4
<1>8. CASE Construct(c)
  <2> DEFINE i == [r EXCEPT !.loop = "Idle"]
             s == Fire(i, <<"ConnectionGain">>)
             g == GotoPermanentFailure(c, s)
  <2>1. i \in ClientRecord /\ i.sock = r.sock /\ i.loop = "Idle"
    BY <1>0 DEF ClientRecord
  <2>2. s \in ClientRecord /\ s.sock = r.sock /\ s.loop = "Idle"
    BY <1>3, <2>1, FireKeeps
  <2>3. g \in ClientRecord /\ g.sock = r.sock /\ g.loop = "Idle"
    BY <2>2, FailureKeeps
  <2>4. /\ UNCHANGED <<permanentFailure, server, request, answer, farewell, ipc, faults>>
        /\ instances' = IF permanentFailure /\ c = Management THEN instances
                        ELSE Append(instances, c)
        /\ \/ client' = [client EXCEPT ![c] = g] /\ up' = [up EXCEPT ![c][s.sock] = FALSE]
           \/ client' = [client EXCEPT ![c] = s] /\ up' = up
    BY <1>8 DEF Construct
  <2>5. instances' \in Seq(Connection)
    BY <1>1, <2>4
  <2> HIDE DEF i, s, g
  <2>6. /\ up' \in [Connection -> [Socket -> BOOLEAN]]
        /\ \A d \in Connection, k \in Socket : up'[d][k] => up[d][k]
    <3>1. CASE up' = [up EXCEPT ![c][s.sock] = FALSE]
      BY <1>1, <3>1
    <3>2. CASE up' = up
      BY <1>1, <3>2
    <3> QED BY <2>4, <3>1, <3>2
  <2>7. r.sock \in Socket
    BY <1>0, <1>8 DEF Construct
  <2>8. LoopInv(s) /\ LoopInv(g)
    BY <2>2, <2>3, <2>7 DEF LoopInv
  <2> QED BY <1>1, <2>2, <2>3, <2>4, <2>5, <2>6, <2>8, ClientRecordKeeps
<1>9. CASE SocketClose(c)
  <2> DEFINE i == [r EXCEPT !.socketClosed = TRUE]
             b == BeginReconnecting(i)
  <2>1. i \in ClientRecord /\ i.sock = r.sock /\ i.loop = r.loop /\ i.attempts = r.attempts
    BY <1>0 DEF ClientRecord
  <2>2. /\ client' = [client EXCEPT ![c] = b]
        /\ UNCHANGED <<permanentFailure, instances, server, netVars, ipc, faults>>
    BY <1>9 DEF SocketClose
  <2> HIDE DEF i
  <2>3. b \in ClientRecord /\ b.sock = r.sock /\ LoopInv(b)
    BY <1>0, <1>4, <2>1 DEF LoopInv
  <2> HIDE DEF b
  <2> QED BY <1>1, <2>2, <2>3, ClientRecordKeeps DEF netVars
<1>10. CASE SocketTimeout(c)
  <2> DEFINE b == BeginReconnecting(r)
  <2>2. /\ client' = [client EXCEPT ![c] = b]
        /\ UNCHANGED <<permanentFailure, instances, server, netVars, ipc>>
        /\ SpendFault
    BY <1>10 DEF SocketTimeout
  <2>3. b \in ClientRecord /\ b.sock = r.sock /\ LoopInv(b)
    BY <1>0, <1>4 DEF LoopInv
  <2> HIDE DEF b
  <2> QED BY <1>1, <1>2, <2>2, <2>3, ClientRecordKeeps DEF netVars
<1>11. CASE WaitDone(c)
  <2> DEFINE f == Fire(r, <<"ReconnectionRunning">>)
             w == IF permanentFailure THEN [r EXCEPT !.loop = "Idle"]
                  ELSE [f EXCEPT !.loop = "Resolving"]
  <2>1. /\ client' = [client EXCEPT ![c] = w]
        /\ UNCHANGED <<permanentFailure, instances, server, netVars, ipc, faults>>
    BY <1>11 DEF WaitDone
  <2>2. f \in ClientRecord /\ f.sock = r.sock
    BY <1>0, <1>3, FireKeeps
  <2> HIDE DEF f
  <2>3. w \in ClientRecord /\ w.sock = r.sock /\ LoopInv(w)
    <3>1. r.sock \in Socket
      BY <1>0, <1>11 DEF WaitDone
    <3> QED BY <1>0, <2>2, <3>1 DEF ClientRecord, Active, LoopInv
  <2> HIDE DEF w
  <2> QED BY <1>1, <2>1, <2>3, ClientRecordKeeps DEF netVars
<1>12. CASE HandshakeOk(c)
  <2> DEFINE f == Fire(r, <<"ConnectionGain">>)
             w == [f EXCEPT !.loop = "Idle"]
  <2>1. /\ client' = [client EXCEPT ![c] = w]
        /\ UNCHANGED <<permanentFailure, instances, server, request, answer, up, ipc, faults>>
    BY <1>12 DEF HandshakeOk
  <2>2. farewell' \in [Connection -> SUBSET Socket]
    <3>1. \/ farewell' = [farewell EXCEPT ![c] = @ \cup {r.sock}] /\ up[c][r.sock]
          \/ farewell' = farewell
      BY <1>1, <1>12 DEF HandshakeOk
    <3>2. CanReadAnswer(c, "ok") /\ r.loop = "Handshaking"
      BY <1>12 DEF HandshakeOk
    <3> QED BY <1>0, <1>1, <3>1, <3>2 DEF ClientRecord
  <2>3. f \in ClientRecord /\ f.sock = r.sock
    BY <1>0, <1>3, FireKeeps
  <2> HIDE DEF f
  <2>4. w \in ClientRecord /\ w.sock = r.sock /\ LoopInv(w)
    BY <1>0, <1>12, <2>3 DEF ClientRecord, LoopInv, HandshakeOk
  <2> HIDE DEF w
  <2> QED BY <1>1, <2>1, <2>2, <2>4, ClientRecordKeeps
<1>13. CASE HandshakeError(c) \/ GiveUp(c)
  <2> DEFINE i == [r EXCEPT !.loop = "Idle"]
  <2>1. /\ OnReconnectionPermanentFailure(c, [client EXCEPT ![c] = i])
        /\ UNCHANGED <<server, request, answer, farewell, ipc>>
    BY <1>13 DEF HandshakeError, GiveUp, Idle
  <2>2. r.loop \in {"Resolving", "Handshaking"} /\ faults' \in 0..MaxFaults
    BY <1>1, <1>2, <1>13 DEF HandshakeError, GiveUp, AttemptCanFail
  <2>3. i \in ClientRecord /\ i.sock = r.sock /\ LoopInv(i)
    BY <1>0, <2>2 DEF ClientRecord, LoopInv
  <2> HIDE DEF i
  <2> QED BY <2>1, <2>2, <2>3, PermanentFailureInv
<1>14. CASE Retry(c)
  <2> DEFINE f == Fire(r, <<"ReconnectionWait">>)
             w == IF permanentFailure \/ r.isDisposed THEN [r EXCEPT !.loop = "Idle"]
                  ELSE [f EXCEPT !.loop = "Waiting"]
  <2>1. /\ client' = [client EXCEPT ![c] = w]
        /\ UNCHANGED <<permanentFailure, instances, server, netVars, ipc>>
    BY <1>14 DEF Retry
  <2>2. r.loop \in {"Resolving", "Handshaking"} /\ faults' \in 0..MaxFaults
    BY <1>1, <1>2, <1>14 DEF Retry, AttemptCanFail
  <2>3. f \in ClientRecord /\ f.sock = r.sock
    BY <1>0, <1>3, FireKeeps
  <2> HIDE DEF f
  <2>4. w \in ClientRecord /\ w.sock = r.sock /\ LoopInv(w)
    BY <1>0, <2>2, <2>3 DEF ClientRecord, Active, LoopInv
  <2> HIDE DEF w
  <2> QED BY <1>1, <2>1, <2>2, <2>4, ClientRecordKeeps DEF netVars
<1>15. CASE GraceTimePasses(c)
  <2> DEFINE w == [r EXCEPT !.graceOver = TRUE]
  <2>1. /\ client' = [client EXCEPT ![c] = w]
        /\ UNCHANGED <<permanentFailure, instances, server, netVars, ipc, faults>>
    BY <1>15 DEF GraceTimePasses
  <2>2. w \in ClientRecord /\ w.sock = r.sock /\ LoopInv(w)
    BY <1>0 DEF ClientRecord, LoopInv
  <2> HIDE DEF w
  <2> QED BY <1>1, <2>1, <2>2, ClientRecordKeeps DEF netVars
<1>16. CASE Dispose(c)
  <2> DEFINE w == [r EXCEPT !.isDisposed = TRUE]
  <2>1. /\ client' = [client EXCEPT ![c] = w]
        /\ UNCHANGED <<permanentFailure, server, request, answer, ipc, faults>>
    BY <1>16 DEF Dispose
  <2>2. r.sock \in Socket
    BY <1>0, <1>16 DEF Dispose, Active
  <2>3. w \in ClientRecord /\ w.sock = r.sock /\ LoopInv(w)
    BY <1>0 DEF ClientRecord, LoopInv
  <2>4. instances' \in Seq(Connection)
    BY <1>1, <1>16, WithoutInstanceType DEF Dispose
  <2>5. farewell' \in [Connection -> SUBSET Socket]
    <3>1. \/ farewell' = [farewell EXCEPT ![c] = @ \cup {r.sock}]
          \/ farewell' = farewell
      BY <1>1, <1>16 DEF Dispose
    <3> QED BY <1>1, <2>2, <3>1
  <2>6. /\ up' \in [Connection -> [Socket -> BOOLEAN]]
        /\ \A d \in Connection, k \in Socket : up'[d][k] => up[d][k]
    <3>1. up' = [up EXCEPT ![c][r.sock] = @ /\ c = Management]
      BY <1>16 DEF Dispose
    <3> QED BY <1>1, <3>1
  <2> HIDE DEF w
  <2> QED BY <1>1, <2>1, <2>3, <2>4, <2>5, <2>6, ClientRecordKeeps
<1> QED
  BY <1>5, <1>6, <1>7, <1>8, <1>9, <1>10, <1>11, <1>12, <1>13, <1>14, <1>15, <1>16
  DEF ClientStep

-----------------------------------------------------------------------------
(* The steps of the server and the network: the client stands still, and    *)
(* the invariant falls apart into what holds of each connection.            *)

\* Of the server's record r for d, when its sockets are as in u.
ServerOK(d, r, u) ==
    /\ r \in ServerRecord
    /\ r.sock <= client[d].sock
    /\ r.connectionData <= client[d].sock
    /\ r.status = "Live" => r.sock \in Socket
    /\ r.runner1 \/ r.runner2 => r.status = "Live" /\ ~u[r.sock]

\* Of the messages q to the process of d.
QueueOK(d, q) ==
    /\ q \in Seq(Socket \cup {ReduceGraceTime})
    /\ \A i \in 1..Len(q) : q[i] <= client[d].sock

RequestState == {"None", "Pending", "FindingPort", "Draining", "Done"}

\* Of the handshakes q of d.
RequestsOK(d, q) ==
    /\ q \in [Socket -> RequestState]
    /\ \A k \in Socket : q[k] # "None" => k <= client[d].sock

\* The invariant, taken apart by connection.
LEMMA ServerFacts ==
    ASSUME IInv, NEW d \in Connection
    PROVE  /\ ServerOK(d, server[d], up[d])
           /\ QueueOK(d, ipc[d])
           /\ RequestsOK(d, request[d])
           /\ client[d] \in ClientRecord
BY DEF IInv, TypeOK, SocketsKnown, LiveHasSocket, TimersOfTheDead,
       ServerOK, QueueOK, RequestsOK, RequestState

\* The invariant, put together again after a step of the server.
LEMMA ServerKeeps ==
    ASSUME IInv,
           UNCHANGED <<permanentFailure, instances, client>>,
           server' = [d \in Connection |-> server'[d]],
           request' = [d \in Connection |-> request'[d]],
           ipc' = [d \in Connection |-> ipc'[d]],
           \A d \in Connection :
               /\ ServerOK(d, server'[d], up'[d])
               /\ QueueOK(d, ipc'[d])
               /\ RequestsOK(d, request'[d]),
           answer' \in [Connection -> [Socket -> {"None", "ok", "error"}]],
           up' \in [Connection -> [Socket -> BOOLEAN]],
           farewell' \in [Connection -> SUBSET Socket],
           faults' \in 0..MaxFaults
    PROVE  IInv'
<1>1. /\ server' \in [Connection -> ServerRecord]
      /\ ipc' \in [Connection -> Seq(Socket \cup {ReduceGraceTime})]
      /\ request' \in [Connection -> [Socket -> RequestState]]
  BY DEF ServerOK, QueueOK, RequestsOK
<1>2. TypeOK'
  BY <1>1 DEF IInv, TypeOK, RequestState
<1>3. ClientsInOrder'
  BY DEF IInv, ClientsInOrder
<1>4. SocketsKnown'
  BY DEF SocketsKnown, ServerOK, QueueOK, RequestsOK
<1>5. LiveHasSocket'
  BY DEF LiveHasSocket, ServerOK
<1>6. TimersOfTheDead'
  BY DEF TimersOfTheDead, ServerOK
<1> QED BY <1>2, <1>3, <1>4, <1>5, <1>6 DEF IInv

\* Closing sockets does not disturb a record.
LEMMA ClosingKeeps ==
    ASSUME NEW d, NEW r, NEW u, NEW v, ServerOK(d, r, u),
           \A k \in Socket : v[k] => u[k]
    PROVE  ServerOK(d, r, v)
BY DEF ServerOK

\* The reduce message concerns connections that are disconnected anyway.
LEMMA Schedule2Keeps ==
    ASSUME NEW d, NEW r, NEW u, ServerOK(d, r, u)
    PROVE  ServerOK(d, Schedule2(r), u) /\ Schedule2(r).status = r.status
                                        /\ Schedule2(r).sock = r.sock
BY DEF ServerOK, Schedule2, ServerRecord

\* A reconnection leaves no timer behind.
LEMMA AcceptReconnectionKeeps ==
    ASSUME IInv, NEW d \in Connection, NEW r \in ServerRecord, NEW u, NEW v,
           NEW k \in Socket, ServerOK(d, r, u), k <= client[d].sock
    PROVE  ServerOK(d, AcceptReconnection(r, k), v)
BY DEF ServerOK, AcceptReconnection, ServerRecord

\* A message to a process names a socket that was opened.
LEMMA AppendQueue ==
    ASSUME IInv, NEW d \in Connection, NEW k \in Socket \cup {ReduceGraceTime},
           k <= client[d].sock
    PROVE  QueueOK(d, Append(ipc[d], k))
<1>1. QueueOK(d, ipc[d])
  BY ServerFacts
<1> QED BY <1>1 DEF QueueOK

\* So does the message that a process takes.
LEMMA TailQueue ==
    ASSUME IInv, NEW d \in Connection, ipc[d] # <<>>
    PROVE  /\ QueueOK(d, Tail(ipc[d]))
           /\ Head(ipc[d]) \in Socket \cup {ReduceGraceTime}
           /\ Head(ipc[d]) <= client[d].sock
<1>1. QueueOK(d, ipc[d])
  BY ServerFacts
<1> QED BY <1>1 DEF QueueOK

\* Every process gets the reduce message.
LEMMA ReduceKeeps ==
    ASSUME IInv, SendReduceGraceTime
    PROVE  /\ ipc' = [d \in Connection |-> ipc'[d]]
           /\ \A d \in Connection : QueueOK(d, ipc'[d])
<1>1. \A d \in Connection :
        QueueOK(d, ipc[d]) /\ QueueOK(d, Append(ipc[d], ReduceGraceTime))
  <2> SUFFICES ASSUME NEW d \in Connection
               PROVE  QueueOK(d, ipc[d]) /\ QueueOK(d, Append(ipc[d], ReduceGraceTime))
    OBVIOUS
  <2>1. client[d] \in ClientRecord /\ QueueOK(d, ipc[d])
    BY ServerFacts
  <2>2. ReduceGraceTime <= client[d].sock
    BY <2>1 DEF ReduceGraceTime, ClientRecord, Socket, NoSocket
  <2> QED BY <2>1, <2>2, AppendQueue
<1> QED BY <1>1 DEF SendReduceGraceTime

\* The management connection is shortened in the server itself.
LEMMA ShortenedKeeps ==
    ASSUME IInv
    PROVE  /\ Shortened = [d \in Connection |-> Shortened[d]]
           /\ \A d \in Connection : /\ ServerOK(d, Shortened[d], up[d])
                                    /\ Shortened[d].status = server[d].status
                                    /\ Shortened[d].sock = server[d].sock
<1>1. server \in [Connection -> ServerRecord] /\ Management \in Connection
  BY DEF IInv, TypeOK, Connection
<1>2. \A d \in Connection :
        Shortened[d] = IF d = Management THEN Schedule2(server[d]) ELSE server[d]
  BY <1>1 DEF Shortened
<1>3. Shortened = [d \in Connection |-> Shortened[d]]
  BY <1>1 DEF Shortened
<1>4. \A d \in Connection : /\ ServerOK(d, server[d], up[d])
                            /\ ServerOK(d, Schedule2(server[d]), up[d])
                            /\ Schedule2(server[d]).status = server[d].status
                            /\ Schedule2(server[d]).sock = server[d].sock
  BY ServerFacts, Schedule2Keeps
<1> QED BY <1>2, <1>3, <1>4

\* A handshake that was begun goes on.
LEMMA RequestKeeps ==
    ASSUME IInv, NEW d \in Connection, NEW k \in Socket, NEW s \in RequestState,
           k <= client[d].sock,
           request' = [request EXCEPT ![d][k] = s]
    PROVE  /\ request' = [c \in Connection |-> request'[c]]
           /\ \A c \in Connection : RequestsOK(c, request'[c])
<1>1. request \in [Connection -> [Socket -> RequestState]]
  BY DEF IInv, TypeOK, RequestState
<1>2. \A c \in Connection : RequestsOK(c, request[c])
  BY ServerFacts
<1>3. \A c \in Connection : RequestsOK(c, request'[c])
  BY <1>1, <1>2 DEF RequestsOK
<1> QED BY <1>1, <1>3

\* The record r takes the place of server[c]; sockets may be closed.
LEMMA ServerRecordKeeps ==
    ASSUME IInv, NEW c \in Connection, NEW r,
           server' = [server EXCEPT ![c] = r],
           ServerOK(c, r, up'[c]),
           UNCHANGED <<permanentFailure, instances, client>>,
           request' = [d \in Connection |-> request'[d]],
           \A d \in Connection : RequestsOK(d, request'[d]),
           ipc' = [d \in Connection |-> ipc'[d]],
           \A d \in Connection : QueueOK(d, ipc'[d]),
           answer' \in [Connection -> [Socket -> {"None", "ok", "error"}]],
           up' \in [Connection -> [Socket -> BOOLEAN]],
           \A d \in Connection, k \in Socket : up'[d][k] => up[d][k],
           farewell' \in [Connection -> SUBSET Socket],
           faults' \in 0..MaxFaults
    PROVE  IInv'
<1>1. server \in [Connection -> ServerRecord]
  BY DEF IInv, TypeOK
<1>2. server' = [d \in Connection |-> server'[d]]
  BY <1>1
<1>3. \A d \in Connection : ServerOK(d, server'[d], up'[d])
  <2> SUFFICES ASSUME NEW d \in Connection PROVE ServerOK(d, server'[d], up'[d])
    OBVIOUS
  <2>1. CASE d = c
    BY <1>1, <2>1
  <2>2. CASE d # c
    <3>1. server'[d] = server[d]
      BY <1>1, <2>2
    <3> QED BY <3>1, ServerFacts, ClosingKeeps
  <2> QED BY <2>1, <2>2
<1> QED BY <1>2, <1>3, ServerKeeps

\* The variables a step of the server leaves alone.
LEMMA Untouched ==
    ASSUME IInv
    PROVE  /\ UNCHANGED request =>
                /\ request' = [d \in Connection |-> request'[d]]
                /\ \A d \in Connection : RequestsOK(d, request'[d])
           /\ UNCHANGED ipc =>
                /\ ipc' = [d \in Connection |-> ipc'[d]]
                /\ \A d \in Connection : QueueOK(d, ipc'[d])
           /\ UNCHANGED answer =>
                answer' \in [Connection -> [Socket -> {"None", "ok", "error"}]]
           /\ UNCHANGED up =>
                /\ up' \in [Connection -> [Socket -> BOOLEAN]]
                /\ \A d \in Connection, k \in Socket : up'[d][k] => up[d][k]
           /\ UNCHANGED farewell => farewell' \in [Connection -> SUBSET Socket]
           /\ UNCHANGED faults \/ SpendFault => faults' \in 0..MaxFaults
<1>1. /\ request \in [Connection -> [Socket -> RequestState]]
      /\ ipc \in [Connection -> Seq(Socket \cup {ReduceGraceTime})]
      /\ \A d \in Connection : RequestsOK(d, request[d]) /\ QueueOK(d, ipc[d])
  BY ServerFacts DEF IInv, TypeOK, RequestState
<1>2. UNCHANGED faults \/ SpendFault => faults' \in 0..MaxFaults
  BY ConnectionsAssumption DEF IInv, TypeOK, SpendFault
<1>3. UNCHANGED request => request' = [d \in Connection |-> request'[d]]
  BY <1>1
<1>4. UNCHANGED ipc => ipc' = [d \in Connection |-> ipc'[d]]
  BY <1>1
<1> QED BY <1>1, <1>2, <1>3, <1>4 DEF IInv, TypeOK

\* The next message to the process of c is taken.
LEMMA HasMessageKeeps ==
    ASSUME IInv, NEW c \in Connection, HasMessage(c)
    PROVE  /\ ipc' = [d \in Connection |-> ipc'[d]]
           /\ \A d \in Connection : QueueOK(d, ipc'[d])
           /\ Head(ipc[c]) \in Socket \cup {ReduceGraceTime}
           /\ Head(ipc[c]) <= client[c].sock
<1>1. ipc' = [ipc EXCEPT ![c] = Tail(@)] /\ ipc[c] # <<>>
  BY DEF HasMessage
<1>2. ipc \in [Connection -> Seq(Socket \cup {ReduceGraceTime})]
  BY DEF IInv, TypeOK
<1>3. \A d \in Connection : QueueOK(d, ipc[d])
  BY ServerFacts
<1>4. QueueOK(c, Tail(ipc[c]))
  BY <1>1, TailQueue
<1>5. \A d \in Connection : QueueOK(d, ipc'[d])
  BY <1>1, <1>2, <1>3, <1>4
<1> QED BY <1>1, <1>2, <1>5, TailQueue

\* The socket that is replaced goes, and no other comes.
LEMMA ReplaceKeeps ==
    ASSUME IInv, NEW c \in Connection, NEW k, Replace(c, k)
    PROVE  /\ up' \in [Connection -> [Socket -> BOOLEAN]]
           /\ \A d \in Connection, j \in Socket : up'[d][j] => up[d][j]
BY DEF IInv, TypeOK, Replace

\* A refused socket goes, and no other comes.
LEMMA RejectKeeps ==
    ASSUME IInv, NEW c \in Connection, NEW k \in Socket, Reject(c, k)
    PROVE  /\ up' \in [Connection -> [Socket -> BOOLEAN]]
           /\ \A d \in Connection, j \in Socket : up'[d][j] => up[d][j]
           /\ answer' \in [Connection -> [Socket -> {"None", "ok", "error"}]]
BY DEF IInv, TypeOK, Reject

\* A connection that ends has no timers any more.
LEMMA EndKeeps ==
    ASSUME IInv, NEW c \in Connection, End(c),
           UNCHANGED <<permanentFailure, instances, client, request, answer, ipc, faults>>,
           farewell' \in [Connection -> SUBSET Socket]
    PROVE  IInv'
<1> DEFINE r == [server[c] EXCEPT
                    !.status = IF c = Management THEN "Gone" ELSE "Exiting",
                    !.runner1 = FALSE, !.runner2 = FALSE]
<1>1. server' = [server EXCEPT ![c] = r]
  BY DEF End, IInv, TypeOK
<1>2. ServerOK(c, server[c], up[c])
  BY ServerFacts
<1>3. ServerOK(c, r, up'[c])
  BY <1>2 DEF ServerOK, ServerRecord
<1>4. /\ up' \in [Connection -> [Socket -> BOOLEAN]]
      /\ \A d \in Connection, k \in Socket : up'[d][k] => up[d][k]
  BY DEF End, IInv, TypeOK
<1> HIDE DEF r
<1> QED BY <1>1, <1>3, <1>4, Untouched, ServerRecordKeeps

\* The handshake of a management connection keeps the invariant.
LEMMA HandleManagementKeeps ==
    ASSUME IInv, NEW k \in Socket, HandleManagement(k)
    PROVE  IInv'
<1> DEFINE c == Management
           a == AcceptReconnection(Shortened[c], k)
<1>1. c \in Connection
  BY DEF Connection
<1>2. k <= client[c].sock
  BY <1>1 DEF IInv, SocketsKnown, HandleManagement
<1>3. /\ request' = [d \in Connection |-> request'[d]]
      /\ \A d \in Connection : RequestsOK(d, request'[d])
  <2>1. request' = [request EXCEPT ![c][k] = "Done"]
    BY DEF HandleManagement
  <2> QED BY <1>1, <1>2, <2>1, RequestKeeps DEF RequestState
<1>4. /\ ipc' = [d \in Connection |-> ipc'[d]]
      /\ \A d \in Connection : QueueOK(d, ipc'[d])
  BY ReduceKeeps DEF HandleManagement
<1>5. UNCHANGED <<permanentFailure, instances, client, farewell, faults>>
  BY DEF HandleManagement
<1>6. CASE k = 1 \/ server[c].status = "Live"
  <2>1. /\ server' = [Shortened EXCEPT ![c] = AcceptReconnection(@, k)]
        /\ Replace(c, k)
        /\ answer' = [answer EXCEPT ![c][k] = "ok"]
    BY <1>6 DEF HandleManagement
  <2>2. answer' \in [Connection -> [Socket -> {"None", "ok", "error"}]]
    BY <2>1 DEF IInv, TypeOK
  <2>3. /\ up' \in [Connection -> [Socket -> BOOLEAN]]
        /\ \A d \in Connection, j \in Socket : up'[d][j] => up[d][j]
    BY <1>1, <2>1, ReplaceKeeps
  <2>4. ServerOK(c, a, up'[c])
    <3>1. ServerOK(c, Shortened[c], up[c])
      BY <1>1, ShortenedKeeps
    <3>2. Shortened[c] \in ServerRecord
      BY <3>1 DEF ServerOK
    <3> QED BY <1>1, <1>2, <3>1, <3>2, AcceptReconnectionKeeps
  <2>5. /\ server' = [d \in Connection |-> server'[d]]
        /\ server'[c] = a
        /\ \A d \in Connection : d # c => server'[d] = Shortened[d]
    BY <1>1, <2>1, ShortenedKeeps
  <2> HIDE DEF a
  <2>6. \A d \in Connection : ServerOK(d, server'[d], up'[d])
    <3> SUFFICES ASSUME NEW d \in Connection PROVE ServerOK(d, server'[d], up'[d])
      OBVIOUS
    <3>1. CASE d = c
      BY <2>4, <2>5, <3>1
    <3>2. CASE d # c
      BY <2>3, <2>5, <3>2, ShortenedKeeps, ClosingKeeps
    <3> QED BY <3>1, <3>2
  <2> QED BY <1>3, <1>4, <1>5, <2>2, <2>3, <2>5, <2>6, Untouched, ServerKeeps
<1>7. CASE ~(k = 1 \/ server[c].status = "Live")
  <2>1. server' = Shortened /\ Reject(c, k)
    BY <1>7 DEF HandleManagement
  <2>2. /\ up' \in [Connection -> [Socket -> BOOLEAN]]
        /\ \A d \in Connection, j \in Socket : up'[d][j] => up[d][j]
        /\ answer' \in [Connection -> [Socket -> {"None", "ok", "error"}]]
    BY <1>1, <2>1, RejectKeeps
  <2>3. \A d \in Connection : ServerOK(d, server'[d], up'[d])
    BY <2>1, <2>2, ShortenedKeeps, ClosingKeeps
  <2>4. server' = [d \in Connection |-> server'[d]]
    BY <2>1, ShortenedKeeps
  <2> QED BY <1>3, <1>4, <1>5, <2>2, <2>3, <2>4, Untouched, ServerKeeps
<1> QED BY <1>6, <1>7

\* The handshake of an extension host, and the socket's way to its process.
LEMMA HandshakeStepKeeps ==
    ASSUME IInv, NEW c \in Connection, NEW k \in Socket,
           \/ HandleExtensionHost(c, k)
           \/ AcceptExtensionHost(c, k)
           \/ SendSocket(c, k)
    PROVE  IInv'
<1>1. k <= client[c].sock
  BY DEF IInv, SocketsKnown, HandleExtensionHost, AcceptExtensionHost, SendSocket
<1>2. UNCHANGED <<permanentFailure, instances, client, farewell, faults>>
  BY DEF HandleExtensionHost, AcceptExtensionHost, SendSocket
<1>3. /\ request' = [d \in Connection |-> request'[d]]
      /\ \A d \in Connection : RequestsOK(d, request'[d])
  <2>1. \E s \in RequestState : request' = [request EXCEPT ![c][k] = s]
    BY DEF HandleExtensionHost, AcceptExtensionHost, SendSocket, RequestState
  <2> QED BY <1>1, <2>1, RequestKeeps
<1>4. /\ server \in [Connection -> ServerRecord]
      /\ server = [server EXCEPT ![c] = server[c]]
      /\ ServerOK(c, server[c], up[c])
  BY ServerFacts DEF IInv, TypeOK
<1>5. CASE HandleExtensionHost(c, k)
  <2>1. server' = Shortened /\ UNCHANGED <<answer, up>>
    BY <1>5 DEF HandleExtensionHost
  <2>2. /\ ipc' = [d \in Connection |-> ipc'[d]]
        /\ \A d \in Connection : QueueOK(d, ipc'[d])
    BY <1>5, ReduceKeeps DEF HandleExtensionHost
  <2>3. /\ server' = [d \in Connection |-> server'[d]]
        /\ \A d \in Connection : ServerOK(d, server'[d], up'[d])
    BY <2>1, ShortenedKeeps
  <2> QED BY <1>2, <1>3, <2>1, <2>2, <2>3, Untouched, ServerKeeps
<1>6. CASE AcceptExtensionHost(c, k)
  <2> DEFINE r == IF HasProcess(c) THEN server[c]
                  ELSE KeepSocket(server[c], k)
  <2>1. UNCHANGED ipc
    BY <1>6 DEF AcceptExtensionHost
  <2>2. CASE k = 1 \/ server[c].status \notin {"None", "Gone"}
    <3>1. /\ server' = [server EXCEPT ![c] = r]
          /\ answer' = [answer EXCEPT ![c][k] = "ok"]
          /\ UNCHANGED up
      BY <1>6, <2>2 DEF AcceptExtensionHost
    <3>2. ServerOK(c, r, up'[c])
      <4>1. CASE HasProcess(c)
        BY <1>4, <3>1, <4>1
      <4>2. CASE ~HasProcess(c)
        <5>1. server[c].status # "Live"
          BY <4>2 DEF HasProcess
        <5>2. ~server[c].runner1 /\ ~server[c].runner2
          BY <1>4, <5>1 DEF ServerOK, ServerRecord
        <5> QED BY <1>1, <1>4, <4>2, <5>1, <5>2 DEF ServerOK, ServerRecord, KeepSocket
      <4> QED BY <4>1, <4>2
    <3>3. answer' \in [Connection -> [Socket -> {"None", "ok", "error"}]]
      BY <3>1 DEF IInv, TypeOK
    <3> HIDE DEF r
    <3> QED BY <1>2, <1>3, <2>1, <3>1, <3>2, <3>3, Untouched, ServerRecordKeeps
  <2>3. CASE ~(k = 1 \/ server[c].status \notin {"None", "Gone"})
    <3>1. Reject(c, k) /\ UNCHANGED server
      BY <1>6, <2>3 DEF AcceptExtensionHost
    <3>2. server' = [server EXCEPT ![c] = server[c]]
      BY <1>4, <3>1
    <3>3. /\ up' \in [Connection -> [Socket -> BOOLEAN]]
          /\ \A d \in Connection, j \in Socket : up'[d][j] => up[d][j]
          /\ answer' \in [Connection -> [Socket -> {"None", "ok", "error"}]]
      BY <3>1, RejectKeeps
    <3>4. ServerOK(c, server[c], up'[c])
      BY <1>4, <3>3, ClosingKeeps
    <3> QED BY <1>2, <1>3, <2>1, <3>2, <3>3, <3>4, Untouched, ServerRecordKeeps
  <2> QED BY <2>2, <2>3
<1>7. CASE SendSocket(c, k)
  <2>1. /\ UNCHANGED <<server, answer, up>>
        /\ \/ ipc' = [ipc EXCEPT ![c] = Append(@, k)]
           \/ ipc' = ipc
    BY <1>7 DEF SendSocket, IInv, TypeOK
  <2>2. /\ ipc' = [d \in Connection |-> ipc'[d]]
        /\ \A d \in Connection : QueueOK(d, ipc'[d])
    <3>1. ipc \in [Connection -> Seq(Socket \cup {ReduceGraceTime})]
      BY DEF IInv, TypeOK
    <3>2. QueueOK(c, Append(ipc[c], k)) /\ \A d \in Connection : QueueOK(d, ipc[d])
      BY <1>1, AppendQueue, ServerFacts
    <3> QED BY <2>1, <3>1, <3>2
  <2>3. server' = [server EXCEPT ![c] = server[c]] /\ ServerOK(c, server[c], up'[c])
    BY <1>4, <2>1
  <2> QED BY <1>2, <1>3, <2>1, <2>2, <2>3, Untouched, ServerRecordKeeps
<1> QED BY <1>5, <1>6, <1>7

\* So does every step of an extension host connection and its process.
LEMMA HostStepKeeps ==
    ASSUME IInv, NEW c \in Connection, HostStep(c)
    PROVE  IInv'
<1>0. /\ server \in [Connection -> ServerRecord]
      /\ server[c] \in ServerRecord
      /\ ServerOK(c, server[c], up[c])
  BY ServerFacts DEF IInv, TypeOK
<1>1. CASE Fork(c) \/ StartFails(c)
  <2>1. PICK s \in {"Forked", "NotStarted"} : server' = [server EXCEPT ![c].status = s]
    BY <1>1 DEF Fork, StartFails
  <2> DEFINE r == [server[c] EXCEPT !.status = s]
  <2>2. server' = [server EXCEPT ![c] = r]
    BY <1>0, <2>1
  <2>3. /\ UNCHANGED <<permanentFailure, instances, client, netVars, ipc>>
        /\ UNCHANGED faults \/ SpendFault
        /\ server[c].status = "Starting"
    BY <1>1 DEF Fork, StartFails
  <2>4. ServerOK(c, r, up'[c])
    BY <1>0, <2>3 DEF ServerOK, ServerRecord, netVars
  <2> HIDE DEF r
  <2> QED BY <2>2, <2>3, <2>4, Untouched, ServerRecordKeeps DEF netVars
<1>2. CASE Ready(c)
  <2> DEFINE r == [server[c] EXCEPT !.status = "Ready", !.connectionData = NoSocket]
             k == server[c].connectionData
  <2>1. server' = [server EXCEPT ![c] = r]
    BY <1>0, <1>2 DEF Ready
  <2>2. /\ UNCHANGED <<permanentFailure, instances, client, answer, up, farewell, ipc, faults>>
        /\ request' = [request EXCEPT ![c][k] = "Draining"]
        /\ server[c].status = "Forked"
    BY <1>2 DEF Ready
  <2>3. client[c].sock \in Nat
    BY DEF IInv, TypeOK, ClientRecord, Socket, NoSocket
  <2>4. ServerOK(c, r, up'[c])
    <3>1. ~server[c].runner1 /\ ~server[c].runner2
      BY <1>0, <2>2 DEF ServerOK
    <3>2. /\ r \in ServerRecord /\ r.sock = server[c].sock
          /\ r.connectionData = 0 /\ r.status = "Ready"
          /\ r.runner1 = server[c].runner1 /\ r.runner2 = server[c].runner2
      BY <1>0 DEF ServerRecord, NoSocket
    <3> HIDE DEF r
    <3> QED BY <1>0, <2>3, <3>1, <3>2 DEF ServerOK
  <2>5. /\ request' = [d \in Connection |-> request'[d]]
        /\ \A d \in Connection : RequestsOK(d, request'[d])
    <3>1. k \in Socket \cup {NoSocket} /\ k <= client[c].sock
      BY <1>0 DEF ServerOK, ServerRecord
    <3>2. CASE k \in Socket
      BY <2>2, <3>1, <3>2, RequestKeeps DEF RequestState
    <3>3. CASE k \notin Socket
      <4>1. request' = request
        BY <2>2, <3>3 DEF IInv, TypeOK
      <4> QED BY <4>1, Untouched
    <3> QED BY <3>2, <3>3
  <2> HIDE DEF r
  <2> QED BY <2>1, <2>2, <2>4, <2>5, Untouched, ServerRecordKeeps
<1>3. CASE ReceiveReduceGraceTime(c)
  <2> DEFINE r == Schedule2(server[c])
  <2>1. /\ server' = [server EXCEPT ![c] = r]
        /\ UNCHANGED <<permanentFailure, instances, client, netVars, faults>>
        /\ HasMessage(c)
    BY <1>3 DEF ReceiveReduceGraceTime
  <2>2. ServerOK(c, r, up'[c])
    BY <1>0, <2>1, Schedule2Keeps DEF netVars
  <2> HIDE DEF r
  <2> QED BY <2>1, <2>2, HasMessageKeeps, Untouched, ServerRecordKeeps DEF netVars
<1>4. CASE ReceiveSocket(c)
  <2> DEFINE k == Head(ipc[c])
             r == AcceptReconnection(server[c], k)
  <2>1. /\ server' = [server EXCEPT ![c] = r]
        /\ UNCHANGED <<permanentFailure, instances, client, request, answer, faults>>
        /\ HasMessage(c)
        /\ Replace(c, k)
        /\ k # ReduceGraceTime
        /\ farewell' = [farewell EXCEPT ![c] = IF up[c][k] THEN @ ELSE @ \ {k}]
    BY <1>4 DEF ReceiveSocket
  <2>2. k \in Socket /\ k <= client[c].sock
    BY <2>1, HasMessageKeeps
  <2>3. ServerOK(c, r, up'[c])
    BY <1>0, <2>2, AcceptReconnectionKeeps
  <2>4. farewell' \in [Connection -> SUBSET Socket]
    BY <2>1 DEF IInv, TypeOK
  <2> HIDE DEF r
  <2> QED BY <2>1, <2>3, <2>4, HasMessageKeeps, ReplaceKeeps, Untouched, ServerRecordKeeps
<1>5. CASE ReceiveNoHandle(c)
  <2>1. /\ UNCHANGED <<permanentFailure, instances, client, server, netVars, faults>>
        /\ HasMessage(c)
    BY <1>5 DEF ReceiveNoHandle
  <2>2. server' = [server EXCEPT ![c] = server[c]] /\ ServerOK(c, server[c], up'[c])
    BY <1>0, <2>1 DEF netVars
  <2> QED BY <2>1, <2>2, HasMessageKeeps, Untouched, ServerRecordKeeps DEF netVars
<1>6. CASE SocketMessageTimeout(c)
  BY <1>6, EndKeeps, Untouched DEF SocketMessageTimeout
<1>7. CASE ProcessExit(c)
  <2> DEFINE r == [NewServer EXCEPT !.status = "Gone"]
  <2>1. /\ server' = [server EXCEPT ![c] = r]
        /\ UNCHANGED <<permanentFailure, instances, client, request, answer, farewell>>
        /\ UNCHANGED faults \/ SpendFault
        /\ ipc' = [ipc EXCEPT ![c] = <<>>]
    BY <1>7 DEF ProcessExit
  <2>2. client[c].sock \in Nat
    BY DEF IInv, TypeOK, ClientRecord, Socket, NoSocket
  <2>3. ServerOK(c, r, up'[c])
    <3>1. /\ r \in ServerRecord /\ r.sock = 0 /\ r.connectionData = 0
          /\ r.status = "Gone" /\ r.runner1 = FALSE /\ r.runner2 = FALSE
      BY DEF ServerRecord, NewServer, NoSocket
    <3> HIDE DEF r
    <3> QED BY <2>2, <3>1 DEF ServerOK
  <2>4. /\ up' \in [Connection -> [Socket -> BOOLEAN]]
        /\ \A d \in Connection, k \in Socket : up'[d][k] => up[d][k]
    BY <1>7 DEF IInv, TypeOK, ProcessExit
  <2>5. /\ ipc' = [d \in Connection |-> ipc'[d]]
        /\ \A d \in Connection : QueueOK(d, ipc'[d])
    <3>1. ipc \in [Connection -> Seq(Socket \cup {ReduceGraceTime})]
      BY DEF IInv, TypeOK
    <3>2. QueueOK(c, <<>>) /\ \A d \in Connection : QueueOK(d, ipc[d])
      BY ServerFacts DEF QueueOK
    <3> QED BY <2>1, <3>1, <3>2
  <2> HIDE DEF r
  <2> QED BY <2>1, <2>3, <2>4, <2>5, Untouched, ServerRecordKeeps
<1>8. CASE \E k \in Socket : \/ HandleExtensionHost(c, k)
                             \/ AcceptExtensionHost(c, k)
                             \/ SendSocket(c, k)
  BY <1>8, HandshakeStepKeeps
<1> QED BY <1>1, <1>2, <1>3, <1>4, <1>5, <1>6, <1>7, <1>8 DEF HostStep

\* So does the end of a connection on the server.
LEMMA ServerStepKeeps ==
    ASSUME IInv, NEW c \in Connection, ServerStep(c)
    PROVE  IInv'
<1>0. /\ server \in [Connection -> ServerRecord]
      /\ ServerOK(c, server[c], up[c])
      /\ farewell \in [Connection -> SUBSET Socket]
  BY ServerFacts DEF IInv, TypeOK
<1>1. CASE ServerSocketClose(c)
  <2> DEFINE r == [server[c] EXCEPT !.socketClosed = TRUE, !.runner1 = TRUE]
  <2>1. server' = [server EXCEPT ![c] = r]
    BY <1>0, <1>1 DEF ServerSocketClose
  <2>2. /\ UNCHANGED <<permanentFailure, instances, client, netVars, ipc, faults>>
        /\ server[c].status = "Live"
        /\ ~up[c][server[c].sock]
    BY <1>1 DEF ServerSocketClose
  <2>3. ServerOK(c, r, up'[c])
    BY <1>0, <2>2 DEF ServerOK, ServerRecord, netVars
  <2> HIDE DEF r
  <2> QED BY <2>1, <2>2, <2>3, Untouched, ServerRecordKeeps DEF netVars
<1>2. CASE GraceExpires(c)
  BY <1>2, EndKeeps, Untouched DEF GraceExpires
<1>3. CASE ReadFarewell(c)
  <2>1. farewell' \in [Connection -> SUBSET Socket]
    BY <1>0, <1>3 DEF ReadFarewell
  <2> QED BY <1>3, <2>1, EndKeeps DEF ReadFarewell
<1>4. CASE \E k \in Socket : SwallowFarewell(c, k)
  <2>1. PICK k \in Socket : SwallowFarewell(c, k)
    BY <1>4
  <2>2. UNCHANGED <<permanentFailure, instances, client, server, request, answer, up, ipc, faults>>
    BY <2>1 DEF SwallowFarewell
  <2>3. farewell' \in [Connection -> SUBSET Socket]
    BY <1>0, <2>1 DEF SwallowFarewell
  <2>4. server' = [server EXCEPT ![c] = server[c]] /\ ServerOK(c, server[c], up'[c])
    BY <1>0, <2>2
  <2> QED BY <2>2, <2>3, <2>4, Untouched, ServerRecordKeeps
<1> QED BY <1>1, <1>2, <1>3, <1>4 DEF ServerStep

\* So does a socket that fails.
LEMMA SocketFailsKeeps ==
    ASSUME IInv, NEW c \in Connection, NEW k \in Socket, SocketFails(c, k)
    PROVE  IInv'
<1>1. /\ UNCHANGED <<permanentFailure, instances, client, server, request, answer, ipc>>
      /\ SpendFault
      /\ up' = [up EXCEPT ![c][k] = FALSE]
  BY DEF SocketFails
<1>2. farewell' \in [Connection -> SUBSET Socket]
  BY DEF SocketFails, IInv, TypeOK
<1>3. /\ up' \in [Connection -> [Socket -> BOOLEAN]]
      /\ \A d \in Connection, j \in Socket : up'[d][j] => up[d][j]
  BY <1>1 DEF IInv, TypeOK
<1>4. server' = [server EXCEPT ![c] = server[c]] /\ ServerOK(c, server[c], up'[c])
  BY <1>1, <1>3, ServerFacts, ClosingKeeps DEF IInv, TypeOK
<1> QED BY <1>1, <1>2, <1>3, <1>4, Untouched, ServerRecordKeeps

-----------------------------------------------------------------------------
(* The theorems *)

\* Nothing is connected at first.
LEMMA InitIInv == Init => IInv
<1> SUFFICES ASSUME Init PROVE IInv
  OBVIOUS
<1> USE DEF Init
<1>1. NewClient \in ClientRecord /\ NewServer \in ServerRecord
  BY ConnectionsAssumption DEF NewClient, NewServer, ClientRecord, ServerRecord, NoSocket
<1>2. TypeOK
  <2>1. /\ client \in [Connection -> ClientRecord]
        /\ server \in [Connection -> ServerRecord]
    BY <1>1
  <2>2. /\ instances \in Seq(Connection)
        /\ ipc \in [Connection -> Seq(Socket \cup {ReduceGraceTime})]
    OBVIOUS
  <2>3. faults \in 0..MaxFaults
    BY ConnectionsAssumption
  <2>4. /\ request \in [Connection -> [Socket -> {"None", "Pending", "FindingPort",
                                              "Draining", "Done"}]]
        /\ answer \in [Connection -> [Socket -> {"None", "ok", "error"}]]
        /\ up \in [Connection -> [Socket -> BOOLEAN]]
        /\ farewell \in [Connection -> SUBSET Socket]
        /\ permanentFailure \in BOOLEAN
    OBVIOUS
  <2> QED BY <2>1, <2>2, <2>3, <2>4 DEF TypeOK
<1>3. ClientsInOrder
  BY ConnectionsAssumption DEF ClientsInOrder, LoopInv, NewClient
<1>4. SocketsKnown
  BY DEF SocketsKnown, NewClient, NewServer, NoSocket
<1>5. LiveHasSocket /\ TimersOfTheDead
  BY DEF LiveHasSocket, TimersOfTheDead, NewServer
<1> QED BY <1>2, <1>3, <1>4, <1>5 DEF IInv

\* Every step keeps the invariant.
LEMMA NextIInv == IInv /\ [Next]_vars => IInv'
<1> SUFFICES ASSUME IInv, [Next]_vars PROVE IInv'
  OBVIOUS
<1>1. ASSUME NEW c \in Connection, ClientStep(c) PROVE IInv'
  BY <1>1, ClientStepKeeps
<1>2. ASSUME NEW c \in Connection, ServerStep(c) PROVE IInv'
  BY <1>2, ServerStepKeeps
<1>3. ASSUME NEW k \in Socket, HandleManagement(k) PROVE IInv'
  BY <1>3, HandleManagementKeeps
<1>4. ASSUME NEW c \in ExtensionHosts, HostStep(c) PROVE IInv'
  BY <1>4, HostStepKeeps DEF Connection
<1>5. ASSUME NEW c \in Connection, NEW k \in Socket, SocketFails(c, k) PROVE IInv'
  BY <1>5, SocketFailsKeeps
<1>6. CASE UNCHANGED vars
  BY <1>6 DEF vars, IInv, TypeOK, ClientsInOrder, LoopInv, SocketsKnown,
              LiveHasSocket, TimersOfTheDead
<1> QED BY <1>1, <1>2, <1>3, <1>4, <1>5, <1>6 DEF Next

\* The inductive invariant holds in every reachable state.
LEMMA SpecIInv == Spec => []IInv
<1>1. Init => IInv
  BY InitIInv
<1>2. IInv /\ [Next]_vars => IInv'
  BY NextIInv
<1> QED BY <1>1, <1>2, PTL DEF Spec

\* Every record of the clients and of the server, every handshake and every
\* message to a process stays well formed, whatever fails and in what order.
THEOREM ConnectionsTypeCorrect == Spec => []TypeOK
<1>1. IInv => TypeOK
  BY DEF IInv
<1> QED BY <1>1, SpecIInv, PTL

\* The timers of shortenReconnectionGraceTimeIfNecessary and of the close
\* event never run under a socket that works: with any number of extension
\* hosts, sockets and faults no grace time ends a connection that is in use.
THEOREM GraceCorrect == Spec => []GraceOnlyWhenDisconnected
<1>1. IInv => GraceOnlyWhenDisconnected
  BY DEF IInv, TimersOfTheDead, GraceOnlyWhenDisconnected
<1> QED BY <1>1, SpecIInv, PTL

=============================================================================
