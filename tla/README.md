# A TLA+ verification of remote connections, storage and file saving

The repository is an editor of many parts. This project models the three places
where its code is concurrent, fails in the middle, and is hardest to test, and
where a fault loses a user's data:

* the *remote connection layer*: a window (renderer) talks to a remote agent
  server that runs the extension host processes, the file system, terminals and
  so on, over a handful of long-lived connections which have to survive sleep,
  network changes and timeouts;
* the *storage* of settings and state: a cache over an SQLite database in the
  main process, shared by all windows;
* the *working copy* of a file: edits, saves, reloads and reverts that overlap.

Source paths are relative to `src/src/vs/` unless they say otherwise. Short
names used below:

| name | file |
|---|---|
| NET | `base/parts/ipc/common/ipc.net.ts` |
| RAC | `platform/remote/common/remoteAgentConnection.ts` |
| SRV | `server/node/remoteExtensionHostAgentServer.ts` |
| MGT | `server/node/remoteExtensionManagement.ts` |
| EHC | `server/node/extensionHostConnection.ts` |
| EHP | `workbench/api/node/extensionHostProcess.ts` |
| REH | `workbench/services/extensions/common/remoteExtensionHost.ts` |
| ARA | `workbench/services/remote/common/abstractRemoteAgentService.ts` |
| ASY | `base/common/async.ts` |
| STO | `base/parts/storage/common/storage.ts` |
| SQL | `base/parts/storage/node/storage.ts` |
| STM | `platform/storage/electron-main/storageMain.ts` |
| STI | `platform/storage/electron-main/storageIpc.ts` |
| STC | `platform/storage/common/storageIpc.ts` |
| SFW | `workbench/services/workingCopy/common/storedFileWorkingCopy.ts` |
| SFM | `workbench/services/workingCopy/common/storedFileWorkingCopyManager.ts` |
| FSV | `platform/files/common/fileService.ts` |

## 1. Inventory

### 1.1 The remote connection layer

**PersistentProtocol** (NET). One end of a reliable message stream that
outlives its sockets. *State*: message counters (`_outgoingMsgId`,
`_outgoingAckId`, `_incomingMsgId`, `_incomingAckId`), the queue of
unacknowledged messages, two ack timers, `_isReconnecting`, the current socket
with its `ProtocolWriter` (buffer, paused flag, write timer) and the
`BufferedEmitter` for control messages. *Operations*: `send`, `sendControl`,
`sendPause/Resume/Disconnect`, `beginAcceptReconnection`,
`endAcceptReconnection`, `_receiveMessage` and the timers. *Correct* when every
payload is delivered exactly once and in order, nothing is forgotten that may
be needed again, and nothing waits for a timer that is not armed.

**PersistentConnection** (RAC) and its two kinds, the management connection and
the extension host connections of a window. *State*: `_isReconnecting`,
`isDisposed`, the static `_permanentFailure` and `_instances`. *Operations*:
`createInitialConnection`, the constructor, `_beginReconnecting`,
`_runReconnectingLoop`, `triggerPermanentFailure`, `dispose`. It listens to the
protocol's `onSocketClose` and `onSocketTimeout`; its owners (ARA, REH) listen
to the protocol's `onDidDispose` and to the state changes. *Correct* when a loop
ends, a permanent failure reaches everybody, and the window sees events in an
order it can rely on.

**Remote agent server** (SRV). *State*: the tables of management and extension
host connections by reconnection token, one small state machine per socket in
handshake (`WaitingForAuth`, `WaitingForConnectionType`, `Done`), the
auto-shutdown timer. *Operations*: accept a socket, read auth and connection
type, create or resume a connection or refuse it, shorten the grace time of
everybody else. Extension hosts are resumed only after an `await` for a free
debug port.

**ManagementConnection** (MGT). *State*: the server's protocol of the
connection, `_disconnectRunner1` (3 h grace time) and `_disconnectRunner2`
(5 min). *Operations*: close event, `acceptReconnection`,
`shortenReconnectionGraceTimeIfNecessary`, expiry, Disconnect.

**ExtensionHostConnection** (EHC) and the **extension host process** (EHP).
*State*: `_extensionHostProcess`, the `_connectionData` kept for a process that
is not ready; in the process the protocol and the same two timers.
*Operations*: `start`, the `VSCODE_EXTHOST_IPC_READY` message, sending a socket
handle to the process, the reduce message, expiry, Terminate, exit and crash.
The process and the server share nothing but one ordered message channel.

Interactions: window and server talk by sockets only; on each socket first a
temporary handshake protocol of the server listens, then the persistent one; an
extension host's socket changes its process in between, during which nobody
reads it.

### 1.2 Storage

**Storage** (STO). *State*: `state`, `cache`, `pendingInserts`,
`pendingDeletes`, `flushDelayer`, `whenFlushedCallbacks`. *Operations*: `init`,
`set`, `delete`, `optimize`, `flush`, `whenFlushed`, `close`, and
`acceptExternal` for changes made elsewhere. Reads are answered from the cache;
a `ThrottledDelayer` (ASY) hands the pending changes to the database, one update
at a time. *Correct* when no change is lost, repeated or reordered on its way
to the database, whatever fails or is called meanwhile, and a resolved `close`
has everything on disk.

**SQLiteStorageDatabase** (SQL). *State*: the connection with `isErroneous` and
`isInMemory`, the file and its backup. *Operations*: `connect` with its
fallbacks to the backup and to memory, `getItems`, `updateItems`, `optimize`,
`close` with backup or recovery from the cache.

**StorageDatabaseChannel** (STI) and its **clients** (STC). A window's Storage
object has the main process as its database. *State*: the events collected by
the debounce, the listeners. *Operations*: `listen`, `getItems`, `updateItems`,
the broadcast of changes. *Correct* when caches differ only in what is under
way.

### 1.3 Stored file working copies

**StoredFileWorkingCopy** (SFW). *State*: the dirty, conflict and error flags,
`versionId`, `savedVersionId`, `lastResolvedFileStat`, the `TaskSequentializer`
of its saves. *Operations*: edits and undo (events of the model), `save`,
`resolve`, `revert`, `dispose`. Each save is a chain of awaits (a delay after an
undo, participants, snapshot, validation, write, stat), each resolve another;
any operation may come in between. The **manager** (SFM) runs the resolves of a
resource one at a time and reloads when the watcher reports a change; the
**file service** (FSV) refuses a write of a file that changed since. *Correct*
when saves never overlap, a clean working copy is on disk, every save is
answered, and another program's change is not overwritten unnoticed.

### 1.4 The other parts

`PROJECT.json` lists every component. Planned or candidates for modelling:
framing (`ChunkStream`, `ProtocolReader`), `BufferedEmitter`, auto-shutdown, IPC
channels (`base/parts/ipc/common/ipc.ts`), the extension host RPC protocol,
undo/redo across resources, working copy backups, the application lifecycle,
extension activation, coalescing of file events. Left out: settings sync,
updates, terminals, text buffers, the Rust launcher, bundled extensions and the
user interface, each with its reason.

### 1.5 What is hard here

* a failure in the middle of the handshake that repairs an earlier failure;
* sockets of abandoned attempts that are handled after newer ones (the debug
  port is awaited for up to 5 s, the client gives up after its own timeout);
* a socket that is between two processes;
* sockets that die without a close event, so that only an ack timeout notices;
* grace timers of three places (server, process, client) racing reconnections
  and the reduce messages that other clients cause;
* static state of the client shared by all connections, changed by callbacks
  while it is iterated;
* an update that fails after the pending changes were taken from the storage,
  and a statement that fails inside a transaction that is committed all the same;
* a flush that is due while another one runs, and a crash at any point of the
  recovery;
* announcements of changes that cross newer changes, and echoes of one's own;
* a save that is asked for while another one runs its participants, takes its
  snapshot or writes, with edits, undos and reverts in between.

The `hazards` of `PROJECT.json` give each one with its line and the properties
that would catch it, or say why there is none yet.

## 2. Modules

| module | models | role |
|---|---|---|
| `ReliableChannel` | what the stream promises: one FIFO per direction | abstract specification |
| `PersistentProtocol` | NET 257-524, 840-1188 (the protocol and its writer); the client's handshake RAC 103-341; the server's handshake SRV 261-462; adoption by the process EHP 219-254 | detailed specification, refines `ReliableChannel` |
| `MCPersistentProtocol` | | constants for TLC |
| `PersistentProtocolProofs` | | theorems: delivery, acks, refinement |
| `ReconnectionProofs` | | theorems: timers, handshakes, gaps, adoption |
| `RemoteConnections` | RAC 390-796, MGT, EHC 186-328, EHP 211-264, SRV 368-484 | life cycle of all connections of a window |
| `MCRemoteConnections` | | constants for TLC |
| `RemoteConnectionsProofs` | | theorems: types, grace times |
| `ManagementProofs` | | theorems: agreement on the socket, order of events |
| `StorageCache` | STO 264-317, 359-361, SQL 77-153 | the data of a Storage object, shared by the next two |
| `Storage` | STO 199-411, SQL 56-432, ASY 224-284, 398-426 | the main process's storage with its database, failures and crashes |
| `MCStorage` | | symmetry for TLC |
| `StorageProofs` | | theorems |
| `SharedStorage` | STI, STC, STO 148-189 | the storages of several windows over the main process |
| `MCSharedStorage` | | |
| `SharedStorageProofs` | | theorems |
| `StoredFileWorkingCopy` | SFW 392-795, 841-1142, 1237-1362, SFM 264-309, 441-454, 659-693, FSV 381-538, ASY 1594-1680 | one working copy with its file |
| `MCStoredFileWorkingCopy` | | |
| `StoredFileWorkingCopyProofs` | | theorems |

`PersistentProtocol` and `RemoteConnections` are two views of one system. `PersistentProtocol` looks
at one connection and every message on it; `RemoteConnections` looks at all
connections of a window and takes a socket as up or down and a handshake as a
request and an answer. What the second leaves out (data on the stream) is what
the first is about, and the other way round.

Definitions commented `MUTANT` are faulty variants of the definition below
them. No specification uses them: each shows that a property would notice that
fault.

### 2.1 PersistentProtocol

A step is one JavaScript event handler. The methods of the class are operators
on the endpoint record `ep[p]`, whose fields keep the source's names; an action
applies them. `sent` and `delivered` are history variables: the arguments of
`send()` and what `onMessage` fired. `phase` is the client's reconnection loop,
`handshake[k]` the server's state machine for socket `k`, `chan[k][p]` what `p`
wrote to socket `k` and was not read, `open[k]` whether it is connected.

* *Time*: an armed timer may fire at any moment; a test of the clock is a
  choice (`late`, `ask`). `SocketTimeout` on a socket that works costs one of
  `MaxFaults`: it stands for a peer that answers too late.
* *Writer*: `_writeSoon` buffers and arms a timer; a paused writer keeps the
  buffer; a new socket gets a new, unpaused, empty writer. The old writer is
  flushed to the old socket when that is replaced.
* *The server's reconnection* runs in one go; it is two steps here
  (`ReadConnectionType` or `AdoptSocket`, then `EndAccept`) with the messages of
  the initial chunk read in between, and `Free` keeps other handlers out.
* *Handing over*: `HandsOver` selects the extension host variant, where the
  server awaits a port (`FindFreePort`), pauses the client and sends the socket
  on (`SendSocket`); data that arrives before `AdoptSocket` may be lost
  (`LoseInTransit`).
* *Left out*: framing (messages are whole), the Disconnect message and
  `dispose` (in `RemoteConnections`), refusals (same), load estimation other
  than as a nondeterministic delay of the timeout. Counters are natural
  numbers; on the wire they are 32 bits wide, so the results hold for
  fewer than 2^32 messages on a connection.

### 2.2 RemoteConnections

A socket is named by its connection and the number of the attempt that created
it; socket 1 belongs to a fresh connection. `client[c]` is the connection with
its protocol, `server[c]` what the server (and the process of an extension
host) holds, `request[c][k]` and `answer[c][k]` the handshake on a socket,
`ipc[c]` the ordered channel to the process (a number is a socket, 0 the reduce
message), `farewell[c]` the sockets that carry a Disconnect or Terminate.

* *The loop*: `Waiting` (the sleep of `TIMES`), `Resolving` (address and
  socket), `Handshaking`, `Idle`. `graceOver` becomes true in a step of its own.
  `Retry` and `GiveUp` stand for the error classes of RAC 688-731.
* *Permanent failure*: `TriggerPermanentFailure` visits the array the way
  `forEach` does, with the management connection removing itself during its
  visit (`Reached`).
* *Server*: the handler of a management handshake is one step; for extension
  hosts `HandleExtensionHost`, the awaited port, `AcceptExtensionHost`, the
  awaited drain and `SendSocket` are separate steps, so they interleave.
* *Initial attempts* that fail do so before the server creates anything; a
  grace time is greater than zero; an extension host is given up only after it
  was connected. A socket that the process receives without a handle
  (`ReceiveNoHandle`) makes its handler throw and is dropped.
* *Left out*: tunnels, the named-pipe variant of starting a process, the
  commands that simulate failures, `skipWait` other than as an early
  `WaitDone`, measured intervals.

### 2.3 Storage

A step is one turn of the event loop: a call from outside, a timer, or an answer
of SQLite with the promise reactions it sets off. `StorageCache` has the
methods that touch data only, on records with a `cache` and the `pending`
request; a map is a function with `NoValue` where it has no entry.

* *ThrottledDelayer*: `delayer` has the timer (`deferred`), the running update
  with its request, and whether one more run is queued. `awaits[c]` says which
  promise the callers `flush`, `whenFlushed` and `close` wait for; "never" is
  the promise of a queued run that was rejected. Several callers of `flush` at a
  time wait for the same promise, so one stands for all.
* *Outcomes of an update*: committed; committed without the inserts, the deletes
  or both (the error of a statement is only noted on the connection); not
  committed and rejected.
* *Callers* wait until `init` is over, as `whenReady` asks of them
  (`platform/storage/electron-main/storageMainService.ts` 306-311), and `close`
  of the owner does (`storageMain.ts` 271-273): no change comes while `getItems`
  is awaited. A change made there would be written and yet vanish from the cache
  when `init` replaces it. `whenFlushed` is called at any time, also of a closed
  storage: it has no test of the state.
* *Opening* and *closing* follow SQL step by step, each with its failures;
  `Crash` may come between any two steps and leaves the files as they are,
  `Corrupt` damages the file while nothing runs.
* `owed[c]` are the keys not changed since caller `c` called, a history variable
  for `FlushedIsStored`.
* *Left out*: conversions of values (the code compares converted strings),
  chunking of statements, integrity checks, logging, the test-only path of a
  storage that is in memory by request.

### 2.4 SharedStorage

The main process is its cache here (its way to disk is `Storage`). Windows open
at any time, listen, load, change, close and crash; their channels are in order
and without loss. `changed` are the keys the debounce has collected; its timer
announces the values of the moment. A window applies announcements also of its
own changes.

### 2.5 StoredFileWorkingCopy

The model of the text is a history of versions with a position, since undo
brings a version id back and that is what dirty tracking is built on. A save is
a record in one of two slots (two, so that overlapping saves could be seen) with
the phase it has reached; the sequentializer is `task`. The operators of a save
work on the triple of sequentializer, saves and copy, because the end of one
save may run the queued one in the same turn; both calls of `doneRunning` that
end a save are one step for the same reason, so what could run in the microtasks
between them is not explored. `mtime` numbers the writes of the file; `disk.by`
says who made the last one: another program, a save of the working copy, or a
save of it that was reported as failed.

* *Callers* of save differ in what the code tells apart: automatic, explicit,
  forced, and overwriting.
* *Participants* edit through `Edit` like anybody else; saves they ask for are
  refused like those of others meanwhile.
* *Failures* of a save: the snapshot is rejected (`SnapshotFails`), the etags
  differ (`Validate`), the write fails and may leave the file truncated
  (`WriteFails`), or the file is written and the stat `writeFile` ends with
  cannot be read (FSV 431, `StatFails`). All end in `handleSaveError`, which
  takes over no stat. A changed file of the same size passes for unchanged (FSV
  520): sizes are not modelled, so `Validate` may always go on.
* *Resolves* are one at a time (SFM); a revert waits for its turn. A report of
  the watcher is dropped while the working copy is dirty (SFM 277), waits for a
  pending resolve (SFM 441-454), and comes to nothing while a save runs (SFW
  449-469).
* `asked` is a history variable for `SaveIsHonoured`: the version of the latest
  explicit save that is still to be answered. A save that joins one which is
  already cancelled shares its fate and is not counted.
* *Left out*: deletion of the file (orphans), `markModified`, readonly files,
  soft revert, resolving from given contents, models with a `save` of their own,
  elevated or unlocking writes, `ignoreErrorHandler` (SFW 1119-1121: the error is
  thrown to the caller and no flag changes), asynchronous reloads (SFM 502-513).
  An etag is taken to change with every write (in the code it is made of time
  and size).

## 3. Runs

Deadlock is not checked: an instance whose sends, faults and sockets are used up
rightly stops. State counts are of distinct states.

| run | instance | shows |
|---|---|---|
| `management` | two server sends of two symmetric payloads, a keep-alive, 1 fault, two messages lost on working sockets, 3 sockets; 162,007 | type, `ExactlyOnceInOrder`, `ForgottenOnlyWhenDelivered`, `UnackQueueExact`, `NoGapAfterReconnection` (until something is dropped), refinement of `ReliableChannel` |
| `extension_host` | two client sends, 2 faults, 5 sockets, hand-over, close events not guaranteed; 200,698 | `ExactlyOnceInOrder`, `StreamWaitsForAdoption`, `TimersArmed`, `HandshakeStartsClean`, `NoGapAfterReconnection` across the hand-over, `ClientMessagesDelivered`, `QueuesDrain` (the client's) |
| `reported_socket` | one server send, 2 faults, 5 sockets, hand-over, close events guaranteed; 78,674 | `ServerMessagesDelivered`, `QueuesDrain` (the server's) |
| `window` | management and host, 3 sockets each, 2 faults, management may be disposed; 2,563,127 | type, `GraceOnlyWhenDisconnected`, `ConnectedIsServed`, `EventOrder` |
| `window_ends` | both, 3 sockets, 1 fault, host may be disposed, fair; 111,827 | `LoopEnds`, `AbandonedIsReleased` |
| `failure_reaches_all` | both, 2 sockets, 2 faults | finding 1 |
| `documented_events` | the same | finding 4 |
| `storage` | 2 keys, 1 value (absence is another), 3 changes, 1 failure, 1 end or crash, fair; 305,805 | type, `ReplayGivesCache`, `CloseIsDurable`, `FlushedIsStored`, `ChangesReachDatabase`, `WaitersReleased` |
| `storage_closes` | the same | finding 2 |
| `shared_storage` | 2 windows, 1 key, 1 value, 3 changes by anybody, fair; 171,565 | type, `CachesAgree`, `CloseDelivers`, `CachesConverge`, `CloseReturns` |
| `file` | 4 edits, undos and saves, 1 revert, cancellation, failure or write of another program, fair; 390,816 | type, `OneSaveAtATime`, `ConflictAndErrorAreDirty`, `SaveClearsWhatItWrote`, `NoConflictAfterSuccess`, `SaveIsHonoured` |
| `file_clean` | 3 edits, undos and saves | finding 3 |

**Bounds.** A client abandons a socket only for a fault or because it is dead,
and each fault costs it at most two sockets, so
`MaxSockets >= 1 + 2 * MaxFaults` never stops a protocol run early; it is what
the liveness runs need, since a client without a socket left could not make
progress. Two faults are the least that put a failure inside a repair, and with
them two abandoned sockets can be adopted in the wrong order. Two payloads and
two sends in one direction are what duplication, reordering and gaps need. In
`RemoteConnections` three sockets give a stale request behind a newer one; a run
that uses up its sockets stays in `Resolving`, where the loop can still fail or
give up, so `LoopEnds` is not made true or false by the bound. In `Storage`
three changes let one be in the running update, one be queued behind it and one
be pending; keys do not interact but through the sets they are collected in, so
two are enough, and one failure is the first that recovery has to deal with (a
second one during the recovery leads to a rejected close, of which nothing is
claimed). One key is enough in `SharedStorage`, whose steps treat keys alike;
with three changes two of a window and one of another cross. In
`StoredFileWorkingCopy` four calls in any proportion are three saves (one
running, one queued, one that replaces it) with an edit among them, or an edit,
its undo and two saves. The runs of the hand-over send in one direction each;
what they check of the stream is proved for any number of messages both ways.

**Fairness.** `PersistentProtocol`: timers fire, the event loop reads what a
working socket holds and writes what is buffered, the loop goes on, an attempt
on a dead socket times out. All are promises of the JavaScript event loop, of
`setTimeout`, or of the timeouts of RAC 87-169. Nothing is assumed of users,
faults or, in `FairSpec`, of the close event; `FairCloseSpec` adds that the
operating system reports the client's dead socket. Without it a server message
can wait for ever on a silently dead socket: only the client listens to
`onSocketTimeout`, and it has nothing to time out. `RemoteConnections`: every
await of the loop settles (connecting and shaking hands have timeouts;
`getAddress()` of the resolver, RAC 681, has none, so of it this is an
assumption), the clock runs, the server
handles a request on a socket that is up and current, processes start, read and
exit, timers fire, and the server hears of a dead socket (TCP keep-alive or a
failing write). `Storage` and `SharedStorage`: SQLite, the file system and the
channel answer, settled promises are reacted to, and timers fire. The last is an
assumption on the callers too: each `set` re-arms the timer of the delayer, and
each change that of the debounce, so it says that they pause now and then for
longer than 100 ms. `StoredFileWorkingCopy`: participants come to an end (those
of extensions have a timeout), the model and the file service answer, a revert gets its
turn; nothing is assumed of users, of other programs or of the watcher.

## 4. Theorems

`tlapm` checks the proof modules, for every value of the constants that
satisfies the named assumptions (`ConstantsAssumption`: the bounds are natural
numbers and payloads differ from the contents of control messages;
`ConnectionsAssumption`: the management connection is no extension host, the
bounds are natural numbers, at least one socket and one attempt;
`NoValueAssumption`: the absence of a value is no value; `BoundsAssumption`: the
bounds of `Storage` and of `StoredFileWorkingCopy` are natural numbers). One
theorem assumes more: `AdoptionAwaited` is about sockets that lose nothing
(`MaxLoss = 0`, TCP); if a tunnel may drop the Pause message nothing holds the
client back.

| theorem | statement |
|---|---|
| `TypeCorrect`, `DeliveryCorrect`, `ForgetCorrect`, `QueueCorrect` | `PersistentProtocol` keeps `TypeOK`, `ExactlyOnceInOrder`, `ForgottenOnlyWhenDelivered`, `UnackQueueExact` |
| `ChannelImplemented` | `Spec => ImplementsChannel`: it refines `ReliableChannel` |
| `TimersCorrect`, `HandshakeCorrect`, `ReconnectionLeavesNoGap`, `AdoptionAwaited` | it keeps `TimersArmed`, `HandshakeStartsClean`, `NoGapAfterReconnection` and, without losses, `StreamWaitsForAdoption` |
| `ConnectionsTypeCorrect` | `RemoteConnections` keeps `TypeOK` |
| `GraceCorrect`, `ManagementAgrees` | `RemoteConnections` keeps `GraceOnlyWhenDisconnected`, `ConnectedIsServed` |
| `EventsInOrder` | `Spec => EventOrder`, an action property, with the table of the code (finding 4) |
| `StorageTypeCorrect`, `ReplayCorrect`, `FlushCorrect`, `CloseCorrect` | `Storage` keeps `TypeOK`, `ReplayGivesCache`, `FlushedIsStored`, `CloseIsDurable` |
| `SharedTypeCorrect`, `CachesCorrect`, `CloseHandsOver` | `SharedStorage` keeps `TypeOK`, `CachesAgree`, `CloseDelivers` |
| `FileTypeCorrect`, `SavesExclude`, `FlagsCorrect` | `StoredFileWorkingCopy` keeps `TypeOK`, `OneSaveAtATime`, `ConflictAndErrorAreDirty` |
| `ClearedIsWritten`, `ConflictsAreExplained` | `Spec => SaveClearsWhatItWrote`, `Spec => NoConflictAfterSuccess`, action properties |

*The stream.* None of the four properties is inductive: an ack or a message may
sit in a buffer or on an old socket for long and be read much later. The
invariant therefore says of every message, wherever it is (unacknowledged queue,
writer, any socket), that it is `Good`: its ack is at most what its writer has
received, and a Regular message carries the payload that its writer gave to that
id. With the counters equal to the lengths of the histories, the delivered
sequence a prefix of the sent one and the queue exact, this is preserved by each
method of the class, which is a lemma on records; the lemmas on actions only
name the method. Since old messages stay good when endpoints grow, the number of
sockets, losses and failures does not matter. The proof of the refinement uses
the same lemmas: each says whether a method sends, delivers or is quiet.

*Reconnections.* `ReInv` speaks of both endpoints, the handshakes and all
sockets. Timers: the writer's and the ack's are armed whenever they are needed,
the timeout's in every connected client with something unacknowledged; only
messages of the stream are in the unacknowledged queue. Sockets: the client is
on the latest one, the server on one that was accepted, and nothing was ever on
one that does not exist yet. The control buffer is empty while the client is in
a handshake. As long as nothing was lost two parts are added. The ids of the
regular messages on a socket form a chain: each is at most one ahead of what its
reader will have received by then (`Chain`), and what is on the way on a working
socket, with what is in the writer, brings the reader to where the sender's next
message follows (`Feeds`), so no message that is added makes a gap. And nothing
of the stream is on a socket that was not adopted (`AdoptInv`): there the client
is paused, or it is reconnecting with none of it in its writer and a Pause
message comes before the answer that ends its handshake (`Guarded`). Each method
of the class is shown to carry the chain on (`GoesOn`); the actions then only
say where messages move.

*Grace times.* A timer that runs for a dead socket would become wrong if that
socket came up again. The invariant adds why it cannot: everything the server
knows of (its current socket, the one kept for a process, sockets in the channel
to the process, handshakes) is a socket the client has opened (`SocketsKnown`),
and the client only opens the next one. Further a live connection has a socket,
timers run for live connections only, and a client past its first attempts has a
socket.

*The management connection.* Client and server agree because at most one
accepted socket works: a request that is accepted, however late, closes the
socket accepted before it, the end of a connection closes its socket, and a
socket that is opened anew was never answered (`AgreeInv`). For the order of
events `EventInv` says where the loop is by the last events fired, and that a
connection which was constructed and not disposed of is in the array of
instances. Since it is there only once, the visit that `forEach` skips after it
is never its own, so a permanent failure always reaches it, disposes of it and
silences its emitter.

*Storage.* The four properties are proved from one invariant. `ReplayInv` is
`ReplayGivesCache` in every phase of the connection; each change adds to what is
pending exactly what it does to the cache, and each update moves the pending
changes through the throttler into the database, so the sum stays (lemmas on
`Apply`). `FreshInv` is needed for `init`, which replaces the cache: nothing was
pending before. `FlushInv` follows a promised flush through the delayer and the
throttler: once its run has begun nothing it is owed is pending, and once it is
over nothing is in a running update either, so `ReplayInv` leaves the database.
`CloseInv` says the same of `close`, which accepts no change any more: when its
flush is settled, nothing is pending and no update runs. Then `FileInv` can say
that a database is closed without recovery only when the file holds the cache,
and that the way through recovery ends in a rewritten file. The number of
failures, crashes, keys and values does not matter.

*Shared storage.* `WindowInv`: a window has at most one update under way, its
items come once and after it listens, and a window that is closed has nothing
left. `AgreeInv`: of a key that is not waiting for the debounce, the last
announcement on the way to a window carries the value of the main process
(`Announced`); without one the window's cache has that value, or the window's
own change is on the way (`Holds`). The crossing of a change with an older
announcement is what makes this more than `CachesAgree`: the announcement of the
own change follows and repairs the cache.

*File working copies.* `SavesInv`: a save under way is the running task of the
sequentializer, which may change its id during the participants; a queued save
waits behind one of an older version, which has been cancelled. `FlagsInv` says
of the flags that a revert will restore what `ConflictAndErrorAreDirty` says of
the current ones. `ContentInv`: unless the version has changed since its
snapshot, a save holds what the model holds, and once it has written, the file
holds what the save does unless another program wrote. `StatInv`: no stat is
newer than the file, and a write of a save that has not failed is in the stat of
the working copy, and in the one a later save compares with, unless the save has
not yet heard of its end. A write whose save failed (truncated, or its stat
unread) is in neither: of those the theorem says nothing, and the model has the
conflict that follows. `RevertInv` ties a forced resolve to its revert. The two action properties
follow step by step, most steps because they do not touch the flags.

*Model-checked only.* The liveness properties (`ClientMessagesDelivered`,
`ServerMessagesDelivered`, `QueuesDrain`, `LoopEnds`, `AbandonedIsReleased`,
`ChangesReachDatabase`, `WaitersReleased`, `CachesConverge`, `CloseReturns`,
`SaveIsHonoured`): liveness under fairness is out of reach of the prover. Every
invariant and action property of the passing runs is proved.

## 5. Findings

1. *A permanent failure skips a connection* (`failure_reaches_all`).
   `triggerPermanentFailure` runs `_instances.forEach` (RAC 539). Visiting the
   management connection disposes of its protocol, whose `onDidDispose` makes the
   owner dispose of the connection (ARA 249-251), and that splices it out of the
   array under the iteration (RAC 604-609). The next instance, normally the
   extension host's, is not visited: no event, no disposed socket.
2. *A storage whose close hangs* (`storage_closes`). The promise of a run that
   the throttler has queued is made with `then(onComplete, onComplete)
   .then(resolve)` (ASY 262): when that run is rejected the promise is never
   settled. If an update is running when `close` is called and the update that
   follows it is rejected, `doClose` awaits for ever a flush whose failure it
   means to ignore ("We must always ensure the DB is closed to avoid
   corruption", STO 344-346), and the recovery from the cache does not happen.
   A rejection that strikes the first update is handled.
3. *A clean working copy that is not on disk* (`file_clean`). Edit, save, and
   undo while the file is being written: the undo returns to `savedVersionId`
   and clears the dirty flag (SFW 755-760); the write then succeeds, but since
   the version has changed `handleSaveSuccess` (SFW 1100) does not touch the
   flags. The editor shows the old contents as saved, the file has the new ones.
   The watcher does not help: in the trace its report comes while the save still
   runs, and `resolve` returns early; a later one would find the etag that the
   save has taken over.
4. *Events the listener does not expect* (`documented_events`). The listener of
   the window lists the "possible state transitions"
   (`workbench/contrib/remote/browser/remote.ts` 885-889). The code has three
   more: ReconnectionRunning -> ReconnectionWait after each attempt that fails
   (RAC 659-666), and ReconnectionWait and ConnectionGain ->
   ReconnectionPermanentFailure when another connection fails for good, whose
   `triggerPermanentFailure` reaches this one at once (RAC 534-540, 742-745). The
   shortest trace is the last: the initial connection of the extension host
   fails. `EventOrder` is stated with the table of the code, which has these
   three rows and needs each of them, and without ConnectionLost ->
   ReconnectionWait, since the first attempt does not wait.

One more behaviour is at odds with a comment: `whenFlushed` does not wait for an
update that is running, while the `flush` built on it promises that "all updates
to the underlying storage have been flushed"
(`platform/storage/common/storage.ts` 217-218). The model has it; no property is
stated of `whenFlushed` but that it returns.

Behaviours the models have and no text of the repository contradicts: a
connection whose `start()` throws stays for ever (`AbandonedIsReleased` admits
it), a reconnection before the process is launched
leaves the replaced socket open, the initial handshake has no timeout, recovery
of a database deletes it first, a failed `getItems` makes close replace the
database by an almost empty cache, a save whose write is truncated or whose stat
cannot be read makes the next save conflict with it, a failed revert undoes a dirty flag set meanwhile, a failed reload lets
the next save overwrite without a conflict.

## 6. Plan

Done: the stream, its refinement, its reconnections; the life cycle; storage and
shared storage; file working copies; proofs of all their safety properties.
Next, in this order:

1. Proofs: safety lemmas behind the liveness properties, such as a waiter always
   having a step that will release it (`WaitersReleased`) and a save that was
   asked for always being on its way (`SaveIsHonoured`).
2. `ChunkStream` and `ProtocolReader`: header and body cut at any boundary, as a
   pure algorithm checked against the concatenation of all chunks over bounded
   inputs; then the writer's framing composed with it.
3. `BufferedEmitter` and the auto-shutdown timer (as part of
   `RemoteConnections`, with hosts that are being accepted when it fires).
4. IPC channels and the extension host RPC protocol: matching, cancellation and
   disposal over a reliable channel.
5. Orphaned files and backups in `StoredFileWorkingCopy`.

## 7. Not modelled

Most of the repository by size is language support, completions data, editor
widgets, bundled extensions and user interface: code without a protocol or a
state machine of its own, or whose correctness is a matter of text and layout.
`PROJECT.json` gives the reason for each component that is left out.
