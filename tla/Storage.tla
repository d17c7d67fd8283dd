------------------------------ MODULE Storage ------------------------------
(***************************************************************************)
(* One Storage object of the main process over its SQLite database, from   *)
(* the opening of the file to the end of the process, and over again.      *)
(*                                                                         *)
(*   - storage: the Storage object (base/parts/storage/common/storage.ts); *)
(*   - delayer: its ThrottledDelayer (base/common/async.ts), that is the   *)
(*     timer of the Delayer (deferred), the update that is running (active *)
(*     and its request: Throttler.activePromise) and whether one more run  *)
(*     has been asked for meanwhile (queued: Throttler.queuedPromise);     *)
(*   - awaits: which promise each caller of the object is waiting for;     *)
(*   - connection: the connection of SQLiteStorageDatabase                 *)
(*     (base/parts/storage/node/storage.ts) and how far its close() got;   *)
(*   - disk: the database file, its backup, and the in-memory database     *)
(*     that stands in when the file cannot be opened.                      *)
(*                                                                         *)
(* A step is one turn of the event loop: a call from outside, a timer, or  *)
(* an answer of SQLite with the promise reactions it sets off.             *)
(***************************************************************************)
EXTENDS StorageCache

CONSTANTS
    MaxChanges,     \* calls of set and delete that change something
    MaxErrors,      \* failures of SQLite and of the file system
    MaxEnds         \* times the process ends or crashes

ASSUME BoundsAssumption == {MaxChanges, MaxErrors, MaxEnds} \subseteq Nat

VARIABLES storage, delayer, awaits, owed, connection, disk, budget

vars == <<storage, delayer, awaits, owed, connection, disk, budget>>

-----------------------------------------------------------------------------
(* State *)

\* "flush" is a caller of flush(0): a client, or optimize
Callers == {"close", "flush", "whenFlushed"}

\* Where the promise a caller waits for stands.  "timer": the Delayer's
\* completion promise; "running": the active update; "queued": the promise of
\* the run that starts once the active update is over; "resumed": the same
\* promise while that run is under way; "callbacks": whenFlushedCallbacks;
\* "never": a promise nothing will settle any more.
Places == {"idle", "timer", "running", "queued", "resumed", "callbacks",
           "never", "done", "failed"}

States == {"Down", "None", "Initialized", "Closed"}

Phases == {"none", "open", "closing", "backup", "recover", "rewrite",
           "closed", "rejected"}

Files == [kind : {"ok", "missing", "corrupt"}, items : Items]

MissingFile == [kind |-> "missing", items |-> NoItems]
CorruptFile == [kind |-> "corrupt", items |-> NoItems]
File(items) == [kind |-> "ok", items |-> items]

\* StorageState.None
NewStorage == [state |-> "None", loading |-> FALSE, cache |-> NoItems,
               pending |-> NoRequest]

NewDelayer == [deferred |-> FALSE, active |-> FALSE, request |-> NoRequest,
               queued |-> FALSE]

NoConnection == [isInMemory |-> FALSE, isErroneous |-> FALSE, phase |-> "none"]

\* What the open database holds
DbItems == IF connection.isInMemory THEN disk.memory ELSE disk.main.items

Update(d, items) == IF connection.isInMemory
                    THEN [d EXCEPT !.memory = items]
                    ELSE [d EXCEPT !.main = File(items)]

Init ==
    /\ storage = [NewStorage EXCEPT !.state = "Down"]
    /\ delayer = NewDelayer
    /\ awaits = [c \in Callers |-> "idle"]
    /\ owed = [c \in Callers |-> {}]
    /\ connection = NoConnection
    /\ disk = [main |-> MissingFile, backup |-> MissingFile, memory |-> NoItems]
    /\ budget = [changes |-> MaxChanges, errors |-> MaxErrors, ends |-> MaxEnds]

\* One failure of SQLite or of the file system, if fails
Charge(fails) ==
    /\ fails => budget.errors > 0
    /\ budget' = [budget EXCEPT !.errors = IF fails THEN @ - 1 ELSE @]

-----------------------------------------------------------------------------
(* Opening *)

\* connect, the first attempt succeeds; an absent file is created
OpenFile ==
    /\ storage.state = "Down"
    /\ disk.main.kind # "corrupt"
    /\ storage' = NewStorage
    /\ connection' = [NoConnection EXCEPT !.phase = "open"]
    /\ disk' = [disk EXCEPT !.main = File(disk.main.items)]
    /\ UNCHANGED <<delayer, awaits, owed, budget>>

\* connect, the first attempt (and the second one after SQLITE_BUSY) fails:
\* the file is deleted, the backup takes its place if there is one and the
\* renaming succeeds, and the file is opened again.  Where deleting or opening
\* fails an in-memory database is used.
OpenFallback(unlinked, renamed, reopens) ==
    /\ storage.state = "Down"
    /\ unlinked => disk.main.kind # "missing"
    /\ renamed => unlinked /\ disk.backup.kind # "missing"
    /\ LET file == IF renamed THEN disk.backup
                   ELSE IF unlinked THEN MissingFile
                   ELSE disk.main
       IN /\ reopens => unlinked /\ file.kind # "corrupt"
          /\ Charge(\/ disk.main.kind # "corrupt"
                    \/ unlinked /\ disk.backup.kind # "missing" /\ ~renamed
                    \/ file.kind # "corrupt" /\ ~reopens)
          /\ disk' = [main |-> IF reopens THEN File(file.items) ELSE file,
                      backup |-> IF renamed THEN MissingFile ELSE disk.backup,
                      memory |-> NoItems]
    /\ storage' = NewStorage
    /\ connection' = [NoConnection EXCEPT !.phase = "open", !.isInMemory = ~reopens]
    /\ UNCHANGED <<delayer, awaits, owed>>

\* init.  An empty database may be known not to exist (wasCreated,
\* STORAGE_DOES_NOT_EXIST): then nothing is read
InitStorage(hint) ==
    /\ storage.state = "None"
    /\ hint => DbItems = NoItems /\ disk.backup.kind = "missing"
    /\ storage' = [storage EXCEPT !.state = "Initialized", !.loading = ~hint]
    /\ UNCHANGED <<delayer, awaits, owed, connection, disk, budget>>

\* getItems answers; when it is rejected the cache stays as it was and the
\* storage is used all the same
GetItems(fails) ==
    /\ storage.loading
    /\ Charge(fails)
    /\ storage' = [storage EXCEPT !.loading = FALSE,
                                  !.cache = IF fails THEN @ ELSE DbItems]
    /\ connection' = [connection EXCEPT !.isErroneous = @ \/ fails]
    /\ UNCHANGED <<delayer, awaits, owed, disk>>

-----------------------------------------------------------------------------
(* The operations of the object.  Callers wait for init (whenReady). *)

Usable == storage.state = "Initialized" /\ ~storage.loading

\* doFlush: arms the timer, again if it was armed
Trigger == delayer' = [delayer EXCEPT !.deferred = TRUE]

\* set and delete; v = NoValue is delete
Change(k, v) ==
    /\ Usable
    /\ budget.changes > 0
    /\ Store(storage, k, v) # storage
    /\ storage' = Store(storage, k, v)
    /\ Trigger
    /\ owed' = [c \in Callers |-> owed[c] \ {k}]
    /\ budget' = [budget EXCEPT !.changes = @ - 1]
    /\ UNCHANGED <<awaits, connection, disk>>

\* flush(0), called by a client or as the first thing optimize does
Flush ==
    /\ Usable
    /\ awaits["flush"] = "idle"
    /\ awaits' = [awaits EXCEPT !["flush"] = "timer"]
    /\ owed' = [owed EXCEPT !["flush"] = Keys]
    /\ Trigger
    /\ UNCHANGED <<storage, connection, disk, budget>>

\* whenFlushed returns at once when nothing is pending
WhenFlushed ==
    /\ storage.state # "Down"
    /\ awaits["whenFlushed"] = "idle"
    /\ awaits' = [awaits EXCEPT !["whenFlushed"] =
                     IF HasChanges(storage.pending) THEN "callbacks" ELSE "done"]
    /\ owed' = [owed EXCEPT !["whenFlushed"] = Keys]
    /\ UNCHANGED <<storage, delayer, connection, disk, budget>>

\* close: no change is accepted from here on
Close ==
    /\ Usable
    /\ storage' = [storage EXCEPT !.state = "Closed"]
    /\ awaits' = [awaits EXCEPT !["close"] = "timer"]
    /\ owed' = [owed EXCEPT !["close"] = Keys]
    /\ Trigger
    /\ UNCHANGED <<connection, disk, budget>>

\* The caller of flush or whenFlushed goes on
Return(c) ==
    /\ c \in {"flush", "whenFlushed"}
    /\ awaits[c] \in {"done", "failed"}
    /\ awaits' = [awaits EXCEPT ![c] = "idle"]
    /\ owed' = [owed EXCEPT ![c] = {}]
    /\ UNCHANGED <<storage, delayer, connection, disk, budget>>

-----------------------------------------------------------------------------
(* Flushing *)

Move(a, from, to) == [c \in Callers |-> IF a[c] = from THEN to ELSE a[c]]

\* MUTANT: an update is run also when nothing is pending.
FlushPendingAlways(s, d, a, from, to) ==
    /\ delayer' = [d EXCEPT !.active = TRUE, !.request = s.pending]
    /\ storage' = [s EXCEPT !.pending = NoRequest]
    /\ awaits' = Move(a, from, to)

\* flushPending, run by the throttler for the callers that wait in "from"
FlushPending(s, d, a, from, to) ==
    IF HasChanges(s.pending)
    THEN /\ delayer' = [d EXCEPT !.active = TRUE, !.request = s.pending]
         /\ storage' = [s EXCEPT !.pending = NoRequest]
         /\ awaits' = Move(a, from, to)
    ELSE /\ delayer' = d
         /\ storage' = s
         /\ awaits' = Move(a, from, "done")

\* MUTANT: a running update is taken to be good enough.
TimerFiresEarly ==
    /\ delayer.deferred
    /\ LET d == [delayer EXCEPT !.deferred = FALSE]
       IN IF delayer.active
          THEN /\ delayer' = [d EXCEPT !.queued = TRUE]
               /\ awaits' = Move(awaits, "timer", "done")
               /\ UNCHANGED storage
          ELSE FlushPending(storage, d, awaits, "timer", "running")
    /\ UNCHANGED <<owed, connection, disk, budget>>

\* MUTANT: no second run is noted.
TimerFiresUnqueued ==
    /\ delayer.deferred
    /\ LET d == [delayer EXCEPT !.deferred = FALSE]
       IN IF delayer.active
          THEN delayer' = d /\ UNCHANGED <<awaits, storage>>
          ELSE FlushPending(storage, d, awaits, "timer", "running")
    /\ UNCHANGED <<owed, connection, disk, budget>>

\* The Delayer's timer: Throttler.queue runs the task, or notes that one
\* more run is wanted when an update is running
TimerFires ==
    /\ delayer.deferred
    /\ LET d == [delayer EXCEPT !.deferred = FALSE]
       IN IF delayer.active
          THEN /\ delayer' = [d EXCEPT !.queued = TRUE]
               /\ awaits' = Move(awaits, "timer", "queued")
               /\ UNCHANGED storage
          ELSE FlushPending(storage, d, awaits, "timer", "running")
    /\ UNCHANGED <<owed, connection, disk, budget>>

\* What becomes of the promises when the active update is over.  The promise
\* of a queued run is made with then(onComplete, onComplete).then(resolve):
\* a rejection of that run is not passed on
Settle(a, rejected) ==
    [c \in Callers |->
        IF a[c] = "running" THEN (IF rejected THEN "failed" ELSE "done")
        ELSE IF a[c] = "resumed" THEN (IF rejected THEN "never" ELSE "done")
        ELSE a[c]]

\* MUTANT: no one is released while another run is to follow.
ReleaseUnqueued(a) ==
    IF HasChanges(storage.pending) \/ delayer.queued THEN a
    ELSE Move(a, "callbacks", "done")

\* The finally of flushPending: whoever waits is released if nothing is
\* pending, whether the update succeeded or not
Release(a) == IF HasChanges(storage.pending) THEN a
              ELSE Move(a, "callbacks", "done")

\* The transaction of updateItems ends.  "ok": it is committed; "inserts",
\* "deletes", "none": only the inserts, the deletes or no statement succeeded,
\* the transaction is ended all the same and the promise is resolved;
\* "rejected": the transaction could not be ended.
Outcomes == {"ok", "inserts", "deletes", "none", "rejected"}

Committed(r, outcome) ==
    [insert |-> IF outcome \in {"ok", "inserts"} THEN r.insert ELSE NoItems,
     delete |-> IF outcome \in {"ok", "deletes"} THEN r.delete ELSE {}]

\* updateItems is over; the throttler then starts the queued run
UpdateDone(outcome) ==
    /\ delayer.active
    /\ Charge(outcome # "ok")
    /\ disk' = Update(disk, Apply(DbItems, Committed(delayer.request, outcome)))
    /\ connection' = [connection EXCEPT !.isErroneous = @ \/ outcome # "ok"]
    /\ LET a == Settle(Release(awaits), outcome = "rejected")
           d == [delayer EXCEPT !.active = FALSE, !.request = NoRequest,
                                !.queued = FALSE]
       IN IF delayer.queued
          THEN FlushPending(storage, d, a, "queued", "resumed")
          ELSE /\ delayer' = d
               /\ awaits' = a
               /\ UNCHANGED storage
    /\ UNCHANGED owed

\* optimize goes on once its flush has succeeded: VACUUM.  On a connection
\* that is being closed the statement fails.
Vacuum(fails) ==
    /\ awaits["flush"] = "done"
    /\ Charge(fails /\ connection.phase = "open")
    /\ connection' = [connection EXCEPT !.isErroneous =
                         @ \/ fails \/ connection.phase # "open"]
    /\ awaits' = [awaits EXCEPT !["flush"] = "idle"]
    /\ owed' = [owed EXCEPT !["flush"] = {}]
    /\ UNCHANGED <<storage, delayer, disk>>

-----------------------------------------------------------------------------
(* Closing the database *)

\* doClose goes on after its flush, also when that was rejected
CloseDatabase ==
    /\ awaits["close"] \in {"done", "failed"}
    /\ connection.phase = "open"
    /\ connection' = [connection EXCEPT !.phase = "closing"]
    /\ UNCHANGED <<storage, delayer, awaits, owed, disk, budget>>

\* MUTANT: errors of the updates are not taken into account.
ConnectionClosedHealthy(fails) ==
    /\ connection.phase = "closing"
    /\ Charge(fails)
    /\ connection' = [connection EXCEPT
          !.phase = IF fails \/ connection.isInMemory THEN "recover" ELSE "backup"]
    /\ UNCHANGED <<storage, delayer, awaits, owed, disk>>

\* The callback of db.close: a backup is made of a healthy database, any
\* other one is recovered from the cache
ConnectionClosed(fails) ==
    /\ connection.phase = "closing"
    /\ Charge(fails)
    /\ LET erroneous == connection.isErroneous \/ fails
       IN connection' = [connection EXCEPT
             !.isErroneous = erroneous,
             !.phase = IF erroneous \/ connection.isInMemory
                       THEN "recover" ELSE "backup"]
    /\ UNCHANGED <<storage, delayer, awaits, owed, disk>>

\* backup: a failing copy is ignored, and may have spoilt the copy
Backup(copy) ==
    /\ connection.phase = "backup"
    /\ copy \in {disk.main, disk.backup, CorruptFile}
    /\ Charge(copy # disk.main)
    /\ disk' = [disk EXCEPT !.backup = copy]
    /\ connection' = [connection EXCEPT !.phase = "closed"]
    /\ UNCHANGED <<storage, delayer, awaits, owed>>

\* Recovery deletes the file ...
Unlink(fails) ==
    /\ connection.phase = "recover"
    /\ Charge(fails /\ disk.main.kind # "missing")
    /\ LET failed == fails \/ disk.main.kind = "missing"
       IN /\ disk' = IF failed THEN disk ELSE [disk EXCEPT !.main = MissingFile]
          /\ connection' = [connection EXCEPT
                !.phase = IF failed THEN "rejected" ELSE "rewrite"]
    /\ UNCHANGED <<storage, delayer, awaits, owed>>

\* ... and writes the cache into a new one, which is then closed in turn: a
\* failure of any of these is not recovered from again
Rewrite(file) ==
    /\ connection.phase = "rewrite"
    /\ file \in {File(storage.cache), File(NoItems), MissingFile}
    /\ \E closeFails \in BOOLEAN :
          LET failed == closeFails \/ file # File(storage.cache)
          IN /\ Charge(failed)
             /\ connection' = [connection EXCEPT
                   !.phase = IF failed THEN "rejected" ELSE "backup"]
    /\ disk' = [disk EXCEPT !.main = file]
    /\ UNCHANGED <<storage, delayer, awaits, owed>>

-----------------------------------------------------------------------------
(* The end of the process *)

GoDown ==
    /\ budget.ends > 0
    /\ storage' = [NewStorage EXCEPT !.state = "Down"]
    /\ delayer' = NewDelayer
    /\ awaits' = [c \in Callers |-> "idle"]
    /\ owed' = [c \in Callers |-> {}]
    /\ connection' = NoConnection
    /\ disk' = [disk EXCEPT !.memory = NoItems]
    /\ budget' = [budget EXCEPT !.ends = @ - 1]

\* The shutdown has joined the close of the storage
Exit == connection.phase \in {"closed", "rejected"} /\ GoDown

\* A crash leaves the files as they are
Crash ==
    /\ storage.state # "Down"
    /\ connection.phase \notin {"closed", "rejected"}
    /\ GoDown

\* While nothing runs the file may be damaged
Corrupt ==
    /\ storage.state = "Down"
    /\ disk.main.kind = "ok"
    /\ Charge(TRUE)
    /\ disk' = [disk EXCEPT !.main = CorruptFile]
    /\ UNCHANGED <<storage, delayer, awaits, owed, connection>>

-----------------------------------------------------------------------------
(* Specification *)

Next ==
    \/ OpenFile
    \/ \E unlinked, renamed, reopens \in BOOLEAN :
          OpenFallback(unlinked, renamed, reopens)
    \/ \E hint \in BOOLEAN : InitStorage(hint)
    \/ \E fails \in BOOLEAN : GetItems(fails)
    \/ \E k \in Keys, v \in Values \cup {NoValue} : Change(k, v)
    \/ Flush
    \/ WhenFlushed
    \/ Close
    \/ \E c \in {"flush", "whenFlushed"} : Return(c)
    \/ TimerFires
    \/ \E outcome \in Outcomes : UpdateDone(outcome)
    \/ \E fails \in BOOLEAN : Vacuum(fails)
    \/ CloseDatabase
    \/ \E fails \in BOOLEAN : ConnectionClosed(fails)
    \/ \E copy \in {disk.main, disk.backup, CorruptFile} : Backup(copy)
    \/ \E fails \in BOOLEAN : Unlink(fails)
    \/ \E file \in {File(storage.cache), File(NoItems), MissingFile} : Rewrite(file)
    \/ Exit
    \/ Crash
    \/ Corrupt

Spec == Init /\ [][Next]_vars

\* Timers fire (callers pause for longer than the flush delay), SQLite and the
\* file system answer, and what awaits a settled promise goes on.  Nothing is
\* assumed of the callers or of the end of the process.
Fairness ==
    /\ WF_vars(TimerFires)
    /\ WF_vars(\E outcome \in Outcomes : UpdateDone(outcome))
    /\ WF_vars(\E fails \in BOOLEAN : GetItems(fails))
    /\ WF_vars(CloseDatabase)
    /\ WF_vars(\E fails \in BOOLEAN : ConnectionClosed(fails))
    /\ WF_vars(\E copy \in {disk.main, disk.backup, CorruptFile} : Backup(copy))
    /\ WF_vars(\E fails \in BOOLEAN : Unlink(fails))
    /\ WF_vars(\E file \in {File(storage.cache), File(NoItems), MissingFile} :
                  Rewrite(file))

LiveSpec == Spec /\ Fairness

-----------------------------------------------------------------------------
(* Properties *)

\* Every variable has its type, and the throttler holds a request exactly
\* while an update runs, so that a queued run always has one to wait for.
TypeOK ==
    /\ storage \in [state : States, loading : BOOLEAN, cache : Items,
                    pending : Requests]
    /\ delayer \in [deferred : BOOLEAN, active : BOOLEAN, request : Requests,
                    queued : BOOLEAN]
    /\ awaits \in [Callers -> Places]
    /\ owed \in [Callers -> SUBSET Keys]
    /\ connection \in [isInMemory : BOOLEAN, isErroneous : BOOLEAN, phase : Phases]
    /\ disk \in [main : Files, backup : Files, memory : Items]
    /\ budget \in [changes : 0 .. MaxChanges, errors : 0 .. MaxErrors,
                   ends : 0 .. MaxEnds]
    /\ delayer.active <=> HasChanges(delayer.request)
    /\ delayer.queued => delayer.active

Loaded == storage.state \in {"Initialized", "Closed"} /\ ~storage.loading

\* As long as no statement has failed, the database brought up to date with
\* the update that is running and then with what is pending is the cache:
\* set, delete, the taking of the pending changes in flushPending and the
\* throttled updates together never lose, repeat or reorder a change.
ReplayGivesCache ==
    Loaded /\ ~connection.isErroneous /\ connection.phase \in {"open", "closing", "backup"}
    => Apply(Apply(DbItems, delayer.request), storage.pending) = storage.cache

\* Once the close of the database is resolved, the database file holds
\* exactly what the cache held: either every update succeeded, or the failure
\* was noticed and the file has been rewritten from the cache (close, doClose
\* of SQLiteStorageDatabase).
CloseIsDurable ==
    connection.phase = "closed" => disk.main = File(storage.cache)

\* When the flush(0) of a client, of optimize or of close is over, every value
\* that has not been changed since the call is in the database, updates that
\* were already running at the time of the call included (Storage.flush).
FlushedIsStored ==
    \A c \in {"flush", "close"}, k \in Keys :
        awaits[c] = "done" /\ k \in owed[c] /\ connection.phase = "open"
            /\ ~connection.isErroneous
        => DbItems[k] = storage.cache[k]

\* Every change reaches the database while the process lives, unless a
\* statement fails (flushDelayer: whoever changes the cache sees to a run).
ChangesReachDatabase ==
    Loaded /\ DbItems # storage.cache
    ~> \/ storage.state = "Down" \/ connection.isErroneous \/ connection.isInMemory
       \/ DbItems = storage.cache

\* Whoever waits in whenFlushed is released, whether the updates succeed or
\* not (the finally of flushPending).
WaitersReleased ==
    awaits["whenFlushed"] = "callbacks" ~> awaits["whenFlushed"] # "callbacks"

\* close always gets to closing the database: storage.ts says "close even if
\* there is an error flushing. We must always ensure the DB is closed".
CloseClosesDatabase ==
    storage.state = "Closed" ~> connection.phase # "open"

=============================================================================
