---------------------------- MODULE StorageProofs ----------------------------
(***************************************************************************)
(* The theorems about Storage: the shape of the state; that database,      *)
(* running update and pending changes add up to the cache; that a flush    *)
(* covers what it was called for; and that a resolved close leaves the     *)
(* cache in the database file.                                             *)
(***************************************************************************)
EXTENDS Storage, TLAPS

Untouched(r, k) == r.insert[k] = NoValue /\ k \notin r.delete

\* Before init is over nothing has happened to the object, and a call of
\* whenFlushed has nothing to wait for.
FreshInv ==
    /\ storage.loading => storage.state = "Initialized"
    /\ ~Loaded => /\ storage.cache = NoItems
                  /\ storage.pending = NoRequest
                  /\ delayer = NewDelayer
                  /\ \A c \in Callers \ {"whenFlushed"} : awaits[c] = "idle"
                  /\ awaits["whenFlushed"] \in {"idle", "done"}

\* As ReplayGivesCache, in every phase of the connection.
ReplayInv ==
    Loaded /\ ~connection.isErroneous
    => Apply(Apply(DbItems, delayer.request), storage.pending) = storage.cache

\* Where the promise of close stands says what is left to be written.
CloseInv ==
    /\ storage.state # "Closed" => awaits["close"] = "idle"
    /\ awaits["close"] # "callbacks"
    /\ awaits["close"] \in {"running", "resumed", "done", "failed"}
         => storage.pending = NoRequest
    /\ awaits["close"] \in {"running", "resumed"} => delayer.active
    /\ awaits["close"] \in {"done", "failed"} => ~delayer.active
    /\ connection.phase \notin {"none", "open"} => awaits["close"] \in {"done", "failed"}

\* What a caller of flush is owed is not pending any more once its run has
\* begun, and not in a running update either once it is over.
FlushInv ==
    \A c \in {"flush", "close"}, k \in Keys :
        k \in owed[c] =>
            /\ awaits[c] \in {"running", "resumed", "done"} => Untouched(storage.pending, k)
            /\ awaits[c] = "done" => Untouched(delayer.request, k)

\* The file of an open database is there, a database is recovered only for a
\* reason, and the file is backed up only when it holds the cache.
FileInv ==
    /\ storage.state = "Down" <=> connection.phase = "none"
    /\ connection.phase \in {"open", "closing"} /\ ~connection.isInMemory
         => disk.main.kind = "ok"
    /\ connection.phase \in {"recover", "rewrite", "rejected"}
         => connection.isErroneous \/ connection.isInMemory
    /\ connection.phase \in {"backup", "closed"} => disk.main = File(storage.cache)

IInv == TypeOK /\ FreshInv /\ ReplayInv /\ CloseInv /\ FlushInv /\ FileInv

-----------------------------------------------------------------------------
(* The data *)

StorageRecord == [state : States, loading : BOOLEAN, cache : Items, pending : Requests]

DelayerRecord == [deferred : BOOLEAN, active : BOOLEAN, request : Requests,
                  queued : BOOLEAN]

\* The empty map and the empty request have their types.
LEMMA EmptyTypes == NoItems \in Items /\ NoRequest \in Requests
BY DEF NoItems, Items, NoRequest, Requests

\* A request without changes is the empty one (hasPending).
LEMMA NoChangesIsEmpty ==
    ASSUME NEW r \in Requests, ~HasChanges(r)
    PROVE  r = NoRequest
BY DEF HasChanges, Requests, NoRequest

\* The empty request has no changes and touches no key.
LEMMA EmptyHasNoChanges ==
    /\ ~HasChanges(NoRequest)
    /\ \A k \in Keys : Untouched(NoRequest, k)
BY DEF HasChanges, NoRequest, NoItems, Untouched

\* What doUpdateItems leaves in the database is a map.
LEMMA ApplyType ==
    ASSUME NEW items \in Items, NEW r \in Requests
    PROVE  Apply(items, r) \in Items
BY DEF Apply, Items, Requests

\* The empty request changes nothing.
LEMMA ApplyNothing ==
    ASSUME NEW items \in Items
    PROVE  Apply(items, NoRequest) = items
BY DEF Apply, Items, NoRequest, NoItems

\* A request leaves the keys it does not touch alone.
LEMMA ApplyUntouched ==
    ASSUME NEW items \in Items, NEW r \in Requests, NEW k \in Keys, Untouched(r, k)
    PROVE  Apply(items, r)[k] = items[k]
BY DEF Apply, Items, Requests, Untouched

\* set and delete keep cache and pending changes in step, and touch no other
\* key.
LEMMA StoreReplays ==
    ASSUME NEW s \in StorageRecord, NEW items \in Items, NEW k \in Keys,
           NEW v \in Values \cup {NoValue}
    PROVE  /\ Store(s, k, v) \in StorageRecord
           /\ Store(s, k, v).state = s.state
           /\ Store(s, k, v).loading = s.loading
           /\ \A j \in Keys \ {k} : Untouched(s.pending, j)
                                    => Untouched(Store(s, k, v).pending, j)
           /\ Apply(items, s.pending) = s.cache
                => Apply(items, Store(s, k, v).pending) = Store(s, k, v).cache
<1>1. CASE v = NoValue /\ s.cache[k] = NoValue
  BY <1>1 DEF Store, DeleteItem
<1>2. CASE v = NoValue /\ s.cache[k] # NoValue
  <2> DEFINE t == [s EXCEPT !.cache[k] = NoValue,
                            !.pending.insert[k] = NoValue,
                            !.pending.delete = @ \cup {k}]
  <2>1. Store(s, k, v) = t
    BY <1>2 DEF Store, DeleteItem
  <2>2. /\ t \in StorageRecord
        /\ t.state = s.state
        /\ t.loading = s.loading
        /\ t.cache = [s.cache EXCEPT ![k] = NoValue]
        /\ t.pending.insert = [s.pending.insert EXCEPT ![k] = NoValue]
        /\ t.pending.delete = s.pending.delete \cup {k}
    BY DEF StorageRecord, Items, Requests
  <2> HIDE DEF t
  <2>3. \A j \in Keys \ {k} : Untouched(s.pending, j) => Untouched(t.pending, j)
    BY <2>2 DEF Untouched, StorageRecord, Requests, Items
  <2>4. ASSUME Apply(items, s.pending) = s.cache PROVE Apply(items, t.pending) = t.cache
    BY <2>2, <2>4 DEF Apply, StorageRecord, Requests, Items
  <2> QED BY <2>1, <2>2, <2>3, <2>4
<1>3. CASE v # NoValue /\ s.cache[k] = v
  BY <1>3 DEF Store, SetItem
<1>4. CASE v # NoValue /\ s.cache[k] # v
  <2> DEFINE t == [s EXCEPT !.cache[k] = v,
                            !.pending.insert[k] = v,
                            !.pending.delete = @ \ {k}]
  <2>1. Store(s, k, v) = t
    BY <1>4 DEF Store, SetItem
  <2>2. /\ t \in StorageRecord
        /\ t.state = s.state
        /\ t.loading = s.loading
        /\ t.cache = [s.cache EXCEPT ![k] = v]
        /\ t.pending.insert = [s.pending.insert EXCEPT ![k] = v]
        /\ t.pending.delete = s.pending.delete \ {k}
    BY DEF StorageRecord, Items, Requests
  <2> HIDE DEF t
  <2>3. \A j \in Keys \ {k} : Untouched(s.pending, j) => Untouched(t.pending, j)
    BY <2>2 DEF Untouched, StorageRecord, Requests, Items
  <2>4. ASSUME Apply(items, s.pending) = s.cache PROVE Apply(items, t.pending) = t.cache
    BY <1>4, <2>2, <2>4 DEF Apply, StorageRecord, Requests, Items
  <2> QED BY <2>1, <2>2, <2>3, <2>4
<1> QED BY <1>1, <1>2, <1>3, <1>4

-----------------------------------------------------------------------------
(* Flushing *)

\* flushPending hands over exactly what was pending, and runs an update only
\* if that is something.
LEMMA FlushPendingEffect ==
    ASSUME NEW s \in StorageRecord, NEW d \in DelayerRecord,
           ~d.active, d.request = NoRequest, ~d.queued,
           NEW a \in [Callers -> Places], NEW from, NEW to \in Places,
           FlushPending(s, d, a, from, to)
    PROVE  /\ storage' \in StorageRecord
           /\ storage'.state = s.state
           /\ storage'.loading = s.loading
           /\ storage'.cache = s.cache
           /\ storage'.pending = NoRequest
           /\ delayer' \in DelayerRecord
           /\ delayer'.request = s.pending
           /\ delayer'.active <=> HasChanges(s.pending)
           /\ ~delayer'.queued
           /\ awaits' = Move(a, from, IF HasChanges(s.pending) THEN to ELSE "done")
           /\ awaits' \in [Callers -> Places]
<1>1. CASE HasChanges(s.pending)
  <2>1. /\ delayer' = [d EXCEPT !.active = TRUE, !.request = s.pending]
        /\ storage' = [s EXCEPT !.pending = NoRequest]
        /\ awaits' = Move(a, from, to)
    BY <1>1 DEF FlushPending
  <2> QED BY <1>1, <2>1, EmptyTypes DEF StorageRecord, DelayerRecord, Move
<1>2. CASE ~HasChanges(s.pending)
  <2>1. delayer' = d /\ storage' = s /\ awaits' = Move(a, from, "done")
    BY <1>2 DEF FlushPending
  <2>2. s.pending = NoRequest
    BY <1>2, NoChangesIsEmpty DEF StorageRecord
  <2> QED BY <1>2, <2>1, <2>2 DEF StorageRecord, Move, Places
<1> QED BY <1>1, <1>2

-----------------------------------------------------------------------------
(* The steps *)

\* What the database holds is a map.
LEMMA DbItemsType ==
    ASSUME TypeOK PROVE DbItems \in Items
BY DEF TypeOK, DbItems, Files

\* The initial state: nothing is open.
LEMMA InitStep == Init => IInv
<1> SUFFICES ASSUME Init PROVE IInv
  OBVIOUS
<1> USE DEF Init, NewStorage, NewDelayer, NoConnection, MissingFile
<1>1. TypeOK
  <2>1. /\ storage \in StorageRecord
        /\ delayer \in DelayerRecord
        /\ connection \in [isInMemory : BOOLEAN, isErroneous : BOOLEAN, phase : Phases]
    BY EmptyTypes DEF StorageRecord, DelayerRecord, States, Phases
  <2>2. disk \in [main : Files, backup : Files, memory : Items]
    BY EmptyTypes DEF Files
  <2>3. awaits \in [Callers -> Places] /\ owed \in [Callers -> SUBSET Keys]
    BY DEF Places
  <2>4. budget \in [changes : 0 .. MaxChanges, errors : 0 .. MaxErrors, ends : 0 .. MaxEnds]
    BY BoundsAssumption
  <2>5. delayer.active <=> HasChanges(delayer.request)
    BY EmptyHasNoChanges
  <2>6. delayer.queued => delayer.active
    OBVIOUS
  <2> QED BY <2>1, <2>2, <2>3, <2>4, <2>5, <2>6 DEF TypeOK, StorageRecord, DelayerRecord
<1>2. FreshInv /\ ReplayInv
  BY DEF FreshInv, ReplayInv, Loaded, Callers
<1>3. CloseInv /\ FlushInv /\ FileInv
  BY DEF CloseInv, FlushInv, FileInv, Callers
<1> QED BY <1>1, <1>2, <1>3 DEF IInv

\* A failure that is paid for keeps the budget in its bounds.
LEMMA ChargeType ==
    ASSUME TypeOK, NEW fails \in BOOLEAN, Charge(fails)
    PROVE  budget' \in [changes : 0 .. MaxChanges, errors : 0 .. MaxErrors,
                        ends : 0 .. MaxEnds]
BY BoundsAssumption DEF TypeOK, Charge

\* connect opens the file for an object to which nothing has happened.
LEMMA OpenFileStep == ASSUME IInv, OpenFile PROVE IInv'
<1> USE DEF OpenFile, NewStorage, NoConnection, File
<1>1. TypeOK'
  BY EmptyTypes DEF IInv, TypeOK, States, Phases, Files
<1>2. FreshInv' /\ ReplayInv'
  BY DEF IInv, FreshInv, ReplayInv, Loaded
<1>3. CloseInv' /\ FlushInv' /\ FileInv'
  BY DEF IInv, FreshInv, Loaded, CloseInv, FlushInv, FileInv, Callers
<1> QED BY <1>1, <1>2, <1>3 DEF IInv

\* connect falls back to the backup, to an empty file or to memory.
LEMMA OpenFallbackStep ==
    ASSUME IInv, NEW unlinked \in BOOLEAN, NEW renamed \in BOOLEAN,
           NEW reopens \in BOOLEAN, OpenFallback(unlinked, renamed, reopens)
    PROVE  IInv'
<1> DEFINE file == IF renamed THEN disk.backup
                   ELSE IF unlinked THEN MissingFile
                   ELSE disk.main
<1>1. file \in Files
  BY EmptyTypes DEF IInv, TypeOK, Files, MissingFile
<1>2. /\ storage.state = "Down"
      /\ storage' = NewStorage
      /\ connection' = [NoConnection EXCEPT !.phase = "open", !.isInMemory = ~reopens]
      /\ disk' = [main |-> IF reopens THEN File(file.items) ELSE file,
                  backup |-> IF renamed THEN MissingFile ELSE disk.backup,
                  memory |-> NoItems]
      /\ UNCHANGED <<delayer, awaits, owed>>
  BY DEF OpenFallback
<1>3. budget' \in [changes : 0 .. MaxChanges, errors : 0 .. MaxErrors, ends : 0 .. MaxEnds]
  BY BoundsAssumption DEF OpenFallback, Charge, IInv, TypeOK
<1> HIDE DEF file
<1>4. disk' \in [main : Files, backup : Files, memory : Items]
  BY <1>1, <1>2, EmptyTypes DEF IInv, TypeOK, Files, MissingFile, File
<1>5. TypeOK'
  BY <1>2, <1>3, <1>4, EmptyTypes DEF IInv, TypeOK, States, Phases, NewStorage, NoConnection
<1>6. FreshInv' /\ ReplayInv'
  BY <1>2 DEF IInv, FreshInv, ReplayInv, Loaded, NewStorage
<1>7. CloseInv' /\ FlushInv'
  BY <1>2 DEF IInv, FreshInv, Loaded, CloseInv, FlushInv, Callers, NewStorage, NoConnection
<1>8. FileInv'
  BY <1>2 DEF IInv, FileInv, NewStorage, NoConnection, File
<1> QED BY <1>5, <1>6, <1>7, <1>8 DEF IInv

\* init: without anything to read the cache is empty, and so is the database.
LEMMA InitStorageStep ==
    ASSUME IInv, NEW hint \in BOOLEAN, InitStorage(hint) PROVE IInv'
<1> USE DEF InitStorage
<1>1. TypeOK'
  BY DEF IInv, TypeOK, States
<1>2. FreshInv'
  BY DEF IInv, TypeOK, FreshInv, Loaded
<1>3. ReplayInv'
  <2>1. storage.cache = NoItems /\ storage.pending = NoRequest /\ delayer.request = NoRequest
    BY DEF IInv, FreshInv, Loaded, NewDelayer
  <2>2. CASE hint
    <3>1. DbItems' = NoItems
      BY <2>2 DEF DbItems
    <3>2. Apply(Apply(NoItems, NoRequest), NoRequest) = NoItems
      BY ApplyNothing, EmptyTypes
    <3> QED BY <2>1, <3>1, <3>2 DEF IInv, TypeOK, ReplayInv
  <2>3. CASE ~hint
    BY <2>3 DEF IInv, TypeOK, ReplayInv, Loaded
  <2> QED BY <2>2, <2>3
<1>4. CloseInv' /\ FlushInv' /\ FileInv'
  BY DEF IInv, TypeOK, FreshInv, Loaded, CloseInv, FlushInv, FileInv, Untouched
<1> QED BY <1>1, <1>2, <1>3, <1>4 DEF IInv

\* getItems fills the cache, or marks the connection.
LEMMA GetItemsStep ==
    ASSUME IInv, NEW fails \in BOOLEAN, GetItems(fails) PROVE IInv'
<1> USE DEF GetItems
<1>1. TypeOK'
  BY ChargeType, DbItemsType DEF IInv, TypeOK
<1>2. ~Loaded
  BY DEF Loaded
<1>3. storage.pending = NoRequest /\ delayer.request = NoRequest /\ awaits["close"] = "idle"
  BY <1>2 DEF IInv, FreshInv, NewDelayer, Callers
<1>4. FreshInv'
  BY <1>2 DEF IInv, TypeOK, FreshInv, Loaded, States
<1>5. ReplayInv'
  BY <1>3, ApplyNothing, DbItemsType DEF IInv, TypeOK, ReplayInv, DbItems
<1>6. CloseInv' /\ FlushInv'
  BY <1>2, <1>3 DEF IInv, TypeOK, CloseInv, FlushInv, Untouched
<1>7. FileInv'
  BY <1>2, <1>3 DEF IInv, TypeOK, CloseInv, FileInv
<1> QED BY <1>1, <1>4, <1>5, <1>6, <1>7 DEF IInv

\* set and delete: the new value is in the cache and pending, and no caller is
\* owed the key any more.
LEMMA ChangeStep ==
    ASSUME IInv, NEW k \in Keys, NEW v \in Values \cup {NoValue}, Change(k, v)
    PROVE  IInv'
<1> DEFINE t == Store(storage, k, v)
<1>1. /\ storage.state = "Initialized" /\ ~storage.loading
      /\ storage' = t
      /\ delayer' = [delayer EXCEPT !.deferred = TRUE]
      /\ owed' = [c \in Callers |-> owed[c] \ {k}]
      /\ UNCHANGED <<awaits, connection, disk>>
  BY DEF Change, Usable, Trigger
<1>2. budget' \in [changes : 0 .. MaxChanges, errors : 0 .. MaxErrors, ends : 0 .. MaxEnds]
  BY BoundsAssumption DEF Change, IInv, TypeOK
<1>3. storage \in StorageRecord /\ delayer \in DelayerRecord
  BY DEF IInv, TypeOK, StorageRecord, DelayerRecord
<1>4. /\ t \in StorageRecord
      /\ t.state = "Initialized" /\ ~t.loading
      /\ \A j \in Keys \ {k} : Untouched(storage.pending, j) => Untouched(t.pending, j)
      /\ \A items \in Items : Apply(items, storage.pending) = storage.cache
                              => Apply(items, t.pending) = t.cache
  <2>1. \A items \in Items :
          /\ t \in StorageRecord
          /\ t.state = storage.state
          /\ t.loading = storage.loading
          /\ \A j \in Keys \ {k} : Untouched(storage.pending, j) => Untouched(t.pending, j)
          /\ Apply(items, storage.pending) = storage.cache => Apply(items, t.pending) = t.cache
    BY <1>3, StoreReplays
  <2> HIDE DEF t
  <2> QED BY <1>1, <2>1, EmptyTypes
<1> HIDE DEF t
<1>5. /\ delayer' \in DelayerRecord
      /\ delayer'.active = delayer.active
      /\ delayer'.request = delayer.request
      /\ delayer'.queued = delayer.queued
  BY <1>1, <1>3 DEF DelayerRecord
<1>6. TypeOK'
  BY <1>1, <1>2, <1>4, <1>5 DEF IInv, TypeOK, StorageRecord, DelayerRecord
<1>7. FreshInv'
  BY <1>1, <1>4 DEF FreshInv, Loaded
<1>8. ReplayInv'
  <2>1. Apply(DbItems, delayer.request) \in Items
    BY DbItemsType, ApplyType DEF IInv, TypeOK
  <2>2. DbItems' = DbItems
    BY <1>1 DEF DbItems
  <2> QED BY <1>1, <1>4, <1>5, <2>1, <2>2 DEF IInv, ReplayInv, Loaded
<1>9. CloseInv'
  BY <1>1, <1>4, <1>5 DEF IInv, CloseInv
<1>10. FlushInv'
  <2> SUFFICES ASSUME NEW c \in {"flush", "close"}, NEW j \in Keys, j \in owed'[c]
               PROVE  /\ awaits'[c] \in {"running", "resumed", "done"}
                            => Untouched(storage'.pending, j)
                      /\ awaits'[c] = "done" => Untouched(delayer'.request, j)
    BY DEF FlushInv, Untouched
  <2>1. j # k /\ j \in owed[c]
    BY <1>1 DEF Callers
  <2> QED BY <1>1, <1>4, <1>5, <2>1 DEF IInv, FlushInv
<1>11. FileInv'
  BY <1>1, <1>4 DEF IInv, FileInv, CloseInv
<1> QED BY <1>6, <1>7, <1>8, <1>9, <1>10, <1>11 DEF IInv

\* flush arms the timer; nothing has been promised for it yet.
LEMMA FlushStep == ASSUME IInv, Flush PROVE IInv'
<1> USE DEF Flush, Usable, Trigger
<1>1. TypeOK'
  BY DEF IInv, TypeOK, Callers, Places
<1>2. FreshInv' /\ ReplayInv'
  BY DEF IInv, TypeOK, FreshInv, ReplayInv, Loaded, DbItems
<1>3. CloseInv' /\ FileInv'
  BY DEF IInv, TypeOK, CloseInv, FileInv, Callers
<1>4. FlushInv'
  BY DEF IInv, TypeOK, FlushInv, Callers, Untouched
<1> QED BY <1>1, <1>2, <1>3, <1>4 DEF IInv

\* whenFlushed waits, or returns at once.
LEMMA WhenFlushedStep == ASSUME IInv, WhenFlushed PROVE IInv'
<1> USE DEF WhenFlushed
<1>1. TypeOK'
  BY DEF IInv, TypeOK, Callers, Places
<1>2. FreshInv' /\ ReplayInv'
  <2>1. ~HasChanges(NoRequest)
    BY DEF HasChanges, NoRequest, NoItems
  <2> QED BY <2>1 DEF IInv, TypeOK, FreshInv, ReplayInv, Loaded, DbItems, Callers, Places
<1>3. CloseInv' /\ FileInv'
  BY DEF IInv, TypeOK, CloseInv, FileInv, Callers
<1>4. FlushInv'
  BY DEF IInv, TypeOK, FlushInv, Callers, Untouched
<1> QED BY <1>1, <1>2, <1>3, <1>4 DEF IInv

\* close refuses changes from here on and waits for a flush of its own.
LEMMA CloseStep == ASSUME IInv, Close PROVE IInv'
<1> USE DEF Close, Usable, Trigger
<1>1. TypeOK'
  BY DEF IInv, TypeOK, Callers, Places, States
<1>2. FreshInv' /\ ReplayInv'
  BY DEF IInv, TypeOK, FreshInv, ReplayInv, Loaded, DbItems
<1>3. CloseInv' /\ FileInv'
  BY DEF IInv, TypeOK, CloseInv, FileInv, Callers
<1>4. FlushInv'
  BY DEF IInv, TypeOK, FlushInv, Callers, Untouched
<1> QED BY <1>1, <1>2, <1>3, <1>4 DEF IInv

\* A caller of flush or whenFlushed goes on.
LEMMA ReturnStep ==
    ASSUME IInv, NEW c \in {"flush", "whenFlushed"}, Return(c) PROVE IInv'
<1> USE DEF Return
<1>1. TypeOK'
  BY DEF IInv, TypeOK, Callers, Places
<1>2. FreshInv' /\ ReplayInv'
  BY DEF IInv, TypeOK, FreshInv, ReplayInv, Loaded, DbItems, Callers
<1>3. CloseInv' /\ FileInv'
  BY DEF IInv, TypeOK, CloseInv, FileInv, Callers
<1>4. FlushInv'
  BY DEF IInv, TypeOK, FlushInv, Callers, Untouched
<1> QED BY <1>1, <1>2, <1>3, <1>4 DEF IInv

\* The throttler runs flushPending, or queues a run behind the update that is
\* running.
LEMMA TimerFiresStep == ASSUME IInv, TimerFires PROVE IInv'
<1> DEFINE d == [delayer EXCEPT !.deferred = FALSE]
<1>0. /\ storage \in StorageRecord /\ delayer \in DelayerRecord
      /\ awaits \in [Callers -> Places] /\ TypeOK
  BY DEF IInv, TypeOK, StorageRecord, DelayerRecord
<1>1. Loaded
  BY DEF IInv, FreshInv, NewDelayer, TimerFires
<1>2. UNCHANGED <<owed, connection, disk, budget>> /\ DbItems' = DbItems
  BY DEF TimerFires, DbItems
<1>3. d \in DelayerRecord /\ d.active = delayer.active /\ d.request = delayer.request
      /\ d.queued = delayer.queued
  BY <1>0 DEF DelayerRecord
<1>4. CASE delayer.active
  <2>1. /\ delayer' = [d EXCEPT !.queued = TRUE]
        /\ awaits' = Move(awaits, "timer", "queued")
        /\ storage' = storage
    BY <1>4 DEF TimerFires
  <2>2. /\ delayer' \in DelayerRecord /\ delayer'.active /\ delayer'.request = delayer.request
        /\ awaits' \in [Callers -> Places]
    BY <1>0, <1>3, <1>4, <2>1 DEF DelayerRecord, Move, Places
  <2> HIDE DEF d
  <2>3. TypeOK'
    BY <1>0, <1>2, <1>4, <2>1, <2>2 DEF TypeOK, DelayerRecord
  <2>4. FreshInv' /\ ReplayInv'
    BY <1>1, <1>2, <2>1, <2>2 DEF IInv, FreshInv, ReplayInv, Loaded
  <2>5. CloseInv' /\ FlushInv' /\ FileInv'
    BY <1>0, <1>2, <1>4, <2>1, <2>2 DEF IInv, CloseInv, FlushInv, FileInv, Move, Callers
  <2> QED BY <2>3, <2>4, <2>5 DEF IInv
<1>5. CASE ~delayer.active
  <2>1. delayer.request = NoRequest /\ ~delayer.queued
    BY <1>0, <1>5, NoChangesIsEmpty DEF TypeOK
  <2>2. FlushPending(storage, d, awaits, "timer", "running")
    BY <1>5 DEF TimerFires
  <2>3. /\ storage' \in StorageRecord
        /\ storage'.state = storage.state
        /\ storage'.loading = storage.loading
        /\ storage'.cache = storage.cache
        /\ storage'.pending = NoRequest
        /\ delayer' \in DelayerRecord
        /\ delayer'.request = storage.pending
        /\ delayer'.active <=> HasChanges(storage.pending)
        /\ ~delayer'.queued
        /\ awaits' = Move(awaits, "timer", IF HasChanges(storage.pending) THEN "running" ELSE "done")
        /\ awaits' \in [Callers -> Places]
    <3>1. "running" \in Places
      BY DEF Places
    <3> QED BY <1>0, <1>3, <1>5, <2>1, <2>2, <3>1, FlushPendingEffect
  <2> HIDE DEF d
  <2>4. TypeOK'
    BY <1>0, <1>2, <2>3 DEF TypeOK, DelayerRecord, StorageRecord
  <2>5. FreshInv'
    BY <1>1, <2>3 DEF IInv, FreshInv, Loaded
  <2>6. ReplayInv'
    <3>1. Apply(DbItems, NoRequest) = DbItems
      BY <1>0, DbItemsType, ApplyNothing
    <3>2. Apply(Apply(DbItems, storage.pending), NoRequest) = Apply(DbItems, storage.pending)
      BY <1>0, DbItemsType, ApplyNothing, ApplyType DEF StorageRecord
    <3> QED BY <1>1, <1>2, <2>1, <2>3, <3>1, <3>2 DEF IInv, ReplayInv
  <2>7. CloseInv'
    <3>1. ~HasChanges(NoRequest)
      BY EmptyHasNoChanges
    <3> QED BY <1>0, <1>2, <1>5, <2>3, <3>1 DEF IInv, CloseInv, Move, Callers
  <2>8. FlushInv'
    <3> SUFFICES ASSUME NEW c \in {"flush", "close"}, NEW j \in Keys, j \in owed'[c]
                 PROVE  /\ Untouched(storage'.pending, j)
                        /\ awaits'[c] = "done" => Untouched(delayer'.request, j)
      BY DEF FlushInv, Untouched
    <3>1. Untouched(NoRequest, j)
      BY EmptyHasNoChanges
    <3>2. awaits'[c] = "done" /\ awaits[c] = "done" => Untouched(storage.pending, j)
      BY <1>2 DEF IInv, FlushInv
    <3>3. awaits'[c] = "done" /\ awaits[c] # "done" => storage.pending = NoRequest
      BY <1>0, <2>3, NoChangesIsEmpty DEF Move, Callers, StorageRecord
    <3> QED BY <2>3, <3>1, <3>2, <3>3
  <2>9. FileInv'
    BY <1>2, <2>3 DEF IInv, FileInv
  <2> QED BY <2>4, <2>5, <2>6, <2>7, <2>8, <2>9 DEF IInv
<1> QED BY <1>4, <1>5

\* Where the promises stand once updateItems is over: whoever is done was
\* waiting for this run, or is owed nothing that is still pending.
LEMMA SettleEffect ==
    ASSUME IInv, NEW rejected \in BOOLEAN
    PROVE  /\ Settle(Release(awaits), rejected) \in [Callers -> Places]
           /\ \A c \in Callers :
                 Settle(Release(awaits), rejected)[c] \notin {"running", "resumed"}
           /\ \A c \in {"flush", "close"}, k \in Keys :
                 k \in owed[c] /\ Settle(Release(awaits), rejected)[c] = "done"
                 => Untouched(storage.pending, k)
           /\ storage.state # "Closed" => Settle(Release(awaits), rejected)["close"] = "idle"
           /\ Settle(Release(awaits), rejected)["close"] # "callbacks"
           /\ Settle(Release(awaits), rejected)["close"] \in {"done", "failed"}
                => storage.pending = NoRequest
<1> DEFINE b == Release(awaits)
           a == Settle(b, rejected)
<1>1. /\ awaits \in [Callers -> Places] /\ storage.pending \in Requests
  BY DEF IInv, TypeOK
<1>2. /\ b \in [Callers -> Places]
      /\ \A c \in Callers : \/ b[c] = awaits[c]
                            \/ /\ awaits[c] = "callbacks" /\ b[c] = "done"
                               /\ storage.pending = NoRequest
  <2>1. CASE HasChanges(storage.pending)
    BY <1>1, <2>1 DEF Release
  <2>2. CASE ~HasChanges(storage.pending)
    BY <1>1, <2>2, NoChangesIsEmpty DEF Release, Move, Places
  <2> QED BY <2>1, <2>2
<1> HIDE DEF b
<1>3. /\ a \in [Callers -> Places]
      /\ \A c \in Callers : \/ a[c] = b[c] /\ b[c] \notin {"running", "resumed"}
                            \/ b[c] = "running" /\ a[c] \in {"done", "failed"}
                            \/ b[c] = "resumed" /\ a[c] \in {"done", "never"}
  <2>1. CASE rejected
    <3>1. a = [c \in Callers |-> IF b[c] = "running" THEN "failed"
                                ELSE IF b[c] = "resumed" THEN "never" ELSE b[c]]
      BY <2>1 DEF Settle
    <3>2. "failed" \in Places /\ "never" \in Places
      BY DEF Places
    <3> QED BY <1>2, <3>1, <3>2
  <2>2. CASE ~rejected
    <3>1. a = [c \in Callers |-> IF b[c] = "running" THEN "done"
                                ELSE IF b[c] = "resumed" THEN "done" ELSE b[c]]
      BY <2>2 DEF Settle
    <3>2. "done" \in Places
      BY DEF Places
    <3> QED BY <1>2, <3>1, <3>2
  <2> QED BY <2>1, <2>2
<1> HIDE DEF a
<1>4. "flush" \in Callers /\ "close" \in Callers
  BY DEF Callers
<1>5. \A c \in Callers : a[c] \notin {"running", "resumed"}
  BY <1>3
<1>6. ASSUME NEW c \in {"flush", "close"}, NEW k \in Keys, k \in owed[c], a[c] = "done"
      PROVE  Untouched(storage.pending, k)
  <2>1. awaits[c] \in {"running", "resumed", "done"} \/ storage.pending = NoRequest
    BY <1>2, <1>3, <1>4, <1>6
  <2> QED BY <1>6, <2>1, EmptyHasNoChanges DEF IInv, FlushInv
<1>7. /\ storage.state # "Closed" => a["close"] = "idle"
      /\ a["close"] # "callbacks"
      /\ a["close"] \in {"done", "failed"} => storage.pending = NoRequest
  BY <1>2, <1>3, <1>4 DEF IInv, CloseInv
<1> QED BY <1>3, <1>5, <1>6, <1>7 DEF a, b

\* An update is over: what it has written and what is pending still give the
\* cache, unless the connection is marked, and the queued run takes over what
\* is pending.
LEMMA UpdateDoneStep ==
    ASSUME IInv, NEW outcome \in Outcomes, UpdateDone(outcome) PROVE IInv'
<1> DEFINE a == Settle(Release(awaits), outcome = "rejected")
           d == [delayer EXCEPT !.active = FALSE, !.request = NoRequest, !.queued = FALSE]
           written == Apply(DbItems, Committed(delayer.request, outcome))
<1>1. /\ storage \in StorageRecord /\ delayer \in DelayerRecord
      /\ awaits \in [Callers -> Places] /\ DbItems \in Items /\ TypeOK
  BY DbItemsType DEF IInv, TypeOK, StorageRecord, DelayerRecord
<1>2. /\ a \in [Callers -> Places]
      /\ \A c \in Callers : a[c] \notin {"running", "resumed"}
      /\ \A c \in {"flush", "close"}, k \in Keys :
            k \in owed[c] /\ a[c] = "done" => Untouched(storage.pending, k)
      /\ storage.state # "Closed" => a["close"] = "idle"
      /\ a["close"] # "callbacks"
      /\ a["close"] \in {"done", "failed"} => storage.pending = NoRequest
  BY SettleEffect
<1>3. d \in DelayerRecord /\ ~d.active /\ d.request = NoRequest /\ ~d.queued
  BY <1>1, EmptyTypes DEF DelayerRecord
<1>4. Committed(delayer.request, outcome) \in Requests
      /\ (outcome = "ok" => Committed(delayer.request, outcome) = delayer.request)
  BY <1>1, EmptyTypes DEF Committed, DelayerRecord, Requests
<1>5. written \in Items
      /\ (outcome = "ok" => written = Apply(DbItems, delayer.request))
  BY <1>1, <1>4, ApplyType
<1>6. /\ delayer.active
      /\ disk' = Update(disk, written)
      /\ connection' = [connection EXCEPT !.isErroneous = @ \/ outcome # "ok"]
      /\ owed' = owed
      /\ IF delayer.queued
         THEN FlushPending(storage, d, a, "queued", "resumed")
         ELSE delayer' = d /\ awaits' = a /\ storage' = storage
  BY DEF UpdateDone
<1>7. budget' \in [changes : 0 .. MaxChanges, errors : 0 .. MaxErrors, ends : 0 .. MaxEnds]
  BY ChargeType DEF UpdateDone, IInv
<1>8. /\ storage' \in StorageRecord
      /\ storage'.state = storage.state
      /\ storage'.loading = storage.loading
      /\ storage'.cache = storage.cache
      /\ delayer' \in DelayerRecord
      /\ delayer'.active <=> HasChanges(delayer'.request)
      /\ ~delayer'.queued
      /\ awaits' \in [Callers -> Places]
      /\ \/ /\ storage'.pending = NoRequest /\ delayer'.request = storage.pending
            /\ awaits' = Move(a, "queued", IF HasChanges(storage.pending) THEN "resumed" ELSE "done")
         \/ /\ storage'.pending = storage.pending /\ delayer'.request = NoRequest
            /\ awaits' = a
  <2> HIDE DEF a, d, written
  <2>1. CASE delayer.queued
    <3>1. "resumed" \in Places
      BY DEF Places
    <3>2. FlushPending(storage, d, a, "queued", "resumed")
      BY <1>6, <2>1
    <3> QED BY <1>1, <1>2, <1>3, <3>1, <3>2, FlushPendingEffect
  <2>2. CASE ~delayer.queued
    BY <1>1, <1>2, <1>3, <1>6, <2>2, EmptyHasNoChanges
  <2> QED BY <2>1, <2>2
<1> HIDE DEF a, d, written
<1>9. /\ disk' \in [main : Files, backup : Files, memory : Items]
      /\ DbItems' = written
      /\ ~connection.isInMemory => disk'.main.kind = "ok"
      /\ connection' \in [isInMemory : BOOLEAN, isErroneous : BOOLEAN, phase : Phases]
      /\ connection'.phase = connection.phase
      /\ connection'.isInMemory = connection.isInMemory
      /\ connection'.isErroneous <=> (connection.isErroneous \/ outcome # "ok")
  BY <1>1, <1>5, <1>6 DEF TypeOK, Update, File, Files, DbItems
<1>10. connection.phase \in {"none", "open"}
  BY <1>6 DEF IInv, CloseInv
<1>11. Loaded
  BY <1>6 DEF IInv, FreshInv, NewDelayer
<1>12. TypeOK'
  BY <1>1, <1>6, <1>7, <1>8, <1>9 DEF TypeOK, StorageRecord, DelayerRecord
<1>13. FreshInv'
  BY <1>8, <1>11 DEF IInv, FreshInv, Loaded
<1>14. ReplayInv'
  <2> SUFFICES ASSUME outcome = "ok", ~connection.isErroneous
               PROVE  Apply(Apply(written, delayer'.request), storage'.pending) = storage.cache
    BY <1>8, <1>9 DEF ReplayInv
  <2>1. Apply(written, storage.pending) = storage.cache
    BY <1>5, <1>11 DEF IInv, ReplayInv
  <2>2. Apply(written, NoRequest) = written
    BY <1>5, ApplyNothing
  <2>3. Apply(storage.cache, NoRequest) = storage.cache
    BY <1>1, ApplyNothing DEF StorageRecord
  <2> QED BY <1>8, <2>1, <2>2, <2>3
<1>15. CloseInv'
  <2>1. "close" \in Callers
    BY DEF Callers
  <2>2. ~HasChanges(NoRequest)
    BY EmptyHasNoChanges
  <2>3. CASE awaits' = a /\ storage'.pending = storage.pending /\ delayer'.request = NoRequest
    BY <1>2, <1>8, <1>9, <1>10, <2>1, <2>2, <2>3 DEF CloseInv
  <2>4. CASE /\ storage'.pending = NoRequest /\ delayer'.request = storage.pending
             /\ awaits' = Move(a, "queued", IF HasChanges(storage.pending) THEN "resumed" ELSE "done")
    <3>1. \/ a["close"] # "queued" /\ awaits'["close"] = a["close"]
          \/ a["close"] = "queued" /\ HasChanges(storage.pending) /\ awaits'["close"] = "resumed"
          \/ a["close"] = "queued" /\ ~HasChanges(storage.pending) /\ awaits'["close"] = "done"
      BY <2>1, <2>4 DEF Move
    <3> QED BY <1>2, <1>8, <1>9, <1>10, <2>1, <2>2, <2>4, <3>1 DEF CloseInv
  <2> QED BY <1>8, <2>3, <2>4
<1>16. FlushInv'
  <2> SUFFICES ASSUME NEW c \in {"flush", "close"}, NEW k \in Keys, k \in owed[c]
               PROVE  /\ awaits'[c] \in {"running", "resumed", "done"}
                            => Untouched(storage'.pending, k)
                      /\ awaits'[c] = "done" => Untouched(delayer'.request, k)
    BY <1>6 DEF FlushInv, Untouched
  <2>1. c \in Callers
    BY DEF Callers
  <2>2. Untouched(NoRequest, k)
    BY EmptyHasNoChanges
  <2>3. CASE awaits' = a /\ storage'.pending = storage.pending /\ delayer'.request = NoRequest
    BY <1>2, <2>1, <2>2, <2>3
  <2>4. CASE /\ storage'.pending = NoRequest /\ delayer'.request = storage.pending
             /\ awaits' = Move(a, "queued", IF HasChanges(storage.pending) THEN "resumed" ELSE "done")
    <3>1. awaits'[c] = "done" => a[c] = "done" \/ storage.pending = NoRequest
      BY <1>1, <2>1, <2>4, NoChangesIsEmpty DEF Move, StorageRecord
    <3> QED BY <1>2, <2>1, <2>2, <2>4, <3>1
  <2> QED BY <1>8, <2>3, <2>4
<1>17. FileInv'
  BY <1>8, <1>9, <1>10 DEF IInv, FileInv
<1> QED BY <1>12, <1>13, <1>14, <1>15, <1>16, <1>17 DEF IInv

\* optimize: VACUUM changes no item.
LEMMA VacuumStep ==
    ASSUME IInv, NEW fails \in BOOLEAN, Vacuum(fails) PROVE IInv'
<1>1. /\ awaits["flush"] = "done"
      /\ connection' = [connection EXCEPT !.isErroneous =
                           @ \/ fails \/ connection.phase # "open"]
      /\ awaits' = [awaits EXCEPT !["flush"] = "idle"]
      /\ owed' = [owed EXCEPT !["flush"] = {}]
      /\ UNCHANGED <<storage, delayer, disk>>
  BY DEF Vacuum
<1>2. budget' \in [changes : 0 .. MaxChanges, errors : 0 .. MaxErrors, ends : 0 .. MaxEnds]
  BY ChargeType DEF Vacuum, IInv
<1>3. /\ connection' \in [isInMemory : BOOLEAN, isErroneous : BOOLEAN, phase : Phases]
      /\ connection'.phase = connection.phase
      /\ connection'.isInMemory = connection.isInMemory
      /\ connection.isErroneous => connection'.isErroneous
  BY <1>1 DEF IInv, TypeOK
<1>4. Loaded
  BY <1>1 DEF IInv, FreshInv, Callers
<1>5. TypeOK'
  BY <1>1, <1>2, <1>3 DEF IInv, TypeOK, Callers, Places
<1>6. FreshInv' /\ ReplayInv'
  BY <1>1, <1>3, <1>4 DEF IInv, FreshInv, ReplayInv, Loaded, DbItems
<1>7. CloseInv' /\ FileInv'
  BY <1>1, <1>3 DEF IInv, TypeOK, CloseInv, FileInv, Callers
<1>8. FlushInv'
  BY <1>1 DEF IInv, TypeOK, FlushInv, Callers, Untouched
<1> QED BY <1>5, <1>6, <1>7, <1>8 DEF IInv

\* A step of the connection that touches neither the object nor the items of
\* the database keeps all but what is said of the files.
LEMMA ConnectionKeeps ==
    ASSUME IInv, UNCHANGED <<storage, delayer, awaits, owed>>,
           connection' \in [isInMemory : BOOLEAN, isErroneous : BOOLEAN, phase : Phases],
           disk' \in [main : Files, backup : Files, memory : Items],
           budget' \in [changes : 0 .. MaxChanges, errors : 0 .. MaxErrors,
                        ends : 0 .. MaxEnds],
           connection'.isErroneous \/ (DbItems' = DbItems /\ ~connection.isErroneous),
           connection'.phase \notin {"none", "open"} => awaits["close"] \in {"done", "failed"},
           FileInv'
    PROVE  IInv'
<1>1. TypeOK'
  BY DEF IInv, TypeOK
<1>2. FreshInv' /\ ReplayInv'
  BY DEF IInv, FreshInv, ReplayInv, Loaded
<1>3. CloseInv' /\ FlushInv'
  BY DEF IInv, CloseInv, FlushInv, Untouched
<1> QED BY <1>1, <1>2, <1>3 DEF IInv

\* doClose goes on to the connection.
LEMMA CloseDatabaseStep == ASSUME IInv, CloseDatabase PROVE IInv'
<1> USE DEF CloseDatabase
<1>1. /\ connection' \in [isInMemory : BOOLEAN, isErroneous : BOOLEAN, phase : Phases]
      /\ connection'.isErroneous = connection.isErroneous
      /\ DbItems' = DbItems
  BY DEF IInv, TypeOK, Phases, DbItems
<1>2. FileInv'
  BY DEF IInv, TypeOK, FileInv
<1> QED BY <1>1, <1>2, ConnectionKeeps DEF IInv, TypeOK

\* db.close calls back: a healthy database holds the cache by now, for nothing
\* is running or pending.
LEMMA ConnectionClosedStep ==
    ASSUME IInv, NEW fails \in BOOLEAN, ConnectionClosed(fails) PROVE IInv'
<1>1. /\ connection.phase = "closing"
      /\ connection' = [connection EXCEPT
             !.isErroneous = connection.isErroneous \/ fails,
             !.phase = IF connection.isErroneous \/ fails \/ connection.isInMemory
                       THEN "recover" ELSE "backup"]
      /\ UNCHANGED <<storage, delayer, awaits, owed, disk>>
  BY DEF ConnectionClosed
<1>2. budget' \in [changes : 0 .. MaxChanges, errors : 0 .. MaxErrors, ends : 0 .. MaxEnds]
  BY ChargeType DEF ConnectionClosed, IInv
<1>3. /\ connection' \in [isInMemory : BOOLEAN, isErroneous : BOOLEAN, phase : Phases]
      /\ connection'.isErroneous <=> (connection.isErroneous \/ fails)
      /\ connection'.isInMemory = connection.isInMemory
      /\ connection'.phase = IF connection.isErroneous \/ fails \/ connection.isInMemory
                             THEN "recover" ELSE "backup"
  BY <1>1 DEF IInv, TypeOK, Phases
<1>4. awaits["close"] \in {"done", "failed"} /\ ~delayer.active
      /\ storage.pending = NoRequest /\ storage.state = "Closed"
  BY <1>1 DEF IInv, CloseInv
<1>5. ASSUME ~connection.isErroneous, ~connection.isInMemory
      PROVE  disk.main = File(storage.cache)
  <2>1. delayer.request = NoRequest
    BY <1>4, NoChangesIsEmpty DEF IInv, TypeOK
  <2>2. Loaded
    BY <1>4 DEF IInv, FreshInv, Callers
  <2>3. Apply(Apply(DbItems, NoRequest), NoRequest) = storage.cache
    BY <1>4, <1>5, <2>1, <2>2 DEF IInv, ReplayInv
  <2>4. DbItems = storage.cache
    BY <2>3, DbItemsType, ApplyNothing DEF IInv
  <2> QED BY <1>1, <1>5, <2>4 DEF IInv, TypeOK, FileInv, Files, File, DbItems
<1>6. FileInv'
  BY <1>1, <1>3, <1>4, <1>5 DEF IInv, FileInv
<1>7. DbItems' = DbItems
  BY <1>1, <1>3 DEF DbItems
<1> QED BY <1>1, <1>2, <1>3, <1>4, <1>6, <1>7, ConnectionKeeps DEF IInv, TypeOK

\* The backup is made of a file that holds the cache.
LEMMA BackupStep ==
    ASSUME IInv, NEW copy \in {disk.main, disk.backup, CorruptFile}, Backup(copy)
    PROVE  IInv'
<1>1. /\ connection.phase = "backup"
      /\ disk' = [disk EXCEPT !.backup = copy]
      /\ connection' = [connection EXCEPT !.phase = "closed"]
      /\ UNCHANGED <<storage, delayer, awaits, owed>>
  BY DEF Backup
<1>2. budget' \in [changes : 0 .. MaxChanges, errors : 0 .. MaxErrors, ends : 0 .. MaxEnds]
  BY ChargeType DEF Backup, IInv
<1>3. /\ connection' \in [isInMemory : BOOLEAN, isErroneous : BOOLEAN, phase : Phases]
      /\ connection'.isErroneous = connection.isErroneous
      /\ connection'.isInMemory = connection.isInMemory
      /\ connection'.phase = "closed"
  BY <1>1 DEF IInv, TypeOK, Phases
<1>4. /\ disk' \in [main : Files, backup : Files, memory : Items]
      /\ disk'.main = disk.main /\ disk'.memory = disk.memory
  BY <1>1, EmptyTypes DEF IInv, TypeOK, Files, CorruptFile
<1>5. awaits["close"] \in {"done", "failed"} /\ storage.state = "Closed"
  BY <1>1 DEF IInv, CloseInv
<1>6. FileInv'
  BY <1>1, <1>3, <1>4, <1>5 DEF IInv, FileInv
<1>7. DbItems' = DbItems
  BY <1>3, <1>4 DEF DbItems
<1> QED BY <1>1, <1>2, <1>3, <1>4, <1>5, <1>6, <1>7, ConnectionKeeps

\* Recovery deletes the file of a database that has errors or is not in use.
LEMMA UnlinkStep ==
    ASSUME IInv, NEW fails \in BOOLEAN, Unlink(fails) PROVE IInv'
<1> DEFINE failed == fails \/ disk.main.kind = "missing"
<1>1. /\ connection.phase = "recover"
      /\ disk' = IF failed THEN disk ELSE [disk EXCEPT !.main = MissingFile]
      /\ connection' = [connection EXCEPT !.phase = IF failed THEN "rejected" ELSE "rewrite"]
      /\ UNCHANGED <<storage, delayer, awaits, owed>>
  BY DEF Unlink
<1>2. budget' \in [changes : 0 .. MaxChanges, errors : 0 .. MaxErrors, ends : 0 .. MaxEnds]
  BY ChargeType DEF Unlink, IInv
<1>3. /\ connection' \in [isInMemory : BOOLEAN, isErroneous : BOOLEAN, phase : Phases]
      /\ connection'.isErroneous = connection.isErroneous
      /\ connection'.isInMemory = connection.isInMemory
      /\ connection'.phase \in {"rejected", "rewrite"}
  BY <1>1 DEF IInv, TypeOK, Phases
<1>4. /\ disk' \in [main : Files, backup : Files, memory : Items]
      /\ disk'.memory = disk.memory
  BY <1>1, EmptyTypes DEF IInv, TypeOK, Files, MissingFile
<1>5. /\ awaits["close"] \in {"done", "failed"} /\ storage.state = "Closed"
      /\ connection.isErroneous \/ connection.isInMemory
  BY <1>1 DEF IInv, CloseInv, FileInv
<1>6. FileInv'
  BY <1>1, <1>3, <1>5 DEF IInv, FileInv
<1>7. connection.isInMemory => DbItems' = DbItems
  BY <1>3, <1>4 DEF DbItems
<1> QED BY <1>1, <1>2, <1>3, <1>4, <1>5, <1>6, <1>7, ConnectionKeeps

\* Recovery writes the cache into the new file, or fails.
LEMMA RewriteStep ==
    ASSUME IInv, NEW file \in {File(storage.cache), File(NoItems), MissingFile}, Rewrite(file)
    PROVE  IInv'
<1>1. PICK closeFails \in BOOLEAN :
        LET failed == closeFails \/ file # File(storage.cache)
        IN /\ Charge(failed)
           /\ connection' = [connection EXCEPT
                 !.phase = IF failed THEN "rejected" ELSE "backup"]
  BY DEF Rewrite
<1>2. /\ connection.phase = "rewrite"
      /\ disk' = [disk EXCEPT !.main = file]
      /\ UNCHANGED <<storage, delayer, awaits, owed>>
  BY DEF Rewrite
<1>3. budget' \in [changes : 0 .. MaxChanges, errors : 0 .. MaxErrors, ends : 0 .. MaxEnds]
  BY <1>1, ChargeType DEF IInv
<1>4. /\ connection' \in [isInMemory : BOOLEAN, isErroneous : BOOLEAN, phase : Phases]
      /\ connection'.isErroneous = connection.isErroneous
      /\ connection'.isInMemory = connection.isInMemory
      /\ \/ connection'.phase = "rejected"
         \/ connection'.phase = "backup" /\ file = File(storage.cache)
  BY <1>1 DEF IInv, TypeOK, Phases
<1>5. /\ disk' \in [main : Files, backup : Files, memory : Items]
      /\ disk'.memory = disk.memory /\ disk'.main = file
  BY <1>2, EmptyTypes DEF IInv, TypeOK, Files, File, MissingFile
<1>6. /\ awaits["close"] \in {"done", "failed"} /\ storage.state = "Closed"
      /\ connection.isErroneous \/ connection.isInMemory
  BY <1>2 DEF IInv, CloseInv, FileInv
<1>7. FileInv'
  BY <1>2, <1>4, <1>5, <1>6 DEF IInv, FileInv
<1>8. connection.isInMemory => DbItems' = DbItems
  BY <1>4, <1>5 DEF DbItems
<1> QED BY <1>2, <1>3, <1>4, <1>5, <1>6, <1>7, <1>8, ConnectionKeeps

\* The end of the process leaves the files and nothing else.
LEMMA GoDownStep == ASSUME IInv, GoDown PROVE IInv'
<1> USE DEF GoDown, NewStorage, NewDelayer, NoConnection
<1>1. TypeOK'
  <2>1. /\ storage' \in StorageRecord /\ delayer' \in DelayerRecord
        /\ connection' \in [isInMemory : BOOLEAN, isErroneous : BOOLEAN, phase : Phases]
    BY EmptyTypes DEF StorageRecord, DelayerRecord, States, Phases
  <2>2. disk' \in [main : Files, backup : Files, memory : Items]
    BY EmptyTypes DEF IInv, TypeOK
  <2>3. awaits' \in [Callers -> Places] /\ owed' \in [Callers -> SUBSET Keys]
    BY DEF Places
  <2>4. budget' \in [changes : 0 .. MaxChanges, errors : 0 .. MaxErrors, ends : 0 .. MaxEnds]
    BY BoundsAssumption DEF IInv, TypeOK
  <2>5. delayer'.active <=> HasChanges(delayer'.request)
    BY EmptyHasNoChanges
  <2>6. delayer'.queued => delayer'.active
    OBVIOUS
  <2> QED BY <2>1, <2>2, <2>3, <2>4, <2>5, <2>6 DEF TypeOK, StorageRecord, DelayerRecord
<1>2. FreshInv' /\ ReplayInv'
  BY DEF FreshInv, ReplayInv, Loaded, Callers
<1>3. CloseInv' /\ FlushInv' /\ FileInv'
  BY DEF CloseInv, FlushInv, FileInv, Callers
<1> QED BY <1>1, <1>2, <1>3 DEF IInv

\* The file may be damaged while nothing runs.
LEMMA CorruptStep == ASSUME IInv, Corrupt PROVE IInv'
<1>1. /\ storage.state = "Down"
      /\ disk' = [disk EXCEPT !.main = CorruptFile]
      /\ UNCHANGED <<storage, delayer, awaits, owed, connection>>
  BY DEF Corrupt
<1>2. budget' \in [changes : 0 .. MaxChanges, errors : 0 .. MaxErrors, ends : 0 .. MaxEnds]
  BY ChargeType DEF Corrupt, IInv
<1>3. TypeOK'
  BY <1>1, <1>2, EmptyTypes DEF IInv, TypeOK, Files, CorruptFile
<1>4. FreshInv' /\ ReplayInv'
  BY <1>1 DEF IInv, FreshInv, ReplayInv, Loaded
<1>5. CloseInv' /\ FlushInv' /\ FileInv'
  BY <1>1 DEF IInv, CloseInv, FlushInv, FileInv, Untouched
<1> QED BY <1>3, <1>4, <1>5 DEF IInv

\* Every step keeps the invariant.
LEMMA NextStep == IInv /\ [Next]_vars => IInv'
<1> SUFFICES ASSUME IInv, [Next]_vars PROVE IInv'
  OBVIOUS
<1>1. CASE OpenFile
  BY <1>1, OpenFileStep
<1>2. CASE \E unlinked, renamed, reopens \in BOOLEAN : OpenFallback(unlinked, renamed, reopens)
  BY <1>2, OpenFallbackStep
<1>3. CASE \E hint \in BOOLEAN : InitStorage(hint)
  BY <1>3, InitStorageStep
<1>4. CASE \E fails \in BOOLEAN : GetItems(fails)
  BY <1>4, GetItemsStep
<1>5. CASE \E k \in Keys, v \in Values \cup {NoValue} : Change(k, v)
  BY <1>5, ChangeStep
<1>6. CASE Flush
  BY <1>6, FlushStep
<1>7. CASE WhenFlushed
  BY <1>7, WhenFlushedStep
<1>8. CASE Close
  BY <1>8, CloseStep
<1>9. CASE \E c \in {"flush", "whenFlushed"} : Return(c)
  BY <1>9, ReturnStep
<1>10. CASE TimerFires
  BY <1>10, TimerFiresStep
<1>11. CASE \E outcome \in Outcomes : UpdateDone(outcome)
  BY <1>11, UpdateDoneStep
<1>12. CASE \E fails \in BOOLEAN : Vacuum(fails)
  BY <1>12, VacuumStep
<1>13. CASE CloseDatabase
  BY <1>13, CloseDatabaseStep
<1>14. CASE \E fails \in BOOLEAN : ConnectionClosed(fails)
  BY <1>14, ConnectionClosedStep
<1>15. CASE \E copy \in {disk.main, disk.backup, CorruptFile} : Backup(copy)
  BY <1>15, BackupStep
<1>16. CASE \E fails \in BOOLEAN : Unlink(fails)
  BY <1>16, UnlinkStep
<1>17. CASE \E file \in {File(storage.cache), File(NoItems), MissingFile} : Rewrite(file)
  BY <1>17, RewriteStep
<1>18. CASE Exit \/ Crash
  BY <1>18, GoDownStep DEF Exit, Crash
<1>19. CASE Corrupt
  BY <1>19, CorruptStep
<1>20. CASE UNCHANGED vars
  <2>1. TypeOK' /\ FreshInv'
    BY <1>20 DEF vars, IInv, TypeOK, FreshInv, Loaded
  <2>2. ReplayInv' /\ CloseInv'
    BY <1>20 DEF vars, IInv, ReplayInv, CloseInv, Loaded, DbItems
  <2>3. FlushInv' /\ FileInv'
    BY <1>20 DEF vars, IInv, FlushInv, FileInv, Untouched
  <2> QED BY <2>1, <2>2, <2>3 DEF IInv
<1> QED
  BY <1>1, <1>2, <1>3, <1>4, <1>5, <1>6, <1>7, <1>8, <1>9, <1>10, <1>11, <1>12,
     <1>13, <1>14, <1>15, <1>16, <1>17, <1>18, <1>19, <1>20 DEF Next

\* The invariant holds in every behaviour.
LEMMA InvariantHolds == Spec => []IInv
BY InitStep, NextStep, PTL DEF Spec

-----------------------------------------------------------------------------
(* The theorems *)

\* Every variable keeps its type, and the throttler holds a request exactly
\* while an update runs, for any keys, values and number of failures and ends.
THEOREM StorageTypeCorrect == Spec => []TypeOK
<1>1. IInv => TypeOK
  BY DEF IInv
<1> QED BY <1>1, InvariantHolds, PTL

\* As long as no statement has failed, database, running update and pending
\* changes add up to the cache (set, delete, flushPending, Throttler).
THEOREM ReplayCorrect == Spec => []ReplayGivesCache
<1>1. IInv => ReplayGivesCache
  BY DEF IInv, ReplayInv, ReplayGivesCache
<1> QED BY <1>1, InvariantHolds, PTL

\* A close that is resolved leaves the cache in the database file, whatever
\* failed before (doClose of SQLiteStorageDatabase).
THEOREM CloseCorrect == Spec => []CloseIsDurable
<1>1. IInv => CloseIsDurable
  BY DEF IInv, FileInv, CloseIsDurable
<1> QED BY <1>1, InvariantHolds, PTL

\* What was not changed since the call of flush, or of close, is in the
\* database when its promise is resolved (Storage.flush, doClose).
THEOREM FlushCorrect == Spec => []FlushedIsStored
<1>1. ASSUME IInv PROVE FlushedIsStored
  <2> SUFFICES ASSUME NEW c \in {"flush", "close"}, NEW k \in Keys,
                      awaits[c] = "done", k \in owed[c], ~connection.isErroneous
               PROVE  DbItems[k] = storage.cache[k]
    BY DEF FlushedIsStored
  <2>1. Untouched(storage.pending, k) /\ Untouched(delayer.request, k)
    BY <1>1 DEF IInv, FlushInv
  <2>2. Loaded
    BY <1>1 DEF IInv, FreshInv, Callers
  <2>3. Apply(Apply(DbItems, delayer.request), storage.pending) = storage.cache
    BY <1>1, <2>2 DEF IInv, ReplayInv
  <2>4. /\ DbItems \in Items /\ delayer.request \in Requests /\ storage.pending \in Requests
        /\ Apply(DbItems, delayer.request) \in Items
    BY <1>1, DbItemsType, ApplyType DEF IInv, TypeOK
  <2> QED BY <2>1, <2>3, <2>4, ApplyUntouched
<1> QED BY <1>1, InvariantHolds, PTL

=============================================================================
