--------------------------- MODULE SharedStorage ---------------------------
(***************************************************************************)
(* Application and profile storage: one Storage object in the main process *)
(* and one in every window, whose database is the main process.            *)
(*                                                                         *)
(*   - main: the cache of the storage of the main process (its way to disk *)
(*     is module Storage);                                                 *)
(*   - changed: the keys whose change events StorageDatabaseChannel is     *)
(*     collecting until its debounce timer fires                           *)
(*     (platform/storage/electron-main/storageIpc.ts);                     *)
(*   - win: the Storage object of each window, with the timer and the      *)
(*     throttler of its ThrottledDelayer;                                  *)
(*   - toMain, toWindow: the two directions of the storage channel of a    *)
(*     window, in order and without loss (Electron IPC).                   *)
(***************************************************************************)
EXTENDS StorageCache, Sequences, SequencesExt

CONSTANTS
    Windows,        \* the windows that are opened during the session
    MaxChanges      \* calls of set and delete that change something

ASSUME BoundsAssumption == MaxChanges \in Nat

VARIABLES main, changed, win, subscribed, toMain, toWindow, changes

vars == <<main, changed, win, subscribed, toMain, toWindow, changes>>

-----------------------------------------------------------------------------
(* State *)

\* "unopened": the window does not exist yet; "loading": init awaits getItems;
\* "closing": close awaits its flush; "crashed": the window is gone with
\* whatever it had not sent
WindowStates == {"unopened", "loading", "open", "closing", "closed", "crashed"}

NewWindow == [state |-> "unopened", cache |-> NoItems, pending |-> NoRequest,
              deferred |-> FALSE, active |-> FALSE, queued |-> FALSE,
              closeAwaits |-> "none"]

\* Messages of the channel.  A change event lists the changed keys with their
\* values, NoValue for the deleted ones
Listen == [type |-> "listen"]
GetItems == [type |-> "getItems"]
UpdateItems(r) == [type |-> "updateItems", request |-> r]
ItemsReply(items) == [type |-> "items", items |-> items]
UpdatedReply == [type |-> "updated"]
ChangeEvent(keys, items) ==
    [type |-> "change", keys |-> keys,
     items |-> [k \in Keys |-> IF k \in keys THEN items[k] ELSE NoValue]]

Init ==
    /\ main \in Items
    /\ changed = {}
    /\ win = [w \in Windows |-> NewWindow]
    /\ subscribed = {}
    /\ toMain = [w \in Windows |-> <<>>]
    /\ toWindow = [w \in Windows |-> <<>>]
    /\ changes = MaxChanges

Alive(w) == win[w].state \in {"loading", "open", "closing"}

-----------------------------------------------------------------------------
(* The main process *)

\* MUTANT: only deletions are announced.
MainStoreQuiet(items) ==
    /\ main' = items
    /\ changed' = changed \cup {k \in Keys : items[k] # main[k] /\ items[k] = NoValue}

\* StorageMain.set, delete: a change that changes something fires an event
MainStore(items) ==
    /\ main' = items
    /\ changed' = changed \cup {k \in Keys : items[k] # main[k]}

\* A change made by the main process itself
MainChange(k, v) ==
    /\ changes > 0
    /\ v # main[k]
    /\ MainStore([main EXCEPT ![k] = v])
    /\ changes' = changes - 1
    /\ UNCHANGED <<win, subscribed, toMain, toWindow>>

\* The debounce timer: all listeners are sent the values of this moment, the
\* window a change came from included
Broadcast ==
    /\ changed # {}
    /\ toWindow' = [w \in Windows |->
                       IF w \in subscribed /\ Alive(w)
                       THEN Append(toWindow[w], ChangeEvent(changed, main))
                       ELSE toWindow[w]]
    /\ changed' = {}
    /\ UNCHANGED <<main, win, subscribed, toMain, changes>>

Take(w, type) ==
    /\ toMain[w] # <<>>
    /\ Head(toMain[w]).type = type
    /\ toMain' = [toMain EXCEPT ![w] = Tail(@)]

\* MUTANT: updates are not answered.
ReplyNoUpdated(w, m) ==
    toWindow' = [toWindow EXCEPT ![w] = IF Alive(w) /\ m # UpdatedReply
                                        THEN Append(@, m) ELSE @]

Reply(w, m) == toWindow' = [toWindow EXCEPT ![w] = IF Alive(w) THEN Append(@, m) ELSE @]

\* StorageDatabaseChannel.listen
HandleListen(w) ==
    /\ Take(w, "listen")
    /\ subscribed' = subscribed \cup {w}
    /\ UNCHANGED <<main, changed, win, toWindow, changes>>

\* call('getItems')
HandleGetItems(w) ==
    /\ Take(w, "getItems")
    /\ Reply(w, ItemsReply(main))
    /\ UNCHANGED <<main, changed, win, subscribed, changes>>

\* call('updateItems'): each item is set or deleted in the storage, the reply
\* does not wait for the disk
HandleUpdateItems(w) ==
    /\ Take(w, "updateItems")
    /\ MainStore(Apply(main, Head(toMain[w]).request))
    /\ Reply(w, UpdatedReply)
    /\ UNCHANGED <<win, subscribed, changes>>

-----------------------------------------------------------------------------
(* A window *)

\* The database client starts listening as it is constructed, then init
OpenWindow(w) ==
    /\ win[w].state = "unopened"
    /\ win' = [win EXCEPT ![w].state = "loading"]
    /\ toMain' = [toMain EXCEPT ![w] = <<Listen, GetItems>>]
    /\ UNCHANGED <<main, changed, subscribed, toWindow, changes>>

\* set and delete; the timer of the delayer is armed
WindowChange(w, k, v) ==
    /\ win[w].state = "open"
    /\ changes > 0
    /\ Store(win[w], k, v) # win[w]
    /\ win' = [win EXCEPT ![w] = [Store(win[w], k, v) EXCEPT !.deferred = TRUE]]
    /\ changes' = changes - 1
    /\ UNCHANGED <<main, changed, subscribed, toMain, toWindow>>

\* flushPending: the pending changes are sent to the main process; there may
\* be none.  forClose: the promise of this run is the one close awaits
FlushPending(w, o, forClose) ==
    IF HasChanges(o.pending)
    THEN /\ win' = [win EXCEPT ![w] =
              [o EXCEPT !.pending = NoRequest, !.active = TRUE,
                        !.closeAwaits = IF forClose THEN "running" ELSE @]]
         /\ toMain' = [toMain EXCEPT ![w] = Append(@, UpdateItems(o.pending))]
    ELSE /\ win' = [win EXCEPT ![w] =
              [o EXCEPT !.closeAwaits = IF forClose THEN "done" ELSE @]]
         /\ UNCHANGED toMain

\* MUTANT: close goes on with the update that is running.
WindowTimerEarly(w) ==
    /\ Alive(w)
    /\ win[w].deferred
    /\ LET o == [win[w] EXCEPT !.deferred = FALSE]
           closing == o.closeAwaits = "timer"
       IN IF o.active
          THEN /\ win' = [win EXCEPT ![w] =
                    [o EXCEPT !.queued = TRUE,
                              !.closeAwaits = IF closing THEN "running" ELSE @]]
               /\ UNCHANGED toMain
          ELSE FlushPending(w, o, closing)
    /\ UNCHANGED <<main, changed, subscribed, toWindow, changes>>

\* The timer fires: the task runs now, or once more after the running update
WindowTimer(w) ==
    /\ Alive(w)
    /\ win[w].deferred
    /\ LET o == [win[w] EXCEPT !.deferred = FALSE]
           closing == o.closeAwaits = "timer"
       IN IF o.active
          THEN /\ win' = [win EXCEPT ![w] =
                    [o EXCEPT !.queued = TRUE,
                              !.closeAwaits = IF closing THEN "queued" ELSE @]]
               /\ UNCHANGED toMain
          ELSE FlushPending(w, o, closing)
    /\ UNCHANGED <<main, changed, subscribed, toWindow, changes>>

Receive(w, type) ==
    /\ Alive(w)
    /\ toWindow[w] # <<>>
    /\ Head(toWindow[w]).type = type
    /\ toWindow' = [toWindow EXCEPT ![w] = Tail(@)]

\* init goes on: the cache is what the main process answered
ReceiveItems(w) ==
    /\ Receive(w, "items")
    /\ win' = [win EXCEPT ![w].cache = Head(toWindow[w]).items,
                          ![w].state = "open"]
    /\ UNCHANGED <<main, changed, subscribed, toMain, changes>>

\* MUTANT: the queued run is forgotten.
ReceiveUpdatedAlone(w) ==
    /\ Receive(w, "updated")
    /\ win' = [win EXCEPT ![w].active = FALSE, ![w].queued = FALSE,
                          ![w].closeAwaits = IF @ = "running" THEN "done" ELSE @]
    /\ UNCHANGED <<main, changed, subscribed, toMain, changes>>

\* The update is over; a queued run follows
ReceiveUpdated(w) ==
    /\ Receive(w, "updated")
    /\ LET o == [win[w] EXCEPT !.active = FALSE, !.queued = FALSE,
                    !.closeAwaits = IF @ = "running" THEN "done" ELSE @]
       IN IF win[w].queued
          THEN FlushPending(w, o, o.closeAwaits = "queued")
          ELSE /\ win' = [win EXCEPT ![w] = o]
               /\ UNCHANGED toMain
    /\ UNCHANGED <<main, changed, subscribed, changes>>

\* MUTANT: deletions are not taken over.
ReceiveChangeNoDelete(w) ==
    /\ Receive(w, "change")
    /\ LET e == Head(toWindow[w])
       IN win' = [win EXCEPT ![w].cache =
                     IF win[w].state = "closing" THEN @
                     ELSE [k \in Keys |-> IF e.items[k] # NoValue THEN e.items[k] ELSE @[k]]]
    /\ UNCHANGED <<main, changed, subscribed, toMain, changes>>

\* acceptExternal for every key of the event, unless the storage is closed.
\* Pending changes of these keys stay pending
ReceiveChange(w) ==
    /\ Receive(w, "change")
    /\ LET e == Head(toWindow[w])
       IN win' = [win EXCEPT ![w].cache =
                     IF win[w].state = "closing" THEN @
                     ELSE [k \in Keys |-> IF k \in e.keys THEN e.items[k] ELSE @[k]]]
    /\ UNCHANGED <<main, changed, subscribed, toMain, changes>>

\* close: nothing is accepted from here on, and a last flush is under way
CloseWindow(w) ==
    /\ win[w].state = "open"
    /\ win' = [win EXCEPT ![w].state = "closing", ![w].deferred = TRUE,
                          ![w].closeAwaits = "timer"]
    /\ UNCHANGED <<main, changed, subscribed, toMain, toWindow, changes>>

Vanish(w, state) ==
    /\ win' = [win EXCEPT ![w].state = state]
    /\ subscribed' = subscribed \ {w}
    /\ toWindow' = [toWindow EXCEPT ![w] = <<>>]
    /\ UNCHANGED <<main, changed, toMain, changes>>

\* The flush is over: the client of the database is disposed
WindowClosed(w) ==
    /\ win[w].state = "closing"
    /\ win[w].closeAwaits = "done"
    /\ Vanish(w, "closed")

\* The window ends without close
WindowCrashes(w) ==
    /\ Alive(w)
    /\ Vanish(w, "crashed")

-----------------------------------------------------------------------------
(* Specification *)

Next ==
    \/ Broadcast
    \/ \E k \in Keys, v \in Values \cup {NoValue} : MainChange(k, v)
    \/ \E w \in Windows :
        \/ HandleListen(w)
        \/ HandleGetItems(w)
        \/ HandleUpdateItems(w)
        \/ OpenWindow(w)
        \/ \E k \in Keys, v \in Values \cup {NoValue} : WindowChange(w, k, v)
        \/ WindowTimer(w)
        \/ ReceiveItems(w)
        \/ ReceiveUpdated(w)
        \/ ReceiveChange(w)
        \/ CloseWindow(w)
        \/ WindowClosed(w)
        \/ WindowCrashes(w)

Spec == Init /\ [][Next]_vars

\* Timers fire and messages are handled; nothing is assumed of the callers,
\* of windows being opened or closed, or of crashes
Fairness ==
    /\ WF_vars(Broadcast)
    /\ \A w \in Windows :
        /\ WF_vars(HandleListen(w) \/ HandleGetItems(w) \/ HandleUpdateItems(w))
        /\ WF_vars(ReceiveItems(w) \/ ReceiveUpdated(w) \/ ReceiveChange(w))
        /\ WF_vars(WindowTimer(w))
        /\ WF_vars(WindowClosed(w))

LiveSpec == Spec /\ Fairness

-----------------------------------------------------------------------------
(* Properties *)

ToMainMessages == {Listen, GetItems} \cup {UpdateItems(r) : r \in Requests}

ToWindowMessages == {UpdatedReply} \cup {ItemsReply(i) : i \in Items}
                    \cup {ChangeEvent(ks, i) : ks \in SUBSET Keys, i \in Items}

\* Every variable has its type; an update that the throttler of a window waits
\* for is on its way to the main process or its reply is on its way back.
TypeOK ==
    /\ main \in Items
    /\ changed \subseteq Keys
    /\ win \in [Windows -> [state : WindowStates, cache : Items,
                            pending : Requests, deferred : BOOLEAN,
                            active : BOOLEAN, queued : BOOLEAN,
                            closeAwaits : {"none", "timer", "running", "queued", "done"}]]
    /\ subscribed \subseteq Windows
    /\ toMain \in [Windows -> Seq(ToMainMessages)]
    /\ toWindow \in [Windows -> Seq(ToWindowMessages)]
    /\ changes \in 0 .. MaxChanges
    /\ \A w \in Windows : Alive(w) /\ win[w].active =>
          \/ \E m \in ToSet(toMain[w]) : m.type = "updateItems"
          \/ UpdatedReply \in ToSet(toWindow[w])

\* The keys a request touches
Touched(r) == {k \in Keys : r.insert[k] # NoValue} \cup r.delete

\* The keys of w on their way to the main process, and to w
Outgoing(w) ==
    Touched(win[w].pending)
    \cup UNION {Touched(m.request) :
                  m \in {n \in ToSet(toMain[w]) : n.type = "updateItems"}}

Incoming(w) ==
    UNION {m.keys : m \in {n \in ToSet(toWindow[w]) : n.type = "change"}}

\* A window's cache differs from the cache of the main process only in keys
\* that are still under way: changed by the window and not yet applied, or
\* changed elsewhere and not yet announced or not yet received (set, delete,
\* acceptExternal, updateItems and the debounced change events together).
CachesAgree ==
    \A w \in Windows, k \in Keys :
        win[w].state = "open" /\ k \notin changed \cup Outgoing(w) \cup Incoming(w)
        => win[w].cache[k] = main[k]

\* A window that was closed has handed over everything: no change of it is
\* left in the window or on the way (Storage.close waits for a flush of its
\* own also when an update is running already).
CloseDelivers ==
    \A w \in Windows : win[w].state = "closed" => Outgoing(w) = {}

\* Once the changes cease all open windows and the main process come to hold
\* the same items, and stay so.
CachesConverge ==
    <>[](changes = 0) => <>[](\A w \in Windows :
                                 win[w].state = "open" => win[w].cache = main)

\* close of a window's storage returns unless the window crashes.
CloseReturns ==
    \A w \in Windows : win[w].state = "closing" ~> win[w].state # "closing"

=============================================================================
