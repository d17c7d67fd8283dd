------------------------- MODULE SharedStorageProofs -------------------------
(***************************************************************************)
(* The theorems about SharedStorage: the shape of the state; that the      *)
(* cache of a window differs from that of the main process only in keys    *)
(* that are under way; and that a window that was closed has handed over   *)
(* its changes.                                                            *)
(*                                                                         *)
(* The invariant is stated for one window o with the messages out on their *)
(* way to the main process and in on their way to the window, since most   *)
(* steps concern one window only.                                          *)
(***************************************************************************)
EXTENDS SharedStorage, TLAPS

\* How often a type of message is on the way.
Without(s, type) == \A i \in DOMAIN s : s[i].type # type

Once(s, type) ==
    \E i \in DOMAIN s : /\ s[i].type = type
                        /\ \A j \in DOMAIN s : s[j].type = type => j = i

\* A window that has not been loaded has done nothing but listen; the items it
\* has asked for come once.
Loads(o, out, in, listens) ==
    /\ o.state = "unopened" => o = NewWindow /\ out = <<>> /\ ~listens
    /\ o.state = "loading" =>
          /\ o.pending = NoRequest /\ o.closeAwaits = "none"
          /\ ~o.deferred /\ ~o.active /\ ~o.queued
          /\ Without(in, "updated")
          /\ \/ out = <<Listen, GetItems>> /\ in = <<>> /\ ~listens
             \/ out = <<GetItems>> /\ listens /\ Without(in, "items")
             \/ out = <<>> /\ listens /\ Once(in, "items")
    /\ o.state \in {"open", "closing"} => listens /\ Without(in, "items")
    /\ o.state \in {"unopened", "closed", "crashed"} => in = <<>>

\* An update of a window is on the way to the main process, or answered, or
\* there is none: never two.
Updates(o, out, in) ==
    o.state \in {"open", "closing"} =>
        /\ o.queued => o.active
        /\ \/ ~o.active /\ out = <<>> /\ Without(in, "updated")
           \/ /\ o.active /\ Without(in, "updated")
              /\ \E r \in Requests : out = <<UpdateItems(r)>>
           \/ o.active /\ out = <<>> /\ Once(in, "updated")

\* Where the promise of close stands says what is left to be sent.
Closes(o, out) ==
    /\ o.state = "open" => o.closeAwaits = "none"
    /\ o.state = "closing" =>
          \/ o.closeAwaits = "timer" /\ o.deferred
          \/ o.closeAwaits = "queued" /\ ~o.deferred /\ o.queued /\ o.active
          \/ /\ o.closeAwaits = "running" /\ ~o.deferred
             /\ ~o.queued /\ o.active /\ o.pending = NoRequest
          \/ /\ o.closeAwaits = "done" /\ ~o.deferred
             /\ ~o.active /\ o.pending = NoRequest
    /\ o.state = "closed" => o.pending = NoRequest /\ out = <<>>

WindowInv ==
    \A w \in Windows :
        /\ Loads(win[w], toMain[w], toWindow[w], w \in subscribed)
        /\ Updates(win[w], toMain[w], toWindow[w])
        /\ Closes(win[w], toMain[w])

\* The messages that give a key a value in the window
Carries(m, k) == m.type = "items" \/ (m.type = "change" /\ k \in m.keys)

NoneCarries(in, k) == \A i \in DOMAIN in : ~Carries(in[i], k)

\* The last message about a key carries the value v.
Announced(in, k, v) ==
    \A i \in DOMAIN in :
        Carries(in[i], k) /\ (\A j \in DOMAIN in : j > i => ~Carries(in[j], k))
        => in[i].items[k] = v

\* What a request makes of a key that it touches
Written(r, k) == IF k \in r.delete THEN NoValue ELSE r.insert[k]

\* The latest change that the window has made and the main process has not
\* seen is the value in the cache.
OwnChange(o, out, k) ==
    \/ k \in Touched(o.pending) /\ o.cache[k] = Written(o.pending, k)
    \/ /\ k \notin Touched(o.pending)
       /\ \E r \in Requests : /\ out = <<UpdateItems(r)>>
                              /\ k \in Touched(r)
                              /\ o.cache[k] = Written(r, k)

\* Without such a message an open window has the value v, or a change of its
\* own for it.
Holds(o, out, in, k, v) ==
    o.state = "open" /\ NoneCarries(in, k) => o.cache[k] = v \/ OwnChange(o, out, k)

\* Of every key that is not waiting to be announced the windows have heard, or
\* will hear last, the value of the main process.
AgreeInv ==
    \A w \in Windows, k \in Keys : k \notin changed =>
        /\ Announced(toWindow[w], k, main[k])
        /\ Holds(win[w], toMain[w], toWindow[w], k, main[k])

IInv == TypeOK /\ WindowInv /\ AgreeInv

-----------------------------------------------------------------------------
(* Sequences of messages *)

\* What Append makes of a sequence.
LEMMA AppendFacts ==
    ASSUME NEW S, NEW s \in Seq(S), NEW m \in S
    PROVE  /\ Append(s, m) \in Seq(S)
           /\ DOMAIN Append(s, m) = DOMAIN s \cup {Len(s) + 1}
           /\ \A i \in DOMAIN s : Append(s, m)[i] = s[i] /\ i < Len(s) + 1
           /\ Append(s, m)[Len(s) + 1] = m
           /\ Len(s) + 1 \notin DOMAIN s
           /\ \A i \in DOMAIN s : i \in Nat
           /\ Len(s) \in Nat
OBVIOUS

\* What Tail makes of a sequence.
LEMMA TailFacts ==
    ASSUME NEW S, NEW s \in Seq(S), s # <<>>
    PROVE  /\ Tail(s) \in Seq(S) /\ Head(s) \in S /\ Head(s) = s[1] /\ 1 \in DOMAIN s
           /\ \A i \in DOMAIN Tail(s) : i \in Nat /\ i + 1 \in DOMAIN s
                                        /\ Tail(s)[i] = s[i + 1] /\ i + 1 # 1
           /\ \A i \in DOMAIN s : i # 1 => i - 1 \in DOMAIN Tail(s) /\ Tail(s)[i - 1] = s[i]
           /\ \A i \in DOMAIN s : i \in Nat
OBVIOUS

\* A message of another type does not count.
LEMMA AppendOtherType ==
    ASSUME NEW S, NEW s \in Seq(S), NEW m \in S, NEW type, m.type # type
    PROVE  /\ Without(s, type) => Without(Append(s, m), type)
           /\ Once(s, type) => Once(Append(s, m), type)
BY AppendFacts DEF Without, Once

\* A message of the type is the only one if there was none.
LEMMA AppendOnce ==
    ASSUME NEW S, NEW s \in Seq(S), NEW m \in S, Without(s, m.type)
    PROVE  Once(Append(s, m), m.type)
BY AppendFacts DEF Without, Once

\* What the first message was counts no more.
LEMMA TailCount ==
    ASSUME NEW S, NEW s \in Seq(S), s # <<>>, NEW type
    PROVE  /\ Without(s, type) => Without(Tail(s), type) /\ Head(s).type # type
           /\ Once(s, type) /\ Head(s).type = type => Without(Tail(s), type)
           /\ Once(s, type) /\ Head(s).type # type => Once(Tail(s), type)
<1>1. Without(s, type) => Without(Tail(s), type) /\ Head(s).type # type
  BY TailFacts DEF Without
<1>2. ASSUME Once(s, type), Head(s).type = type
      PROVE  Without(Tail(s), type)
  BY <1>2, TailFacts DEF Without, Once
<1>3. ASSUME Once(s, type), Head(s).type # type
      PROVE  Once(Tail(s), type)
  <2>1. PICK i \in DOMAIN s : s[i].type = type /\ \A j \in DOMAIN s : s[j].type = type => j = i
    BY <1>3 DEF Once
  <2>2. i # 1 /\ i - 1 \in DOMAIN Tail(s) /\ Tail(s)[i - 1].type = type
    BY <1>3, <2>1, TailFacts
  <2>3. ASSUME NEW j \in DOMAIN Tail(s), Tail(s)[j].type = type
        PROVE  j = i - 1
    <3>1. j + 1 = i /\ j \in Nat /\ i \in Nat
      BY <2>1, <2>3, TailFacts
    <3> QED BY <3>1
  <2> QED BY <2>2, <2>3 DEF Once
<1> QED BY <1>1, <1>2, <1>3

\* A message about the key is the last one.
LEMMA AppendCarrier ==
    ASSUME NEW S, NEW s \in Seq(S), NEW m \in S, NEW k, NEW v,
           Carries(m, k), m.items[k] = v
    PROVE  Announced(Append(s, m), k, v) /\ ~NoneCarries(Append(s, m), k)
<1>1. Announced(Append(s, m), k, v)
  BY AppendFacts DEF Announced
<1>2. ~NoneCarries(Append(s, m), k)
  BY AppendFacts DEF NoneCarries
<1> QED BY <1>1, <1>2

\* A message that is not about the key changes nothing for it.
LEMMA AppendOther ==
    ASSUME NEW S, NEW s \in Seq(S), NEW m \in S, NEW k, NEW v, ~Carries(m, k)
    PROVE  /\ Announced(s, k, v) => Announced(Append(s, m), k, v)
           /\ NoneCarries(Append(s, m), k) => NoneCarries(s, k)
<1>1. Announced(s, k, v) => Announced(Append(s, m), k, v)
  BY AppendFacts DEF Announced
<1>2. NoneCarries(Append(s, m), k) => NoneCarries(s, k)
  BY AppendFacts DEF NoneCarries
<1> QED BY <1>1, <1>2

\* The first message is received: it was the last about the key, or another
\* one is on the way, or it was not about the key.
LEMMA TailAnnounced ==
    ASSUME NEW S, NEW s \in Seq(S), s # <<>>, NEW k, NEW v, Announced(s, k, v)
    PROVE  /\ Announced(Tail(s), k, v)
           /\ NoneCarries(Tail(s), k) /\ Carries(Head(s), k) => Head(s).items[k] = v
           /\ NoneCarries(Tail(s), k) /\ ~Carries(Head(s), k) => NoneCarries(s, k)
<1>1. Announced(Tail(s), k, v)
  <2> SUFFICES ASSUME NEW i \in DOMAIN Tail(s), Carries(Tail(s)[i], k),
                      \A j \in DOMAIN Tail(s) : j > i => ~Carries(Tail(s)[j], k)
               PROVE  Tail(s)[i].items[k] = v
    BY DEF Announced
  <2>1. i + 1 \in DOMAIN s /\ Carries(s[i + 1], k) /\ i \in Nat
    BY TailFacts
  <2>2. ASSUME NEW j \in DOMAIN s, j > i + 1
        PROVE  ~Carries(s[j], k)
    <3>1. j \in Nat /\ j # 1 /\ j - 1 \in DOMAIN Tail(s) /\ Tail(s)[j - 1] = s[j]
      BY <2>1, <2>2, TailFacts
    <3>2. j - 1 > i
      BY <2>1, <2>2, <3>1
    <3> QED BY <3>1, <3>2
  <2> QED BY <2>1, <2>2, TailFacts DEF Announced
<1>2. ASSUME NoneCarries(Tail(s), k), Carries(Head(s), k)
      PROVE  Head(s).items[k] = v
  <2>1. \A j \in DOMAIN s : j > 1 => ~Carries(s[j], k)
    <3> SUFFICES ASSUME NEW j \in DOMAIN s, j > 1
                 PROVE  ~Carries(s[j], k)
      OBVIOUS
    <3>1. j # 1
      BY TailFacts
    <3>2. j - 1 \in DOMAIN Tail(s) /\ Tail(s)[j - 1] = s[j]
      BY <3>1, TailFacts
    <3> QED BY <1>2, <3>2 DEF NoneCarries
  <2> QED BY <1>2, <2>1, TailFacts DEF Announced
<1>3. ASSUME NoneCarries(Tail(s), k), ~Carries(Head(s), k)
      PROVE  NoneCarries(s, k)
  <2>1. \A j \in DOMAIN s : j = 1 \/ (j - 1 \in DOMAIN Tail(s) /\ Tail(s)[j - 1] = s[j])
    BY TailFacts
  <2>2. s[1] = Head(s)
    BY TailFacts
  <2> QED BY <1>3, <2>1, <2>2 DEF NoneCarries
<1> QED BY <1>1, <1>2, <1>3

-----------------------------------------------------------------------------
(* The data *)

WindowRecord == [state : WindowStates, cache : Items, pending : Requests,
                 deferred : BOOLEAN, active : BOOLEAN, queued : BOOLEAN,
                 closeAwaits : {"none", "timer", "running", "queued", "done"}]

\* Nothing to be changed is the empty request.
LEMMA EmptyRequest ==
    /\ NoItems \in Items /\ NoRequest \in Requests
    /\ Touched(NoRequest) = {}
    /\ \A r \in Requests : ~HasChanges(r) => r = NoRequest
<1>1. NoItems \in Items
  BY DEF NoItems, Items
<1>2. NoRequest \in Requests
  BY <1>1 DEF NoRequest, Requests
<1>3. Touched(NoRequest) = {}
  BY DEF Touched, NoRequest, NoItems
<1>4. \A r \in Requests : ~HasChanges(r) => r = NoRequest
  BY DEF HasChanges, Requests, NoRequest
<1> QED BY <1>1, <1>2, <1>3, <1>4

\* An update request gives the keys it touches the value it has for them.
LEMMA ApplyEffect ==
    ASSUME NEW i \in Items, NEW r \in Requests
    PROVE  /\ Apply(i, r) \in Items
           /\ \A k \in Keys : Apply(i, r)[k] = IF k \in Touched(r) THEN Written(r, k) ELSE i[k]
BY DEF Apply, Touched, Written, Items, Requests

\* set and delete put one value into the cache and among what is pending.
LEMMA StoreEffect ==
    ASSUME NEW o \in WindowRecord, NEW k \in Keys, NEW v \in Values \cup {NoValue},
           Store(o, k, v) # o
    PROVE  LET p == Store(o, k, v)
           IN /\ p \in WindowRecord /\ p.state = o.state
              /\ p.active = o.active /\ p.queued = o.queued
              /\ p.closeAwaits = o.closeAwaits
              /\ k \in Touched(p.pending) /\ p.cache[k] = Written(p.pending, k)
              /\ \A l \in Keys \ {k} :
                    /\ p.cache[l] = o.cache[l]
                    /\ l \in Touched(p.pending) <=> l \in Touched(o.pending)
                    /\ Written(p.pending, l) = Written(o.pending, l)
<1>1. ASSUME NEW p \in WindowRecord, p.cache = [o.cache EXCEPT ![k] = v],
             p.pending.insert = [o.pending.insert EXCEPT ![k] = v],
             p.pending.delete \ {k} = o.pending.delete \ {k},
             (k \in p.pending.delete) <=> (v = NoValue)
      PROVE  /\ k \in Touched(p.pending) /\ p.cache[k] = Written(p.pending, k)
             /\ \A l \in Keys \ {k} :
                    /\ p.cache[l] = o.cache[l]
                    /\ l \in Touched(p.pending) <=> l \in Touched(o.pending)
                    /\ Written(p.pending, l) = Written(o.pending, l)
  <2>1. o.cache \in Items /\ o.pending.insert \in Items
    BY DEF WindowRecord, Requests
  <2>2. /\ p.cache[k] = v /\ p.pending.insert[k] = v
        /\ \A l \in Keys \ {k} : /\ p.cache[l] = o.cache[l]
                                /\ p.pending.insert[l] = o.pending.insert[l]
    BY <1>1, <2>1 DEF Items
  <2>3. \A l \in Keys \ {k} : l \in p.pending.delete <=> l \in o.pending.delete
    BY <1>1
  <2>4. k \in Touched(p.pending) /\ p.cache[k] = Written(p.pending, k)
    BY <1>1, <2>2 DEF Touched, Written
  <2> QED BY <2>2, <2>3, <2>4 DEF Touched, Written
<1>2. CASE v = NoValue
  <2> DEFINE t == [o EXCEPT !.cache[k] = NoValue,
                            !.pending.insert[k] = NoValue,
                            !.pending.delete = @ \cup {k}]
  <2>1. Store(o, k, v) = t
    BY <1>2 DEF Store, DeleteItem
  <2>2. /\ t \in WindowRecord /\ t.state = o.state
        /\ t.active = o.active /\ t.queued = o.queued /\ t.closeAwaits = o.closeAwaits
        /\ t.cache = [o.cache EXCEPT ![k] = NoValue]
        /\ t.pending.insert = [o.pending.insert EXCEPT ![k] = NoValue]
        /\ t.pending.delete = o.pending.delete \cup {k}
    BY DEF WindowRecord, Items, Requests
  <2> HIDE DEF t
  <2> QED BY <1>1, <1>2, <2>1, <2>2
<1>3. CASE v # NoValue
  <2> DEFINE t == [o EXCEPT !.cache[k] = v,
                            !.pending.insert[k] = v,
                            !.pending.delete = @ \ {k}]
  <2>1. Store(o, k, v) = t
    BY <1>3 DEF Store, SetItem
  <2>2. /\ t \in WindowRecord /\ t.state = o.state
        /\ t.active = o.active /\ t.queued = o.queued /\ t.closeAwaits = o.closeAwaits
        /\ t.cache = [o.cache EXCEPT ![k] = v]
        /\ t.pending.insert = [o.pending.insert EXCEPT ![k] = v]
        /\ t.pending.delete = o.pending.delete \ {k}
    BY DEF WindowRecord, Items, Requests
  <2> HIDE DEF t
  <2> QED BY <1>1, <1>3, <2>1, <2>2
<1> QED BY <1>2, <1>3

\* The messages to the main process and what they are about.
LEMMA ToMainTypes ==
    /\ Listen \in ToMainMessages /\ GetItems \in ToMainMessages
    /\ Listen.type = "listen" /\ GetItems.type = "getItems"
    /\ \A r \in Requests : /\ UpdateItems(r) \in ToMainMessages
                           /\ UpdateItems(r).type = "updateItems"
                           /\ UpdateItems(r).request = r
    /\ \A m \in ToMainMessages :
          m.type = "updateItems" => m.request \in Requests /\ m = UpdateItems(m.request)
<1>1. /\ Listen \in ToMainMessages /\ GetItems \in ToMainMessages
      /\ Listen.type = "listen" /\ GetItems.type = "getItems"
  BY DEF ToMainMessages, Listen, GetItems
<1>2. \A r \in Requests : UpdateItems(r) \in ToMainMessages
  BY DEF ToMainMessages
<1>3. \A r \in Requests : UpdateItems(r).type = "updateItems" /\ UpdateItems(r).request = r
  BY DEF UpdateItems
<1>4. ASSUME NEW m \in ToMainMessages, m.type = "updateItems"
      PROVE  m.request \in Requests /\ m = UpdateItems(m.request)
  <2>1. PICK r \in Requests : m = UpdateItems(r)
    BY <1>1, <1>4 DEF ToMainMessages
  <2> QED BY <1>3, <2>1
<1> QED BY <1>1, <1>2, <1>3, <1>4

\* The messages to a window and what they are about.
LEMMA ToWindowTypes ==
    /\ UpdatedReply \in ToWindowMessages /\ UpdatedReply.type = "updated"
    /\ \A i \in Items : /\ ItemsReply(i) \in ToWindowMessages
                        /\ ItemsReply(i).type = "items" /\ ItemsReply(i).items = i
    /\ \A ks \in SUBSET Keys, i \in Items :
          /\ ChangeEvent(ks, i) \in ToWindowMessages
          /\ ChangeEvent(ks, i).type = "change" /\ ChangeEvent(ks, i).keys = ks
          /\ \A k \in ks : ChangeEvent(ks, i).items[k] = i[k]
    /\ \A m \in ToWindowMessages :
          /\ m.type \in {"items", "change"} => m.items \in Items
          /\ m.type = "change" => m.keys \subseteq Keys
          /\ m.type = "updated" => m = UpdatedReply
<1>1. UpdatedReply \in ToWindowMessages /\ UpdatedReply.type = "updated"
  BY DEF ToWindowMessages, UpdatedReply
<1>2. \A i \in Items : /\ ItemsReply(i) \in ToWindowMessages
                       /\ ItemsReply(i).type = "items" /\ ItemsReply(i).items = i
  BY DEF ToWindowMessages, ItemsReply
<1>3. ASSUME NEW ks \in SUBSET Keys, NEW i \in Items
      PROVE  /\ ChangeEvent(ks, i) \in ToWindowMessages
             /\ ChangeEvent(ks, i).type = "change" /\ ChangeEvent(ks, i).keys = ks
             /\ \A k \in ks : ChangeEvent(ks, i).items[k] = i[k]
             /\ ChangeEvent(ks, i).items \in Items
  <2>1. ChangeEvent(ks, i) \in ToWindowMessages
    BY DEF ToWindowMessages
  <2> QED BY <2>1 DEF ChangeEvent, Items
<1>4. ASSUME NEW m \in ToWindowMessages
      PROVE  /\ m.type \in {"items", "change"} => m.items \in Items
             /\ m.type = "change" => m.keys \subseteq Keys
             /\ m.type = "updated" => m = UpdatedReply
  <2>1. CASE m = UpdatedReply
    BY <1>1, <2>1
  <2>2. CASE \E i \in Items : m = ItemsReply(i)
    BY <1>2, <2>2
  <2>3. CASE \E ks \in SUBSET Keys, i \in Items : m = ChangeEvent(ks, i)
    BY <1>3, <2>3
  <2> QED BY <2>1, <2>2, <2>3 DEF ToWindowMessages
<1>5. \A ks \in SUBSET Keys, i \in Items :
        /\ ChangeEvent(ks, i) \in ToWindowMessages
        /\ ChangeEvent(ks, i).type = "change" /\ ChangeEvent(ks, i).keys = ks
        /\ \A k \in ks : ChangeEvent(ks, i).items[k] = i[k]
  BY <1>3
<1>6. \A m \in ToWindowMessages :
        /\ m.type \in {"items", "change"} => m.items \in Items
        /\ m.type = "change" => m.keys \subseteq Keys
        /\ m.type = "updated" => m = UpdatedReply
  BY <1>4
<1> QED BY <1>1, <1>2, <1>5, <1>6

-----------------------------------------------------------------------------
(* The invariant and its parts *)

AliveStates == {"loading", "open", "closing"}

\* The throttler of a window never waits for nothing.
LEMMA UpdateUnderWay ==
    ASSUME NEW o \in WindowRecord, NEW out \in Seq(ToMainMessages),
           NEW in \in Seq(ToWindowMessages), NEW listens,
           Loads(o, out, in, listens), Updates(o, out, in),
           o.state \in AliveStates, o.active
    PROVE  \/ \E m \in ToSet(out) : m.type = "updateItems"
           \/ UpdatedReply \in ToSet(in)
<1>1. o.state \in {"open", "closing"}
  BY DEF Loads, AliveStates
<1>2. CASE \E r \in Requests : out = <<UpdateItems(r)>>
  <2>1. PICK r \in Requests : out = <<UpdateItems(r)>>
    BY <1>2
  <2>2. UpdateItems(r) \in ToSet(out)
    BY <2>1 DEF ToSet
  <2> QED BY <2>2, ToMainTypes
<1>3. CASE Once(in, "updated")
  <2>1. PICK i \in DOMAIN in : in[i].type = "updated"
    BY <1>3 DEF Once
  <2>2. in[i] \in ToWindowMessages
    BY <2>1
  <2> QED BY <2>1, <2>2, ToWindowTypes DEF ToSet
<1> QED BY <1>1, <1>2, <1>3 DEF Updates

\* What the invariant says of one window.
LEMMA WindowParts ==
    ASSUME IInv, NEW w \in Windows
    PROVE  /\ win \in [Windows -> WindowRecord] /\ win[w] \in WindowRecord
           /\ toMain \in [Windows -> Seq(ToMainMessages)]
           /\ toMain[w] \in Seq(ToMainMessages)
           /\ toWindow \in [Windows -> Seq(ToWindowMessages)]
           /\ toWindow[w] \in Seq(ToWindowMessages)
           /\ main \in Items /\ changed \in SUBSET Keys /\ subscribed \subseteq Windows
           /\ changes \in 0 .. MaxChanges
           /\ Loads(win[w], toMain[w], toWindow[w], w \in subscribed)
           /\ Updates(win[w], toMain[w], toWindow[w])
           /\ Closes(win[w], toMain[w])
           /\ \A k \in Keys : k \notin changed =>
                 /\ Announced(toWindow[w], k, main[k])
                 /\ Holds(win[w], toMain[w], toWindow[w], k, main[k])
<1>1. /\ win \in [Windows -> WindowRecord]
      /\ toMain \in [Windows -> Seq(ToMainMessages)]
      /\ toWindow \in [Windows -> Seq(ToWindowMessages)]
      /\ main \in Items /\ changed \in SUBSET Keys /\ subscribed \subseteq Windows
      /\ changes \in 0 .. MaxChanges
  BY DEF IInv, TypeOK, WindowRecord
<1> QED BY <1>1 DEF IInv, WindowInv, AgreeInv

\* The type invariant follows from the types and the rest.
LEMMA TypesNext ==
    ASSUME win' \in [Windows -> WindowRecord],
           toMain' \in [Windows -> Seq(ToMainMessages)],
           toWindow' \in [Windows -> Seq(ToWindowMessages)],
           main' \in Items, changed' \in SUBSET Keys, subscribed' \subseteq Windows,
           changes' \in 0 .. MaxChanges, WindowInv'
    PROVE  TypeOK'
<1>1. ASSUME NEW w \in Windows, Alive(w)', win'[w].active
      PROVE  \/ \E m \in ToSet(toMain'[w]) : m.type = "updateItems"
             \/ UpdatedReply \in ToSet(toWindow'[w])
  <2>1. /\ Loads(win'[w], toMain'[w], toWindow'[w], w \in subscribed')
        /\ Updates(win'[w], toMain'[w], toWindow'[w])
    BY DEF WindowInv
  <2>2. win'[w].state \in AliveStates
    BY <1>1 DEF Alive, AliveStates
  <2> QED BY <1>1, <2>1, <2>2, UpdateUnderWay
<1> QED BY <1>1 DEF TypeOK, WindowRecord

\* A step of one window and the main process, the keys whose value has changed
\* being marked: it keeps the invariant if it keeps it for that window.
LEMMA LocalStep ==
    ASSUME IInv, NEW w \in Windows, NEW o \in WindowRecord,
           NEW out \in Seq(ToMainMessages), NEW in \in Seq(ToWindowMessages),
           win' = [win EXCEPT ![w] = o], toMain' = [toMain EXCEPT ![w] = out],
           toWindow' = [toWindow EXCEPT ![w] = in],
           subscribed' \subseteq Windows,
           \A x \in Windows \ {w} : x \in subscribed' <=> x \in subscribed,
           main' \in Items, changed' \in SUBSET Keys, changed \subseteq changed',
           \A k \in Keys \ changed' : main'[k] = main[k],
           changes' \in 0 .. MaxChanges,
           Loads(o, out, in, w \in subscribed'), Updates(o, out, in), Closes(o, out),
           \A k \in Keys \ changed' : /\ Announced(in, k, main[k])
                                      /\ Holds(o, out, in, k, main[k])
    PROVE  IInv'
<1>1. /\ win' \in [Windows -> WindowRecord]
      /\ toMain' \in [Windows -> Seq(ToMainMessages)]
      /\ toWindow' \in [Windows -> Seq(ToWindowMessages)]
      /\ win'[w] = o /\ toMain'[w] = out /\ toWindow'[w] = in
      /\ \A x \in Windows \ {w} : /\ win'[x] = win[x] /\ toMain'[x] = toMain[x]
                                  /\ toWindow'[x] = toWindow[x]
  BY WindowParts
<1>2. WindowInv'
  <2> SUFFICES ASSUME NEW x \in Windows
               PROVE  /\ Loads(win'[x], toMain'[x], toWindow'[x], x \in subscribed')
                      /\ Updates(win'[x], toMain'[x], toWindow'[x])
                      /\ Closes(win'[x], toMain'[x])
    BY DEF WindowInv
  <2>1. CASE x = w
    BY <1>1, <2>1
  <2>2. CASE x # w
    <3>1. /\ win'[x] = win[x] /\ toMain'[x] = toMain[x] /\ toWindow'[x] = toWindow[x]
          /\ x \in subscribed' <=> x \in subscribed
      BY <1>1, <2>2
    <3> QED BY <3>1, WindowParts DEF Loads
  <2> QED BY <2>1, <2>2
<1>3. AgreeInv'
  <2> SUFFICES ASSUME NEW x \in Windows, NEW k \in Keys, k \notin changed'
               PROVE  /\ Announced(toWindow'[x], k, main'[k])
                      /\ Holds(win'[x], toMain'[x], toWindow'[x], k, main'[k])
    BY DEF AgreeInv
  <2>1. CASE x = w
    BY <1>1, <2>1
  <2>2. CASE x # w
    BY <1>1, <2>2, WindowParts
  <2> QED BY <2>1, <2>2
<1>4. TypeOK'
  BY <1>1, <1>2, TypesNext
<1> QED BY <1>2, <1>3, <1>4 DEF IInv

-----------------------------------------------------------------------------
(* The main process *)

\* Keys whose value changes are marked.
LEMMA MainStoreEffect ==
    ASSUME main \in Items, changed \in SUBSET Keys, NEW items \in Items, MainStore(items)
    PROVE  /\ main' \in Items /\ main' = items
           /\ changed' \in SUBSET Keys /\ changed \subseteq changed'
           /\ \A k \in Keys \ changed' : main'[k] = main[k]
BY DEF MainStore

\* MainChange
LEMMA MainChangeStep ==
    ASSUME IInv, NEW k \in Keys, NEW v \in Values \cup {NoValue}, MainChange(k, v)
    PROVE  IInv'
<1>1. /\ changes > 0 /\ MainStore([main EXCEPT ![k] = v]) /\ changes' = changes - 1
      /\ UNCHANGED <<win, subscribed, toMain, toWindow>>
  BY DEF MainChange
<1>2. main \in Items /\ changed \in SUBSET Keys /\ changes \in 0 .. MaxChanges
  BY DEF IInv, TypeOK
<1>3. [main EXCEPT ![k] = v] \in Items
  BY <1>2 DEF Items
<1>4. /\ main' \in Items /\ changed' \in SUBSET Keys /\ changed \subseteq changed'
      /\ \A l \in Keys \ changed' : main'[l] = main[l]
  BY <1>1, <1>2, <1>3, MainStoreEffect
<1>5. changes' \in 0 .. MaxChanges
  BY <1>1, <1>2, BoundsAssumption
<1>6. WindowInv'
  BY <1>1 DEF IInv, WindowInv
<1>7. AgreeInv'
  BY <1>1, <1>4 DEF IInv, AgreeInv
<1>8. TypeOK'
  BY <1>1, <1>4, <1>5, <1>6, TypesNext DEF IInv, TypeOK, WindowRecord
<1> QED BY <1>6, <1>7, <1>8 DEF IInv

\* Broadcast: of the keys that waited every listener will hear the value last.
LEMMA BroadcastStep ==
    ASSUME IInv, Broadcast
    PROVE  IInv'
<1> DEFINE e == ChangeEvent(changed, main)
<1>1. /\ toWindow' = [w \in Windows |->
                        IF w \in subscribed /\ Alive(w)
                        THEN Append(toWindow[w], e) ELSE toWindow[w]]
      /\ changed' = {}
      /\ UNCHANGED <<main, win, subscribed, toMain, changes>>
  BY DEF Broadcast
<1>2. /\ main \in Items /\ changed \in SUBSET Keys
      /\ toWindow \in [Windows -> Seq(ToWindowMessages)]
  BY DEF IInv, TypeOK
<1>3. /\ e \in ToWindowMessages /\ e.type = "change" /\ e.keys = changed
      /\ \A k \in changed : e.items[k] = main[k]
  BY <1>2, ToWindowTypes
<1> HIDE DEF e
<1>4. toWindow' \in [Windows -> Seq(ToWindowMessages)]
  <2>1. \A w \in Windows : Append(toWindow[w], e) \in Seq(ToWindowMessages)
    BY <1>2, <1>3, AppendFacts
  <2> QED BY <1>1, <1>2, <2>1
<1>5. WindowInv'
  <2> SUFFICES ASSUME NEW w \in Windows
               PROVE  /\ Loads(win[w], toMain[w], toWindow'[w], w \in subscribed)
                      /\ Updates(win[w], toMain[w], toWindow'[w])
                      /\ Closes(win[w], toMain[w])
    BY <1>1 DEF WindowInv
  <2>1. CASE ~(w \in subscribed /\ Alive(w))
    BY <1>1, <2>1, WindowParts
  <2>2. CASE w \in subscribed /\ Alive(w)
    <3>1. toWindow'[w] = Append(toWindow[w], e)
      BY <1>1, <2>2
    <3>2. \A type \in {"updated", "items"} :
             /\ Without(toWindow[w], type) => Without(toWindow'[w], type)
             /\ Once(toWindow[w], type) => Once(toWindow'[w], type)
      BY <1>3, <3>1, WindowParts, AppendOtherType
    <3>3. /\ Loads(win[w], toMain[w], toWindow[w], w \in subscribed)
          /\ Updates(win[w], toMain[w], toWindow[w])
          /\ Closes(win[w], toMain[w])
      BY WindowParts
    <3>4. Loads(win[w], toMain[w], toWindow'[w], w \in subscribed)
      BY <2>2, <3>2, <3>3 DEF Loads, Alive
    <3>5. Updates(win[w], toMain[w], toWindow'[w])
      BY <3>2, <3>3 DEF Updates
    <3> QED BY <3>3, <3>4, <3>5
  <2> QED BY <2>1, <2>2
<1>6. AgreeInv'
  <2> SUFFICES ASSUME NEW w \in Windows, NEW k \in Keys
               PROVE  /\ Announced(toWindow'[w], k, main[k])
                      /\ Holds(win[w], toMain[w], toWindow'[w], k, main[k])
    BY <1>1 DEF AgreeInv
  <2>1. CASE ~(w \in subscribed /\ Alive(w))
    <3>1. toWindow'[w] = toWindow[w]
      BY <1>1, <2>1
    <3>2. toWindow[w] = <<>> /\ win[w].state # "open"
      BY <2>1, WindowParts DEF Loads, Alive, WindowRecord, WindowStates
    <3> QED BY <3>1, <3>2 DEF Announced, Holds
  <2>2. CASE w \in subscribed /\ Alive(w) /\ k \in changed
    <3>1. toWindow'[w] = Append(toWindow[w], e)
      BY <1>1, <2>2
    <3>2. Carries(e, k) /\ e.items[k] = main[k]
      BY <1>3, <2>2 DEF Carries
    <3> QED BY <1>3, <3>1, <3>2, WindowParts, AppendCarrier DEF Holds
  <2>3. CASE w \in subscribed /\ Alive(w) /\ k \notin changed
    <3>1. toWindow'[w] = Append(toWindow[w], e)
      BY <1>1, <2>3
    <3>2. ~Carries(e, k)
      BY <1>3, <2>3 DEF Carries
    <3> QED BY <1>3, <2>3, <3>1, <3>2, WindowParts, AppendOther DEF Holds
  <2> QED BY <2>1, <2>2, <2>3
<1>7. TypeOK'
  BY <1>1, <1>4, <1>5, TypesNext DEF IInv, TypeOK, WindowRecord
<1> QED BY <1>5, <1>6, <1>7 DEF IInv

\* A message of a window that the main process takes: which one it can be says
\* where the window is.
LEMMA TakeEffect ==
    ASSUME IInv, NEW w \in Windows, NEW type, Take(w, type)
    PROVE  /\ toMain' = [toMain EXCEPT ![w] = Tail(toMain[w])]
           /\ Tail(toMain[w]) \in Seq(ToMainMessages)
           /\ Head(toMain[w]) \in ToMainMessages /\ Head(toMain[w]).type = type
           /\ win[w].state \in {"loading", "open", "closing", "crashed"}
           /\ type = "listen" /\ win[w].state # "crashed" =>
                 /\ win[w].state = "loading" /\ toWindow[w] = <<>>
                 /\ Tail(toMain[w]) = <<GetItems>>
           /\ type = "getItems" /\ win[w].state # "crashed" =>
                 /\ win[w].state = "loading" /\ Tail(toMain[w]) = <<>>
                 /\ w \in subscribed /\ Without(toWindow[w], "items")
           /\ type = "updateItems" /\ win[w].state # "crashed" =>
                 /\ win[w].state \in {"open", "closing"} /\ win[w].active
                 /\ toMain[w] = <<UpdateItems(Head(toMain[w]).request)>>
                 /\ Tail(toMain[w]) = <<>>
                 /\ Without(toWindow[w], "updated")
<1>1. /\ toMain[w] # <<>> /\ Head(toMain[w]).type = type
      /\ toMain' = [toMain EXCEPT ![w] = Tail(toMain[w])]
  BY DEF Take
<1>2. /\ Tail(toMain[w]) \in Seq(ToMainMessages) /\ Head(toMain[w]) \in ToMainMessages
  BY <1>1, WindowParts, TailFacts
<1>3. /\ Loads(win[w], toMain[w], toWindow[w], w \in subscribed)
      /\ Updates(win[w], toMain[w], toWindow[w]) /\ Closes(win[w], toMain[w])
      /\ win[w].state \in WindowStates
  BY WindowParts DEF WindowRecord
<1>4. win[w].state \in {"loading", "open", "closing", "crashed"}
  BY <1>1, <1>3 DEF Loads, Closes, WindowStates
<1>5. CASE win[w].state = "crashed"
  BY <1>1, <1>2, <1>5
<1>6. CASE win[w].state = "loading"
  <2>1. CASE toMain[w] = <<Listen, GetItems>>
    <3>1. Head(toMain[w]) = Listen /\ Tail(toMain[w]) = <<GetItems>>
      BY <2>1
    <3> QED BY <1>1, <1>2, <1>3, <1>4, <1>6, <2>1, <3>1, ToMainTypes DEF Loads
  <2>2. CASE toMain[w] = <<GetItems>>
    <3>1. Head(toMain[w]) = GetItems /\ Tail(toMain[w]) = <<>>
      BY <2>2
    <3>2. toMain[w] # <<Listen, GetItems>>
      BY <2>2
    <3> QED BY <1>1, <1>2, <1>3, <1>4, <1>6, <2>2, <3>1, <3>2, ToMainTypes DEF Loads
  <2> QED BY <1>1, <1>3, <1>6, <2>1, <2>2 DEF Loads
<1>7. CASE win[w].state \in {"open", "closing"}
  <2>1. PICK r \in Requests : toMain[w] = <<UpdateItems(r)>>
    BY <1>1, <1>3, <1>7 DEF Updates
  <2>2. Head(toMain[w]) = UpdateItems(r) /\ Tail(toMain[w]) = <<>>
    BY <2>1
  <2>3. type = "updateItems" /\ Head(toMain[w]).request = r
    BY <1>1, <2>2, ToMainTypes
  <2>4. win[w].active /\ Without(toWindow[w], "updated")
    BY <1>1, <1>3, <1>7 DEF Updates
  <2> QED BY <1>1, <1>2, <1>4, <1>7, <2>1, <2>2, <2>3, <2>4
<1> QED BY <1>4, <1>5, <1>6, <1>7

\* A function keeps its values where it is not changed.
LEMMA SameFunction ==
    ASSUME NEW S, NEW T, NEW f \in [S -> T], NEW x \in S
    PROVE  f = [f EXCEPT ![x] = f[x]]
OBVIOUS

\* HandleListen
LEMMA HandleListenStep ==
    ASSUME IInv, NEW w \in Windows, HandleListen(w)
    PROVE  IInv'
<1> DEFINE out == Tail(toMain[w])
<1>1. /\ Take(w, "listen") /\ subscribed' = subscribed \cup {w}
      /\ UNCHANGED <<main, changed, win, toWindow, changes>>
  BY DEF HandleListen
<1>2. /\ toMain' = [toMain EXCEPT ![w] = out] /\ out \in Seq(ToMainMessages)
      /\ win[w].state \in {"loading", "crashed"}
      /\ win[w].state = "loading" => toWindow[w] = <<>> /\ out = <<GetItems>>
  BY <1>1, TakeEffect
<1> HIDE DEF out
<1>3. win' = [win EXCEPT ![w] = win[w]] /\ toWindow' = [toWindow EXCEPT ![w] = toWindow[w]]
  BY <1>1, WindowParts, SameFunction
<1>4. /\ Loads(win[w], toMain[w], toWindow[w], w \in subscribed)
      /\ Updates(win[w], toMain[w], toWindow[w]) /\ Closes(win[w], toMain[w])
      /\ \A k \in Keys \ changed : Announced(toWindow[w], k, main[k])
  BY WindowParts
<1>5. Loads(win[w], out, toWindow[w], w \in subscribed')
  BY <1>1, <1>2, <1>4 DEF Loads, Without
<1>6. Updates(win[w], out, toWindow[w]) /\ Closes(win[w], out)
  BY <1>2 DEF Updates, Closes
<1>7. \A k \in Keys : Holds(win[w], out, toWindow[w], k, main[k])
  BY <1>2 DEF Holds
<1>8. /\ subscribed' \subseteq Windows
      /\ \A x \in Windows \ {w} : x \in subscribed' <=> x \in subscribed
  BY <1>1, WindowParts
<1>9. /\ win[w] \in WindowRecord /\ toWindow[w] \in Seq(ToWindowMessages)
      /\ main' \in Items /\ changed' \in SUBSET Keys /\ changed' = changed /\ main' = main
      /\ changes' \in 0 .. MaxChanges
  BY <1>1, WindowParts
<1> QED BY <1>2, <1>3, <1>4, <1>5, <1>6, <1>7, <1>8, <1>9, LocalStep

\* HandleGetItems: the items are the values of this moment.
LEMMA HandleGetItemsStep ==
    ASSUME IInv, NEW w \in Windows, HandleGetItems(w)
    PROVE  IInv'
<1> DEFINE out == Tail(toMain[w])
           in == IF Alive(w) THEN Append(toWindow[w], ItemsReply(main)) ELSE toWindow[w]
<1>1. /\ Take(w, "getItems") /\ toWindow' = [toWindow EXCEPT ![w] = in]
      /\ UNCHANGED <<main, changed, win, subscribed, changes>>
  BY DEF HandleGetItems, Reply
<1>2. /\ toMain' = [toMain EXCEPT ![w] = out] /\ out \in Seq(ToMainMessages)
      /\ win[w].state \in {"loading", "crashed"}
      /\ win[w].state = "loading" => /\ out = <<>> /\ w \in subscribed
                                     /\ Without(toWindow[w], "items")
  BY <1>1, TakeEffect
<1>3. /\ ItemsReply(main) \in ToWindowMessages /\ ItemsReply(main).type = "items"
      /\ ItemsReply(main).items = main
  BY WindowParts, ToWindowTypes
<1>4. /\ Loads(win[w], toMain[w], toWindow[w], w \in subscribed)
      /\ \A k \in Keys \ changed : Announced(toWindow[w], k, main[k])
      /\ toWindow[w] \in Seq(ToWindowMessages)
  BY WindowParts
<1>5. /\ in \in Seq(ToWindowMessages)
      /\ win[w].state = "loading" => /\ Without(toWindow[w], "updated") => Without(in, "updated")
                                     /\ Once(in, "items")
      /\ win[w].state = "crashed" => in = <<>>
      /\ \A k \in Keys \ changed : Announced(in, k, main[k])
  <2>1. CASE win[w].state = "crashed"
    <3>1. ~Alive(w)
      BY <2>1 DEF Alive
    <3> QED BY <1>4, <2>1, <3>1 DEF Loads
  <2>2. CASE win[w].state = "loading"
    <3>1. in = Append(toWindow[w], ItemsReply(main))
      BY <2>2 DEF Alive
    <3> HIDE DEF in
    <3>2. in \in Seq(ToWindowMessages)
      BY <1>3, <1>4, <3>1, AppendFacts
    <3>3. Without(toWindow[w], "updated") => Without(in, "updated")
      BY <1>3, <1>4, <3>1, AppendOtherType
    <3>4. Once(in, "items")
      BY <1>2, <1>3, <1>4, <2>2, <3>1, AppendOnce
    <3>5. \A k \in Keys : Announced(in, k, main[k])
      BY <1>3, <1>4, <3>1, AppendCarrier DEF Carries
    <3> QED BY <2>2, <3>2, <3>3, <3>4, <3>5
  <2> QED BY <1>2, <2>1, <2>2
<1> HIDE DEF out, in
<1>6. win' = [win EXCEPT ![w] = win[w]]
  BY <1>1, WindowParts, SameFunction
<1>7. Loads(win[w], out, in, w \in subscribed)
  BY <1>2, <1>4, <1>5 DEF Loads
<1>8. Updates(win[w], out, in) /\ Closes(win[w], out)
  BY <1>2 DEF Updates, Closes
<1>9. \A k \in Keys : Holds(win[w], out, in, k, main[k])
  BY <1>2 DEF Holds
<1> QED BY <1>1, <1>2, <1>5, <1>6, <1>7, <1>8, <1>9, WindowParts, LocalStep

\* HandleUpdateItems: what was a change of the window is now that of the main
\* process.
LEMMA HandleUpdateItemsStep ==
    ASSUME IInv, NEW w \in Windows, HandleUpdateItems(w)
    PROVE  IInv'
<1> DEFINE out == Tail(toMain[w])
           r == Head(toMain[w]).request
           in == IF Alive(w) THEN Append(toWindow[w], UpdatedReply) ELSE toWindow[w]
<1>1. /\ Take(w, "updateItems") /\ MainStore(Apply(main, r))
      /\ toWindow' = [toWindow EXCEPT ![w] = in]
      /\ UNCHANGED <<win, subscribed, changes>>
  BY DEF HandleUpdateItems, Reply
<1>2. /\ toMain' = [toMain EXCEPT ![w] = out] /\ out \in Seq(ToMainMessages)
      /\ Head(toMain[w]) \in ToMainMessages /\ Head(toMain[w]).type = "updateItems"
      /\ win[w].state \in {"open", "closing", "crashed"}
      /\ win[w].state # "crashed" => /\ win[w].active /\ toMain[w] = <<UpdateItems(r)>>
                                     /\ out = <<>> /\ Without(toWindow[w], "updated")
  BY <1>1, TakeEffect
<1>3. r \in Requests
  BY <1>2, ToMainTypes
<1>4. /\ Apply(main, r) \in Items
      /\ \A k \in Keys : Apply(main, r)[k] = IF k \in Touched(r) THEN Written(r, k) ELSE main[k]
  BY <1>3, WindowParts, ApplyEffect
<1>5. /\ main' \in Items /\ main' = Apply(main, r)
      /\ changed' \in SUBSET Keys /\ changed \subseteq changed'
      /\ \A k \in Keys \ changed' : main'[k] = main[k]
  BY <1>1, <1>4, WindowParts, MainStoreEffect
<1>6. /\ Loads(win[w], toMain[w], toWindow[w], w \in subscribed)
      /\ Updates(win[w], toMain[w], toWindow[w])
      /\ Closes(win[w], toMain[w])
      /\ \A k \in Keys \ changed : /\ Announced(toWindow[w], k, main[k])
                                   /\ Holds(win[w], toMain[w], toWindow[w], k, main[k])
      /\ toWindow[w] \in Seq(ToWindowMessages)
  BY WindowParts
<1> HIDE DEF out, r
<1>7. /\ in \in Seq(ToWindowMessages)
      /\ win[w].state # "crashed" => /\ Without(toWindow[w], "items") => Without(in, "items")
                                     /\ Once(in, "updated")
      /\ win[w].state = "crashed" => in = <<>>
      /\ \A k \in Keys \ changed : /\ Announced(in, k, main[k])
                                   /\ NoneCarries(in, k) => NoneCarries(toWindow[w], k)
  <2>1. CASE win[w].state = "crashed"
    <3>1. ~Alive(w)
      BY <2>1 DEF Alive
    <3> QED BY <1>6, <2>1, <3>1 DEF Loads
  <2>2. CASE win[w].state \in {"open", "closing"}
    <3>1. in = Append(toWindow[w], UpdatedReply)
      BY <2>2 DEF Alive
    <3> HIDE DEF in
    <3>2. in \in Seq(ToWindowMessages)
      BY <1>6, <3>1, AppendFacts, ToWindowTypes
    <3>3. Without(toWindow[w], "items") => Without(in, "items")
      BY <1>6, <3>1, AppendOtherType, ToWindowTypes
    <3>4. Once(in, "updated")
      BY <1>2, <1>6, <2>2, <3>1, AppendOnce, ToWindowTypes
    <3>5. \A k \in Keys : ~Carries(UpdatedReply, k)
      BY ToWindowTypes DEF Carries
    <3>6. \A k \in Keys \ changed : /\ Announced(in, k, main[k])
                                    /\ NoneCarries(in, k) => NoneCarries(toWindow[w], k)
      BY <1>6, <3>1, <3>5, AppendOther, ToWindowTypes
    <3> QED BY <2>2, <3>2, <3>3, <3>4, <3>6
  <2> QED BY <1>2, <2>1, <2>2
<1> HIDE DEF in
<1>8. win' = [win EXCEPT ![w] = win[w]]
  BY <1>1, WindowParts, SameFunction
<1>9. Loads(win[w], out, in, w \in subscribed')
  BY <1>1, <1>2, <1>6, <1>7 DEF Loads
<1>10. Updates(win[w], out, in) /\ Closes(win[w], out)
  BY <1>2, <1>6, <1>7 DEF Updates, Closes
<1>11. ASSUME NEW k \in Keys \ changed'
       PROVE  Announced(in, k, main[k]) /\ Holds(win[w], out, in, k, main[k])
  <2>1. k \notin changed /\ main'[k] = main[k]
    BY <1>5
  <2>2. Announced(in, k, main[k])
    BY <1>7, <2>1
  <2>3. ASSUME win[w].state = "open", NoneCarries(in, k), OwnChange(win[w], toMain[w], k)
        PROVE  win[w].cache[k] = main[k] \/ OwnChange(win[w], out, k)
    <3>1. CASE k \in Touched(win[w].pending)
      BY <2>3, <3>1 DEF OwnChange
    <3>2. CASE k \notin Touched(win[w].pending)
      <4>1. PICK q \in Requests : /\ toMain[w] = <<UpdateItems(q)>>
                                  /\ k \in Touched(q) /\ win[w].cache[k] = Written(q, k)
        BY <2>3, <3>2 DEF OwnChange
      <4>2. UpdateItems(q) = UpdateItems(r)
        BY <1>2, <2>3, <4>1
      <4>3. q = r
        BY <1>3, <4>2, ToMainTypes
      <4> QED BY <1>4, <1>5, <2>1, <4>1, <4>3
    <3> QED BY <3>1, <3>2
  <2>4. Holds(win[w], out, in, k, main[k])
    BY <1>6, <1>7, <2>1, <2>3 DEF Holds
  <2> QED BY <2>2, <2>4
<1> QED BY <1>1, <1>2, <1>5, <1>7, <1>8, <1>9, <1>10, <1>11, WindowParts, LocalStep

-----------------------------------------------------------------------------
(* A window *)

\* OpenWindow
LEMMA OpenWindowStep ==
    ASSUME IInv, NEW w \in Windows, OpenWindow(w)
    PROVE  IInv'
<1> DEFINE o == [win[w] EXCEPT !.state = "loading"]
           out == <<Listen, GetItems>>
<1>1. /\ win[w].state = "unopened" /\ toMain' = [toMain EXCEPT ![w] = out]
      /\ win' = [win EXCEPT ![w] = o]
      /\ UNCHANGED <<main, changed, subscribed, toWindow, changes>>
  BY DEF OpenWindow
<1>2. /\ win[w] = NewWindow /\ win[w] \in WindowRecord
      /\ toWindow[w] = <<>> /\ w \notin subscribed
  BY <1>1, WindowParts DEF Loads
<1>3. o \in WindowRecord
  BY <1>2 DEF WindowRecord, WindowStates
<1>4. /\ o.state = "loading" /\ o.pending = NoRequest /\ o.closeAwaits = "none"
      /\ ~o.deferred /\ ~o.active /\ ~o.queued
  BY <1>2 DEF NewWindow
<1>5. out \in Seq(ToMainMessages)
  BY ToMainTypes
<1> HIDE DEF o
<1>6. toWindow' = [toWindow EXCEPT ![w] = toWindow[w]]
  BY <1>1, WindowParts, SameFunction
<1>7. Loads(o, out, toWindow[w], w \in subscribed)
  BY <1>2, <1>4 DEF Loads, Without
<1>8. Updates(o, out, toWindow[w]) /\ Closes(o, out)
  BY <1>4 DEF Updates, Closes
<1>9. \A k \in Keys \ changed : /\ Announced(toWindow[w], k, main[k])
                                /\ Holds(o, out, toWindow[w], k, main[k])
  BY <1>4, WindowParts DEF Holds
<1>10. /\ toWindow[w] \in Seq(ToWindowMessages) /\ subscribed' = subscribed
       /\ subscribed \subseteq Windows
       /\ main' \in Items /\ changed' \in SUBSET Keys /\ changed' = changed /\ main' = main
       /\ changes' \in 0 .. MaxChanges
  BY <1>1, WindowParts
<1> HIDE DEF out
<1> QED BY <1>1, <1>3, <1>5, <1>6, <1>7, <1>8, <1>9, <1>10, LocalStep

\* WindowChange: a change of the window's own hides what the main process has.
LEMMA WindowChangeStep ==
    ASSUME IInv, NEW w \in Windows, NEW k \in Keys, NEW v \in Values \cup {NoValue},
           WindowChange(w, k, v)
    PROVE  IInv'
<1> DEFINE p == Store(win[w], k, v)
           o == [p EXCEPT !.deferred = TRUE]
<1>1. /\ win[w].state = "open" /\ changes > 0 /\ p # win[w]
      /\ win' = [win EXCEPT ![w] = o] /\ changes' = changes - 1
      /\ UNCHANGED <<main, changed, subscribed, toMain, toWindow>>
  BY DEF WindowChange
<1>2. /\ p \in WindowRecord /\ p.state = win[w].state
      /\ p.active = win[w].active /\ p.queued = win[w].queued
      /\ p.closeAwaits = win[w].closeAwaits
      /\ k \in Touched(p.pending) /\ p.cache[k] = Written(p.pending, k)
      /\ \A l \in Keys \ {k} :
            /\ p.cache[l] = win[w].cache[l]
            /\ l \in Touched(p.pending) <=> l \in Touched(win[w].pending)
            /\ Written(p.pending, l) = Written(win[w].pending, l)
  BY <1>1, WindowParts, StoreEffect
<1> HIDE DEF p
<1>3. o \in WindowRecord
  BY <1>2 DEF WindowRecord
<1>4. /\ o.state = "open" /\ o.active = win[w].active /\ o.queued = win[w].queued
      /\ o.closeAwaits = win[w].closeAwaits /\ o.cache = p.cache /\ o.pending = p.pending
  BY <1>1, <1>2 DEF WindowRecord
<1> HIDE DEF o
<1>5. /\ Loads(win[w], toMain[w], toWindow[w], w \in subscribed)
      /\ Updates(win[w], toMain[w], toWindow[w])
      /\ Closes(win[w], toMain[w])
      /\ \A l \in Keys \ changed : /\ Announced(toWindow[w], l, main[l])
                                   /\ Holds(win[w], toMain[w], toWindow[w], l, main[l])
  BY WindowParts
<1>6. Loads(o, toMain[w], toWindow[w], w \in subscribed)
  BY <1>1, <1>4, <1>5 DEF Loads
<1>7. Updates(o, toMain[w], toWindow[w]) /\ Closes(o, toMain[w])
  BY <1>1, <1>4, <1>5 DEF Updates, Closes
<1>8. ASSUME NEW l \in Keys \ changed
      PROVE  Announced(toWindow[w], l, main[l]) /\ Holds(o, toMain[w], toWindow[w], l, main[l])
  <2>1. CASE l = k
    BY <1>2, <1>4, <1>5, <2>1 DEF Holds, OwnChange
  <2>2. CASE l # k
    <3>1. OwnChange(win[w], toMain[w], l) => OwnChange(o, toMain[w], l)
      BY <1>2, <1>4, <2>2 DEF OwnChange
    <3> QED BY <1>1, <1>2, <1>4, <1>5, <2>2, <3>1 DEF Holds
  <2> QED BY <2>1, <2>2
<1>9. /\ toWindow' = [toWindow EXCEPT ![w] = toWindow[w]]
      /\ toMain' = [toMain EXCEPT ![w] = toMain[w]]
  BY <1>1, WindowParts, SameFunction
<1>10. changes' \in 0 .. MaxChanges
  BY <1>1, WindowParts, BoundsAssumption
<1>11. /\ toWindow[w] \in Seq(ToWindowMessages) /\ toMain[w] \in Seq(ToMainMessages)
       /\ subscribed' = subscribed /\ subscribed \subseteq Windows
       /\ main' \in Items /\ changed' \in SUBSET Keys /\ changed' = changed /\ main' = main
  BY <1>1, WindowParts
<1> QED BY <1>1, <1>3, <1>6, <1>7, <1>8, <1>9, <1>10, <1>11, LocalStep

\* flushPending: what was pending is sent, if there was something, and close
\* waits for that update or for nothing.
LEMMA FlushEffect ==
    ASSUME NEW w \in Windows, NEW o \in WindowRecord, NEW forClose \in BOOLEAN,
           toMain \in [Windows -> Seq(ToMainMessages)], toMain[w] = <<>>,
           ~o.active, ~o.queued, FlushPending(w, o, forClose)
    PROVE  \E p \in WindowRecord, out \in Seq(ToMainMessages) :
              /\ win' = [win EXCEPT ![w] = p] /\ toMain' = [toMain EXCEPT ![w] = out]
              /\ p.state = o.state /\ p.cache = o.cache /\ p.deferred = o.deferred
              /\ ~p.queued /\ p.pending = NoRequest
              /\ \/ /\ p.active /\ (\E r \in Requests : out = <<UpdateItems(r)>>)
                    /\ p.closeAwaits = IF forClose THEN "running" ELSE o.closeAwaits
                 \/ /\ ~p.active /\ out = <<>>
                    /\ p.closeAwaits = IF forClose THEN "done" ELSE o.closeAwaits
              /\ \A k \in Keys : OwnChange(o, <<>>, k) => OwnChange(p, out, k)
<1>1. o.pending \in Requests
  BY DEF WindowRecord
<1>2. CASE HasChanges(o.pending)
  <2> DEFINE p == [o EXCEPT !.pending = NoRequest, !.active = TRUE,
                            !.closeAwaits = IF forClose THEN "running" ELSE @]
             out == <<UpdateItems(o.pending)>>
  <2>1. win' = [win EXCEPT ![w] = p] /\ toMain' = [toMain EXCEPT ![w] = out]
    <3>1. Append(toMain[w], UpdateItems(o.pending)) = out
      OBVIOUS
    <3> QED BY <1>2, <3>1 DEF FlushPending
  <2>2. p \in WindowRecord
    BY EmptyRequest DEF WindowRecord
  <2>3. /\ p.state = o.state /\ p.cache = o.cache /\ p.deferred = o.deferred
        /\ p.queued = o.queued /\ p.pending = NoRequest /\ p.active = TRUE
        /\ p.closeAwaits = IF forClose THEN "running" ELSE o.closeAwaits
    BY DEF WindowRecord
  <2>4. out \in Seq(ToMainMessages)
    BY <1>1, ToMainTypes
  <2> HIDE DEF p
  <2>5. ASSUME NEW k \in Keys, OwnChange(o, <<>>, k)
        PROVE  OwnChange(p, out, k)
    <3>1. k \in Touched(o.pending) /\ o.cache[k] = Written(o.pending, k)
      BY <2>5 DEF OwnChange
    <3>2. k \notin Touched(p.pending)
      BY <2>3, EmptyRequest
    <3> QED BY <1>1, <2>3, <3>1, <3>2 DEF OwnChange
  <2>6. \E r \in Requests : out = <<UpdateItems(r)>>
    BY <1>1
  <2> HIDE DEF out
  <2> QED BY <2>1, <2>2, <2>3, <2>4, <2>5, <2>6
<1>3. CASE ~HasChanges(o.pending)
  <2> DEFINE p == [o EXCEPT !.closeAwaits = IF forClose THEN "done" ELSE @]
  <2>1. win' = [win EXCEPT ![w] = p] /\ toMain' = toMain
    BY <1>3 DEF FlushPending
  <2>2. toMain' = [toMain EXCEPT ![w] = <<>>]
    BY <2>1, SameFunction
  <2>3. p \in WindowRecord
    BY DEF WindowRecord
  <2>4. /\ p.state = o.state /\ p.cache = o.cache /\ p.deferred = o.deferred
        /\ p.queued = o.queued /\ p.active = o.active /\ p.pending = o.pending
        /\ p.closeAwaits = IF forClose THEN "done" ELSE o.closeAwaits
    BY DEF WindowRecord
  <2>5. p.pending = NoRequest
    BY <1>1, <1>3, <2>4, EmptyRequest
  <2> HIDE DEF p
  <2>6. \A k \in Keys : OwnChange(o, <<>>, k) => OwnChange(p, <<>>, k)
    BY <2>4 DEF OwnChange
  <2>7. <<>> \in Seq(ToMainMessages)
    OBVIOUS
  <2> QED BY <2>1, <2>2, <2>3, <2>4, <2>5, <2>6, <2>7
<1> QED BY <1>2, <1>3

\* A window flushes after its timer or after an update: nothing of it is on
\* the way, and close does not wait for an update that is over.
LEMMA FlushStep ==
    ASSUME IInv, NEW w \in Windows, NEW o \in WindowRecord, NEW forClose \in BOOLEAN,
           NEW in \in Seq(ToWindowMessages), toMain[w] = <<>>,
           ~o.active, ~o.queued, FlushPending(w, o, forClose),
           toWindow' = [toWindow EXCEPT ![w] = in],
           UNCHANGED <<main, changed, subscribed, changes>>,
           o.state \in {"open", "closing"}, w \in subscribed,
           Without(in, "items"), Without(in, "updated"),
           o.state = "open" => o.closeAwaits = "none" /\ ~forClose,
           o.state = "closing" => \/ forClose /\ ~o.deferred
                                  \/ ~forClose /\ o.closeAwaits = "timer" /\ o.deferred,
           \A k \in Keys \ changed : /\ Announced(in, k, main[k])
                                     /\ Holds(o, <<>>, in, k, main[k])
    PROVE  IInv'
<1>1. PICK p \in WindowRecord, out \in Seq(ToMainMessages) :
              /\ win' = [win EXCEPT ![w] = p] /\ toMain' = [toMain EXCEPT ![w] = out]
              /\ p.state = o.state /\ p.cache = o.cache /\ p.deferred = o.deferred
              /\ ~p.queued /\ p.pending = NoRequest
              /\ \/ /\ p.active /\ (\E r \in Requests : out = <<UpdateItems(r)>>)
                    /\ p.closeAwaits = IF forClose THEN "running" ELSE o.closeAwaits
                 \/ /\ ~p.active /\ out = <<>>
                    /\ p.closeAwaits = IF forClose THEN "done" ELSE o.closeAwaits
              /\ \A k \in Keys : OwnChange(o, <<>>, k) => OwnChange(p, out, k)
  <2>1. toMain \in [Windows -> Seq(ToMainMessages)]
    BY WindowParts
  <2> QED BY <2>1, FlushEffect
<1>2. Loads(p, out, in, w \in subscribed')
  BY <1>1 DEF Loads
<1>3. Updates(p, out, in)
  BY <1>1 DEF Updates
<1>4. Closes(p, out)
  BY <1>1 DEF Closes
<1>5. \A k \in Keys \ changed : Holds(p, out, in, k, main[k])
  BY <1>1 DEF Holds
<1>6. /\ subscribed' = subscribed /\ subscribed \subseteq Windows
      /\ main' \in Items /\ changed' \in SUBSET Keys /\ changed' = changed /\ main' = main
      /\ changes' \in 0 .. MaxChanges
  BY WindowParts
<1> QED BY <1>1, <1>2, <1>3, <1>4, <1>5, <1>6, LocalStep

\* WindowTimer: the task runs, or waits behind the update that is running.
LEMMA WindowTimerStep ==
    ASSUME IInv, NEW w \in Windows, WindowTimer(w)
    PROVE  IInv'
<1> DEFINE o == [win[w] EXCEPT !.deferred = FALSE]
           closing == o.closeAwaits = "timer"
           q == [o EXCEPT !.queued = TRUE, !.closeAwaits = IF closing THEN "queued" ELSE @]
<1>1. /\ Alive(w) /\ win[w].deferred
      /\ IF o.active
         THEN win' = [win EXCEPT ![w] = q] /\ UNCHANGED toMain
         ELSE FlushPending(w, o, closing)
      /\ UNCHANGED <<main, changed, subscribed, toWindow, changes>>
  BY DEF WindowTimer
<1>2. /\ Loads(win[w], toMain[w], toWindow[w], w \in subscribed)
      /\ Updates(win[w], toMain[w], toWindow[w])
      /\ Closes(win[w], toMain[w])
      /\ \A k \in Keys \ changed : /\ Announced(toWindow[w], k, main[k])
                                   /\ Holds(win[w], toMain[w], toWindow[w], k, main[k])
      /\ win[w] \in WindowRecord
  BY WindowParts
<1>3. win[w].state \in {"open", "closing"} /\ w \in subscribed /\ Without(toWindow[w], "items")
  BY <1>1, <1>2 DEF Alive, Loads
<1>4. o \in WindowRecord
  BY <1>2 DEF WindowRecord
<1>5. /\ o.state = win[w].state /\ o.cache = win[w].cache /\ o.pending = win[w].pending
      /\ o.active = win[w].active /\ o.queued = win[w].queued
      /\ o.closeAwaits = win[w].closeAwaits /\ o.deferred = FALSE
  BY <1>2 DEF WindowRecord
<1>6. /\ o.state = "open" => o.closeAwaits = "none"
      /\ o.state = "closing" => o.closeAwaits = "timer"
  BY <1>1, <1>2, <1>5 DEF Closes
<1> HIDE DEF o
<1>7. /\ toWindow' = [toWindow EXCEPT ![w] = toWindow[w]]
      /\ toMain = [toMain EXCEPT ![w] = toMain[w]]
  BY <1>1, WindowParts, SameFunction
<1>8. /\ subscribed' = subscribed /\ subscribed \subseteq Windows
      /\ main' \in Items /\ changed' \in SUBSET Keys /\ changed' = changed /\ main' = main
      /\ changes' \in 0 .. MaxChanges
      /\ toWindow[w] \in Seq(ToWindowMessages) /\ toMain[w] \in Seq(ToMainMessages)
  BY <1>1, WindowParts
<1>9. CASE win[w].active
  <2>1. win' = [win EXCEPT ![w] = q] /\ toMain' = [toMain EXCEPT ![w] = toMain[w]]
    BY <1>1, <1>5, <1>7, <1>9
  <2>2. q \in WindowRecord
    BY <1>4 DEF WindowRecord
  <2>3. /\ q.state = win[w].state /\ q.cache = win[w].cache /\ q.pending = win[w].pending
        /\ q.active /\ q.queued /\ ~q.deferred
        /\ q.closeAwaits = IF closing THEN "queued" ELSE o.closeAwaits
    BY <1>4, <1>5, <1>9 DEF WindowRecord
  <2> HIDE DEF q
  <2>4. Loads(q, toMain[w], toWindow[w], w \in subscribed)
    BY <1>3, <2>3 DEF Loads
  <2>5. Updates(q, toMain[w], toWindow[w])
    BY <1>2, <1>9, <2>3 DEF Updates
  <2>6. Closes(q, toMain[w])
    BY <1>3, <1>5, <1>6, <2>3 DEF Closes
  <2>7. \A k \in Keys \ changed : Holds(q, toMain[w], toWindow[w], k, main[k])
    BY <1>2, <2>3 DEF Holds, OwnChange
  <2> QED BY <1>2, <1>7, <1>8, <2>1, <2>2, <2>4, <2>5, <2>6, <2>7, LocalStep
<1>10. CASE ~win[w].active
  <2>1. toMain[w] = <<>> /\ ~o.queued /\ ~o.active /\ Without(toWindow[w], "updated")
    BY <1>2, <1>3, <1>5, <1>10 DEF Updates
  <2>2. FlushPending(w, o, closing)
    BY <1>1, <1>5, <1>10
  <2>3. /\ o.state = "open" => ~closing
        /\ o.state = "closing" => closing
        /\ closing \in BOOLEAN
    BY <1>6
  <2>4. \A k \in Keys \ changed : Holds(o, <<>>, toWindow[w], k, main[k])
    BY <1>2, <1>5, <2>1 DEF Holds, OwnChange
  <2> HIDE DEF closing
  <2>5. UNCHANGED <<main, changed, subscribed, changes>>
    BY <1>1
  <2> QED BY <1>2, <1>3, <1>4, <1>5, <1>6, <1>7, <1>8, <2>1, <2>2, <2>3, <2>4, <2>5, FlushStep
<1> QED BY <1>9, <1>10

\* A message that a window takes, and what is left for it.
LEMMA ReceiveEffect ==
    ASSUME IInv, NEW w \in Windows, NEW type, Receive(w, type)
    PROVE  /\ win[w].state \in AliveStates
           /\ toWindow' = [toWindow EXCEPT ![w] = Tail(toWindow[w])]
           /\ toWindow[w] # <<>>
           /\ Tail(toWindow[w]) \in Seq(ToWindowMessages)
           /\ Head(toWindow[w]) \in ToWindowMessages /\ Head(toWindow[w]).type = type
           /\ \A t \in {"items", "updated"} :
                 /\ Without(toWindow[w], t) => Without(Tail(toWindow[w]), t) /\ type # t
                 /\ Once(toWindow[w], t) /\ type = t => Without(Tail(toWindow[w]), t)
                 /\ Once(toWindow[w], t) /\ type # t => Once(Tail(toWindow[w]), t)
           /\ \A k \in Keys \ changed :
                 /\ Announced(Tail(toWindow[w]), k, main[k])
                 /\ NoneCarries(Tail(toWindow[w]), k) =>
                       IF Carries(Head(toWindow[w]), k)
                       THEN Head(toWindow[w]).items[k] = main[k]
                       ELSE NoneCarries(toWindow[w], k)
<1>1. /\ win[w].state \in AliveStates /\ toWindow[w] # <<>> /\ Head(toWindow[w]).type = type
      /\ toWindow' = [toWindow EXCEPT ![w] = Tail(toWindow[w])]
  BY DEF Receive, Alive, AliveStates
<1>2. /\ toWindow[w] \in Seq(ToWindowMessages)
      /\ \A k \in Keys \ changed : Announced(toWindow[w], k, main[k])
  BY WindowParts
<1>3. Tail(toWindow[w]) \in Seq(ToWindowMessages) /\ Head(toWindow[w]) \in ToWindowMessages
  BY <1>1, <1>2, TailFacts
<1>4. ASSUME NEW t \in {"items", "updated"}
      PROVE  /\ Without(toWindow[w], t) => Without(Tail(toWindow[w]), t) /\ type # t
             /\ Once(toWindow[w], t) /\ type = t => Without(Tail(toWindow[w]), t)
             /\ Once(toWindow[w], t) /\ type # t => Once(Tail(toWindow[w]), t)
  BY <1>1, <1>2, TailCount
<1>5. ASSUME NEW k \in Keys \ changed
      PROVE  /\ Announced(Tail(toWindow[w]), k, main[k])
             /\ NoneCarries(Tail(toWindow[w]), k) =>
                   IF Carries(Head(toWindow[w]), k)
                   THEN Head(toWindow[w]).items[k] = main[k]
                   ELSE NoneCarries(toWindow[w], k)
  BY <1>1, <1>2, TailAnnounced
<1> QED BY <1>1, <1>3, <1>4, <1>5

\* ReceiveItems: only a window that is being loaded gets them.
LEMMA ReceiveItemsStep ==
    ASSUME IInv, NEW w \in Windows, ReceiveItems(w)
    PROVE  IInv'
<1> DEFINE in == Tail(toWindow[w])
           e == Head(toWindow[w])
           o == [win[w] EXCEPT !.cache = e.items, !.state = "open"]
<1>1. /\ Receive(w, "items")
      /\ win' = [win EXCEPT ![w].cache = e.items, ![w].state = "open"]
      /\ UNCHANGED <<main, changed, subscribed, toMain, changes>>
  BY DEF ReceiveItems
<1>2. /\ win[w].state \in AliveStates
      /\ toWindow' = [toWindow EXCEPT ![w] = in]
      /\ toWindow[w] # <<>> /\ in \in Seq(ToWindowMessages)
      /\ e \in ToWindowMessages /\ e.type = "items"
      /\ ~Without(toWindow[w], "items")
      /\ Once(toWindow[w], "items") => Without(in, "items")
      /\ Without(toWindow[w], "updated") => Without(in, "updated")
      /\ \A k \in Keys \ changed :
            /\ Announced(in, k, main[k])
            /\ NoneCarries(in, k) /\ Carries(e, k) => e.items[k] = main[k]
  BY <1>1, ReceiveEffect
<1>3. /\ Loads(win[w], toMain[w], toWindow[w], w \in subscribed)
      /\ win \in [Windows -> WindowRecord] /\ win[w] \in WindowRecord
  BY WindowParts
<1>4. /\ win[w].state = "loading" /\ toMain[w] = <<>> /\ w \in subscribed
      /\ win[w].closeAwaits = "none" /\ ~win[w].active /\ ~win[w].queued
      /\ Without(in, "items") /\ Without(in, "updated")
  BY <1>2, <1>3 DEF Loads, AliveStates
<1>5. \A k \in Keys : Carries(e, k)
  BY <1>2 DEF Carries
<1>6. e.items \in Items
  BY <1>2, ToWindowTypes
<1> HIDE DEF e, in
<1>7. win' = [win EXCEPT ![w] = o]
  BY <1>1, <1>3
<1>8. o \in WindowRecord
  BY <1>3, <1>6 DEF WindowRecord, WindowStates
<1>9. /\ o.state = "open" /\ o.cache = e.items
      /\ o.closeAwaits = "none" /\ ~o.active /\ ~o.queued
  BY <1>3, <1>4 DEF WindowRecord
<1> HIDE DEF o
<1>10. Loads(o, toMain[w], in, w \in subscribed)
  BY <1>4, <1>9 DEF Loads
<1>11. Updates(o, toMain[w], in) /\ Closes(o, toMain[w])
  BY <1>4, <1>9 DEF Updates, Closes
<1>12. \A k \in Keys \ changed : Holds(o, toMain[w], in, k, main[k])
  BY <1>2, <1>5, <1>9 DEF Holds
<1>13. toMain' = [toMain EXCEPT ![w] = toMain[w]]
  BY <1>1, WindowParts, SameFunction
<1>14. /\ subscribed' = subscribed /\ subscribed \subseteq Windows
       /\ main' \in Items /\ changed' \in SUBSET Keys /\ changed' = changed /\ main' = main
       /\ changes' \in 0 .. MaxChanges /\ toMain[w] \in Seq(ToMainMessages)
  BY <1>1, WindowParts
<1> QED BY <1>2, <1>7, <1>8, <1>10, <1>11, <1>12, <1>13, <1>14, LocalStep

\* ReceiveChange: the window has the value of the last message about a key, or
\* its own.
LEMMA ReceiveChangeStep ==
    ASSUME IInv, NEW w \in Windows, ReceiveChange(w)
    PROVE  IInv'
<1> DEFINE in == Tail(toWindow[w])
           e == Head(toWindow[w])
           c == IF win[w].state = "closing" THEN win[w].cache
                ELSE [k \in Keys |-> IF k \in e.keys THEN e.items[k] ELSE win[w].cache[k]]
           o == [win[w] EXCEPT !.cache = c]
<1>1. /\ Receive(w, "change")
      /\ win' = [win EXCEPT ![w].cache = c]
      /\ UNCHANGED <<main, changed, subscribed, toMain, changes>>
  BY DEF ReceiveChange
<1>2. /\ win[w].state \in AliveStates
      /\ toWindow' = [toWindow EXCEPT ![w] = in]
      /\ toWindow[w] # <<>> /\ in \in Seq(ToWindowMessages)
      /\ e \in ToWindowMessages /\ e.type = "change"
      /\ \A t \in {"items", "updated"} :
            /\ Without(toWindow[w], t) => Without(in, t)
            /\ Once(toWindow[w], t) => Once(in, t)
      /\ \A k \in Keys \ changed :
            /\ Announced(in, k, main[k])
            /\ NoneCarries(in, k) => IF Carries(e, k) THEN e.items[k] = main[k]
                                     ELSE NoneCarries(toWindow[w], k)
  BY <1>1, ReceiveEffect
<1>3. /\ Loads(win[w], toMain[w], toWindow[w], w \in subscribed)
      /\ Updates(win[w], toMain[w], toWindow[w])
      /\ Closes(win[w], toMain[w])
      /\ \A k \in Keys \ changed : Holds(win[w], toMain[w], toWindow[w], k, main[k])
      /\ win \in [Windows -> WindowRecord] /\ win[w] \in WindowRecord
  BY WindowParts
<1>4. e.items \in Items
  BY <1>2, ToWindowTypes
<1>5. \A k \in Keys : Carries(e, k) <=> k \in e.keys
  BY <1>2 DEF Carries
<1> HIDE DEF e, in
<1>6. c \in Items
  BY <1>3, <1>4 DEF WindowRecord, Items
<1>7. \A k \in Keys : win[w].state # "closing" =>
         c[k] = IF k \in e.keys THEN e.items[k] ELSE win[w].cache[k]
  OBVIOUS
<1> HIDE DEF c
<1>8. win' = [win EXCEPT ![w] = o]
  BY <1>1, <1>3
<1>9. o \in WindowRecord
  BY <1>3, <1>6 DEF WindowRecord
<1>10. /\ o.state = win[w].state /\ o.cache = c /\ o.pending = win[w].pending
       /\ o.deferred = win[w].deferred /\ o.closeAwaits = win[w].closeAwaits
       /\ o.active = win[w].active /\ o.queued = win[w].queued
  BY <1>3 DEF WindowRecord
<1> HIDE DEF o
<1>11. Loads(o, toMain[w], in, w \in subscribed)
  BY <1>2, <1>3, <1>10 DEF Loads, AliveStates
<1>12. Updates(o, toMain[w], in)
  BY <1>2, <1>3, <1>10 DEF Updates
<1>13. Closes(o, toMain[w])
  BY <1>3, <1>10 DEF Closes
<1>14. ASSUME NEW k \in Keys \ changed
       PROVE  Holds(o, toMain[w], in, k, main[k])
  <2>1. SUFFICES ASSUME win[w].state = "open", NoneCarries(in, k)
                 PROVE  o.cache[k] = main[k] \/ OwnChange(o, toMain[w], k)
    BY <1>10 DEF Holds
  <2>2. CASE k \in e.keys
    BY <1>2, <1>5, <1>7, <1>10, <2>1, <2>2
  <2>3. CASE k \notin e.keys
    <3>1. NoneCarries(toWindow[w], k) /\ o.cache[k] = win[w].cache[k]
      BY <1>2, <1>5, <1>7, <1>10, <2>1, <2>3
    <3>2. OwnChange(win[w], toMain[w], k) => OwnChange(o, toMain[w], k)
      BY <1>10, <3>1 DEF OwnChange
    <3> QED BY <1>3, <2>1, <3>1, <3>2 DEF Holds
  <2> QED BY <2>2, <2>3
<1>15. toMain' = [toMain EXCEPT ![w] = toMain[w]]
  BY <1>1, WindowParts, SameFunction
<1>16. /\ subscribed' = subscribed /\ subscribed \subseteq Windows
       /\ main' \in Items /\ changed' \in SUBSET Keys /\ changed' = changed /\ main' = main
       /\ changes' \in 0 .. MaxChanges /\ toMain[w] \in Seq(ToMainMessages)
  BY <1>1, WindowParts
<1> QED BY <1>2, <1>8, <1>9, <1>11, <1>12, <1>13, <1>14, <1>15, <1>16, LocalStep

\* ReceiveUpdated: the update is over, and what was queued is sent.
LEMMA ReceiveUpdatedStep ==
    ASSUME IInv, NEW w \in Windows, ReceiveUpdated(w)
    PROVE  IInv'
<1> DEFINE in == Tail(toWindow[w])
           o == [win[w] EXCEPT !.active = FALSE, !.queued = FALSE,
                   !.closeAwaits = IF @ = "running" THEN "done" ELSE @]
           forClose == o.closeAwaits = "queued"
<1>1. /\ Receive(w, "updated")
      /\ IF win[w].queued
         THEN FlushPending(w, o, forClose)
         ELSE win' = [win EXCEPT ![w] = o] /\ UNCHANGED toMain
      /\ UNCHANGED <<main, changed, subscribed, changes>>
  BY DEF ReceiveUpdated
<1>2. /\ win[w].state \in AliveStates
      /\ toWindow' = [toWindow EXCEPT ![w] = in]
      /\ in \in Seq(ToWindowMessages)
      /\ ~Without(toWindow[w], "updated")
      /\ Once(toWindow[w], "updated") => Without(in, "updated")
      /\ Without(toWindow[w], "items") => Without(in, "items")
      /\ \A k \in Keys \ changed :
            /\ Announced(in, k, main[k])
            /\ NoneCarries(in, k) => NoneCarries(toWindow[w], k)
  <2>1. \A k \in Keys : ~Carries(Head(toWindow[w]), k)
    BY <1>1, ReceiveEffect DEF Carries
  <2> QED BY <1>1, <2>1, ReceiveEffect
<1>3. /\ Loads(win[w], toMain[w], toWindow[w], w \in subscribed)
      /\ Updates(win[w], toMain[w], toWindow[w])
      /\ Closes(win[w], toMain[w])
      /\ \A k \in Keys \ changed : Holds(win[w], toMain[w], toWindow[w], k, main[k])
      /\ win \in [Windows -> WindowRecord] /\ win[w] \in WindowRecord
  BY WindowParts
<1>4. /\ win[w].state \in {"open", "closing"} /\ w \in subscribed /\ Without(in, "items")
  BY <1>2, <1>3 DEF Loads, AliveStates
<1>5. win[w].active /\ toMain[w] = <<>> /\ Without(in, "updated")
  BY <1>2, <1>3, <1>4 DEF Updates
<1> HIDE DEF in
<1>6. o \in WindowRecord
  BY <1>3 DEF WindowRecord
<1>7. /\ o.state = win[w].state /\ o.cache = win[w].cache /\ o.pending = win[w].pending
      /\ o.deferred = win[w].deferred /\ ~o.active /\ ~o.queued
      /\ o.closeAwaits = IF win[w].closeAwaits = "running" THEN "done" ELSE win[w].closeAwaits
  BY <1>3 DEF WindowRecord
<1> HIDE DEF o
<1>8. \A k \in Keys \ changed : Holds(o, <<>>, in, k, main[k])
  BY <1>2, <1>3, <1>5, <1>7 DEF Holds, OwnChange
<1>9. /\ subscribed' = subscribed /\ subscribed \subseteq Windows
      /\ main' \in Items /\ changed' \in SUBSET Keys /\ changed' = changed /\ main' = main
      /\ changes' \in 0 .. MaxChanges /\ toMain[w] \in Seq(ToMainMessages)
  BY <1>1, WindowParts
<1>10. CASE win[w].queued
  <2>1. FlushPending(w, o, forClose) /\ UNCHANGED <<main, changed, subscribed, changes>>
    BY <1>1, <1>10
  <2>2. /\ o.state = "open" => o.closeAwaits = "none" /\ ~forClose
        /\ o.state = "closing" => \/ forClose /\ ~o.deferred
                                  \/ ~forClose /\ o.closeAwaits = "timer" /\ o.deferred
        /\ forClose \in BOOLEAN
    BY <1>3, <1>4, <1>5, <1>7, <1>10 DEF Closes
  <2> HIDE DEF forClose
  <2>3. o.state \in {"open", "closing"}
    BY <1>4, <1>7
  <2> QED BY <1>2, <1>4, <1>5, <1>6, <1>7, <1>8, <2>1, <2>2, <2>3, FlushStep
<1>11. CASE ~win[w].queued
  <2>1. win' = [win EXCEPT ![w] = o] /\ toMain' = [toMain EXCEPT ![w] = toMain[w]]
    BY <1>1, <1>11, WindowParts, SameFunction
  <2>2. Loads(o, toMain[w], in, w \in subscribed)
    BY <1>4, <1>7 DEF Loads
  <2>3. Updates(o, toMain[w], in)
    BY <1>5, <1>7 DEF Updates
  <2>4. Closes(o, toMain[w])
    BY <1>3, <1>4, <1>5, <1>7, <1>11 DEF Closes
  <2>5. \A k \in Keys \ changed : /\ Announced(in, k, main[k])
                                   /\ Holds(o, toMain[w], in, k, main[k])
    BY <1>2, <1>5, <1>8
  <2> QED BY <1>2, <1>6, <1>9, <2>1, <2>2, <2>3, <2>4, <2>5, LocalStep
<1> QED BY <1>10, <1>11

\* CloseWindow
LEMMA CloseWindowStep ==
    ASSUME IInv, NEW w \in Windows, CloseWindow(w)
    PROVE  IInv'
<1> DEFINE o == [win[w] EXCEPT !.state = "closing", !.deferred = TRUE, !.closeAwaits = "timer"]
<1>1. /\ win[w].state = "open"
      /\ win' = [win EXCEPT ![w].state = "closing", ![w].deferred = TRUE,
                            ![w].closeAwaits = "timer"]
      /\ UNCHANGED <<main, changed, subscribed, toMain, toWindow, changes>>
  BY DEF CloseWindow
<1>2. /\ Loads(win[w], toMain[w], toWindow[w], w \in subscribed)
      /\ Updates(win[w], toMain[w], toWindow[w])
      /\ \A k \in Keys \ changed : Announced(toWindow[w], k, main[k])
      /\ win \in [Windows -> WindowRecord] /\ win[w] \in WindowRecord
  BY WindowParts
<1>3. win' = [win EXCEPT ![w] = o]
  BY <1>1, <1>2
<1>4. o \in WindowRecord
  BY <1>2 DEF WindowRecord, WindowStates
<1>5. /\ o.state = "closing" /\ o.deferred = TRUE /\ o.closeAwaits = "timer"
      /\ o.active = win[w].active /\ o.queued = win[w].queued
  BY <1>2 DEF WindowRecord
<1> HIDE DEF o
<1>6. Loads(o, toMain[w], toWindow[w], w \in subscribed)
  BY <1>1, <1>2, <1>5 DEF Loads
<1>7. Updates(o, toMain[w], toWindow[w]) /\ Closes(o, toMain[w])
  BY <1>1, <1>2, <1>5 DEF Updates, Closes
<1>8. \A k \in Keys : Holds(o, toMain[w], toWindow[w], k, main[k])
  BY <1>5 DEF Holds
<1>9. /\ toWindow' = [toWindow EXCEPT ![w] = toWindow[w]]
      /\ toMain' = [toMain EXCEPT ![w] = toMain[w]]
  BY <1>1, WindowParts, SameFunction
<1>10. /\ toWindow[w] \in Seq(ToWindowMessages) /\ toMain[w] \in Seq(ToMainMessages)
       /\ subscribed' = subscribed /\ subscribed \subseteq Windows
       /\ main' \in Items /\ changed' \in SUBSET Keys /\ changed' = changed /\ main' = main
       /\ changes' \in 0 .. MaxChanges
  BY <1>1, WindowParts
<1> QED BY <1>2, <1>3, <1>4, <1>6, <1>7, <1>8, <1>9, <1>10, LocalStep

\* A window that goes leaves nothing to be received; if it was closed it has
\* left nothing to be sent either.
LEMMA VanishStep ==
    ASSUME IInv, NEW w \in Windows, NEW state \in {"closed", "crashed"}, Vanish(w, state),
           state = "closed" => win[w].pending = NoRequest /\ toMain[w] = <<>>
    PROVE  IInv'
<1> DEFINE o == [win[w] EXCEPT !.state = state]
<1>1. /\ win' = [win EXCEPT ![w] = o] /\ subscribed' = subscribed \ {w}
      /\ toWindow' = [toWindow EXCEPT ![w] = <<>>]
      /\ UNCHANGED <<main, changed, toMain, changes>>
  BY DEF Vanish
<1>2. win[w] \in WindowRecord
  BY WindowParts
<1>3. o \in WindowRecord
  BY <1>2 DEF WindowRecord, WindowStates
<1>4. o.state = state /\ o.pending = win[w].pending
  BY <1>2 DEF WindowRecord
<1> HIDE DEF o
<1>5. Loads(o, toMain[w], <<>>, w \in subscribed')
  BY <1>4 DEF Loads
<1>6. Updates(o, toMain[w], <<>>) /\ Closes(o, toMain[w])
  BY <1>4 DEF Updates, Closes
<1>7. \A k \in Keys : Announced(<<>>, k, main[k]) /\ Holds(o, toMain[w], <<>>, k, main[k])
  BY <1>4 DEF Announced, Holds
<1>8. toMain' = [toMain EXCEPT ![w] = toMain[w]]
  BY <1>1, WindowParts, SameFunction
<1>9. /\ <<>> \in Seq(ToWindowMessages) /\ toMain[w] \in Seq(ToMainMessages)
      /\ subscribed' \subseteq Windows
      /\ \A x \in Windows \ {w} : x \in subscribed' <=> x \in subscribed
      /\ main' \in Items /\ changed' \in SUBSET Keys /\ changed' = changed /\ main' = main
      /\ changes' \in 0 .. MaxChanges
  BY <1>1, WindowParts
<1> QED BY <1>1, <1>3, <1>5, <1>6, <1>7, <1>8, <1>9, LocalStep

\* WindowClosed: the promise of close resolves after the last update.
LEMMA WindowClosedStep ==
    ASSUME IInv, NEW w \in Windows, WindowClosed(w)
    PROVE  IInv'
<1>1. win[w].state = "closing" /\ win[w].closeAwaits = "done" /\ Vanish(w, "closed")
  BY DEF WindowClosed
<1>2. win[w].pending = NoRequest /\ toMain[w] = <<>>
  BY <1>1, WindowParts DEF Closes, Updates
<1> QED BY <1>1, <1>2, VanishStep

-----------------------------------------------------------------------------
(* The theorems *)

\* No window has been opened.
LEMMA InitInvariant ==
    ASSUME Init
    PROVE  IInv
<1>1. NewWindow \in WindowRecord /\ NewWindow.state = "unopened" /\ ~NewWindow.active
  BY EmptyRequest DEF NewWindow, WindowRecord, WindowStates
<1>2. \A w \in Windows : /\ win[w] = NewWindow /\ toMain[w] = <<>> /\ toWindow[w] = <<>>
                         /\ w \notin subscribed
  BY DEF Init
<1>3. WindowInv
  BY <1>1, <1>2 DEF WindowInv, Loads, Updates, Closes
<1>4. AgreeInv
  BY <1>1, <1>2 DEF AgreeInv, Announced, Holds
<1>5. /\ win \in [Windows -> WindowRecord]
      /\ toMain \in [Windows -> Seq(ToMainMessages)]
      /\ toWindow \in [Windows -> Seq(ToWindowMessages)]
      /\ main \in Items /\ changed \subseteq Keys /\ subscribed \subseteq Windows
      /\ changes \in 0 .. MaxChanges
  BY <1>1, BoundsAssumption DEF Init
<1>6. \A w \in Windows : ~Alive(w)
  BY <1>1, <1>2 DEF Alive
<1>7. TypeOK
  BY <1>5, <1>6 DEF TypeOK, WindowRecord
<1> QED BY <1>3, <1>4, <1>7 DEF IInv

\* Every step keeps the invariant.
LEMMA NextInvariant ==
    ASSUME IInv, [Next]_vars
    PROVE  IInv'
<1>1. CASE Broadcast
  BY <1>1, BroadcastStep
<1>2. ASSUME NEW k \in Keys, NEW v \in Values \cup {NoValue}, MainChange(k, v)
      PROVE  IInv'
  BY <1>2, MainChangeStep
<1>3. ASSUME NEW w \in Windows,
             \/ HandleListen(w) \/ HandleGetItems(w) \/ HandleUpdateItems(w)
      PROVE  IInv'
  BY <1>3, HandleListenStep, HandleGetItemsStep, HandleUpdateItemsStep
<1>4. ASSUME NEW w \in Windows, OpenWindow(w) \/ WindowTimer(w) \/ CloseWindow(w)
      PROVE  IInv'
  BY <1>4, OpenWindowStep, WindowTimerStep, CloseWindowStep
<1>5. ASSUME NEW w \in Windows, NEW k \in Keys, NEW v \in Values \cup {NoValue},
             WindowChange(w, k, v)
      PROVE  IInv'
  BY <1>5, WindowChangeStep
<1>6. ASSUME NEW w \in Windows, ReceiveItems(w) \/ ReceiveUpdated(w) \/ ReceiveChange(w)
      PROVE  IInv'
  BY <1>6, ReceiveItemsStep, ReceiveUpdatedStep, ReceiveChangeStep
<1>7. ASSUME NEW w \in Windows, WindowClosed(w) \/ WindowCrashes(w)
      PROVE  IInv'
  BY <1>7, WindowClosedStep, VanishStep DEF WindowCrashes
<1>8. CASE UNCHANGED vars
  <2>1. TypeOK'
    BY <1>8 DEF IInv, TypeOK, Alive, vars
  <2>2. WindowInv'
    BY <1>8 DEF IInv, WindowInv, vars
  <2>3. AgreeInv'
    BY <1>8 DEF IInv, AgreeInv, vars
  <2> QED BY <2>1, <2>2, <2>3 DEF IInv
<1> QED BY <1>1, <1>2, <1>3, <1>4, <1>5, <1>6, <1>7, <1>8 DEF Next

\* The invariant holds in every state.
LEMMA InvariantHolds == Spec => []IInv
<1>1. Init => IInv
  BY InitInvariant
<1>2. IInv /\ [Next]_vars => IInv'
  BY NextInvariant
<1> QED BY <1>1, <1>2, PTL DEF Spec

\* Every variable has its type, and an update that the throttler of a window
\* waits for is on its way to the main process or back.
THEOREM SharedTypeCorrect == Spec => []TypeOK
<1>1. IInv => TypeOK
  BY DEF IInv
<1> QED BY <1>1, InvariantHolds, PTL

\* What is on the way to an open window: messages about a key are change events.
LEMMA CachesAgreeFollows ==
    ASSUME IInv
    PROVE  CachesAgree
<1> SUFFICES ASSUME NEW w \in Windows, NEW k \in Keys, win[w].state = "open",
                    k \notin changed, k \notin Outgoing(w), k \notin Incoming(w)
             PROVE  win[w].cache[k] = main[k]
  BY DEF CachesAgree
<1>1. /\ Loads(win[w], toMain[w], toWindow[w], w \in subscribed)
      /\ Holds(win[w], toMain[w], toWindow[w], k, main[k])
  BY WindowParts
<1>2. NoneCarries(toWindow[w], k)
  <2> SUFFICES ASSUME NEW i \in DOMAIN toWindow[w], Carries(toWindow[w][i], k)
               PROVE  FALSE
    BY DEF NoneCarries
  <2>1. toWindow[w][i].type = "change" /\ k \in toWindow[w][i].keys
    BY <1>1 DEF Carries, Loads, Without
  <2>2. toWindow[w][i] \in {n \in ToSet(toWindow[w]) : n.type = "change"}
    BY <2>1 DEF ToSet
  <2>3. k \in Incoming(w)
    BY <2>1, <2>2 DEF Incoming
  <2> QED BY <2>3
<1>3. ~OwnChange(win[w], toMain[w], k)
  <2>1. k \notin Touched(win[w].pending)
    BY DEF Outgoing
  <2>2. ASSUME NEW r \in Requests, toMain[w] = <<UpdateItems(r)>>
        PROVE  k \notin Touched(r)
    <3>1. UpdateItems(r) \in ToSet(toMain[w])
      BY <2>2 DEF ToSet
    <3>2. UpdateItems(r) \in {n \in ToSet(toMain[w]) : n.type = "updateItems"}
      BY <3>1, ToMainTypes
    <3>3. Touched(UpdateItems(r).request) \subseteq Outgoing(w)
      BY <3>2 DEF Outgoing
    <3> QED BY <3>3, ToMainTypes
  <2> QED BY <2>1, <2>2 DEF OwnChange
<1> QED BY <1>1, <1>2, <1>3 DEF Holds

\* A window's cache differs from the cache of the main process only in keys
\* that are still under way, for any number of windows, keys and changes.
THEOREM CachesCorrect == Spec => []CachesAgree
<1>1. IInv => CachesAgree
  BY CachesAgreeFollows
<1> QED BY <1>1, InvariantHolds, PTL

\* A window that was closed has handed over every change it had made.
THEOREM CloseHandsOver == Spec => []CloseDelivers
<1>1. ASSUME IInv
      PROVE  CloseDelivers
  <2> SUFFICES ASSUME NEW w \in Windows, win[w].state = "closed"
               PROVE  Outgoing(w) = {}
    BY DEF CloseDelivers
  <2>1. win[w].pending = NoRequest /\ toMain[w] = <<>>
    BY <1>1, WindowParts DEF Closes
  <2>2. ToSet(toMain[w]) = {}
    BY <2>1 DEF ToSet
  <2> QED BY <2>1, <2>2, EmptyRequest DEF Outgoing
<1>2. IInv => CloseDelivers
  BY <1>1
<1> QED BY <1>2, InvariantHolds, PTL

=============================================================================
