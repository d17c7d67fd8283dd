---------------------------- MODULE StorageCache ----------------------------
(***************************************************************************)
(* The data of a Storage object (base/parts/storage/common/storage.ts):    *)
(* the cache every read is answered from, and the inserts and deletes that *)
(* have been made to the cache and not yet been handed to the database.    *)
(*                                                                         *)
(* A map from keys to strings is a function on Keys whose value is NoValue *)
(* where the map has no entry.  What a value looks like (JSON, numbers,    *)
(* booleans) is left out: the code compares the converted strings only.    *)
(***************************************************************************)
EXTENDS Naturals, FiniteSets

CONSTANTS
    Keys,       \* keys of the storage
    Values,     \* strings stored under them
    NoValue     \* "undefined": the key has no entry

ASSUME NoValueAssumption == NoValue \notin Values

Items == [Keys -> Values \cup {NoValue}]

NoItems == [k \in Keys |-> NoValue]

\* IUpdateRequest: what updateItems is asked to insert and to delete
Requests == [insert : Items, delete : SUBSET Keys]

NoRequest == [insert |-> NoItems, delete |-> {}]

\* hasPending
HasChanges(r) == r.insert # NoItems \/ r.delete # {}

\* MUTANT: a delete that is pending stays so.
SetItemKeepsDelete(s, k, v) ==
    IF s.cache[k] = v
    THEN s
    ELSE [s EXCEPT !.cache[k] = v, !.pending.insert[k] = v]

\* set: nothing happens when the cache holds the value already
SetItem(s, k, v) ==
    IF s.cache[k] = v
    THEN s
    ELSE [s EXCEPT !.cache[k] = v,
                   !.pending.insert[k] = v,
                   !.pending.delete = @ \ {k}]

\* delete: nothing happens when the cache has no entry for the key
DeleteItem(s, k) ==
    IF s.cache[k] = NoValue
    THEN s
    ELSE [s EXCEPT !.cache[k] = NoValue,
                   !.pending.insert[k] = NoValue,
                   !.pending.delete = @ \cup {k}]

\* set with a value, delete with NoValue (set(undefined) is delete)
Store(s, k, v) == IF v = NoValue THEN DeleteItem(s, k) ELSE SetItem(s, k, v)

\* What a database holds once it has carried out an update request: the
\* deletes follow the inserts
Apply(items, r) ==
    [k \in Keys |-> IF k \in r.delete THEN NoValue
                    ELSE IF r.insert[k] # NoValue THEN r.insert[k]
                    ELSE items[k]]

=============================================================================
