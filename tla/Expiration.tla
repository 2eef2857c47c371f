----------------------------- MODULE Expiration -----------------------------
(***************************************************************************)
(* Expiry of keys in a running server: the commands that give a key a time *)
(* to live and register it (commands/keys.py, strings.py), the heap of     *)
(* registered times (expiration/heap.py) and the task that purges expired  *)
(* keys (expiration/manager.py).                                           *)
(*                                                                         *)
(* The dictionary of entries is the one of CPython, because two walks over *)
(* it depend on its order: a table of slots in order of insertion, in which*)
(* a deleted key leaves a hole, and which is rebuilt without its holes at  *)
(* some insertions.                                                        *)
(*                                                                         *)
(* Entries are objects.  A thread that saves the dataset has one of them in*)
(* its hands (held) while commands go on: some change the object, others   *)
(* put a new one in its place, and RENAME stores it under another name.  A *)
(* value is a hash, which is changed in place; a string is a value of one  *)
(* field that commands only replace.                                       *)
(***************************************************************************)
EXTENDS Integers, Sequences, FiniteSets, FiniteSetsExt, Bags

CONSTANTS Key,                     \* names of keys
          Field,                   \* fields of a value
          Content,                 \* what a field may hold
          NoContent,               \* the field is not there
          Absent,                  \* no entry
          Hole,                    \* a slot whose key was deleted
          Never,                   \* no time to live
          Nowhere,                 \* the object held is no longer stored
          BatchSize,               \* _batch_size of the manager
          MaxSlots,                \* slots after which the table is rebuilt
          MaxTime,                 \* bound: the clock
          MaxItems                 \* bound: items on the heap

ASSUME ExpirationAssumption ==
    /\ IsFiniteSet(Key) /\ Hole \notin Key /\ Nowhere \notin Key
    /\ NoContent \notin Content
    /\ BatchSize \in Nat \ {0}
    /\ MaxSlots \in Nat /\ MaxSlots >= Cardinality(Key)
    /\ MaxTime \in Nat
    /\ Never \notin Nat

VARIABLES dict,                    \* Keyspace._entries
          heap,                    \* bag of <<time, key>>
          now,                     \* the clock
          renamed,                 \* history: keys whose expiry came by RENAME
          held                     \* the entry object in the hands of a thread

Value == [Field -> Content \cup {NoContent}]

Empty == [f \in Field |-> NoContent]

FieldsOf(v) == {f \in Field : v[f] # NoContent}

NoKeys == [slots |-> <<>>, entry |-> [k \in Key |-> Absent]]

IsExpired(entry) == entry # Absent /\ entry.exp # Never /\ entry.exp <= now

Live(d, k) == IF IsExpired(d.entry[k]) THEN Absent ELSE d.entry[k]

\* The elements of a sequence that are at some of its places, in their order.
Picked(s, places) ==
    LET upto[n \in 0..Len(s)] ==
            IF n = 0 THEN <<>>
            ELSE IF n \in places THEN Append(upto[n - 1], s[n]) ELSE upto[n - 1]
    IN  upto[Len(s)]

Filled(d) == {i \in DOMAIN d.slots : d.slots[i] # Hole}

InDictOrder(d) == Picked(d.slots, Filled(d))

Removed(d, k) ==
    [slots |-> [i \in DOMAIN d.slots |-> IF d.slots[i] = k THEN Hole ELSE d.slots[i]],
     entry |-> [d.entry EXCEPT ![k] = Absent]]

RemovedAll(d, keys) ==
    [slots |-> [i \in DOMAIN d.slots |-> IF d.slots[i] \in keys THEN Hole ELSE d.slots[i]],
     entry |-> [k \in Key |-> IF k \in keys THEN Absent ELSE d.entry[k]]]

(***************************************************************************)
(* What storing an entry can make of the dictionary: an entry that is there*)
(* is replaced where it is, a new key comes last.                          *)
(***************************************************************************)
Put(d, k, entry) ==
    {[slots |-> s, entry |-> [d.entry EXCEPT ![k] = entry]] :
        s \in IF d.entry[k] # Absent THEN {d.slots}
              ELSE {Append(InDictOrder(d), k)}
                   \cup {Append(t, k) : t \in {u \in {d.slots} : Len(u) < MaxSlots}}}

\* get_entry, by which most commands begin.
Looked(d, k) == IF IsExpired(d.entry[k]) THEN Removed(d, k) ELSE d

\* The entry of a key with another expiry.
Timed(d, k, exp) ==
    [slots |-> d.slots,
     entry |-> [d.entry EXCEPT ![k] = [val |-> d.entry[k].val, exp |-> exp]]]

\* The entry of a key with another value.
Valued(d, k, v) ==
    [slots |-> d.slots,
     entry |-> [d.entry EXCEPT ![k] = [val |-> v, exp |-> d.entry[k].exp]]]

(***************************************************************************)
(* The object held: the key that it is stored under, or what it was when it*)
(* was last stored, and those of its fields that the thread has passed and *)
(* that have been there ever since.                                        *)
(***************************************************************************)
NoHold == [at |-> Nowhere, entry |-> Absent, passed |-> {}]

Object == IF held.at = Nowhere THEN held.entry ELSE dict.entry[held.at]

\* The object of a key leaves the dictionary.
Drop(k) == IF held.at = k THEN [held EXCEPT !.at = Nowhere, !.entry = dict.entry[k]] ELSE held

\* ... of any of the keys that a step removes.
DropRemoved ==
    IF held.at # Nowhere /\ dict'.entry[held.at] = Absent THEN Drop(held.at) ELSE held

Register(k, time) ==
    /\ BagCardinality(heap) < MaxItems
    /\ heap' = heap (+) SetToBag({<<time, k>>})

(***************************************************************************)
(* SET, with or without an expiry time; INCR and its like, which keep it.  *)
(***************************************************************************)
Set(k, v, exp) ==
    /\ dict' \in Put(Looked(dict, k), k, [val |-> v, exp |-> exp])
    /\ IF exp = Never THEN UNCHANGED heap ELSE Register(k, exp)
    /\ renamed' = renamed \ {k}
    /\ held' = Drop(k)
    /\ UNCHANGED now

Incr(k, v) ==
    LET old == Live(dict, k)
    IN  /\ dict' \in Put(Looked(dict, k), k,
                         [val |-> v, exp |-> IF old = Absent THEN Never ELSE old.exp])
        /\ held' = Drop(k)
        /\ UNCHANGED <<heap, now, renamed>>

(***************************************************************************)
(* HSET and HDEL of one field: the hash is changed where it is.  A new hash*)
(* is stored with its field, one that has lost its last field is deleted.  *)
(***************************************************************************)
HSet(k, f, c) ==
    LET old == Live(dict, k)
    IN  /\ IF old = Absent
           THEN /\ dict' \in Put(Looked(dict, k), k,
                                 [val |-> [Empty EXCEPT ![f] = c], exp |-> Never])
                /\ held' = Drop(k)
           ELSE /\ dict' = Valued(dict, k, [old.val EXCEPT ![f] = c])
                /\ UNCHANGED held
        /\ UNCHANGED <<heap, now, renamed>>

HDel(k, f) ==
    LET old  == Live(dict, k)
        less == [old.val EXCEPT ![f] = NoContent]
        lost == [held EXCEPT !.passed = @ \ {f}]
    IN  /\ IF old = Absent THEN dict' = Looked(dict, k) /\ held' = DropRemoved
           ELSE IF less = Empty
           THEN /\ dict' = Removed(dict, k)
                /\ held' = IF held.at # k THEN held
                           ELSE [lost EXCEPT !.at = Nowhere,
                                             !.entry = [val |-> Empty, exp |-> old.exp]]
           ELSE /\ dict' = Valued(dict, k, less)
                /\ held' = IF held.at # k THEN held ELSE lost
        /\ UNCHANGED <<heap, now, renamed>>

(***************************************************************************)
(* EXPIRE, PEXPIRE, EXPIREAT, PEXPIREAT and GETEX: a time that has passed  *)
(* deletes the key, and is registered all the same.                        *)
(***************************************************************************)
ExpireAt(k, time) ==
    LET looked == Looked(dict, k)
    IN  /\ IF looked.entry[k] = Absent
           THEN dict' = looked /\ UNCHANGED <<heap, renamed>>
           ELSE /\ dict' = IF time <= now THEN Removed(looked, k)
                           ELSE Timed(looked, k, time)
                /\ Register(k, time)
                /\ renamed' = renamed \ {k}
        /\ held' = DropRemoved
        /\ UNCHANGED now

Persist(k) ==
    LET looked == Looked(dict, k)
    IN  /\ dict' = IF looked.entry[k] = Absent THEN looked
                   ELSE Timed(looked, k, Never)
        /\ held' = DropRemoved
        /\ renamed' = renamed \ {k}
        /\ UNCHANGED <<heap, now>>

\* RENAME registers nothing under the new name; a key renamed to itself is deleted.
Rename(k, l) ==
    LET moving == Live(dict, k)
    IN  /\ IF moving = Absent
           THEN dict' = Looked(dict, k) /\ held' = DropRemoved /\ UNCHANGED renamed
           ELSE /\ dict' \in {Removed(d, k) : d \in Put(dict, l, moving)}
                /\ held' = IF held.at = k /\ k # l THEN [held EXCEPT !.at = l] ELSE Drop(l)
                /\ renamed' = IF moving.exp = Never THEN renamed \ {k, l}
                              ELSE (renamed \cup {l}) \ {k}
        /\ UNCHANGED <<heap, now>>

Del(k) ==
    /\ dict' = Removed(dict, k)
    /\ held' = DropRemoved
    /\ renamed' = renamed \ {k}
    /\ UNCHANGED <<heap, now>>

Flush ==
    /\ dict' = NoKeys
    /\ held' = DropRemoved
    /\ renamed' = {}
    /\ UNCHANGED <<heap, now>>

\* A command that only reads still removes a key it finds expired.
Access(k) ==
    /\ IsExpired(dict.entry[k])
    /\ dict' = Removed(dict, k)
    /\ held' = DropRemoved
    /\ UNCHANGED <<heap, now, renamed>>

Tick ==
    /\ now < MaxTime
    /\ now' = now + 1
    /\ UNCHANGED <<dict, heap, renamed, held>>
-----------------------------------------------------------------------------
Due == {item \in BagToSet(heap) : item[1] <= now}

(***************************************************************************)
(* pop_expired: the earliest of the items that are due, at most BatchSize. *)
(* The order of items of the same time is up to the heap.                  *)
(***************************************************************************)
DueCount == BagCardinality([item \in Due |-> heap[item]])

Popped ==
    {b \in UNION {[items -> 1..BatchSize] : items \in SUBSET Due} :
        /\ b \sqsubseteq heap
        /\ BagCardinality(b) = Min({BatchSize, DueCount})
        /\ \A x \in BagToSet(b), y \in BagToSet(heap (-) b) : x[1] <= y[1]}

\* The sweep looks at the first keys of the dictionary only.
Swept(d) ==
    LET first == {i \in Filled(d) : Cardinality({j \in Filled(d) : j <= i}) <= BatchSize}
    IN  RemovedAll(d, {k \in {d.slots[i] : i \in first} : IsExpired(d.entry[k])})

\* Wrong on purpose: an item on the heap is taken for the expiry of its key.
PurgedByItem(items) == Swept(RemovedAll(dict, {item[2] : item \in items}))

Purged(items) ==
    Swept(RemovedAll(dict, {k \in {item[2] : item \in items} : IsExpired(dict.entry[k])}))

\* Wrong on purpose: the items stay on the heap.
PurgePeeking ==
    /\ \E b \in Popped : dict' = Purged(BagToSet(b))
    /\ held' = DropRemoved
    /\ UNCHANGED <<heap, now, renamed>>

\* purge_expired_batch
Purge ==
    /\ \E b \in Popped :
          /\ heap' = heap (-) b
          /\ dict' = Purged(BagToSet(b))
    /\ held' = DropRemoved
    /\ UNCHANGED <<now, renamed>>
=============================================================================
