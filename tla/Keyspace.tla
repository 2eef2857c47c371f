------------------------------ MODULE Keyspace ------------------------------
(***************************************************************************)
(* One NomDB database: the dictionary of key -> StorageEntry with lazy     *)
(* expiry, and the version counters WATCH/EXEC compares                    *)
(* (storage/keyspace.py, storage/entry.py).                                *)
(*                                                                         *)
(* Every method of class Keyspace that changes the database is an operator *)
(* from the database before to the database after, so that the command     *)
(* layer composes them in the order the code calls them.  What a command   *)
(* returns to the client is not part of the database and is left out.      *)
(***************************************************************************)
EXTENDS Integers, FiniteSets

CONSTANTS
    Key,      \* the names a client may use
    Absent    \* "no entry under this name"

ASSUME KeyAssumption == IsFiniteSet(Key)

Never == -1                        \* expire_at_ms is None

(***************************************************************************)
(* The model distinguishes strings from the four container types, which    *)
(* the commands treat alike.  The value of a container is its number of    *)
(* elements; the value of a string is a number, and 0 stands for every     *)
(* text that int() refuses.                                                *)
(***************************************************************************)
DataType == {"string", "container"}
Entry == [type : DataType, val : Nat, exp : Nat \cup {Never}]

ASSUME AbsentAssumption == Absent \notin Entry

KeyspaceType == [entries : [Key -> Entry \cup {Absent}],
                 ver     : [Key -> Nat],
                 glob    : Nat]

EmptyKeyspace == [entries |-> [k \in Key |-> Absent],
                  ver     |-> [k \in Key |-> 0],
                  glob    |-> 0]

Stored(ks) == {k \in Key : ks.entries[k] # Absent}

IsExpired(e, now) == e.exp # Never /\ now >= e.exp

Expired(ks, now) == {k \in Stored(ks) : IsExpired(ks.entries[k], now)}

MarkModified(ks, k) ==
    [entries |-> ks.entries,
     ver     |-> [ks.ver EXCEPT ![k] = ks.glob + 1],
     glob    |-> ks.glob + 1]

\* Wrong on purpose: forgets the version of a deleted name.
DeleteForgettingVersion(ks, names) ==
    LET gone == names \cap Stored(ks)
    IN  [entries |-> [k \in Key |-> IF k \in gone THEN Absent ELSE ks.entries[k]],
         ver     |-> [k \in Key |-> IF k \in gone THEN 0 ELSE ks.ver[k]],
         glob    |-> ks.glob + Cardinality(gone)]

(***************************************************************************)
(* Deleting a set of names.  The code deletes them one at a time and gives *)
(* each its own version; versions are only ever compared with older        *)
(* versions of the same name, so all of them get the last one here.        *)
(***************************************************************************)
Delete(ks, names) ==
    LET gone == names \cap Stored(ks)
        last == ks.glob + Cardinality(gone)
    IN  [entries |-> [k \in Key |-> IF k \in gone THEN Absent ELSE ks.entries[k]],
         ver     |-> [k \in Key |-> IF k \in gone THEN last ELSE ks.ver[k]],
         glob    |-> last]

Flush(ks) == Delete(ks, Stored(ks))

(***************************************************************************)
(* get_entry: the entry it returns, and the database it leaves behind (an  *)
(* expired entry is deleted by the look-up itself).                        *)
(***************************************************************************)
Found(ks, k, now) == IF k \in Expired(ks, now) THEN Absent ELSE ks.entries[k]
Lookup(ks, k, now) == Delete(ks, {k} \cap Expired(ks, now))

Put(ks, k, type, val, exp) ==
    MarkModified([ks EXCEPT !.entries[k] = [type |-> type, val |-> val, exp |-> exp]], k)

\* Wrong on purpose: a change of the TTL does not count as a modification.
SetExpiryUnmarked(ks, k, exp) ==
    [ks EXCEPT !.entries[k].exp = exp]

SetExpiry(ks, k, exp) ==
    MarkModified([ks EXCEPT !.entries[k].exp = exp], k)

\* Wrong on purpose: stores an expiry that has already passed.
ExpireAtUnchecked(ks, k, at, now) ==
    LET looked == Lookup(ks, k, now)
    IN  IF Found(ks, k, now) = Absent THEN looked ELSE SetExpiry(looked, k, at)

ExpireAt(ks, k, at, now) ==
    LET looked == Lookup(ks, k, now)
    IN  IF Found(ks, k, now) = Absent THEN looked
        ELSE IF at <= now THEN Delete(looked, {k})
        ELSE SetExpiry(looked, k, at)

\* Wrong on purpose: takes the entry without looking whether it has expired.
PersistExpired(ks, k, now) ==
    IF ks.entries[k] = Absent THEN ks
    ELSE IF ks.entries[k].exp = Never THEN ks
    ELSE SetExpiry(ks, k, Never)

Persist(ks, k, now) ==
    LET looked == Lookup(ks, k, now)
        entry  == Found(ks, k, now)
    IN  IF entry = Absent THEN looked
        ELSE IF entry.exp = Never THEN looked
        ELSE SetExpiry(looked, k, Never)

\* Wrong on purpose: the name that is overwritten is not marked.
RenameMarkingSource(ks, src, dst, now) ==
    LET looked == Lookup(ks, src, now)
        entry  == Found(ks, src, now)
        moved  == [looked EXCEPT !.entries =
                      [[@ EXCEPT ![dst] = entry] EXCEPT ![src] = Absent]]
    IN  IF entry = Absent THEN looked ELSE MarkModified(moved, src)

(***************************************************************************)
(* The entry is stored under its new name before the old name is deleted,  *)
(* so renaming a key to itself deletes it.                                 *)
(***************************************************************************)
Rename(ks, src, dst, now) ==
    LET looked == Lookup(ks, src, now)
        entry  == Found(ks, src, now)
        moved  == [looked EXCEPT !.entries =
                      [[@ EXCEPT ![dst] = entry] EXCEPT ![src] = Absent]]
    IN  IF entry = Absent THEN looked
        ELSE MarkModified(MarkModified(moved, src), dst)

RenameNx(ks, src, dst, now) ==
    IF Found(ks, dst, now) # Absent
    THEN Lookup(ks, dst, now)
    ELSE Rename(Lookup(ks, dst, now), src, dst, now)

(***************************************************************************)
(* What a client can see of a database, and a database from which every    *)
(* expired entry has already been removed.                                 *)
(***************************************************************************)
Visible(ks, now) == [k \in Key |-> Found(ks, k, now)]
Swept(ks, now) == Delete(ks, Expired(ks, now))

(***************************************************************************)
(* b is a later state of the database a: a name whose version is the same  *)
(* has the same entry, and a name whose version differs has one that was   *)
(* never issued before.  This is all that WATCH relies on.                 *)
(***************************************************************************)
Advances(a, b) ==
    /\ a.glob <= b.glob
    /\ \A k \in Key :
          \/ b.ver[k] = a.ver[k] /\ b.entries[k] = a.entries[k]
          \/ a.glob < b.ver[k] /\ b.ver[k] <= b.glob
=============================================================================
