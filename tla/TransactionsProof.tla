------------------------- MODULE TransactionsProof --------------------------
(***************************************************************************)
(* Theorems about commands and about the transaction engine, for every     *)
(* number of clients, keys and databases, every set of requests and every  *)
(* memory limit.                                                           *)
(*                                                                         *)
(* The first half says what every command does to a database: it keeps the *)
(* type, and it only moves the database forward in the sense of Advances.  *)
(* The proof follows the code: a fact for each method of Keyspace, then one*)
(* for each command, by composition.  Along the same lines: what a command *)
(* shows depends only on what was visible.                                 *)
(*                                                                         *)
(* The argument of the second half: no step of the server takes a database *)
(* anywhere but forward (StepLater), and a watched version was issued      *)
(* before (WatchedIssued), so a key that still has its watched version     *)
(* cannot have changed.                                                    *)
(***************************************************************************)
EXTENDS Transactions, FiniteSetTheorems, TLAPS

(***************************************************************************)
(* ks2 is a proper database, and a later state of the database ks.         *)
(***************************************************************************)
Later(ks, ks2) == ks2 \in KeyspaceType /\ Advances(ks, ks2)

-----------------------------------------------------------------------------
(***************************************************************************)
(* Advances is a preorder on databases (chains of Keyspace methods).       *)
(***************************************************************************)
LEMMA LaterReflexive ==
    ASSUME NEW ks \in KeyspaceType
    PROVE  Later(ks, ks)
BY DEF Later, Advances, KeyspaceType

(***************************************************************************)
(* Later is transitive: the steps of a command add up.                     *)
(***************************************************************************)
LEMMA LaterTransitive ==
    ASSUME NEW a \in KeyspaceType, NEW b, NEW c, Later(a, b), Later(b, c)
    PROVE  Later(a, c)
<1>1. a.glob \in Nat /\ b.glob \in Nat /\ c.glob \in Nat
  BY DEF Later, KeyspaceType
<1>2. \A k \in Key : a.ver[k] \in Nat /\ b.ver[k] \in Nat /\ c.ver[k] \in Nat
  BY DEF Later, KeyspaceType
<1>3. a.glob <= c.glob
  BY <1>1 DEF Later, Advances
<1>4. ASSUME NEW k \in Key
      PROVE  \/ c.ver[k] = a.ver[k] /\ c.entries[k] = a.entries[k]
             \/ a.glob < c.ver[k] /\ c.ver[k] <= c.glob
  <2>1. CASE c.ver[k] = b.ver[k] /\ c.entries[k] = b.entries[k]
    BY <2>1, <1>1, <1>2 DEF Later, Advances
  <2>2. CASE b.glob < c.ver[k] /\ c.ver[k] <= c.glob
    BY <2>2, <1>1, <1>2 DEF Later, Advances
  <2>3. QED
    BY <2>1, <2>2 DEF Later, Advances
<1>5. QED
  BY <1>3, <1>4 DEF Later, Advances

-----------------------------------------------------------------------------
(***************************************************************************)
(* The methods of Keyspace.                                                *)
(***************************************************************************)

(***************************************************************************)
(* get_entry returns an entry or nothing.                                  *)
(***************************************************************************)
LEMMA FoundType ==
    ASSUME NEW ks \in KeyspaceType, NEW k \in Key, NEW time
    PROVE  /\ Found(ks, k, time) \in Entry \cup {Absent}
           /\ Found(ks, k, time) # Absent => ks.entries[k] = Found(ks, k, time)
BY DEF Found, KeyspaceType

(***************************************************************************)
(* Replacing one entry and marking the key (set, persist, expire_at, and   *)
(* the container commands) moves the database forward.                     *)
(***************************************************************************)
LEMMA MarkedLater ==
    ASSUME NEW ks \in KeyspaceType, NEW k \in Key, NEW e \in Entry \cup {Absent}
    PROVE  Later(ks, MarkModified([ks EXCEPT !.entries[k] = e], k))
<1> DEFINE mid == [ks EXCEPT !.entries[k] = e]
           ks2 == MarkModified(mid, k)
<1>1. /\ ks.entries \in [Key -> Entry \cup {Absent}]
      /\ ks.ver \in [Key -> Nat]
      /\ ks.glob \in Nat
  BY DEF KeyspaceType
<1>2. mid = [entries |-> [ks.entries EXCEPT ![k] = e], ver |-> ks.ver, glob |-> ks.glob]
  BY DEF KeyspaceType
<1>3. ks2 = [entries |-> [ks.entries EXCEPT ![k] = e],
             ver     |-> [ks.ver EXCEPT ![k] = ks.glob + 1],
             glob    |-> ks.glob + 1]
  BY <1>2 DEF MarkModified
<1> HIDE DEF ks2
<1>4. ks2 \in KeyspaceType
  <2>1. [ks.entries EXCEPT ![k] = e] \in [Key -> Entry \cup {Absent}]
    BY <1>1
  <2>2. [ks.ver EXCEPT ![k] = ks.glob + 1] \in [Key -> Nat]
    BY <1>1
  <2>3. ks.glob + 1 \in Nat
    BY <1>1
  <2>4. QED
    BY <1>3, <2>1, <2>2, <2>3 DEF KeyspaceType
<1>5. Advances(ks, ks2)
  <2>1. ASSUME NEW j \in Key
        PROVE  \/ ks2.ver[j] = ks.ver[j] /\ ks2.entries[j] = ks.entries[j]
               \/ ks.glob < ks2.ver[j] /\ ks2.ver[j] <= ks2.glob
    <3>1. CASE j = k
      <4>1. ks2.ver[j] = ks.glob + 1 /\ ks2.glob = ks.glob + 1
        BY <1>1, <1>3, <3>1
      <4>2. QED
        BY <1>1, <4>1
    <3>2. CASE j # k
      BY <1>1, <1>3, <3>2
    <3>3. QED
      BY <3>1, <3>2
  <2>2. ks.glob <= ks2.glob
    BY <1>1, <1>3
  <2>3. QED
    BY <2>1, <2>2 DEF Advances
<1>6. QED
  BY <1>4, <1>5 DEF Later, ks2

(***************************************************************************)
(* delete and flush, for any set of names.                                 *)
(***************************************************************************)
LEMMA DeleteLater ==
    ASSUME NEW ks \in KeyspaceType, NEW names
    PROVE  Later(ks, Delete(ks, names))
<1> DEFINE gone == names \cap Stored(ks)
           last == ks.glob + Cardinality(gone)
           ks2  == Delete(ks, names)
<1>1. IsFiniteSet(gone)
  BY KeyAssumption, FS_Subset DEF Stored
<1>2. Cardinality(gone) \in Nat
  BY <1>1, FS_CardinalityType
<1>3. ASSUME NEW k \in gone
      PROVE  Cardinality(gone) # 0
  BY <1>1, FS_EmptySet
<1>4. /\ ks2.entries = [k \in Key |-> IF k \in gone THEN Absent ELSE ks.entries[k]]
      /\ ks2.ver = [k \in Key |-> IF k \in gone THEN last ELSE ks.ver[k]]
      /\ ks2.glob = last
  BY DEF Delete
<1>5. last \in Nat /\ ks.glob \in Nat /\ ks.glob <= last
  BY <1>2 DEF KeyspaceType
<1>6. ks2 \in KeyspaceType
  BY <1>5 DEF Delete, KeyspaceType
<1>7. ASSUME NEW k \in gone
      PROVE  ks.glob < last
  <2> DEFINE n == Cardinality(gone)
  <2>1. n \in Nat /\ n # 0 /\ ks.glob \in Nat /\ last = ks.glob + n
    BY <1>2, <1>3, <1>5
  <2> HIDE DEF n, last
  <2>2. QED
    BY <2>1
<1>8. Advances(ks, ks2)
  <2>1. ASSUME NEW k \in Key
        PROVE  \/ ks2.ver[k] = ks.ver[k] /\ ks2.entries[k] = ks.entries[k]
               \/ ks.glob < ks2.ver[k] /\ ks2.ver[k] <= ks2.glob
    <3>1. CASE k \in gone
      <4>1. ks2.ver[k] = last /\ ks2.glob = last
        BY <1>4, <3>1
      <4>2. QED
        BY <1>5, <1>7, <3>1, <4>1
    <3>2. CASE k \notin gone
      BY <1>4, <3>2
    <3>3. QED
      BY <3>1, <3>2
  <2> HIDE DEF gone, last, ks2
  <2>2. QED
    BY <1>4, <1>5, <2>1 DEF Advances
<1>9. QED
  BY <1>6, <1>8 DEF Later

(***************************************************************************)
(* The look-up of every command, with its lazy deletion (get_entry).       *)
(***************************************************************************)
LEMMA LookupLater ==
    ASSUME NEW ks \in KeyspaceType, NEW k \in Key, NEW time
    PROVE  Later(ks, Lookup(ks, k, time))
BY DeleteLater DEF Lookup

(***************************************************************************)
(* A look-up does not touch the entry it finds.                            *)
(***************************************************************************)
LEMMA LookupKeepsFound ==
    ASSUME NEW ks \in KeyspaceType, NEW k \in Key, NEW time,
           Found(ks, k, time) # Absent
    PROVE  Lookup(ks, k, time).entries[k] = Found(ks, k, time)
<1>1. k \notin {k} \cap Expired(ks, time)
  BY DEF Found
<1>2. Lookup(ks, k, time).entries[k] = ks.entries[k]
  BY <1>1 DEF Lookup, Delete
<1>3. QED
  BY <1>2, FoundType

(***************************************************************************)
(* Storing a new entry under a name (Keyspace.set).                        *)
(***************************************************************************)
LEMMA PutLater ==
    ASSUME NEW ks \in KeyspaceType, NEW k \in Key, NEW type \in DataType,
           NEW val \in Nat, NEW exp \in Nat \cup {Never}
    PROVE  Later(ks, Put(ks, k, type, val, exp))
BY MarkedLater DEF Put, Entry

(***************************************************************************)
(* expire_at and persist change the entry of a key that has one.           *)
(***************************************************************************)
LEMMA SetExpiryLater ==
    ASSUME NEW ks \in KeyspaceType, NEW k \in Key, ks.entries[k] # Absent,
           NEW exp \in Nat \cup {Never}
    PROVE  Later(ks, SetExpiry(ks, k, exp))
<1> DEFINE e == [ks.entries[k] EXCEPT !.exp = exp]
<1>1. ks.entries[k] \in Entry
  BY DEF KeyspaceType
<1>2. e \in Entry
  BY <1>1 DEF Entry
<1>3. SetExpiry(ks, k, exp) = MarkModified([ks EXCEPT !.entries[k] = e], k)
  BY DEF SetExpiry
<1>4. QED
  BY <1>2, <1>3, MarkedLater

(***************************************************************************)
(* A container changed in place and marked (the tail of Push and Pop).     *)
(***************************************************************************)
LEMMA ResizeLater ==
    ASSUME NEW ks \in KeyspaceType, NEW k \in Key, ks.entries[k] # Absent,
           NEW size \in Nat
    PROVE  Later(ks, Resize(ks, k, size))
<1> DEFINE e == [ks.entries[k] EXCEPT !.val = size]
<1>1. ks.entries[k] \in Entry
  BY DEF KeyspaceType
<1>2. e \in Entry
  BY <1>1 DEF Entry
<1>3. Resize(ks, k, size) = MarkModified([ks EXCEPT !.entries[k] = e], k)
  BY DEF Resize
<1>4. QED
  BY <1>2, <1>3, MarkedLater

(***************************************************************************)
(* EXPIRE and its siblings, an expiry that has passed included.            *)
(***************************************************************************)
LEMMA ExpireAtLater ==
    ASSUME NEW ks \in KeyspaceType, NEW k \in Key, NEW at \in Int, NEW time \in Nat
    PROVE  Later(ks, ExpireAt(ks, k, at, time))
<1> DEFINE looked == Lookup(ks, k, time)
<1>1. Later(ks, looked)
  BY LookupLater
<1>2. looked \in KeyspaceType
  BY <1>1 DEF Later
<1> HIDE DEF looked
<1>3. CASE Found(ks, k, time) = Absent
  BY <1>1, <1>3 DEF ExpireAt, looked
<1>4. CASE Found(ks, k, time) # Absent /\ at <= time
  <2>1. ExpireAt(ks, k, at, time) = Delete(looked, {k})
    BY <1>4 DEF ExpireAt, looked
  <2>2. QED
    BY <1>1, <1>2, <2>1, DeleteLater, LaterTransitive
<1>5. CASE Found(ks, k, time) # Absent /\ ~(at <= time)
  <2>1. ExpireAt(ks, k, at, time) = SetExpiry(looked, k, at)
    BY <1>5 DEF ExpireAt, looked
  <2>2. at \in Nat \cup {Never}
    BY <1>5
  <2>3. looked.entries[k] # Absent
    BY <1>5, LookupKeepsFound DEF looked
  <2>4. QED
    BY <1>1, <1>2, <2>1, <2>2, <2>3, SetExpiryLater, LaterTransitive
<1>6. QED
  BY <1>3, <1>4, <1>5

(***************************************************************************)
(* PERSIST, also on an entry that has expired.                             *)
(***************************************************************************)
LEMMA PersistLater ==
    ASSUME NEW ks \in KeyspaceType, NEW k \in Key, NEW time
    PROVE  Later(ks, Persist(ks, k, time))
<1> DEFINE looked == Lookup(ks, k, time)
           entry  == Found(ks, k, time)
<1>1. Later(ks, looked)
  BY LookupLater
<1>2. looked \in KeyspaceType
  BY <1>1 DEF Later
<1>3. entry # Absent => looked.entries[k] # Absent
  BY LookupKeepsFound
<1>4. Persist(ks, k, time) =
        IF entry = Absent THEN looked
        ELSE IF entry.exp = Never THEN looked
        ELSE SetExpiry(looked, k, Never)
  BY DEF Persist
<1> HIDE DEF looked, entry
<1>5. entry # Absent => Later(looked, SetExpiry(looked, k, Never))
  BY <1>2, <1>3, SetExpiryLater
<1>6. entry # Absent => Later(ks, SetExpiry(looked, k, Never))
  BY <1>1, <1>5, LaterTransitive
<1>7. QED
  BY <1>1, <1>4, <1>6

(***************************************************************************)
(* rename marks both of its names.                                         *)
(***************************************************************************)
LEMMA RenameLater ==
    ASSUME NEW ks \in KeyspaceType, NEW src \in Key, NEW dst \in Key, NEW time
    PROVE  Later(ks, Rename(ks, src, dst, time))
<1> DEFINE looked == Lookup(ks, src, time)
           entry  == Found(ks, src, time)
           moved  == [looked EXCEPT !.entries =
                         [[@ EXCEPT ![dst] = entry] EXCEPT ![src] = Absent]]
           ks2    == MarkModified(MarkModified(moved, src), dst)
<1>1. Later(ks, looked)
  BY LookupLater
<1>2. /\ looked \in KeyspaceType
      /\ looked.entries \in [Key -> Entry \cup {Absent}]
      /\ looked.ver \in [Key -> Nat]
      /\ looked.glob \in Nat
  BY <1>1 DEF Later, KeyspaceType
<1>3. entry \in Entry \cup {Absent}
  BY FoundType
<1>4. Rename(ks, src, dst, time) = IF entry = Absent THEN looked ELSE ks2
  BY DEF Rename
<1> HIDE DEF looked, entry
<1> DEFINE ent == [[looked.entries EXCEPT ![dst] = entry] EXCEPT ![src] = Absent]
<1>5. moved = [entries |-> ent, ver |-> looked.ver, glob |-> looked.glob]
  BY <1>2 DEF KeyspaceType
<1> HIDE DEF moved
<1> DEFINE ver == [[looked.ver EXCEPT ![src] = looked.glob + 1]
                       EXCEPT ![dst] = looked.glob + 1 + 1]
<1>6. MarkModified(moved, src) =
        [entries |-> ent,
         ver     |-> [looked.ver EXCEPT ![src] = looked.glob + 1],
         glob    |-> looked.glob + 1]
  BY <1>5 DEF MarkModified
<1>7. ks2 = [entries |-> ent, ver |-> ver, glob |-> looked.glob + 1 + 1]
  BY <1>6 DEF MarkModified
<1>8. ent \in [Key -> Entry \cup {Absent}] /\ ver \in [Key -> Nat]
  BY <1>2, <1>3
<1>9. \A k \in Key \ {src, dst} :
        ent[k] = looked.entries[k] /\ ver[k] = looked.ver[k]
  BY <1>2
<1>10. /\ ver[dst] = looked.glob + 1 + 1
       /\ ver[src] = IF src = dst THEN looked.glob + 1 + 1 ELSE looked.glob + 1
  BY <1>2
<1> HIDE DEF ent, ver, ks2
<1>11. ks2 \in KeyspaceType
  BY <1>2, <1>7, <1>8 DEF KeyspaceType
<1>12. Advances(looked, ks2)
  <2>1. ASSUME NEW k \in Key
        PROVE  \/ ks2.ver[k] = looked.ver[k] /\ ks2.entries[k] = looked.entries[k]
               \/ looked.glob < ks2.ver[k] /\ ks2.ver[k] <= ks2.glob
    <3>1. CASE k \in {src, dst}
      BY <1>2, <1>7, <1>10, <3>1
    <3>2. CASE k \notin {src, dst}
      BY <1>7, <1>9, <3>2
    <3>3. QED
      BY <3>1, <3>2
  <2>2. looked.glob <= ks2.glob
    BY <1>2, <1>7
  <2>3. QED
    BY <2>1, <2>2 DEF Advances
<1>13. Later(ks, ks2)
  BY <1>1, <1>2, <1>11, <1>12, LaterTransitive DEF Later
<1>14. QED
  BY <1>1, <1>4, <1>13 

(***************************************************************************)
(* RENAMENX, which looks the destination up first.                         *)
(***************************************************************************)
LEMMA RenameNxLater ==
    ASSUME NEW ks \in KeyspaceType, NEW src \in Key, NEW dst \in Key, NEW time
    PROVE  Later(ks, RenameNx(ks, src, dst, time))
<1> DEFINE looked == Lookup(ks, dst, time)
<1>1. Later(ks, looked)
  BY LookupLater
<1>2. looked \in KeyspaceType
  BY <1>1 DEF Later
<1>3. RenameNx(ks, src, dst, time) = IF Found(ks, dst, time) # Absent THEN looked
                                    ELSE Rename(looked, src, dst, time)
  BY DEF RenameNx
<1> HIDE DEF looked
<1>4. Later(ks, Rename(looked, src, dst, time))
  BY <1>1, <1>2, RenameLater, LaterTransitive
<1>5. QED
  BY <1>1, <1>3, <1>4

-----------------------------------------------------------------------------
(***************************************************************************)
(* The commands.  Each looks its key up and then applies methods of        *)
(* Keyspace to what the look-up left.                                      *)
(***************************************************************************)

(***************************************************************************)
(* The operands of a command, and a look-up, as every command needs them.  *)
(***************************************************************************)
LEMMA CommandFacts ==
    ASSUME NEW ks \in KeyspaceType, NEW cmd \in Command, NEW time
    PROVE  /\ cmd.key \in Key /\ cmd.dst \in Key
           /\ cmd.val \in Nat /\ cmd.ttl \in Int
           /\ Later(ks, Lookup(ks, cmd.key, time))
           /\ Lookup(ks, cmd.key, time) \in KeyspaceType
<1>1. cmd.key \in Key /\ cmd.dst \in Key /\ cmd.val \in Nat /\ cmd.ttl \in Int
  BY DEF Command
<1>2. Later(ks, Lookup(ks, cmd.key, time))
  BY <1>1, LookupLater
<1>3. QED
  BY <1>1, <1>2 DEF Later

(***************************************************************************)
(* SET with each of its options.                                           *)
(***************************************************************************)
LEMMA SetCommandLater ==
    ASSUME NEW ks \in KeyspaceType, NEW cmd \in Command, NEW time \in Nat
    PROVE  Later(ks, SetCommand(ks, cmd, time))
<1> DEFINE old    == Found(ks, cmd.key, time)
           looked == Lookup(ks, cmd.key, time)
           exp    == CASE cmd.op = "SET EX" -> time + cmd.ttl
                       [] cmd.op = "SET KEEPTTL" /\ old # Absent -> old.exp
                       [] OTHER -> Never
           refused == \/ cmd.op = "SET NX" /\ old # Absent
                      \/ cmd.op = "SET XX" /\ old = Absent
<1>1. /\ cmd.key \in Key /\ cmd.val \in Nat /\ cmd.ttl \in Int
      /\ Later(ks, looked) /\ looked \in KeyspaceType
  BY CommandFacts
<1>2. old # Absent => old.exp \in Nat \cup {Never}
  BY <1>1, FoundType DEF Entry
<1>3. SetCommand(ks, cmd, time) =
        IF cmd.op = "SET EX" /\ cmd.ttl <= 0 THEN ks
        ELSE IF refused THEN looked
        ELSE Put(looked, cmd.key, "string", cmd.val, exp)
  BY DEF SetCommand
<1> HIDE DEF old, looked
<1>4. ~(cmd.op = "SET EX" /\ cmd.ttl <= 0) => exp \in Nat \cup {Never}
  <2>1. /\ cmd.op = "SET EX" => exp = time + cmd.ttl
        /\ cmd.op # "SET EX" => \/ exp = Never
                                \/ old # Absent /\ exp = old.exp
    BY Zenon
  <2> HIDE DEF exp
  <2>2. CASE cmd.op = "SET EX" /\ ~(cmd.ttl <= 0)
    <3> DEFINE ttl == cmd.ttl
    <3>1. time + ttl \in Nat
      <4>1. ttl \in Int /\ ~(ttl <= 0)
        BY <1>1, <2>2
      <4> HIDE DEF ttl
      <4>2. QED
        BY <4>1
    <3>2. QED
      BY <2>1, <2>2, <3>1
  <2>3. CASE cmd.op # "SET EX"
    BY <1>2, <2>1, <2>3
  <2>4. QED
    BY <2>2, <2>3
<1> HIDE DEF exp, refused
<1>5. ~(cmd.op = "SET EX" /\ cmd.ttl <= 0)
        => Later(ks, Put(looked, cmd.key, "string", cmd.val, exp))
  BY <1>1, <1>4, PutLater, LaterTransitive DEF DataType
<1>6. QED
  BY <1>1, <1>3, <1>5, LaterReflexive

(***************************************************************************)
(* GETSET.                                                                 *)
(***************************************************************************)
LEMMA GetSetLater ==
    ASSUME NEW ks \in KeyspaceType, NEW cmd \in Command, NEW time \in Nat
    PROVE  Later(ks, GetSet(ks, cmd, time))
<1> DEFINE looked == Lookup(ks, cmd.key, time)
<1>1. /\ cmd.key \in Key /\ cmd.val \in Nat
      /\ Later(ks, looked) /\ looked \in KeyspaceType
  BY CommandFacts
<1>2. Later(ks, Put(looked, cmd.key, "string", cmd.val, Never))
  BY <1>1, PutLater, LaterTransitive DEF DataType
<1>3. QED
  BY <1>1, <1>2 DEF GetSet

(***************************************************************************)
(* GETDEL.                                                                 *)
(***************************************************************************)
LEMMA GetDelLater ==
    ASSUME NEW ks \in KeyspaceType, NEW cmd \in Command, NEW time \in Nat
    PROVE  Later(ks, GetDel(ks, cmd, time))
<1> DEFINE looked == Lookup(ks, cmd.key, time)
<1>1. Later(ks, looked) /\ looked \in KeyspaceType
  BY CommandFacts
<1>2. Later(ks, Delete(looked, {cmd.key}))
  BY <1>1, DeleteLater, LaterTransitive
<1>3. QED
  BY <1>1, <1>2 DEF GetDel

(***************************************************************************)
(* GETEX, with a TTL or PERSIST.                                           *)
(***************************************************************************)
LEMMA GetExLater ==
    ASSUME NEW ks \in KeyspaceType, NEW cmd \in Command, NEW time \in Nat
    PROVE  Later(ks, GetEx(ks, cmd, time))
<1> DEFINE looked == Lookup(ks, cmd.key, time)
<1>1. /\ cmd.key \in Key /\ time + cmd.ttl \in Int
      /\ Later(ks, looked) /\ looked \in KeyspaceType
  BY CommandFacts
<1>2. Later(ks, ExpireAt(looked, cmd.key, time + cmd.ttl, time))
  <2>1. Later(looked, ExpireAt(looked, cmd.key, time + cmd.ttl, time))
    BY <1>1, ExpireAtLater
  <2>2. QED
    BY <1>1, <2>1, LaterTransitive
<1>3. Later(ks, Persist(looked, cmd.key, time))
  BY <1>1, PersistLater, LaterTransitive
<1>4. QED
  BY <1>1, <1>2, <1>3 DEF GetEx

(***************************************************************************)
(* MSET, which may name the same key twice.                                *)
(***************************************************************************)
LEMMA MSetLater ==
    ASSUME NEW ks \in KeyspaceType, NEW cmd \in Command
    PROVE  Later(ks, MSet(ks, cmd))
<1> DEFINE first == Put(ks, cmd.key, "string", cmd.val, Never)
<1>1. cmd.key \in Key /\ cmd.dst \in Key /\ cmd.val \in Nat
  BY CommandFacts
<1>2. Later(ks, first) /\ first \in KeyspaceType
  BY <1>1, PutLater DEF DataType, Later
<1>3. MSet(ks, cmd) = Put(first, cmd.dst, "string", cmd.val, Never)
  BY DEF MSet
<1> HIDE DEF first
<1>4. QED
  BY <1>1, <1>2, <1>3, PutLater, LaterTransitive DEF DataType

(***************************************************************************)
(* INCR and the string updates that keep the TTL.                          *)
(***************************************************************************)
LEMMA IncrLater ==
    ASSUME NEW ks \in KeyspaceType, NEW cmd \in Command, NEW time \in Nat
    PROVE  Later(ks, Incr(ks, cmd, time))
<1> DEFINE looked == Lookup(ks, cmd.key, time)
           entry  == Found(ks, cmd.key, time)
<1>1. /\ cmd.key \in Key
      /\ Later(ks, looked) /\ looked \in KeyspaceType
  BY CommandFacts
<1>2. entry # Absent => entry.val + 1 \in Nat /\ entry.exp \in Nat \cup {Never}
  BY <1>1, FoundType DEF Entry
<1>3. Incr(ks, cmd, time) =
        IF WrongType(ks, cmd.key, "string", time) \/ NotAnInteger(ks, cmd.key, time)
        THEN looked
        ELSE IF entry = Absent THEN Put(looked, cmd.key, "string", 1, Never)
        ELSE Put(looked, cmd.key, "string", entry.val + 1, entry.exp)
  BY DEF Incr
<1> HIDE DEF looked, entry
<1>4. Later(ks, Put(looked, cmd.key, "string", 1, Never))
  BY <1>1, PutLater, LaterTransitive DEF DataType
<1>5. entry # Absent
        => Later(ks, Put(looked, cmd.key, "string", entry.val + 1, entry.exp))
  BY <1>1, <1>2, PutLater, LaterTransitive DEF DataType
<1>6. QED
  BY <1>1, <1>3, <1>4, <1>5

(***************************************************************************)
(* The commands that add to a container, which may have to create it.      *)
(***************************************************************************)
LEMMA PushLater ==
    ASSUME NEW ks \in KeyspaceType, NEW cmd \in Command, NEW time \in Nat
    PROVE  Later(ks, Push(ks, cmd, time))
<1> DEFINE looked == Lookup(ks, cmd.key, time)
           entry  == Found(ks, cmd.key, time)
           created == Put(looked, cmd.key, "container", 0, Never)
           opened == IF entry = Absent THEN created ELSE looked
           size   == opened.entries[cmd.key].val
           grown  == IF cmd.op = "ZADD XX" THEN size ELSE size + 1
<1>1. /\ cmd.key \in Key
      /\ Later(ks, looked) /\ looked \in KeyspaceType
  BY CommandFacts
<1>2. /\ Later(looked, created)
      /\ created.entries[cmd.key] # Absent
  <2>1. Later(looked, created)
    BY <1>1, PutLater DEF DataType
  <2>2. created.entries[cmd.key] = [type |-> "container", val |-> 0, exp |-> Never]
    BY <1>1 DEF Put, MarkModified, KeyspaceType
  <2>3. created.entries[cmd.key] \in Entry
    BY <2>2 DEF Entry, DataType
  <2>4. QED
    BY <2>1, <2>3, AbsentAssumption
<1>3. entry # Absent => looked.entries[cmd.key] # Absent
  BY <1>1, LookupKeepsFound
<1>4. Push(ks, cmd, time) = IF WrongType(ks, cmd.key, "container", time) THEN looked
                           ELSE Resize(opened, cmd.key, grown)
  BY DEF Push
<1> HIDE DEF looked, entry, created
<1>5. /\ Later(ks, opened) /\ opened \in KeyspaceType
      /\ opened.entries[cmd.key] # Absent
  BY <1>1, <1>2, <1>3, LaterTransitive DEF Later
<1> HIDE DEF opened
<1>6. grown \in Nat
  <2>1. opened.entries[cmd.key] \in Entry
    BY <1>1, <1>5 DEF KeyspaceType
  <2>2. size \in Nat
    BY <2>1 DEF Entry
  <2> HIDE DEF size
  <2>3. size + 1 \in Nat
    BY <2>2
  <2>4. QED
    BY <2>2, <2>3
<1> HIDE DEF grown
<1>7. Later(ks, Resize(opened, cmd.key, grown))
  BY <1>1, <1>5, <1>6, ResizeLater, LaterTransitive
<1>8. QED
  BY <1>1, <1>4, <1>7

(***************************************************************************)
(* The commands that remove from a container and delete it when empty.     *)
(***************************************************************************)
LEMMA PopLater ==
    ASSUME NEW ks \in KeyspaceType, NEW cmd \in Command, NEW time \in Nat
    PROVE  Later(ks, Pop(ks, cmd, time))
<1> DEFINE looked == Lookup(ks, cmd.key, time)
           entry  == Found(ks, cmd.key, time)
<1>1. /\ cmd.key \in Key
      /\ Later(ks, looked) /\ looked \in KeyspaceType
  BY CommandFacts
<1>2. entry # Absent => entry.val \in Nat /\ looked.entries[cmd.key] # Absent
  BY <1>1, FoundType, LookupKeepsFound DEF Entry
<1>3. Pop(ks, cmd, time) =
        IF WrongType(ks, cmd.key, "container", time) \/ entry = Absent THEN looked
        ELSE IF entry.val <= 1 THEN Delete(looked, {cmd.key})
        ELSE Resize(looked, cmd.key, entry.val - 1)
  BY DEF Pop
<1> HIDE DEF looked, entry
<1>4. Later(ks, Delete(looked, {cmd.key}))
  BY <1>1, DeleteLater, LaterTransitive
<1>5. ASSUME entry # Absent, ~(entry.val <= 1)
      PROVE  Later(ks, Resize(looked, cmd.key, entry.val - 1))
  <2>1. entry.val - 1 \in Nat
    BY <1>2, <1>5
  <2>2. QED
    BY <1>1, <1>2, <1>5, <2>1, ResizeLater, LaterTransitive
<1>6. QED
  BY <1>1, <1>3, <1>4, <1>5

-----------------------------------------------------------------------------
(***************************************************************************)
(* One command, on one database and on all of them; and an eviction.       *)
(***************************************************************************)
THEOREM RunOnLater ==
    ASSUME NEW ks \in KeyspaceType, NEW cmd \in Command, NEW time \in Nat
    PROVE  Later(ks, RunOn(ks, cmd, time))
<1>1. /\ cmd.key \in Key /\ cmd.dst \in Key /\ time + cmd.ttl \in Int
      /\ Later(ks, Lookup(ks, cmd.key, time))
  BY CommandFacts
<1>2. /\ Later(ks, SetCommand(ks, cmd, time))
      /\ Later(ks, GetSet(ks, cmd, time))
      /\ Later(ks, GetDel(ks, cmd, time))
      /\ Later(ks, GetEx(ks, cmd, time))
      /\ Later(ks, MSet(ks, cmd))
      /\ Later(ks, Incr(ks, cmd, time))
      /\ Later(ks, Push(ks, cmd, time))
      /\ Later(ks, Pop(ks, cmd, time))
  BY SetCommandLater, GetSetLater, GetDelLater, GetExLater, MSetLater,
     IncrLater, PushLater, PopLater
<1>3. /\ Later(ks, Delete(ks, {cmd.key, cmd.dst}))
      /\ Later(ks, Flush(ks))
  BY DeleteLater DEF Flush
<1>4. /\ Later(ks, ExpireAt(ks, cmd.key, time + cmd.ttl, time))
      /\ Later(ks, Persist(ks, cmd.key, time))
      /\ Later(ks, Rename(ks, cmd.key, cmd.dst, time))
      /\ Later(ks, RenameNx(ks, cmd.key, cmd.dst, time))
  BY <1>1, ExpireAtLater, PersistLater, RenameLater, RenameNxLater
<1>5. Later(ks, ks)
  BY LaterReflexive
<1>6. QED
  BY <1>1, <1>2, <1>3, <1>4, <1>5, Zenon DEF RunOn

(***************************************************************************)
(* Later, for all databases of the server at once.                         *)
(***************************************************************************)
AllLater(bases, dbs2) ==
    /\ dbs2 \in [DB -> KeyspaceType]
    /\ \A d \in DB : Advances(bases[d], dbs2[d])

(***************************************************************************)
(* A step that leaves all databases alone.                                 *)
(***************************************************************************)
LEMMA AllLaterReflexive ==
    ASSUME NEW bases \in [DB -> KeyspaceType]
    PROVE  AllLater(bases, bases)
BY LaterReflexive DEF AllLater, Later

(***************************************************************************)
(* Two steps on the databases add up.                                      *)
(***************************************************************************)
LEMMA AllLaterTransitive ==
    ASSUME NEW a \in [DB -> KeyspaceType], NEW b, NEW c, AllLater(a, b), AllLater(b, c)
    PROVE  AllLater(a, c)
<1>1. ASSUME NEW d \in DB
      PROVE  Later(a[d], c[d])
  <2>1. a[d] \in KeyspaceType /\ Later(a[d], b[d]) /\ Later(b[d], c[d])
    BY DEF AllLater, Later
  <2>2. QED
    BY <2>1, LaterTransitive
<1>2. QED
  BY <1>1 DEF AllLater, Later

(***************************************************************************)
(* Whatever execute() does, in one database or in all (FLUSHALL), no       *)
(* database goes back: no version is reused and no entry changes unmarked. *)
(***************************************************************************)
THEOREM ExecuteLater ==
    ASSUME NEW bases \in [DB -> KeyspaceType], NEW d \in DB,
           NEW cmd \in Command, NEW time \in Nat
    PROVE  AllLater(bases, Execute(bases, d, cmd, time))
<1>1. \A x \in DB : /\ Later(bases[x], RunOn(bases[x], cmd, time))
                    /\ Later(bases[x], bases[x])
  BY RunOnLater, LaterReflexive
<1>2. CASE cmd.op = "FLUSHALL"
  BY <1>1, <1>2 DEF Execute, AllLater, Later
<1>3. CASE cmd.op # "FLUSHALL"
  BY <1>1, <1>3 DEF Execute, AllLater, Later
<1>4. QED
  BY <1>2, <1>3

(***************************************************************************)
(* Deleting names from several databases at once.                          *)
(***************************************************************************)
LEMMA DeleteFromAllLater ==
    ASSUME NEW bases \in [DB -> KeyspaceType], NEW names
    PROVE  AllLater(bases, [d \in DB |-> Delete(bases[d], names[d])])
BY DeleteLater DEF AllLater, Later

(***************************************************************************)
(* Evicting any set of entries marks every one of them, so a client that   *)
(* watched one of them will see it.                                        *)
(***************************************************************************)
THEOREM EvictLater ==
    ASSUME NEW bases \in [DB -> KeyspaceType], NEW victims
    PROVE  AllLater(bases, Evict(bases, victims))
BY DeleteLater DEF AllLater, Later, Evict

-----------------------------------------------------------------------------
(***************************************************************************)
(* What a client can see.  Every command shows the same afterwards on two  *)
(* databases that show the same, whatever expired entries they still hold. *)
(***************************************************************************)
Alike(a, b, time) ==
    /\ a \in KeyspaceType /\ b \in KeyspaceType
    /\ \A k \in Key : Found(a, k, time) = Found(b, k, time)

\* What is visible of one entry.
Showing(e, time) == IF IsExpired(e, time) THEN Absent ELSE e

(***************************************************************************)
(* delete, for any set of names: they are gone, the others look the same.  *)
(***************************************************************************)
LEMMA DeleteFound ==
    ASSUME NEW ks \in KeyspaceType, NEW names, NEW time, NEW j \in Key
    PROVE  Found(Delete(ks, names), j, time)
               = IF j \in names THEN Absent ELSE Found(ks, j, time)
<1>1. Delete(ks, names).entries[j]
          = IF j \in names \cap Stored(ks) THEN Absent ELSE ks.entries[j]
  BY DEF Delete
<1>2. CASE j \in names BY <1>1, <1>2 DEF Found, Expired, Stored
<1>3. CASE j \notin names BY <1>1, <1>3 DEF Found, Expired, Stored
<1> QED BY <1>2, <1>3

(***************************************************************************)
(* Replacing the entry of a key and marking it: only that key looks        *)
(* different.                                                              *)
(***************************************************************************)
LEMMA MarkedFound ==
    ASSUME NEW ks \in KeyspaceType, NEW k \in Key, NEW e \in Entry, NEW time, NEW j \in Key
    PROVE  Found(MarkModified([ks EXCEPT !.entries[k] = e], k), j, time)
               = IF j = k THEN Showing(e, time) ELSE Found(ks, j, time)
<1>1. ks.entries \in [Key -> Entry \cup {Absent}] BY DEF KeyspaceType
<1>2. PICK ks2 : ks2 = MarkModified([ks EXCEPT !.entries[k] = e], k) OBVIOUS
<1>3. ks2.entries = [ks.entries EXCEPT ![k] = e] BY <1>2 DEF MarkModified, KeyspaceType
<1>4. ks2.entries[j] = IF j = k THEN e ELSE ks.entries[j] BY <1>1, <1>3
<1>5. CASE j = k
  BY <1>2, <1>4, <1>5, AbsentAssumption DEF Found, Expired, Stored, Showing
<1>6. CASE j # k BY <1>2, <1>4, <1>6 DEF Found, Expired, Stored
<1> QED BY <1>5, <1>6

(***************************************************************************)
(* A look-up shows what was shown before, and leaves the entry it found.   *)
(***************************************************************************)
LEMMA LookupFound ==
    ASSUME NEW ks \in KeyspaceType, NEW k \in Key, NEW time, NEW j \in Key
    PROVE  Found(Lookup(ks, k, time), j, time) = Found(ks, j, time)
<1>1. Found(Lookup(ks, k, time), j, time)
          = IF j \in {k} \cap Expired(ks, time) THEN Absent ELSE Found(ks, j, time)
  BY DeleteFound DEF Lookup
<1> QED BY <1>1 DEF Found

LEMMA AlikeLookup ==
    ASSUME NEW a, NEW b, NEW time, NEW k \in Key, Alike(a, b, time)
    PROVE  /\ Alike(Lookup(a, k, time), Lookup(b, k, time), time)
           /\ Found(a, k, time) # Absent =>
                  /\ Lookup(a, k, time).entries[k] = Found(a, k, time)
                  /\ Lookup(b, k, time).entries[k] = Found(a, k, time)
                  /\ Found(a, k, time) \in Entry
<1>1. a \in KeyspaceType /\ b \in KeyspaceType /\ Found(a, k, time) = Found(b, k, time)
  BY DEF Alike
<1>2. Lookup(a, k, time) \in KeyspaceType /\ Lookup(b, k, time) \in KeyspaceType
  BY <1>1, LookupLater DEF Later
<1>3. \A j \in Key : Found(Lookup(a, k, time), j, time) = Found(Lookup(b, k, time), j, time)
  BY <1>1, LookupFound DEF Alike
<1>4. Found(a, k, time) # Absent =>
          /\ Lookup(a, k, time).entries[k] = Found(a, k, time)
          /\ Lookup(b, k, time).entries[k] = Found(a, k, time)
  BY <1>1, LookupKeepsFound
<1>5. Found(a, k, time) # Absent => Found(a, k, time) \in Entry BY <1>1, FoundType
<1> QED BY <1>2, <1>3, <1>4, <1>5 DEF Alike

LEMMA AlikeDelete ==
    ASSUME NEW a, NEW b, NEW time, NEW names, Alike(a, b, time)
    PROVE  Alike(Delete(a, names), Delete(b, names), time)
<1>1. a \in KeyspaceType /\ b \in KeyspaceType BY DEF Alike
<1>2. Delete(a, names) \in KeyspaceType /\ Delete(b, names) \in KeyspaceType
  BY <1>1, DeleteLater DEF Later
<1>3. \A j \in Key : Found(Delete(a, names), j, time) = Found(Delete(b, names), j, time)
  BY <1>1, DeleteFound DEF Alike
<1> QED BY <1>2, <1>3 DEF Alike

\* A key is given the same entry in both.
LEMMA AlikeMarked ==
    ASSUME NEW a, NEW b, NEW time, NEW k \in Key, NEW e \in Entry, Alike(a, b, time)
    PROVE  Alike(MarkModified([a EXCEPT !.entries[k] = e], k),
                 MarkModified([b EXCEPT !.entries[k] = e], k), time)
<1>1. a \in KeyspaceType /\ b \in KeyspaceType BY DEF Alike
<1>2. PICK a2, b2 : /\ a2 = MarkModified([a EXCEPT !.entries[k] = e], k)
                    /\ b2 = MarkModified([b EXCEPT !.entries[k] = e], k)
  OBVIOUS
<1>3. a2 \in KeyspaceType /\ b2 \in KeyspaceType BY <1>1, <1>2, MarkedLater DEF Later
<1>4. \A j \in Key : Found(a2, j, time) = Found(b2, j, time)
  BY <1>1, <1>2, MarkedFound DEF Alike
<1> QED BY <1>2, <1>3, <1>4 DEF Alike

LEMMA AlikePut ==
    ASSUME NEW a, NEW b, NEW time, NEW k \in Key, NEW type \in DataType, NEW val \in Nat,
           NEW exp \in Nat \cup {Never}, Alike(a, b, time)
    PROVE  Alike(Put(a, k, type, val, exp), Put(b, k, type, val, exp), time)
BY AlikeMarked DEF Put, Entry

LEMMA AlikeSetExpiry ==
    ASSUME NEW a, NEW b, NEW time, NEW k \in Key, NEW exp \in Nat \cup {Never},
           Alike(a, b, time), a.entries[k] \in Entry, b.entries[k] = a.entries[k]
    PROVE  Alike(SetExpiry(a, k, exp), SetExpiry(b, k, exp), time)
<1>1. PICK e \in Entry : e = [a.entries[k] EXCEPT !.exp = exp] BY DEF Entry
<1>2. /\ SetExpiry(a, k, exp) = MarkModified([a EXCEPT !.entries[k] = e], k)
      /\ SetExpiry(b, k, exp) = MarkModified([b EXCEPT !.entries[k] = e], k)
  BY <1>1 DEF SetExpiry
<1>3. Alike(MarkModified([a EXCEPT !.entries[k] = e], k),
            MarkModified([b EXCEPT !.entries[k] = e], k), time)
  BY AlikeMarked
<1> QED BY <1>2, <1>3

LEMMA AlikeResize ==
    ASSUME NEW a, NEW b, NEW time, NEW k \in Key, NEW size \in Nat,
           Alike(a, b, time), a.entries[k] \in Entry, b.entries[k] = a.entries[k]
    PROVE  Alike(Resize(a, k, size), Resize(b, k, size), time)
<1>1. PICK e \in Entry : e = [a.entries[k] EXCEPT !.val = size] BY DEF Entry
<1>2. /\ Resize(a, k, size) = MarkModified([a EXCEPT !.entries[k] = e], k)
      /\ Resize(b, k, size) = MarkModified([b EXCEPT !.entries[k] = e], k)
  BY <1>1 DEF Resize
<1>3. Alike(MarkModified([a EXCEPT !.entries[k] = e], k),
            MarkModified([b EXCEPT !.entries[k] = e], k), time)
  BY AlikeMarked
<1> QED BY <1>2, <1>3

LEMMA AlikeExpireAt ==
    ASSUME NEW a, NEW b, NEW time \in Nat, NEW k \in Key, NEW at \in Int, Alike(a, b, time)
    PROVE  Alike(ExpireAt(a, k, at, time), ExpireAt(b, k, at, time), time)
<1>1. PICK c, d : c = Lookup(a, k, time) /\ d = Lookup(b, k, time) OBVIOUS
<1>2. /\ Alike(c, d, time)
      /\ Found(a, k, time) # Absent => c.entries[k] \in Entry /\ d.entries[k] = c.entries[k]
  BY <1>1, AlikeLookup
<1>3. Found(a, k, time) = Found(b, k, time) BY DEF Alike
<1>4. Alike(Delete(c, {k}), Delete(d, {k}), time) BY <1>2, AlikeDelete
<1>5. ASSUME Found(a, k, time) # Absent, ~(at <= time)
      PROVE  Alike(SetExpiry(c, k, at), SetExpiry(d, k, at), time)
  <2>1. at \in Nat BY <1>5
  <2> QED BY <1>2, <1>5, <2>1, AlikeSetExpiry
<1> QED BY <1>1, <1>2, <1>3, <1>4, <1>5 DEF ExpireAt

LEMMA AlikePersist ==
    ASSUME NEW a, NEW b, NEW time, NEW k \in Key, Alike(a, b, time)
    PROVE  Alike(Persist(a, k, time), Persist(b, k, time), time)
<1>1. PICK c, d : c = Lookup(a, k, time) /\ d = Lookup(b, k, time) OBVIOUS
<1>2. /\ Alike(c, d, time)
      /\ Found(a, k, time) # Absent => c.entries[k] \in Entry /\ d.entries[k] = c.entries[k]
  BY <1>1, AlikeLookup
<1>3. Found(a, k, time) = Found(b, k, time) BY DEF Alike
<1>4. Found(a, k, time) # Absent => Alike(SetExpiry(c, k, Never), SetExpiry(d, k, Never), time)
  BY <1>2, AlikeSetExpiry
<1> QED BY <1>1, <1>2, <1>3, <1>4 DEF Persist

\* What rename makes of a database in which it has found the entry it moves.
Moved(ks, src, dst, entry) ==
    LET moved == [ks EXCEPT !.entries =
                     [[@ EXCEPT ![dst] = entry] EXCEPT ![src] = Absent]]
    IN  MarkModified(MarkModified(moved, src), dst)

LEMMA MovedFound ==
    ASSUME NEW ks \in KeyspaceType, NEW src \in Key, NEW dst \in Key, NEW e \in Entry,
           NEW time, NEW j \in Key
    PROVE  Found(Moved(ks, src, dst, e), j, time)
               = IF j = src THEN Absent ELSE IF j = dst THEN Showing(e, time)
                 ELSE Found(ks, j, time)
<1>1. ks.entries \in [Key -> Entry \cup {Absent}] BY DEF KeyspaceType
<1>2. PICK ks2 : ks2 = Moved(ks, src, dst, e) OBVIOUS
<1>3. ks2.entries = [[ks.entries EXCEPT ![dst] = e] EXCEPT ![src] = Absent]
  BY <1>2 DEF Moved, MarkModified, KeyspaceType
<1>4. ks2.entries[j] = IF j = src THEN Absent ELSE IF j = dst THEN e ELSE ks.entries[j]
  BY <1>1, <1>3
<1>5. CASE j = src BY <1>2, <1>4, <1>5 DEF Found, Expired, Stored
<1>6. CASE j # src /\ j = dst
  BY <1>2, <1>4, <1>6, AbsentAssumption DEF Found, Expired, Stored, Showing
<1>7. CASE j # src /\ j # dst BY <1>2, <1>4, <1>7 DEF Found, Expired, Stored
<1> QED BY <1>5, <1>6, <1>7

LEMMA AlikeRename ==
    ASSUME NEW a, NEW b, NEW time, NEW src \in Key, NEW dst \in Key, Alike(a, b, time)
    PROVE  Alike(Rename(a, src, dst, time), Rename(b, src, dst, time), time)
<1>1. PICK c, d : c = Lookup(a, src, time) /\ d = Lookup(b, src, time) OBVIOUS
<1>2. PICK e : e = Found(a, src, time) /\ e = Found(b, src, time) BY DEF Alike
<1>3. Alike(c, d, time) /\ (e # Absent => e \in Entry) BY <1>1, <1>2, AlikeLookup
<1>4. a \in KeyspaceType /\ b \in KeyspaceType /\ c \in KeyspaceType /\ d \in KeyspaceType
  BY <1>3 DEF Alike
<1>5. /\ Rename(a, src, dst, time) = IF e = Absent THEN c ELSE Moved(c, src, dst, e)
      /\ Rename(b, src, dst, time) = IF e = Absent THEN d ELSE Moved(d, src, dst, e)
  BY <1>1, <1>2 DEF Rename, Moved
<1>6. Rename(a, src, dst, time) \in KeyspaceType /\ Rename(b, src, dst, time) \in KeyspaceType
  BY <1>4, RenameLater DEF Later
<1>7. CASE e = Absent BY <1>3, <1>5, <1>7
<1>8. CASE e # Absent
  <2>1. \A j \in Key : Found(Moved(c, src, dst, e), j, time) = Found(Moved(d, src, dst, e), j, time)
    BY <1>3, <1>4, <1>8, MovedFound DEF Alike
  <2> QED BY <1>5, <1>6, <1>8, <2>1 DEF Alike
<1> QED BY <1>7, <1>8

LEMMA AlikeRenameNx ==
    ASSUME NEW a, NEW b, NEW time, NEW src \in Key, NEW dst \in Key, Alike(a, b, time)
    PROVE  Alike(RenameNx(a, src, dst, time), RenameNx(b, src, dst, time), time)
<1>1. PICK c, d : c = Lookup(a, dst, time) /\ d = Lookup(b, dst, time) OBVIOUS
<1>2. Alike(c, d, time) BY <1>1, AlikeLookup
<1>3. Alike(Rename(c, src, dst, time), Rename(d, src, dst, time), time) BY <1>2, AlikeRename
<1>4. Found(a, dst, time) = Found(b, dst, time) BY DEF Alike
<1> QED BY <1>1, <1>2, <1>3, <1>4 DEF RenameNx

-----------------------------------------------------------------------------
(***************************************************************************)
(* What the commands begin with on two databases that show the same: the   *)
(* same entry, the same verdict, and look-ups that leave them alike.       *)
(***************************************************************************)
LEMMA AlikeCommand ==
    ASSUME NEW a, NEW b, NEW time, NEW cmd \in Command, Alike(a, b, time),
           NEW c, NEW d, NEW e,
           c = Lookup(a, cmd.key, time), d = Lookup(b, cmd.key, time),
           e = Found(a, cmd.key, time)
    PROVE  /\ cmd.key \in Key /\ cmd.dst \in Key /\ cmd.val \in Nat /\ cmd.ttl \in Int
           /\ e = Found(b, cmd.key, time) /\ Alike(c, d, time)
           /\ e # Absent =>
                  e \in Entry /\ c.entries[cmd.key] = e /\ d.entries[cmd.key] = e
<1>1. cmd.key \in Key /\ cmd.dst \in Key /\ cmd.val \in Nat /\ cmd.ttl \in Int
  BY DEF Command
<1>2. e = Found(b, cmd.key, time) BY <1>1 DEF Alike
<1> QED BY <1>1, <1>2, AlikeLookup

LEMMA AlikeVerdict ==
    ASSUME NEW a, NEW b, NEW time, NEW k \in Key, Alike(a, b, time)
    PROVE  /\ \A type \in DataType : WrongType(a, k, type, time) <=> WrongType(b, k, type, time)
           /\ NotAnInteger(a, k, time) <=> NotAnInteger(b, k, time)
<1>1. Found(a, k, time) = Found(b, k, time) BY DEF Alike
<1> QED BY <1>1 DEF WrongType, NotAnInteger

LEMMA AlikeSet ==
    ASSUME NEW a, NEW b, NEW time \in Nat, NEW cmd \in Command, Alike(a, b, time)
    PROVE  Alike(SetCommand(a, cmd, time), SetCommand(b, cmd, time), time)
<1>1. PICK c, d, e : /\ c = Lookup(a, cmd.key, time) /\ d = Lookup(b, cmd.key, time)
                     /\ e = Found(a, cmd.key, time)
  OBVIOUS
<1>2. /\ cmd.key \in Key /\ cmd.val \in Nat /\ cmd.ttl \in Int
      /\ e = Found(b, cmd.key, time) /\ Alike(c, d, time)
      /\ e # Absent => e \in Entry
  BY <1>1, AlikeCommand
<1> DEFINE exp == CASE cmd.op = "SET EX" -> time + cmd.ttl
                    [] cmd.op = "SET KEEPTTL" /\ e # Absent -> e.exp
                    [] OTHER -> Never
           refused == \/ cmd.op = "SET NX" /\ e # Absent
                      \/ cmd.op = "SET XX" /\ e = Absent
<1>3. /\ SetCommand(a, cmd, time) =
             IF cmd.op = "SET EX" /\ cmd.ttl <= 0 THEN a
             ELSE IF refused THEN c ELSE Put(c, cmd.key, "string", cmd.val, exp)
      /\ SetCommand(b, cmd, time) =
             IF cmd.op = "SET EX" /\ cmd.ttl <= 0 THEN b
             ELSE IF refused THEN d ELSE Put(d, cmd.key, "string", cmd.val, exp)
  BY <1>1, <1>2 DEF SetCommand
<1>4. ~(cmd.op = "SET EX" /\ cmd.ttl <= 0) => exp \in Nat \cup {Never}
  <2>1. e # Absent => e.exp \in Nat \cup {Never} BY <1>2 DEF Entry
  <2>2. CASE cmd.op = "SET EX"
    <3>1. exp = time + cmd.ttl BY <2>2, Zenon
    <3>2. cmd.ttl <= 0 \/ time + cmd.ttl \in Nat BY <1>2
    <3> QED BY <2>2, <3>1, <3>2, Zenon
  <2>3. CASE cmd.op # "SET EX"
    <3>1. exp = Never \/ (e # Absent /\ exp = e.exp) BY <2>3, Zenon
    <3> QED BY <2>1, <3>1, Zenon
  <2> QED BY <2>2, <2>3
<1> HIDE DEF exp, refused
<1>5. ~(cmd.op = "SET EX" /\ cmd.ttl <= 0) =>
          Alike(Put(c, cmd.key, "string", cmd.val, exp),
                Put(d, cmd.key, "string", cmd.val, exp), time)
  BY <1>2, <1>4, AlikePut DEF DataType
<1> QED BY <1>2, <1>3, <1>5

LEMMA AlikeGetSet ==
    ASSUME NEW a, NEW b, NEW time, NEW cmd \in Command, Alike(a, b, time)
    PROVE  Alike(GetSet(a, cmd, time), GetSet(b, cmd, time), time)
<1>1. PICK c, d : c = Lookup(a, cmd.key, time) /\ d = Lookup(b, cmd.key, time) OBVIOUS
<1>2. /\ cmd.key \in Key /\ cmd.val \in Nat /\ Alike(c, d, time)
  BY <1>1, AlikeCommand
<1>3. /\ WrongType(a, cmd.key, "string", time) <=> WrongType(b, cmd.key, "string", time)
  BY <1>2, AlikeVerdict DEF DataType
<1>4. Alike(Put(c, cmd.key, "string", cmd.val, Never),
            Put(d, cmd.key, "string", cmd.val, Never), time)
  BY <1>2, AlikePut DEF DataType
<1> QED BY <1>1, <1>2, <1>3, <1>4 DEF GetSet

LEMMA AlikeGetDel ==
    ASSUME NEW a, NEW b, NEW time, NEW cmd \in Command, Alike(a, b, time)
    PROVE  Alike(GetDel(a, cmd, time), GetDel(b, cmd, time), time)
<1>1. PICK c, d : c = Lookup(a, cmd.key, time) /\ d = Lookup(b, cmd.key, time) OBVIOUS
<1>2. cmd.key \in Key /\ Alike(c, d, time) BY <1>1, AlikeCommand
<1>3. /\ WrongType(a, cmd.key, "string", time) <=> WrongType(b, cmd.key, "string", time)
  BY <1>2, AlikeVerdict DEF DataType
<1>4. Alike(Delete(c, {cmd.key}), Delete(d, {cmd.key}), time) BY <1>2, AlikeDelete
<1> QED BY <1>1, <1>2, <1>3, <1>4 DEF GetDel

LEMMA AlikeGetEx ==
    ASSUME NEW a, NEW b, NEW time \in Nat, NEW cmd \in Command, Alike(a, b, time)
    PROVE  Alike(GetEx(a, cmd, time), GetEx(b, cmd, time), time)
<1>1. PICK c, d, e : /\ c = Lookup(a, cmd.key, time) /\ d = Lookup(b, cmd.key, time)
                     /\ e = Found(a, cmd.key, time)
  OBVIOUS
<1>2. /\ cmd.key \in Key /\ cmd.ttl \in Int /\ Alike(c, d, time)
      /\ e = Found(b, cmd.key, time)
  BY <1>1, AlikeCommand
<1>3. /\ WrongType(a, cmd.key, "string", time) <=> WrongType(b, cmd.key, "string", time)
  BY <1>2, AlikeVerdict DEF DataType
<1>4. time + cmd.ttl \in Int BY <1>2
<1>5. Alike(ExpireAt(c, cmd.key, time + cmd.ttl, time),
            ExpireAt(d, cmd.key, time + cmd.ttl, time), time)
  BY <1>2, <1>4, AlikeExpireAt
<1>6. Alike(Persist(c, cmd.key, time), Persist(d, cmd.key, time), time)
  BY <1>2, AlikePersist
<1> QED BY <1>1, <1>2, <1>3, <1>5, <1>6 DEF GetEx

LEMMA AlikeMSet ==
    ASSUME NEW a, NEW b, NEW time, NEW cmd \in Command, Alike(a, b, time)
    PROVE  Alike(MSet(a, cmd), MSet(b, cmd), time)
<1>1. cmd.key \in Key /\ cmd.dst \in Key /\ cmd.val \in Nat BY DEF Command
<1>2. Alike(Put(a, cmd.key, "string", cmd.val, Never),
            Put(b, cmd.key, "string", cmd.val, Never), time)
  BY <1>1, AlikePut DEF DataType
<1> QED BY <1>1, <1>2, AlikePut DEF MSet, DataType

LEMMA AlikeIncr ==
    ASSUME NEW a, NEW b, NEW time, NEW cmd \in Command, Alike(a, b, time)
    PROVE  Alike(Incr(a, cmd, time), Incr(b, cmd, time), time)
<1>1. PICK c, d, e : /\ c = Lookup(a, cmd.key, time) /\ d = Lookup(b, cmd.key, time)
                     /\ e = Found(a, cmd.key, time)
  OBVIOUS
<1>2. /\ cmd.key \in Key /\ Alike(c, d, time)
      /\ e = Found(b, cmd.key, time) /\ (e # Absent => e \in Entry)
  BY <1>1, AlikeCommand
<1>3. /\ WrongType(a, cmd.key, "string", time) <=> WrongType(b, cmd.key, "string", time)
      /\ NotAnInteger(a, cmd.key, time) <=> NotAnInteger(b, cmd.key, time)
  BY <1>2, AlikeVerdict DEF DataType
<1>4. Alike(Put(c, cmd.key, "string", 1, Never), Put(d, cmd.key, "string", 1, Never), time)
  BY <1>2, AlikePut DEF DataType
<1>5. e # Absent => Alike(Put(c, cmd.key, "string", e.val + 1, e.exp),
                          Put(d, cmd.key, "string", e.val + 1, e.exp), time)
  <2>1. e # Absent => e.val + 1 \in Nat /\ e.exp \in Nat \cup {Never} BY <1>2 DEF Entry
  <2> QED BY <1>2, <2>1, AlikePut DEF DataType
<1> QED BY <1>1, <1>2, <1>3, <1>4, <1>5 DEF Incr

LEMMA AlikePush ==
    ASSUME NEW a, NEW b, NEW time, NEW cmd \in Command, Alike(a, b, time)
    PROVE  Alike(Push(a, cmd, time), Push(b, cmd, time), time)
<1>1. PICK c, d, e : /\ c = Lookup(a, cmd.key, time) /\ d = Lookup(b, cmd.key, time)
                     /\ e = Found(a, cmd.key, time)
  OBVIOUS
<1>2. /\ cmd.key \in Key /\ Alike(c, d, time)
      /\ e = Found(b, cmd.key, time)
      /\ e # Absent => e \in Entry /\ c.entries[cmd.key] = e /\ d.entries[cmd.key] = e
  BY <1>1, AlikeCommand
<1>3. /\ WrongType(a, cmd.key, "container", time) <=> WrongType(b, cmd.key, "container", time)
  BY <1>2, AlikeVerdict DEF DataType
<1>4. PICK c2, d2 :
          /\ c2 = IF e = Absent THEN Put(c, cmd.key, "container", 0, Never) ELSE c
          /\ d2 = IF e = Absent THEN Put(d, cmd.key, "container", 0, Never) ELSE d
  OBVIOUS
<1>5. Alike(c2, d2, time)
  <2>1. Alike(Put(c, cmd.key, "container", 0, Never),
              Put(d, cmd.key, "container", 0, Never), time)
    BY <1>2, AlikePut DEF DataType
  <2> QED BY <1>2, <1>4, <2>1
<1>6. c2.entries[cmd.key] \in Entry /\ d2.entries[cmd.key] = c2.entries[cmd.key]
  <2>1. ASSUME NEW ks \in KeyspaceType
        PROVE  Put(ks, cmd.key, "container", 0, Never).entries[cmd.key]
                   = [type |-> "container", val |-> 0, exp |-> Never]
    BY <1>2 DEF Put, MarkModified, KeyspaceType
  <2>2. [type |-> "container", val |-> 0, exp |-> Never] \in Entry BY DEF Entry, DataType
  <2>3. c \in KeyspaceType /\ d \in KeyspaceType BY <1>2 DEF Alike
  <2> QED BY <1>2, <1>4, <2>1, <2>2, <2>3
<1>7. PICK size \in Nat : size = c2.entries[cmd.key].val BY <1>6 DEF Entry
<1>8. PICK grown \in Nat : grown = IF cmd.op = "ZADD XX" THEN size ELSE size + 1
  <2>1. size + 1 \in Nat OBVIOUS
  <2> QED BY <2>1, Zenon
<1>9. Alike(Resize(c2, cmd.key, grown), Resize(d2, cmd.key, grown), time)
  BY <1>2, <1>5, <1>6, AlikeResize
<1>10. /\ Push(a, cmd, time) = IF WrongType(a, cmd.key, "container", time) THEN c
                             ELSE Resize(c2, cmd.key, grown)
      /\ Push(b, cmd, time) = IF WrongType(b, cmd.key, "container", time) THEN d
                             ELSE Resize(d2, cmd.key, grown)
  BY <1>1, <1>2, <1>4, <1>6, <1>7, <1>8, Zenon DEF Push
<1> QED BY <1>2, <1>3, <1>9, <1>10

LEMMA AlikePop ==
    ASSUME NEW a, NEW b, NEW time, NEW cmd \in Command, Alike(a, b, time)
    PROVE  Alike(Pop(a, cmd, time), Pop(b, cmd, time), time)
<1>1. PICK c, d, e : /\ c = Lookup(a, cmd.key, time) /\ d = Lookup(b, cmd.key, time)
                     /\ e = Found(a, cmd.key, time)
  OBVIOUS
<1>2. /\ cmd.key \in Key /\ Alike(c, d, time)
      /\ e = Found(b, cmd.key, time)
      /\ e # Absent => e \in Entry /\ c.entries[cmd.key] = e /\ d.entries[cmd.key] = e
  BY <1>1, AlikeCommand
<1>3. /\ WrongType(a, cmd.key, "container", time) <=> WrongType(b, cmd.key, "container", time)
  BY <1>2, AlikeVerdict DEF DataType
<1>4. Alike(Delete(c, {cmd.key}), Delete(d, {cmd.key}), time) BY <1>2, AlikeDelete
<1>5. e # Absent /\ ~(e.val <= 1) =>
          Alike(Resize(c, cmd.key, e.val - 1), Resize(d, cmd.key, e.val - 1), time)
  <2>1. e # Absent /\ ~(e.val <= 1) => e.val - 1 \in Nat
    <3>1. e # Absent => e.val \in Nat BY <1>2 DEF Entry
    <3> QED BY <3>1
  <2> QED BY <1>2, <2>1, AlikeResize
<1> QED BY <1>1, <1>2, <1>3, <1>4, <1>5 DEF Pop

LEMMA AlikeFlush ==
    ASSUME NEW a, NEW b, NEW time, Alike(a, b, time)
    PROVE  Alike(Flush(a), Flush(b), time)
<1>1. a \in KeyspaceType /\ b \in KeyspaceType BY DEF Alike
<1>2. Flush(a) \in KeyspaceType /\ Flush(b) \in KeyspaceType
  BY <1>1, DeleteLater DEF Flush, Later
<1>3. ASSUME NEW ks \in KeyspaceType, NEW j \in Key PROVE Found(Flush(ks), j, time) = Absent
  <2>1. Found(Flush(ks), j, time) = IF j \in Stored(ks) THEN Absent ELSE Found(ks, j, time)
    BY DeleteFound DEF Flush
  <2> QED BY <2>1 DEF Found, Stored
<1> QED BY <1>1, <1>2, <1>3 DEF Alike

(***************************************************************************)
(* What a command shows, and whether it fails, depends on nothing but what *)
(* was visible when it was called.                                         *)
(***************************************************************************)
THEOREM RunOnAlike ==
    ASSUME NEW a, NEW b, NEW time \in Nat, NEW cmd \in Command, Alike(a, b, time)
    PROVE  /\ Alike(RunOn(a, cmd, time), RunOn(b, cmd, time), time)
           /\ Fails(a, cmd, time) = Fails(b, cmd, time)
<1>1. cmd.key \in Key /\ cmd.dst \in Key /\ cmd.ttl \in Int BY DEF Command
<1>2. /\ Alike(SetCommand(a, cmd, time), SetCommand(b, cmd, time), time)
      /\ Alike(GetSet(a, cmd, time), GetSet(b, cmd, time), time)
      /\ Alike(GetDel(a, cmd, time), GetDel(b, cmd, time), time)
      /\ Alike(GetEx(a, cmd, time), GetEx(b, cmd, time), time)
      /\ Alike(MSet(a, cmd), MSet(b, cmd), time)
      /\ Alike(Incr(a, cmd, time), Incr(b, cmd, time), time)
      /\ Alike(Push(a, cmd, time), Push(b, cmd, time), time)
      /\ Alike(Pop(a, cmd, time), Pop(b, cmd, time), time)
  BY AlikeSet, AlikeGetSet, AlikeGetDel, AlikeGetEx, AlikeMSet, AlikeIncr, AlikePush, AlikePop
<1>3. /\ Alike(Lookup(a, cmd.key, time), Lookup(b, cmd.key, time), time)
      /\ Alike(Delete(a, {cmd.key, cmd.dst}), Delete(b, {cmd.key, cmd.dst}), time)
      /\ Alike(Flush(a), Flush(b), time)
  BY <1>1, AlikeLookup, AlikeDelete, AlikeFlush
<1>4. /\ Alike(ExpireAt(a, cmd.key, time + cmd.ttl, time),
               ExpireAt(b, cmd.key, time + cmd.ttl, time), time)
      /\ Alike(Persist(a, cmd.key, time), Persist(b, cmd.key, time), time)
      /\ Alike(Rename(a, cmd.key, cmd.dst, time), Rename(b, cmd.key, cmd.dst, time), time)
      /\ Alike(RenameNx(a, cmd.key, cmd.dst, time), RenameNx(b, cmd.key, cmd.dst, time), time)
  <2>1. time + cmd.ttl \in Int BY <1>1
  <2> QED BY <1>1, <2>1, AlikeExpireAt, AlikePersist, AlikeRename, AlikeRenameNx
<1>5. Alike(RunOn(a, cmd, time), RunOn(b, cmd, time), time)
  BY <1>2, <1>3, <1>4, Zenon DEF RunOn
<1>6. Fails(a, cmd, time) = Fails(b, cmd, time)
  <2>1. /\ Found(a, cmd.key, time) = Found(b, cmd.key, time)
        /\ Found(a, cmd.dst, time) = Found(b, cmd.dst, time)
    BY <1>1 DEF Alike
  <2>2. /\ WrongType(a, cmd.key, "string", time) = WrongType(b, cmd.key, "string", time)
        /\ WrongType(a, cmd.key, "container", time) = WrongType(b, cmd.key, "container", time)
        /\ NotAnInteger(a, cmd.key, time) = NotAnInteger(b, cmd.key, time)
    BY <2>1, Zenon DEF WrongType, NotAnInteger
  <2> QED BY <2>1, <2>2, Zenon DEF Fails
<1> QED BY <1>5, <1>6

(***************************************************************************)
(* Removing every expired entry changes nothing that is visible.           *)
(***************************************************************************)
LEMMA SweptAlike ==
    ASSUME NEW ks \in KeyspaceType, NEW time
    PROVE  Alike(ks, Swept(ks, time), time)
<1>1. Swept(ks, time) \in KeyspaceType BY DeleteLater DEF Swept, Later
<1>2. ASSUME NEW j \in Key PROVE Found(ks, j, time) = Found(Swept(ks, time), j, time)
  <2>1. Found(Swept(ks, time), j, time)
            = IF j \in Expired(ks, time) THEN Absent ELSE Found(ks, j, time)
    BY DeleteFound DEF Swept
  <2> QED BY <2>1 DEF Found
<1> QED BY <1>1, <1>2 DEF Alike

-----------------------------------------------------------------------------
(***************************************************************************)
(* Steps and types.                                                        *)
(***************************************************************************)
LEMMA RequestIsCommand ==
    ASSUME NEW cmd \in Requests
    PROVE  cmd \in Command
BY TransactionAssumption

(***************************************************************************)
(* The initial state has the right types.                                  *)
(***************************************************************************)
LEMMA InitType == Init => TypeOK
<1> SUFFICES ASSUME Init PROVE TypeOK
  OBVIOUS
<1>1. EmptyKeyspace \in KeyspaceType
  BY DEF EmptyKeyspace, KeyspaceType
<1>2. NoDatabases \in [DB -> KeyspaceType]
  BY <1>1 DEF NoDatabases
<1>3. /\ NothingWatched \in [Location -> Nat \cup {Unwatched}]
      /\ NothingSeen \in [Location -> Entry \cup {Absent}]
  BY DEF NothingWatched, NothingSeen
<1>4. now \in 0..MaxTime /\ DefaultDB \in DB
  BY TransactionAssumption DEF Init
<1>5. QED
  BY <1>2, <1>3, <1>4 DEF Init, TypeOK

(***************************************************************************)
(* A command, called directly or run by EXEC.                              *)
(***************************************************************************)
LEMMA DispatchLater ==
    ASSUME TypeOK, NEW c \in Client, NEW cmd \in Requests, Dispatch(c, cmd)
    PROVE  AllLater(dbs, dbs') /\ db' \in [Client -> DB]
<1>1. cmd \in Command /\ db[c] \in DB /\ now \in Nat /\ dbs \in [DB -> KeyspaceType]
  BY RequestIsCommand, TransactionAssumption DEF TypeOK
<1>2. PICK victims \in SUBSET Evictable(dbs) :
         \/ /\ dbs' = Execute(Evict(dbs, victims), db[c], cmd, now)
            /\ db' = [db EXCEPT ![c] = SelectedAfter(@, cmd)]
         \/ dbs' = Evict(dbs, victims) /\ db' = db
  BY DEF Dispatch
<1> DEFINE left == Evict(dbs, victims)
<1>3. AllLater(dbs, left) /\ left \in [DB -> KeyspaceType]
  BY <1>1, EvictLater DEF AllLater
<1> HIDE DEF left
<1>4. AllLater(left, Execute(left, db[c], cmd, now))
  BY <1>1, <1>3, ExecuteLater
<1>5. AllLater(dbs, Execute(left, db[c], cmd, now))
  BY <1>1, <1>3, <1>4, AllLaterTransitive
<1>6. AllLater(dbs, dbs')
  BY <1>2, <1>3, <1>5 DEF left
<1>7. SelectedAfter(db[c], cmd) \in DB
  BY <1>1 DEF SelectedAfter, Command
<1>8. db' \in [Client -> DB]
  BY <1>2, <1>7 DEF TypeOK
<1>9. QED
  BY <1>6, <1>8

(***************************************************************************)
(* Whatever the server does takes the databases forward: commands, EXEC,   *)
(* evictions and active expiry are the only steps that touch them.         *)
(***************************************************************************)
LEMMA StepLater ==
    ASSUME TypeOK, [Next]_vars
    PROVE  AllLater(dbs, dbs')
<1> DEFINE Same == dbs' = dbs
<1>1. dbs \in [DB -> KeyspaceType]
  BY DEF TypeOK
<1>2. Same => AllLater(dbs, dbs')
  BY <1>1, AllLaterReflexive
<1>3. ASSUME NEW c \in Client, NEW cmd \in Requests, Call(c, cmd)
      PROVE  AllLater(dbs, dbs')
  BY <1>3, DispatchLater DEF Call
<1>4. ASSUME NEW c \in Client, NEW cmd \in Requests, Enqueue(c, cmd)
      PROVE  Same
  BY <1>4 DEF Enqueue
<1>5. ASSUME NEW c \in Client,
             \/ \E k \in Key : Watch(c, k)
             \/ Multi(c) \/ Unwatch(c) \/ Discard(c) \/ Disconnect(c)
      PROVE  Same
  BY <1>5 DEF Watch, Multi, Unwatch, Discard, Disconnect
<1>6. ASSUME NEW c \in Client, Exec(c) \/ ExecRefused(c)
      PROVE  AllLater(dbs, dbs')
  BY <1>1, <1>6, EvictLater DEF Exec, ExecRefused
<1>7. ASSUME ExecCommand
      PROVE  AllLater(dbs, dbs')
  <2>1. running \in Client /\ Head(rest) \in Requests
    BY <1>7 DEF ExecCommand, Idle, TypeOK
  <2>2. QED
    BY <1>7, <2>1, DispatchLater DEF ExecCommand
<1>8. ASSUME ExecReply \/ Tick \/ UNCHANGED vars
      PROVE  Same
  BY <1>8 DEF ExecReply, Tick, vars
<1>9. ASSUME PurgeExpiredBatch
      PROVE  AllLater(dbs, dbs')
  BY <1>1, <1>9, DeleteFromAllLater DEF PurgeExpiredBatch
<1>10. QED
  BY <1>2, <1>3, <1>4, <1>5, <1>6, <1>7, <1>8, <1>9 DEF Next

(***************************************************************************)
(* The steps that only change what a connection remembers.                 *)
(***************************************************************************)
LEMMA ForgetWatchesType ==
    ASSUME TypeOK, NEW c \in Client, ForgetWatches(c)
    PROVE  /\ watch' \in [Client -> [Location -> Nat \cup {Unwatched}]]
           /\ seen' \in [Client -> [Location -> Entry \cup {Absent}]]
BY DEF ForgetWatches, TypeOK, NothingWatched, NothingSeen

(***************************************************************************)
(* Closing a transaction keeps the types.                                  *)
(***************************************************************************)
LEMMA CloseTransactionType ==
    ASSUME TypeOK, NEW c \in Client, CloseTransaction(c)
    PROVE  /\ open' \in [Client -> BOOLEAN]
           /\ queue' \in [Client -> Seq(Requests)]
<1>1. <<>> \in Seq(Requests)
  OBVIOUS
<1>2. QED
  BY <1>1 DEF CloseTransaction, TypeOK

(***************************************************************************)
(* WATCH keeps the types.                                                  *)
(***************************************************************************)
LEMMA WatchType ==
    ASSUME TypeOK, NEW c \in Client, NEW k \in Key, Watch(c, k)
    PROVE  /\ watch' \in [Client -> [Location -> Nat \cup {Unwatched}]]
           /\ seen' \in [Client -> [Location -> Entry \cup {Absent}]]
<1> DEFINE l == <<db[c], k>>
<1>1. l \in Location /\ l[1] = db[c] /\ l[2] = k /\ db[c] \in DB
  BY DEF Location, TypeOK
<1>2. /\ VersionAt(dbs, l) \in Nat
      /\ EntryAt(dbs, l) \in Entry \cup {Absent}
  <2>1. dbs[db[c]] \in KeyspaceType
    BY <1>1 DEF TypeOK
  <2>2. /\ dbs[db[c]].ver[k] \in Nat
        /\ dbs[db[c]].entries[k] \in Entry \cup {Absent}
    BY <2>1 DEF KeyspaceType
  <2>3. QED
    BY <1>1, <2>2 DEF VersionAt, EntryAt
<1>3. /\ watch' = [watch EXCEPT ![c][l] = VersionAt(dbs, l)]
      /\ seen' = [seen EXCEPT ![c][l] = EntryAt(dbs, l)]
  BY DEF Watch
<1> HIDE DEF l
<1>4. QED
  BY <1>1, <1>2, <1>3 DEF TypeOK

(***************************************************************************)
(* Every step keeps the types.                                             *)
(***************************************************************************)
LEMMA StepType ==
    ASSUME TypeOK, [Next]_vars
    PROVE  TypeOK'
<1>1. dbs' \in [DB -> KeyspaceType]
  BY StepLater DEF AllLater
<1>2. ASSUME NEW c \in Client, NEW cmd \in Requests, Call(c, cmd)
      PROVE  TypeOK'
  BY <1>1, <1>2, DispatchLater DEF Call, TypeOK, exec
<1>3. ASSUME NEW c \in Client, NEW cmd \in Requests, Enqueue(c, cmd)
      PROVE  TypeOK'
  BY <1>1, <1>3 DEF Enqueue, TypeOK, exec
<1>4. ASSUME NEW c \in Client, Multi(c)
      PROVE  TypeOK'
  <2>1. <<>> \in Seq(Requests)
    OBVIOUS
  <2>2. QED
    BY <1>1, <1>4, <2>1 DEF Multi, TypeOK, exec
<1>5. ASSUME NEW c \in Client, NEW k \in Key, Watch(c, k)
      PROVE  TypeOK'
  BY <1>1, <1>5, WatchType DEF Watch, TypeOK, exec
<1>6. ASSUME NEW c \in Client, Unwatch(c) \/ Discard(c)
      PROVE  TypeOK'
  BY <1>1, <1>6, ForgetWatchesType, CloseTransactionType
     DEF Unwatch, Discard, TypeOK, exec
<1>7. ASSUME NEW c \in Client, Exec(c)
      PROVE  TypeOK'
  <2>1. /\ open' \in [Client -> BOOLEAN] /\ queue' \in [Client -> Seq(Requests)]
        /\ watch' \in [Client -> [Location -> Nat \cup {Unwatched}]]
        /\ seen' \in [Client -> [Location -> Entry \cup {Absent}]]
    BY <1>7, ForgetWatchesType, CloseTransactionType DEF Exec
  <2>2. /\ running' \in Client \cup {Nobody}
        /\ rest' \in Seq(Requests)
        /\ base' \in [DB -> KeyspaceType]
    BY <1>1, <1>7 DEF Exec, exec, TypeOK
  <2>3. now' \in 0..MaxTime /\ db' \in [Client -> DB]
    BY <1>7 DEF Exec, TypeOK
  <2>4. QED
    BY <1>1, <2>1, <2>2, <2>3 DEF TypeOK
<1>8. ASSUME NEW c \in Client, ExecRefused(c)
      PROVE  TypeOK'
  BY <1>1, <1>8 DEF ExecRefused, TypeOK, session, exec
<1>9. ASSUME ExecCommand
      PROVE  TypeOK'
  <2>1. running \in Client /\ Head(rest) \in Requests /\ Tail(rest) \in Seq(Requests)
    BY <1>9 DEF ExecCommand, Idle, TypeOK
  <2>2. db' \in [Client -> DB]
    BY <1>9, <2>1, DispatchLater DEF ExecCommand
  <2>3. QED
    BY <1>1, <1>9, <2>1, <2>2 DEF ExecCommand, TypeOK
<1>10. ASSUME ExecReply
      PROVE  TypeOK'
  <2>1. NoDatabases \in [DB -> KeyspaceType]
    BY DEF NoDatabases, EmptyKeyspace, KeyspaceType
  <2>2. QED
    BY <1>1, <1>10, <2>1 DEF ExecReply, TypeOK, session
<1>11. ASSUME NEW c \in Client, Disconnect(c)
      PROVE  TypeOK'
  <2>1. db' \in [Client -> DB]
    BY <1>11, TransactionAssumption DEF Disconnect, TypeOK
  <2>2. QED
    BY <1>1, <1>11, <2>1, ForgetWatchesType, CloseTransactionType
       DEF Disconnect, TypeOK, exec
<1>12. ASSUME PurgeExpiredBatch
      PROVE  TypeOK'
  BY <1>1, <1>12 DEF PurgeExpiredBatch, TypeOK, session, exec
<1>13. ASSUME Tick
      PROVE  TypeOK'
  <2>1. now' \in 0..MaxTime
    BY <1>13, TransactionAssumption DEF Tick, TypeOK
  <2>2. QED
    BY <1>1, <1>13, <2>1 DEF Tick, TypeOK, session, exec
<1>14. ASSUME UNCHANGED vars
      PROVE  TypeOK'
  BY <1>14 DEF vars, session, exec, TypeOK
<1>15. QED
  BY <1>2, <1>3, <1>4, <1>5, <1>6, <1>7, <1>8, <1>9, <1>10, <1>11, <1>12,
     <1>13, <1>14 DEF Next

(***************************************************************************)
(* The types hold in every behaviour of the transaction engine.            *)
(***************************************************************************)
THEOREM TypeCorrect == Spec => []TypeOK
<1>1. Init => TypeOK
  BY InitType
<1>2. TypeOK /\ [Next]_vars => TypeOK'
  BY StepType
<1>3. QED
  BY <1>1, <1>2, PTL DEF Spec

-----------------------------------------------------------------------------
(***************************************************************************)
(* No database goes back: a name that changes gets a version that was      *)
(* never in use before.                                                    *)
(***************************************************************************)
THEOREM VersionsAlwaysAdvance == Spec => VersionsAdvance
<1>1. TypeOK /\ [Next]_vars => [\A d \in DB : Advances(dbs[d], dbs'[d])]_vars
  BY StepLater DEF AllLater
<1>2. QED
  BY <1>1, TypeCorrect, PTL DEF Spec, VersionsAdvance

(***************************************************************************)
(* Whichever expired entries the look-ups, the purges and the evictions    *)
(* have removed so far, a command that is called now leaves the same       *)
(* visible contents as if all of them had been removed, and fails in the   *)
(* same cases (Keyspace.get_entry).  Its reply is not compared: that of DEL*)
(* counts expired entries, and EXEC looks at versions.                     *)
(***************************************************************************)
THEOREM ContentsIgnoreTheExpired == Spec => []ContentsIgnoreExpired
<1>1. TypeOK => ContentsIgnoreExpired
  <2> SUFFICES ASSUME TypeOK, NEW d \in DB, NEW cmd \in Requests,
                      NEW swept, swept = Swept(dbs[d], now)
               PROVE  /\ Visible(RunOn(dbs[d], cmd, now), now)
                             = Visible(RunOn(swept, cmd, now), now)
                      /\ Fails(dbs[d], cmd, now) = Fails(swept, cmd, now)
    BY DEF ContentsIgnoreExpired
  <2>1. dbs[d] \in KeyspaceType /\ now \in Nat /\ cmd \in Command
    BY RequestIsCommand, TransactionAssumption DEF TypeOK
  <2>2. Alike(dbs[d], swept, now) BY <2>1, SweptAlike
  <2>3. /\ Alike(RunOn(dbs[d], cmd, now), RunOn(swept, cmd, now), now)
        /\ Fails(dbs[d], cmd, now) = Fails(swept, cmd, now)
    BY <2>1, <2>2, RunOnAlike
  <2> QED BY <2>3 DEF Alike, Visible
<1> QED BY <1>1, TypeCorrect, PTL

-----------------------------------------------------------------------------
(***************************************************************************)
(* The inductive invariant.  WatchSound is not inductive by itself: a key  *)
(* could be given just the version somebody watched it with.  It cannot,   *)
(* because every version in a database and every watched version has been  *)
(* issued, and a new one is larger.  While EXEC runs, the versions are     *)
(* compared with those of the databases it found, which is what the other  *)
(* clients see.                                                            *)
(***************************************************************************)
VersionsIssued == \A d \in DB, k \in Key : dbs[d].ver[k] <= dbs[d].glob

WatchedIssued ==
    \A c \in Client, l \in Location :
        watch[c][l] # Unwatched => watch[c][l] <= Shown[l[1]].glob

IInv ==
    /\ TypeOK
    /\ VersionsIssued
    /\ AllLater(Shown, dbs)
    /\ WatchedIssued
    /\ WatchSound

(***************************************************************************)
(* A location is a database and a key.                                     *)
(***************************************************************************)
LEMMA LocationParts ==
    ASSUME NEW l \in Location
    PROVE  l[1] \in DB /\ l[2] \in Key
BY DEF Location

(***************************************************************************)
(* What TypeOK says of one database.                                       *)
(***************************************************************************)
LEMMA DatabaseParts ==
    ASSUME NEW x \in [DB -> KeyspaceType], NEW d \in DB
    PROVE  /\ x[d].glob \in Nat
           /\ \A k \in Key : x[d].ver[k] \in Nat
<1>1. x[d] \in KeyspaceType
  OBVIOUS
<1>2. QED
  BY <1>1 DEF KeyspaceType

(***************************************************************************)
(* What the clients are shown has the type of the databases.               *)
(***************************************************************************)
LEMMA ShownType ==
    ASSUME TypeOK
    PROVE  Shown \in [DB -> KeyspaceType]
BY DEF TypeOK, Shown

(***************************************************************************)
(* A watch is dropped, kept, or taken from the databases as they are.      *)
(***************************************************************************)
LEMMA WatchStep ==
    ASSUME TypeOK, [Next]_vars, NEW c \in Client, NEW l \in Location
    PROVE  \/ watch'[c][l] = Unwatched
           \/ watch'[c][l] = watch[c][l] /\ seen'[c][l] = seen[c][l]
           \/ /\ watch'[c][l] = VersionAt(dbs, l)
              /\ seen'[c][l] = EntryAt(dbs, l)
              /\ dbs' = dbs /\ Idle /\ Idle'
<1> DEFINE Claim == \/ watch'[c][l] = Unwatched
                    \/ watch'[c][l] = watch[c][l] /\ seen'[c][l] = seen[c][l]
                    \/ /\ watch'[c][l] = VersionAt(dbs, l)
                       /\ seen'[c][l] = EntryAt(dbs, l)
                       /\ dbs' = dbs /\ Idle /\ Idle'
<1>1. UNCHANGED <<watch, seen>> => Claim
  OBVIOUS
<1>2. ASSUME NEW x \in Client, ForgetWatches(x)
      PROVE  Claim
  BY <1>2 DEF ForgetWatches, NothingWatched, TypeOK
<1>3. ASSUME NEW x \in Client, NEW k \in Key, Watch(x, k)
      PROVE  Claim
  <2> DEFINE m == <<db[x], k>>
  <2>1. /\ watch' = [watch EXCEPT ![x][m] = VersionAt(dbs, m)]
        /\ seen' = [seen EXCEPT ![x][m] = EntryAt(dbs, m)]
        /\ dbs' = dbs /\ Idle /\ running' = running
    BY <1>3 DEF Watch, exec
  <2> HIDE DEF m
  <2>2. CASE x = c /\ m = l
    BY <2>1, <2>2 DEF TypeOK, Idle
  <2>3. CASE ~(x = c /\ m = l)
    BY <2>1, <2>3 DEF TypeOK
  <2>4. QED
    BY <2>2, <2>3
<1> HIDE DEF Claim
<1>4. ASSUME NEW x \in Client,
             \/ \E cmd \in Requests : Call(x, cmd) \/ Enqueue(x, cmd)
             \/ Multi(x) \/ ExecRefused(x)
      PROVE  Claim
  BY <1>1, <1>4 DEF Call, Enqueue, Multi, ExecRefused, session
<1>5. ASSUME NEW x \in Client, Unwatch(x) \/ Discard(x) \/ Exec(x) \/ Disconnect(x)
      PROVE  Claim
  BY <1>2, <1>5 DEF Unwatch, Discard, Exec, Disconnect
<1>6. ASSUME ExecCommand \/ ExecReply \/ PurgeExpiredBatch \/ Tick \/ UNCHANGED vars
      PROVE  Claim
  BY <1>1, <1>6 DEF ExecCommand, ExecReply, PurgeExpiredBatch, Tick, session, vars
<1>7. Claim
  BY <1>3, <1>4, <1>5, <1>6 DEF Next
<1>8. QED
  BY <1>7 DEF Claim

(***************************************************************************)
(* EXEC starts from the databases it leaves after evicting, and its reply  *)
(* changes nothing.                                                        *)
(***************************************************************************)
LEMMA RunningStep ==
    ASSUME TypeOK, [Next]_vars
    PROVE  \/ UNCHANGED <<running, base>>
           \/ Idle /\ ~Idle' /\ base' = dbs'
           \/ ~Idle /\ Idle' /\ dbs' = dbs
<1>1. ASSUME NEW c \in Client, Exec(c)
      PROVE  \/ UNCHANGED <<running, base>>
             \/ Idle /\ ~Idle' /\ base' = dbs'
  BY <1>1, TransactionAssumption DEF Exec, Idle, exec
<1>2. ASSUME ExecReply
      PROVE  ~Idle /\ Idle' /\ dbs' = dbs
  BY <1>2 DEF ExecReply, Idle
<1>3. ASSUME NEW c \in Client,
             \/ \E cmd \in Requests : Call(c, cmd) \/ Enqueue(c, cmd)
             \/ \E k \in Key : Watch(c, k)
             \/ Multi(c) \/ Unwatch(c) \/ Discard(c) \/ ExecRefused(c) \/ Disconnect(c)
      PROVE  UNCHANGED <<running, base>>
  BY <1>3 DEF Call, Enqueue, Watch, Multi, Unwatch, Discard, ExecRefused, Disconnect, exec
<1>4. ASSUME ExecCommand \/ PurgeExpiredBatch \/ Tick \/ UNCHANGED vars
      PROVE  UNCHANGED <<running, base>>
  BY <1>4 DEF ExecCommand, PurgeExpiredBatch, Tick, exec, vars
<1>5. QED
  BY <1>1, <1>2, <1>3, <1>4 DEF Next

(***************************************************************************)
(* What the other clients see never goes back either.                      *)
(***************************************************************************)
LEMMA ShownStep ==
    ASSUME TypeOK, AllLater(Shown, dbs), [Next]_vars
    PROVE  AllLater(Shown, Shown') /\ AllLater(Shown', dbs')
<1>1. /\ AllLater(dbs, dbs')
      /\ dbs \in [DB -> KeyspaceType] /\ dbs' \in [DB -> KeyspaceType]
      /\ Shown \in [DB -> KeyspaceType]
  BY StepLater, ShownType DEF AllLater, TypeOK
<1>2. AllLater(Shown, dbs') /\ AllLater(dbs', dbs') /\ AllLater(Shown, Shown)
  BY <1>1, AllLaterTransitive, AllLaterReflexive
<1>3. Shown' = dbs' \/ Shown' = Shown
  BY RunningStep DEF Shown, Idle
<1>4. QED
  BY <1>2, <1>3

(***************************************************************************)
(* The invariant holds at the start: nothing is watched.                   *)
(***************************************************************************)
LEMMA InitInductive == Init => IInv
<1> SUFFICES ASSUME Init PROVE IInv
  OBVIOUS
<1>1. TypeOK
  BY InitType
<1>2. VersionsIssued
  BY DEF Init, NoDatabases, EmptyKeyspace, VersionsIssued
<1>3. \A c \in Client, l \in Location : watch[c][l] = Unwatched
  BY DEF Init, NothingWatched
<1>4. Shown = dbs
  BY DEF Init, Shown, Idle
<1>5. AllLater(Shown, dbs)
  BY <1>1, <1>4, AllLaterReflexive DEF TypeOK
<1>6. QED
  BY <1>1, <1>2, <1>3, <1>5 DEF IInv, WatchedIssued, WatchSound

(***************************************************************************)
(* A version somebody watched with is not issued again.                    *)
(***************************************************************************)
LEMMA StepInductive == IInv /\ [Next]_vars => IInv'
<1> SUFFICES ASSUME IInv, [Next]_vars
             PROVE  IInv'
  OBVIOUS
<1>1. TypeOK /\ TypeOK'
  BY StepType DEF IInv
<1>2. /\ AllLater(dbs, dbs')
      /\ AllLater(Shown, Shown')
      /\ AllLater(Shown', dbs')
      /\ Shown \in [DB -> KeyspaceType] /\ Shown' \in [DB -> KeyspaceType]
  BY StepLater, ShownStep, ShownType DEF IInv, AllLater
<1>3. /\ \A d \in DB :
            /\ dbs[d].glob \in Nat /\ dbs'[d].glob \in Nat
            /\ Shown[d].glob \in Nat /\ Shown'[d].glob \in Nat
      /\ \A d \in DB, k \in Key : dbs[d].ver[k] \in Nat /\ dbs'[d].ver[k] \in Nat
  BY <1>1, <1>2, DatabaseParts DEF TypeOK
<1>4. VersionsIssued'
  <2>1. ASSUME NEW d \in DB, NEW k \in Key
        PROVE  dbs'[d].ver[k] <= dbs'[d].glob
    <3>1. dbs[d].ver[k] <= dbs[d].glob
      BY DEF IInv, VersionsIssued
    <3>2. /\ dbs[d].glob <= dbs'[d].glob
          /\ \/ dbs'[d].ver[k] = dbs[d].ver[k]
             \/ dbs'[d].ver[k] <= dbs'[d].glob
      BY <1>2 DEF AllLater, Advances
    <3>3. QED
      BY <1>3, <3>1, <3>2
  <2>2. QED
    BY <2>1 DEF VersionsIssued
<1>5. ASSUME NEW c \in Client, NEW l \in Location, watch'[c][l] # Unwatched
      PROVE  /\ watch'[c][l] <= Shown'[l[1]].glob
             /\ watch'[c][l] = VersionAt(dbs', l) => EntryAt(dbs', l) = seen'[c][l]
  <2>1. l[1] \in DB /\ l[2] \in Key
    BY LocationParts
  <2>2. watch'[c][l] \in Nat
    BY <1>1, <1>5 DEF TypeOK
  <2>3. CASE watch'[c][l] = watch[c][l] /\ seen'[c][l] = seen[c][l]
    <3>1. /\ watch[c][l] <= Shown[l[1]].glob
          /\ watch[c][l] = VersionAt(dbs, l) => EntryAt(dbs, l) = seen[c][l]
      BY <1>5, <2>3 DEF IInv, WatchedIssued, WatchSound
    <3>2. /\ Shown[l[1]].glob <= Shown'[l[1]].glob
          /\ Shown[l[1]].glob <= dbs[l[1]].glob
      BY <1>2, <2>1 DEF IInv, AllLater, Advances
    <3>3. \/ /\ VersionAt(dbs', l) = VersionAt(dbs, l)
             /\ EntryAt(dbs', l) = EntryAt(dbs, l)
          \/ dbs[l[1]].glob < VersionAt(dbs', l)
      BY <1>2, <2>1 DEF AllLater, Advances, VersionAt, EntryAt
    <3>4. VersionAt(dbs', l) \in Nat
      BY <1>3, <2>1 DEF VersionAt
    <3>5. QED
      BY <1>3, <2>1, <2>2, <2>3, <3>1, <3>2, <3>3, <3>4
  <2>4. CASE /\ watch'[c][l] = VersionAt(dbs, l)
             /\ seen'[c][l] = EntryAt(dbs, l)
             /\ dbs' = dbs /\ Idle /\ Idle'
    <3>1. Shown' = dbs
      BY <2>4 DEF Shown
    <3>2. VersionAt(dbs, l) <= dbs[l[1]].glob
      BY <2>1 DEF IInv, VersionsIssued, VersionAt
    <3>3. QED
      BY <2>4, <3>1, <3>2
  <2>5. QED
    BY <1>1, <1>5, <2>3, <2>4, WatchStep
<1>6. QED
  BY <1>1, <1>2, <1>4, <1>5 DEF IInv, WatchedIssued, WatchSound

(***************************************************************************)
(* The inductive invariant holds in every state.                           *)
(***************************************************************************)
LEMMA InductiveInvariant == Spec => []IInv
BY InitInductive, StepInductive, PTL DEF Spec

(***************************************************************************)
(* A key that still has the version a client watched it with still holds   *)
(* the entry the client saw: comparing versions is enough.                 *)
(***************************************************************************)
THEOREM WatchIsSound == Spec => []WatchSound
<1>1. IInv => WatchSound
  BY DEF IInv
<1>2. QED
  BY <1>1, InductiveInvariant, PTL

(***************************************************************************)
(* When EXEC starts to run its queue, every key the client watches holds   *)
(* what the client saw, although EXEC may have evicted entries first.      *)
(***************************************************************************)
LEMMA ExecUnmodified ==
    ASSUME IInv, NEW c \in Client, Exec(c), running' # Nobody,
           NEW l \in Location, watch[running'][l] # Unwatched
    PROVE  /\ running' = c
           /\ VersionAt(dbs', l) = VersionAt(dbs, l)
           /\ EntryAt(dbs', l) = EntryAt(dbs, l)
           /\ EntryAt(dbs', l) = seen[c][l]
<1>1. /\ running' = c /\ WatchedUnmodified(c, dbs')
      /\ watch[c][l] # Unwatched /\ Idle
  BY DEF Exec, Idle, exec
<1>2. l[1] \in DB /\ l[2] \in Key
  BY LocationParts
<1>3. AllLater(dbs, dbs') /\ TypeOK
  BY StepLater DEF IInv, Next
<1>4. /\ VersionAt(dbs', l) = watch[c][l]
      /\ watch[c][l] <= dbs[l[1]].glob
  BY <1>1 DEF WatchedUnmodified, IInv, WatchedIssued, Shown
<1>5. watch[c][l] \in Nat /\ dbs[l[1]].glob \in Nat
  BY <1>1, <1>2, <1>3 DEF TypeOK, KeyspaceType
<1>6. ~(dbs[l[1]].glob < VersionAt(dbs', l))
  BY <1>4, <1>5
<1>7. /\ VersionAt(dbs', l) = VersionAt(dbs, l)
      /\ EntryAt(dbs', l) = EntryAt(dbs, l)
  BY <1>2, <1>3, <1>6 DEF AllLater, Advances, VersionAt, EntryAt
<1>8. EntryAt(dbs, l) = seen[c][l]
  BY <1>1, <1>4, <1>7 DEF IInv, WatchSound
<1>9. QED
  BY <1>1, <1>7, <1>8

(***************************************************************************)
(* Only EXEC makes a transaction start to run.                             *)
(***************************************************************************)
LEMMA OnlyExecBegins ==
    ASSUME Idle, running' # Nobody, [Next]_vars
    PROVE  \E c \in Client : Exec(c)
<1>1. ASSUME NEW c \in Client,
             \/ \E cmd \in Requests : Call(c, cmd) \/ Enqueue(c, cmd)
             \/ \E k \in Key : Watch(c, k)
             \/ Multi(c) \/ Unwatch(c) \/ Discard(c) \/ ExecRefused(c) \/ Disconnect(c)
      PROVE  running' = running
  BY <1>1 DEF Call, Enqueue, Watch, Multi, Unwatch, Discard, ExecRefused, Disconnect, exec
<1>2. ASSUME ExecCommand \/ ExecReply \/ PurgeExpiredBatch \/ Tick \/ UNCHANGED vars
      PROVE  FALSE
  BY <1>2 DEF ExecCommand, ExecReply, PurgeExpiredBatch, Tick, exec, vars, Idle
<1>3. QED
  BY <1>1, <1>2 DEF Next, Idle

(***************************************************************************)
(* No transaction ever runs its queue over a watched key that is not as    *)
(* the client saw it (CommitUnmodified).                                   *)
(***************************************************************************)
THEOREM CommitsAreUnmodified == Spec => CommitUnmodified
<1> DEFINE Unmodified ==
        Idle /\ running' # Nobody =>
            \A l \in Location :
                watch[running'][l] # Unwatched => EntryAt(dbs', l) = seen[running'][l]
<1>1. IInv /\ [Next]_vars => [Unmodified]_vars
  <2> SUFFICES ASSUME IInv, [Next]_vars, Idle, running' # Nobody,
                      NEW l \in Location, watch[running'][l] # Unwatched
               PROVE  EntryAt(dbs', l) = seen[running'][l]
    OBVIOUS
  <2>1. PICK c \in Client : Exec(c)
    BY OnlyExecBegins
  <2>2. QED
    BY <2>1, ExecUnmodified
<1>2. QED
  BY <1>1, InductiveInvariant, PTL DEF Spec, CommitUnmodified

-----------------------------------------------------------------------------
(***************************************************************************)
(* The memory limit.  Eviction and expiry only take locations away.        *)
(***************************************************************************)
LEMMA DeleteOccupied ==
    ASSUME NEW databases \in [DB -> KeyspaceType], NEW names
    PROVE  Occupied([d \in DB |-> Delete(databases[d], names[d])])
               = {l \in Occupied(databases) : l[2] \notin names[l[1]]}
<1> DEFINE left == [d \in DB |-> Delete(databases[d], names[d])]
<1>1. ASSUME NEW l \in Location
      PROVE  EntryAt(left, l) = IF l[2] \in names[l[1]] THEN Absent ELSE EntryAt(databases, l)
  <2>1. l[1] \in DB /\ l[2] \in Key
    BY LocationParts
  <2>2. EntryAt(left, l) = Delete(databases[l[1]], names[l[1]]).entries[l[2]]
    BY <2>1 DEF EntryAt
  <2> QED
    BY <2>1, <2>2 DEF Delete, Stored, EntryAt
<1> HIDE DEF left
<1>2. Occupied(left) = {l \in Occupied(databases) : l[2] \notin names[l[1]]}
  BY <1>1 DEF Occupied
<1> QED
  BY <1>2 DEF left

(***************************************************************************)
(* What is left after an eviction is what was stored without the victims.  *)
(***************************************************************************)
LEMMA EvictOccupied ==
    ASSUME NEW databases \in [DB -> KeyspaceType], NEW victims
    PROVE  Occupied(Evict(databases, victims)) = Occupied(databases) \ victims
<1> DEFINE names == [d \in DB |-> {k \in Key : <<d, k>> \in victims}]
           left == [d \in DB |-> Delete(databases[d], names[d])]
<1>1. Evict(databases, victims) = left
  BY DEF Evict
<1>2. Occupied(left) = {l \in Occupied(databases) : l[2] \notin names[l[1]]}
  BY DeleteOccupied
<1>3. ASSUME NEW l \in Location
      PROVE  l[2] \in names[l[1]] <=> l \in victims
  BY LocationParts DEF Location
<1> HIDE DEF names, left
<1> QED
  BY <1>1, <1>2, <1>3 DEF Occupied

(***************************************************************************)
(* A command that is not a write stores nothing.                           *)
(***************************************************************************)
LEMMA ReadStoresNothing ==
    ASSUME NEW databases \in [DB -> KeyspaceType], NEW d \in DB,
           NEW cmd \in Command, ~IsWrite(cmd), NEW at
    PROVE  Occupied(Execute(databases, d, cmd, at)) \subseteq Occupied(databases)
<1>1. cmd.op \in Reads
  BY DEF Command, IsWrite
<1>2. cmd.op # "FLUSHALL" /\ cmd.op \in {"GET", "SELECT"}
  BY <1>1 DEF Reads
<1>3. Execute(databases, d, cmd, at)
          = [databases EXCEPT ![d] = RunOn(databases[d], cmd, at)]
  BY <1>2 DEF Execute
<1>4. RunOn(databases[d], cmd, at) = Lookup(databases[d], cmd.key, at)
          \/ RunOn(databases[d], cmd, at) = databases[d]
  <2>1. CASE cmd.op = "GET"
    BY <2>1, Zenon DEF RunOn
  <2>2. CASE cmd.op = "SELECT"
    BY <2>2, SMT DEF RunOn
  <2> QED
    BY <1>2, <2>1, <2>2
<1>5. ASSUME NEW k \in Key, databases[d].entries[k] = Absent
      PROVE  RunOn(databases[d], cmd, at).entries[k] = Absent
  BY <1>4, <1>5 DEF Lookup, Delete
<1>6. ASSUME NEW l \in Occupied(Execute(databases, d, cmd, at))
      PROVE  l \in Occupied(databases)
  BY <1>3, <1>5, LocationParts DEF Occupied, EntryAt
<1> QED
  BY <1>6

(***************************************************************************)
(* The victims of an eviction stay marked whatever the command that        *)
(* follows does to their names.                                            *)
(***************************************************************************)
LEMMA VictimsMarked ==
    ASSUME IInv, NEW victims \in SUBSET Occupied(dbs), NEW later,
           AllLater(Evict(dbs, victims), later), NEW l \in victims
    PROVE  VersionAt(later, l) # VersionAt(dbs, l)
<1> DEFINE left == Evict(dbs, victims)
<1>1. dbs \in [DB -> KeyspaceType] /\ l \in Location /\ l[1] \in DB /\ l[2] \in Key
  BY LocationParts DEF IInv, TypeOK, Occupied
<1>2. AllLater(dbs, left)
  BY <1>1, EvictLater
<1>3. l \notin Occupied(left)
  BY <1>1, EvictOccupied
<1> HIDE DEF left
<1>4. /\ dbs[l[1]].glob <= left[l[1]].glob
      /\ dbs[l[1]].glob < VersionAt(left, l)
  BY <1>1, <1>2, <1>3 DEF AllLater, Advances, Occupied, EntryAt, VersionAt
<1>5. \/ VersionAt(later, l) = VersionAt(left, l)
      \/ left[l[1]].glob < VersionAt(later, l)
  BY <1>1 DEF AllLater, Advances, VersionAt, left
<1>6. VersionAt(dbs, l) <= dbs[l[1]].glob
  BY <1>1 DEF IInv, VersionsIssued, VersionAt
<1>7. /\ dbs[l[1]].glob \in Nat /\ left[l[1]].glob \in Nat
      /\ VersionAt(dbs, l) \in Nat /\ VersionAt(left, l) \in Nat /\ VersionAt(later, l) \in Nat
  <2>1. left \in [DB -> KeyspaceType] /\ later \in [DB -> KeyspaceType]
    BY <1>2 DEF AllLater
  <2> QED
    BY <1>1, <2>1 DEF KeyspaceType, VersionAt
<1> QED
  BY <1>4, <1>5, <1>6, <1>7

(***************************************************************************)
(* There are finitely many locations, and what fits takes no more of them  *)
(* than the limit.                                                         *)
(***************************************************************************)
LEMMA FittingRemainder ==
    ASSUME MaxMemory # 0, NEW databases, NEW victims, Fits(databases, victims)
    PROVE  /\ IsFiniteSet(Occupied(databases) \ victims)
           /\ Cardinality(Occupied(databases) \ victims) <= MaxMemory
<1>1. IsFiniteSet(Location)
  BY KeyAssumption, DBAssumption, FS_Product DEF Location
<1>2. IsFiniteSet(Occupied(databases)) /\ victims \subseteq Occupied(databases)
  BY <1>1, FS_Subset DEF Occupied, Fits, Evictable
<1>3. IsFiniteSet(victims)
  BY <1>2, FS_Subset
<1>4. /\ Cardinality(Occupied(databases)) \in Nat
      /\ Cardinality(victims) \in Nat
  BY <1>2, <1>3, FS_CardinalityType
<1>5. /\ IsFiniteSet(Occupied(databases) \ victims)
      /\ Cardinality(Occupied(databases) \ victims)
             = Cardinality(Occupied(databases)) - Cardinality(Occupied(databases) \cap victims)
  BY <1>2, FS_Difference
<1>6. Occupied(databases) \cap victims = victims
  BY <1>2
<1>7. Cardinality(victims) = Excess(databases)
  BY DEF Fits
<1> QED
  BY <1>4, <1>5, <1>6, <1>7, EvictionAssumption DEF Excess, UsedMemory

(***************************************************************************)
(* A dispatched command that stores something new has made room before.    *)
(***************************************************************************)
LEMMA DispatchBounded ==
    ASSUME IInv, NEW c \in Client, NEW cmd \in Requests, Dispatch(c, cmd),
           MaxMemory # 0, Growth # {}
    PROVE  Cardinality(Untouched) <= MaxMemory
<1>1. cmd \in Command /\ db[c] \in DB /\ now \in Nat /\ dbs \in [DB -> KeyspaceType]
  BY RequestIsCommand, TransactionAssumption DEF TypeOK, IInv
<1>2. PICK victims \in SUBSET Evictable(dbs) :
         \/ /\ IF IsWrite(cmd) THEN Fits(dbs, victims) ELSE victims = {}
            /\ dbs' = Execute(Evict(dbs, victims), db[c], cmd, now)
         \/ dbs' = Evict(dbs, victims)
  BY DEF Dispatch
<1>3. dbs' # Evict(dbs, victims)
  BY <1>1, EvictOccupied DEF Growth
<1>4. /\ Evict(dbs, victims) \in [DB -> KeyspaceType]
      /\ AllLater(Evict(dbs, victims), dbs')
  <2>1. Evict(dbs, victims) \in [DB -> KeyspaceType]
    BY <1>1, EvictLater DEF AllLater
  <2> QED
    BY <1>1, <1>2, <1>3, <2>1, ExecuteLater
<1>5. IsWrite(cmd)
  <2>1. SUFFICES ASSUME ~IsWrite(cmd) PROVE FALSE
    OBVIOUS
  <2>2. Occupied(dbs') \subseteq Occupied(Evict(dbs, victims))
    BY <1>1, <1>2, <1>3, <1>4, <2>1, ReadStoresNothing
  <2> QED
    BY <1>1, <2>2, EvictOccupied DEF Growth
<1>6. Fits(dbs, victims) /\ victims \in SUBSET Occupied(dbs)
  BY <1>2, <1>3, <1>5 DEF Evictable
<1>7. Untouched \subseteq Occupied(dbs) \ victims
  BY <1>4, <1>6, VictimsMarked DEF Untouched
<1>8. /\ IsFiniteSet(Occupied(dbs) \ victims)
      /\ Cardinality(Occupied(dbs) \ victims) <= MaxMemory
  BY <1>6, FittingRemainder
<1>9. /\ IsFiniteSet(Untouched)
      /\ Cardinality(Untouched) <= Cardinality(Occupied(dbs) \ victims)
  BY <1>7, <1>8, FS_Subset
<1>10. Cardinality(Untouched) \in Nat /\ Cardinality(Occupied(dbs) \ victims) \in Nat
  BY <1>8, <1>9, FS_CardinalityType
<1> QED
  BY <1>8, <1>9, <1>10, EvictionAssumption

(***************************************************************************)
(* Only a command, called or run by EXEC, stores anything.                 *)
(***************************************************************************)
LEMMA OnlyCommandsGrow ==
    ASSUME IInv, [Next]_vars, Growth # {}
    PROVE  \E c \in Client, cmd \in Requests : Dispatch(c, cmd)
<1>1. dbs \in [DB -> KeyspaceType]
  BY DEF IInv, TypeOK
<1>2. ASSUME NEW c \in Client, NEW cmd \in Requests, Call(c, cmd)
      PROVE  Dispatch(c, cmd)
  BY <1>2 DEF Call
<1>3. ASSUME NEW c \in Client,
             \/ \E cmd \in Requests : Enqueue(c, cmd)
             \/ \E k \in Key : Watch(c, k)
             \/ Multi(c) \/ Unwatch(c) \/ Discard(c) \/ Disconnect(c)
      PROVE  dbs' = dbs
  BY <1>3 DEF Enqueue, Watch, Multi, Unwatch, Discard, Disconnect
<1>4. ASSUME NEW c \in Client, Exec(c) \/ ExecRefused(c)
      PROVE  Growth = {}
  BY <1>1, <1>4, EvictOccupied DEF Exec, ExecRefused, Growth
<1>5. ASSUME ExecCommand
      PROVE  \E c \in Client, cmd \in Requests : Dispatch(c, cmd)
  <2>1. running \in Client /\ Head(rest) \in Requests
    BY <1>5 DEF ExecCommand, Idle, TypeOK, IInv
  <2> QED
    BY <1>5, <2>1 DEF ExecCommand
<1>6. ASSUME PurgeExpiredBatch
      PROVE  Growth = {}
  BY <1>1, <1>6, DeleteOccupied DEF PurgeExpiredBatch, Growth
<1>7. ASSUME ExecReply \/ Tick \/ UNCHANGED vars
      PROVE  dbs' = dbs
  BY <1>7 DEF ExecReply, Tick, vars
<1>8. dbs' # dbs
  BY DEF Growth
<1> QED
  BY <1>2, <1>3, <1>4, <1>5, <1>6, <1>7, <1>8 DEF Next

(***************************************************************************)
(* Memory exceeds the limit only by what the last command wrote, inside    *)
(* EXEC too: no step stores something new and leaves more than the limit   *)
(* of entries it did not write.                                            *)
(***************************************************************************)
THEOREM MemoryIsBounded == Spec => MemoryBounded
<1>1. ASSUME IInv, [Next]_vars
      PROVE  [MaxMemory # 0 /\ Growth # {} => Cardinality(Untouched) <= MaxMemory]_vars
  BY <1>1, OnlyCommandsGrow, DispatchBounded
<1>2. QED
  BY <1>1, InductiveInvariant, PTL DEF Spec, MemoryBounded

-----------------------------------------------------------------------------
(***************************************************************************)
(* The transaction engine implements OptimisticLocking.                    *)
(***************************************************************************)

(***************************************************************************)
(* The locations that were given a new version between a and b.            *)
(***************************************************************************)
Touched(a, b) == {l \in Location : a[l[1]].glob < VersionAt(b, l)}

(***************************************************************************)
(* What a location holds is an entry or nothing.                           *)
(***************************************************************************)
LEMMA EntryType ==
    ASSUME NEW x \in [DB -> KeyspaceType], NEW l \in Location
    PROVE  EntryAt(x, l) \in Entry \cup {Absent} /\ VersionAt(x, l) \in Nat
<1>1. l[2] \in Key /\ x[l[1]] \in KeyspaceType
  BY LocationParts
<1>2. QED
  BY <1>1 DEF KeyspaceType, EntryAt, VersionAt

(***************************************************************************)
(* The versions that a step of what is shown changes are the writes of the *)
(* abstract step: nothing else changes, and for a client that keeps its    *)
(* watches they are what becomes stale.                                    *)
(***************************************************************************)
LEMMA ShownTouched ==
    ASSUME IInv, [Next]_vars
    PROVE  /\ \A l \in Location \ Touched(Shown, Shown') :
                 EntryAt(Shown', l) = EntryAt(Shown, l)
           /\ \A c \in Client : watch'[c] = watch[c] =>
                 Stale(c)' = Stale(c) \cup (Watching(c) \cap Touched(Shown, Shown'))
<1>1. /\ AllLater(Shown, Shown') /\ TypeOK
      /\ Shown \in [DB -> KeyspaceType] /\ Shown' \in [DB -> KeyspaceType]
  BY ShownStep, ShownType DEF IInv, AllLater
<1>2. ASSUME NEW l \in Location
      PROVE  \/ /\ VersionAt(Shown', l) = VersionAt(Shown, l)
                /\ EntryAt(Shown', l) = EntryAt(Shown, l)
             \/ Shown[l[1]].glob < VersionAt(Shown', l)
  BY <1>1, LocationParts DEF AllLater, Advances, VersionAt, EntryAt
<1>3. ASSUME NEW l \in Location
      PROVE  /\ VersionAt(Shown, l) \in Nat /\ VersionAt(Shown', l) \in Nat
             /\ Shown[l[1]].glob \in Nat
  BY <1>1, EntryType, DatabaseParts, LocationParts
<1>4. \A l \in Location \ Touched(Shown, Shown') :
         EntryAt(Shown', l) = EntryAt(Shown, l)
  BY <1>2 DEF Touched
<1>5. ASSUME NEW c \in Client, watch'[c] = watch[c]
      PROVE  Stale(c)' = Stale(c) \cup (Watching(c) \cap Touched(Shown, Shown'))
  <2>1. ASSUME NEW l \in Location
        PROVE  l \in Stale(c)'
                 <=> \/ l \in Stale(c)
                     \/ l \in Watching(c) /\ l \in Touched(Shown, Shown')
    <3>1. CASE watch[c][l] = Unwatched
      BY <1>5, <3>1 DEF Stale, Watching
    <3>2. CASE watch[c][l] # Unwatched
      <4>1. watch[c][l] <= Shown[l[1]].glob
        BY <3>2 DEF IInv, WatchedIssued
      <4>2. watch[c][l] \in Nat
        BY <1>1, <3>2 DEF TypeOK
      <4>3. Shown[l[1]].glob < VersionAt(Shown', l) => watch[c][l] # VersionAt(Shown', l)
        BY <1>3, <4>1, <4>2
      <4>4. QED
        BY <1>2, <1>5, <3>2, <4>3 DEF Stale, Watching, Touched
    <3>3. QED
      BY <3>1, <3>2
  <2>2. QED
    BY <2>1 DEF Stale, Watching
<1>6. QED
  BY <1>4, <1>5

(***************************************************************************)
(* The variables of the abstract specification.                            *)
(***************************************************************************)
LEMMA InitImplements == Init => Promise!Init
<1> SUFFICES ASSUME Init PROVE Promise!Init
  OBVIOUS
<1>1. Shown \in [DB -> KeyspaceType]
  BY InitType, ShownType
<1>2. \A l \in Location : EntryAt(Shown, l) \in Entry \cup {Absent}
  BY <1>1, EntryType
<1>3. \A c \in Client : Watching(c) = {} /\ Stale(c) = {}
  BY DEF Init, Watching, Stale, NothingWatched
<1>4. running = Nobody
  BY DEF Init
<1>5. QED
  BY <1>2, <1>3, <1>4 DEF Promise!Init

(***************************************************************************)
(* Steps that show nothing and steps that only write.                      *)
(***************************************************************************)
LEMMA WriteImplements ==
    ASSUME IInv, [Next]_vars, UNCHANGED <<watch, running>>
    PROVE  [Promise!Next]_(Promise!vars)
<1>1. CASE Idle
  <2> DEFINE touched == Touched(Shown, Shown')
  <2>1. Shown' \in [DB -> KeyspaceType]
    BY ShownStep DEF IInv, AllLater
  <2>2. \A l \in Location : EntryAt(Shown', l) \in Entry \cup {Absent}
    BY <2>1, EntryType
  <2>3. \A l \in Location \ touched : EntryAt(Shown', l) = EntryAt(Shown, l)
    BY ShownTouched
  <2>4. \A c \in Client :
            /\ Stale(c)' = Stale(c) \cup (Watching(c) \cap touched)
            /\ Watching(c)' = Watching(c)
    BY ShownTouched DEF Watching
  <2>5. touched \in SUBSET Location
    BY DEF Touched
  <2> HIDE DEF touched
  <2>6. Promise!Touch(touched, {})
    BY <2>2, <2>3, <2>4 DEF Promise!Touch
  <2>7. Promise!Write
    BY <1>1, <2>4, <2>5, <2>6 DEF Promise!Write, Idle
  <2>8. QED
    BY <2>7 DEF Promise!Next
<1>2. CASE ~Idle
  <2>1. UNCHANGED Promise!vars
    <3>1. Shown' = Shown
      BY <1>2, RunningStep DEF Shown, Idle, IInv
    <3>2. QED
      BY <3>1 DEF Promise!vars, Watching, Stale
  <2>2. QED
    BY <2>1
<1>3. QED
  BY <1>1, <1>2

(***************************************************************************)
(* WATCH watches one more location and forgets that it was stale.          *)
(***************************************************************************)
LEMMA WatchImplements ==
    ASSUME IInv, NEW c \in Client, NEW k \in Key, Watch(c, k)
    PROVE  Promise!Next
<1> DEFINE l == <<db[c], k>>
<1>1. l \in Location
  BY DEF Location, IInv, TypeOK
<1>2. /\ Idle /\ running' = running /\ dbs' = dbs
      /\ watch' = [watch EXCEPT ![c][l] = VersionAt(dbs, l)]
      /\ Shown = dbs /\ Shown' = Shown
  BY DEF Watch, exec, Shown, Idle
<1>3. VersionAt(dbs, l) # Unwatched
  <2>1. VersionAt(dbs, l) \in Nat
    BY <1>1, EntryType DEF IInv, TypeOK
  <2>2. QED
    BY <2>1 DEF Unwatched
<1> HIDE DEF l
<1>4. watch \in [Client -> [Location -> Nat \cup {Unwatched}]]
  BY DEF IInv, TypeOK
<1>5. ASSUME NEW x \in Client, NEW m \in Location
      PROVE  watch'[x][m] = IF x = c /\ m = l THEN VersionAt(dbs, l) ELSE watch[x][m]
  <2>1. CASE x = c /\ m = l
    BY <1>1, <1>2, <1>4, <2>1
  <2>2. CASE x = c /\ m # l
    BY <1>1, <1>2, <1>4, <2>2
  <2>3. CASE x # c
    BY <1>2, <1>4, <2>3
  <2>4. QED
    BY <2>1, <2>2, <2>3
<1>6. ASSUME NEW x \in Client
      PROVE  /\ Watching(x)' = IF x = c THEN Watching(x) \cup {l} ELSE Watching(x)
             /\ Stale(x)' = IF x = c THEN Stale(x) \ {l} ELSE Stale(x)
  <2>1. CASE x = c
    <3>1. ASSUME NEW m \in Location
          PROVE  /\ m \in Watching(x)' <=> (m \in Watching(x) \/ m = l)
                 /\ m \in Stale(x)' <=> (m \in Stale(x) /\ m # l)
      BY <1>2, <1>3, <1>5, <2>1 DEF Watching, Stale
    <3>2. Watching(x)' = Watching(x) \cup {l}
      BY <1>1, <3>1 DEF Watching
    <3>3. Stale(x)' = Stale(x) \ {l}
      BY <3>1 DEF Stale, Watching
    <3>4. QED
      BY <2>1, <3>2, <3>3
  <2>2. CASE x # c
    <3>1. \A m \in Location : watch'[x][m] = watch[x][m]
      BY <1>5, <2>2
    <3>2. QED
      BY <1>2, <2>2, <3>1 DEF Watching, Stale
  <2>3. QED
    BY <2>1, <2>2
<1>7. Promise!Watch(c, l)
  BY <1>2, <1>6 DEF Promise!Watch, Idle
<1>8. QED
  BY <1>1, <1>7 DEF Promise!Next

(***************************************************************************)
(* A client that forgets its watches, while something may be written.      *)
(***************************************************************************)
LEMMA ForgottenTouched ==
    ASSUME IInv, [Next]_vars, NEW c \in Client, ForgetWatches(c)
    PROVE  /\ \A l \in Location : EntryAt(Shown', l) \in Entry \cup {Absent}
           /\ \A l \in Location \ Touched(Shown, Shown') :
                 EntryAt(Shown', l) = EntryAt(Shown, l)
           /\ \A x \in Client :
                 /\ Watching(x)' = IF x = c THEN {} ELSE Watching(x)
                 /\ Stale(x)' = IF x = c THEN {}
                                ELSE Stale(x) \cup (Watching(x) \cap Touched(Shown, Shown'))
<1>1. Shown' \in [DB -> KeyspaceType] /\ watch \in [Client -> [Location -> Nat \cup {Unwatched}]]
  BY ShownStep DEF IInv, AllLater, TypeOK
<1>2. \A x \in Client : watch'[x] = IF x = c THEN NothingWatched ELSE watch[x]
  BY <1>1 DEF ForgetWatches
<1>3. \A l \in Location : EntryAt(Shown', l) \in Entry \cup {Absent}
  BY <1>1, EntryType
<1>4. ASSUME NEW x \in Client
      PROVE  /\ Watching(x)' = IF x = c THEN {} ELSE Watching(x)
             /\ Stale(x)' = IF x = c THEN {}
                            ELSE Stale(x) \cup (Watching(x) \cap Touched(Shown, Shown'))
  <2>1. CASE x = c
    BY <1>2, <2>1 DEF Watching, Stale, NothingWatched
  <2>2. CASE x # c
    BY <1>2, <2>2, ShownTouched DEF Watching
  <2>3. QED
    BY <2>1, <2>2
<1>5. QED
  BY <1>3, <1>4, ShownTouched

(***************************************************************************)
(* UNWATCH, DISCARD, an aborted EXEC and a disconnection forget.           *)
(***************************************************************************)
LEMMA ForgetImplements ==
    ASSUME IInv, [Next]_vars, NEW c \in Client, Idle, ForgetWatches(c),
           running' = running
    PROVE  Promise!Next
<1> DEFINE touched == Touched(Shown, Shown')
<1>1. touched \in SUBSET Location
  BY DEF Touched
<1>2. Promise!Touch(touched, {c})
  BY ForgottenTouched DEF Promise!Touch
<1> HIDE DEF touched
<1>3. Promise!Forget(c)
  BY <1>1, <1>2, ForgottenTouched DEF Promise!Forget, Idle
<1>4. QED
  BY <1>3 DEF Promise!Next

(***************************************************************************)
(* EXEC commits only if nothing it watches is stale, else it forgets.      *)
(***************************************************************************)
LEMMA ExecImplements ==
    ASSUME IInv, [Next]_vars, NEW c \in Client, Exec(c)
    PROVE  Promise!Next
<1>1. Idle /\ ForgetWatches(c)
  BY DEF Exec
<1>2. CASE running' = running
  BY <1>1, <1>2, ForgetImplements
<1>3. CASE running' # running
  <2> DEFINE touched == Touched(Shown, Shown')
  <2>1. running' = c /\ WatchedUnmodified(c, dbs') /\ base' = dbs'
    BY <1>3 DEF Exec, exec
  <2>2. running' # Nobody /\ Shown = dbs /\ Shown' = dbs'
    BY <1>1, <2>1, TransactionAssumption DEF Shown, Idle
  <2>3. ASSUME NEW l \in Location, watch[c][l] # Unwatched
        PROVE  /\ watch[c][l] = VersionAt(dbs, l)
               /\ l \notin touched
    <3>1. /\ VersionAt(dbs', l) = watch[c][l]
          /\ VersionAt(dbs', l) = VersionAt(dbs, l)
      BY <2>1, <2>2, <2>3, ExecUnmodified DEF WatchedUnmodified
    <3>2. watch[c][l] <= dbs[l[1]].glob /\ watch[c][l] \in Nat
      BY <2>2, <2>3 DEF IInv, TypeOK, WatchedIssued
    <3>3. dbs[l[1]].glob \in Nat
      BY DatabaseParts, LocationParts DEF IInv, TypeOK
    <3>4. ~(dbs[l[1]].glob < VersionAt(dbs', l))
      BY <3>1, <3>2, <3>3
    <3>5. QED
      BY <2>2, <3>1, <3>4 DEF Touched
  <2>4. Stale(c) = {}
    BY <2>2, <2>3 DEF Stale, Watching
  <2>5. touched \in SUBSET (Location \ Watching(c))
    BY <2>3 DEF Touched, Watching
  <2>6. Promise!Touch(touched, {c})
    BY <1>1, ForgottenTouched DEF Promise!Touch
  <2> HIDE DEF touched
  <2>7. Promise!BeginCommit(c)
    BY <1>1, <2>1, <2>4, <2>5, <2>6, ForgottenTouched DEF Promise!BeginCommit, Idle
  <2>8. QED
    BY <2>7 DEF Promise!Next
<1>4. QED
  BY <1>2, <1>3

(***************************************************************************)
(* The reply shows everything the commands of the transaction have done.   *)
(***************************************************************************)
LEMMA ReplyImplements ==
    ASSUME IInv, [Next]_vars, ExecReply
    PROVE  Promise!Next
<1> DEFINE touched == Touched(Shown, Shown')
<1>1. ~Idle /\ running' = Nobody /\ watch' = watch
  BY DEF ExecReply, session
<1>2. touched \in SUBSET Location
  BY DEF Touched
<1>3. Shown' \in [DB -> KeyspaceType]
  BY ShownStep DEF IInv, AllLater
<1>4. \A l \in Location : EntryAt(Shown', l) \in Entry \cup {Absent}
  BY <1>3, EntryType
<1>5. \A x \in Client : /\ Watching(x)' = Watching(x)
                        /\ Stale(x)' = Stale(x) \cup (Watching(x) \cap touched)
  BY <1>1, ShownTouched DEF Watching
<1>6. \A l \in Location \ touched : EntryAt(Shown', l) = EntryAt(Shown, l)
  BY ShownTouched
<1> HIDE DEF touched
<1>7. Promise!Touch(touched, {})
  BY <1>4, <1>5, <1>6 DEF Promise!Touch
<1>8. Promise!EndCommit
  BY <1>1, <1>2, <1>5, <1>7 DEF Promise!EndCommit, Idle
<1>9. QED
  BY <1>8 DEF Promise!Next

(***************************************************************************)
(* Every step is a step of OptimisticLocking or leaves it unchanged.       *)
(***************************************************************************)
LEMMA StepImplements ==
    ASSUME IInv, [Next]_vars
    PROVE  [Promise!Next]_(Promise!vars)
<1>1. ASSUME NEW c \in Client,
             \/ \E cmd \in Requests : Call(c, cmd) \/ Enqueue(c, cmd)
             \/ Multi(c)
             \/ ExecRefused(c)
      PROVE  UNCHANGED <<watch, running>>
  BY <1>1 DEF Call, Enqueue, Multi, ExecRefused, session, exec
<1>2. ASSUME ExecCommand \/ PurgeExpiredBatch \/ Tick \/ UNCHANGED vars
      PROVE  UNCHANGED <<watch, running>>
  BY <1>2 DEF ExecCommand, PurgeExpiredBatch, Tick, session, exec, vars
<1>3. ASSUME NEW c \in Client, Unwatch(c) \/ Discard(c) \/ Disconnect(c)
      PROVE  Promise!Next
  <2>1. Idle /\ ForgetWatches(c) /\ running' = running
    BY <1>3 DEF Unwatch, Discard, Disconnect, exec
  <2>2. QED
    BY <2>1, ForgetImplements
<1>4. QED
  BY <1>1, <1>2, <1>3, WriteImplements, WatchImplements, ExecImplements,
     ReplyImplements DEF Next

(***************************************************************************)
(* Comparing version numbers implements optimistic locking: every          *)
(* behaviour of the transaction engine is one of OptimisticLocking.        *)
(***************************************************************************)
THEOREM ImplementsOptimisticLocking == Spec => OptimisticLockingImplemented
<1>1. Init => Promise!Init
  BY InitImplements
<1>2. IInv /\ [Next]_vars => [Promise!Next]_(Promise!vars)
  BY StepImplements
<1>3. QED
  BY <1>1, <1>2, InductiveInvariant, PTL
     DEF Spec, OptimisticLockingImplemented, Promise!Spec
=============================================================================
