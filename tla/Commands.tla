------------------------------ MODULE Commands ------------------------------
(***************************************************************************)
(* The data commands (commands/strings.py, keys.py, lists.py, sets.py,     *)
(* hashes.py, sorted_sets.py): what one call of execute() does to the      *)
(* databases.  The live dispatcher, AOF replay and a replica all run the   *)
(* same execute() methods, so their modules share these definitions.       *)
(*                                                                         *)
(* Families whose members differ only in the data they store are one       *)
(* operator: INCR stands for INCR/INCRBY/DECR/DECRBY and the other string  *)
(* updates that keep the TTL, PUSH and POP for the commands that add to    *)
(* and remove from a list, set, hash or sorted set.                        *)
(***************************************************************************)
EXTENDS Keyspace

CONSTANT DB                        \* database indices

ASSUME DBAssumption == IsFiniteSet(DB)

Reads == {"GET", "SELECT"}
Writes == {"SET", "SET EX", "SET NX", "SET XX", "SET KEEPTTL",
           "GETSET", "GETDEL", "GETEX EX", "GETEX PERSIST", "MSET", "INCR",
           "PUSH", "POP", "ZADD XX",
           "DEL", "EXPIRE", "PERSIST", "RENAME", "RENAMENX",
           "FLUSHDB", "FLUSHALL"}

(***************************************************************************)
(* A parsed request.  dst is the second name of DEL, MSET and RENAME, db   *)
(* the argument of SELECT, ttl the relative TTL of EXPIRE, EX and PX.      *)
(***************************************************************************)
Command == [op : Reads \cup Writes, key : Key, dst : Key, db : DB,
            val : Nat, ttl : Int]

IsWrite(cmd) == cmd.op \in Writes

(***************************************************************************)
(* get_typed_entry: WRONGTYPE when the entry found has the other type.     *)
(***************************************************************************)
WrongType(ks, k, type, now) ==
    LET entry == Found(ks, k, now)
    IN  entry # Absent /\ entry.type # type

SetCommand(ks, cmd, now) ==
    LET old    == Found(ks, cmd.key, now)
        looked == Lookup(ks, cmd.key, now)
        exp    == CASE cmd.op = "SET EX" -> now + cmd.ttl
                    [] cmd.op = "SET KEEPTTL" /\ old # Absent -> old.exp
                    [] OTHER -> Never
        refused == \/ cmd.op = "SET NX" /\ old # Absent
                   \/ cmd.op = "SET XX" /\ old = Absent
    IN  IF cmd.op = "SET EX" /\ cmd.ttl <= 0 THEN ks
        ELSE IF refused THEN looked
        ELSE Put(looked, cmd.key, "string", cmd.val, exp)

GetSet(ks, cmd, now) ==
    LET looked == Lookup(ks, cmd.key, now)
    IN  IF WrongType(ks, cmd.key, "string", now) THEN looked
        ELSE Put(looked, cmd.key, "string", cmd.val, Never)

GetDel(ks, cmd, now) ==
    LET looked == Lookup(ks, cmd.key, now)
    IN  IF WrongType(ks, cmd.key, "string", now) THEN looked
        ELSE Delete(looked, {cmd.key})

GetEx(ks, cmd, now) ==
    LET looked == Lookup(ks, cmd.key, now)
    IN  IF \/ WrongType(ks, cmd.key, "string", now)
           \/ Found(ks, cmd.key, now) = Absent
        THEN looked
        ELSE IF cmd.op = "GETEX EX" THEN ExpireAt(looked, cmd.key, now + cmd.ttl, now)
        ELSE Persist(looked, cmd.key, now)

MSet(ks, cmd) ==
    Put(Put(ks, cmd.key, "string", cmd.val, Never), cmd.dst, "string", cmd.val, Never)

NotAnInteger(ks, k, now) ==
    LET entry == Found(ks, k, now)
    IN  entry # Absent /\ entry.type = "string" /\ entry.val = 0

Incr(ks, cmd, now) ==
    LET looked == Lookup(ks, cmd.key, now)
        entry  == Found(ks, cmd.key, now)
    IN  IF WrongType(ks, cmd.key, "string", now) \/ NotAnInteger(ks, cmd.key, now)
        THEN looked
        ELSE IF entry = Absent THEN Put(looked, cmd.key, "string", 1, Never)
        ELSE Put(looked, cmd.key, "string", entry.val + 1, entry.exp)

(***************************************************************************)
(* A container command on a missing key first stores an empty container    *)
(* (one version), then changes it in place and marks the key again.  ZADD  *)
(* with XX adds no member, and leaves the empty container behind.          *)
(***************************************************************************)
Resize(ks, k, size) == MarkModified([ks EXCEPT !.entries[k].val = size], k)

Push(ks, cmd, now) ==
    LET looked == Lookup(ks, cmd.key, now)
        entry  == Found(ks, cmd.key, now)
        opened == IF entry = Absent
                  THEN Put(looked, cmd.key, "container", 0, Never)
                  ELSE looked
        size   == opened.entries[cmd.key].val
    IN  IF WrongType(ks, cmd.key, "container", now) THEN looked
        ELSE Resize(opened, cmd.key, IF cmd.op = "ZADD XX" THEN size ELSE size + 1)

Pop(ks, cmd, now) ==
    LET looked == Lookup(ks, cmd.key, now)
        entry  == Found(ks, cmd.key, now)
    IN  IF WrongType(ks, cmd.key, "container", now) \/ entry = Absent THEN looked
        ELSE IF entry.val <= 1 THEN Delete(looked, {cmd.key})
        ELSE Resize(looked, cmd.key, entry.val - 1)

(***************************************************************************)
(* execute() on the keyspace the client has selected.                      *)
(***************************************************************************)
RunOn(ks, cmd, now) ==
    CASE cmd.op = "GET"      -> Lookup(ks, cmd.key, now)
      [] cmd.op \in {"SET", "SET EX", "SET NX", "SET XX", "SET KEEPTTL"}
                             -> SetCommand(ks, cmd, now)
      [] cmd.op = "GETSET"   -> GetSet(ks, cmd, now)
      [] cmd.op = "GETDEL"   -> GetDel(ks, cmd, now)
      [] cmd.op \in {"GETEX EX", "GETEX PERSIST"} -> GetEx(ks, cmd, now)
      [] cmd.op = "MSET"     -> MSet(ks, cmd)
      [] cmd.op = "INCR"     -> Incr(ks, cmd, now)
      [] cmd.op \in {"PUSH", "ZADD XX"} -> Push(ks, cmd, now)
      [] cmd.op = "POP"      -> Pop(ks, cmd, now)
      [] cmd.op = "DEL"      -> Delete(ks, {cmd.key, cmd.dst})
      [] cmd.op = "EXPIRE"   -> ExpireAt(ks, cmd.key, now + cmd.ttl, now)
      [] cmd.op = "PERSIST"  -> Persist(ks, cmd.key, now)
      [] cmd.op = "RENAME"   -> Rename(ks, cmd.key, cmd.dst, now)
      [] cmd.op = "RENAMENX" -> RenameNx(ks, cmd.key, cmd.dst, now)
      [] cmd.op \in {"FLUSHDB", "FLUSHALL"} -> Flush(ks)
      [] OTHER               -> ks

Execute(dbs, d, cmd, now) ==
    IF cmd.op = "FLUSHALL"
    THEN [x \in DB |-> RunOn(dbs[x], cmd, now)]
    ELSE [dbs EXCEPT ![d] = RunOn(@, cmd, now)]

(***************************************************************************)
(* SELECT changes the connection's database, never a keyspace.             *)
(***************************************************************************)
SelectedAfter(d, cmd) == IF cmd.op = "SELECT" THEN cmd.db ELSE d

(***************************************************************************)
(* The requests that execute() answers with an error; the dispatcher logs  *)
(* and propagates a write exactly when it did not.                         *)
(***************************************************************************)
Fails(ks, cmd, now) ==
    CASE cmd.op \in {"GET", "GETSET", "GETDEL", "GETEX EX", "GETEX PERSIST"}
                           -> WrongType(ks, cmd.key, "string", now)
      [] cmd.op = "INCR"   -> \/ WrongType(ks, cmd.key, "string", now)
                              \/ NotAnInteger(ks, cmd.key, now)
      [] cmd.op \in {"PUSH", "POP", "ZADD XX"}
                           -> WrongType(ks, cmd.key, "container", now)
      [] cmd.op = "SET EX" -> cmd.ttl <= 0
      [] cmd.op \in {"RENAME", "RENAMENX"}
                           -> /\ Found(ks, cmd.key, now) = Absent
                              /\ \/ cmd.op = "RENAME"
                                 \/ Found(ks, cmd.dst, now) = Absent
      [] OTHER             -> FALSE
=============================================================================
