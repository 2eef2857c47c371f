------------------------------- MODULE Values -------------------------------
(***************************************************************************)
(* The commands on lists, hashes, sets and sorted sets (commands/lists.py, *)
(* hashes.py, sets.py, sorted_sets.py) on the structures they store, and   *)
(* the routing of keys that every command starts with (cluster/).          *)
(*                                                                         *)
(* A command runs without interruption: each is one action.  A method of   *)
(* the keyspace is an operator on a record of the entries, the names that  *)
(* were marked as modified and whether an error was raised, so that a      *)
(* command that raises keeps what it has done by then.  Expiry and         *)
(* versions are in Keyspace; here a version is whether the running command *)
(* gives the name a new one.                                               *)
(***************************************************************************)
EXTENDS ClusterSlots, ListStore, SortedSetStore

CONSTANTS Request,                 \* the commands that clients send
          Text,                    \* a value of a hash field that is no number
          Absent,                  \* no entry
          MaxLevel,                \* levels a node of a skip list can have
          MaxSize                  \* bound: size of a list, score of a member

\* Commands on several keys; the others but those of CLUSTER have one.
ManyKeys == {"DEL", "RENAME", "RENAMENX", "SUNION", "SINTER", "SDIFF"}
NoKeys == {"CLUSTER MEET", "CLUSTER ADDSLOTS"}

\* What lists, sets and strings are made of, and the values of hash fields.
Number == {Text} \cup 0..MaxSize

(***************************************************************************)
(* Commands come with the keys and arguments that their arity asks for, and*)
(* with numbers where they parse one: all else is refused before anything  *)
(* is looked at.                                                           *)
(***************************************************************************)
ASSUME ValuesAssumption ==
    /\ Text \notin Int
    /\ MaxLevel \in Nat \ {0}
    /\ \A req \in Request :
          /\ req.op \in ManyKeys => req.keys \in Seq(Key) \ {<<>>}
          /\ req.op \in {"RENAME", "RENAMENX"} => Len(req.keys) = 2
          /\ req.op \notin ManyKeys \cup NoKeys => req.key \in Key
          /\ req.op = "CLUSTER MEET" => req.node \in Peer
          /\ req.op \in {"LPUSH", "RPUSH"} => req.values \in Seq(Number) \ {<<>>}
          /\ req.op \in {"LPOP", "RPOP"} => req.count \in Nat
          /\ req.op = "LSET" => req.index \in Int
          /\ req.op = "LTRIM" => req.start \in Int /\ req.stop \in Int
          /\ req.op \in {"LSET", "LINSERT", "SET"} => req.value \in Number
          /\ req.op = "HSET" => DOMAIN req.pairs # {}
          /\ req.op = "SADD" => req.members \in (SUBSET Number) \ {{}}
          /\ req.op = "ZADD" => req.pairs \in Seq(Int \X Nat)
          /\ req.op = "ZREM" => req.members \in Seq(Nat)
          /\ req.op = "ZINCRBY" => req.delta \in Int /\ req.member \in Nat

VARIABLES entries,                 \* key -> entry or Absent
          marked,                  \* names the last command marked as modified
          raised,                  \* the last command was answered with an error
          cluster                  \* what ClusterManager knows

vars == <<entries, marked, raised, cluster>>

(***************************************************************************)
(* An entry is a record with one field, which is its type.                 *)
(***************************************************************************)
IsType(entry, type) == entry # Absent /\ DOMAIN entry = {type}

Now == [entries |-> entries, marked |-> {}, raised |-> FALSE]

Mark(st, k) == [st EXCEPT !.marked = @ \cup {k}]
Raise(st) == [st EXCEPT !.raised = TRUE]
Stored(st, k, entry) == Mark([st EXCEPT !.entries[k] = entry], k)
Deleted(st, k) == IF st.entries[k] = Absent THEN st ELSE Stored(st, k, Absent)

\* A change of the structure in place: nobody is told.
Changed(st, k, entry) == [st EXCEPT !.entries[k] = entry]

(***************************************************************************)
(* The frame of a command on one key: routing, then get_typed_entry.       *)
(***************************************************************************)
OnKey(k, type, result) ==
    IF \/ Moved(cluster, k)
       \/ entries[k] # Absent /\ ~IsType(entries[k], type)
    THEN Raise(Now)
    ELSE result

\* The same for a command that leaves a missing key alone.
OnEntry(k, type, result) ==
    OnKey(k, type, IF entries[k] = Absent THEN Now ELSE result)

\* A missing key is given an empty structure first.
Opened(k, empty) == IF entries[k] = Absent THEN Stored(Now, k, empty) ELSE Now

\* A structure that has become empty goes, with its key.
Kept(k, entry, empty) ==
    IF entry = empty THEN Deleted(Now, k)
    ELSE Mark(Changed(Now, k, entry), k)

Becomes(st) ==
    /\ entries' = st.entries
    /\ marked' = st.marked
    /\ raised' = st.raised
    /\ UNCHANGED cluster
-----------------------------------------------------------------------------
(***************************************************************************)
(* Lists                                                                   *)
(***************************************************************************)
Push(req) ==
    LET opened == Opened(req.key, [list |-> <<>>])
        list   == opened.entries[req.key].list
        pushed == IF req.op = "LPUSH" THEN LPush(list, req.values) ELSE RPush(list, req.values)
    IN  /\ req.op \in {"LPUSH", "RPUSH"}
        /\ Becomes(OnKey(req.key, "list", Mark(Changed(opened, req.key, [list |-> pushed]), req.key)))

Pop(req) ==
    LET list == entries[req.key].list
        left == IF req.op = "LPOP" THEN LPop(list, req.count) ELSE RPop(list, req.count)
    IN  /\ req.op \in {"LPOP", "RPOP"}
        /\ Becomes(OnEntry(req.key, "list", Kept(req.key, [list |-> left], [list |-> <<>>])))

\* LSET on a missing key is an error, and so is an index outside the list.
LSetCommand(req) ==
    LET list == entries[req.key].list
    IN  /\ req.op = "LSET"
        /\ Becomes(OnKey(req.key, "list",
               IF entries[req.key] = Absent THEN Raise(Now)
               ELSE IF ~InRange(list, req.index) THEN Raise(Now)
               ELSE Mark(Changed(Now, req.key, [list |-> LSet(list, req.index, req.value)]), req.key)))

LInsertCommand(req) ==
    LET list == entries[req.key].list
    IN  /\ req.op = "LINSERT"
        /\ Becomes(OnEntry(req.key, "list",
               IF Occurrences(list, req.pivot) = {} THEN Now
               ELSE IF req.where \notin {"BEFORE", "AFTER"} THEN Raise(Now)
               ELSE Mark(Changed(Now, req.key,
                        [list |-> LInsert(list, req.where, req.pivot, req.value)]), req.key)))

\* Wrong on purpose: a list that was trimmed to nothing stays.
LTrimKeepingEmpty(req) ==
    /\ req.op = "LTRIM"
    /\ Becomes(OnEntry(req.key, "list",
           Mark(Changed(Now, req.key, [list |-> LTrim(entries[req.key].list, req.start, req.stop)]), req.key)))

LTrimCommand(req) ==
    /\ req.op = "LTRIM"
    /\ Becomes(OnEntry(req.key, "list",
           Kept(req.key, [list |-> LTrim(entries[req.key].list, req.start, req.stop)], [list |-> <<>>])))

LRemCommand(req) ==
    /\ req.op = "LREM"
    /\ Becomes(OnEntry(req.key, "list",
           Kept(req.key, [list |-> LRem(entries[req.key].list, req.count, req.value)], [list |-> <<>>])))
-----------------------------------------------------------------------------
(***************************************************************************)
(* Hashes                                                                  *)
(***************************************************************************)
NoFields == [f \in {} |-> Text]

\* HashStore.hset: the fields of pairs are set, new or not.
WithFields(hash, pairs) ==
    [f \in DOMAIN hash \cup DOMAIN pairs |->
        IF f \in DOMAIN pairs THEN pairs[f] ELSE hash[f]]

WithField(hash, field, value) == WithFields(hash, [f \in {field} |-> value])

HSet(req) ==
    LET opened == Opened(req.key, [hash |-> NoFields])
        hash   == opened.entries[req.key].hash
    IN  /\ req.op = "HSET"
        /\ Becomes(OnKey(req.key, "hash",
               Mark(Changed(opened, req.key, [hash |-> WithFields(hash, req.pairs)]), req.key)))

\* Wrong on purpose: the field is set without a new version for the key.
HSetNxUnmarked(req) ==
    LET opened == Opened(req.key, [hash |-> NoFields])
        hash   == opened.entries[req.key].hash
    IN  /\ req.op = "HSETNX"
        /\ Becomes(OnKey(req.key, "hash",
               IF req.field \in DOMAIN hash THEN opened
               ELSE Changed(opened, req.key, [hash |-> WithField(hash, req.field, req.value)])))

HSetNx(req) ==
    LET opened == Opened(req.key, [hash |-> NoFields])
        hash   == opened.entries[req.key].hash
    IN  /\ req.op = "HSETNX"
        /\ Becomes(OnKey(req.key, "hash",
               IF req.field \in DOMAIN hash THEN opened
               ELSE Mark(Changed(opened, req.key,
                        [hash |-> WithField(hash, req.field, req.value)]), req.key)))

HDel(req) ==
    LET hash == entries[req.key].hash
    IN  /\ req.op = "HDEL"
        /\ Becomes(OnEntry(req.key, "hash",
               Kept(req.key, [hash |-> Restrict(hash, DOMAIN hash \ req.fields)], [hash |-> NoFields])))

\* Wrong on purpose: the empty hash is stored before the amount is read.
HIncrByEarly(req) ==
    LET opened == Opened(req.key, [hash |-> NoFields])
        hash   == opened.entries[req.key].hash
        old    == IF req.field \in DOMAIN hash THEN hash[req.field] ELSE 0
    IN  /\ req.op = "HINCRBY"
        /\ Becomes(OnKey(req.key, "hash",
               IF req.delta = Text \/ old = Text THEN Raise(opened)
               ELSE Mark(Changed(opened, req.key,
                        [hash |-> WithField(hash, req.field, old + req.delta)]), req.key)))

(***************************************************************************)
(* HINCRBY and HINCRBYFLOAT: an amount that is no number is refused before *)
(* the key is looked up, a field that holds none after it.                 *)
(***************************************************************************)
HIncrBy(req) ==
    LET opened == Opened(req.key, [hash |-> NoFields])
        hash   == opened.entries[req.key].hash
        old    == IF req.field \in DOMAIN hash THEN hash[req.field] ELSE 0
    IN  /\ req.op = "HINCRBY"
        /\ Becomes(IF req.delta = Text THEN Raise(Now)
                   ELSE OnKey(req.key, "hash",
                       IF old = Text THEN Raise(opened)
                       ELSE Mark(Changed(opened, req.key,
                                [hash |-> WithField(hash, req.field, old + req.delta)]), req.key)))
-----------------------------------------------------------------------------
(***************************************************************************)
(* Sets                                                                    *)
(***************************************************************************)
SAdd(req) ==
    LET opened == Opened(req.key, [set |-> {}])
    IN  /\ req.op = "SADD"
        /\ Becomes(OnKey(req.key, "set",
               Mark(Changed(opened, req.key,
                        [set |-> opened.entries[req.key].set \cup req.members]), req.key)))

SRem(req) ==
    /\ req.op = "SREM"
    /\ Becomes(OnEntry(req.key, "set",
           Kept(req.key, [set |-> entries[req.key].set \ req.members], [set |-> {}])))

\* SPOP takes count members, or all of them: which ones is up to the set.
SPop(req) ==
    /\ req.op = "SPOP"
    /\ IF entries[req.key] # Absent /\ IsType(entries[req.key], "set")
       THEN LET set == entries[req.key].set
            IN  \E left \in SUBSET set :
                   /\ Cardinality(left) = Cardinality(set) - Min({req.count, Cardinality(set)})
                   /\ Becomes(OnEntry(req.key, "set", Kept(req.key, [set |-> left], [set |-> {}])))
       ELSE Becomes(OnEntry(req.key, "set", Now))

(***************************************************************************)
(* SINTER, SDIFF and SUNION of the keys of a sequence, which hold sets or  *)
(* nothing: SINTER answers as soon as one is missing, SDIFF when the first *)
(* one is, and the methods of SetStore work on those that are there.       *)
(***************************************************************************)
SetsOf(keys) ==
    LET there[i \in 0..Len(keys)] ==
            IF i = 0 THEN <<>>
            ELSE IF entries[keys[i]] = Absent THEN there[i - 1]
            ELSE Append(there[i - 1], entries[keys[i]].set)
    IN  there[Len(keys)]

SUnion(keys) == UNION ToSet(SetsOf(keys))

SInter(keys) ==
    LET sets == SetsOf(keys)
        res[i \in 1..Len(sets)] == IF i = 1 THEN sets[1] ELSE res[i - 1] \cap sets[i]
    IN  IF Len(sets) < Len(keys) THEN {} ELSE res[Len(sets)]

SDiff(keys) ==
    LET sets == SetsOf(keys)
        res[i \in 1..Len(sets)] == IF i = 1 THEN sets[1] ELSE res[i - 1] \ sets[i]
    IN  IF entries[keys[1]] = Absent THEN {} ELSE res[Len(sets)]
-----------------------------------------------------------------------------
(***************************************************************************)
(* Sorted sets.  Every pair that is added draws a level for its node.      *)
(***************************************************************************)
Levels == 1..MaxLevel

\* XX on a missing key leaves an empty sorted set behind.
ZAddCommand(req) ==
    LET opened == Opened(req.key, [zset |-> EmptySortedSet])
    IN  /\ req.op = "ZADD"
        /\ \E drawn \in [DOMAIN req.pairs -> Levels] :
              LET pairs == [i \in DOMAIN req.pairs |->
                               [score |-> req.pairs[i][1], member |-> req.pairs[i][2],
                                level |-> drawn[i]]]
              IN  Becomes(OnKey(req.key, "zset",
                      Mark(Changed(opened, req.key,
                               [zset |-> ZAdd(opened.entries[req.key].zset, pairs, req.nx, req.xx)]),
                           req.key)))

ZIncrByCommand(req) ==
    LET opened == Opened(req.key, [zset |-> EmptySortedSet])
    IN  /\ req.op = "ZINCRBY"
        /\ \E lvl \in Levels :
              Becomes(OnKey(req.key, "zset",
                  Mark(Changed(opened, req.key,
                           [zset |-> ZIncrBy(opened.entries[req.key].zset, req.delta, req.member, lvl)]),
                       req.key)))

\* Also when nothing was removed from a sorted set that was empty.
ZRemCommand(req) ==
    LET left == ZRem(entries[req.key].zset, req.members)
    IN  /\ req.op = "ZREM"
        /\ Becomes(OnEntry(req.key, "zset",
               IF ZCard(left) = 0 THEN Deleted(Now, req.key)
               ELSE Mark(Changed(Now, req.key, [zset |-> left]), req.key)))
-----------------------------------------------------------------------------
(***************************************************************************)
(* Commands on keys of any type (commands/keys.py, strings.py).            *)
(***************************************************************************)
SetString(req) ==
    /\ req.op = "SET"
    /\ Becomes(IF Moved(cluster, req.key) THEN Raise(Now)
               ELSE Stored(Now, req.key, [string |-> req.value]))

Del(req) ==
    /\ req.op = "DEL"
    /\ Becomes(IF Refused(cluster, req.keys) THEN Raise(Now)
               ELSE [entries |-> [k \in Key |-> IF k \in ToSet(req.keys) THEN Absent ELSE entries[k]],
                     marked  |-> {k \in ToSet(req.keys) : entries[k] # Absent},
                     raised  |-> FALSE])

\* RENAMENX differs when the destination exists; renaming a key to itself deletes it.
Rename(req) ==
    LET src == req.keys[1]
        dst == req.keys[2]
        moved == [[entries EXCEPT ![dst] = entries[src]] EXCEPT ![src] = Absent]
    IN  /\ req.op \in {"RENAME", "RENAMENX"}
        /\ Becomes(IF Refused(cluster, req.keys) THEN Raise(Now)
                   ELSE IF req.op = "RENAMENX" /\ entries[dst] # Absent THEN Now
                   ELSE IF entries[src] = Absent THEN Raise(Now)
                   ELSE [entries |-> moved, marked |-> {src, dst}, raised |-> FALSE])

(***************************************************************************)
(* The commands that only read: routing and the check of the type.  Their  *)
(* answers are the operators of the stores.                                *)
(***************************************************************************)
Reads(req, op, type) == req.op = op /\ Becomes(OnKey(req.key, type, Now))

ReadList(req)      == Reads(req, "LRANGE", "list")
ReadFields(req)    == Reads(req, "HGET", "hash")
ReadHash(req)      == Reads(req, "HGETALL", "hash")
ReadSet(req)       == Reads(req, "SMEMBERS", "set")
ReadSortedSet(req) == Reads(req, "ZRANGE", "zset")

ReadSets(req) ==
    LET wrong(k) == entries[k] # Absent /\ ~IsType(entries[k], "set")
        looked   == IF req.op = "SINTER"
                    THEN {k \in ToSet(req.keys) : \A i \in DOMAIN req.keys :
                             req.keys[i] = k => \A j \in 1..(i - 1) : entries[req.keys[j]] # Absent}
                    ELSE IF req.op = "SDIFF" /\ entries[req.keys[1]] = Absent THEN {}
                    ELSE ToSet(req.keys)
    IN  /\ req.op \in {"SUNION", "SINTER", "SDIFF"}
        /\ Becomes(IF Refused(cluster, req.keys) \/ \E k \in looked : wrong(k)
                   THEN Raise(Now) ELSE Now)
-----------------------------------------------------------------------------
(***************************************************************************)
(* CLUSTER MEET and CLUSTER ADDSLOTS, which work outside cluster mode too. *)
(***************************************************************************)
ClusterCommand(change) ==
    /\ cluster' = change
    /\ marked' = {}
    /\ raised' = FALSE
    /\ UNCHANGED entries

ClusterMeet(req) ==
    /\ req.op = "CLUSTER MEET"
    /\ ClusterCommand(AddNode(cluster, req.node))

ClusterAddSlots(req) ==
    /\ req.op = "CLUSTER ADDSLOTS"
    /\ ClusterCommand(AssignSlots(cluster, Myself, req.slots))
-----------------------------------------------------------------------------
Init ==
    /\ entries = [k \in Key |-> Absent]
    /\ marked = {}
    /\ raised = FALSE
    /\ cluster \in {NewCluster(enabled) : enabled \in BOOLEAN}

ListCommand(req) ==
    \/ Push(req) \/ Pop(req) \/ LSetCommand(req) \/ LInsertCommand(req)
    \/ LTrimCommand(req) \/ LRemCommand(req)

HashCommand(req) == HSet(req) \/ HSetNx(req) \/ HDel(req) \/ HIncrBy(req)

SetsCommand(req) == SAdd(req) \/ SRem(req) \/ SPop(req) \/ ReadSets(req)

SortedSetCommand(req) == ZAddCommand(req) \/ ZIncrByCommand(req) \/ ZRemCommand(req)

KeyCommand(req) == SetString(req) \/ Del(req) \/ Rename(req)

ReadCommand(req) ==
    \/ ReadList(req) \/ ReadFields(req) \/ ReadHash(req)
    \/ ReadSet(req) \/ ReadSortedSet(req)

\* Bound: lists, numbers and scores beyond MaxSize are not followed.
Small(entry) ==
    \/ entry = Absent
    \/ IsType(entry, "list") /\ Len(entry.list) <= MaxSize
    \/ IsType(entry, "hash") /\ \A f \in DOMAIN entry.hash :
                                   entry.hash[f] \in {Text} \cup 0..MaxSize
    \/ IsType(entry, "zset") /\ \A m \in DOMAIN entry.zset.dict :
                                   entry.zset.dict[m] \in 0..MaxSize
    \/ DOMAIN entry \subseteq {"set", "string"}

Next ==
    \E req \in Request :
        /\ \/ ListCommand(req) \/ HashCommand(req) \/ SetsCommand(req)
           \/ SortedSetCommand(req) \/ KeyCommand(req) \/ ReadCommand(req)
           \/ ClusterMeet(req) \/ ClusterAddSlots(req)
        /\ \A k \in Key : Small(entries'[k])

Spec == Init /\ [][Next]_vars
-----------------------------------------------------------------------------
EntryOK(entry) ==
    \/ entry = Absent
    \/ IsType(entry, "list") /\ entry.list \in Seq(Number)
    \/ IsType(entry, "hash") /\ \A f \in DOMAIN entry.hash : entry.hash[f] \in Number
    \/ IsType(entry, "set") /\ entry.set \subseteq Number
    \/ IsType(entry, "string") /\ entry.string \in Number
    \/ IsType(entry, "zset") /\ DOMAIN entry.zset = {"dict", "sl"}

(***************************************************************************)
(* Every entry has one of the five types, and the two tables of the        *)
(* cluster manager speak of slots and nodes that exist.                    *)
(***************************************************************************)
TypeOK ==
    /\ DOMAIN entries = Key
    /\ \A k \in Key : EntryOK(entries[k])
    /\ marked \subseteq Key
    /\ raised \in BOOLEAN
    /\ cluster.enabled \in BOOLEAN
    /\ cluster.owner \in [Slot -> {Myself, NoOwner}]
    /\ Myself \in DOMAIN cluster.nodes /\ DOMAIN cluster.nodes \subseteq Peer \cup {Myself}
    /\ \A id \in DOMAIN cluster.nodes : cluster.nodes[id] \subseteq Slot

(***************************************************************************)
(* Whatever the levels drawn, the skip list of a sorted set holds exactly  *)
(* the pairs of its dictionary, in order of score and then of name, with   *)
(* spans that are the distances of the linked nodes on every level, and    *)
(* the same order backwards.                                               *)
(***************************************************************************)
SkipListSound ==
    \A k \in Key : entries[k] # Absent /\ IsType(entries[k], "zset") =>
        HoldsPairs(entries[k].zset.sl, Pairs(entries[k].zset.dict))

ListRangesAgree ==
    \A k \in Key : entries[k] # Absent /\ IsType(entries[k], "list") =>
        LET list == entries[k].list
            n    == Len(list)
        IN  \A start, stop \in (-n - 1)..n :
                /\ LTrim(list, start, stop) = LRange(list, start, stop)
                /\ start >= -n => LIndex(list, start) = LRange(list, start, start)

SortedRangesAgree ==
    \A k \in Key : entries[k] # Absent /\ IsType(entries[k], "zset") =>
        LET z     == entries[k].zset
            order == InOrder(Pairs(z.dict))
            up    == [i \in DOMAIN order |-> order[i][2]]
            down  == Reverse(up)
            n     == Len(up)
        IN  /\ \A start, stop \in (-n - 1)..n :
                  /\ ZRange(z, start, stop) = LRange(up, start, stop)
                  /\ ZRevRange(z, start, stop) = LRange(down, start, stop)
            /\ \A i \in 1..n : up[i] # EmptyMember =>
                  /\ ZRank(z, up[i]) = i - 1
                  /\ ZRevRank(z, up[i]) = n - i
                  /\ ZCount(z, order[1][1], order[i][1]) >= i

SetAlgebra ==
    LET held(k) == IF entries[k] = Absent THEN {} ELSE entries[k].set
        sets    == {k \in Key : entries[k] = Absent \/ IsType(entries[k], "set")}
    IN  \A keys \in [1..3 -> sets] :
            /\ SInter(keys) = held(keys[1]) \cap held(keys[2]) \cap held(keys[3])
            /\ SDiff(keys) = held(keys[1]) \ (held(keys[2]) \cup held(keys[3]))
            /\ SUnion(keys) = held(keys[1]) \cup held(keys[2]) \cup held(keys[3])

(***************************************************************************)
(* What the read commands answer agrees, however a value came to be.       *)
(* ZRANGE and ZREVRANGE answer what LRANGE would of the list of members in *)
(* order, or in reverse; ZRANK and ZREVRANK answer the place of a member in*)
(* them.  The empty member is excepted from the ranks: the header of the   *)
(* skip list carries it too, and get_rank can end there (line 142).  LTRIM *)
(* keeps what LRANGE answers, and LINDEX picks what LRANGE answers of one  *)
(* index.  SINTER, SDIFF and SUNION answer the intersection, difference and*)
(* union of the sets at their keys, a missing key being an empty set.      *)
(***************************************************************************)
ReadsAgree == ListRangesAgree /\ SortedRangesAgree /\ SetAlgebra

(***************************************************************************)
(* A command that empties a list, a hash or a set removes its key: only a  *)
(* sorted set can be stored empty (ZADD XX on a missing key leaves one).   *)
(***************************************************************************)
OnlyEmptySortedSets ==
    \A k \in Key : entries[k] # Absent =>
        /\ IsType(entries[k], "list") => entries[k].list # <<>>
        /\ IsType(entries[k], "hash") => entries[k].hash # NoFields
        /\ IsType(entries[k], "set") => entries[k].set # {}

(***************************************************************************)
(* In cluster mode a key is stored only while its slot is routed here and  *)
(* this node, and no other it knows, says that it serves the slot: the     *)
(* routing of every command, of those on several keys too, keeps the       *)
(* others out.                                                             *)
(***************************************************************************)
KeysOwned ==
    \A k \in Key : entries[k] # Absent =>
        /\ cluster.owner[SlotOf[k]] = Myself
        /\ {id \in DOMAIN cluster.nodes : SlotOf[k] \in cluster.nodes[id]} = {Myself}

(***************************************************************************)
(* A key whose entry a command changed has been given a new version, which *)
(* is what WATCH and EXEC rely on: also when the structure was changed in  *)
(* place, and when it went because it became empty.                        *)
(***************************************************************************)
ChangesAreMarked ==
    [][\A k \in Key : entries'[k] # entries[k] => k \in marked']_vars

(***************************************************************************)
(* A command that is answered with an error has changed nothing: the empty *)
(* structures that some commands store before they work on them are never  *)
(* left behind by one of their later errors.                               *)
(***************************************************************************)
ErrorsChangeNothing == [][raised' => entries' = entries]_vars
=============================================================================
