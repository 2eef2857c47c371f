# NomDB in TLA+

A verification project for NomDB, an in-memory key-value server in Python that
speaks the Redis protocol (`src/src/nomdb`, one asyncio event loop, one process).
The modules model the program from its source; TLC checks them on small
instances, and TLAPS proves the theorems for every value of the constants.
Paths below are relative to `src/src/nomdb/` unless they start with `docs/`.

## 1. The system

All state lives in one process and is changed by callbacks of one event loop, so
a command runs without interruption. What interleaves: commands of different
clients, the active-expiry task, the fsync task, the replication tasks, the
thread of BGSAVE (which is *not* on the event loop), the clock, and crashes.

| Component | Source | State | Operations | Interacts with | What makes it correct |
|---|---|---|---|---|---|
| Keyspace | `storage/keyspace.py`, `entry.py`, `database.py` | key to entry (type, value, expiry), version per key, global version | get with lazy expiry, set, delete, expire, persist, rename, flush | every command, expiry, eviction, WATCH | expired entries are never seen; every change of an entry gives its name a new version |
| Commands | `commands/*.py` | none | about 110 commands | keyspace, heap, broker, cluster | same effect live, replayed and on a replica |
| Dispatcher | `server/dispatcher.py`, `connection.py` | per connection: database, transaction, mode | gates, queueing, eviction, execution, log, propagate | everything | the order of the gates; what failed is not logged |
| Transactions | `transaction/manager.py`, `commands/transactions.py` | queue, watched versions | MULTI, EXEC, DISCARD, WATCH, UNWATCH | keyspace versions, dispatcher | EXEC commits only over unmodified keys and shows its writes at once |
| Eviction | `memory/*.py` | access counts and times of entries | check and evict before a write | keyspace, dispatcher | memory stays bounded; evictions are visible to WATCH |
| Expiration | `expiration/*.py` | heap of (time, db, key), task | register, purge a batch | keyspace, clock | live keys are never purged; dead keys are purged eventually |
| Append only file | `persistence/aof.py`, `recovery.py` | buffer, file, fsync task | append, flush, fsync, rewrite, replay | dispatcher, start and shutdown | a restart finds a prefix of the history, in mode `always` all that was answered |
| Snapshots | `persistence/snapshot.py`, `recovery.py` | file, temporary file | SAVE, BGSAVE on a thread, load | keyspace, shutdown | the file is whole or not there; SAVE writes one state of the keyspace, BGSAVE only what was in it at some moment |
| Replication | `replication/*.py`, `commands/replication.py` | backlog ring and offset, replicas, replica's offset | propagate, PSYNC, reconnect, pings | dispatcher, sockets | a replica in sync holds what the primary held at its offset |
| Pub/Sub | `pubsub/broker.py`, `commands/pubsub.py` | channel and pattern tables, mirrored in connections | (un)subscribe, publish, disconnect | connections | the two tables mirror each other; one delivery per subscription |
| Cluster | `cluster/*.py`, `commands/cluster.py` | nodes with slots, slot owners | MEET, ADDSLOTS, routing | redirected clients | the two tables agree; a key is served by one node |
| Value structures | `storage/datatypes/*.py` | skip list, list, set, hash | per command | commands | ranks and ranges agree with the sorted order |
| RESP parser | `protocol/parser.py` | buffer, position | feed, parse | connections, recovery, replicas | commands do not depend on how bytes were cut into chunks |
| Server life cycle | `server/server.py` | tasks, clients | start, client loop, shutdown | all | data is recovered before clients are served |
| Clients | `client/*.py` | sockets, pool, pipeline | request, pipeline | server | each answer belongs to its request |
| Embedded | `embedded.py` | a keyspace, a snapshot path | direct calls | keyspace, snapshots | saved after every call |
| Tools | `config`, `metrics`, `dashboard`, `cli`, `benchmark` | counters | formatting, I/O | server | not modelled |

`PROJECT.json` lists the hazards of this code line by line, each with the
property that covers it or the reason why none does.

## 2. Modules

| Module | Models | State and actions |
|---|---|---|
| `Keyspace` | class `Keyspace` | no state: every method is an operator from a database to a database. A database is a record of entries, versions and the global version |
| `Commands` | `execute()` of the data commands | `RunOn` on one database, `Execute` on all; `Fails` says which requests are answered with an error |
| `Eviction` | `check_and_evict` | `Fits` and `OutOfMemory` say which sets of victims its loop may leave evicted |
| `Transactions` | dispatcher and transaction engine | one action per request of a client (`Call`, `Enqueue`, `Multi`, `Watch`, `Unwatch`, `Discard`, `Exec`, `ExecRefused`, `Disconnect`), a step per command of a running EXEC (`ExecCommand`, `ExecReply`), active expiry (`PurgeExpiredBatch`) and the clock (`Tick`) |
| `OptimisticLocking` | the promise of WATCH, MULTI and EXEC, without versions | abstract specification: watched locations, stale locations, a commit that shows its writes at once |
| `AppendOnlyFile` | `AOFManager`, `RecoveryManager._replay_aof`, start, shutdown | `Dispatch`, `WriteBuffer`, `Sync`, `PeriodicFsync`, `Shutdown`, `Start`; `Crash` and `PowerFailure` between any two of them |
| `ReplicationBacklog` | class `ReplicationBacklog` | no state: feeding and reading a ring are operators on a record of the ring and its two offsets |
| `Replication` | `PrimaryReplicationManager`, `ReplicaManager`, the connection between them | `Write` (execute, feed the ring, stream), `Heartbeat`, `HandlePsync`, `Connect`, `ReadReply`, `Receive` (one turn of the replica's loop), `LoseConnection`, `ReplicaOf`, `RestartPrimary` |
| `SortedSetStore` | `SkipList`, `SortedSetStore` | no state: a skip list is, per level, a function from nodes to their forward pointer and its span, and a function of backward pointers; each method is an operator on it. `Walk` is the inner and `Descend` the outer loop of every method that looks for a place |
| `ListStore` | `ListStore` | no state: operators on sequences, with Python's negative indices |
| `ClusterSlots` | `ClusterManager` | no state: a cluster is a record of slot owners and of the nodes' own slots; `AssignSlots`, `AddNode`, `Moved`, `Refused` |
| `Values` | the commands on lists, hashes, sets and sorted sets, CLUSTER MEET and ADDSLOTS, on one database | one action per command (or pair of mirrored commands), each with its routing, type check, change, marking and deletion; `Reads` are the commands that only answer |
| `Expiration` | expiring commands, `ExpirationHeap`, `ExpirationManager` | the dictionary as CPython orders it, a bag of registered times, the clock, the entry object in a thread's hands (`held`); `Set`, `Incr`, `HSet`, `HDel`, `ExpireAt`, `Persist`, `Rename`, `Del`, `Flush`, `Access`, `Purge` |
| `Snapshots` | `SnapshotManager` | snapshot file and temporary file, the save of the main thread and the one of the executor's thread, with what the latter has read of the entry it is at (`hand`). Opening, writing and renaming are steps, and so is every read of the thread: `ThreadVisit` (the next key and its entry), `ThreadCheck` and `ThreadCompare` (`is_expired`), `ThreadExpiry` and `ThreadStamp` (the expiry), `ThreadValue` and `ThreadField` (the value, a field at a time) |
| `LifeCycle` | a server without append only file, or a program with an embedded database | `Command`, `ActiveExpiry`, `SaveCommand`, `EmbeddedCall`, `Stop`, `Exit`, `Crash`, `Start` and the steps of `Snapshots` |
| `PubSub` | `PubSubBroker` | the two tables of the broker and the two sets of a connection |
| `Sessions` | `_handle_client`, `ClientConnection`, the gates of the dispatcher, MULTI and EXEC, the Pub/Sub commands, `shutdown` | per connection the phase of its handler, the chunk, the transaction; `Begin`, `Read`, `RunNext`, `RunQueued`, `ExecDone`, `ChunkDone`, `Loop`, `ReadEnd`, `BeginShutdown`, `EndShutdown` |
| `ClientLibrary` | `SyncConnection`, `SyncPipeline`, `Client` | per client the socket, the call in progress, the requests `sendall` still has, what it got, and whether its parser holds the beginning of a reply; `Call`, `ConnectAndCall`, `Transmit` (`sendall` hands over), `Receive`, `Misread` (a parser with the rest of an earlier connection in it), `EndOfStream`, `Timeout`, `Close` |
| `ProofLemmas` | induction over the natural numbers, for the proofs | |
| `TransactionsProof`, `AppendOnlyFileProof`, `ReplicationProof`, `SortedSetProof`, `ValuesProof`, `LifeCycleProof`, `ClientLibraryProof` | theorems | |
| `MCTransactions`, `MCAppendOnlyFile`, `MCReplication`, `MCValues`, `MCLifeCycle`, `MCClientLibrary` | instances for TLC | |

`Commands` extends `Keyspace`, `Eviction` extends `Commands`, `Transactions`
extends `Eviction` and instantiates `OptimisticLocking` with its refinement
mapping. `AppendOnlyFile` stands alone: for durability a database is the
sequence of write commands that made it. `Replication` extends
`ReplicationBacklog`. `Values` uses `SortedSetStore`, `ListStore` and
`ClusterSlots`. `LifeCycle` extends `Snapshots`, which extends `Expiration`.
`ClientLibrary` extends `Sessions`, which extends `PubSub`: clients, server and
broker in one system. Operators named "wrong on purpose" are not part of the
specifications: each is a plausible mistake that a property must notice.

**Abstraction.** In `Commands` and `Transactions` a value is its type and a number
(the size of a container, the number in a string, 0 for a string that is none).
Commands whose effect on a database has the same control are one operator (`INCR`
stands for INCRBY, DECR, APPEND, SETRANGE; `PUSH` and `POP` for the commands that
add to or remove from a list, set, hash or sorted set). Replies are success or
failure. Deleting a set of names gives all of them the last of the versions that the
code gives them one by one: versions are only ever compared with older versions of
the same name. The order in which the eviction policies prefer candidates is left
open; what a policy may evict, the limit and the failure of the sample are kept.
Memory is counted in entries. Which expired keys an active-expiry cycle finds is
open.

In the append only file a command is one record, a file that tore in a command
says after how many whole commands (`torn`), and what a parser makes of commands
appended after a torn one is any of the outcomes that cutting a command at each
of its bytes gives: a protocol error, or a command that swallows the next ones.

In replication a command is a sequence of bytes told apart by their position in
it, so the ring, the offsets and the cuts between chunks and connections are
byte by byte; how long a command is, is given by its kind. A value is a string or
a container, which a snapshot sends as its printed form. A parser that starts in
the middle of a command drops the rest of it or fails; one whose command is
followed by foreign bytes takes them for its own, and fails or stores some value.
A connection that a protocol error ended stays open at the primary; nobody reads
it, so it is taken as closed.

In `Values` members, fields and elements are small numbers, the empty one
included, and the levels of new nodes are drawn nondeterministically. NaN scores,
which have no place in an order, are left out.

In `Expiration` and `Snapshots` the order of the dictionary matters: the sweep
of the active expiry looks at its first keys, and the thread of BGSAVE walks it
while it changes. A deletion leaves a hole, an insertion appends and may rebuild
the table without its holes, and the iterator raises when the number of keys has
changed or when it meets more keys than there were.

What the thread gets from the iterator is the entry *object*, and it may lose the
interpreter's lock between any two reads of it. SET and INCR put another object in
its place, so the thread goes on with the old one; EXPIRE, PERSIST, HSET and HDEL
change it where it is; RENAME stores it under another name. `held` follows the
object through all of these, and every read of it is a step. The expiry is read four
times: twice by `is_expired`, twice by the code behind it. A PERSIST between a test
and the use that follows it makes the comparison, or the packing of the number,
raise, and the save ends without a file. A value is a function from a few fields to
contents: hashes are changed field by field, a string is a value that is only
replaced. Their iterator raises when the number of fields has changed. The order of
the fields is left open (so a rebuilt inner table adds nothing), except that no
field that stays is met twice. A hash that loses its last field after its entry was
taken can be saved empty. Commands are one step to the thread, although the lock can
change hands within one: HSET of several fields, or of a new hash, which is stored
empty first, would let the thread see them half done. Lists, sets and sorted sets
are walked in the same way and are not modelled apart (a list that grows or shrinks
makes its iterator raise, LSET does not, LTRIM and LREM put a new list in its
place).

In `Sessions` a chunk of requests is run by one handler without another one in
between; `turn` says whose. A request is its command and a number, a reply the
number of the request, -1 for a pushed message and 0 for the error that there
are too many clients. Clients act between chunks, since nothing they do can be
noticed during one. A handler may pause between chunks even when the code would
go on (the stream has more data), which adds behaviours and takes none away.

Between a client and its handler there is room for `RequestRoom` requests and
`ReplyRoom` replies: the buffers of the two sockets, and for replies what the writer
holds before `drain` waits. Both are counted in requests and replies instead of
bytes. A client that sends more stays in `sendall`, and receives nothing until it is
done; a handler whose replies do not fit stays in `await client.flush()` and reads
nothing (`Loop`). What a handler writes without flushing, messages of PUBLISH and
the refusal of a connection, never waits. A request counts as sent when the last of
it is.

`recv` may return any number of replies and the beginning of one more, which stays
in the parser. The parser belongs to the `SyncConnection` and outlives its socket:
closing after a timeout, or losing the connection, with such a beginning in it
leaves it `"adrift"`, and what the next connection receives is then swallowed,
turned into results nobody sent, followed by proper ones or not, or raised as a
protocol error (`Misread`, which leaves the choice open, since it depends on the
bytes). One assumption is made of callers: a request that a timeout cut short in
`sendall` is followed by `close` before the next call; otherwise the server would
read the next request as the rest of the first.

## 3. What TLC checks

| Run | Module, bounds | Shows |
|---|---|---|
| `locking` | two clients, two keys, one database, commands that write, expire, persist, rename and delete, queues of 2, clock to 1, 2 versions when a command is called | `TypeOK`; `WatchSound`: same version, same entry; `CommitUnmodified`: EXEC starts only over unmodified keys; `OptimisticLockingImplemented`: the engine refines the abstract lock |
| `eviction` | one client, two keys in two databases, 24 requests (every command family), limit of one entry, volatile policy, sample of one | `MemoryBounded`: memory exceeds the limit only by what the last command wrote; `ContentsIgnoreExpired`: the visible contents a command leaves, and whether it fails, do not depend on which expired entries are still stored; `CommitUnmodified` with EXEC's own evictions; `VersionsAdvance`: no version is reused and no change goes unmarked |
| `aof` | two databases, all three fsync modes, buffer of 2 commands, chunks of 2, 5 commands in the file, two commands, any number of crashes and power failures | `LogMatchesMemory`, `RecoversPrefix`, `NothingAnsweredLost` |
| `rewatch` (violated) | as `locking` | a second WATCH forgets a modification (finding) |
| `torn_tail` (violated) | as `aof`, 4 commands | after a torn command was appended to, recovery loses intact commands before it (finding) |
| `everysec` (violated) | mode `everysec` | more than one second of writes can be lost (finding) |
| `replication` | one replica, two keys, backlog of 3 bytes, commands of 1, 2 and 4 bytes, a stream of 3 bytes when a command is called, two failures (a lost connection, REPLICAOF or a restart of the primary), one heartbeat | `BacklogHoldsStream`: the ring returns the stream; `FullSyncComplete`: after +FULLRESYNC no write is missed; `NothingTwice`: no byte of the stream is asked for again; `CatchesUp`: in the end the replica is connected and has read everything |
| `partial_sync` (violated) | as `replication`, one failure | after +CONTINUE writes can be missing (finding) |
| `values` | three keys, two of them in one slot, with and without cluster mode, one other node; lists of 2, hashes of 2, sorted sets of 3, skip lists of 2 levels | `SkipListSound`: the skip list is its dictionary in order, with right spans; `ReadsAgree`: ranges, ranks and set operations answer what their definitions say; `OnlyEmptySortedSets`; `KeysOwned`: a key is stored only where its slot is served; `ChangesAreMarked`: WATCH sees every change; `ErrorsChangeNothing` |
| `lifecycle` | two keys, values of two fields with two contents, times to live 0 and 1, clock to 2, table of 3 slots, batch of 1, and seven budgets of writes, changes of a field, saves, starts and ticks; a snapshot at first or none | `TTLsAreRegistered`, `PurgeOnlyExpired`, `EventuallyPurged`; `DumpIsWhole`, `MemoryOnDisk`; `DumpFaithful`: every part of a record is something its key held while BGSAVE walked |
| `point_in_time` (violated) | as `lifecycle` | a record that BGSAVE saves can be one its key never had (finding) |
| `sessions` | four clients, three connections of which two may be served, room for two requests and one reply, a pipeline of five requests, one channel, one pattern, and six budgets of up to three calls and a timeout | `SubscriptionsSound`, `NotBothModes`, `OwnAnswer`, `CallsEnd`, `ShutdownCompletes` |

**Why the bounds are enough.** Two keys are what RENAME and MSET need, and let one
be watched while the other is not; two clients are one that watches and one that
interferes; two queued commands show that a failing command does not stop the next.
The clock needs one tick for a TTL of one to run out. `MaxVersion` bounds the
versions a database has issued when a command is called; the commands of a running
EXEC go beyond it. In `aof` the buffer fills (2 commands) and the file holds more
than two chunks, so every branch of flush and replay is taken. In `replication`
commands wrap around the end of the ring, one is larger than it, offsets fall out of
its window, and a command is cut by a chunk and by a failure; two failures are a
broken resumption of a broken synchronisation. In `values` three members make an
order and every kind of unlinking on two levels; two keys share a slot and the third
does not, so a command on several keys can be refused for either reason. In
`lifecycle` a batch of one makes stale items and early keys block the purge, three
slots let the table be rebuilt, and the budgets give each behaviour room for what
interacts: writes under BGSAVE, a SAVE or a shutdown during it, a crash in either, a
restart on what they left. Two fields and two changes are what it takes to mix two
states of one value, or an old expiry with a new value. In `sessions` two served
connections and a third make the limit be reached, also by a client that reconnects
before the server has noticed its leaving. Five requests are one more than fit when
both directions are full (two wait to be read, the chunk before them has filled the
way back), so the exception of `CallsEnd` is reached, and shorter ones do come
through. The theorems of section 4 have none of these bounds.

**Violated runs.** Each states what a comment or the documentation says of the
program, and its counterexample is a short run of the code; `PROJECT.json`,
"findings", quotes the lines.

**Exceptions.** A property that the code keeps only in part names what is
excepted, and these are observations about the code:

- `TTLsAreRegistered`, `EventuallyPurged`: RENAME does not register the expiry
  under the new name, so such a key is purged only if it comes early in the
  dictionary or when somebody looks it up.
- `DumpIsWhole`, `MemoryOnDisk`: SAVE, or a shutdown, during a BGSAVE writes the
  same temporary file. The snapshot can then be torn, or the older of the two.
- `LogMatchesMemory`, `RecoversPrefix`: they compare commands, not the databases
  they ran in. The log names no database (`persistence/aof.py:66`), so `Start`
  replays every command into database 0.
- `DumpFaithful`: keys of different moments are mixed, and so are the fields and the
  expiry of one record. The property says what is left: each part was there at some
  moment of the walk. When the table is rebuilt under the walk, a key that was
  always there can be missing from the file.
- `ContentsIgnoreExpired`: only contents and errors are compared. The reply of DEL and
  that of DBSIZE count expired entries that are still stored, and EXEC aborts when
  an expired entry of a watched key was removed since the WATCH, and commits when
  it still lies there.
- `FullSyncComplete`: keys that only the replica had are left out of the comparison;
  a full synchronisation keeps them.
- `OnlyEmptySortedSets`: ZADD XX on a missing key stores an empty sorted set.
- `ReadsAgree`: ZRANK of a member whose name is empty can answer nothing, since
  the header of the skip list has that name too.
- `OwnAnswer`: a connection on which a call timed out stays in use, and the late
  reply answers the next call. After `close` and a new connection it is the parser
  that may still hold the beginning of a reply, so calls made with such a parser are
  excepted too: `close` alone does not make answers right again. On a connection
  used for Pub/Sub confirmations and messages are taken for answers; inside EXEC the
  confirmations precede the reply to EXEC.
- `CallsEnd`: a pipeline is sent before its first reply is received, and the server
  does not read while its replies wait for room. One that leaves both directions
  full (`BothFull`) waits for its timeout, and the handler with it. So
  may a call whose parser is adrift (`Amiss`).
- `ShutdownCompletes`: from Python 3.12 on (the project asks for 3.13) `wait_closed`
  waits for the open connections, which `shutdown` closes only afterwards. A
  client that stays connected and sends nothing keeps the server from saving and
  stopping for as long as it likes.
- After the server has closed a connection the library keeps the dead socket, and
  every call fails until `close` is called.

**Fairness.** `replication` states weak fairness of `Connect` (the replica's loop
reconnects for ever, `replication/replica.py:57`), of `HandlePsync` and `ReadReply`
(the event loops of both sides run) and of receiving (TCP delivers while the
connection lasts). Writes, heartbeats and failures have none: `CatchesUp` speaks of
the time after the last failure. `lifecycle` has it of the purge (its loop goes
round for as long as the server is up, `expiration/manager.py:56`) and of the steps
of a save under way; not of commands, the clock, crashes or starts. `sessions` has
it of every handler (the event loop runs what can run, so `drain` returns once there
is room), of the two halves of shutdown, of `sendall` going on when there is room,
and of `recv` returning when there is something to return; none of what an adrift
parser makes of it. Clients need not call, close or time out, and
`ShutdownCompletes` says in its premise that they leave.

`replication` and `partial_sync` do not check for deadlock: when the bounds on
writes and failures are used up and the replica has read everything, the system
rests. Nor do `lifecycle`, where a program that is down may stay so, and
`sessions`, where a server that has stopped has nothing left to do
(`CallsEnd` is what finds calls that wait for ever).

## 4. What is proved

*Commands* (first half of `TransactionsProof`). `RunOnLater`: whatever command,
database and time, the database afterwards has the right type and is *later* than
before: a name with the same version has the same entry, a name with another version
has one above the global version there was. `Later` is transitive, so a command is
proved by going through the keyspace methods it calls. `ExecuteLater` and
`EvictLater` lift this to all databases and to eviction. `RunOnAlike` goes the same
way: two databases are *alike* when a look-up of any key finds the same in both, and
every method and every command takes alike databases to alike ones and fails on both
or on neither. Replies are not compared.

*Transactions* (second half), for all clients, keys, databases, requests
and limits. From the above, `StepLater`: every step of the server takes every
database forward. The inductive invariant `IInv` adds to the types and to
`WatchSound` that a watched version was issued before the present
(`WatchedIssued`: without it a version issued later could equal a watched one),
that versions stay below the global version, and that during an EXEC the
databases are later than those the EXEC found. From `IInv`:

- `TypeCorrect`, `VersionsAlwaysAdvance`, `WatchIsSound`, `CommitsAreUnmodified`;
- `ContentsIgnoreTheExpired`: a database and the same without its expired entries are
  alike, so `RunOnAlike` applies;
- `MemoryIsBounded`: only a write stores something new, and it has made room
  before. What it evicted carries a version above every earlier one for good, so
  it does not count as untouched even if the write stores the name again;
- `ImplementsOptimisticLocking`: every step of the engine is a step of
  `OptimisticLocking` or leaves it unchanged. The mapping shows the databases as
  the running EXEC found them until it replies, and calls a location stale when
  its version is not the watched one.

*Append only file* (`AppendOnlyFileProof`), for every mode, buffer and chunk size.
`IInv` says pointwise that memory is file followed by buffer while the server is
up and that the file is a prefix of memory while it is down, that the buffer is
empty outside a callback in mode `always`, and that what was answered in that
mode was synced. It is needed because `LogMatchesMemory` says nothing of a
server that is down, which is when a restart looks at the file. From it:
`TypeCorrect`, `LogIsHistory`, `RecoveryFindsAPrefix`, `AlwaysIsDurable`.

*Replication* (`ReplicationProof`), for every backlog size, every finite set of keys
and all requests. Four invariants, each on top of the one before:

- `StreamInv`: slot `o % Size` holds byte `o` of the stream for every offset in the
  window (`Mirrors`), as long as no command was as large as the ring; `FeedMirrors`
  shows that feeding keeps this, from the arithmetic of remainders (`SlotAfter`).
  From it `BacklogIsTheStream`.
- `TypeInv`, in parts for the primary, the replica, the connection between them and
  what is under way. The parser is a recursive function over the bytes of a chunk;
  that its states stay well-formed, whatever a damaged chunk makes of it, is proved
  by induction over the bytes. From it `ReplicationTypes`.
- `OffsetInv`: the offset the replica counts from, and the bytes on their way to it
  that it will count, come to the end of the stream at least (`Reaches`; heartbeats
  are counted and are not in the stream, so they may go beyond). It needs that the
  ids the two ends speak of agree (`Asked`) and that the stream is what clients
  wrote (`ClientBytes`). From it `NothingIsAppliedTwice`.
- `SyncInv`: on a connection that began with a full synchronisation, parsing the
  channel, from what the replica has parsed of a command so far, brings its copy
  to the primary's data (`Leads`), up to keys only the replica had and containers,
  which a snapshot prints. It is needed because `FullSyncComplete` speaks of the
  moment the channel is empty only. Parsing a sequence is parsing its pieces one
  after the other (again by induction), so neither the cut into chunks nor a
  command appended at the other end changes where it leads. From it
  `FullSynchronisation`.

*Values* (`ValuesProof`), for any keys, slots, structures and commands. Every command
is shown to give a `Sound` result: entries for the same keys, changed ones marked,
none changed if there was an error, and none at a key whose slot is not served
here. The invariant `IInv` adds that the two tables of the cluster manager agree
(`ClusterOK`). From it: `KeysAreOwned`, `EveryChangeIsMarked`, `ErrorsLeaveNothing`
(the one case that needs an argument is HINCRBY, which may store an empty hash
before it looks at the field: an empty hash has no field that holds text).
`ShapeInv` adds that every entry is *shaped*: one of the five types with a value of
that type, and empty only if it is a sorted set. Each command is shown to give a
`Tidy` result, LREM, ZADD and ZREM by induction over their elements. From it
`ValuesTypes`, `EmptyIsAbsent` and, as a sorted set is shaped when its skip list
holds the pairs of its dictionary, `SkipListsAreSound`. `ReadsAreRight` follows from
`ShapeInv` alone: `Taken` says which elements a range takes from a sequence, LRANGE
takes them from the list, and ZRANGE and ZREVRANGE take the same from the members in
order and in reverse; LTRIM and LINDEX need only that both count an index the same
way. For SINTER, SDIFF and SUNION, which the invariant states for three keys, the
loops are unfolded for each combination of missing keys.

*Skip lists* (`SortedSetProof`), for any number of levels and nodes. A level is a
*chain*: some of the pairs, each linked to the nearest later one with the distance
between their places as the span. Four steps lead to `InsertHolds` and
`DeleteHolds`, which say that `insert` adds and `delete` removes exactly one pair:

- the nodes of a chain determine its links (`ChainJoins`, `JoinsChain`), and a new
  pair shifts the places behind it by one (`PlacesShift`);
- a walk along a chain ends at the last node it may pass, with that node's place
  as its rank (`WalkEnds`, by induction over the nodes ahead), and where it ends is
  no later than where the level below goes on (`DescendEnds`): the `update` and
  `rank` arrays of the code hold, on each level, the last earlier node and its place;
- at that node, splicing a node in or out with the spans the code computes from the
  ranks, or stretching the link over it by one, gives a chain again (`SplicedChain`,
  `StretchedLonger`, `UnsplicedChain`); all other links keep theirs (`OtherLinkAdds`,
  `OtherLinkRemoves`);
- the levels stay nested when the list grows levels or drops empty ones from the
  top, and the back links follow the first level (`InsertedBack`, `DeletedBack`).

`ZADD`, `ZINCRBY` and `ZREM` then need that the old pair of a member, and no other,
leaves with its old score (`OldPairDeleted`): a pair that stayed behind
would be found by no later deletion.

Reading a sorted set is walking such chains: `get_element_by_rank` and `get_rank`
descend, and end at the pair they look for (`DescentHits`, from `DescendEnds`), since
as many places as pairs means that every place is taken (`PlacesAreTaken`, from the
library's theorems on finite sets); from there `zrange` follows first level links and
`zrevrange` back links, and each step is one place (`PathFollowed`, by induction over
the length of the range). So `RangeUp`, `RangeDown`, `RanksArePlaces` and
`CountsReach`. A rank needs that the member is not the empty one, as the header of the
list carries that name (section 3).

*Expiry and snapshots* (`LifeCycleProof`), for any number of crashes and restarts.
`Registered` strengthens `TTLsAreRegistered` by the domain of the dictionary and the
heap being a bag; an item that leaves the heap is due, so the key whose present
expiry it holds is expired and goes with it. From it `ExpiriesAreRegistered`;
`PurgesOnlyExpired` needs no invariant. `DumpInv` says of each save what the
temporary file holds at each of its steps while the two have not met
(`Apart`): `SnapshotsAreWhole`. On top of it:

- `TypesInv`: the filled slots of the table name exactly the keys with an entry,
  each once (`KeysOK`), through deletions, insertions, loads and rebuilds of the
  table; the saves and the files hold records (`SavesOK`). From it `LifeCycleTypes`.
- `WalkInv`: whatever the thread of BGSAVE has collected of a key, and has read so
  far of the entry in its hands, is pieced from entries the key had since the walk
  began, and a key without a record was absent at some moment of it or lies ahead of
  the thread, unless the table was rebuilt. It needs what `held` follows: that the
  object is stored under the name it is held by, or is what it was when it was last
  stored, and that it is one of the entries observed of the key it was taken for.
  The place of the thread, the hand and the object are what `DumpFaithful` does not
  mention and cannot be proved without. From it `DumpsAreFaithful`.
- `DiskInv`: while something has to be on disk (`Keeping`), the save under way, at
  whatever step, or else the file shows what memory shows. "Shows" leaves out
  what has expired, so the clock does not disturb it. From it `WhatIsOnDisk`.

*Sessions* (`ClientLibraryProof`), for any clients, connections and channels. `IInv`
adds to the mirrored tables that a chunk is run for a connection that is being read,
and that the transaction is closed while EXEC runs what was queued: without it a
queued SUBSCRIBE would seem to subscribe inside a transaction. From it:
`SubscriptionsAreSound`, `ModesAreExclusive`. `AnswersAreOwn` is about a connection
on which no call has timed out, nobody subscribed, and the parser was clean when it
was opened: the numbers of its requests follow one another without a gap from the
replies received through those on their way, the one EXEC is producing, the chunk,
the requests not read yet and those `sendall` has still to hand over (`Flows`),
and a server that closes or refuses a connection cuts this line somewhere (`Cut`)
and never reorders it.

Assumptions: those named in the modules (`KeyAssumption`, `AbsentAssumption`,
`DBAssumption`, `EvictionAssumption`, `TransactionAssumption`,
`AppendOnlyFileAssumption`, `BacklogAssumption`, `ReplicationAssumption`,
`ClusterAssumption`, `ValuesAssumption`, `ExpirationAssumption`,
`LifeCycleAssumption`, `PubSubAssumption`, `SessionsAssumption`, `ClientAssumption`),
which TLC evaluates on every run. Three say something about the code:

- The sets of keys, databases and connections are finite: a key has a bounded
  length, and the other two are limited by the configuration.
- `ValuesAssumption`: a command has the keys and arguments its arity asks for, which
  the dispatcher checks (`server/dispatcher.py`), and a number where it parses one.
- `LifeCycleAssumption`: in the snapshot that is on disk at the start, two records of
  one key are the same record. Loading skips a record whose time is over and would
  then show an older one of the same key, so an embedded database opened on such a
  file may hold what its next save does not. Only a table rebuilt under the walk of
  BGSAVE gives a key two records.

Induction: an induction over data cannot use the library's theorems that take a
predicate as a parameter. `ProofLemmas` states it for sets of numbers
(`NatSetInduction`, from the well-foundedness of the natural numbers), and a
recursive function over a sequence is unfolded by it.

Only model-checked: liveness, which needs ENABLED (`CatchesUp`, `EventuallyPurged`,
`CallsEnd`, `ShutdownCompletes`). Every safety invariant of a passing run is proved.

**What is assumed of the environment.** The file system keeps what was written
when the process dies, and a prefix of it when the power fails; a completed
fsync holds; write and fsync do not fail. The clock does not go backwards.

## 5. Not modelled

- Authentication, arity checks and the READONLY gate of the dispatcher.
- SCAN, RANDOMKEY, KEYS, SRANDMEMBER and the texts of INFO, CONFIG and CLUSTER.
- LRU, LFU and TTL order among eviction candidates.
- `AOFManager.rewrite`, which nothing calls; write and fsync errors.
- Replaying SPOP (random) and relative TTLs: `AppendOnlyFile` compares commands,
  not the data they make.
- Replication of several databases (a replica applies everything to database 0,
  as recovery does), of expiry times (a snapshot leaves them
  out), acknowledgements, several replicas, REPLICAOF NO ONE.
- Recovery when append only file and snapshot are both there or the setting
  changes between runs; slots of a cluster node, which no file keeps.
- Protocol errors of the commands a client sends (the server's parser), the
  asynchronous client (the same loop over streams, without pipelines), a request
  that is sent in part and followed by another one.
- Lists, sets and sorted sets in the snapshot, and commands that BGSAVE sees half
  done (section 2). In the embedded database a changed collection is a changed value.
  `auto_save` switched off.
- Configuration, metrics, dashboard, CLI, benchmark, encoder: formatting and I/O.

## 6. Plan

In this order; each with its runs, its abstract specification where one is worth
stating, and its theorems.

1. `AppendOnlyFile` extended by I/O errors, the replay of real commands under the
   clock and in cluster mode (composition with `Commands` and `ClusterSlots`), and
   the choice between log and snapshot at the start.
2. `RespParser`: parsing in chunks against parsing at once, and what a protocol
   error discards.
3. `Scan`: the cursor against changes of the dictionary.
