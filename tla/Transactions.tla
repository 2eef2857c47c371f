---------------------------- MODULE Transactions ----------------------------
(***************************************************************************)
(* The command dispatcher and the transaction engine: clients that call    *)
(* commands, watch keys, queue commands and execute them, on databases     *)
(* whose entries expire and are evicted meanwhile (server/dispatcher.py,   *)
(* transaction/manager.py, commands/transactions.py).                      *)
(*                                                                         *)
(* The server runs one callback of its event loop at a time.  EXEC is one  *)
(* callback, but it dispatches its queued commands one by one and each of  *)
(* them reads the clock, so its commands are steps of their own, and while *)
(* it runs nothing but the clock moves.                                    *)
(***************************************************************************)
EXTENDS Eviction, Sequences

CONSTANTS
    Client,      \* connections
    Nobody,      \* no EXEC is running
    Requests,    \* the data commands the clients send
    DefaultDB,   \* the database a connection starts with
    MaxTime,     \* bound: the clock stops here
    MaxQueue,    \* bound: commands queued in one transaction
    MaxVersion   \* bound: versions a database may have issued when a command
                 \* is called or queued

ASSUME TransactionAssumption ==
    /\ Nobody \notin Client
    /\ \A cmd \in Requests : cmd \in Command
    /\ DefaultDB \in DB
    /\ MaxTime \in Nat /\ MaxQueue \in Nat /\ MaxVersion \in Nat

Unwatched == -1

VARIABLES
    dbs,       \* the databases
    now,       \* time.time()
    db,        \* connection.db_id
    open,      \* transaction.in_transaction
    queue,     \* transaction.queued_commands
    watch,     \* transaction.watched_keys, Unwatched where a key is not in it
    running,   \* the client whose EXEC is running, or Nobody
    rest,      \* the queued commands that EXEC has still to dispatch
    base,      \* history: the databases as that EXEC found them
    seen       \* history: what each client's watched keys held when it
               \* watched them

session == <<db, open, queue, watch, seen>>
exec == <<running, rest, base>>
vars == <<dbs, now, session, exec>>

NoDatabases == [d \in DB |-> EmptyKeyspace]
NothingWatched == [l \in Location |-> Unwatched]
NothingSeen == [l \in Location |-> Absent]

Init ==
    /\ dbs = NoDatabases
    /\ now = 0
    /\ db = [c \in Client |-> DefaultDB]
    /\ open = [c \in Client |-> FALSE]
    /\ queue = [c \in Client |-> <<>>]
    /\ watch = [c \in Client |-> NothingWatched]
    /\ running = Nobody
    /\ rest = <<>>
    /\ base = NoDatabases
    /\ seen = [c \in Client |-> NothingSeen]

Idle == running = Nobody

VersionRoom == \A d \in DB : dbs[d].glob < MaxVersion

(***************************************************************************)
(* dispatch_command from the eviction check on: a write makes room first,  *)
(* and is answered with OOM when there is none to make.                    *)
(***************************************************************************)
Dispatch(c, cmd) ==
    \E victims \in SUBSET Evictable(dbs) :
        \/ /\ IF IsWrite(cmd) THEN Fits(dbs, victims) ELSE victims = {}
           /\ dbs' = Execute(Evict(dbs, victims), db[c], cmd, now)
           /\ db' = [db EXCEPT ![c] = SelectedAfter(@, cmd)]
        \/ /\ IsWrite(cmd)
           /\ OutOfMemory(dbs, victims)
           /\ dbs' = Evict(dbs, victims)
           /\ UNCHANGED db

Call(c, cmd) ==
    /\ Idle /\ ~open[c] /\ VersionRoom
    /\ Dispatch(c, cmd)
    /\ UNCHANGED <<now, open, queue, watch, seen, exec>>

(***************************************************************************)
(* Inside MULTI every other command is queued unseen: nothing about it is  *)
(* checked before EXEC runs it.                                            *)
(***************************************************************************)
Enqueue(c, cmd) ==
    /\ Idle /\ open[c] /\ VersionRoom
    /\ Len(queue[c]) < MaxQueue
    /\ queue' = [queue EXCEPT ![c] = Append(@, cmd)]
    /\ UNCHANGED <<dbs, now, db, open, watch, seen, exec>>

Multi(c) ==
    /\ Idle /\ ~open[c]
    /\ open' = [open EXCEPT ![c] = TRUE]
    /\ queue' = [queue EXCEPT ![c] = <<>>]
    /\ UNCHANGED <<dbs, now, db, watch, seen, exec>>

(***************************************************************************)
(* WATCH reads the version without looking the key up, so it does not      *)
(* expire it; a second WATCH of a key replaces the version it had.         *)
(***************************************************************************)
Watch(c, k) ==
    LET l == <<db[c], k>>
    IN  /\ Idle /\ ~open[c]
        /\ watch' = [watch EXCEPT ![c][l] = VersionAt(dbs, l)]
        /\ seen' = [seen EXCEPT ![c][l] = EntryAt(dbs, l)]
        /\ UNCHANGED <<dbs, now, db, open, queue, exec>>

ForgetWatches(c) ==
    /\ watch' = [watch EXCEPT ![c] = NothingWatched]
    /\ seen' = [seen EXCEPT ![c] = NothingSeen]

CloseTransaction(c) ==
    /\ open' = [open EXCEPT ![c] = FALSE]
    /\ queue' = [queue EXCEPT ![c] = <<>>]

(***************************************************************************)
(* UNWATCH is not queued: inside MULTI it takes effect at once.            *)
(***************************************************************************)
Unwatch(c) ==
    /\ Idle
    /\ ForgetWatches(c)
    /\ UNCHANGED <<dbs, now, db, open, queue, exec>>

Discard(c) ==
    /\ Idle /\ open[c]
    /\ CloseTransaction(c)
    /\ ForgetWatches(c)
    /\ UNCHANGED <<dbs, now, db, exec>>

\* Wrong on purpose: compares versions the wrong way round.
WatchedNotNewer(c, databases) ==
    \A l \in Location :
        watch[c][l] # Unwatched => VersionAt(databases, l) >= watch[c][l]

WatchedUnmodified(c, databases) ==
    \A l \in Location :
        watch[c][l] # Unwatched => VersionAt(databases, l) = watch[c][l]

\* Wrong on purpose: looks at the versions before it evicts.
ExecCheckingFirst(c) ==
    /\ Idle /\ open[c]
    /\ \E victims \in SUBSET Evictable(dbs) :
          /\ Fits(dbs, victims)
          /\ dbs' = Evict(dbs, victims)
    /\ CloseTransaction(c)
    /\ ForgetWatches(c)
    /\ IF WatchedUnmodified(c, dbs)
       THEN /\ running' = c
            /\ rest' = queue[c]
            /\ base' = dbs'
       ELSE UNCHANGED exec
    /\ UNCHANGED <<now, db>>

(***************************************************************************)
(* EXEC is a write command: it evicts before it looks at the versions, and *)
(* an OOM answer leaves the transaction open.                              *)
(***************************************************************************)
Exec(c) ==
    /\ Idle /\ open[c]
    /\ \E victims \in SUBSET Evictable(dbs) :
          /\ Fits(dbs, victims)
          /\ dbs' = Evict(dbs, victims)
    /\ CloseTransaction(c)
    /\ ForgetWatches(c)
    /\ IF WatchedUnmodified(c, dbs')
       THEN /\ running' = c
            /\ rest' = queue[c]
            /\ base' = dbs'
       ELSE UNCHANGED exec
    /\ UNCHANGED <<now, db>>

ExecRefused(c) ==
    /\ Idle
    /\ \E victims \in SUBSET Evictable(dbs) :
          /\ \/ OutOfMemory(dbs, victims)
             \/ ~open[c] /\ Fits(dbs, victims)
          /\ dbs' = Evict(dbs, victims)
    /\ UNCHANGED <<now, session, exec>>

ExecCommand ==
    /\ ~Idle /\ rest # <<>>
    /\ Dispatch(running, Head(rest))
    /\ rest' = Tail(rest)
    /\ UNCHANGED <<now, open, queue, watch, seen, running, base>>

ExecReply ==
    /\ ~Idle /\ rest = <<>>
    /\ running' = Nobody
    /\ base' = NoDatabases
    /\ UNCHANGED <<dbs, now, session, rest>>

(***************************************************************************)
(* The connection is closed, and its place is taken by a new one.          *)
(***************************************************************************)
Disconnect(c) ==
    /\ Idle
    /\ db' = [db EXCEPT ![c] = DefaultDB]
    /\ CloseTransaction(c)
    /\ ForgetWatches(c)
    /\ UNCHANGED <<dbs, now, exec>>

(***************************************************************************)
(* One cycle of active expiry: it may remove any entries that have expired *)
(* (which ones its heap and its sample find is left open here).            *)
(***************************************************************************)
PurgeExpiredBatch ==
    /\ Idle
    /\ \E purged \in [DB -> SUBSET Key] :
          /\ \A d \in DB : purged[d] \subseteq Expired(dbs[d], now)
          /\ dbs' = [d \in DB |-> Delete(dbs[d], purged[d])]
    /\ UNCHANGED <<now, session, exec>>

Tick ==
    /\ now < MaxTime
    /\ now' = now + 1
    /\ UNCHANGED <<dbs, session, exec>>

Next ==
    \/ \E c \in Client :
          \/ \E cmd \in Requests : Call(c, cmd)
          \/ \E cmd \in Requests : Enqueue(c, cmd)
          \/ \E k \in Key : Watch(c, k)
          \/ Multi(c)
          \/ Unwatch(c)
          \/ Discard(c)
          \/ Exec(c)
          \/ ExecRefused(c)
          \/ Disconnect(c)
    \/ ExecCommand
    \/ ExecReply
    \/ PurgeExpiredBatch
    \/ Tick

Spec == Init /\ [][Next]_vars
-----------------------------------------------------------------------------
(***************************************************************************)
(* Types.                                                                  *)
(***************************************************************************)
TypeOK ==
    /\ dbs \in [DB -> KeyspaceType]
    /\ now \in 0..MaxTime
    /\ db \in [Client -> DB]
    /\ open \in [Client -> BOOLEAN]
    /\ queue \in [Client -> Seq(Requests)]
    /\ watch \in [Client -> [Location -> Nat \cup {Unwatched}]]
    /\ running \in Client \cup {Nobody}
    /\ rest \in Seq(Requests)
    /\ base \in [DB -> KeyspaceType]
    /\ seen \in [Client -> [Location -> Entry \cup {Absent}]]

(***************************************************************************)
(* Comparing versions is enough (check_watched_keys): as long as a watched *)
(* key has the version it was watched with, it holds the very entry the    *)
(* client saw.  A command that changed an entry without marking it, or a   *)
(* version issued twice, would let EXEC overwrite a change it never saw.   *)
(***************************************************************************)
WatchSound ==
    \A c \in Client, l \in Location :
        watch[c][l] # Unwatched /\ watch[c][l] = VersionAt(dbs, l)
            => EntryAt(dbs, l) = seen[c][l]

(***************************************************************************)
(* Optimistic concurrency control (docs/architecture.md 2.7): when EXEC    *)
(* starts to run the queue, every key the client watches still holds what  *)
(* it held at the WATCH, although EXEC itself may have evicted entries.    *)
(***************************************************************************)
CommitUnmodified ==
    [][Idle /\ running' # Nobody =>
          \A l \in Location :
              watch[running'][l] # Unwatched
                  => EntryAt(dbs', l) = seen[running'][l]]_vars

(***************************************************************************)
(* Nothing that happens to a database, by whatever command, expiry or      *)
(* eviction, changes an entry without giving its name a version that has   *)
(* not been in use before (Keyspace.mark_modified and its callers).        *)
(***************************************************************************)
VersionsAdvance == [][\A d \in DB : Advances(dbs[d], dbs'[d])]_vars

(***************************************************************************)
(* When an expired entry is removed does not change what a command makes of*)
(* the data: from the databases as they are and from the same databases    *)
(* with every expired entry removed, each command leads to the same visible*)
(* contents, and fails or succeeds alike (get_entry, called by nearly every*)
(* command).  It may change what clients are told: DEL and DBSIZE count the*)
(* expired entries that are still stored, and EXEC aborts when the expired *)
(* entry of a watched key was removed and commits when it was not.         *)
(***************************************************************************)
ContentsIgnoreExpired ==
    \A d \in DB : Expired(dbs[d], now) # {} =>
        \A cmd \in Requests :
            LET swept == Swept(dbs[d], now)
            IN  /\ Visible(RunOn(dbs[d], cmd, now), now) = Visible(RunOn(swept, cmd, now), now)
                /\ Fails(dbs[d], cmd, now) = Fails(swept, cmd, now)

(***************************************************************************)
(* The limit is checked before a command runs and never after, so memory   *)
(* may exceed it, but by nothing except what the last command wrote: a     *)
(* step that stores a new entry leaves no more than the limit of entries   *)
(* it did not write, inside EXEC too (check_and_evict).                    *)
(***************************************************************************)
Untouched ==
    {l \in Occupied(dbs) : VersionAt(dbs', l) = VersionAt(dbs, l)}

Growth == Occupied(dbs') \ Occupied(dbs)

MemoryBounded ==
    [][MaxMemory # 0 /\ Growth # {} => Cardinality(Untouched) <= MaxMemory]_vars

(***************************************************************************)
(* The versions implement the promise: a location is stale for a client    *)
(* when it watches it with another version than the current one, and the   *)
(* other clients see the databases as EXEC found them until it replies.    *)
(***************************************************************************)
Shown == IF Idle THEN dbs ELSE base

Watching(c) == {l \in Location : watch[c][l] # Unwatched}

Stale(c) == {l \in Watching(c) : watch[c][l] # VersionAt(Shown, l)}

Promise == INSTANCE OptimisticLocking WITH
    Content    <- Entry \cup {Absent},
    store      <- [l \in Location |-> EntryAt(Shown, l)],
    watching   <- [c \in Client |-> Watching(c)],
    stale      <- [c \in Client |-> Stale(c)],
    committing <- running

(***************************************************************************)
(* Every behaviour of the transaction engine is one of OptimisticLocking.  *)
(***************************************************************************)
OptimisticLockingImplemented == Promise!Spec

(***************************************************************************)
(* What check_watched_keys says of itself: it finds "any watched key ...   *)
(* modified since WATCH was called" (transaction/manager.py:43), so a      *)
(* modification must not be forgotten while the key stays watched.         *)
(***************************************************************************)
ModificationRemembered ==
    [][\A c \in Client, l \in Location :
          watch[c][l] # Unwatched /\ l \in Stale(c) /\ watch'[c][l] # Unwatched
              => l \in Stale(c)']_vars
=============================================================================
