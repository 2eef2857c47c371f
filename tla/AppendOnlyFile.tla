--------------------------- MODULE AppendOnlyFile ---------------------------
(***************************************************************************)
(* The append only file: every write command is appended to a buffer, the  *)
(* buffer is written to the file and the file is synced as the fsync mode  *)
(* says, and after a crash the file is replayed (persistence/aof.py,       *)
(* persistence/recovery.py, and the calls of server/dispatcher.py and      *)
(* server/server.py).                                                      *)
(*                                                                         *)
(* What the databases hold is represented by the write commands that made  *)
(* them, each with the database it was applied to.  A callback of the      *)
(* event loop is not interrupted by others, but the process may die and    *)
(* the power may fail at any point of it, so executing, writing, syncing   *)
(* and answering are steps.  The file system keeps what was written when   *)
(* the process dies, and keeps a prefix of it when the power fails, at     *)
(* least what was synced.  rewrite() is not modelled: nothing calls it.    *)
(***************************************************************************)
EXTENDS Integers, Sequences, SequencesExt

CONSTANTS
    DB,            \* database indices
    Write,         \* write commands
    Garbage,       \* a command read out of a damaged file, sent by nobody
    Modes,         \* the fsync modes under consideration
    BufferLimit,   \* commands that fill the buffer (65536 bytes)
    ChunkRecords,  \* commands that recovery reads at once (65536 bytes)
    MaxRecords     \* bound: commands the file and the buffer may hold

ASSUME AppendOnlyFileAssumption ==
    /\ 0 \in DB
    /\ Garbage \notin Write
    /\ Modes \subseteq {"always", "everysec", "no"}
    /\ BufferLimit \in Nat \ {0} /\ ChunkRecords \in Nat \ {0}
    /\ MaxRecords \in Nat

Effect == [db : DB, cmd : Write \cup {Garbage}]

Nowhere == -1

VARIABLES
    mode,       \* fsync_mode
    stage,      \* what the server is doing: "down" after a crash, "closed"
                \* after a shutdown, "idle" between callbacks, or inside
                \* flush() before its "write" or before its "sync"
    forced,     \* force_sync of the flush in progress
    stopping,   \* the flush in progress is that of stop()
    mem,        \* what the databases hold; while the server is down, what
                \* they held when it went down
    buffer,     \* _buffer
    file,       \* the complete commands in the file
    synced,     \* how many of them survive a power failure
    torn,       \* how many of them precede a command that is torn, its end
                \* having never hit the disk, or Nowhere
    answered,   \* history: how many of the commands in mem were answered
    woken,      \* history: how many were executed when the fsync worker
                \* last woke up
    misread     \* history: the server was once started from a damaged file

history == <<answered, woken, misread>>
vars == <<mode, stage, forced, stopping, mem, buffer, file, synced, torn, history>>

Init ==
    /\ mode \in Modes
    /\ stage = "closed"
    /\ forced = FALSE /\ stopping = FALSE
    /\ mem = <<>> /\ buffer = <<>> /\ file = <<>>
    /\ synced = 0 /\ torn = Nowhere
    /\ answered = 0 /\ woken = 0 /\ misread = FALSE

Up == stage \in {"idle", "write", "sync"}

Commands(effects) == [i \in 1..Len(effects) |-> effects[i].cmd]

(***************************************************************************)
(* Something was appended after the torn command.                          *)
(***************************************************************************)
Damaged == torn # Nowhere /\ torn < Len(file)

\* Wrong on purpose: a torn command takes the one before it along.
ReadableDroppingLast ==
    IF torn # Nowhere THEN {SubSeq(file, 1, torn - 1)} ELSE {file}

(***************************************************************************)
(* What _replay_aof can read out of the file.  A torn command at the end   *)
(* is ignored.  Commands appended after it are read as its continuation:   *)
(* that may be a protocol error, which loses every command of the chunk it *)
(* is found in and everything after; or the torn command swallows some of  *)
(* those that follow, and is run with arguments it never had or ignored as *)
(* unknown.                                                                *)
(***************************************************************************)
EarlierChunks == SubSeq(file, 1, (torn \div ChunkRecords) * ChunkRecords)

Swallowing(n, ran) ==
    SubSeq(file, 1, torn) \o ran \o SubSeq(file, torn + n + 1, Len(file))

Readable ==
    IF ~Damaged THEN {file}
    ELSE {EarlierChunks} \cup {Swallowing(n, ran) : n \in 1..(Len(file) - torn),
                                                   ran \in {<<>>, <<Garbage>>}}

(***************************************************************************)
(* Start: recover(), then AOFManager.start().  The log names no database,  *)
(* so every command is replayed into database 0.                           *)
(***************************************************************************)
Start ==
    /\ stage \in {"down", "closed"}
    /\ \E commands \in Readable :
          /\ mem' = [i \in 1..Len(commands) |-> [db |-> 0, cmd |-> commands[i]]]
          /\ answered' = IF answered <= Len(commands) THEN answered ELSE Len(commands)
    /\ stage' = "idle"
    /\ buffer' = <<>>
    /\ woken' = 0
    /\ misread' = (misread \/ Damaged)
    /\ UNCHANGED <<mode, forced, stopping, file, synced, torn>>

Flush(force, stop) ==
    /\ stage' = "write"
    /\ forced' = force
    /\ stopping' = stop

(***************************************************************************)
(* dispatch_command executes a write and appends it (append_command).      *)
(***************************************************************************)
Dispatch(d, cmd) ==
    /\ stage = "idle"
    /\ Len(file) + Len(buffer) < MaxRecords
    /\ mem' = Append(mem, [db |-> d, cmd |-> cmd])
    /\ buffer' = Append(buffer, cmd)
    /\ IF mode = "always" THEN Flush(TRUE, FALSE) /\ UNCHANGED answered
       ELSE IF Len(buffer') >= BufferLimit THEN Flush(FALSE, FALSE) /\ UNCHANGED answered
       ELSE answered' = Len(mem') /\ UNCHANGED <<stage, forced, stopping>>
    /\ UNCHANGED <<mode, file, synced, torn, woken, misread>>

(***************************************************************************)
(* The callback that called flush() goes on: the server answers the        *)
(* command, or it stops.                                                   *)
(***************************************************************************)
Continue ==
    /\ stage' = IF stopping THEN "closed" ELSE "idle"
    /\ answered' = Len(mem)
    /\ UNCHANGED <<forced, stopping>>

\* Wrong on purpose: the fsync mode is not looked at.
WriteBufferUnforced ==
    /\ stage = "write"
    /\ file' = file \o buffer
    /\ buffer' = <<>>
    /\ Continue
    /\ UNCHANGED <<mode, mem, synced, torn, woken, misread>>

\* Wrong on purpose: what was written stays in the buffer.
WriteBufferKeepingIt ==
    /\ stage = "write"
    /\ file' = file \o buffer
    /\ IF forced \/ mode = "always"
       THEN stage' = "sync" /\ UNCHANGED <<answered, forced, stopping>>
       ELSE Continue
    /\ UNCHANGED <<mode, mem, buffer, synced, torn, woken, misread>>

WriteBuffer ==
    /\ stage = "write"
    /\ file' = file \o buffer
    /\ buffer' = <<>>
    /\ IF forced \/ mode = "always"
       THEN stage' = "sync" /\ UNCHANGED <<answered, forced, stopping>>
       ELSE Continue
    /\ UNCHANGED <<mode, mem, synced, torn, woken, misread>>

Sync ==
    /\ stage = "sync"
    /\ synced' = Len(file)
    /\ Continue
    /\ UNCHANGED <<mode, mem, buffer, file, torn, woken, misread>>

(***************************************************************************)
(* One turn of _periodic_fsync.  With an empty buffer flush() returns      *)
(* without syncing.                                                        *)
(***************************************************************************)
PeriodicFsync ==
    /\ stage = "idle" /\ mode = "everysec"
    /\ woken' = Len(mem)
    /\ IF buffer = <<>> THEN UNCHANGED <<stage, forced, stopping>> ELSE Flush(TRUE, FALSE)
    /\ UNCHANGED <<mode, mem, buffer, file, synced, torn, answered, misread>>

(***************************************************************************)
(* shutdown() ends with AOFManager.stop(), which flushes and closes.       *)
(***************************************************************************)
Shutdown ==
    /\ stage = "idle"
    /\ IF buffer = <<>>
       THEN stage' = "closed" /\ UNCHANGED <<forced, stopping>>
       ELSE Flush(TRUE, TRUE)
    /\ UNCHANGED <<mode, mem, buffer, file, synced, torn, history>>

GoDown ==
    /\ stage' = "down"
    /\ forced' = FALSE /\ stopping' = FALSE
    /\ buffer' = <<>>
    /\ UNCHANGED <<mode, mem, history>>

(***************************************************************************)
(* The process dies: the buffer is lost, the file is not.                  *)
(***************************************************************************)
Crash ==
    /\ Up
    /\ GoDown
    /\ UNCHANGED <<file, synced, torn>>

(***************************************************************************)
(* The power fails: the file loses what was not synced, and may be cut in  *)
(* the middle of a command (one torn command in the file is enough here).  *)
(***************************************************************************)
PowerFailure ==
    /\ \E kept \in synced..Len(file) :
          /\ file' = SubSeq(file, 1, kept)
          /\ \/ UNCHANGED torn
             \/ torn = Nowhere /\ kept < Len(file) /\ torn' = kept
    /\ synced' = Len(file')
    /\ GoDown

Next ==
    \/ Start
    \/ \E d \in DB, cmd \in Write : Dispatch(d, cmd)
    \/ WriteBuffer
    \/ Sync
    \/ PeriodicFsync
    \/ Shutdown
    \/ Crash
    \/ PowerFailure

Spec == Init /\ [][Next]_vars
-----------------------------------------------------------------------------
(***************************************************************************)
(* Types.                                                                  *)
(***************************************************************************)
TypeOK ==
    /\ mode \in Modes
    /\ stage \in {"down", "closed", "idle", "write", "sync"}
    /\ forced \in BOOLEAN /\ stopping \in BOOLEAN
    /\ mem \in Seq(Effect)
    /\ buffer \in Seq(Write)
    /\ file \in Seq(Write)
    /\ synced \in 0..Len(file)
    /\ torn \in 0..synced \cup {Nowhere}
    /\ answered \in 0..Len(mem)
    /\ woken \in Nat
    /\ misread \in BOOLEAN

(***************************************************************************)
(* The databases were never made from a damaged file, nor would they be by *)
(* a restart now.                                                          *)
(***************************************************************************)
Sound == ~misread /\ ~Damaged

(***************************************************************************)
(* The file and the buffer together are exactly the history of the         *)
(* databases, in order and without a command lost or written twice         *)
(* (append_command, flush, stop and the replay that made the databases).   *)
(***************************************************************************)
LogMatchesMemory ==
    stage # "down" /\ ~misread => Commands(mem) = file \o buffer

(***************************************************************************)
(* Whatever the mode and wherever the server died, a restart finds a       *)
(* prefix of what the databases held, and at least what had been synced    *)
(* (docs/persistence.md 3, item 1).                                        *)
(***************************************************************************)
RecoversPrefix ==
    [][Start /\ Sound =>
          /\ IsPrefix(Commands(mem'), Commands(mem))
          /\ IsPrefix(SubSeq(file, 1, synced), Commands(mem'))]_vars

(***************************************************************************)
(* With fsync mode "always" no command that was answered is ever lost, to  *)
(* a crash or to a power failure: the answer comes after the fsync         *)
(* (docs/persistence.md 1; append_command, flush).                         *)
(***************************************************************************)
NothingAnsweredLost ==
    [][Start /\ mode = "always" /\ Sound =>
          IsPrefix(SubSeq(Commands(mem), 1, answered), Commands(mem'))]_vars

(***************************************************************************)
(* What docs/persistence.md:57 says of a truncated file: the parser        *)
(* "recovers all intact commands up to the point of corruption".           *)
(***************************************************************************)
IntactRecovered ==
    [][Start /\ Damaged =>
          IsPrefix(SubSeq(file, 1, torn), Commands(mem'))]_vars

(***************************************************************************)
(* What docs/persistence.md:13 says of everysec: "at most 1 second of      *)
(* writes could be lost during power failure", so what was executed when   *)
(* the worker last woke up is synced when it is done.                      *)
(***************************************************************************)
AtMostOneSecond ==
    stage = "idle" /\ mode = "everysec" /\ Sound
        => woken <= synced
=============================================================================
