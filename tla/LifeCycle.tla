----------------------------- MODULE LifeCycle ------------------------------
(***************************************************************************)
(* A dataset through runs of a program that keeps it in a snapshot file:   *)
(* the server without an append only file (server/server.py, recovery.py)  *)
(* or a program that embeds the database (embedded.py).  It starts, takes  *)
(* commands while the clock advances, saves, stops and is started again, or*)
(* crashes.                                                                *)
(***************************************************************************)
EXTENDS Snapshots

CONSTANTS TTL,                     \* times to live that commands give
          Given,                   \* values that commands store whole
          Dumps,                   \* the snapshots that may be there at first
          Budgets                  \* bound: steps of each kind in a behaviour

EntryType == [val : Value, exp : {Never} \cup Nat]

\* A snapshot that is there at first has no two records of a key that differ.
ASSUME LifeCycleAssumption ==
    /\ TTL \subseteq Nat
    /\ Given \subseteq Value \ {Empty}
    /\ Absent \notin EntryType
    /\ \A data \in Dumps :
           /\ data \in Seq([key : Key, entry : EntryType])
           /\ \A i, j \in DOMAIN data : data[i].key = data[j].key => data[i] = data[j]

VARIABLES mode,                    \* "server" or "embedded"
          up,                      \* "up", "stopping" or "down"
          clean,                   \* history: it went down by stopping
          since,                   \* history: the entries of a key while the thread walks
          rebuilt,                 \* history: and whether the table was rebuilt
          left                     \* what is left of the budget

state == <<dict, heap, now, renamed, held>>
saves == <<dump, tmp, main, thread, hand, overlapped>>
process == <<mode, up, clean>>
vars == <<state, saves, process, since, rebuilt, left>>

Spend(what) == left[what] > 0 /\ left' = [left EXCEPT ![what] = @ - 1]

\* The main thread runs no command while it saves.
AtLoop == up = "up" /\ main.phase = "idle"

(***************************************************************************)
(* The server                                                              *)
(***************************************************************************)
\* What SET may give a key: a time to live, none, or the one that it had (KEEPTTL).
Expiries(k) ==
    {Never} \cup {now + t : t \in TTL}
            \cup {entry.exp : entry \in {Live(dict, k)} \ {Absent}}

Command ==
    /\ mode = "server" /\ AtLoop
    /\ \/ /\ Spend("writes")
          /\ \/ \E k \in Key :
                   \/ \E v \in Given, exp \in Expiries(k) : Set(k, v, exp)
                   \/ \E v \in Given : Incr(k, v)
                   \/ \E t \in TTL : ExpireAt(k, now + t)
                   \/ Persist(k)
                   \/ \E l \in Key : Rename(k, l)
                   \/ Del(k)
             \/ Flush
       \/ /\ Spend("edits")
          /\ \E k \in Key, f \in Field : HDel(k, f) \/ \E c \in Content : HSet(k, f, c)
    /\ UNCHANGED <<saves, process>>

ActiveExpiry ==
    /\ mode = "server" /\ AtLoop
    /\ Purge
    /\ UNCHANGED <<saves, process, left>>

SaveCommand ==
    /\ mode = "server" /\ AtLoop
    /\ Spend("saves")
    /\ MainSave(dict) \/ BgSave
    /\ UNCHANGED <<state, hand, process>>

ThreadStep ==
    /\ ThreadBegin \/ ThreadRead
    /\ UNCHANGED <<dict, heap, now, renamed, process, left>>
-----------------------------------------------------------------------------
(***************************************************************************)
(* The embedded database has no task that purges, and saves at the end of  *)
(* every call that changes something.                                      *)
(***************************************************************************)
EmbeddedChange(k) ==
    \/ \E v \in Given, exp \in {Never} \cup {now + t : t \in TTL \ {0}} :
          dict' \in Put(dict, k, [val |-> v, exp |-> exp])
    \/ dict' \in {Removed(dict, k), NoKeys}
    \/ \E v \in Given :
          dict' \in Put(Looked(dict, k), k,
                        [val |-> v, exp |-> IF Live(dict, k) = Absent THEN Never
                                            ELSE dict.entry[k].exp])

\* Wrong on purpose: the file is written before the change.
EmbeddedCallSavingFirst ==
    /\ mode = "embedded" /\ AtLoop
    /\ Spend("writes")
    /\ \E k \in Key : EmbeddedChange(k)
    /\ MainSave(dict)
    /\ UNCHANGED <<heap, now, renamed, held, hand, process>>

EmbeddedCall ==
    /\ mode = "embedded" /\ AtLoop
    /\ Spend("writes")
    /\ \E k \in Key : EmbeddedChange(k)
    /\ MainSave(dict')
    /\ UNCHANGED <<heap, now, renamed, held, hand, process>>
-----------------------------------------------------------------------------
(***************************************************************************)
(* Both                                                                    *)
(***************************************************************************)
Read ==
    /\ AtLoop
    /\ \E k \in Key : Access(k)
    /\ UNCHANGED <<saves, process, left>>

Clock ==
    /\ Spend("ticks")
    /\ Tick
    /\ UNCHANGED <<saves, process>>

SaveStep ==
    /\ FileStep
    /\ UNCHANGED <<state, hand, process, left>>

\* shutdown of the server, close of an embedded database.
Stop ==
    /\ AtLoop
    /\ up' = "stopping"
    /\ MainSave(dict)
    /\ UNCHANGED <<state, hand, mode, clean, left>>

\* The process ends when the executor's thread has.
Exit ==
    /\ up = "stopping" /\ main.phase = "idle" /\ thread.phase = "idle"
    /\ up' = "down"
    /\ clean' = TRUE
    /\ heap' = EmptyBag
    /\ renamed' = {}
    /\ UNCHANGED <<dict, now, held, saves, mode, left>>

Crash ==
    /\ up # "down"
    /\ up' = "down"
    /\ clean' = FALSE
    /\ dict' = NoKeys
    /\ heap' = EmptyBag
    /\ renamed' = {}
    /\ main' = Idle
    /\ thread' = NoThread /\ hand' = NoHand /\ held' = NoHold
    /\ UNCHANGED <<now, files, overlapped, mode, left>>

\* Wrong on purpose: the heap is left empty.
StartWithoutHeap ==
    /\ up = "down"
    /\ Spend("starts")
    /\ up' = "up"
    /\ dict' = Loaded(dump)
    /\ UNCHANGED <<heap, now, renamed, held, saves, mode, clean>>

\* Wrong on purpose: keys without an expiry are registered too.
StartRegisteringAll ==
    /\ up = "down"
    /\ Spend("starts")
    /\ up' = "up"
    /\ dict' = Loaded(dump)
    /\ heap' = SetToBag({<<dict'.entry[k].exp, k>> :
                   k \in {l \in Key : mode = "server" /\ dict'.entry[l] # Absent}})
    /\ UNCHANGED <<now, renamed, held, saves, mode, clean>>

(***************************************************************************)
(* recover: load the snapshot, then register every expiry it brought.  The *)
(* embedded database registers none.                                       *)
(***************************************************************************)
Start ==
    /\ up = "down"
    /\ Spend("starts")
    /\ up' = "up"
    /\ dict' = Loaded(dump)
    /\ heap' = SetToBag({<<dict'.entry[k].exp, k>> :
                   k \in {l \in Key : /\ mode = "server"
                                      /\ dict'.entry[l] # Absent
                                      /\ dict'.entry[l].exp # Never}})
    /\ UNCHANGED <<now, renamed, held, saves, mode, clean>>
-----------------------------------------------------------------------------
Init ==
    /\ dict = NoKeys /\ heap = EmptyBag /\ now = 0 /\ renamed = {}
    /\ dump \in {NoFile} \cup {Whole(data) : data \in Dumps} /\ tmp = NoFile
    /\ main = Idle /\ thread = NoThread /\ hand = NoHand /\ held = NoHold
    /\ overlapped = FALSE
    /\ mode \in {"server", "embedded"}
    /\ up = "down" /\ clean = FALSE
    /\ since = [k \in Key |-> {}] /\ rebuilt = FALSE
    /\ left \in Budgets

(***************************************************************************)
(* The histories of the thread's walk: every entry that a key has had, as  *)
(* others saw it, the object that the thread has taken for the key being   *)
(* one of them wherever it is; and whether the table has been rebuilt.     *)
(***************************************************************************)
Shifted(d, e) ==
    \E i \in DOMAIN d.slots : i \notin DOMAIN e.slots \/ e.slots[i] \notin {d.slots[i], Hole}

Taken(k) == IF hand.key = k THEN {IF IsExpired(Object) THEN Absent ELSE Object} ELSE {}

Observe ==
    LET before == IF thread.phase = "walk" THEN since ELSE [k \in Key |-> {}]
    IN  /\ since' = CASE thread'.phase = "walk" ->
                             [k \in Key |-> before[k] \cup {Live(dict, k)'} \cup Taken(k)']
                      [] thread'.phase = "open" -> since
                      [] OTHER                  -> [k \in Key |-> {}]
        /\ rebuilt' = CASE thread'.phase = "walk" -> rebuilt \/ Shifted(dict, dict')
                        [] thread'.phase = "open" -> rebuilt
                        [] OTHER                  -> FALSE

Next ==
    /\ \/ Command \/ ActiveExpiry \/ SaveCommand \/ ThreadStep
       \/ EmbeddedCall
       \/ Read \/ Clock \/ SaveStep \/ Stop \/ Exit \/ Crash \/ Start
    /\ Observe

\* The loop of active expiry comes round as long as the server is up, and saves end.
Fairness ==
    /\ WF_vars(ActiveExpiry /\ Observe)
    /\ WF_vars(SaveStep /\ Observe)

Spec == Init /\ [][Next]_vars /\ Fairness
-----------------------------------------------------------------------------
(***************************************************************************)
(* The slots of the table that are no holes name the keys with an entry,   *)
(* each once, and the heap and the saves are of their types.               *)
(***************************************************************************)
TypeOK ==
    /\ dict.entry \in [Key -> EntryType \cup {Absent}]
    /\ {k \in Key : dict.entry[k] # Absent} = {s \in {dict.slots[i] : i \in DOMAIN dict.slots} : s # Hole}
    /\ Size(dict) = Cardinality({k \in Key : dict.entry[k] # Absent})
    /\ Len(dict.slots) <= MaxSlots
    /\ IsABag(heap) /\ BagToSet(heap) \subseteq Nat \X Key
    /\ {main.phase, thread.phase} \subseteq
           {"idle", "asked", "walk", "open", "write", "rename"}
    /\ hand.read # "none" => /\ thread.phase = "walk" /\ hand.read \in Reads
                             /\ hand.key \in Key /\ Object \in EntryType
    /\ {main.file, thread.file} \subseteq {"none", "tmp", "dump", "gone"}
    /\ {dump.state, tmp.state} \subseteq {"none", "blank", "torn", "whole"}

(***************************************************************************)
(* Active expiry removes only keys that have expired, whatever the heap    *)
(* still says of keys that were deleted, persisted or given a later time   *)
(* since they were registered.                                             *)
(***************************************************************************)
PurgeOnlyExpired ==
    [][ActiveExpiry => \A k \in Key : dict'.entry[k] = dict.entry[k] \/ IsExpired(dict.entry[k])]_vars

(***************************************************************************)
(* Every key of the server with an expiry has it on the heap, after a      *)
(* restart too, except a key that took its expiry along from another name. *)
(***************************************************************************)
TTLsAreRegistered ==
    mode = "server" /\ up = "up" =>
        \A k \in Key \ renamed : dict.entry[k] # Absent /\ dict.entry[k].exp # Never =>
            BagIn(<<dict.entry[k].exp, k>>, heap)

(***************************************************************************)
(* Such a key is purged some time after it has expired, without anybody    *)
(* looking it up, however many stale items wait before its own.            *)
(***************************************************************************)
EventuallyPurged ==
    \A k \in Key :
        mode = "server" /\ up = "up" /\ IsExpired(dict.entry[k]) /\ k \notin renamed
            ~> up # "up" \/ ~IsExpired(dict.entry[k])

(***************************************************************************)
(* The snapshot file is whole, or has not been written yet, whenever a     *)
(* crash may come, as long as SAVE or shutdown did not run while BGSAVE    *)
(* was under way: the two share the name of the temporary file.            *)
(***************************************************************************)
DumpIsWhole == ~overlapped => dump.state \in {"none", "whole"}

(***************************************************************************)
(* What BGSAVE has collected when it gets to the end of the dictionary, if *)
(* nothing stopped it.  A record of a key has an expiry that the key's     *)
(* entry had, and in every field something that it held there, at some     *)
(* moments since the thread began, which need not be the same moment.  A   *)
(* key without a record was absent at some moment; only when the table was *)
(* rebuilt under the thread can a key that was always there be missing.    *)
(***************************************************************************)
PiecedFrom(record, entries) ==
    /\ \E e \in entries : e # Absent /\ e.exp = record.exp
    /\ \A f \in FieldsOf(record.val) :
           \E e \in entries : e # Absent /\ e.val[f] = record.val[f]

DumpFaithful ==
    thread.phase = "open" =>
        \A k \in Key :
            LET record == Holding(thread.got, k)
            IN  IF record = Absent THEN rebuilt \/ Absent \in since[k]
                ELSE PiecedFrom(record, since[k])

(***************************************************************************)
(* What a point-in-time snapshot (the comment of save, persistence/        *)
(* snapshot.py, and docs/persistence.md) has to be at least: no record is  *)
(* one that its key never had.                                             *)
(***************************************************************************)
PointInTime ==
    thread.phase = "open" =>
        \A k \in Key : Holding(thread.got, k) \in since[k] \cup {Absent}

(***************************************************************************)
(* What is on disk is what is, or was, in memory: for the server when it   *)
(* has gone down by stopping, for an embedded database also after every    *)
(* call.  Expiry times are kept as the moments they name.                  *)
(***************************************************************************)
SameOnDisk ==
    \A k \in Key :
        LET saved == Holding(dump.data, k)
        IN  Live(dict, k) = IF IsExpired(saved) THEN Absent ELSE saved

MemoryOnDisk ==
    /\ up = "down" /\ clean /\ ~overlapped => SameOnDisk
    /\ up = "up" /\ mode = "embedded" /\ main.phase = "idle" => SameOnDisk
=============================================================================
