------------------------------ MODULE Eviction ------------------------------
(***************************************************************************)
(* The maxmemory check every write command passes before it executes       *)
(* (memory/eviction.py, server/dispatcher.py).  Memory is counted in       *)
(* entries.  Which of the sampled candidates is the least recently or      *)
(* least frequently used is left open: any of them may be evicted.         *)
(***************************************************************************)
EXTENDS Commands

CONSTANTS
    MaxMemory,   \* max_memory_bytes; 0 means no limit
    Policy,      \* which entries the policy may evict
    Samples      \* keys drawn from each database for one eviction

ASSUME EvictionAssumption ==
    /\ MaxMemory \in Nat
    /\ Policy \in {"noeviction", "allkeys", "volatile"}
    /\ Samples \in Nat \ {0}

Location == DB \X Key

EntryAt(dbs, l) == dbs[l[1]].entries[l[2]]
VersionAt(dbs, l) == dbs[l[1]].ver[l[2]]

Occupied(dbs) == {l \in Location : EntryAt(dbs, l) # Absent}

UsedMemory(dbs) == Cardinality(Occupied(dbs))

Excess(dbs) ==
    IF MaxMemory = 0 \/ UsedMemory(dbs) <= MaxMemory THEN 0
    ELSE UsedMemory(dbs) - MaxMemory

Evictable(dbs) ==
    {l \in Occupied(dbs) : \/ Policy = "allkeys"
                           \/ Policy = "volatile" /\ EntryAt(dbs, l).exp # Never}

Evict(dbs, victims) ==
    [d \in DB |-> Delete(dbs[d], {k \in Key : <<d, k>> \in victims})]

\* Wrong on purpose: admits the command when the candidates have run out.
FitsOrGivesUp(dbs, victims) ==
    /\ victims \subseteq Evictable(dbs)
    /\ Cardinality(victims) <= Excess(dbs)

(***************************************************************************)
(* The loop has evicted these entries and memory fits again.               *)
(***************************************************************************)
Fits(dbs, victims) ==
    /\ victims \subseteq Evictable(dbs)
    /\ Cardinality(victims) = Excess(dbs)

(***************************************************************************)
(* The loop has evicted these entries, memory does not fit yet, and the    *)
(* sample drawn next holds no entry the policy may evict: the command is   *)
(* answered with OOM, and what was evicted stays evicted.                  *)
(***************************************************************************)
SampleMisses(dbs) ==
    \A d \in DB :
        LET stored == Stored(dbs[d])
            exempt == {k \in stored : <<d, k>> \notin Evictable(dbs)}
        IN  \/ Cardinality(exempt) >= Samples
            \/ exempt = stored

OutOfMemory(dbs, victims) ==
    /\ victims \subseteq Evictable(dbs)
    /\ Cardinality(victims) < Excess(dbs)
    /\ SampleMisses(Evict(dbs, victims))
=============================================================================
