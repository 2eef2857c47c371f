---------------------------- MODULE ClusterSlots ----------------------------
(***************************************************************************)
(* cluster/node.py, class ClusterManager: which node serves which slot.    *)
(* A cluster is a record of the slots every known node lists for itself    *)
(* (nodes) and the table that routing looks into (owner).  No state here.  *)
(* The slot of a key (its CRC16) is a constant.                            *)
(***************************************************************************)
EXTENDS Integers, Sequences, FiniteSets

CONSTANTS Key,                     \* names of keys
          SlotCount,               \* TOTAL_SLOTS
          SlotOf,                  \* key_to_slot
          Myself,                  \* the identifier of this node
          Peer,                    \* identifiers CLUSTER MEET can give nodes
          NoOwner                  \* a slot that was not assigned

ASSUME ClusterAssumption ==
    /\ IsFiniteSet(Key)
    /\ SlotCount \in Nat \ {0}
    /\ SlotOf \in [Key -> 0..(SlotCount - 1)]
    /\ Myself \notin Peer
    /\ NoOwner \notin Peer \cup {Myself}

Slot == 0..(SlotCount - 1)

(***************************************************************************)
(* Outside cluster mode the node owns every slot, in cluster mode none     *)
(* until it is told to.                                                    *)
(***************************************************************************)
NewCluster(enabled) ==
    [enabled |-> enabled,
     nodes   |-> [id \in {Myself} |-> IF enabled THEN {} ELSE Slot],
     owner   |-> [s \in Slot |-> IF enabled THEN NoOwner ELSE Myself]]

\* Wrong on purpose: a number that is no slot is recorded too.
AssignSlotsUnchecked(c, id, slots) ==
    [c EXCEPT !.owner = [s \in Slot |-> IF s \in slots THEN id ELSE @[s]],
              !.nodes = [n \in DOMAIN @ |-> IF n = id THEN @[n] \cup slots
                                            ELSE @[n] \ slots]]

(***************************************************************************)
(* assign_slots: numbers that are no slot are passed over, and a slot is   *)
(* taken from the node that had it.                                        *)
(***************************************************************************)
AssignSlots(c, id, slots) ==
    LET taken == slots \cap Slot
    IN  [c EXCEPT !.owner = [s \in Slot |-> IF s \in taken THEN id ELSE @[s]],
                  !.nodes = [n \in DOMAIN @ |-> IF n = id THEN @[n] \cup taken
                                                ELSE @[n] \ taken]]

\* add_node: a record without slots, also for a node that was known.
AddNode(c, id) ==
    [c EXCEPT !.nodes = [n \in DOMAIN @ \cup {id} |-> IF n = id THEN {} ELSE @[n]]]

(***************************************************************************)
(* verify_key_route and verify_multi_key_route: whether a command on these *)
(* keys is refused with MOVED or CROSSSLOT.                                *)
(***************************************************************************)
Moved(c, key) == c.enabled /\ c.owner[SlotOf[key]] # Myself

\* Wrong on purpose: only the first key is looked at.
RefusedByFirstKey(c, keys) == keys # <<>> /\ Moved(c, keys[1])

Refused(c, keys) ==
    /\ c.enabled
    /\ keys # <<>>
    /\ \/ \E i \in DOMAIN keys : SlotOf[keys[i]] # SlotOf[keys[1]]
       \/ Moved(c, keys[1])

=============================================================================
