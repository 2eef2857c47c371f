---------------------------- MODULE ValuesProof -----------------------------
(***************************************************************************)
(* Theorems about Values: where keys may be stored in cluster mode, what a *)
(* command owes to WATCH and to a client it answers with an error, and     *)
(* what the structures stored are and reads of them answer, for any        *)
(* commands, keys and slots.                                               *)
(***************************************************************************)
EXTENDS Values, SortedSetProof, SequenceTheorems

(***************************************************************************)
(* The two tables of the cluster manager agree: no other node is known to  *)
(* have slots, and outside cluster mode this node has them all.            *)
(***************************************************************************)
ClusterOK ==
    /\ cluster = [enabled |-> cluster.enabled, nodes |-> cluster.nodes, owner |-> cluster.owner]
    /\ cluster.owner \in [Slot -> {Myself, NoOwner}]
    /\ cluster.nodes = [id \in DOMAIN cluster.nodes |-> cluster.nodes[id]]
    /\ Myself \in DOMAIN cluster.nodes
    /\ \A s \in Slot : cluster.owner[s] = Myself <=> s \in cluster.nodes[Myself]
    /\ \A id \in DOMAIN cluster.nodes : id # Myself => cluster.nodes[id] = {}
    /\ ~cluster.enabled => \A s \in Slot : cluster.owner[s] = Myself

EntriesOK == entries = [k \in Key |-> entries[k]]

Routed == \A k \in Key : entries[k] # Absent => cluster.owner[SlotOf[k]] = Myself

IInv == ClusterOK /\ EntriesOK /\ Routed

(***************************************************************************)
(* What the result of a command owes: entries for the same keys, of which  *)
(* those that changed are marked and none changed if there was an error,   *)
(* and a key is there only if it was or if its slot is served here.        *)
(***************************************************************************)
Sound(st) ==
    /\ st.entries = [k \in Key |-> st.entries[k]]
    /\ \A k \in Key : st.entries[k] # entries[k] => k \in st.marked
    /\ st.raised => st.entries = entries
    /\ \A k \in Key : st.entries[k] # Absent => cluster.owner[SlotOf[k]] = Myself

Promise ==
    /\ EntriesOK'
    /\ \A k \in Key : entries'[k] # entries[k] => k \in marked'
    /\ raised' => entries' = entries
    /\ \A k \in Key : entries'[k] # Absent => cluster.owner[SlotOf[k]] = Myself
    /\ UNCHANGED cluster

LEMMA BecomesSound ==
    ASSUME NEW st, Sound(st), Becomes(st)
    PROVE  Promise
  BY DEF Sound, Becomes, Promise, EntriesOK
-----------------------------------------------------------------------------
(***************************************************************************)
(* The building blocks of commands.                                        *)
(***************************************************************************)
LEMMA NowSound ==
    ASSUME IInv
    PROVE  /\ Sound(Now) /\ Sound(Raise(Now))
           /\ Now.entries = entries /\ ~Now.raised
  BY DEF IInv, EntriesOK, Routed, Sound, Now, Raise

LEMMA ServedHere ==
    ASSUME IInv, NEW k \in Key, ~Moved(cluster, k)
    PROVE  cluster.owner[SlotOf[k]] = Myself
  BY ClusterAssumption DEF IInv, ClusterOK, Moved, Slot

LEMMA OnKeySound ==
    ASSUME IInv, NEW k \in Key, NEW type, NEW result,
           ~Moved(cluster, k) => Sound(result)
    PROVE  Sound(OnKey(k, type, result))
  BY NowSound DEF OnKey

LEMMA OnEntrySound ==
    ASSUME IInv, NEW k \in Key, NEW type, NEW result,
           ~Moved(cluster, k) /\ entries[k] # Absent => Sound(result)
    PROVE  Sound(OnEntry(k, type, result))
<1> DEFINE found == IF entries[k] = Absent THEN Now ELSE result
<1>1. ~Moved(cluster, k) => Sound(found) BY NowSound
<1> HIDE DEF found
<1>2. Sound(OnKey(k, type, found)) BY <1>1, OnKeySound
<1> QED BY <1>2 DEF found, OnEntry

\* An empty structure for a missing key, then the change in place and the mark.
LEMMA ChangeSound ==
    ASSUME IInv, NEW k \in Key, ~Moved(cluster, k), NEW entry, NEW empty
    PROVE  /\ Sound(Opened(k, empty))
           /\ Sound(Mark(Changed(Opened(k, empty), k, entry), k))
           /\ Sound(Mark(Changed(Now, k, entry), k))
           /\ Sound(Stored(Now, k, entry))
<1>1. cluster.owner[SlotOf[k]] = Myself BY ServedHere
<1> QED BY <1>1 DEF IInv, EntriesOK, Routed, Sound, Now, Mark, Stored, Changed, Opened

LEMMA KeptSound ==
    ASSUME IInv, NEW k \in Key, ~Moved(cluster, k), NEW entry, NEW empty
    PROVE  Sound(Deleted(Now, k)) /\ Sound(Kept(k, entry, empty))
<1>1. Sound(Deleted(Now, k)) BY ChangeSound, NowSound DEF Deleted
<1> QED BY <1>1, ChangeSound DEF Kept
-----------------------------------------------------------------------------
(***************************************************************************)
(* The commands.                                                           *)
(***************************************************************************)
LEMMA KeyOf ==
    ASSUME NEW req \in Request, req.op \notin ManyKeys \cup NoKeys
    PROVE  req.key \in Key
  BY ValuesAssumption

LEMMA ListCommandSound ==
    ASSUME IInv, NEW req \in Request, ListCommand(req)
    PROVE  Promise
<1>1. CASE Push(req)
  <2>1. req.key \in Key BY <1>1, KeyOf DEF Push, ManyKeys, NoKeys
  <2>2. PICK pushed : Becomes(OnKey(req.key, "list",
            Mark(Changed(Opened(req.key, [list |-> <<>>]), req.key, [list |-> pushed]), req.key)))
    BY <1>1 DEF Push
  <2> QED BY <2>1, <2>2, ChangeSound, OnKeySound, BecomesSound
<1>2. CASE Pop(req)
  <2>1. req.key \in Key BY <1>2, KeyOf DEF Pop, ManyKeys, NoKeys
  <2>2. PICK left : Becomes(OnEntry(req.key, "list", Kept(req.key, [list |-> left], [list |-> <<>>])))
    BY <1>2 DEF Pop
  <2> QED BY <2>1, <2>2, KeptSound, OnEntrySound, BecomesSound
<1>3. CASE LSetCommand(req)
  <2>1. req.key \in Key BY <1>3, KeyOf DEF LSetCommand, ManyKeys, NoKeys
  <2>2. PICK result : /\ Becomes(OnKey(req.key, "list", result))
                      /\ \/ result = Raise(Now)
                         \/ \E list : result = Mark(Changed(Now, req.key, [list |-> list]), req.key)
    BY <1>3 DEF LSetCommand
  <2>3. ~Moved(cluster, req.key) => Sound(result) BY <2>1, <2>2, NowSound, ChangeSound
  <2> QED BY <2>1, <2>2, <2>3, OnKeySound, BecomesSound
<1>4. CASE LInsertCommand(req)
  <2>1. req.key \in Key BY <1>4, KeyOf DEF LInsertCommand, ManyKeys, NoKeys
  <2>2. PICK result : /\ Becomes(OnEntry(req.key, "list", result))
                      /\ \/ result \in {Now, Raise(Now)}
                         \/ \E list : result = Mark(Changed(Now, req.key, [list |-> list]), req.key)
    BY <1>4 DEF LInsertCommand
  <2>3. ~Moved(cluster, req.key) => Sound(result) BY <2>1, <2>2, NowSound, ChangeSound
  <2> QED BY <2>1, <2>2, <2>3, OnEntrySound, BecomesSound
<1>5. CASE LTrimCommand(req)
  <2>1. req.key \in Key BY <1>5, KeyOf DEF LTrimCommand, ManyKeys, NoKeys
  <2>2. PICK left : Becomes(OnEntry(req.key, "list", Kept(req.key, [list |-> left], [list |-> <<>>])))
    BY <1>5 DEF LTrimCommand
  <2> QED BY <2>1, <2>2, KeptSound, OnEntrySound, BecomesSound
<1>6. CASE LRemCommand(req)
  <2>1. req.key \in Key BY <1>6, KeyOf DEF LRemCommand, ManyKeys, NoKeys
  <2>2. PICK left : Becomes(OnEntry(req.key, "list", Kept(req.key, [list |-> left], [list |-> <<>>])))
    BY <1>6 DEF LRemCommand
  <2> QED BY <2>1, <2>2, KeptSound, OnEntrySound, BecomesSound
<1> QED BY <1>1, <1>2, <1>3, <1>4, <1>5, <1>6 DEF ListCommand

(***************************************************************************)
(* HINCRBY raises after it may have stored an empty hash: only if the field*)
(* holds text, and then the hash was there.                                *)
(***************************************************************************)
LEMMA HIncrBySound ==
    ASSUME IInv, NEW req \in Request, HIncrBy(req)
    PROVE  Promise
<1> DEFINE opened == Opened(req.key, [hash |-> NoFields])
           hash == opened.entries[req.key].hash
           old == IF req.field \in DOMAIN hash THEN hash[req.field] ELSE 0
           result(new) == IF old = Text THEN Raise(opened)
                          ELSE Mark(Changed(opened, req.key, [hash |-> new]), req.key)
<1>1. req.key \in Key BY KeyOf DEF HIncrBy, ManyKeys, NoKeys
<1>2. old = Text => opened = Now
  <2>1. SUFFICES ASSUME entries[req.key] = Absent PROVE old # Text
    BY DEF Opened
  <2>2. hash = NoFields BY <1>1, <2>1 DEF Opened, Stored, Mark, Now, IInv, EntriesOK
  <2>3. DOMAIN hash = {} BY <2>2 DEF NoFields
  <2> HIDE DEF hash
  <2>4. old = 0 BY <2>3
  <2>5. Text \notin Int BY ValuesAssumption
  <2>6. Text # 0 BY <2>5
  <2> QED BY <2>4, <2>6
<1>3. \A new : ~Moved(cluster, req.key) => Sound(result(new))
  BY <1>1, <1>2, NowSound, ChangeSound
<1>4. Becomes(Raise(Now)) \/ \E new : Becomes(OnKey(req.key, "hash", result(new)))
  BY DEF HIncrBy
<1> HIDE DEF result
<1> QED BY <1>1, <1>3, <1>4, NowSound, OnKeySound, BecomesSound

LEMMA HashCommandSound ==
    ASSUME IInv, NEW req \in Request, HashCommand(req)
    PROVE  Promise
<1>1. CASE HSet(req)
  <2>1. req.key \in Key BY <1>1, KeyOf DEF HSet, ManyKeys, NoKeys
  <2>2. PICK hash : Becomes(OnKey(req.key, "hash",
            Mark(Changed(Opened(req.key, [hash |-> NoFields]), req.key, [hash |-> hash]), req.key)))
    BY <1>1 DEF HSet
  <2> QED BY <2>1, <2>2, ChangeSound, OnKeySound, BecomesSound
<1>2. CASE HSetNx(req)
  <2>1. req.key \in Key BY <1>2, KeyOf DEF HSetNx, ManyKeys, NoKeys
  <2>2. PICK result :
            /\ Becomes(OnKey(req.key, "hash", result))
            /\ \/ result = Opened(req.key, [hash |-> NoFields])
               \/ \E hash : result = Mark(Changed(Opened(req.key, [hash |-> NoFields]),
                                               req.key, [hash |-> hash]), req.key)
    BY <1>2 DEF HSetNx
  <2>3. ~Moved(cluster, req.key) => Sound(result) BY <2>1, <2>2, ChangeSound
  <2> QED BY <2>1, <2>2, <2>3, OnKeySound, BecomesSound
<1>3. CASE HDel(req)
  <2>1. req.key \in Key BY <1>3, KeyOf DEF HDel, ManyKeys, NoKeys
  <2>2. PICK left : Becomes(OnEntry(req.key, "hash", Kept(req.key, [hash |-> left], [hash |-> NoFields])))
    BY <1>3 DEF HDel
  <2> QED BY <2>1, <2>2, KeptSound, OnEntrySound, BecomesSound
<1> QED BY <1>1, <1>2, <1>3, HIncrBySound DEF HashCommand

LEMMA SetsCommandSound ==
    ASSUME IInv, NEW req \in Request, SetsCommand(req)
    PROVE  Promise
<1>1. CASE SAdd(req)
  <2>1. req.key \in Key BY <1>1, KeyOf DEF SAdd, ManyKeys, NoKeys
  <2>2. PICK set : Becomes(OnKey(req.key, "set",
            Mark(Changed(Opened(req.key, [set |-> {}]), req.key, [set |-> set]), req.key)))
    BY <1>1 DEF SAdd
  <2> QED BY <2>1, <2>2, ChangeSound, OnKeySound, BecomesSound
<1>2. CASE SRem(req)
  <2>1. req.key \in Key BY <1>2, KeyOf DEF SRem, ManyKeys, NoKeys
  <2>2. PICK left : Becomes(OnEntry(req.key, "set", Kept(req.key, [set |-> left], [set |-> {}])))
    BY <1>2 DEF SRem
  <2> QED BY <2>1, <2>2, KeptSound, OnEntrySound, BecomesSound
<1>3. CASE SPop(req)
  <2>1. req.key \in Key BY <1>3, KeyOf DEF SPop, ManyKeys, NoKeys
  <2>2. PICK result : /\ Becomes(OnEntry(req.key, "set", result))
                      /\ \/ result = Now
                         \/ \E left : result = Kept(req.key, [set |-> left], [set |-> {}])
    BY <1>3 DEF SPop
  <2>3. ~Moved(cluster, req.key) => Sound(result) BY <2>1, <2>2, NowSound, KeptSound
  <2> QED BY <2>1, <2>2, <2>3, OnEntrySound, BecomesSound
<1>4. CASE ReadSets(req)
  <2>1. Becomes(Raise(Now)) \/ Becomes(Now) BY <1>4 DEF ReadSets
  <2> QED BY <2>1, NowSound, BecomesSound
<1> QED BY <1>1, <1>2, <1>3, <1>4 DEF SetsCommand

LEMMA SortedSetCommandSound ==
    ASSUME IInv, NEW req \in Request, SortedSetCommand(req)
    PROVE  Promise
<1>1. CASE ZAddCommand(req)
  <2>1. req.key \in Key BY <1>1, KeyOf DEF ZAddCommand, ManyKeys, NoKeys
  <2>2. PICK zset : Becomes(OnKey(req.key, "zset",
            Mark(Changed(Opened(req.key, [zset |-> EmptySortedSet]), req.key, [zset |-> zset]), req.key)))
    BY <1>1 DEF ZAddCommand
  <2> QED BY <2>1, <2>2, ChangeSound, OnKeySound, BecomesSound
<1>2. CASE ZIncrByCommand(req)
  <2>1. req.key \in Key BY <1>2, KeyOf DEF ZIncrByCommand, ManyKeys, NoKeys
  <2>2. PICK zset : Becomes(OnKey(req.key, "zset",
            Mark(Changed(Opened(req.key, [zset |-> EmptySortedSet]), req.key, [zset |-> zset]), req.key)))
    BY <1>2 DEF ZIncrByCommand
  <2> QED BY <2>1, <2>2, ChangeSound, OnKeySound, BecomesSound
<1>3. CASE ZRemCommand(req)
  <2>1. req.key \in Key BY <1>3, KeyOf DEF ZRemCommand, ManyKeys, NoKeys
  <2>2. PICK result : /\ Becomes(OnEntry(req.key, "zset", result))
                      /\ \/ result = Deleted(Now, req.key)
                         \/ \E zset : result = Mark(Changed(Now, req.key, [zset |-> zset]), req.key)
    BY <1>3 DEF ZRemCommand
  <2>3. ~Moved(cluster, req.key) => Sound(result) BY <2>1, <2>2, KeptSound, ChangeSound
  <2> QED BY <2>1, <2>2, <2>3, OnEntrySound, BecomesSound
<1> QED BY <1>1, <1>2, <1>3 DEF SortedSetCommand

LEMMA KeyCommandSound ==
    ASSUME IInv, NEW req \in Request, KeyCommand(req)
    PROVE  Promise
<1>1. CASE SetString(req)
  <2>1. req.key \in Key BY <1>1, KeyOf DEF SetString, ManyKeys, NoKeys
  <2>2. \/ Becomes(Raise(Now))
        \/ ~Moved(cluster, req.key) /\ Becomes(Stored(Now, req.key, [string |-> req.value]))
    BY <1>1 DEF SetString
  <2> QED BY <2>1, <2>2, NowSound, ChangeSound, BecomesSound
<1>2. CASE Del(req)
  <2> DEFINE rest(gone) == [entries |-> [k \in Key |-> IF k \in gone THEN Absent ELSE entries[k]],
                            marked  |-> {k \in gone : entries[k] # Absent},
                            raised  |-> FALSE]
  <2>1. Becomes(Raise(Now)) \/ \E gone : Becomes(rest(gone)) BY <1>2 DEF Del
  <2>2. \A gone : Sound(rest(gone)) BY DEF Sound, IInv, EntriesOK, Routed
  <2> HIDE DEF rest
  <2> QED BY <2>1, <2>2, NowSound, BecomesSound
<1>3. CASE Rename(req)
  <2> DEFINE src == req.keys[1]
             dst == req.keys[2]
             moved == [entries |-> [[entries EXCEPT ![dst] = entries[src]] EXCEPT ![src] = Absent],
                       marked  |-> {src, dst},
                       raised  |-> FALSE]
  <2>0. req.keys \in Seq(Key) /\ Len(req.keys) = 2
    <3>1. req.op \in {"RENAME", "RENAMENX"} BY <1>3 DEF Rename
    <3> QED BY <3>1, ValuesAssumption DEF ManyKeys
  <2>1. src \in Key /\ dst \in Key /\ DOMAIN req.keys = 1..2 BY <2>0
  <2>2. \/ Becomes(Now) \/ Becomes(Raise(Now))
        \/ Becomes(moved) /\ ~Refused(cluster, req.keys) /\ entries[src] # Absent
    BY <1>3 DEF Rename
  <2>3. CASE Becomes(moved) /\ ~Refused(cluster, req.keys) /\ entries[src] # Absent
    <3>1. cluster.owner[SlotOf[dst]] = Myself
      <4>1. CASE cluster.enabled
        <5>1. SlotOf[dst] = SlotOf[src] BY <2>1, <2>3, <4>1 DEF Refused
        <5> QED BY <2>1, <2>3, <5>1 DEF IInv, Routed
      <4>2. CASE ~cluster.enabled
        BY <2>1, <4>2, ClusterAssumption DEF IInv, ClusterOK, Slot
      <4> QED BY <4>1, <4>2
    <3>2. Sound(moved)
      <4> HIDE DEF src, dst
      <4> QED BY <2>1, <3>1 DEF Sound, IInv, EntriesOK, Routed
    <3> QED BY <2>3, <3>2, BecomesSound
  <2> QED BY <2>2, <2>3, NowSound, BecomesSound
<1> QED BY <1>1, <1>2, <1>3 DEF KeyCommand

LEMMA ReadCommandSound ==
    ASSUME IInv, NEW req \in Request, ReadCommand(req)
    PROVE  Promise
<1>1. ASSUME NEW op \in {"LRANGE", "HGET", "HGETALL", "SMEMBERS", "ZRANGE"}, NEW type,
             Reads(req, op, type)
      PROVE  Promise
  <2>1. req.key \in Key BY <1>1, KeyOf DEF Reads, ManyKeys, NoKeys
  <2> QED BY <1>1, <2>1, NowSound, OnKeySound, BecomesSound DEF Reads
<1> QED BY <1>1 DEF ReadCommand, ReadList, ReadFields, ReadHash, ReadSet, ReadSortedSet
-----------------------------------------------------------------------------
(***************************************************************************)
(* The invariant.                                                          *)
(***************************************************************************)
LEMMA InitSound == Init => IInv
<1> SUFFICES ASSUME Init PROVE IInv
  OBVIOUS
<1>1. PICK enabled \in BOOLEAN : cluster = NewCluster(enabled) BY DEF Init
<1>2. ClusterOK BY <1>1, ClusterAssumption DEF ClusterOK, NewCluster
<1> QED BY <1>2 DEF Init, IInv, EntriesOK, Routed

LEMMA ClusterSound ==
    ASSUME IInv, NEW req \in Request, ClusterMeet(req) \/ ClusterAddSlots(req)
    PROVE  ClusterOK' /\ Routed' /\ UNCHANGED entries /\ ~raised'
<1>1. CASE ClusterMeet(req)
  <2>1. req.node \in Peer BY <1>1, ValuesAssumption DEF ClusterMeet
  <2>2. cluster' = AddNode(cluster, req.node) BY <1>1 DEF ClusterMeet, ClusterCommand
  <2> DEFINE nodes == [n \in DOMAIN cluster.nodes \cup {req.node} |->
                          IF n = req.node THEN {} ELSE cluster.nodes[n]]
  <2>3. cluster' = [enabled |-> cluster.enabled, nodes |-> nodes, owner |-> cluster.owner]
    BY <2>2 DEF IInv, ClusterOK, AddNode
  <2>4. req.node # Myself BY <2>1, ClusterAssumption
  <2>5. ClusterOK' /\ cluster'.owner = cluster.owner BY <2>3, <2>4 DEF IInv, ClusterOK
  <2> QED BY <1>1, <2>5 DEF ClusterMeet, ClusterCommand, IInv, Routed
<1>2. CASE ClusterAddSlots(req)
  <2> DEFINE taken == req.slots \cap Slot
  <2>1. cluster' = AssignSlots(cluster, Myself, req.slots)
    BY <1>2 DEF ClusterAddSlots, ClusterCommand
  <2>2. /\ cluster'.enabled = cluster.enabled
        /\ cluster'.owner = [s \in Slot |-> IF s \in taken THEN Myself ELSE cluster.owner[s]]
        /\ cluster'.nodes = [n \in DOMAIN cluster.nodes |->
                IF n = Myself THEN cluster.nodes[n] \cup taken ELSE cluster.nodes[n] \ taken]
        /\ cluster' = [enabled |-> cluster'.enabled, nodes |-> cluster'.nodes, owner |-> cluster'.owner]
    BY <2>1 DEF IInv, ClusterOK, AssignSlots
  <2>3. ClusterOK' BY <2>2 DEF IInv, ClusterOK
  <2>4. \A k \in Key : cluster.owner[SlotOf[k]] = Myself => cluster'.owner[SlotOf[k]] = Myself
    BY <2>2, ClusterAssumption DEF Slot
  <2> QED BY <1>2, <2>3, <2>4 DEF ClusterAddSlots, ClusterCommand, IInv, Routed
<1> QED BY <1>1, <1>2

LEMMA StepSound ==
    ASSUME IInv, [Next]_vars
    PROVE  /\ IInv'
           /\ [/\ \A k \in Key : entries'[k] # entries[k] => k \in marked'
               /\ raised' => entries' = entries]_vars
<1>1. CASE UNCHANGED vars BY <1>1 DEF vars, IInv, ClusterOK, EntriesOK, Routed
<1>2. CASE Promise BY <1>2 DEF Promise, IInv, ClusterOK, EntriesOK, Routed
<1>3. ASSUME NEW req \in Request, ClusterMeet(req) \/ ClusterAddSlots(req)
      PROVE  IInv' /\ UNCHANGED entries /\ ~raised'
  BY <1>3, ClusterSound DEF IInv, EntriesOK
<1> QED BY <1>1, <1>2, <1>3, ListCommandSound, HashCommandSound, SetsCommandSound,
           SortedSetCommandSound, KeyCommandSound, ReadCommandSound DEF Next

LEMMA Invariant == Spec => []IInv
<1>1. IInv /\ [Next]_vars => IInv' BY StepSound
<1> QED BY <1>1, InitSound, PTL DEF Spec
-----------------------------------------------------------------------------
(***************************************************************************)
(* The routing in front of every command (cluster/node.py) keeps keys out  *)
(* whose slot this node does not serve, RENAME's destination included, and *)
(* no other node is known to serve the slot of a key that is stored.       *)
(***************************************************************************)
THEOREM KeysAreOwned == Spec => []KeysOwned
<1>1. IInv => KeysOwned
  BY ClusterAssumption DEF IInv, ClusterOK, Routed, KeysOwned, Slot
<1> QED BY <1>1, Invariant, PTL

(***************************************************************************)
(* Every command on a structure (commands/lists.py, hashes.py, sets.py,    *)
(* sorted_sets.py) marks the key whose entry it changes, in place or not.  *)
(***************************************************************************)
THEOREM EveryChangeIsMarked == Spec => ChangesAreMarked
<1>1. IInv /\ [Next]_vars => [\A k \in Key : entries'[k] # entries[k] => k \in marked']_vars
  BY StepSound
<1> QED BY <1>1, Invariant, PTL DEF Spec, ChangesAreMarked

(***************************************************************************)
(* A command that is answered with an error has changed nothing: those that*)
(* create a structure first have no error left to raise when it is new.    *)
(***************************************************************************)
THEOREM ErrorsLeaveNothing == Spec => ErrorsChangeNothing
<1>1. IInv /\ [Next]_vars => [raised' => entries' = entries]_vars BY StepSound
<1> QED BY <1>1, Invariant, PTL DEF Spec, ErrorsChangeNothing
-----------------------------------------------------------------------------
\* The smallest of some numbers is one of them.
LEMMA MinIsMember ==
    ASSUME NEW S \in SUBSET Nat, S # {}
    PROVE  Min(S) \in S
  BY LeastNatural DEF Min
-----------------------------------------------------------------------------
(***************************************************************************)
(* The methods of a list keep it a list.  Elements is what it holds.       *)
(***************************************************************************)
LEMMA PushedLists ==
    ASSUME NEW Elements, NEW list \in Seq(Elements), NEW values \in Seq(Elements) \ {<<>>}
    PROVE  /\ LPush(list, values) \in Seq(Elements) \ {<<>>}
           /\ RPush(list, values) \in Seq(Elements) \ {<<>>}
<1>1. Len(values) \in Nat \ {0}
  OBVIOUS
<1>2. \A i \in 1..Len(values) : Len(values) - i + 1 \in 1..Len(values)
  BY <1>1
<1>3. Reverse(values) \in Seq(Elements) /\ Len(Reverse(values)) = Len(values)
  BY <1>1, <1>2 DEF Reverse
<1> HIDE DEF Reverse
<1>4. PICK back : back = Reverse(values)
  OBVIOUS
<1>5. back \o list \in Seq(Elements) /\ Len(back \o list) = Len(back) + Len(list)
  BY <1>3, <1>4
<1>6. list \o values \in Seq(Elements) /\ Len(list \o values) = Len(list) + Len(values)
  OBVIOUS
<1>7. Len(list) \in Nat
  OBVIOUS
<1>8. back \o list # <<>> /\ list \o values # <<>>
  BY <1>1, <1>3, <1>4, <1>5, <1>6, <1>7
<1> QED BY <1>4, <1>5, <1>6, <1>8 DEF LPush, RPush

LEMMA PartOfList ==
    ASSUME NEW Elements, NEW list \in Seq(Elements), NEW a \in Int, NEW b \in Int,
           1 <= a, b <= Len(list)
    PROVE  SubSeq(list, a, b) \in Seq(Elements)
<1>1. \A i \in a..b : list[i] \in Elements
  BY ElementOfSeq
<1> QED BY <1>1, SubSeqProperties

LEMMA PoppedLists ==
    ASSUME NEW Elements, NEW list \in Seq(Elements), NEW count \in Nat
    PROVE  LPop(list, count) \in Seq(Elements) /\ RPop(list, count) \in Seq(Elements)
<1>1. PICK n \in Nat : n = Len(list)
  OBVIOUS
<1>2. PICK m \in Nat : m = Min({count, n}) /\ m <= n
  BY MinOfTwo
<1>3. m + 1 \in Int /\ 1 <= m + 1 /\ n - m \in Int /\ n - m <= n
  BY <1>2
<1>4. SubSeq(list, m + 1, n) \in Seq(Elements)
  BY <1>1, <1>3, PartOfList
<1>5. SubSeq(list, 1, n - m) \in Seq(Elements)
  BY <1>1, <1>3, PartOfList
<1> QED BY <1>1, <1>2, <1>4, <1>5 DEF LPop, RPop

LEMMA SetList ==
    ASSUME NEW Elements, NEW list \in Seq(Elements), NEW i \in Int, InRange(list, i),
           NEW value \in Elements
    PROVE  LSet(list, i, value) \in Seq(Elements) \ {<<>>}
<1>1. PICK n \in Nat : n = Len(list)
  OBVIOUS
<1>2. PICK at \in 1..n : at = Index(list, i) + 1
  BY <1>1 DEF InRange, Index
<1>3. PICK new : new = [list EXCEPT ![at] = value]
  OBVIOUS
<1>4. new \in Seq(Elements) /\ Len(new) = n
  BY <1>1, <1>2, <1>3, ExceptSeq
<1>5. new # <<>>
  BY <1>2, <1>4
<1> QED BY <1>2, <1>3, <1>4, <1>5 DEF LSet

LEMMA InsertedList ==
    ASSUME NEW Elements, NEW list \in Seq(Elements), NEW where, NEW pivot,
           Occurrences(list, pivot) # {}, NEW value \in Elements
    PROVE  LInsert(list, where, pivot, value) \in Seq(Elements) \ {<<>>}
<1>1. PICK n \in Nat : n = Len(list)
  OBVIOUS
<1>2. PICK at \in 1..n : at = Min(Occurrences(list, pivot))
  <2>1. Occurrences(list, pivot) \subseteq 1..n
    BY <1>1 DEF Occurrences
  <2> QED BY <2>1, MinIsMember
<1>3. PICK j \in 1..(n + 1) : j = IF where = "BEFORE" THEN at ELSE at + 1
  OBVIOUS
<1>4. PICK before, after : before = SubSeq(list, 1, j - 1) /\ after = SubSeq(list, j, n)
  OBVIOUS
<1>5. before \in Seq(Elements) /\ after \in Seq(Elements)
  BY <1>1, <1>4, PartOfList
<1>6. PICK both : both = before \o <<value>>
  OBVIOUS
<1>7. both \in Seq(Elements) /\ Len(both) = Len(before) + 1
  BY <1>5, <1>6
<1>8. both \o after \in Seq(Elements) /\ Len(both \o after) = Len(both) + Len(after)
  BY <1>5, <1>7, ConcatProperties
<1>9. both \o after # <<>>
  BY <1>5, <1>7, <1>8
<1>10. LInsert(list, where, pivot, value) = both \o after
  BY <1>1, <1>2, <1>3, <1>4, <1>6 DEF LInsert, InsertAt
<1> QED BY <1>8, <1>9, <1>10

LEMMA TrimmedList ==
    ASSUME NEW Elements, NEW list \in Seq(Elements), NEW start \in Int, NEW stop \in Int
    PROVE  LTrim(list, start, stop) \in Seq(Elements)
<1>1. PICK n \in Nat : n = Len(list)
  OBVIOUS
<1>2. PICK first \in Nat : first = IF start < 0 THEN Max({0, n + start}) ELSE start
  BY MaxOfTwo
<1>3. PICK last \in Nat : last = IF stop < 0 THEN Max({0, n + stop}) ELSE stop
  BY MaxOfTwo
<1>4. LTrim(list, start, stop) =
          IF n = 0 THEN list
          ELSE IF first > last \/ first >= n THEN <<>>
          ELSE SubSeq(list, first + 1, Min({last, n - 1}) + 1)
  BY <1>1, <1>2, <1>3 DEF LTrim
<1>5. ASSUME n # 0
      PROVE  SubSeq(list, first + 1, Min({last, n - 1}) + 1) \in Seq(Elements)
  <2>1. PICK m \in Nat : m = Min({last, n - 1}) /\ m <= n - 1
    BY <1>5, MinOfTwo
  <2>2. first + 1 \in Int /\ 1 <= first + 1 /\ m + 1 \in Int /\ m + 1 <= n
    BY <2>1
  <2>3. SubSeq(list, first + 1, m + 1) \in Seq(Elements)
    BY <1>1, <2>2, PartOfList
  <2> QED BY <2>1, <2>3
<1>6. <<>> \in Seq(Elements)
  OBVIOUS
<1> QED BY <1>4, <1>5, <1>6

(***************************************************************************)
(* LREM keeps a list a list: induction over the elements it looks at.      *)
(***************************************************************************)
Keeping(kept, list, gone, n) ==
    kept = [i \in 0..n |-> IF i = 0 THEN <<>>
                           ELSE IF i \in gone THEN kept[i - 1]
                           ELSE Append(kept[i - 1], list[i])]

LEMMA KeepingExists ==
    ASSUME NEW list, NEW gone, NEW n \in Nat
    PROVE  \E kept : Keeping(kept, list, gone, n)
<1> DEFINE S == {m \in Nat : \E kept : Keeping(kept, list, gone, m)}
<1>1. 0 \in S
  <2> DEFINE kept == [i \in 0..0 |-> <<>>]
  <2>1. Keeping(kept, list, gone, 0) BY DEF Keeping
  <2> QED BY <2>1
<1>2. ASSUME NEW m \in Nat, m \in S PROVE m + 1 \in S
  <2>1. PICK f : Keeping(f, list, gone, m) BY <1>2
  <2> DEFINE last == IF m + 1 \in gone THEN f[m] ELSE Append(f[m], list[m + 1])
             g == [i \in 0..(m + 1) |-> IF i <= m THEN f[i] ELSE last]
  <2>2. ASSUME NEW i \in 0..(m + 1)
        PROVE  g[i] = IF i = 0 THEN <<>>
                      ELSE IF i \in gone THEN g[i - 1]
                      ELSE Append(g[i - 1], list[i])
    <3>1. CASE i <= m
      <4>1. f[i] = IF i = 0 THEN <<>>
                   ELSE IF i \in gone THEN f[i - 1]
                   ELSE Append(f[i - 1], list[i])
        <5>1. i \in 0..m BY <3>1
        <5> QED BY <2>1, <5>1, Zenon DEF Keeping
      <4>2. i # 0 => g[i - 1] = f[i - 1] BY <3>1
      <4> QED BY <3>1, <4>1, <4>2
    <3>2. CASE i = m + 1 BY <3>2
    <3> QED BY <3>1, <3>2
  <2>3. Keeping(g, list, gone, m + 1) BY <2>2 DEF Keeping
  <2> QED BY <2>3
<1> HIDE DEF S
<1>3. n \in S BY <1>1, <1>2, NatSetInduction
<1> QED BY <1>3 DEF S

LEMMA LRemKeeps ==
    ASSUME NEW list, NEW count, NEW value, Len(list) \in Nat
    PROVE  \E gone, kept : /\ Keeping(kept, list, gone, Len(list))
                           /\ LRem(list, count, value) = kept[Len(list)]
<1> DEFINE found == Occurrences(list, value)
           gone == CASE count = 0 -> found
                     [] count > 0 -> {i \in found : Cardinality({j \in found : j <= i}) <= count}
                     [] OTHER     -> {i \in found : Cardinality({j \in found : j >= i}) <= -count}
           kept == CHOOSE k : Keeping(k, list, gone, Len(list))
<1>1. Keeping(kept, list, gone, Len(list))
  BY KeepingExists, Zenon
<1>2. LRem(list, count, value) = kept[Len(list)]
  BY Zenon DEF LRem, Keeping
<1> QED BY <1>1, <1>2

LEMMA RemovedList ==
    ASSUME NEW Elements, NEW list \in Seq(Elements), NEW count, NEW value
    PROVE  LRem(list, count, value) \in Seq(Elements)
<1>1. PICK n \in Nat : n = Len(list)
  OBVIOUS
<1>2. PICK gone, kept : /\ Keeping(kept, list, gone, n)
                        /\ LRem(list, count, value) = kept[n]
  BY <1>1, LRemKeeps
<1> DEFINE S == {i \in Nat : i <= n => kept[i] \in Seq(Elements)}
<1>3. 0 \in S
  BY <1>2 DEF Keeping
<1>4. ASSUME NEW i \in Nat, i \in S PROVE i + 1 \in S
  <2> SUFFICES ASSUME i + 1 <= n PROVE kept[i + 1] \in Seq(Elements)
    OBVIOUS
  <2>1. i + 1 \in 0..n /\ i + 1 # 0 /\ (i + 1) - 1 = i /\ kept[i] \in Seq(Elements)
    BY <1>4
  <2>2. kept[i + 1] = IF i + 1 \in gone THEN kept[i] ELSE Append(kept[i], list[i + 1])
    BY <1>2, <2>1 DEF Keeping
  <2>3. list[i + 1] \in Elements
    BY <1>1, <2>1, ElementOfSeq
  <2>4. Append(kept[i], list[i + 1]) \in Seq(Elements)
    BY <2>1, <2>3
  <2> QED BY <2>1, <2>2, <2>4
<1> HIDE DEF S
<1>5. n \in S
  BY <1>3, <1>4, NatSetInduction
<1> QED BY <1>2, <1>5 DEF S
-----------------------------------------------------------------------------
(***************************************************************************)
(* What an entry may be: a value of one of the five types, not empty unless*)
(* it is a sorted set, and then with a sound skip list.  The values of hash*)
(* fields are numbers or text because Small says so after every step.      *)
(***************************************************************************)
Shaped(entry) ==
    \/ entry = Absent
    \/ DOMAIN entry = {"list"} /\ entry.list \in Seq(Number) \ {<<>>}
    \/ DOMAIN entry = {"hash"} /\ entry.hash # NoFields
    \/ DOMAIN entry = {"set"} /\ entry.set \in (SUBSET Number) \ {{}}
    \/ DOMAIN entry = {"string"} /\ entry.string \in Number
    \/ DOMAIN entry = {"zset"} /\ SortedSet(entry.zset)

AllShaped == \A k \in Key : Shaped(entries[k]) /\ Small(entries[k])

ClusterTyped ==
    /\ cluster.enabled \in BOOLEAN
    /\ DOMAIN cluster.nodes \subseteq Peer \cup {Myself}
    /\ \A id \in DOMAIN cluster.nodes : cluster.nodes[id] \subseteq Slot

Flags == marked \subseteq Key /\ raised \in BOOLEAN

ShapeInv == IInv /\ AllShaped /\ ClusterTyped /\ Flags

(***************************************************************************)
(* The result of a command on well-shaped entries is well-shaped.          *)
(***************************************************************************)
Tidy(st) ==
    /\ \A k \in Key : Shaped(st.entries[k])
    /\ st.marked \subseteq Key
    /\ st.raised \in BOOLEAN

Result ==
    /\ \A k \in Key : Shaped(entries'[k])
    /\ Flags'

LEMMA BecomesTidy ==
    ASSUME NEW st, Tidy(st), Becomes(st)
    PROVE  Result
  BY DEF Tidy, Becomes, Result, Flags

LEMMA NowTidy ==
    ASSUME AllShaped
    PROVE  Tidy(Now) /\ Tidy(Raise(Now))
  BY DEF AllShaped, Tidy, Now, Raise

LEMMA StoredTidy ==
    ASSUME IInv, AllShaped, NEW k \in Key, NEW entry, Shaped(entry)
    PROVE  /\ Tidy(Stored(Now, k, entry))
           /\ Tidy(Mark(Changed(Now, k, entry), k))
           /\ Tidy(Deleted(Now, k))
<1>1. entries = [x \in Key |-> entries[x]] BY DEF IInv, EntriesOK
<1>2. ASSUME NEW e, Shaped(e)
      PROVE  Tidy(Stored(Now, k, e)) /\ Tidy(Mark(Changed(Now, k, e), k))
  <2>1. \A x \in Key : Shaped([entries EXCEPT ![k] = e][x])
    BY <1>1, <1>2 DEF AllShaped
  <2> QED BY <2>1 DEF Tidy, Stored, Mark, Changed, Now
<1>3. Shaped(Absent) BY DEF Shaped
<1> QED BY <1>2, <1>3, NowTidy DEF Deleted

\* The empty structure of a new key may be stored: it is filled at once.
LEMMA OpenedTidy ==
    ASSUME IInv, AllShaped, NEW k \in Key, NEW empty, NEW entry, Shaped(entry)
    PROVE  Tidy(Mark(Changed(Opened(k, empty), k, entry), k))
<1>1. entries = [x \in Key |-> entries[x]] BY DEF IInv, EntriesOK
<1>2. \A x \in Key : Shaped([entries EXCEPT ![k] = entry][x])
  BY <1>1 DEF AllShaped
<1>3. \A x \in Key : Shaped([[entries EXCEPT ![k] = empty] EXCEPT ![k] = entry][x])
  BY <1>1 DEF AllShaped
<1>4. Tidy(Mark(Changed(Stored(Now, k, empty), k, entry), k))
  BY <1>3 DEF Tidy, Stored, Mark, Changed, Now
<1>5. Tidy(Mark(Changed(Now, k, entry), k))
  BY <1>2 DEF Tidy, Mark, Changed, Now
<1> QED BY <1>4, <1>5 DEF Opened

\* What a command finds after a missing key was given an empty structure.
LEMMA OpenedHas ==
    ASSUME IInv, NEW k \in Key, NEW empty
    PROVE  /\ entries[k] # Absent => Opened(k, empty) = Now /\ Now.entries[k] = entries[k]
           /\ entries[k] = Absent => Opened(k, empty).entries[k] = empty
<1>1. entries = [x \in Key |-> entries[x]] BY DEF IInv, EntriesOK
<1>2. Stored(Now, k, empty).entries[k] = empty
  BY <1>1 DEF Stored, Mark, Now
<1>3. Now.entries = entries BY DEF Now
<1> QED BY <1>2, <1>3 DEF Opened

LEMMA KeptTidy ==
    ASSUME IInv, AllShaped, NEW k \in Key, NEW entry, NEW empty, entry # empty => Shaped(entry)
    PROVE  Tidy(Kept(k, entry, empty))
<1>1. Shaped(Absent) BY DEF Shaped
<1> QED BY <1>1, StoredTidy DEF Kept

\* A structure of the right type that a command finds at its key.
Finds(k, type) == entries[k] # Absent /\ IsType(entries[k], type)

LEMMA OnKeyTidy ==
    ASSUME AllShaped, NEW k \in Key, NEW type, NEW result,
           entries[k] = Absent \/ Finds(k, type) => Tidy(result)
    PROVE  Tidy(OnKey(k, type, result))
  BY NowTidy DEF OnKey, Finds

LEMMA OnEntryTidy ==
    ASSUME AllShaped, NEW k \in Key, NEW type, NEW result,
           Finds(k, type) => Tidy(result)
    PROVE  Tidy(OnEntry(k, type, result))
<1> DEFINE found == IF entries[k] = Absent THEN Now ELSE result
<1>1. entries[k] = Absent \/ Finds(k, type) => Tidy(found) BY NowTidy DEF Finds
<1> HIDE DEF found
<1>2. Tidy(OnKey(k, type, found)) BY <1>1, OnKeyTidy
<1> QED BY <1>2 DEF found, OnEntry

\* What the types are of.
LEMMA FoundShapes ==
    ASSUME AllShaped, NEW k \in Key
    PROVE  /\ Finds(k, "list") => entries[k].list \in Seq(Number) \ {<<>>}
           /\ Finds(k, "hash") => entries[k].hash # NoFields
           /\ Finds(k, "set") => entries[k].set \in (SUBSET Number) \ {{}}
           /\ Finds(k, "zset") => SortedSet(entries[k].zset)
<1>1. Shaped(entries[k]) BY DEF AllShaped
<1> QED BY <1>1 DEF Finds, IsType, Shaped

\* What a command stores.
LEMMA NewShapes ==
    /\ \A list \in Seq(Number) \ {<<>>} : Shaped([list |-> list])
    /\ \A hash : hash # NoFields => Shaped([hash |-> hash])
    /\ \A set \in (SUBSET Number) \ {{}} : Shaped([set |-> set])
    /\ \A string \in Number : Shaped([string |-> string])
    /\ \A zset : SortedSet(zset) => Shaped([zset |-> zset])
  BY DEF Shaped
-----------------------------------------------------------------------------
(***************************************************************************)
(* The commands again, with the arguments they come with.                  *)
(***************************************************************************)
LEMMA Arguments ==
    ASSUME NEW req \in Request
    PROVE  /\ req.op \in {"LPUSH", "RPUSH"} => req.values \in Seq(Number) \ {<<>>}
           /\ req.op \in {"LPOP", "RPOP"} => req.count \in Nat
           /\ req.op = "LSET" => req.index \in Int
           /\ req.op = "LTRIM" => req.start \in Int /\ req.stop \in Int
           /\ req.op \in {"LSET", "LINSERT", "SET"} => req.value \in Number
           /\ req.op = "HSET" => DOMAIN req.pairs # {}
           /\ req.op = "SADD" => req.members \in (SUBSET Number) \ {{}}
           /\ req.op = "ZADD" => req.pairs \in Seq(Int \X Nat)
           /\ req.op = "ZREM" => req.members \in Seq(Nat)
           /\ req.op = "ZINCRBY" => req.delta \in Int /\ req.member \in Nat
  BY ValuesAssumption, Zenon

LEMMA OneKey ==
    ASSUME NEW req \in Request,
           req.op \in {"LPUSH", "RPUSH", "LPOP", "RPOP", "LSET", "LINSERT", "LTRIM", "LREM",
                       "HSET", "HSETNX", "HDEL", "HINCRBY", "SADD", "SREM", "SPOP",
                       "ZADD", "ZINCRBY", "ZREM", "SET"}
    PROVE  req.key \in Key
  BY KeyOf, Zenon DEF ManyKeys, NoKeys

LEMMA TextIsNoNumber == Text # 0
<1>1. Text \notin Int BY ValuesAssumption, Zenon
<1> QED BY <1>1

LEMMA ListCommandTidy ==
    ASSUME IInv, AllShaped, NEW req \in Request, ListCommand(req)
    PROVE  Result
<1>1. CASE Push(req)
  <2> DEFINE empty == [list |-> <<>>]
             list == Opened(req.key, empty).entries[req.key].list
             pushed == IF req.op = "LPUSH" THEN LPush(list, req.values) ELSE RPush(list, req.values)
  <2>1. req.key \in Key BY <1>1, OneKey DEF Push
  <2>2. Becomes(OnKey(req.key, "list",
            Mark(Changed(Opened(req.key, empty), req.key, [list |-> pushed]), req.key)))
    BY <1>1 DEF Push
  <2>3. req.values \in Seq(Number) \ {<<>>} BY <1>1, Arguments DEF Push
  <2>4. ASSUME entries[req.key] = Absent \/ Finds(req.key, "list")
        PROVE  list \in Seq(Number)
    <3>1. CASE entries[req.key] = Absent
      <4>1. Opened(req.key, empty).entries[req.key] = empty BY <2>1, <3>1, OpenedHas
      <4>2. list = <<>> BY <4>1
      <4>3. <<>> \in Seq(Number) OBVIOUS
      <4> QED BY <4>2, <4>3, Zenon
    <3>2. CASE Finds(req.key, "list")
      <4>1. list = entries[req.key].list BY <2>1, <3>2, OpenedHas DEF Finds
      <4> QED BY <2>1, <3>2, <4>1, FoundShapes
    <3> QED BY <2>4, <3>1, <3>2
  <2> HIDE DEF list
  <2>5. ASSUME entries[req.key] = Absent \/ Finds(req.key, "list")
        PROVE  Tidy(Mark(Changed(Opened(req.key, empty), req.key, [list |-> pushed]), req.key))
    <3>1. pushed \in Seq(Number) \ {<<>>} BY <2>3, <2>4, <2>5, PushedLists
    <3> HIDE DEF pushed
    <3>2. Shaped([list |-> pushed]) BY <3>1, NewShapes
    <3> QED BY <2>1, <3>2, OpenedTidy
  <2> HIDE DEF pushed
  <2> QED BY <2>1, <2>2, <2>5, OnKeyTidy, BecomesTidy
<1>2. ASSUME NEW left, req.key \in Key, Finds(req.key, "list") => left \in Seq(Number),
             Becomes(OnEntry(req.key, "list", Kept(req.key, [list |-> left], [list |-> <<>>])))
      PROVE  Result
  <2>1. ASSUME Finds(req.key, "list"), [list |-> left] # [list |-> <<>>]
        PROVE  Shaped([list |-> left])
    <3>1. left # <<>> BY <2>1
    <3> QED BY <1>2, <2>1, <3>1, NewShapes
  <2>2. Finds(req.key, "list") => Tidy(Kept(req.key, [list |-> left], [list |-> <<>>]))
    BY <1>2, <2>1, KeptTidy
  <2> QED BY <1>2, <2>2, OnEntryTidy, BecomesTidy
<1>4. req.key \in Key /\ Finds(req.key, "list") => entries[req.key].list \in Seq(Number) \ {<<>>}
  BY FoundShapes
<1>5. CASE Pop(req)
  <2> DEFINE list == entries[req.key].list
             left == IF req.op = "LPOP" THEN LPop(list, req.count) ELSE RPop(list, req.count)
  <2>1. /\ req.key \in Key /\ req.count \in Nat
        /\ Becomes(OnEntry(req.key, "list", Kept(req.key, [list |-> left], [list |-> <<>>])))
    BY <1>5, OneKey, Arguments DEF Pop
  <2>2. Finds(req.key, "list") => left \in Seq(Number) BY <1>4, <2>1, PoppedLists
  <2> HIDE DEF left
  <2> QED BY <1>2, <2>1, <2>2
<1>6. CASE LTrimCommand(req)
  <2> DEFINE left == LTrim(entries[req.key].list, req.start, req.stop)
  <2>1. /\ req.key \in Key /\ req.start \in Int /\ req.stop \in Int
        /\ Becomes(OnEntry(req.key, "list", Kept(req.key, [list |-> left], [list |-> <<>>])))
    BY <1>6, OneKey, Arguments DEF LTrimCommand
  <2>2. Finds(req.key, "list") => left \in Seq(Number) BY <1>4, <2>1, TrimmedList
  <2> HIDE DEF left
  <2> QED BY <1>2, <2>1, <2>2
<1>7. CASE LRemCommand(req)
  <2> DEFINE left == LRem(entries[req.key].list, req.count, req.value)
  <2>1. /\ req.key \in Key
        /\ Becomes(OnEntry(req.key, "list", Kept(req.key, [list |-> left], [list |-> <<>>])))
    BY <1>7, OneKey DEF LRemCommand
  <2>2. Finds(req.key, "list") => left \in Seq(Number) BY <1>4, <2>1, RemovedList
  <2> HIDE DEF left
  <2> QED BY <1>2, <2>1, <2>2
<1>8. ASSUME NEW list \in Seq(Number) \ {<<>>}, req.key \in Key
      PROVE  Tidy(Mark(Changed(Now, req.key, [list |-> list]), req.key))
  <2>1. Shaped([list |-> list]) BY NewShapes
  <2> QED BY <1>8, <2>1, StoredTidy
<1>9. CASE LSetCommand(req)
  <2> DEFINE list == entries[req.key].list
             set == LSet(list, req.index, req.value)
             result == IF entries[req.key] = Absent THEN Raise(Now)
                       ELSE IF ~InRange(list, req.index) THEN Raise(Now)
                       ELSE Mark(Changed(Now, req.key, [list |-> set]), req.key)
  <2>1. /\ req.key \in Key /\ req.index \in Int /\ req.value \in Number
        /\ Becomes(OnKey(req.key, "list", result))
    BY <1>9, OneKey, Arguments DEF LSetCommand
  <2>2. Finds(req.key, "list") /\ InRange(list, req.index) => set \in Seq(Number) \ {<<>>}
    BY <1>4, <2>1, SetList
  <2> HIDE DEF set
  <2>3. entries[req.key] = Absent \/ Finds(req.key, "list") => Tidy(result)
    BY <1>8, <2>1, <2>2, NowTidy
  <2> HIDE DEF result
  <2> QED BY <2>1, <2>3, OnKeyTidy, BecomesTidy
<1>10. CASE LInsertCommand(req)
  <2> DEFINE list == entries[req.key].list
             longer == LInsert(list, req.where, req.pivot, req.value)
             result == IF Occurrences(list, req.pivot) = {} THEN Now
                       ELSE IF req.where \notin {"BEFORE", "AFTER"} THEN Raise(Now)
                       ELSE Mark(Changed(Now, req.key, [list |-> longer]), req.key)
  <2>1. /\ req.key \in Key /\ req.value \in Number
        /\ Becomes(OnEntry(req.key, "list", result))
    BY <1>10, OneKey, Arguments DEF LInsertCommand
  <2>2. Finds(req.key, "list") /\ Occurrences(list, req.pivot) # {} => longer \in Seq(Number) \ {<<>>}
    BY <1>4, <2>1, InsertedList
  <2> HIDE DEF longer
  <2>3. Finds(req.key, "list") => Tidy(result)
    BY <1>8, <2>1, <2>2, NowTidy
  <2> HIDE DEF result
  <2> QED BY <2>1, <2>3, OnEntryTidy, BecomesTidy
<1> QED BY <1>1, <1>5, <1>6, <1>7, <1>9, <1>10 DEF ListCommand

LEMMA FieldsAdded ==
    /\ \A hash, pairs : DOMAIN pairs # {} => WithFields(hash, pairs) # NoFields
    /\ \A hash, field, value : WithField(hash, field, value) # NoFields
<1>1. ASSUME NEW hash, NEW pairs, DOMAIN pairs # {}
      PROVE  WithFields(hash, pairs) # NoFields
  <2>1. DOMAIN WithFields(hash, pairs) = DOMAIN hash \cup DOMAIN pairs BY DEF WithFields
  <2>2. DOMAIN NoFields = {} BY DEF NoFields
  <2> QED BY <1>1, <2>1, <2>2
<1>2. ASSUME NEW hash, NEW field, NEW value
      PROVE  WithField(hash, field, value) # NoFields
  <2>1. DOMAIN [f \in {field} |-> value] # {} OBVIOUS
  <2> QED BY <1>1, <2>1 DEF WithField
<1> QED BY <1>1, <1>2

LEMMA HashCommandTidy ==
    ASSUME IInv, AllShaped, NEW req \in Request, HashCommand(req)
    PROVE  Result
<1> DEFINE empty == [hash |-> NoFields]
           opened == Opened(req.key, empty)
           hash == opened.entries[req.key].hash
<1>2. ASSUME req.key \in Key, NEW new, new # NoFields
      PROVE  Tidy(Mark(Changed(opened, req.key, [hash |-> new]), req.key))
  <2>1. Shaped([hash |-> new]) BY <1>2, NewShapes
  <2> QED BY <1>2, <2>1, OpenedTidy
<1>3. ASSUME req.key \in Key, entries[req.key] = Absent
      PROVE  DOMAIN hash = {}
  <2>1. hash = NoFields BY <1>3, OpenedHas
  <2> QED BY <2>1 DEF NoFields
<1>4. ASSUME req.key \in Key, DOMAIN hash # {}
      PROVE  Tidy(opened) /\ Tidy(Raise(opened))
  BY <1>3, <1>4, NowTidy DEF Opened
<1>5. CASE HSet(req)
  <2> DEFINE new == WithFields(hash, req.pairs)
  <2>1. /\ req.key \in Key /\ DOMAIN req.pairs # {}
        /\ Becomes(OnKey(req.key, "hash", Mark(Changed(opened, req.key, [hash |-> new]), req.key)))
    BY <1>5, OneKey, Arguments DEF HSet
  <2>2. new # NoFields BY <2>1, FieldsAdded
  <2> HIDE DEF new, opened
  <2> QED BY <1>2, <2>1, <2>2, OnKeyTidy, BecomesTidy
<1>6. CASE HSetNx(req)
  <2> DEFINE new == WithField(hash, req.field, req.value)
             result == IF req.field \in DOMAIN hash THEN opened
                       ELSE Mark(Changed(opened, req.key, [hash |-> new]), req.key)
  <2>1. req.key \in Key /\ Becomes(OnKey(req.key, "hash", result))
    BY <1>6, OneKey DEF HSetNx
  <2>2. new # NoFields BY FieldsAdded
  <2> HIDE DEF new, opened, hash
  <2>3. Tidy(result) BY <1>2, <1>4, <2>1, <2>2
  <2> HIDE DEF result
  <2> QED BY <2>1, <2>3, OnKeyTidy, BecomesTidy
<1>7. CASE HDel(req)
  <2> DEFINE left == Restrict(entries[req.key].hash, DOMAIN entries[req.key].hash \ req.fields)
  <2>1. req.key \in Key /\ Becomes(OnEntry(req.key, "hash", Kept(req.key, [hash |-> left], empty)))
    BY <1>7, OneKey DEF HDel
  <2> HIDE DEF left
  <2>2. ASSUME [hash |-> left] # empty PROVE Shaped([hash |-> left])
    <3>1. left # NoFields BY <2>2
    <3> QED BY <3>1, NewShapes
  <2>3. Tidy(Kept(req.key, [hash |-> left], empty)) BY <2>1, <2>2, KeptTidy
  <2> QED BY <2>1, <2>3, OnEntryTidy, BecomesTidy
<1>8. CASE HIncrBy(req)
  <2> DEFINE old == IF req.field \in DOMAIN hash THEN hash[req.field] ELSE 0
             new == WithField(hash, req.field, old + req.delta)
             result == IF old = Text THEN Raise(opened)
                       ELSE Mark(Changed(opened, req.key, [hash |-> new]), req.key)
  <2>1. /\ req.key \in Key
        /\ Becomes(Raise(Now)) \/ Becomes(OnKey(req.key, "hash", result))
    BY <1>8, OneKey DEF HIncrBy
  <2>2. new # NoFields BY FieldsAdded
  <2>3. old = Text => DOMAIN hash # {}
    <3> HIDE DEF hash
    <3> QED BY TextIsNoNumber
  <2> HIDE DEF new, opened, hash, old
  <2>4. Tidy(result) BY <1>2, <1>4, <2>1, <2>2, <2>3
  <2> HIDE DEF result
  <2> QED BY <2>1, <2>4, NowTidy, OnKeyTidy, BecomesTidy
<1> QED BY <1>5, <1>6, <1>7, <1>8 DEF HashCommand

LEMMA SetsCommandTidy ==
    ASSUME IInv, AllShaped, NEW req \in Request, SetsCommand(req)
    PROVE  Result
<1> DEFINE empty == [set |-> {}]
<1>1. ASSUME req.key \in Key, NEW left, Finds(req.key, "set") => left \subseteq Number
      PROVE  Finds(req.key, "set") => Tidy(Kept(req.key, [set |-> left], empty))
  <2>1. ASSUME Finds(req.key, "set"), [set |-> left] # empty PROVE Shaped([set |-> left])
    <3>1. left # {} BY <2>1
    <3> QED BY <1>1, <2>1, <3>1, NewShapes
  <2> QED BY <1>1, <2>1, KeptTidy
<1>2. CASE SAdd(req)
  <2> DEFINE set == Opened(req.key, empty).entries[req.key].set
             more == set \cup req.members
  <2>1. /\ req.key \in Key /\ req.members \in (SUBSET Number) \ {{}}
        /\ Becomes(OnKey(req.key, "set",
               Mark(Changed(Opened(req.key, empty), req.key, [set |-> more]), req.key)))
    BY <1>2, OneKey, Arguments DEF SAdd
  <2>2. ASSUME entries[req.key] = Absent \/ Finds(req.key, "set")
        PROVE  Tidy(Mark(Changed(Opened(req.key, empty), req.key, [set |-> more]), req.key))
    <3>1. set \subseteq Number
      <4>1. CASE entries[req.key] = Absent
        <5>1. Opened(req.key, empty).entries[req.key] = empty BY <2>1, <4>1, OpenedHas
        <5> QED BY <5>1
      <4>2. CASE Finds(req.key, "set")
        <5>1. set = entries[req.key].set BY <2>1, <4>2, OpenedHas DEF Finds
        <5> QED BY <2>1, <4>2, <5>1, FoundShapes
      <4> QED BY <2>2, <4>1, <4>2
    <3> HIDE DEF set
    <3>2. Shaped([set |-> more]) BY <2>1, <3>1, NewShapes
    <3> HIDE DEF more
    <3> QED BY <2>1, <3>2, OpenedTidy
  <2> HIDE DEF more
  <2> QED BY <2>1, <2>2, OnKeyTidy, BecomesTidy
<1>3. CASE SRem(req)
  <2> DEFINE left == entries[req.key].set \ req.members
  <2>1. /\ req.key \in Key
        /\ Becomes(OnEntry(req.key, "set", Kept(req.key, [set |-> left], empty)))
    BY <1>3, OneKey DEF SRem
  <2>2. Finds(req.key, "set") => left \subseteq Number BY <2>1, FoundShapes
  <2> HIDE DEF left
  <2> QED BY <1>1, <2>1, <2>2, OnEntryTidy, BecomesTidy
<1>4. CASE SPop(req)
  <2>1. req.key \in Key BY <1>4, OneKey DEF SPop
  <2>2. CASE entries[req.key] # Absent /\ IsType(entries[req.key], "set")
    <3>1. PICK left \in SUBSET entries[req.key].set :
              Becomes(OnEntry(req.key, "set", Kept(req.key, [set |-> left], empty)))
      BY <1>4, <2>2 DEF SPop
    <3>2. left \subseteq Number BY <2>1, <2>2, <3>1, FoundShapes DEF Finds
    <3> QED BY <1>1, <2>1, <3>1, <3>2, OnEntryTidy, BecomesTidy
  <2>3. CASE ~(entries[req.key] # Absent /\ IsType(entries[req.key], "set"))
    <3>1. Becomes(OnEntry(req.key, "set", Now)) BY <1>4, <2>3 DEF SPop
    <3> QED BY <2>1, <3>1, NowTidy, OnEntryTidy, BecomesTidy
  <2> QED BY <2>2, <2>3
<1>5. CASE ReadSets(req)
  <2>1. Becomes(Raise(Now)) \/ Becomes(Now) BY <1>5 DEF ReadSets
  <2> QED BY <2>1, NowTidy, BecomesTidy
<1> QED BY <1>2, <1>3, <1>4, <1>5 DEF SetsCommand

LEMMA LevelsAreCounted == Levels \subseteq Nat \ {0}
<1>1. MaxLevel \in Nat BY ValuesAssumption, Zenon
<1> QED BY <1>1 DEF Levels

LEMMA SortedSetCommandTidy ==
    ASSUME IInv, AllShaped, NEW req \in Request, SortedSetCommand(req)
    PROVE  Result
<1> DEFINE empty == [zset |-> EmptySortedSet]
           old == Opened(req.key, empty).entries[req.key].zset
<1>1. ASSUME req.key \in Key, NEW zset, SortedSet(old) => SortedSet(zset),
             Becomes(OnKey(req.key, "zset",
                 Mark(Changed(Opened(req.key, empty), req.key, [zset |-> zset]), req.key)))
      PROVE  Result
  <2>1. ASSUME entries[req.key] = Absent \/ Finds(req.key, "zset")
        PROVE  Tidy(Mark(Changed(Opened(req.key, empty), req.key, [zset |-> zset]), req.key))
    <3>1. SortedSet(old)
      <4>1. CASE entries[req.key] = Absent
        <5>1. Opened(req.key, empty).entries[req.key] = empty BY <1>1, <4>1, OpenedHas
        <5> QED BY <5>1, EmptyHolds
      <4>2. CASE Finds(req.key, "zset")
        <5>1. old = entries[req.key].zset BY <1>1, <4>2, OpenedHas DEF Finds
        <5> QED BY <1>1, <4>2, <5>1, FoundShapes
      <4> QED BY <2>1, <4>1, <4>2
    <3> HIDE DEF old
    <3>2. Shaped([zset |-> zset]) BY <1>1, <3>1, NewShapes
    <3> QED BY <1>1, <3>2, OpenedTidy
  <2> QED BY <1>1, <2>1, OnKeyTidy, BecomesTidy
<1>2. CASE ZAddCommand(req)
  <2>1. req.key \in Key /\ Len(req.pairs) \in Nat
    BY <1>2, OneKey, Arguments DEF ZAddCommand
  <2>2. PICK drawn \in [DOMAIN req.pairs -> Levels] :
            LET pairs == [i \in DOMAIN req.pairs |->
                             [score |-> req.pairs[i][1], member |-> req.pairs[i][2],
                              level |-> drawn[i]]]
            IN  Becomes(OnKey(req.key, "zset",
                    Mark(Changed(Opened(req.key, empty), req.key,
                             [zset |-> ZAdd(old, pairs, req.nx, req.xx)]), req.key)))
    BY <1>2 DEF ZAddCommand
  <2> DEFINE pairs == [i \in DOMAIN req.pairs |->
                          [score |-> req.pairs[i][1], member |-> req.pairs[i][2],
                           level |-> drawn[i]]]
  <2>3. Becomes(OnKey(req.key, "zset",
            Mark(Changed(Opened(req.key, empty), req.key,
                     [zset |-> ZAdd(old, pairs, req.nx, req.xx)]), req.key)))
    BY <2>2
  <2>4. Len(pairs) \in Nat /\ \A i \in 1..Len(pairs) : NewPair(pairs[i])
    <3>1. req.pairs \in Seq(Int \X Nat) BY <1>2, Arguments DEF ZAddCommand
    <3>2. DOMAIN req.pairs = 1..Len(req.pairs) BY <3>1
    <3>3. DOMAIN pairs = 1..Len(req.pairs) BY <3>2
    <3>4. ASSUME NEW i \in 1..Len(req.pairs) PROVE NewPair(pairs[i])
      <4>1. req.pairs[i] \in Int \X Nat BY <3>1, ElementOfSeq
      <4>2. drawn[i] \in Nat \ {0} BY <3>2, LevelsAreCounted
      <4> QED BY <3>2, <4>1, <4>2 DEF NewPair
    <3> HIDE DEF pairs
    <3>5. Len(pairs) = Len(req.pairs) BY <2>1, <3>3
    <3> QED BY <2>1, <3>4, <3>5
  <2> HIDE DEF pairs, old
  <2>5. SortedSet(old) => SortedSet(ZAdd(old, pairs, req.nx, req.xx)) BY <2>4, ZAddHolds
  <2> QED BY <1>1, <2>1, <2>3, <2>5
<1>3. CASE ZIncrByCommand(req)
  <2>1. req.key \in Key /\ req.delta \in Int /\ req.member \in Nat
    BY <1>3, OneKey, Arguments DEF ZIncrByCommand
  <2>2. PICK lvl \in Levels :
            Becomes(OnKey(req.key, "zset",
                Mark(Changed(Opened(req.key, empty), req.key,
                         [zset |-> ZIncrBy(old, req.delta, req.member, lvl)]), req.key)))
    BY <1>3 DEF ZIncrByCommand
  <2> HIDE DEF old
  <2>3. SortedSet(old) => SortedSet(ZIncrBy(old, req.delta, req.member, lvl))
    BY <2>1, LevelsAreCounted, ZIncrByHolds
  <2> QED BY <1>1, <2>1, <2>2, <2>3
<1>4. CASE ZRemCommand(req)
  <2> DEFINE left == ZRem(entries[req.key].zset, req.members)
             result == IF ZCard(left) = 0 THEN Deleted(Now, req.key)
                       ELSE Mark(Changed(Now, req.key, [zset |-> left]), req.key)
  <2>1. /\ req.key \in Key /\ Len(req.members) \in Nat
        /\ Becomes(OnEntry(req.key, "zset", result))
    BY <1>4, OneKey, Arguments DEF ZRemCommand
  <2>2. ASSUME Finds(req.key, "zset") PROVE Tidy(result)
    <3>1. SortedSet(left) BY <2>1, <2>2, FoundShapes, ZRemHolds
    <3> HIDE DEF left
    <3>2. Shaped([zset |-> left]) BY <3>1, NewShapes
    <3> QED BY <2>1, <3>2, StoredTidy
  <2> HIDE DEF result
  <2> QED BY <2>1, <2>2, OnEntryTidy, BecomesTidy
<1> QED BY <1>2, <1>3, <1>4 DEF SortedSetCommand

LEMMA KeyCommandTidy ==
    ASSUME IInv, AllShaped, NEW req \in Request, KeyCommand(req)
    PROVE  Result
<1>0. Shaped(Absent) BY DEF Shaped
<1>1. CASE SetString(req)
  <2>1. req.key \in Key /\ req.value \in Number BY <1>1, OneKey, Arguments DEF SetString
  <2>2. Becomes(Raise(Now)) \/ Becomes(Stored(Now, req.key, [string |-> req.value]))
    BY <1>1 DEF SetString
  <2>3. Shaped([string |-> req.value]) BY <2>1, NewShapes
  <2> QED BY <2>1, <2>2, <2>3, NowTidy, StoredTidy, BecomesTidy
<1>2. CASE Del(req)
  <2> DEFINE gone == ToSet(req.keys)
             rest == [entries |-> [k \in Key |-> IF k \in gone THEN Absent ELSE entries[k]],
                      marked  |-> {k \in gone : entries[k] # Absent},
                      raised  |-> FALSE]
  <2>1. Becomes(Raise(Now)) \/ Becomes(rest) BY <1>2 DEF Del
  <2>2. gone \subseteq Key
    <3>1. req.keys \in Seq(Key) BY <1>2, ValuesAssumption, Zenon DEF Del, ManyKeys
    <3> QED BY <3>1 DEF ToSet
  <2> HIDE DEF gone
  <2>3. \A k \in Key : Shaped(IF k \in gone THEN Absent ELSE entries[k])
    BY <1>0 DEF AllShaped
  <2>4. Tidy(rest) BY <2>2, <2>3 DEF Tidy
  <2> HIDE DEF rest
  <2> QED BY <2>1, <2>4, NowTidy, BecomesTidy
<1>3. CASE Rename(req)
  <2> DEFINE src == req.keys[1]
             dst == req.keys[2]
             moved == [[entries EXCEPT ![dst] = entries[src]] EXCEPT ![src] = Absent]
             st == [entries |-> moved, marked |-> {src, dst}, raised |-> FALSE]
  <2>1. src \in Key /\ dst \in Key
    <3>1. req.op \in {"RENAME", "RENAMENX"} BY <1>3 DEF Rename
    <3>2. req.keys \in Seq(Key) /\ Len(req.keys) = 2
      BY <3>1, ValuesAssumption, Zenon DEF ManyKeys
    <3> QED BY <3>2
  <2>2. Becomes(Now) \/ Becomes(Raise(Now)) \/ Becomes(st) BY <1>3 DEF Rename
  <2> HIDE DEF src, dst
  <2>3. \A k \in Key : Shaped(moved[k])
    <3>1. entries = [k \in Key |-> entries[k]] BY DEF IInv, EntriesOK
    <3> QED BY <1>0, <2>1, <3>1 DEF AllShaped
  <2> HIDE DEF moved
  <2>4. Tidy(st) BY <2>1, <2>3 DEF Tidy
  <2> HIDE DEF st
  <2> QED BY <2>2, <2>4, NowTidy, BecomesTidy
<1> QED BY <1>1, <1>2, <1>3 DEF KeyCommand

LEMMA ReadCommandTidy ==
    ASSUME IInv, AllShaped, NEW req \in Request, ReadCommand(req)
    PROVE  Result
<1>1. ASSUME NEW op \in {"LRANGE", "HGET", "HGETALL", "SMEMBERS", "ZRANGE"}, NEW type,
             Reads(req, op, type)
      PROVE  Result
  <2>1. req.key \in Key BY <1>1, KeyOf, Zenon DEF Reads, ManyKeys, NoKeys
  <2> QED BY <1>1, <2>1, NowTidy, OnKeyTidy, BecomesTidy DEF Reads
<1> QED BY <1>1 DEF ReadCommand, ReadList, ReadFields, ReadHash, ReadSet, ReadSortedSet
-----------------------------------------------------------------------------
(***************************************************************************)
(* The invariant of shapes, and what follows from it.                      *)
(***************************************************************************)
LEMMA ClusterStaysTyped ==
    ASSUME IInv, ClusterTyped, NEW req \in Request, ClusterMeet(req) \/ ClusterAddSlots(req)
    PROVE  ClusterTyped'
<1>1. CASE ClusterMeet(req)
  <2>1. req.node \in Peer BY <1>1, ValuesAssumption, Zenon DEF ClusterMeet
  <2> DEFINE nodes == [n \in DOMAIN cluster.nodes \cup {req.node} |->
                          IF n = req.node THEN {} ELSE cluster.nodes[n]]
  <2>2. cluster' = [enabled |-> cluster.enabled, nodes |-> nodes, owner |-> cluster.owner]
    BY <1>1 DEF IInv, ClusterOK, AddNode, ClusterMeet, ClusterCommand
  <2>3. /\ DOMAIN nodes \subseteq Peer \cup {Myself}
        /\ \A id \in DOMAIN nodes : nodes[id] \subseteq Slot
    BY <2>1 DEF ClusterTyped
  <2> HIDE DEF nodes
  <2> QED BY <2>2, <2>3 DEF ClusterTyped
<1>2. CASE ClusterAddSlots(req)
  <2> DEFINE taken == req.slots \cap Slot
             nodes == [n \in DOMAIN cluster.nodes |->
                          IF n = Myself THEN cluster.nodes[n] \cup taken ELSE cluster.nodes[n] \ taken]
  <2>1. cluster'.enabled = cluster.enabled /\ cluster'.nodes = nodes
    BY <1>2 DEF IInv, ClusterOK, AssignSlots, ClusterAddSlots, ClusterCommand
  <2>2. /\ DOMAIN nodes \subseteq Peer \cup {Myself}
        /\ \A id \in DOMAIN nodes : nodes[id] \subseteq Slot
    BY DEF ClusterTyped
  <2> HIDE DEF nodes
  <2> QED BY <2>1, <2>2 DEF ClusterTyped
<1> QED BY <1>1, <1>2

LEMMA InitShapes == Init => ShapeInv
<1> SUFFICES ASSUME Init PROVE ShapeInv
  OBVIOUS
<1>1. PICK enabled \in BOOLEAN : cluster = NewCluster(enabled) BY DEF Init
<1>2. ClusterTyped BY <1>1 DEF ClusterTyped, NewCluster
<1>3. AllShaped BY DEF Init, AllShaped, Shaped, Small
<1> QED BY <1>2, <1>3, InitSound DEF Init, ShapeInv, Flags

LEMMA StepShapes == ShapeInv /\ [Next]_vars => ShapeInv'
<1> SUFFICES ASSUME ShapeInv, [Next]_vars PROVE ShapeInv'
  OBVIOUS
<1> USE DEF ShapeInv
<1>1. IInv' BY StepSound
<1>2. CASE UNCHANGED vars
  BY <1>1, <1>2 DEF vars, AllShaped, ClusterTyped, Flags
<1>3. CASE Next
  <2>1. PICK req \in Request :
            /\ \/ ListCommand(req) \/ HashCommand(req) \/ SetsCommand(req)
               \/ SortedSetCommand(req) \/ KeyCommand(req) \/ ReadCommand(req)
               \/ ClusterMeet(req) \/ ClusterAddSlots(req)
            /\ \A k \in Key : Small(entries'[k])
    BY <1>3 DEF Next
  <2>2. CASE ClusterMeet(req) \/ ClusterAddSlots(req)
    <3>1. UNCHANGED entries /\ Flags'
      BY <2>2 DEF ClusterMeet, ClusterAddSlots, ClusterCommand, Flags
    <3> QED BY <1>1, <2>2, <3>1, ClusterStaysTyped DEF AllShaped
  <2>3. ASSUME ~(ClusterMeet(req) \/ ClusterAddSlots(req))
        PROVE  Result /\ UNCHANGED cluster
    <3>1. Result
      BY <2>1, <2>3, ListCommandTidy, HashCommandTidy, SetsCommandTidy,
         SortedSetCommandTidy, KeyCommandTidy, ReadCommandTidy
    <3>2. Promise
      BY <2>1, <2>3, ListCommandSound, HashCommandSound, SetsCommandSound,
         SortedSetCommandSound, KeyCommandSound, ReadCommandSound
    <3> QED BY <3>1, <3>2 DEF Promise
  <2> QED BY <1>1, <2>1, <2>2, <2>3 DEF Result, AllShaped, ClusterTyped
<1> QED BY <1>2, <1>3

LEMMA ShapeInvariant == Spec => []ShapeInv
  BY InitShapes, StepShapes, PTL DEF Spec

(***************************************************************************)
(* Type correctness: whatever commands run, a key has no entry or one of   *)
(* the five types with values of that type (storage/datatypes/), and the   *)
(* tables of the cluster manager (cluster/node.py) speak of slots and nodes*)
(* that exist.                                                             *)
(***************************************************************************)
THEOREM ValuesTypes == Spec => []TypeOK
<1>1. ASSUME ShapeInv PROVE TypeOK
  <2>1. ASSUME NEW k \in Key PROVE EntryOK(entries[k])
    <3>1. Shaped(entries[k]) /\ Small(entries[k]) BY <1>1 DEF ShapeInv, AllShaped
    <3>2. ASSUME entries[k] # Absent, DOMAIN entries[k] = {"hash"}
          PROVE  \A f \in DOMAIN entries[k].hash : entries[k].hash[f] \in Number
      BY <3>1, <3>2 DEF Small, IsType, Number
    <3> QED BY <3>1, <3>2 DEF Shaped, EntryOK, IsType, SortedSet
  <2>2. DOMAIN entries = Key BY <1>1 DEF ShapeInv, IInv, EntriesOK
  <2> QED BY <1>1, <2>1, <2>2 DEF TypeOK, ShapeInv, IInv, ClusterOK, ClusterTyped, Flags
<1> QED BY <1>1, ShapeInvariant, PTL

(***************************************************************************)
(* Pops, trims and removals (commands/lists.py, hashes.py, sets.py) leave  *)
(* no empty list, hash or set behind, and the commands that create one for *)
(* a missing key always put something into it.                             *)
(***************************************************************************)
THEOREM EmptyIsAbsent == Spec => []OnlyEmptySortedSets
<1>1. ASSUME ShapeInv PROVE OnlyEmptySortedSets
  <2>1. \A k \in Key : Shaped(entries[k]) BY <1>1 DEF ShapeInv, AllShaped
  <2> QED BY <2>1 DEF OnlyEmptySortedSets, Shaped, IsType
<1> QED BY <1>1, ShapeInvariant, PTL

(***************************************************************************)
(* However ZADD, ZINCRBY and ZREM were mixed, with whatever levels the     *)
(* nodes drew, the skip list of a sorted set has the pairs of its          *)
(* dictionary in order on every level, each span counts what its link      *)
(* jumps over, and the back links and the tail lead the same way back      *)
(* (SkipList.insert and delete_node, sorted_set_store.py).                 *)
(***************************************************************************)
THEOREM SkipListsAreSound == Spec => []SkipListSound
<1>1. ASSUME ShapeInv PROVE SkipListSound
  <2>1. \A k \in Key : Shaped(entries[k]) BY <1>1 DEF ShapeInv, AllShaped
  <2>2. ASSUME NEW k \in Key, entries[k] # Absent, IsType(entries[k], "zset")
        PROVE  HoldsPairs(entries[k].zset.sl, Pairs(entries[k].zset.dict))
    BY <2>1, <2>2 DEF Shaped, IsType, SortedSet
  <2> QED BY <2>2 DEF SkipListSound
<1> QED BY <1>1, ShapeInvariant, PTL
-----------------------------------------------------------------------------
(***************************************************************************)
(* The loops of SINTER, SDIFF and SUNION over three keys.                  *)
(***************************************************************************)
Gathered(there, keys, n) ==
    there = [i \in 0..n |->
                IF i = 0 THEN <<>>
                ELSE IF entries[keys[i]] = Absent THEN there[i - 1]
                ELSE Append(there[i - 1], entries[keys[i]].set)]

\* What is gathered when a key is met.
Holding(seq, k) == IF entries[k] = Absent THEN seq ELSE Append(seq, entries[k].set)

LEMMA SetsOfThree ==
    ASSUME NEW keys, Len(keys) = 3
    PROVE  SetsOf(keys) = Holding(Holding(Holding(<<>>, keys[1]), keys[2]), keys[3])
<1>1. PICK a, b, c : a = Holding(<<>>, keys[1]) /\ b = Holding(a, keys[2]) /\ c = Holding(b, keys[3])
  OBVIOUS
<1>2. \E there : Gathered(there, keys, 3)
  <2> DEFINE there == [i \in 0..3 |-> IF i = 0 THEN <<>> ELSE IF i = 1 THEN a
                                      ELSE IF i = 2 THEN b ELSE c]
  <2>1. ASSUME NEW i \in 0..3
        PROVE  there[i] = IF i = 0 THEN <<>>
                          ELSE IF entries[keys[i]] = Absent THEN there[i - 1]
                          ELSE Append(there[i - 1], entries[keys[i]].set)
    <3>1. there[0] = <<>> /\ there[1] = a /\ there[2] = b /\ there[3] = c OBVIOUS
    <3> HIDE DEF there
    <3>2. CASE i = 0 BY <3>1, <3>2
    <3>3. CASE i = 1
      <4>1. i # 0 /\ i - 1 = 0 BY <3>3
      <4> QED BY <1>1, <3>1, <3>3, <4>1 DEF Holding
    <3>4. CASE i = 2
      <4>1. i # 0 /\ i - 1 = 1 BY <3>4
      <4> QED BY <1>1, <3>1, <3>4, <4>1 DEF Holding
    <3>5. CASE i = 3
      <4>1. i # 0 /\ i - 1 = 2 BY <3>5
      <4> QED BY <1>1, <3>1, <3>5, <4>1 DEF Holding
    <3> QED BY <3>2, <3>3, <3>4, <3>5
  <2>2. Gathered(there, keys, 3) BY <2>1, Zenon DEF Gathered
  <2> QED BY <2>2
<1> DEFINE there == CHOOSE t : Gathered(t, keys, Len(keys))
<1>3. SetsOf(keys) = there[Len(keys)] BY Zenon DEF SetsOf, Gathered
<1>4. Gathered(there, keys, 3)
  <2>1. Gathered(there, keys, Len(keys)) BY <1>2, Zenon
  <2> QED BY <2>1
<1> HIDE DEF there
<1>5. \A i \in 0..3 : there[i] = IF i = 0 THEN <<>>
                                 ELSE IF entries[keys[i]] = Absent THEN there[i - 1]
                                 ELSE Append(there[i - 1], entries[keys[i]].set)
  BY <1>4, Zenon DEF Gathered
<1>6. there[0] = <<>> BY <1>5
<1>7. there[1] = a
  <2>1. 1 \in 0..3 /\ 1 # 0 /\ 1 - 1 = 0 OBVIOUS
  <2> QED BY <1>1, <1>5, <1>6, <2>1 DEF Holding
<1>8. there[2] = b
  <2>1. 2 \in 0..3 /\ 2 # 0 /\ 2 - 1 = 1 OBVIOUS
  <2> QED BY <1>1, <1>5, <1>7, <2>1 DEF Holding
<1>9. there[3] = c
  <2>1. 3 \in 0..3 /\ 3 # 0 /\ 3 - 1 = 2 OBVIOUS
  <2> QED BY <1>1, <1>5, <1>8, <2>1 DEF Holding
<1> QED BY <1>1, <1>3, <1>9

Intersecting(res, sets, n) ==
    res = [i \in 1..n |-> IF i = 1 THEN sets[1] ELSE res[i - 1] \cap sets[i]]

Subtracting(res, sets, n) ==
    res = [i \in 1..n |-> IF i = 1 THEN sets[1] ELSE res[i - 1] \ sets[i]]

LEMMA IntersectThree ==
    ASSUME NEW sets, Len(sets) = 3, NEW res, res = CHOOSE r : Intersecting(r, sets, Len(sets))
    PROVE  res[Len(sets)] = (sets[1] \cap sets[2]) \cap sets[3]
<1>1. PICK a, b, c : a = sets[1] /\ b = a \cap sets[2] /\ c = b \cap sets[3] OBVIOUS
<1>2. \E r : Intersecting(r, sets, 3)
  <2> DEFINE r == [i \in 1..3 |-> IF i = 1 THEN a ELSE IF i = 2 THEN b ELSE c]
  <2>1. ASSUME NEW i \in 1..3
        PROVE  r[i] = IF i = 1 THEN sets[1] ELSE r[i - 1] \cap sets[i]
    <3>1. CASE i = 1
      <4>1. r[i] = a BY <3>1
      <4> QED BY <1>1, <3>1, <4>1
    <3>2. CASE i = 2
      <4>1. 1 \in 1..3 /\ i # 1 /\ i - 1 = 1 BY <3>2
      <4>2. r[1] = a /\ r[i] = b BY <3>2, <4>1
      <4> HIDE DEF r
      <4> QED BY <1>1, <3>2, <4>1, <4>2
    <3>3. CASE i = 3
      <4>1. 2 \in 1..3 /\ i # 1 /\ i - 1 = 2 BY <3>3
      <4>2. r[2] = b /\ r[i] = c BY <3>3, <4>1
      <4> HIDE DEF r
      <4> QED BY <1>1, <3>3, <4>1, <4>2
    <3> QED BY <3>1, <3>2, <3>3
  <2>2. Intersecting(r, sets, 3) BY <2>1, Zenon DEF Intersecting
  <2> QED BY <2>2
<1>3. Intersecting(res, sets, 3)
  <2>1. Intersecting(res, sets, Len(sets)) BY <1>2, Zenon
  <2> QED BY <2>1
<1>4. \A i \in 1..3 : res[i] = IF i = 1 THEN sets[1] ELSE res[i - 1] \cap sets[i]
  BY <1>3, Zenon DEF Intersecting
<1>5. res[1] = a BY <1>1, <1>4
<1>6. res[2] = b
  <2>1. 2 \in 1..3 /\ 2 # 1 /\ 2 - 1 = 1 OBVIOUS
  <2> QED BY <1>1, <1>4, <1>5, <2>1
<1>7. res[3] = c
  <2>1. 3 \in 1..3 /\ 3 # 1 /\ 3 - 1 = 2 OBVIOUS
  <2> QED BY <1>1, <1>4, <1>6, <2>1
<1> QED BY <1>1, <1>7

LEMMA SubtractThree ==
    ASSUME NEW sets, NEW n \in 1..3, n = Len(sets),
           NEW res, res = CHOOSE r : Subtracting(r, sets, Len(sets))
    PROVE  /\ n = 1 => res[n] = sets[1]
           /\ n = 2 => res[n] = sets[1] \ sets[2]
           /\ n = 3 => res[n] = (sets[1] \ sets[2]) \ sets[3]
<1>1. PICK a, b, c : a = sets[1] /\ b = a \ sets[2] /\ c = b \ sets[3] OBVIOUS
<1>2. \E r : Subtracting(r, sets, n)
  <2> DEFINE r == [i \in 1..n |-> IF i = 1 THEN a ELSE IF i = 2 THEN b ELSE c]
  <2>1. ASSUME NEW i \in 1..n
        PROVE  r[i] = IF i = 1 THEN sets[1] ELSE r[i - 1] \ sets[i]
    <3>1. CASE i = 1
      <4>1. r[i] = a BY <3>1
      <4> QED BY <1>1, <3>1, <4>1
    <3>2. CASE i = 2
      <4>1. 1 \in 1..n /\ i # 1 /\ i - 1 = 1 BY <3>2
      <4>2. r[1] = a /\ r[i] = b BY <3>2, <4>1
      <4> HIDE DEF r
      <4> QED BY <1>1, <3>2, <4>1, <4>2
    <3>3. CASE i = 3
      <4>1. 2 \in 1..n /\ i # 1 /\ i - 1 = 2 BY <3>3
      <4>2. r[2] = b /\ r[i] = c BY <3>3, <4>1
      <4> HIDE DEF r
      <4> QED BY <1>1, <3>3, <4>1, <4>2
    <3> QED BY <3>1, <3>2, <3>3
  <2>2. r = [i \in 1..n |-> r[i]] OBVIOUS
  <2> HIDE DEF r
  <2>3. [i \in 1..n |-> r[i]] =
        [i \in 1..n |-> IF i = 1 THEN sets[1] ELSE r[i - 1] \ sets[i]]
    BY <2>1, Zenon
  <2>4. Subtracting(r, sets, n) BY <2>2, <2>3, Zenon DEF Subtracting
  <2> QED BY <2>4
<1>3. Subtracting(res, sets, n)
  <2>1. Subtracting(res, sets, Len(sets)) BY <1>2, Zenon
  <2> QED BY <2>1
<1>4. \A i \in 1..n : res[i] = IF i = 1 THEN sets[1] ELSE res[i - 1] \ sets[i]
  BY <1>3, Zenon DEF Subtracting
<1>5. res[1] = a
  <2>1. 1 \in 1..n OBVIOUS
  <2> QED BY <1>1, <1>4, <2>1
<1>6. n >= 2 => res[2] = b
  <2>1. n >= 2 => 2 \in 1..n /\ 2 # 1 /\ 2 - 1 = 1 OBVIOUS
  <2> QED BY <1>1, <1>4, <1>5, <2>1
<1>7. n = 3 => res[3] = c
  <2>1. n = 3 => 3 \in 1..n /\ 3 # 1 /\ 3 - 1 = 2 OBVIOUS
  <2> QED BY <1>1, <1>4, <1>6, <2>1
<1> QED BY <1>1, <1>5, <1>6, <1>7

\* The sets found at a sequence of keys.
Found(k) == IF entries[k] = Absent THEN {} ELSE entries[k].set

LEMMA UnionOfThree ==
    ASSUME NEW A, NEW B, NEW C
    PROVE  /\ UNION ToSet(<<>>) = {}
           /\ UNION ToSet(<<A>>) = A
           /\ UNION ToSet(<<A, B>>) = A \cup B
           /\ UNION ToSet(<<A, B, C>>) = A \cup B \cup C
<1>1. ToSet(<<>>) = {} BY DEF ToSet
<1>2. ToSet(<<A>>) = {A} BY DEF ToSet
<1>3. ToSet(<<A, B>>) = {A, B} BY DEF ToSet
<1>4. ToSet(<<A, B, C>>) = {A, B, C} BY DEF ToSet
<1> HIDE DEF ToSet
<1> QED BY <1>1, <1>2, <1>3, <1>4

\* What sequences of up to three elements become.
LEMMA Appended ==
    ASSUME NEW A, NEW B, NEW C
    PROVE  /\ Append(<<>>, A) = <<A>>
           /\ Append(<<A>>, B) = <<A, B>>
           /\ Append(<<A, B>>, C) = <<A, B, C>>
<1>1. Append(<<>>, A) = <<A>> OBVIOUS
<1>2. Append(<<A>>, B) = <<A, B>>
  <2>1. PICK s, t, u : s = <<A>> /\ t = <<A, B>> /\ u = Append(s, B) OBVIOUS
  <2>2. s \in Seq({A, B}) /\ Len(s) = 1 /\ s[1] = A BY <2>1
  <2>3. t \in Seq({A, B}) /\ Len(t) = 2 /\ t[1] = A /\ t[2] = B BY <2>1
  <2>4. u \in Seq({A, B}) /\ Len(u) = 2 /\ u[1] = A /\ u[2] = B
    BY <2>1, <2>2
  <2>5. \A i \in 1..2 : u[i] = t[i]
    <3>1. \A i \in 1..2 : i = 1 \/ i = 2 OBVIOUS
    <3> QED BY <2>3, <2>4, <3>1
  <2>6. u = t BY <2>3, <2>4, <2>5, SeqEqual
  <2> QED BY <2>1, <2>6
<1>3. Append(<<A, B>>, C) = <<A, B, C>>
  <2>1. PICK s, t, u : s = <<A, B>> /\ t = <<A, B, C>> /\ u = Append(s, C) OBVIOUS
  <2>2. s \in Seq({A, B, C}) /\ Len(s) = 2 /\ s[1] = A /\ s[2] = B BY <2>1
  <2>3. t \in Seq({A, B, C}) /\ Len(t) = 3 /\ t[1] = A /\ t[2] = B /\ t[3] = C BY <2>1
  <2>4. u \in Seq({A, B, C}) /\ Len(u) = 3 /\ u[1] = A /\ u[2] = B /\ u[3] = C
    BY <2>1, <2>2
  <2>5. \A i \in 1..3 : u[i] = t[i]
    <3>1. \A i \in 1..3 : i = 1 \/ i = 2 \/ i = 3 OBVIOUS
    <3> QED BY <2>3, <2>4, <3>1
  <2>6. u = t BY <2>3, <2>4, <2>5, SeqEqual
  <2> QED BY <2>1, <2>6
<1> QED BY <1>1, <1>2, <1>3

LEMMA SetReads ==
    ASSUME NEW keys, Len(keys) = 3
    PROVE  /\ SInter(keys) = Found(keys[1]) \cap Found(keys[2]) \cap Found(keys[3])
           /\ SDiff(keys) = Found(keys[1]) \ (Found(keys[2]) \cup Found(keys[3]))
           /\ SUnion(keys) = Found(keys[1]) \cup Found(keys[2]) \cup Found(keys[3])
<1> DEFINE sets == SetsOf(keys)
           met == CHOOSE r : Intersecting(r, sets, Len(sets))
           rest == CHOOSE r : Subtracting(r, sets, Len(sets))
<1>1. sets = Holding(Holding(Holding(<<>>, keys[1]), keys[2]), keys[3]) BY SetsOfThree
<1>2. met = CHOOSE r : Intersecting(r, sets, Len(sets)) OBVIOUS
<1>3. rest = CHOOSE r : Subtracting(r, sets, Len(sets)) OBVIOUS
<1>4. SInter(keys) = IF Len(sets) < Len(keys) THEN {} ELSE met[Len(sets)]
  BY Zenon DEF SInter, Intersecting
<1>5. SDiff(keys) = IF entries[keys[1]] = Absent THEN {} ELSE rest[Len(sets)]
  BY Zenon DEF SDiff, Subtracting
<1>6. SUnion(keys) = UNION ToSet(sets) BY DEF SUnion
<1> HIDE DEF sets, met, rest
<1>7. PICK A, B, C : A = Found(keys[1]) /\ B = Found(keys[2]) /\ C = Found(keys[3]) OBVIOUS
<1> DEFINE a == entries[keys[1]] # Absent
           b == entries[keys[2]] # Absent
           c == entries[keys[3]] # Absent
<1>8. /\ a => entries[keys[1]].set = A
      /\ b => entries[keys[2]].set = B
      /\ c => entries[keys[3]].set = C
      /\ ~a => A = {}
      /\ ~b => B = {}
      /\ ~c => C = {}
  BY <1>7 DEF Found
<1>9. /\ Append(<<>>, A) = <<A>> /\ Append(<<>>, B) = <<B>> /\ Append(<<>>, C) = <<C>>
      /\ Append(<<A>>, B) = <<A, B>> /\ Append(<<A>>, C) = <<A, C>>
      /\ Append(<<B>>, C) = <<B, C>> /\ Append(<<A, B>>, C) = <<A, B, C>>
  <2>1. ASSUME NEW X, NEW Y, NEW Z
        PROVE  /\ Append(<<>>, X) = <<X>>
               /\ Append(<<X>>, Y) = <<X, Y>>
               /\ Append(<<X, Y>>, Z) = <<X, Y, Z>>
    BY Appended
  <2> QED BY <2>1, Zenon
<1>10. /\ a /\ b /\ c => sets = <<A, B, C>>
       /\ a /\ b /\ ~c => sets = <<A, B>>
       /\ a /\ ~b /\ c => sets = <<A, C>>
       /\ a /\ ~b /\ ~c => sets = <<A>>
       /\ ~a /\ b /\ c => sets = <<B, C>>
       /\ ~a /\ b /\ ~c => sets = <<B>>
       /\ ~a /\ ~b /\ c => sets = <<C>>
       /\ ~a /\ ~b /\ ~c => sets = <<>>
  <2>1. /\ Holding(<<>>, keys[1]) = IF a THEN <<A>> ELSE <<>>
        /\ Holding(<<A>>, keys[2]) = IF b THEN <<A, B>> ELSE <<A>>
        /\ Holding(<<>>, keys[2]) = IF b THEN <<B>> ELSE <<>>
        /\ Holding(<<>>, keys[3]) = IF c THEN <<C>> ELSE <<>>
        /\ Holding(<<A>>, keys[3]) = IF c THEN <<A, C>> ELSE <<A>>
        /\ Holding(<<B>>, keys[3]) = IF c THEN <<B, C>> ELSE <<B>>
        /\ Holding(<<A, B>>, keys[3]) = IF c THEN <<A, B, C>> ELSE <<A, B>>
    BY <1>8, <1>9, Zenon DEF Holding
  <2> HIDE DEF a, b, c
  <2> QED BY <1>1, <2>1, Zenon
<1> HIDE DEF a, b, c
<1>11. SUnion(keys) = A \cup B \cup C
  <2>1. /\ UNION ToSet(<<>>) = {}
        /\ UNION ToSet(<<A>>) = A
        /\ UNION ToSet(<<B>>) = B
        /\ UNION ToSet(<<C>>) = C
        /\ UNION ToSet(<<A, B>>) = A \cup B
        /\ UNION ToSet(<<A, C>>) = A \cup C
        /\ UNION ToSet(<<B, C>>) = B \cup C
        /\ UNION ToSet(<<A, B, C>>) = A \cup B \cup C
    <3>1. ASSUME NEW X, NEW Y, NEW Z
          PROVE  /\ UNION ToSet(<<>>) = {}
                 /\ UNION ToSet(<<X>>) = X
                 /\ UNION ToSet(<<X, Y>>) = X \cup Y
                 /\ UNION ToSet(<<X, Y, Z>>) = X \cup Y \cup Z
      BY UnionOfThree
    <3>2. UNION ToSet(<<>>) = {} BY <3>1
    <3>3. /\ UNION ToSet(<<A>>) = A /\ UNION ToSet(<<B>>) = B /\ UNION ToSet(<<C>>) = C
          /\ UNION ToSet(<<A, B>>) = A \cup B
          /\ UNION ToSet(<<A, C>>) = A \cup C
          /\ UNION ToSet(<<B, C>>) = B \cup C
      BY <3>1, Zenon
    <3>4. UNION ToSet(<<A, B, C>>) = A \cup B \cup C
      <4>1. ToSet(<<A, B, C>>) = {A, B, C} BY DEF ToSet
      <4> HIDE DEF ToSet
      <4>2. UNION {A, B, C} = A \cup B \cup C OBVIOUS
      <4> QED BY <4>1, <4>2, Zenon
    <3> QED BY <3>2, <3>3, <3>4, Zenon
  <2>2. CASE a /\ b /\ c BY <1>6, <1>10, <2>1, <2>2, Zenon
  <2>3. CASE a /\ b /\ ~c
    <3>1. SUnion(keys) = A \cup B /\ C = {} BY <1>6, <1>8, <1>10, <2>1, <2>3, Zenon
    <3> QED BY <3>1
  <2>4. CASE a /\ ~b /\ c
    <3>1. SUnion(keys) = A \cup C /\ B = {} BY <1>6, <1>8, <1>10, <2>1, <2>4, Zenon
    <3> QED BY <3>1
  <2>5. CASE a /\ ~b /\ ~c
    <3>1. SUnion(keys) = A /\ B = {} /\ C = {} BY <1>6, <1>8, <1>10, <2>1, <2>5, Zenon
    <3> QED BY <3>1
  <2>6. CASE ~a /\ b /\ c
    <3>1. SUnion(keys) = B \cup C /\ A = {} BY <1>6, <1>8, <1>10, <2>1, <2>6, Zenon
    <3> QED BY <3>1
  <2>7. CASE ~a /\ b /\ ~c
    <3>1. SUnion(keys) = B /\ A = {} /\ C = {} BY <1>6, <1>8, <1>10, <2>1, <2>7, Zenon
    <3> QED BY <3>1
  <2>8. CASE ~a /\ ~b /\ c
    <3>1. SUnion(keys) = C /\ A = {} /\ B = {} BY <1>6, <1>8, <1>10, <2>1, <2>8, Zenon
    <3> QED BY <3>1
  <2>9. CASE ~a /\ ~b /\ ~c
    <3>1. SUnion(keys) = {} /\ A = {} /\ B = {} /\ C = {}
      BY <1>6, <1>8, <1>10, <2>1, <2>9, Zenon
    <3> QED BY <3>1
  <2> QED BY <2>2, <2>3, <2>4, <2>5, <2>6, <2>7, <2>8, <2>9, Zenon
<1>12. SInter(keys) = A \cap B \cap C
  <2>1. CASE a /\ b /\ c
    <3>1. Len(sets) = 3 /\ sets[1] = A /\ sets[2] = B /\ sets[3] = C BY <1>10, <2>1
    <3>2. met[Len(sets)] = (A \cap B) \cap C BY <1>2, <3>1, IntersectThree
    <3> QED BY <1>4, <3>1, <3>2
  <2>2. CASE ~(a /\ b /\ c)
    <3>1. Len(sets) < 3
      <4>1. /\ Len(<<A, B>>) < 3 /\ Len(<<A, C>>) < 3 /\ Len(<<B, C>>) < 3 /\ Len(<<A>>) < 3
            /\ Len(<<B>>) < 3 /\ Len(<<C>>) < 3 /\ Len(<<>>) < 3
        OBVIOUS
      <4> QED BY <1>10, <2>2, <4>1, Zenon
    <3>2. A = {} \/ B = {} \/ C = {} BY <1>8, <2>2, Zenon
    <3> QED BY <1>4, <3>1, <3>2
  <2> QED BY <2>1, <2>2
<1>13. SDiff(keys) = A \ (B \cup C)
  <2>1. CASE ~a BY <1>5, <1>8, <2>1 DEF a
  <2>2. CASE a /\ b /\ c
    <3>1. Len(sets) = 3 /\ sets[1] = A /\ sets[2] = B /\ sets[3] = C BY <1>10, <2>2
    <3>2. 3 \in 1..3 OBVIOUS
    <3>3. rest[3] = (sets[1] \ sets[2]) \ sets[3] BY <1>3, <3>1, <3>2, SubtractThree
    <3> QED BY <1>5, <2>2, <3>1, <3>3 DEF a
  <2>3. CASE a /\ b /\ ~c
    <3>1. Len(sets) = 2 /\ sets[1] = A /\ sets[2] = B BY <1>10, <2>3
    <3>2. rest[2] = A \ B BY <1>3, <3>1, SubtractThree
    <3> QED BY <1>5, <1>8, <2>3, <3>1, <3>2 DEF a
  <2>4. CASE a /\ ~b /\ c
    <3>1. Len(sets) = 2 /\ sets[1] = A /\ sets[2] = C BY <1>10, <2>4
    <3>2. rest[2] = A \ C BY <1>3, <3>1, SubtractThree
    <3> QED BY <1>5, <1>8, <2>4, <3>1, <3>2 DEF a
  <2>5. CASE a /\ ~b /\ ~c
    <3>1. Len(sets) = 1 /\ sets[1] = A BY <1>10, <2>5
    <3>2. 1 \in 1..3 OBVIOUS
    <3>3. rest[1] = sets[1] BY <1>3, <3>1, <3>2, SubtractThree
    <3> QED BY <1>5, <1>8, <2>5, <3>1, <3>3 DEF a
  <2> QED BY <2>1, <2>2, <2>3, <2>4, <2>5
<1> QED BY <1>7, <1>11, <1>12, <1>13

LEMMA SetsAgree == SetAlgebra
<1> DEFINE sets == {k \in Key : entries[k] = Absent \/ IsType(entries[k], "set")}
<1>1. ASSUME NEW keys \in [1..3 -> sets]
      PROVE  /\ SInter(keys) = Found(keys[1]) \cap Found(keys[2]) \cap Found(keys[3])
             /\ SDiff(keys) = Found(keys[1]) \ (Found(keys[2]) \cup Found(keys[3]))
             /\ SUnion(keys) = Found(keys[1]) \cup Found(keys[2]) \cup Found(keys[3])
  <2>1. Len(keys) = 3 OBVIOUS
  <2> QED BY <2>1, SetReads
<1> QED BY <1>1, Zenon DEF SetAlgebra, Found
-----------------------------------------------------------------------------
(***************************************************************************)
(* Ranges of lists.                                                        *)
(***************************************************************************)
\* A range of a list takes count elements from first on.
LEMMA LRangeTakes ==
    ASSUME NEW list, NEW Elements, list \in Seq(Elements), NEW n, n = Len(list),
           NEW start \in Int, NEW stop \in Int,
           NEW first, first = FromEnd(start, n), NEW last, last = FromEnd(stop, n),
           NEW count, count = (Min({last, n - 1}) - first) + 1
    PROVE  LRange(list, start, stop) =
               IF Between(first, last, n) THEN [i \in 1..count |-> list[first + i]] ELSE <<>>
<1>1. n \in Nat BY LenProperties
<1>2. first \in Nat /\ last \in Nat BY <1>1, FromEndIs
<1>3. PICK end \in Int : end = Min({last, n - 1})
  <2>1. Min({last, n - 1}) = IF last <= n - 1 THEN last ELSE n - 1 BY <1>1, <1>2, MinOfTwo
  <2> QED BY <1>1, <1>2, <2>1
<1>4. LRange(list, start, stop) =
          IF Between(first, last, n) THEN SubSeq(list, first + 1, end + 1) ELSE <<>>
  BY <1>3 DEF LRange, FromEnd, Between
<1>5. ASSUME Between(first, last, n)
      PROVE  SubSeq(list, first + 1, end + 1) = [i \in 1..count |-> list[first + i]]
  <2>1. first <= end /\ end < n
    <3>1. n - 1 \in Int /\ first < n /\ first <= last BY <1>1, <1>2, <1>5 DEF Between
    <3>2. Min({last, n - 1}) = IF last <= n - 1 THEN last ELSE n - 1
      BY <1>2, <3>1, MinOfTwo
    <3>3. end = IF last <= n - 1 THEN last ELSE n - 1 BY <1>3, <3>2
    <3> QED BY <1>1, <1>2, <3>1, <3>3
  <2>2. PICK a \in Nat, b \in Nat : a = first + 1 /\ b = end + 1 /\ a <= b /\ b <= n /\ 1 <= a
    BY <1>1, <1>2, <2>1
  <2>3. SubSeq(list, a, b) = [i \in 1..(b - a + 1) |-> list[a + i - 1]]
    BY <2>2 DEF SubSeq
  <2>4. b - a + 1 = count BY <1>2, <1>3, <2>2
  <2>5. \A i \in 1..count : a + i - 1 = first + i BY <1>2, <1>3, <2>2
  <2> QED BY <2>2, <2>3, <2>4, <2>5
<1> QED BY <1>4, <1>5

LEMMA ListReads ==
    ASSUME NEW list \in Seq(Number), list # <<>>, NEW n, n = Len(list),
           NEW start \in Int, NEW stop \in Int
    PROVE  /\ LTrim(list, start, stop) = LRange(list, start, stop)
           /\ start >= -n => LIndex(list, start) = LRange(list, start, start)
<1>1. n \in Nat /\ n # 0 BY EmptySeq, LenProperties
<1>2. LTrim(list, start, stop) = LRange(list, start, stop) BY <1>1 DEF LTrim, LRange
<1>3. ASSUME start >= -n PROVE LIndex(list, start) = LRange(list, start, start)
  <2>1. PICK i \in Nat : i = Index(list, start) /\ i = FromEnd(start, n)
    <3>1. n + start \in Nat BY <1>1, <1>3
    <3>2. /\ FromEnd(start, n) \in Nat
          /\ start < 0 => FromEnd(start, n) = IF n + start >= 0 THEN n + start ELSE 0
          /\ start >= 0 => FromEnd(start, n) = start
      BY <1>1, FromEndIs
    <3>3. FromEnd(start, n) = IF start < 0 THEN n + start ELSE start BY <3>1, <3>2
    <3> QED BY <3>2, <3>3 DEF Index
  <2>2. PICK count : count = (Min({i, n - 1}) - i) + 1 OBVIOUS
  <2>3. LRange(list, start, start) =
            IF Between(i, i, n) THEN [j \in 1..count |-> list[i + j]] ELSE <<>>
    BY <2>1, <2>2, LRangeTakes
  <2>4. CASE i < n
    <3>1. LIndex(list, start) = <<list[i + 1]>> BY <1>1, <2>1, <2>4 DEF LIndex, InRange
    <3>2. count = 1
      <4>1. Min({i, n - 1}) = IF i <= n - 1 THEN i ELSE n - 1 BY <1>1, MinOfTwo
      <4> QED BY <1>1, <2>2, <2>4, <4>1
    <3>3. Between(i, i, n) BY <1>1, <2>4 DEF Between
    <3> QED BY <2>3, <3>1, <3>2, <3>3
  <2>5. CASE ~(i < n)
    <3>1. LIndex(list, start) = <<>> BY <2>1, <2>5 DEF LIndex, InRange
    <3>2. ~Between(i, i, n) BY <1>1, <2>5 DEF Between
    <3> QED BY <2>3, <3>1, <3>2
  <2> QED BY <2>4, <2>5
<1> QED BY <1>2, <1>3

LEMMA ListsAgree == AllShaped => ListRangesAgree
<1> SUFFICES ASSUME AllShaped, NEW k \in Key, entries[k] # Absent, IsType(entries[k], "list"),
                    NEW list, list = entries[k].list, NEW n, n = Len(list),
                    NEW start \in (-n - 1)..n, NEW stop \in (-n - 1)..n
             PROVE  /\ LTrim(list, start, stop) = LRange(list, start, stop)
                    /\ start >= -n => LIndex(list, start) = LRange(list, start, start)
  BY Zenon DEF ListRangesAgree
<1>1. list \in Seq(Number) /\ list # <<>> BY FoundShapes DEF Finds
<1>2. n \in Nat BY <1>1, LenProperties
<1>3. start \in Int /\ stop \in Int BY <1>2
<1> QED BY <1>1, <1>3, ListReads
-----------------------------------------------------------------------------
(***************************************************************************)
(* Ranges and ranks of sorted sets.                                        *)
(***************************************************************************)
\* A range that is not empty stays within the elements there are.
LEMMA WithinRange ==
    ASSUME NEW n \in Nat, NEW first \in Nat, NEW last \in Nat, Between(first, last, n),
           NEW count, count = (Min({last, n - 1}) - first) + 1
    PROVE  \A i \in 1..count : first + i \in 1..n
<1>1. n - 1 \in Int /\ first < n /\ first <= last BY DEF Between
<1>2. Min({last, n - 1}) = IF last <= n - 1 THEN last ELSE n - 1 BY <1>1, MinOfTwo
<1>3. PICK end \in Int : end = Min({last, n - 1}) /\ end < n
  <2>1. CASE last <= n - 1 BY <1>1, <1>2, <2>1
  <2>2. CASE ~(last <= n - 1) BY <1>1, <1>2, <2>2
  <2> QED BY <2>1, <2>2
<1>4. count = (end - first) + 1 BY <1>3
<1> QED BY <1>3, <1>4

\* The elements a range takes.
Taken(list, n, start, stop) ==
    LET first == FromEnd(start, n)
        last  == FromEnd(stop, n)
        count == (Min({last, n - 1}) - first) + 1
    IN  IF Between(first, last, n) THEN [i \in 1..count |-> list[first + i]] ELSE <<>>

LEMMA RangeIsTaken ==
    ASSUME NEW list, NEW Elements, list \in Seq(Elements), NEW start \in Int, NEW stop \in Int
    PROVE  LRange(list, start, stop) = Taken(list, Len(list), start, stop)
<1>1. PICK n : n = Len(list) OBVIOUS
<1>2. PICK first, last : first = FromEnd(start, n) /\ last = FromEnd(stop, n) OBVIOUS
<1>3. PICK count : count = (Min({last, n - 1}) - first) + 1 OBVIOUS
<1>4. LRange(list, start, stop) =
          IF Between(first, last, n) THEN [i \in 1..count |-> list[first + i]] ELSE <<>>
  BY <1>1, <1>2, <1>3, LRangeTakes
<1>5. Taken(list, n, start, stop) =
          IF Between(first, last, n) THEN [i \in 1..count |-> list[first + i]] ELSE <<>>
  BY <1>2, <1>3 DEF Taken
<1> QED BY <1>1, <1>4, <1>5

LEMMA SortedReads ==
    ASSUME NEW z, NEW order, NEW n, Ordered(z, order, n),
           NEW up, up = [i \in DOMAIN order |-> order[i][2]],
           NEW down, down = Reverse(up), NEW start \in Int, NEW stop \in Int
    PROVE  /\ Len(up) = n
           /\ ZRange(z, start, stop) = LRange(up, start, stop)
           /\ ZRevRange(z, start, stop) = LRange(down, start, stop)
<1>1. n \in Nat BY DEF Ordered
<1>2. DOMAIN order = 1..n /\ \A i \in 1..n : order[i][2] \in DOMAIN z.dict BY OrderedPairs
<1>3. PICK D : D = DOMAIN z.dict OBVIOUS
<1>4. up \in Seq(D) /\ Len(up) = n /\ \A i \in 1..n : up[i] = order[i][2]
  <2>1. up \in [1..n -> D] BY <1>2, <1>3
  <2>2. up \in Seq(D) BY <1>1, <2>1
  <2>3. Len(up) = n BY <1>1, <2>1
  <2> QED BY <1>2, <2>2, <2>3
<1>5. down = [i \in 1..n |-> up[(n - i) + 1]] BY <1>4 DEF Reverse
<1>6. down \in Seq(D) /\ Len(down) = n
  <2>1. \A i \in 1..n : (n - i) + 1 \in 1..n BY <1>1
  <2>2. \A i \in 1..n : up[i] \in D BY <1>2, <1>3, <1>4
  <2>3. down \in [1..n -> D] BY <1>5, <2>1, <2>2
  <2> QED BY <1>1, <2>3
<1>7. PICK first \in Nat, last \in Nat : first = FromEnd(start, n) /\ last = FromEnd(stop, n)
  BY <1>1, FromEndIs
<1>8. PICK count : count = (Min({last, n - 1}) - first) + 1 OBVIOUS
<1>9. ZRange(z, start, stop) =
          IF Between(first, last, n) THEN [i \in 1..count |-> order[first + i][2]] ELSE <<>>
  BY <1>7, <1>8, RangeUp
<1>10. ZRevRange(z, start, stop) =
           IF Between(first, last, n) THEN [i \in 1..count |-> order[(n - first + 1) - i][2]]
           ELSE <<>>
  BY <1>7, <1>8, RangeDown
<1>11. LRange(up, start, stop) =
           IF Between(first, last, n) THEN [i \in 1..count |-> up[first + i]] ELSE <<>>
  <2>1. LRange(up, start, stop) = Taken(up, Len(up), start, stop) BY <1>4, RangeIsTaken
  <2> QED BY <1>4, <1>7, <1>8, <2>1 DEF Taken
<1>12. LRange(down, start, stop) =
           IF Between(first, last, n) THEN [i \in 1..count |-> down[first + i]] ELSE <<>>
  <2>1. LRange(down, start, stop) = Taken(down, Len(down), start, stop) BY <1>6, RangeIsTaken
  <2> QED BY <1>6, <1>7, <1>8, <2>1 DEF Taken
<1>13. ASSUME Between(first, last, n), NEW i \in 1..count
       PROVE  /\ up[first + i] = order[first + i][2]
              /\ down[first + i] = order[(n - first + 1) - i][2]
  <2>1. PICK j \in 1..n : j = first + i BY <1>1, <1>7, <1>8, <1>13, WithinRange
  <2>2. PICK k \in 1..n : k = (n - j) + 1 BY <1>1, <2>1
  <2>3. k = (n - first + 1) - i
    <3>1. i \in Int BY <1>8
    <3> QED BY <1>1, <1>7, <2>1, <2>2, <3>1
  <2>4. down[j] = up[k] BY <1>5, <2>2
  <2> QED BY <1>4, <2>1, <2>2, <2>3, <2>4
<1>14. ZRange(z, start, stop) = LRange(up, start, stop) BY <1>9, <1>11, <1>13
<1>15. ZRevRange(z, start, stop) = LRange(down, start, stop) BY <1>10, <1>12, <1>13
<1> QED BY <1>4, <1>14, <1>15

LEMMA SortedSetsAgree == AllShaped => SortedRangesAgree
<1> SUFFICES ASSUME AllShaped, NEW k \in Key, entries[k] # Absent, IsType(entries[k], "zset"),
                    NEW z, z = entries[k].zset,
                    NEW order, order = InOrder(Pairs(z.dict)),
                    NEW up, up = [i \in DOMAIN order |-> order[i][2]],
                    NEW down, down = Reverse(up), NEW n, n = Len(up)
             PROVE  /\ \A start, stop \in (-n - 1)..n :
                          /\ ZRange(z, start, stop) = LRange(up, start, stop)
                          /\ ZRevRange(z, start, stop) = LRange(down, start, stop)
                    /\ \A i \in 1..n : up[i] # EmptyMember =>
                          /\ ZRank(z, up[i]) = i - 1
                          /\ ZRevRank(z, up[i]) = n - i
                          /\ ZCount(z, order[1][1], order[i][1]) >= i
  BY Zenon DEF SortedRangesAgree
<1>1. SortedSet(z) BY FoundShapes DEF Finds
<1>2. PICK c \in Nat : c = Cardinality(Pairs(z.dict))
  BY <1>1, PairsAreNodes, FS_CardinalityType DEF SortedSet, PairSet
<1>3. Ordered(z, order, c) BY <1>1, <1>2 DEF Ordered
<1>4. c = n
  <2>1. PICK zero \in Int : zero = 0 OBVIOUS
  <2> QED BY <1>3, <2>1, SortedReads
<1>5. ASSUME NEW start \in (-n - 1)..n, NEW stop \in (-n - 1)..n
      PROVE  /\ ZRange(z, start, stop) = LRange(up, start, stop)
             /\ ZRevRange(z, start, stop) = LRange(down, start, stop)
  <2>1. start \in Int /\ stop \in Int BY <1>2, <1>4
  <2> QED BY <1>3, <2>1, SortedReads
<1>6. ASSUME NEW i \in 1..n, up[i] # EmptyMember
      PROVE  /\ ZRank(z, up[i]) = i - 1
             /\ ZRevRank(z, up[i]) = n - i
             /\ ZCount(z, order[1][1], order[i][1]) >= i
  <2>1. DOMAIN order = 1..n BY <1>3, <1>4, OrderedPairs
  <2>2. up[i] = order[i][2] BY <2>1
  <2>3. Ordered(z, order, n) BY <1>3, <1>4
  <2>4. ZRank(z, order[i][2]) = i - 1 /\ ZRevRank(z, order[i][2]) = n - i
    BY <1>6, <2>2, <2>3, RanksArePlaces
  <2>5. ZCount(z, order[1][1], order[i][1]) >= i BY <2>3, CountsReach
  <2> QED BY <2>2, <2>4, <2>5
<1> QED BY <1>5, <1>6

(***************************************************************************)
(* What the read commands answer agrees, however a value came to be: the   *)
(* ranges, ranks and counts that zrange, zrevrange, zrank, zrevrank and    *)
(* zcount (sorted_set_store.py) find by descending and following the links *)
(* of the skip list are those of the members in order; ltrim, lindex and   *)
(* lrange (list_store.py) bound an index the same way; and SINTER, SDIFF   *)
(* and SUNION of three keys, some of them missing, are what their names    *)
(* say (commands/sets.py, set_store.py).                                   *)
(***************************************************************************)
THEOREM ReadsAreRight == Spec => []ReadsAgree
<1>1. ShapeInv => ReadsAgree
  BY ListsAgree, SortedSetsAgree, SetsAgree DEF ShapeInv, ReadsAgree
<1> QED BY <1>1, ShapeInvariant, PTL
=============================================================================
