--------------------------- MODULE LifeCycleProof ---------------------------
(***************************************************************************)
(* Theorems about LifeCycle: what active expiry relies on and what it does,*)
(* when the snapshot file is whole, the types of the dictionary and of the *)
(* saves, what the thread of BGSAVE collects, and what is on disk, for any *)
(* keys, bounds and numbers of crashes and restarts.                       *)
(***************************************************************************)
EXTENDS LifeCycle, ProofLemmas, SequenceTheorems, FiniteSetTheorems, TLAPS

(***************************************************************************)
(* Active expiry.  The heap is a bag, and every expiry but those that came *)
(* by RENAME is on it.                                                     *)
(***************************************************************************)
RegisteredIn(d, h, r) ==
    /\ DOMAIN d.entry = Key
    /\ IsABag(h)
    /\ \A k \in Key \ r : d.entry[k] # Absent /\ d.entry[k].exp # Never =>
           BagIn(<<d.entry[k].exp, k>>, h)

Registered == RegisteredIn(dict, heap, renamed)

LEMMA RegisterAdds ==
    ASSUME IsABag(heap), NEW k, NEW time, Register(k, time)
    PROVE  /\ IsABag(heap')
           /\ BagToSet(heap') = BagToSet(heap) \cup {<<time, k>>}
<1>1. heap' = heap (+) SetToBag({<<time, k>>}) BY DEF Register
<1> QED BY <1>1 DEF IsABag, BagToSet, SetToBag, (+)

LEMMA LookedEntry ==
    ASSUME Registered, NEW k \in Key
    PROVE  /\ DOMAIN Looked(dict, k).entry = Key
           /\ \A l \in Key : Looked(dict, k).entry[l] \in {dict.entry[l], Absent}
           /\ \A l \in Key : l # k => Looked(dict, k).entry[l] = dict.entry[l]
  BY DEF Removed, Looked, Registered, RegisteredIn

\* Entries that go leave nothing to register.
LEMMA FewerEntries ==
    ASSUME Registered, NEW entry,
           DOMAIN entry = Key, \A k \in Key : entry[k] \in {dict.entry[k], Absent},
           dict'.entry = entry, UNCHANGED heap, renamed \subseteq renamed'
    PROVE  Registered'
  BY DEF Registered, RegisteredIn

(***************************************************************************)
(* A command gives one key another entry, whose expiry is registered, is   *)
(* the one the key had, or is noted as having come by RENAME.              *)
(***************************************************************************)
LEMMA OneEntry ==
    ASSUME Registered, NEW k \in Key, NEW entry,
           DOMAIN dict'.entry = Key, IsABag(heap'), BagToSet(heap) \subseteq BagToSet(heap'),
           dict'.entry[k] = entry,
           \A l \in Key : l # k => dict'.entry[l] \in {dict.entry[l], Absent},
           \A l \in Key : l # k /\ l \in renamed => l \in renamed' \/ dict'.entry[l] = Absent,
           \/ k \in renamed'
           \/ entry = Absent
           \/ entry.exp = Never
           \/ BagIn(<<entry.exp, k>>, heap')
    PROVE  Registered'
  BY DEF Registered, RegisteredIn, BagIn

LEMMA SetRegisters ==
    ASSUME Registered, NEW k \in Key, NEW v, NEW exp, Set(k, v, exp)
    PROVE  Registered'
<1> DEFINE entry == [val |-> v, exp |-> exp]
<1>1. dict' \in Put(Looked(dict, k), k, entry) BY DEF Set
<1>2. /\ DOMAIN dict'.entry = Key /\ dict'.entry[k] = entry
      /\ \A l \in Key : l # k => dict'.entry[l] = dict.entry[l]
  <2> HIDE DEF entry
  <2>1. dict'.entry = [Looked(dict, k).entry EXCEPT ![k] = entry] BY <1>1 DEF Put
  <2> QED BY <2>1, LookedEntry
<1>3. /\ IsABag(heap') /\ BagToSet(heap) \subseteq BagToSet(heap')
      /\ \/ exp = Never
         \/ BagIn(<<exp, k>>, heap')
  BY RegisterAdds DEF Set, Registered, RegisteredIn, BagIn
<1>4. renamed' = renamed \ {k} /\ entry.exp = exp BY DEF Set
<1> HIDE DEF entry
<1> QED BY <1>2, <1>3, <1>4, OneEntry

LEMMA IncrRegisters ==
    ASSUME Registered, NEW k \in Key, NEW v, Incr(k, v)
    PROVE  Registered'
<1> DEFINE exp == IF Live(dict, k) = Absent THEN Never ELSE Live(dict, k).exp
           entry == [val |-> v, exp |-> exp]
<1>1. dict' \in Put(Looked(dict, k), k, entry)
  <2> entry = [val |-> v, exp |-> IF Live(dict, k) = Absent THEN Never ELSE Live(dict, k).exp]
    OBVIOUS
  <2> QED BY DEF Incr
<1>2. /\ DOMAIN dict'.entry = Key /\ dict'.entry[k] = entry
      /\ \A l \in Key : l # k => dict'.entry[l] = dict.entry[l]
  <2> HIDE DEF entry
  <2>1. dict'.entry = [Looked(dict, k).entry EXCEPT ![k] = entry] BY <1>1 DEF Put
  <2> QED BY <2>1, LookedEntry
<1>3. UNCHANGED <<heap, renamed>> BY DEF Incr
<1>4. k \in renamed \/ exp = Never \/ BagIn(<<exp, k>>, heap)
  BY DEF Live, Registered, RegisteredIn
<1>5. entry.exp = exp OBVIOUS
<1>6. IsABag(heap') BY <1>3 DEF Registered, RegisteredIn
<1> HIDE DEF entry, exp
<1> QED BY <1>2, <1>3, <1>4, <1>5, <1>6, OneEntry

LEMMA HSetRegisters ==
    ASSUME Registered, NEW k \in Key, NEW f, NEW c, HSet(k, f, c)
    PROVE  Registered'
<1>0. UNCHANGED <<heap, renamed>> /\ IsABag(heap') BY DEF HSet, Registered, RegisteredIn
<1>1. CASE Live(dict, k) = Absent
  <2>1. PICK entry : entry = [val |-> [Empty EXCEPT ![f] = c], exp |-> Never] OBVIOUS
  <2>2. dict' \in Put(Looked(dict, k), k, entry) /\ entry.exp = Never
    BY <1>1, <2>1 DEF HSet
  <2>3. dict'.entry = [Looked(dict, k).entry EXCEPT ![k] = entry] BY <2>2 DEF Put
  <2> QED BY <1>0, <2>2, <2>3, LookedEntry, OneEntry
<1>2. CASE Live(dict, k) # Absent
  <2>1. PICK entry : entry = [val |-> [Live(dict, k).val EXCEPT ![f] = c], exp |-> dict.entry[k].exp]
    OBVIOUS
  <2>2. dict'.entry = [dict.entry EXCEPT ![k] = entry] BY <1>2, <2>1 DEF HSet, Valued
  <2>3. entry.exp = dict.entry[k].exp /\ dict.entry[k] # Absent BY <1>2, <2>1 DEF Live
  <2> QED BY <1>0, <2>2, <2>3, OneEntry DEF Registered, RegisteredIn
<1> QED BY <1>1, <1>2

LEMMA HDelRegisters ==
    ASSUME Registered, NEW k \in Key, NEW f, HDel(k, f)
    PROVE  Registered'
<1>0. UNCHANGED <<heap, renamed>> /\ IsABag(heap') BY DEF HDel, Registered, RegisteredIn
<1>1. PICK less : less = [Live(dict, k).val EXCEPT ![f] = NoContent] OBVIOUS
<1>2. CASE dict' = Looked(dict, k) \/ dict' = Removed(dict, k)
  <2>1. DOMAIN dict'.entry = Key /\ \A l \in Key : dict'.entry[l] \in {dict.entry[l], Absent}
    BY <1>2, LookedEntry DEF Removed, Registered, RegisteredIn
  <2> QED BY <1>0, <2>1, FewerEntries
<1>3. CASE Live(dict, k) # Absent /\ dict' = Valued(dict, k, less)
  <2>1. PICK entry : entry = [val |-> less, exp |-> dict.entry[k].exp] OBVIOUS
  <2>2. dict'.entry = [dict.entry EXCEPT ![k] = entry] BY <1>3, <2>1 DEF Valued
  <2>3. entry.exp = dict.entry[k].exp /\ dict.entry[k] # Absent BY <1>3, <2>1 DEF Live
  <2> QED BY <1>0, <2>2, <2>3, OneEntry DEF Registered, RegisteredIn
<1> QED BY <1>1, <1>2, <1>3 DEF HDel

LEMMA ExpireAtRegisters ==
    ASSUME Registered, NEW k \in Key, NEW time, ExpireAt(k, time)
    PROVE  Registered'
<1> DEFINE looked == Looked(dict, k)
<1>1. DOMAIN looked.entry = Key /\ \A l \in Key : looked.entry[l] \in {dict.entry[l], Absent}
  BY LookedEntry
<1>2. CASE looked.entry[k] = Absent
  <2>1. dict' = looked /\ UNCHANGED <<heap, renamed>> BY <1>2 DEF ExpireAt
  <2> HIDE DEF looked
  <2> QED BY <1>1, <2>1, FewerEntries
<1>3. CASE looked.entry[k] # Absent
  <2>1. /\ dict' = IF time <= now THEN Removed(looked, k) ELSE Timed(looked, k, time)
        /\ Register(k, time) /\ renamed' = renamed \ {k}
    BY <1>3 DEF ExpireAt
  <2>2. /\ IsABag(heap') /\ BagToSet(heap) \subseteq BagToSet(heap')
        /\ BagIn(<<time, k>>, heap')
    BY <2>1, RegisterAdds DEF Registered, RegisteredIn, BagIn
  <2> HIDE DEF looked
  <2>3. /\ DOMAIN dict'.entry = Key
        /\ \A l \in Key : l # k => dict'.entry[l] \in {dict.entry[l], Absent}
        /\ \/ dict'.entry[k] = Absent
           \/ dict'.entry[k].exp = time
    BY <1>1, <2>1 DEF Removed, Timed
  <2> QED BY <2>1, <2>2, <2>3, OneEntry
<1> QED BY <1>2, <1>3

LEMMA PersistRegisters ==
    ASSUME Registered, NEW k \in Key, Persist(k)
    PROVE  Registered'
<1> DEFINE looked == Looked(dict, k)
<1>1. DOMAIN looked.entry = Key /\ \A l \in Key : looked.entry[l] \in {dict.entry[l], Absent}
  BY LookedEntry
<1>2. /\ dict' = IF looked.entry[k] = Absent THEN looked ELSE Timed(looked, k, Never)
      /\ renamed' = renamed \ {k} /\ UNCHANGED heap
  BY DEF Persist
<1> HIDE DEF looked
<1>3. /\ DOMAIN dict'.entry = Key
      /\ \A l \in Key : l # k => dict'.entry[l] \in {dict.entry[l], Absent}
      /\ \/ dict'.entry[k] = Absent
         \/ dict'.entry[k].exp = Never
  BY <1>1, <1>2 DEF Timed
<1>4. IsABag(heap') BY <1>2 DEF Registered, RegisteredIn
<1> QED BY <1>2, <1>3, <1>4, OneEntry

LEMMA RenameRegisters ==
    ASSUME Registered, NEW k \in Key, NEW l \in Key, Rename(k, l)
    PROVE  Registered'
<1> DEFINE moving == Live(dict, k)
<1>0. UNCHANGED heap /\ IsABag(heap') BY DEF Rename, Registered, RegisteredIn
<1>1. CASE moving = Absent
  <2>1. dict' = Looked(dict, k) /\ UNCHANGED <<heap, renamed>> BY <1>1 DEF Rename
  <2>2. DOMAIN dict'.entry = Key /\ \A j \in Key : dict'.entry[j] \in {dict.entry[j], Absent}
    BY <2>1, LookedEntry
  <2> QED BY <2>1, <2>2, FewerEntries
<1>2. CASE moving # Absent
  <2>1. PICK d \in Put(dict, l, moving) : dict' = Removed(d, k) BY <1>2 DEF Rename
  <2>2. dict'.entry = [[dict.entry EXCEPT ![l] = moving] EXCEPT ![k] = Absent]
    <3> HIDE DEF moving
    <3>1. d.entry = [dict.entry EXCEPT ![l] = moving] BY DEF Put
    <3> QED BY <2>1, <3>1 DEF Removed
  <2>3. renamed' = IF moving.exp = Never THEN renamed \ {k, l} ELSE (renamed \cup {l}) \ {k}
    BY <1>2 DEF Rename
  <2>4. DOMAIN dict'.entry = Key /\ dict'.entry[k] = Absent
        /\ dict'.entry[l] \in {moving, Absent}
        /\ \A j \in Key : j # l => dict'.entry[j] \in {dict.entry[j], Absent}
    BY <2>2 DEF Registered, RegisteredIn
  <2> HIDE DEF moving
  <2>5. CASE l = k BY <1>0, <2>3, <2>4, <2>5, OneEntry
  <2>6. CASE l # k
    <3>1. l \in renamed' \/ dict'.entry[l] = Absent \/ dict'.entry[l].exp = Never
      BY <2>3, <2>4, <2>6
    <3> QED BY <1>0, <2>3, <2>4, <2>6, <3>1, OneEntry
  <2> QED BY <2>5, <2>6
<1> QED BY <1>1, <1>2

LEMMA DelRegisters ==
    ASSUME Registered, NEW k \in Key, Del(k)
    PROVE  Registered'
<1>1. dict'.entry = [dict.entry EXCEPT ![k] = Absent] /\ UNCHANGED heap /\ renamed' = renamed \ {k}
  BY DEF Del, Removed
<1>2. IsABag(heap') /\ DOMAIN dict.entry = Key BY <1>1 DEF Registered, RegisteredIn
<1> QED BY <1>1, <1>2, OneEntry

LEMMA EmptyRegisters ==
    ASSUME dict' = NoKeys, IsABag(heap')
    PROVE  Registered'
  BY DEF Registered, RegisteredIn, NoKeys
-----------------------------------------------------------------------------
(***************************************************************************)
(* What a cycle of active expiry does.                                     *)
(***************************************************************************)
LEMMA SweptEntries ==
    ASSUME NEW d
    PROVE  /\ DOMAIN Swept(d).entry = Key
           /\ \A k \in Key : \/ Swept(d).entry[k] = d.entry[k]
                             \/ Swept(d).entry[k] = Absent /\ IsExpired(d.entry[k])
<1>1. PICK some : Swept(d) = RemovedAll(d, {k \in some : IsExpired(d.entry[k])}) BY DEF Swept
<1> QED BY <1>1 DEF RemovedAll

LEMMA PurgedEntries ==
    ASSUME NEW items
    PROVE  /\ DOMAIN Purged(items).entry = Key
           /\ \A k \in Key : Purged(items).entry[k] \in {dict.entry[k], Absent}
           /\ \A k \in Key : \/ Purged(items).entry[k] = dict.entry[k]
                             \/ IsExpired(dict.entry[k])
           /\ \A k \in Key : \A t : <<t, k>> \in items /\ IsExpired(dict.entry[k]) =>
                                     Purged(items).entry[k] = Absent
<1> DEFINE due == {k \in {item[2] : item \in items} : IsExpired(dict.entry[k])}
           d == RemovedAll(dict, due)
<1>1. d.entry = [k \in Key |-> IF k \in due THEN Absent ELSE dict.entry[k]] BY DEF RemovedAll
<1>2. Purged(items) = Swept(d) BY DEF Purged
<1>3. \A k \in Key : \A t : <<t, k>> \in items /\ IsExpired(dict.entry[k]) => k \in due
  OBVIOUS
<1>4. \A k \in due : IsExpired(dict.entry[k]) OBVIOUS
<1> HIDE DEF due, d
<1>5. ~IsExpired(Absent) BY DEF IsExpired
<1>6. \A k \in Key : \/ d.entry[k] = dict.entry[k] /\ k \notin due
                     \/ d.entry[k] = Absent /\ IsExpired(dict.entry[k])
  BY <1>1, <1>4
<1>7. /\ DOMAIN Swept(d).entry = Key
      /\ \A k \in Key : \/ Swept(d).entry[k] = d.entry[k]
                        \/ Swept(d).entry[k] = Absent /\ IsExpired(d.entry[k])
  BY SweptEntries
<1> QED BY <1>2, <1>3, <1>5, <1>6, <1>7

\* An item that leaves the heap is one that is due.
LEMMA PoppedItems ==
    ASSUME IsABag(heap), NEW b \in Popped
    PROVE  /\ IsABag(heap (-) b)
           /\ BagToSet(b) \subseteq Due
           /\ BagToSet(heap) \ BagToSet(b) \subseteq BagToSet(heap (-) b)
<1>1. PICK items \in SUBSET Due : b \in [items -> 1..BatchSize] BY DEF Popped
<1>2. DOMAIN b \subseteq Due /\ \A e \in DOMAIN b : b[e] \in Nat
  BY <1>1, ExpirationAssumption
<1> QED BY <1>2 DEF IsABag, BagToSet, (-)

LEMMA PurgeRegisters ==
    ASSUME Registered, Purge
    PROVE  Registered'
<1>1. PICK b \in Popped : heap' = heap (-) b /\ dict' = Purged(BagToSet(b)) BY DEF Purge
<1>2. /\ IsABag(heap')
      /\ BagToSet(b) \subseteq Due
      /\ BagToSet(heap) \ BagToSet(b) \subseteq BagToSet(heap')
  BY <1>1, PoppedItems DEF Registered, RegisteredIn
<1>3. /\ DOMAIN dict'.entry = Key
      /\ \A k \in Key : dict'.entry[k] \in {dict.entry[k], Absent}
      /\ \A k \in Key : \A t : <<t, k>> \in BagToSet(b) /\ IsExpired(dict.entry[k]) =>
                               dict'.entry[k] = Absent
  <2> DEFINE popped == BagToSet(b)
  <2>1. dict' = Purged(popped) BY <1>1
  <2> HIDE DEF popped
  <2>2. /\ DOMAIN dict'.entry = Key
        /\ \A k \in Key : dict'.entry[k] \in {dict.entry[k], Absent}
        /\ \A k \in Key : \A t : <<t, k>> \in popped /\ IsExpired(dict.entry[k]) =>
                                 dict'.entry[k] = Absent
    BY <2>1, PurgedEntries
  <2> QED BY <2>2 DEF popped
<1>4. ASSUME NEW k \in Key \ renamed, dict'.entry[k] # Absent, dict'.entry[k].exp # Never
      PROVE  <<dict'.entry[k].exp, k>> \in BagToSet(heap')
  <2>1. dict'.entry[k] = dict.entry[k] BY <1>3, <1>4
  <2>2. <<dict.entry[k].exp, k>> \in BagToSet(heap)
    BY <1>4, <2>1 DEF Registered, RegisteredIn, BagIn
  <2>3. <<dict.entry[k].exp, k>> \notin BagToSet(b)
    <3>1. SUFFICES ASSUME <<dict.entry[k].exp, k>> \in BagToSet(b) PROVE FALSE
      OBVIOUS
    <3>2. dict.entry[k].exp <= now BY <1>2, <3>1 DEF Due
    <3>3. IsExpired(dict.entry[k]) BY <1>4, <2>1, <3>2 DEF IsExpired
    <3> QED BY <1>3, <1>4, <3>1, <3>3
  <2> QED BY <1>2, <2>1, <2>2, <2>3
<1>5. UNCHANGED renamed BY DEF Purge
<1> QED BY <1>2, <1>3, <1>4, <1>5 DEF Registered, RegisteredIn, BagIn

LEMMA StartRegisters ==
    ASSUME Start, mode = "server"
    PROVE  Registered'
<1>1. DOMAIN dict'.entry = Key BY DEF Start, Loaded, NoKeys
<1>2. heap' = SetToBag({<<dict'.entry[k].exp, k>> :
                   k \in {l \in Key : dict'.entry[l] # Absent /\ dict'.entry[l].exp # Never}})
  BY DEF Start
<1>3. IsABag(heap') BY <1>2 DEF SetToBag, IsABag
<1>4. \A k \in Key : dict'.entry[k] # Absent /\ dict'.entry[k].exp # Never =>
                        BagIn(<<dict'.entry[k].exp, k>>, heap')
  BY <1>2 DEF SetToBag, BagIn, BagToSet
<1> QED BY <1>1, <1>3, <1>4 DEF Registered, RegisteredIn
-----------------------------------------------------------------------------
(***************************************************************************)
(* While a server is up, its expiries are registered.                      *)
(***************************************************************************)
ExpiryInv == mode = "server" /\ up = "up" => Registered

LEMMA CommandRegisters ==
    ASSUME Registered, Command
    PROVE  Registered'
<1>1. CASE Flush
  <2>1. IsABag(heap') BY <1>1 DEF Flush, Registered, RegisteredIn
  <2> QED BY <1>1, <2>1, EmptyRegisters DEF Flush
<1> QED BY <1>1, SetRegisters, IncrRegisters, HSetRegisters, HDelRegisters, ExpireAtRegisters,
           PersistRegisters, RenameRegisters, DelRegisters DEF Command

LEMMA ReadRegisters ==
    ASSUME Registered, Read
    PROVE  Registered'
<1>1. PICK k \in Key : dict' = Removed(dict, k) /\ UNCHANGED <<heap, renamed>>
  BY DEF Read, Access
<1>2. /\ DOMAIN dict'.entry = Key
      /\ \A l \in Key : dict'.entry[l] \in {dict.entry[l], Absent}
  BY <1>1 DEF Removed, Registered, RegisteredIn
<1> QED BY <1>1, <1>2, FewerEntries

LEMMA ExpiryStep ==
    ASSUME ExpiryInv, [Next]_vars
    PROVE  ExpiryInv'
<1> SUFFICES ASSUME mode' = "server", up' = "up" PROVE Registered'
  BY DEF ExpiryInv
<1>1. CASE Start
  BY <1>1, StartRegisters DEF Start
<1>2. CASE ~Start /\ Next
  <2>1. mode = "server" /\ up = "up" /\ ~EmbeddedCall /\ ~Stop /\ ~Exit /\ ~Crash
    BY <1>2 DEF Next, Command, ActiveExpiry, SaveCommand, ThreadStep, EmbeddedCall, Read, Clock,
                SaveStep, Stop, Exit, Crash, process
  <2>2. Registered BY <2>1 DEF ExpiryInv
  <2>3. CASE UNCHANGED <<dict, heap, renamed>> BY <2>2, <2>3 DEF Registered, RegisteredIn
  <2>4. CASE Command BY <2>2, <2>4, CommandRegisters
  <2>5. CASE ActiveExpiry BY <2>2, <2>5, PurgeRegisters DEF ActiveExpiry
  <2>6. CASE Read BY <2>2, <2>6, ReadRegisters
  <2> QED BY <1>2, <2>1, <2>3, <2>4, <2>5, <2>6
          DEF Next, SaveCommand, ThreadStep, Clock, Tick, SaveStep, state
<1>3. CASE UNCHANGED vars
  BY <1>3 DEF vars, state, process, ExpiryInv, Registered, RegisteredIn
<1> QED BY <1>1, <1>2, <1>3

(***************************************************************************)
(* Whatever commands set, move and take away expiries, whichever items the *)
(* heap gives up, and after every restart: the expiry of a key is on the   *)
(* heap (expiration/manager.py, persistence/recovery.py), or came by RENAME.*)
(***************************************************************************)
THEOREM ExpiriesAreRegistered == Spec => []TTLsAreRegistered
<1>1. Init => ExpiryInv BY DEF Init, ExpiryInv
<1>2. ExpiryInv /\ [Next]_vars => ExpiryInv' BY ExpiryStep
<1>3. ExpiryInv => TTLsAreRegistered BY DEF ExpiryInv, Registered, RegisteredIn, TTLsAreRegistered
<1> QED BY <1>1, <1>2, <1>3, PTL DEF Spec

(***************************************************************************)
(* Active expiry (purge_expired_batch) removes expired keys only, whichever*)
(* stale items it pops and wherever its sweep ends.                        *)
(***************************************************************************)
THEOREM PurgesOnlyExpired == Spec => PurgeOnlyExpired
<1>1. ASSUME ActiveExpiry, NEW k \in Key
      PROVE  dict'.entry[k] = dict.entry[k] \/ IsExpired(dict.entry[k])
  <2>1. PICK items : dict' = Purged(items) BY <1>1 DEF ActiveExpiry, Purge
  <2> QED BY <2>1, PurgedEntries
<1>2. [Next]_vars =>
        [ActiveExpiry => \A k \in Key : dict'.entry[k] = dict.entry[k] \/ IsExpired(dict.entry[k])]_vars
  BY <1>1
<1> QED BY <1>2, PTL DEF Spec, PurgeOnlyExpired
-----------------------------------------------------------------------------
(***************************************************************************)
(* The snapshot file.  A save that is not under way has nothing open, and  *)
(* as long as the two saves have not met, at most one is under way and the *)
(* temporary file is in the state in which that one left it.               *)
(***************************************************************************)
MainOK ==
    /\ main = [phase |-> main.phase, got |-> main.got, file |-> main.file]
    /\ main.phase = "idle" => main = Idle

ThreadOK ==
    /\ thread = [phase |-> thread.phase, got |-> thread.got, file |-> thread.file,
                 pos |-> thread.pos, size |-> thread.size, met |-> thread.met]
    /\ thread.phase = "idle" => thread = NoThread

InHand(save) ==
    /\ save.phase = "write" => save.file = "tmp" /\ tmp = Blank
    /\ save.phase = "rename" => tmp.state = "whole"

Apart ==
    /\ dump.state \in {"none", "whole"}
    /\ main.phase = "idle" \/ thread.phase = "idle"
    /\ InHand(main) /\ InHand(thread)

DumpInv == MainOK /\ ThreadOK /\ (~overlapped => Apart)

\* The histories and the dictionary do not matter here.
LEMMA NoSave ==
    ASSUME DumpInv, UNCHANGED saves
    PROVE  DumpInv'
  BY DEF DumpInv, MainOK, ThreadOK, Apart, InHand, saves

LEMMA MainSaveWhole ==
    ASSUME DumpInv, NEW d, MainSave(d), main.phase = "idle"
    PROVE  DumpInv'
<1>1. PICK got : main' = [phase |-> "open", got |-> got, file |-> "none"] BY DEF MainSave
<1>2. UNCHANGED <<dump, tmp, thread>> /\ overlapped' = (overlapped \/ thread.phase # "idle")
  BY DEF MainSave, files
<1> QED BY <1>1, <1>2 DEF DumpInv, MainOK, ThreadOK, Apart, InHand

LEMMA BgSaveWhole ==
    ASSUME DumpInv, BgSave, main.phase = "idle"
    PROVE  DumpInv'
  BY DEF BgSave, DumpInv, MainOK, ThreadOK, Apart, InHand, files, NoThread

(***************************************************************************)
(* What a read of the thread makes of the save: it ends, gets to the end of*)
(* the dictionary, or goes on, with a record more when it is done with an  *)
(* entry.                                                                  *)
(***************************************************************************)
Raised == thread' = NoThread /\ hand' = NoHand /\ held' = NoHold

WalkEnds ==
    /\ hand.read = "none"
    /\ \A i \in Filled(dict) : ~(i > thread.pos)
    /\ thread' = [thread EXCEPT !.phase = "open"]
    /\ UNCHANGED <<hand, held>>

Meets(at) ==
    /\ hand.read = "none"
    /\ thread' = [thread EXCEPT !.pos = at, !.met = @ + 1]
    /\ hand' = [NoHand EXCEPT !.read = "check", !.key = dict.slots[at]]
    /\ held' = [NoHold EXCEPT !.at = dict.slots[at]]

MeetsNext ==
    \E ahead : ahead = {i \in Filled(dict) : i > thread.pos} /\ ahead # {} /\ Meets(Min(ahead))

MovesOn(from, to) ==
    hand.read = from /\ hand' = [hand EXCEPT !.read = to] /\ UNCHANGED held

Stamps ==
    /\ hand.read = "stamp" /\ Object.exp # Never
    /\ hand' = [hand EXCEPT !.read = "value", !.exp = Object.exp] /\ UNCHANGED held

Counts ==
    /\ hand.read = "value"
    /\ \E size : hand' = [hand EXCEPT !.read = "fields", !.size = size]
    /\ UNCHANGED held

Passes ==
    /\ hand.read = "fields"
    /\ \E f \in FieldsOf(Object.val) :
          /\ hand' = [hand EXCEPT !.val = [@ EXCEPT ![f] = Object.val[f]], !.met = @ + 1]
          /\ held' = [held EXCEPT !.passed = @ \cup {f}]

Looks ==
    /\ UNCHANGED thread
    /\ \/ MovesOn("check", "compare")
       \/ MovesOn("check", "expiry") /\ Object.exp = Never
       \/ MovesOn("compare", "expiry") /\ ~IsExpired(Object)
       \/ MovesOn("expiry", "value") /\ Object.exp = Never
       \/ MovesOn("expiry", "stamp")
       \/ Stamps \/ Counts \/ Passes

Skips ==
    /\ hand.read = "compare" /\ IsExpired(Object)
    /\ thread' = [thread EXCEPT !.got = @ \o <<>>] /\ hand' = NoHand /\ held' = NoHold

Records1 ==
    /\ hand.read = "fields"
    /\ thread' = [thread EXCEPT !.got = @ \o <<HandRecord>>] /\ hand' = NoHand /\ held' = NoHold

LEMMA ReadCases ==
    ASSUME ThreadRead
    PROVE  /\ thread.phase = "walk" /\ UNCHANGED <<dump, tmp, main, overlapped>>
           /\ Raised \/ WalkEnds \/ MeetsNext \/ Looks \/ Skips \/ Records1
<1> USE DEF ThreadAt, ThreadRaises, ThreadNext, HandIs, Quiet, files, Raised
<1>1. CASE ThreadVisit
  <2>1. PICK ahead : ahead = {i \in Filled(dict) : i > thread.pos} OBVIOUS
  <2>2. CASE ahead = {} BY <1>1, <2>1, <2>2 DEF ThreadVisit, WalkEnds
  <2>3. CASE ahead # {}
    <3>1. ThreadRaises \/ (Meets(Min(ahead)) /\ Quiet) BY <1>1, <2>1, <2>3 DEF ThreadVisit, Meets
    <3> QED BY <1>1, <2>1, <2>3, <3>1 DEF ThreadVisit, MeetsNext
  <2> QED BY <2>2, <2>3
<1>2. CASE ThreadCheck
  <2>1. CASE Object.exp = Never BY <1>2, <2>1 DEF ThreadCheck, Looks, MovesOn
  <2>2. CASE Object.exp # Never BY <1>2, <2>2 DEF ThreadCheck, Looks, MovesOn
  <2> QED BY <2>1, <2>2
<1>3. CASE ThreadCompare BY <1>3 DEF ThreadCompare, Skips, Looks, MovesOn
<1>4. CASE ThreadExpiry
  <2>1. CASE Object.exp = Never BY <1>4, <2>1 DEF ThreadExpiry, Looks, MovesOn
  <2>2. CASE Object.exp # Never BY <1>4, <2>2 DEF ThreadExpiry, Looks, MovesOn
  <2> QED BY <2>1, <2>2
<1>5. CASE ThreadStamp BY <1>5 DEF ThreadStamp, Looks, Stamps
<1>6. CASE ThreadValue BY <1>6 DEF ThreadValue, Looks, Counts
<1>7. CASE ThreadField
  <2>1. PICK there, ahead : there = FieldsOf(Object.val) /\ ahead = there \ held.passed
    OBVIOUS
  <2>2. CASE GivesUp(Cardinality(there), hand.size, ahead, hand.met)
    BY <1>7, <2>1, <2>2 DEF ThreadField
  <2>3. CASE ~GivesUp(Cardinality(there), hand.size, ahead, hand.met) /\ ahead = {}
    BY <1>7, <2>1, <2>3 DEF ThreadField, Records1
  <2>4. CASE ~GivesUp(Cardinality(there), hand.size, ahead, hand.met) /\ ahead # {}
    BY <1>7, <2>1, <2>4 DEF ThreadField, Looks, Passes
  <2> QED BY <2>2, <2>3, <2>4
<1> QED BY <1>1, <1>2, <1>3, <1>4, <1>5, <1>6, <1>7 DEF ThreadRead

LEMMA ThreadStepWhole ==
    ASSUME DumpInv, ThreadBegin \/ ThreadRead
    PROVE  DumpInv'
<1>1. /\ UNCHANGED <<dump, tmp, main, overlapped>>
      /\ thread.phase # "idle"
  BY ReadCases DEF ThreadBegin, files
<1>2. CASE ThreadBegin
  <2>1. PICK size : thread' = [thread EXCEPT !.phase = "walk", !.size = size]
    BY <1>2 DEF ThreadBegin
  <2> QED BY <1>1, <2>1 DEF DumpInv, MainOK, ThreadOK, Apart, InHand
<1>3. CASE ThreadRead
  <2>1. \/ thread' = NoThread
        \/ thread' = [thread EXCEPT !.phase = "open"]
        \/ thread' = thread
        \/ \E pos, met : thread' = [thread EXCEPT !.pos = pos, !.met = met]
        \/ \E got : thread' = [thread EXCEPT !.got = got]
    <3>1. MeetsNext => \E pos, met : thread' = [thread EXCEPT !.pos = pos, !.met = met]
      BY DEF MeetsNext, Meets
    <3>2. Skips \/ Records1 => \E got : thread' = [thread EXCEPT !.got = got]
      BY DEF Skips, Records1
    <3> QED BY <1>3, <3>1, <3>2, ReadCases DEF Raised, WalkEnds, Looks
  <2>2. thread.phase = "walk" BY <1>3, ReadCases
  <2>3. ThreadOK' /\ thread'.phase \in {"idle", "walk", "open"}
    <3>1. CASE thread' = NoThread BY <3>1 DEF ThreadOK, NoThread
    <3>2. CASE thread' = [thread EXCEPT !.phase = "open"] BY <3>2 DEF DumpInv, ThreadOK
    <3>3. ASSUME NEW pos, NEW met, thread' = [thread EXCEPT !.pos = pos, !.met = met]
          PROVE  ThreadOK' /\ thread'.phase = "walk"
      BY <2>2, <3>3 DEF DumpInv, ThreadOK
    <3>4. ASSUME NEW got, thread' = [thread EXCEPT !.got = got]
          PROVE  ThreadOK' /\ thread'.phase = "walk"
      BY <2>2, <3>4 DEF DumpInv, ThreadOK
    <3>5. CASE thread' = thread BY <2>2, <3>5 DEF DumpInv, ThreadOK
    <3> QED BY <2>1, <3>1, <3>2, <3>3, <3>4, <3>5
  <2> QED BY <1>1, <2>3 DEF DumpInv, MainOK, Apart, InHand
<1> QED BY <1>2, <1>3

(***************************************************************************)
(* Opening, writing and renaming: each finds the temporary file as the step*)
(* before left it, so only a whole file is given the name of the snapshot. *)
(***************************************************************************)
LEMMA FileStepWhole ==
    ASSUME DumpInv, FileStep
    PROVE  DumpInv'
<1> USE DEF DumpInv, MainOK, ThreadOK, Apart, InHand
<1>1. CASE MainOpen BY <1>1 DEF MainOpen, Opened
<1>2. CASE ThreadOpen BY <1>2 DEF ThreadOpen, Opened
<1>3. CASE MainWrite
  BY <1>3 DEF MainWrite, WriteFile, Written, Whole, Blank
<1>4. CASE ThreadWrite
  BY <1>4 DEF ThreadWrite, WriteFile, Written, Whole, Blank
<1>5. CASE MainRename
  BY <1>5 DEF MainRename, Renamed, Idle, NoThread, NoFile, files
<1>6. CASE ThreadRename
  BY <1>6 DEF ThreadRename, Renamed, Idle, NoThread, NoFile, files
<1> QED BY <1>1, <1>2, <1>3, <1>4, <1>5, <1>6 DEF FileStep

LEMMA DumpStep ==
    ASSUME DumpInv, [Next]_vars
    PROVE  DumpInv'
<1>1. CASE SaveCommand
  BY <1>1, MainSaveWhole, BgSaveWhole DEF SaveCommand, AtLoop
<1>2. CASE Stop BY <1>2, MainSaveWhole DEF Stop, AtLoop
<1>3. CASE EmbeddedCall BY <1>3, MainSaveWhole DEF EmbeddedCall, AtLoop
<1>4. CASE ThreadStep BY <1>4, ThreadStepWhole DEF ThreadStep
<1>5. CASE SaveStep BY <1>5, FileStepWhole DEF SaveStep
<1>6. CASE Crash
  BY <1>6 DEF Crash, files, DumpInv, MainOK, ThreadOK, Apart, InHand, Idle, NoThread
<1>7. CASE UNCHANGED saves BY <1>7, NoSave
<1> QED BY <1>1, <1>2, <1>3, <1>4, <1>5, <1>6, <1>7
        DEF Next, Command, ActiveExpiry, Read, Clock, Exit, Start, vars

LEMMA DumpInit == Init => DumpInv
  BY DEF Init, DumpInv, MainOK, ThreadOK, Apart, InHand, Idle, NoThread, NoFile, Whole

(***************************************************************************)
(* A crash at any moment leaves a whole snapshot file, or none if there was*)
(* none (persistence/snapshot.py), while SAVE and BGSAVE did not meet.     *)
(***************************************************************************)
THEOREM SnapshotsAreWhole == Spec => []DumpIsWhole
<1>1. Init => DumpInv BY DumpInit
<1>2. DumpInv /\ [Next]_vars => DumpInv' BY DumpStep
<1>3. DumpInv => DumpIsWhole BY DEF DumpInv, Apart, DumpIsWhole
<1> QED BY <1>1, <1>2, <1>3, PTL DEF Spec
-----------------------------------------------------------------------------
(***************************************************************************)
(* The elements that Picked takes from a sequence.  The sequence it builds *)
(* up is a function; it exists, since it can be continued by one place.    *)
(***************************************************************************)
Picking(upto, s, places, n) ==
    upto = [i \in 0..n |-> IF i = 0 THEN <<>>
                           ELSE IF i \in places THEN Append(upto[i - 1], s[i])
                           ELSE upto[i - 1]]

LEMMA PickingExists ==
    ASSUME NEW s, NEW places, NEW n \in Nat
    PROVE  \E upto : Picking(upto, s, places, n)
<1> DEFINE S == {m \in Nat : \E upto : Picking(upto, s, places, m)}
<1>1. 0 \in S
  <2> DEFINE upto == [i \in 0..0 |-> <<>>]
  <2>1. Picking(upto, s, places, 0) BY DEF Picking
  <2> QED BY <2>1
<1>2. ASSUME NEW m \in Nat, m \in S PROVE m + 1 \in S
  <2>1. PICK f : Picking(f, s, places, m) BY <1>2
  <2> DEFINE last == IF m + 1 \in places THEN Append(f[m], s[m + 1]) ELSE f[m]
             g == [i \in 0..(m + 1) |-> IF i <= m THEN f[i] ELSE last]
  <2>2. ASSUME NEW i \in 0..(m + 1)
        PROVE  g[i] = IF i = 0 THEN <<>>
                      ELSE IF i \in places THEN Append(g[i - 1], s[i])
                      ELSE g[i - 1]
    <3>1. CASE i <= m
      <4>1. f[i] = IF i = 0 THEN <<>>
                   ELSE IF i \in places THEN Append(f[i - 1], s[i])
                   ELSE f[i - 1]
        <5>1. i \in 0..m BY <3>1
        <5> QED BY <2>1, <5>1, Zenon DEF Picking
      <4>2. i # 0 => g[i - 1] = f[i - 1] BY <3>1
      <4> QED BY <3>1, <4>1, <4>2
    <3>2. CASE i = m + 1 BY <3>2
    <3> QED BY <3>1, <3>2
  <2>3. Picking(g, s, places, m + 1) BY <2>2 DEF Picking
  <2> QED BY <2>3
<1> HIDE DEF S
<1>3. n \in S BY <1>1, <1>2, NatSetInduction
<1> QED BY <1>3 DEF S

LEMMA PickedPicks ==
    ASSUME NEW s, NEW places, Len(s) \in Nat
    PROVE  \E upto : Picking(upto, s, places, Len(s)) /\ Picked(s, places) = upto[Len(s)]
<1> DEFINE upto == CHOOSE f : Picking(f, s, places, Len(s))
<1>1. Picking(upto, s, places, Len(s)) BY PickingExists, Zenon
<1>2. Picked(s, places) = upto[Len(s)] BY Zenon DEF Picked, Picking
<1> QED BY <1>1, <1>2

\* What has been picked up to a place of the sequence.
PickedUpTo(t, T, s, places, n) ==
    /\ t \in Seq(T)
    /\ Len(t) <= n
    /\ \A i \in 1..n : i \in places => \E j \in 1..Len(t) : t[j] = s[i]
    /\ \A j \in 1..Len(t) : \E i \in 1..n : i \in places /\ t[j] = s[i]

\* No element is at two of the places.
Distinct(s, places) == \A i, j \in places : s[i] = s[j] => i = j

NoTwice(t) == \A i, j \in 1..Len(t) : t[i] = t[j] => i = j

LEMMA PickOne ==
    ASSUME NEW T, NEW s \in Seq(T), NEW places, NEW n \in Nat, n + 1 <= Len(s), n + 1 \in places,
           NEW t, PickedUpTo(t, T, s, places, n)
    PROVE  /\ PickedUpTo(Append(t, s[n + 1]), T, s, places, n + 1)
           /\ Distinct(s, places) /\ NoTwice(t) => NoTwice(Append(t, s[n + 1]))
<1>1. PICK e \in T : e = s[n + 1] BY ElementOfSeq
<1>2. PICK m \in Nat : m = Len(t) /\ m <= n BY DEF PickedUpTo
<1>3. PICK u : u = Append(t, e) OBVIOUS
<1>4. /\ u \in Seq(T) /\ Len(u) = m + 1
      /\ \A i \in 1..m : u[i] = t[i]
      /\ u[m + 1] = e
  BY <1>2, <1>3, AppendProperties DEF PickedUpTo
<1>5. PickedUpTo(u, T, s, places, n + 1)
  <2>1. ASSUME NEW i \in 1..(n + 1), i \in places PROVE \E j \in 1..(m + 1) : u[j] = s[i]
    <3>1. CASE i = n + 1 BY <1>1, <1>4, <3>1
    <3>2. CASE i # n + 1
      <4>1. i \in 1..n BY <3>2
      <4>2. PICK j \in 1..m : t[j] = s[i] BY <1>2, <2>1, <4>1 DEF PickedUpTo
      <4> QED BY <1>4, <4>2
    <3> QED BY <3>1, <3>2
  <2>2. ASSUME NEW j \in 1..(m + 1) PROVE \E i \in 1..(n + 1) : i \in places /\ u[j] = s[i]
    <3>1. CASE j = m + 1 BY <1>1, <1>4, <3>1
    <3>2. CASE j # m + 1
      <4>1. j \in 1..m BY <3>2
      <4>2. PICK i \in 1..n : i \in places /\ t[j] = s[i] BY <1>2, <4>1 DEF PickedUpTo
      <4> QED BY <1>4, <4>1, <4>2
    <3> QED BY <3>1, <3>2
  <2> QED BY <1>2, <1>4, <2>1, <2>2 DEF PickedUpTo
<1>6. ASSUME Distinct(s, places), NoTwice(t) PROVE NoTwice(u)
  <2>1. ASSUME NEW j \in 1..m PROVE u[j] # e
    <3>1. PICK i \in 1..n : i \in places /\ t[j] = s[i] BY <1>2 DEF PickedUpTo
    <3>2. i # n + 1 OBVIOUS
    <3>3. s[i] # s[n + 1] BY <1>6, <3>1, <3>2 DEF Distinct
    <3> QED BY <1>1, <1>4, <3>1, <3>3
  <2>2. SUFFICES ASSUME NEW i \in 1..(m + 1), NEW j \in 1..(m + 1), u[i] = u[j] PROVE i = j
    BY <1>4 DEF NoTwice
  <2>3. CASE i \in 1..m /\ j \in 1..m BY <1>2, <1>4, <1>6, <2>2, <2>3 DEF NoTwice
  <2>4. CASE i = m + 1 /\ j \in 1..m BY <1>4, <2>1, <2>2, <2>4
  <2>5. CASE i \in 1..m /\ j = m + 1 BY <1>4, <2>1, <2>2, <2>5
  <2> QED BY <2>3, <2>4, <2>5
<1> QED BY <1>1, <1>3, <1>5, <1>6

LEMMA PickNone ==
    ASSUME NEW T, NEW s, NEW places, NEW n \in Nat, n + 1 \notin places,
           NEW t, PickedUpTo(t, T, s, places, n)
    PROVE  PickedUpTo(t, T, s, places, n + 1)
<1>1. PICK m \in Nat : m = Len(t) /\ m <= n BY DEF PickedUpTo
<1>2. \A i \in 1..(n + 1) : i \in places => i \in 1..n OBVIOUS
<1>3. 1..n \subseteq 1..(n + 1) OBVIOUS
<1> QED BY <1>1, <1>2, <1>3 DEF PickedUpTo

LEMMA PickedElements ==
    ASSUME NEW T, NEW s \in Seq(T), NEW places
    PROVE  /\ PickedUpTo(Picked(s, places), T, s, places, Len(s))
           /\ Distinct(s, places) => NoTwice(Picked(s, places))
<1>1. PICK n \in Nat : n = Len(s) OBVIOUS
<1>2. PICK upto : Picking(upto, s, places, n) /\ Picked(s, places) = upto[n]
  BY <1>1, PickedPicks
<1> DEFINE S == {i \in Nat : i <= n => /\ PickedUpTo(upto[i], T, s, places, i)
                                       /\ Distinct(s, places) => NoTwice(upto[i])}
<1>3. 0 \in S
  <2>1. upto[0] = <<>> BY <1>2 DEF Picking
  <2>2. PickedUpTo(<<>>, T, s, places, 0) BY DEF PickedUpTo
  <2>3. NoTwice(<<>>) BY DEF NoTwice
  <2> QED BY <2>1, <2>2, <2>3
<1>4. ASSUME NEW i \in Nat, i \in S PROVE i + 1 \in S
  <2> SUFFICES ASSUME i + 1 <= n
               PROVE  /\ PickedUpTo(upto[i + 1], T, s, places, i + 1)
                      /\ Distinct(s, places) => NoTwice(upto[i + 1])
    OBVIOUS
  <2>1. i + 1 \in 0..n /\ i + 1 # 0 /\ (i + 1) - 1 = i OBVIOUS
  <2>2. upto[i + 1] = IF i + 1 \in places THEN Append(upto[i], s[i + 1]) ELSE upto[i]
    BY <1>2, <2>1 DEF Picking
  <2>3. /\ PickedUpTo(upto[i], T, s, places, i)
        /\ Distinct(s, places) => NoTwice(upto[i])
    BY <1>4
  <2>4. CASE i + 1 \in places BY <1>1, <2>2, <2>3, <2>4, PickOne
  <2>5. CASE i + 1 \notin places BY <2>2, <2>3, <2>5, PickNone
  <2> QED BY <2>4, <2>5
<1> HIDE DEF S
<1>5. n \in S BY <1>3, <1>4, NatSetInduction
<1> QED BY <1>1, <1>2, <1>5 DEF S

-----------------------------------------------------------------------------
(***************************************************************************)
(* The dictionary: its entries are those of the keys in its slots, and no  *)
(* key is in two of them.                                                  *)
(***************************************************************************)
Slotted(slots, entry) ==
    /\ slots \in Seq(Key \cup {Hole})
    /\ \A k \in Key : entry[k] # Absent <=> \E i \in 1..Len(slots) : slots[i] = k
    /\ \A i, j \in 1..Len(slots) : slots[i] = slots[j] /\ slots[i] # Hole => i = j

DictOK(d) ==
    /\ d.entry \in [Key -> EntryType \cup {Absent}]
    /\ Slotted(d.slots, d.entry)
    /\ Len(d.slots) <= MaxSlots

Present(d) == {k \in Key : d.entry[k] # Absent}

LEMMA Order ==
    ASSUME NEW d, Slotted(d.slots, d.entry)
    PROVE  /\ InDictOrder(d) \in Seq(Key)
           /\ NoTwice(InDictOrder(d))
           /\ \A k \in Key : d.entry[k] # Absent
                  <=> \E i \in 1..Len(InDictOrder(d)) : InDictOrder(d)[i] = k
<1> DEFINE places == {i \in DOMAIN d.slots : d.slots[i] # Hole}
<1>1. PICK s \in Seq(Key \cup {Hole}) : s = d.slots BY DEF Slotted
<1>2. PICK t : t = Picked(s, places) OBVIOUS
<1>3. DOMAIN s = 1..Len(s) /\ Len(s) \in Nat OBVIOUS
<1>4. \A i : i \in places <=> i \in 1..Len(s) /\ s[i] # Hole BY <1>1, <1>3
<1>5. Distinct(s, places) BY <1>1, <1>4 DEF Slotted, Distinct
<1>6. InDictOrder(d) = t BY <1>1, <1>2 DEF InDictOrder, Filled
<1> HIDE DEF places
<1>7. PickedUpTo(t, Key \cup {Hole}, s, places, Len(s)) /\ NoTwice(t)
  BY <1>1, <1>2, <1>5, PickedElements
<1>8. \A j \in 1..Len(t) : t[j] \in Key
  <2> SUFFICES ASSUME NEW j \in 1..Len(t) PROVE t[j] \in Key OBVIOUS
  <2>1. PICK i \in 1..Len(s) : i \in places /\ t[j] = s[i] BY <1>7 DEF PickedUpTo
  <2>2. s[i] \in Key \cup {Hole} BY <2>1, ElementOfSeq
  <2> QED BY <1>4, <2>1, <2>2
<1>9. t \in Seq(Key) BY <1>7, <1>8, IsASeq DEF PickedUpTo
<1>10. ASSUME NEW k \in Key
       PROVE  d.entry[k] # Absent <=> \E i \in 1..Len(t) : t[i] = k
  <2>0. d.entry[k] # Absent <=> \E i \in 1..Len(s) : s[i] = k BY <1>1 DEF Slotted
  <2>1. ASSUME NEW i \in 1..Len(s), s[i] = k PROVE \E j \in 1..Len(t) : t[j] = k
    <3>1. i \in places BY <1>4, <2>1, ExpirationAssumption
    <3> QED BY <1>7, <2>1, <3>1 DEF PickedUpTo
  <2>2. ASSUME NEW j \in 1..Len(t), t[j] = k PROVE \E i \in 1..Len(s) : s[i] = k
    BY <1>7, <2>2 DEF PickedUpTo
  <2> QED BY <2>0, <2>1, <2>2
<1> QED BY <1>6, <1>7, <1>9, <1>10

\* A sequence without repetitions is as long as it has elements.
LEMMA LengthIsCardinality ==
    ASSUME NEW T, NEW t \in Seq(T), NoTwice(t), NEW S,
           \A e : e \in S <=> \E i \in 1..Len(t) : t[i] = e
    PROVE  Cardinality(S) = Len(t)
<1>1. PICK n \in Nat : n = Len(t) OBVIOUS
<1>2. t \in [1..n -> S]
  <2>1. DOMAIN t = 1..n BY <1>1
  <2>2. t = [i \in 1..n |-> t[i]] BY <2>1
  <2>3. \A i \in 1..n : t[i] \in S BY <1>1
  <2> QED BY <2>2, <2>3
<1>3. t \in Bijection(1..n, S)
  BY <1>1, <1>2 DEF NoTwice, Bijection, Injection, Surjection, IsInjective
<1>4. ExistsBijection(1..n, S) BY <1>3 DEF ExistsBijection
<1> QED BY <1>1, <1>4, FS_CountingElements

KeysIn(t) == {k \in Key : \E i \in 1..Len(t) : t[i] = k}

LEMMA FewKeys ==
    ASSUME NEW t \in Seq(Key), NoTwice(t)
    PROVE  /\ Len(t) <= MaxSlots
           /\ KeysIn(t) # Key => Len(t) < MaxSlots
<1>0. PICK keys : keys = KeysIn(t) OBVIOUS
<1>1. \A k : k \in keys <=> \E i \in 1..Len(t) : t[i] = k BY <1>0, ElementOfSeq DEF KeysIn
<1>2. keys \in SUBSET Key BY <1>0 DEF KeysIn
<1>3. Cardinality(keys) = Len(t) BY <1>1, LengthIsCardinality
<1>4. /\ Cardinality(keys) <= Cardinality(Key)
      /\ Cardinality(Key) = Cardinality(keys) => Key = keys
      /\ Cardinality(Key) \in Nat
  BY <1>2, ExpirationAssumption, FS_Subset, FS_CardinalityType
<1>5. Len(t) \in Nat OBVIOUS
<1> QED BY <1>0, <1>3, <1>4, <1>5, ExpirationAssumption

\* There are as many slots that are no holes as keys.
LEMMA SizeIsCardinality ==
    ASSUME NEW d, Slotted(d.slots, d.entry)
    PROVE  Size(d) = Cardinality(Present(d))
<1>1. PICK s \in Seq(Key \cup {Hole}) : s = d.slots BY DEF Slotted
<1>2. PICK n \in Nat : n = Len(s) /\ DOMAIN s = 1..n OBVIOUS
<1>3. PICK filled : filled = Filled(d) OBVIOUS
<1>4. \A i : i \in filled <=> i \in 1..n /\ s[i] # Hole BY <1>1, <1>2, <1>3 DEF Filled
<1>5. PICK f : f = [i \in filled |-> s[i]] OBVIOUS
<1>6. \A i \in filled : s[i] \in Present(d)
  <2> SUFFICES ASSUME NEW i \in filled PROVE s[i] \in Present(d) OBVIOUS
  <2>1. i \in 1..n /\ s[i] # Hole BY <1>4
  <2>2. s[i] \in Key BY <1>2, <2>1, ElementOfSeq
  <2>3. d.entry[s[i]] # Absent BY <1>1, <1>2, <2>1, <2>2 DEF Slotted
  <2> QED BY <2>2, <2>3 DEF Present
<1>7. \A k \in Present(d) : \E i \in filled : s[i] = k
  BY <1>1, <1>2, <1>4, ExpirationAssumption DEF Slotted, Present
<1>8. \A i, j \in filled : s[i] = s[j] => i = j BY <1>1, <1>2, <1>4 DEF Slotted
<1>9. f \in Bijection(filled, Present(d))
  BY <1>5, <1>6, <1>7, <1>8 DEF Bijection, Injection, Surjection, IsInjective
<1>10. IsFiniteSet(filled)
  <2>1. filled \in SUBSET (1..n) /\ IsFiniteSet(1..n) BY <1>4, FS_Interval
  <2> QED BY <2>1, FS_Subset
<1>11. Cardinality(Present(d)) = Cardinality(filled)
  BY <1>9, <1>10, FS_Bijection DEF ExistsBijection
<1> QED BY <1>3, <1>11 DEF Size

LEMMA NoKeysOK == DictOK(NoKeys)
<1>1. Slotted(NoKeys.slots, NoKeys.entry)
  <2>1. NoKeys.slots = <<>> /\ \A k \in Key : NoKeys.entry[k] = Absent BY DEF NoKeys
  <2>2. Len(<<>>) = 0 /\ <<>> \in Seq(Key \cup {Hole}) OBVIOUS
  <2> QED BY <2>1, <2>2 DEF Slotted
<1>2. NoKeys.entry \in [Key -> EntryType \cup {Absent}] BY DEF NoKeys
<1>3. Len(NoKeys.slots) = 0 BY DEF NoKeys
<1>4. 0 <= MaxSlots BY ExpirationAssumption
<1> QED BY <1>1, <1>2, <1>3, <1>4 DEF DictOK

LEMMA RemovedAllOK ==
    ASSUME NEW d, DictOK(d), NEW keys
    PROVE  DictOK(RemovedAll(d, keys))
<1>1. PICK s \in Seq(Key \cup {Hole}) : s = d.slots BY DEF DictOK, Slotted
<1>2. PICK n \in Nat : n = Len(s) /\ DOMAIN s = 1..n OBVIOUS
<1>3. PICK r : r = [i \in 1..n |-> IF s[i] \in keys THEN Hole ELSE s[i]] OBVIOUS
<1>4. PICK e : e = [k \in Key |-> IF k \in keys THEN Absent ELSE d.entry[k]] OBVIOUS
<1>5. RemovedAll(d, keys).slots = r /\ RemovedAll(d, keys).entry = e
  BY <1>1, <1>2, <1>3, <1>4 DEF RemovedAll
<1>6. r \in Seq(Key \cup {Hole}) /\ Len(r) = n
  <2>1. \A i \in 1..n : r[i] \in Key \cup {Hole} BY <1>2, <1>3, ElementOfSeq
  <2>2. DOMAIN r = 1..n BY <1>3
  <2> QED BY <1>3, <2>1, <2>2, IsASeq
<1>7. e \in [Key -> EntryType \cup {Absent}] BY <1>4 DEF DictOK
<1>8. ASSUME NEW k \in Key PROVE e[k] # Absent <=> \E i \in 1..n : r[i] = k
  BY <1>1, <1>2, <1>3, <1>4, ExpirationAssumption DEF DictOK, Slotted
<1>9. \A i, j \in 1..n : r[i] = r[j] /\ r[i] # Hole => i = j
  BY <1>1, <1>2, <1>3 DEF DictOK, Slotted
<1> QED BY <1>1, <1>2, <1>5, <1>6, <1>7, <1>8, <1>9 DEF DictOK, Slotted

LEMMA RemovedIs ==
    ASSUME NEW d, DictOK(d), NEW k
    PROVE  /\ Removed(d, k).slots = RemovedAll(d, {k}).slots
           /\ Removed(d, k).entry = RemovedAll(d, {k}).entry
  BY DEF Removed, RemovedAll, DictOK

LEMMA RemovedOK ==
    ASSUME NEW d, DictOK(d), NEW k
    PROVE  DictOK(Removed(d, k))
<1>1. DictOK(RemovedAll(d, {k})) BY RemovedAllOK
<1>2. PICK r, e : r = Removed(d, k) /\ e = RemovedAll(d, {k}) OBVIOUS
<1>3. r.slots = e.slots /\ r.entry = e.entry BY <1>2, RemovedIs
<1>4. DictOK(e) BY <1>1, <1>2
<1>5. DictOK(r) BY <1>3, <1>4 DEF DictOK
<1> QED BY <1>2, <1>5

LEMMA LookedOK ==
    ASSUME NEW d, DictOK(d), NEW k
    PROVE  DictOK(Looked(d, k))
  BY RemovedOK DEF Looked

LEMMA TimedOK ==
    ASSUME NEW d, DictOK(d), NEW k \in Key, d.entry[k] # Absent, NEW exp \in {Never} \cup Nat
    PROVE  DictOK(Timed(d, k, exp))
<1>1. d.entry[k] \in EntryType BY DEF DictOK
<1>2. PICK new : new = [val |-> d.entry[k].val, exp |-> exp] OBVIOUS
<1>3. new \in EntryType BY <1>1, <1>2 DEF EntryType
<1>4. new # Absent BY <1>3, LifeCycleAssumption
<1>5. Timed(d, k, exp).slots = d.slots /\ Timed(d, k, exp).entry = [d.entry EXCEPT ![k] = new]
  BY <1>2 DEF Timed
<1>6. [d.entry EXCEPT ![k] = new] \in [Key -> EntryType \cup {Absent}] BY <1>3 DEF DictOK
<1>7. \A l \in Key : [d.entry EXCEPT ![k] = new][l] # Absent <=> d.entry[l] # Absent
  BY <1>4 DEF DictOK
<1> QED BY <1>5, <1>6, <1>7 DEF DictOK, Slotted

LEMMA ValuedOK ==
    ASSUME NEW d, DictOK(d), NEW k \in Key, d.entry[k] # Absent, NEW v \in Value
    PROVE  DictOK(Valued(d, k, v))
<1>1. d.entry[k] \in EntryType BY DEF DictOK
<1>2. PICK new : new = [val |-> v, exp |-> d.entry[k].exp] OBVIOUS
<1>3. new \in EntryType BY <1>1, <1>2 DEF EntryType
<1>4. new # Absent BY <1>3, LifeCycleAssumption
<1>5. Valued(d, k, v).slots = d.slots /\ Valued(d, k, v).entry = [d.entry EXCEPT ![k] = new]
  BY <1>2 DEF Valued
<1>6. [d.entry EXCEPT ![k] = new] \in [Key -> EntryType \cup {Absent}] BY <1>3 DEF DictOK
<1>7. \A l \in Key : [d.entry EXCEPT ![k] = new][l] # Absent <=> d.entry[l] # Absent
  BY <1>4 DEF DictOK
<1> QED BY <1>5, <1>6, <1>7 DEF DictOK, Slotted

LEMMA PutOK ==
    ASSUME NEW d, DictOK(d), NEW k \in Key, NEW new \in EntryType, NEW e \in Put(d, k, new)
    PROVE  DictOK(e)
<1>1. new # Absent BY LifeCycleAssumption
<1>2. PICK s : /\ e = [slots |-> s, entry |-> [d.entry EXCEPT ![k] = new]]
               /\ s \in IF d.entry[k] # Absent THEN {d.slots}
                        ELSE {Append(InDictOrder(d), k)}
                             \cup {Append(t, k) : t \in {u \in {d.slots} : Len(u) < MaxSlots}}
  BY DEF Put
<1>3. PICK f : f = [d.entry EXCEPT ![k] = new] OBVIOUS
<1>4. /\ e.slots = s /\ e.entry = f
      /\ f \in [Key -> EntryType \cup {Absent}]
      /\ f[k] # Absent /\ \A l \in Key : l # k => f[l] = d.entry[l]
  BY <1>1, <1>2, <1>3 DEF DictOK
<1>5. CASE d.entry[k] # Absent
  <2>1. \A l \in Key : f[l] # Absent <=> d.entry[l] # Absent BY <1>4, <1>5
  <2> QED BY <1>2, <1>4, <1>5, <2>1 DEF DictOK, Slotted
<1>6. ASSUME d.entry[k] = Absent,
             NEW t \in Seq(Key \cup {Hole}), Slotted(t, d.entry), Len(t) < MaxSlots,
             s = Append(t, k)
      PROVE  DictOK(e)
  <2>1. PICK n \in Nat : n = Len(t) OBVIOUS
  <2>2. /\ s \in Seq(Key \cup {Hole}) /\ Len(s) = n + 1
        /\ \A i \in 1..n : s[i] = t[i]
        /\ s[n + 1] = k
    BY <1>6, <2>1, AppendProperties
  <2>3. \A i \in 1..n : t[i] # k BY <1>6, <2>1 DEF Slotted
  <2>4. 1..(n + 1) = 1..n \cup {n + 1} OBVIOUS
  <2>5. ASSUME NEW l \in Key PROVE f[l] # Absent <=> \E i \in 1..(n + 1) : s[i] = l
    <3>1. CASE l = k BY <1>4, <2>2, <2>4, <3>1
    <3>2. CASE l # k
      <4>1. d.entry[l] # Absent <=> \E i \in 1..n : t[i] = l BY <1>6, <2>1 DEF Slotted
      <4>2. (\E i \in 1..(n + 1) : s[i] = l) <=> \E i \in 1..n : t[i] = l
        BY <2>2, <2>4, <3>2
      <4> QED BY <1>4, <3>2, <4>1, <4>2
    <3> QED BY <3>1, <3>2
  <2>6. ASSUME NEW i \in 1..(n + 1), NEW j \in 1..(n + 1), s[i] = s[j], s[i] # Hole PROVE i = j
    <3>1. CASE i \in 1..n /\ j \in 1..n BY <1>6, <2>1, <2>2, <2>6, <3>1 DEF Slotted
    <3>2. CASE i = n + 1 /\ j \in 1..n BY <2>2, <2>3, <2>6, <3>2
    <3>3. CASE i \in 1..n /\ j = n + 1 BY <2>2, <2>3, <2>6, <3>3
    <3> QED BY <2>4, <3>1, <3>2, <3>3
  <2>7. Slotted(s, f) BY <2>2, <2>5, <2>6 DEF Slotted
  <2>8. Len(s) <= MaxSlots BY <1>6, <2>1, <2>2, ExpirationAssumption
  <2> QED BY <1>4, <2>7, <2>8 DEF DictOK
<1>7. CASE d.entry[k] = Absent /\ s = Append(InDictOrder(d), k)
  <2>1. PICK t \in Seq(Key) : t = InDictOrder(d) BY Order DEF DictOK
  <2>2. Slotted(t, d.entry) /\ t \in Seq(Key \cup {Hole})
    <3>1. t \in Seq(Key \cup {Hole})
      <4>1. Key \subseteq Key \cup {Hole} OBVIOUS
      <4> QED BY <2>1, <4>1, SeqMonotonic
    <3>2. /\ NoTwice(t)
          /\ \A l \in Key : d.entry[l] # Absent <=> \E i \in 1..Len(t) : t[i] = l
      BY <2>1, Order DEF DictOK
    <3> QED BY <3>1, <3>2 DEF Slotted, NoTwice
  <2>3. Len(t) < MaxSlots
    <3>1. NoTwice(t) /\ ~\E i \in 1..Len(t) : t[i] = k BY <1>7, <2>1, Order DEF DictOK
    <3>2. KeysIn(t) # Key BY <3>1 DEF KeysIn
    <3> QED BY <3>1, <3>2, FewKeys
  <2> QED BY <1>6, <1>7, <2>1, <2>2, <2>3
<1>8. CASE d.entry[k] = Absent /\ s = Append(d.slots, k) /\ Len(d.slots) < MaxSlots
  <2>1. d.slots \in Seq(Key \cup {Hole}) /\ Slotted(d.slots, d.entry) BY DEF DictOK, Slotted
  <2> QED BY <1>6, <1>8, <2>1
<1> QED BY <1>2, <1>5, <1>7, <1>8

-----------------------------------------------------------------------------
(***************************************************************************)
(* The data of a snapshot: records of keys, read back in their order.      *)
(***************************************************************************)
Record == [key : Key, entry : EntryType]

LEMMA LargestIn ==
    ASSUME NEW n \in Nat, NEW S, S \subseteq 1..n, S # {}
    PROVE  Max(S) \in S
<1> DEFINE T == {n - x : x \in S}
<1>0. \A x \in S : n - x \in Nat OBVIOUS
<1>1. T \subseteq Nat /\ T # {} BY <1>0
<1>2. PICK m \in T : \A y \in T : m <= y BY <1>1, LeastNatural
<1>3. PICK x \in S : m = n - x BY <1>2
<1>4. ASSUME NEW y \in S PROVE x >= y
  <2>1. n - y \in T OBVIOUS
  <2>2. n - x <= n - y BY <1>2, <1>3, <2>1
  <2> QED BY <1>3, <2>2
<1> QED BY <1>3, <1>4 DEF Max

LEMMA HoldingOne ==
    ASSUME NEW data \in Seq(Record), NEW k
    PROVE  \/ /\ Holding(data, k) = Absent
              /\ \A i \in 1..Len(data) : data[i].key # k
           \/ \E i \in 1..Len(data) : data[i].key = k /\ Holding(data, k) = data[i].entry
<1>1. PICK n \in Nat : n = Len(data) /\ DOMAIN data = 1..n OBVIOUS
<1> DEFINE of == {i \in 1..n : data[i].key = k}
<1>2. Holding(data, k) = IF of = {} THEN Absent ELSE data[Max(of)].entry
  BY <1>1 DEF Holding
<1>3. of \subseteq 1..n OBVIOUS
<1>4. of # {} => Max(of) \in of BY <1>3, LargestIn
<1> QED BY <1>1, <1>2, <1>4

\* All records of a key hold the same entry.
Agreeing(data) == \A i, j \in 1..Len(data) : data[i].key = data[j].key => data[i] = data[j]

LEMMA HoldingAny ==
    ASSUME NEW data \in Seq(Record), Agreeing(data), NEW i \in 1..Len(data)
    PROVE  Holding(data, data[i].key) = data[i].entry
  BY HoldingOne DEF Agreeing

LEMMA HoldingTyped ==
    ASSUME NEW data \in Seq(Record), NEW k
    PROVE  Holding(data, k) \in EntryType \cup {Absent}
<1>1. \A i \in 1..Len(data) : data[i].entry \in EntryType
  <2>1. \A i \in 1..Len(data) : data[i] \in Record BY ElementOfSeq
  <2> QED BY <2>1 DEF Record
<1> QED BY <1>1, HoldingOne

LEMMA LoadedOK ==
    ASSUME NEW file, file.data \in Seq(Record)
    PROVE  /\ DictOK(Loaded(file))
           /\ file.state = "whole" /\ Agreeing(file.data) =>
                  \A k \in Key : Loaded(file).entry[k] =
                      IF IsExpired(Holding(file.data, k)) THEN Absent ELSE Holding(file.data, k)
<1>1. CASE file.state # "whole"
  <2>1. Loaded(file) = NoKeys BY <1>1 DEF Loaded
  <2> QED BY <1>1, <2>1, NoKeysOK
<1>2. CASE file.state = "whole"
  <2>1. PICK data \in Seq(Record) : data = file.data OBVIOUS
  <2>2. PICK l \in Nat : l = Len(data) /\ DOMAIN data = 1..l OBVIOUS
  <2> DEFINE fresh == {i \in DOMAIN data : ~IsExpired(data[i].entry)}
  <2>3. PICK kept : kept = Picked(data, fresh) OBVIOUS
  <2>4. \A i : i \in fresh <=> i \in 1..l /\ ~IsExpired(data[i].entry) BY <2>2
  <2> HIDE DEF fresh
  <2>5. PickedUpTo(kept, Record, data, fresh, l) BY <2>2, <2>3, PickedElements
  <2>6. PICK n \in Nat : n = Len(kept) /\ DOMAIN kept = 1..n BY <2>5 DEF PickedUpTo
  <2>7. kept \in Seq(Record) /\ \A i \in 1..n : kept[i] \in Record
    BY <2>5, <2>6, ElementOfSeq DEF PickedUpTo
  <2> DEFINE new == {i \in DOMAIN kept : \A j \in 1..(i - 1) : kept[j].key # kept[i].key}
  <2>8. PICK firsts : firsts = Picked(kept, new) OBVIOUS
  <2>9. \A i : i \in new <=> i \in 1..n /\ \A j \in 1..(i - 1) : kept[j].key # kept[i].key
    BY <2>6
  <2> HIDE DEF new
  <2>10. \A i, j \in new : kept[i].key = kept[j].key => i = j
    <3> SUFFICES ASSUME NEW i \in new, NEW j \in new, kept[i].key = kept[j].key, i < j
                 PROVE  FALSE
      BY <2>9
    <3>1. i \in 1..(j - 1) BY <2>9
    <3> QED BY <2>9, <3>1
  <2>11. Distinct(kept, new) BY <2>10 DEF Distinct
  <2>12. PickedUpTo(firsts, Record, kept, new, n) /\ NoTwice(firsts)
    BY <2>6, <2>7, <2>8, <2>11, PickedElements
  <2>13. PICK m \in Nat : m = Len(firsts) /\ DOMAIN firsts = 1..m BY <2>12 DEF PickedUpTo
  <2>14. PICK slots : slots = [i \in 1..m |-> firsts[i].key] OBVIOUS
  <2>15. PICK entry : entry = [k \in Key |-> Holding(kept, k)] OBVIOUS
  <2>16. Loaded(file).slots = slots /\ Loaded(file).entry = entry
    <3>1. kept = Picked(file.data, {i \in DOMAIN file.data : ~IsExpired(file.data[i].entry)})
      BY <2>1, <2>3 DEF fresh
    <3>2. firsts = Picked(kept, {i \in DOMAIN kept :
                                    \A j \in 1..(i - 1) : kept[j].key # kept[i].key})
      BY <2>8 DEF new
    <3>3. slots = [i \in DOMAIN firsts |-> firsts[i].key] BY <2>13, <2>14
    <3>4. Loaded(file) = [slots |-> slots, entry |-> entry]
      BY <1>2, <2>15, <3>1, <3>2, <3>3, Zenon DEF Loaded
    <3> QED BY <3>4
  <2>17. slots \in Seq(Key) /\ Len(slots) = m
    <3>1. \A i \in 1..m : slots[i] \in Key
      <4> SUFFICES ASSUME NEW i \in 1..m PROVE slots[i] \in Key OBVIOUS
      <4>1. firsts[i] \in Record BY <2>12, <2>13, ElementOfSeq DEF PickedUpTo
      <4> QED BY <2>14, <4>1 DEF Record
    <3> QED BY <2>14, <3>1, IsASeq
  <2>18. NoTwice(slots)
    <3> SUFFICES ASSUME NEW a \in 1..m, NEW b \in 1..m, slots[a] = slots[b] PROVE a = b
      BY <2>17 DEF NoTwice
    <3>1. PICK i \in 1..n : i \in new /\ firsts[a] = kept[i] BY <2>12, <2>13 DEF PickedUpTo
    <3>2. PICK j \in 1..n : j \in new /\ firsts[b] = kept[j] BY <2>12, <2>13 DEF PickedUpTo
    <3>3. kept[i].key = kept[j].key BY <2>14, <3>1, <3>2
    <3>4. firsts[a] = firsts[b] BY <2>10, <3>1, <3>2, <3>3
    <3> QED BY <2>12, <2>13, <3>4 DEF NoTwice
  <2>19. ASSUME NEW k \in Key
         PROVE  (\E i \in 1..m : slots[i] = k) <=> \E i \in 1..n : kept[i].key = k
    <3>1. ASSUME NEW i \in 1..m, slots[i] = k PROVE \E j \in 1..n : kept[j].key = k
      BY <2>12, <2>13, <2>14, <3>1 DEF PickedUpTo
    <3>2. ASSUME NEW i \in 1..n, kept[i].key = k PROVE \E j \in 1..m : slots[j] = k
      <4> DEFINE S == {j \in 1..n : kept[j].key = k}
      <4>1. S \subseteq Nat /\ S # {} BY <3>2
      <4>2. PICK h \in S : \A j \in S : h <= j BY <4>1, LeastNatural
      <4>3. h \in new
        <5>1. ASSUME NEW j \in 1..(h - 1) PROVE kept[j].key # kept[h].key
          <6>1. j \in 1..n /\ ~(h <= j) OBVIOUS
          <6> QED BY <4>2, <6>1
        <5> QED BY <2>9, <5>1
      <4>4. PICK j \in 1..m : firsts[j] = kept[h] BY <2>12, <2>13, <4>3 DEF PickedUpTo
      <4> QED BY <2>14, <4>4
    <3> QED BY <3>1, <3>2
  <2>20. \A k \in Key : entry[k] # Absent <=> \E i \in 1..n : kept[i].key = k
    <3> SUFFICES ASSUME NEW k \in Key
                 PROVE  Holding(kept, k) # Absent <=> \E i \in 1..n : kept[i].key = k
      BY <2>15
    <3>1. \A i \in 1..n : kept[i].entry # Absent
      BY <2>7, LifeCycleAssumption DEF Record
    <3> QED BY <2>6, <2>7, <3>1, HoldingOne
  <2>21. entry \in [Key -> EntryType \cup {Absent}] BY <2>7, <2>15, HoldingTyped
  <2>22. DictOK(Loaded(file))
    <3>1. Slotted(slots, entry)
      <4>1. slots \in Seq(Key \cup {Hole})
        <5>1. Key \subseteq Key \cup {Hole} OBVIOUS
        <5> QED BY <2>17, <5>1, SeqMonotonic
      <4>2. \A k \in Key : entry[k] # Absent <=> \E i \in 1..m : slots[i] = k BY <2>19, <2>20
      <4> QED BY <2>17, <2>18, <4>1, <4>2 DEF Slotted, NoTwice
    <3>2. Len(slots) <= MaxSlots BY <2>17, <2>18, FewKeys
    <3> QED BY <2>16, <2>21, <3>1, <3>2 DEF DictOK
  <2>23. ASSUME Agreeing(data), NEW k \in Key
         PROVE  entry[k] = IF IsExpired(Holding(data, k)) THEN Absent ELSE Holding(data, k)
    <3>1. entry[k] = Holding(kept, k) BY <2>15
    <3>2. CASE \E i \in 1..l : data[i].key = k
      <4>1. PICK i \in 1..l : data[i].key = k BY <3>2
      <4>2. Holding(data, k) = data[i].entry BY <2>2, <2>23, <4>1, HoldingAny
      <4>3. CASE i \in fresh
        <5>1. PICK j \in 1..n : kept[j] = data[i] BY <2>5, <2>6, <4>3 DEF PickedUpTo
        <5>2. \E h \in 1..n : kept[h].key = k /\ Holding(kept, k) = kept[h].entry
          <6>1. kept[j].key = k BY <4>1, <5>1
          <6>2. \/ \A h \in 1..Len(kept) : kept[h].key # k
                \/ \E h \in 1..Len(kept) : kept[h].key = k /\ Holding(kept, k) = kept[h].entry
            BY <2>7, HoldingOne
          <6> QED BY <2>6, <6>1, <6>2
        <5>3. PICK h \in 1..n : kept[h].key = k /\ Holding(kept, k) = kept[h].entry BY <5>2
        <5>4. PICK g \in 1..l : g \in fresh /\ kept[h] = data[g] BY <2>5, <2>6 DEF PickedUpTo
        <5>5. data[g] = data[i] BY <2>2, <2>23, <4>1, <5>3, <5>4 DEF Agreeing
        <5>6. ~IsExpired(data[i].entry) BY <2>4, <4>3
        <5> QED BY <3>1, <4>2, <5>3, <5>4, <5>5, <5>6
      <4>4. CASE i \notin fresh
        <5>1. IsExpired(data[i].entry) BY <2>4, <4>4
        <5>2. ASSUME NEW h \in 1..n, kept[h].key = k PROVE FALSE
          <6>1. PICK g \in 1..l : g \in fresh /\ kept[h] = data[g] BY <2>5, <2>6 DEF PickedUpTo
          <6>2. data[g] = data[i] BY <2>2, <2>23, <4>1, <5>2, <6>1 DEF Agreeing
          <6> QED BY <2>4, <5>1, <6>1, <6>2
        <5>3. Holding(kept, k) = Absent BY <2>6, <2>7, <5>2, HoldingOne
        <5> QED BY <3>1, <4>2, <5>1, <5>3
      <4> QED BY <4>3, <4>4
    <3>3. CASE ~\E i \in 1..l : data[i].key = k
      <4>1. Holding(data, k) = Absent BY <2>2, <3>3, HoldingOne
      <4>2. ASSUME NEW h \in 1..n, kept[h].key = k PROVE FALSE
        <5>1. PICK g \in 1..l : kept[h] = data[g] BY <2>5, <2>6 DEF PickedUpTo
        <5> QED BY <3>3, <4>2, <5>1
      <4>3. Holding(kept, k) = Absent BY <2>6, <2>7, <4>2, HoldingOne
      <4> QED BY <3>1, <4>1, <4>3 DEF IsExpired
    <3> QED BY <3>2, <3>3
  <2> QED BY <2>1, <2>16, <2>22, <2>23
<1> QED BY <1>1, <1>2

-----------------------------------------------------------------------------
(***************************************************************************)
(* The types of the dictionary and of the heap, command by command.        *)
(***************************************************************************)
HeapOK == IsABag(heap) /\ BagToSet(heap) \subseteq Nat \X Key

KeysOK == DictOK(dict) /\ HeapOK /\ now \in Nat

LEMMA RegisterTypes ==
    ASSUME HeapOK, NEW k \in Key, NEW time \in Nat, Register(k, time)
    PROVE  HeapOK'
  BY RegisterAdds DEF HeapOK

LEMMA LiveTyped ==
    ASSUME NEW d, DictOK(d), NEW k \in Key
    PROVE  Live(d, k) \in EntryType \cup {Absent}
  BY DEF DictOK, Live

LEMMA SetTypes ==
    ASSUME KeysOK, NEW k \in Key, NEW v \in Value, NEW exp \in {Never} \cup Nat, Set(k, v, exp)
    PROVE  DictOK(dict') /\ HeapOK'
<1>1. PICK new \in EntryType : new = [val |-> v, exp |-> exp] BY DEF EntryType
<1>2. dict' \in Put(Looked(dict, k), k, new) BY <1>1 DEF Set
<1>3. DictOK(dict') BY <1>2, LookedOK, PutOK DEF KeysOK
<1>4. HeapOK' BY RegisterTypes DEF Set, KeysOK, HeapOK
<1> QED BY <1>3, <1>4

LEMMA IncrTypes ==
    ASSUME KeysOK, NEW k \in Key, NEW v \in Value, Incr(k, v)
    PROVE  DictOK(dict') /\ HeapOK'
<1>1. PICK exp : exp = IF Live(dict, k) = Absent THEN Never ELSE Live(dict, k).exp OBVIOUS
<1>2. exp \in {Never} \cup Nat BY <1>1, LiveTyped DEF KeysOK, EntryType
<1>3. PICK new \in EntryType : new = [val |-> v, exp |-> exp] BY <1>2 DEF EntryType
<1>4. dict' \in Put(Looked(dict, k), k, new) BY <1>1, <1>3 DEF Incr
<1>5. DictOK(dict') BY <1>4, LookedOK, PutOK DEF KeysOK
<1>6. HeapOK' BY DEF Incr, KeysOK, HeapOK
<1> QED BY <1>5, <1>6

\* Values with a field changed, set or taken away.
LEMMA FieldTyped ==
    ASSUME NEW v \in Value, NEW f \in Field, NEW c \in Content \cup {NoContent}
    PROVE  [v EXCEPT ![f] = c] \in Value
  BY DEF Value

LEMMA EmptyTyped == Empty \in Value
  BY DEF Empty, Value

LEMMA HSetTypes ==
    ASSUME KeysOK, NEW k \in Key, NEW f \in Field, NEW c \in Content, HSet(k, f, c)
    PROVE  DictOK(dict') /\ HeapOK'
<1>1. CASE Live(dict, k) = Absent
  <2>1. PICK v \in Value : v = [Empty EXCEPT ![f] = c] BY EmptyTyped, FieldTyped
  <2>2. PICK new \in EntryType : new = [val |-> v, exp |-> Never] BY DEF EntryType
  <2>3. dict' \in Put(Looked(dict, k), k, new) BY <1>1, <2>1, <2>2 DEF HSet
  <2> QED BY <2>3, LookedOK, PutOK DEF HSet, KeysOK, HeapOK
<1>2. CASE Live(dict, k) # Absent
  <2>1. Live(dict, k) = dict.entry[k] /\ dict.entry[k] # Absent /\ Live(dict, k).val \in Value
    BY <1>2, LiveTyped DEF Live, KeysOK, EntryType
  <2>2. PICK v \in Value : v = [Live(dict, k).val EXCEPT ![f] = c] BY <2>1, FieldTyped
  <2>3. dict' = Valued(dict, k, v) BY <1>2, <2>2 DEF HSet
  <2> QED BY <2>1, <2>3, ValuedOK DEF HSet, KeysOK, HeapOK
<1> QED BY <1>1, <1>2

LEMMA HDelTypes ==
    ASSUME KeysOK, NEW k \in Key, NEW f \in Field, HDel(k, f)
    PROVE  DictOK(dict') /\ HeapOK'
<1>1. CASE Live(dict, k) = Absent
  <2>1. dict' = Looked(dict, k) BY <1>1 DEF HDel
  <2> QED BY <2>1, LookedOK DEF HDel, KeysOK, HeapOK
<1>2. CASE Live(dict, k) # Absent
  <2>1. Live(dict, k) = dict.entry[k] /\ dict.entry[k] # Absent /\ Live(dict, k).val \in Value
    BY <1>2, LiveTyped DEF Live, KeysOK, EntryType
  <2>2. PICK v \in Value : v = [Live(dict, k).val EXCEPT ![f] = NoContent] BY <2>1, FieldTyped
  <2>3. dict' = Removed(dict, k) \/ dict' = Valued(dict, k, v) BY <1>2, <2>2 DEF HDel
  <2> QED BY <2>1, <2>3, RemovedOK, ValuedOK DEF HDel, KeysOK, HeapOK
<1> QED BY <1>1, <1>2

LEMMA ExpireAtTypes ==
    ASSUME KeysOK, NEW k \in Key, NEW time \in Nat, ExpireAt(k, time)
    PROVE  DictOK(dict') /\ HeapOK'
<1>1. PICK looked : looked = Looked(dict, k) /\ DictOK(looked) BY LookedOK DEF KeysOK
<1>2. CASE looked.entry[k] = Absent
  BY <1>1, <1>2 DEF ExpireAt, KeysOK, HeapOK
<1>3. CASE looked.entry[k] # Absent
  <2>1. /\ dict' = IF time <= now THEN Removed(looked, k) ELSE Timed(looked, k, time)
        /\ Register(k, time)
    BY <1>1, <1>3 DEF ExpireAt
  <2>2. DictOK(dict') BY <1>1, <1>3, <2>1, RemovedOK, TimedOK
  <2> QED BY <2>1, <2>2, RegisterTypes DEF KeysOK
<1> QED BY <1>2, <1>3

LEMMA PersistTypes ==
    ASSUME KeysOK, NEW k \in Key, Persist(k)
    PROVE  DictOK(dict') /\ HeapOK'
<1>1. PICK looked : looked = Looked(dict, k) /\ DictOK(looked) BY LookedOK DEF KeysOK
<1>2. dict' = IF looked.entry[k] = Absent THEN looked ELSE Timed(looked, k, Never)
  BY <1>1 DEF Persist
<1>3. DictOK(dict') BY <1>1, <1>2, TimedOK
<1> QED BY <1>3 DEF Persist, KeysOK, HeapOK

LEMMA RenameTypes ==
    ASSUME KeysOK, NEW k \in Key, NEW l \in Key, Rename(k, l)
    PROVE  DictOK(dict') /\ HeapOK'
<1>1. PICK moving \in EntryType \cup {Absent} : moving = Live(dict, k) BY LiveTyped DEF KeysOK
<1>2. CASE moving = Absent
  <2>1. dict' = Looked(dict, k) BY <1>1, <1>2 DEF Rename
  <2> QED BY <2>1, LookedOK DEF Rename, KeysOK, HeapOK
<1>3. CASE moving # Absent
  <2>1. PICK d \in Put(dict, l, moving) : dict' = Removed(d, k) BY <1>1, <1>3 DEF Rename
  <2>2. DictOK(d) BY <1>3, <2>1, PutOK DEF KeysOK
  <2> QED BY <2>1, <2>2, RemovedOK DEF Rename, KeysOK, HeapOK
<1> QED BY <1>2, <1>3

LEMMA PurgeTypes ==
    ASSUME KeysOK, Purge
    PROVE  DictOK(dict') /\ HeapOK'
<1>1. PICK b \in Popped : heap' = heap (-) b /\ dict' = Purged(BagToSet(b)) BY DEF Purge
<1>2. PICK some, few : dict' = RemovedAll(RemovedAll(dict, some), few)
  BY <1>1 DEF Purged, Swept
<1>3. DictOK(dict') BY <1>2, RemovedAllOK DEF KeysOK
<1>4. IsABag(heap') BY <1>1, PoppedItems DEF KeysOK, HeapOK
<1>5. BagToSet(heap') \subseteq BagToSet(heap) BY <1>1 DEF BagToSet, (-)
<1> QED BY <1>3, <1>4, <1>5 DEF KeysOK, HeapOK

LEMMA CommandTypes ==
    ASSUME KeysOK, Command
    PROVE  DictOK(dict') /\ HeapOK'
<1>0. Given \subseteq Value BY LifeCycleAssumption
<1>1. CASE \E k \in Key : \E v \in Given, exp \in Expiries(k) : Set(k, v, exp)
  <2>1. PICK k \in Key : \E v \in Given, exp \in Expiries(k) : Set(k, v, exp) BY <1>1
  <2>2. PICK v \in Given, exp \in Expiries(k) : Set(k, v, exp) BY <2>1
  <2>3. exp \in {Never} \cup Nat
    <3>1. CASE exp \in {now + t : t \in TTL} BY <3>1, LifeCycleAssumption DEF KeysOK
    <3>2. CASE exp \in {entry.exp : entry \in {Live(dict, k)} \ {Absent}}
      BY <3>2, LiveTyped DEF KeysOK, EntryType
    <3> QED BY <2>2, <3>1, <3>2 DEF Expiries
  <2> QED BY <1>0, <2>2, <2>3, SetTypes
<1>2. CASE \E k \in Key, t \in TTL : ExpireAt(k, now + t)
  <2>1. PICK k \in Key, t \in TTL : ExpireAt(k, now + t) BY <1>2
  <2>2. now + t \in Nat BY LifeCycleAssumption DEF KeysOK
  <2> QED BY <2>1, <2>2, ExpireAtTypes
<1>3. CASE Flush BY <1>3, NoKeysOK DEF Flush, KeysOK, HeapOK
<1>4. CASE \E k \in Key : Del(k)
  BY <1>4, RemovedOK DEF Del, KeysOK, HeapOK
<1>5. CASE \E k \in Key, v \in Given : Incr(k, v) BY <1>0, <1>5, IncrTypes
<1>6. CASE \E k \in Key, f \in Field : HDel(k, f) BY <1>6, HDelTypes
<1>7. CASE \E k \in Key, f \in Field, c \in Content : HSet(k, f, c) BY <1>7, HSetTypes
<1> QED BY <1>1, <1>2, <1>3, <1>4, <1>5, <1>6, <1>7, PersistTypes, RenameTypes DEF Command

LEMMA EmbeddedTypes ==
    ASSUME KeysOK, NEW k \in Key, EmbeddedChange(k)
    PROVE  DictOK(dict')
<1>0. Given \subseteq Value BY LifeCycleAssumption
<1>1. CASE \E v \in Given, exp \in {Never} \cup {now + t : t \in TTL \ {0}} :
              dict' \in Put(dict, k, [val |-> v, exp |-> exp])
  <2>1. PICK v \in Given, exp \in {Never} \cup {now + t : t \in TTL \ {0}} :
            dict' \in Put(dict, k, [val |-> v, exp |-> exp])
    BY <1>1
  <2>2. exp \in {Never} \cup Nat BY LifeCycleAssumption DEF KeysOK
  <2>3. [val |-> v, exp |-> exp] \in EntryType BY <1>0, <2>2 DEF EntryType
  <2> QED BY <2>1, <2>3, PutOK DEF KeysOK
<1>2. CASE dict' \in {Removed(dict, k), NoKeys} BY <1>2, RemovedOK, NoKeysOK DEF KeysOK
<1>3. CASE \E v \in Given :
              dict' \in Put(Looked(dict, k), k,
                            [val |-> v, exp |-> IF Live(dict, k) = Absent THEN Never
                                                ELSE dict.entry[k].exp])
  <2>1. PICK exp : exp = IF Live(dict, k) = Absent THEN Never ELSE dict.entry[k].exp OBVIOUS
  <2>2. exp \in {Never} \cup Nat BY <2>1 DEF KeysOK, DictOK, Live, EntryType
  <2>3. PICK v \in Given : dict' \in Put(Looked(dict, k), k, [val |-> v, exp |-> exp])
    BY <1>3, <2>1
  <2>4. [val |-> v, exp |-> exp] \in EntryType BY <1>0, <2>2 DEF EntryType
  <2> QED BY <2>3, <2>4, LookedOK, PutOK DEF KeysOK
<1> QED BY <1>1, <1>2, <1>3 DEF EmbeddedChange

LEMMA StartTypes ==
    ASSUME dump.data \in Seq(Record), Start
    PROVE  DictOK(dict') /\ HeapOK'
<1>1. PICK d : d = Loaded(dump) /\ DictOK(d) BY LoadedOK
<1>2. dict' = d BY <1>1 DEF Start
<1>3. PICK S : /\ S = {<<d.entry[k].exp, k>> :
                         k \in {l \in Key : /\ mode = "server"
                                            /\ d.entry[l] # Absent
                                            /\ d.entry[l].exp # Never}}
               /\ heap' = SetToBag(S)
  BY <1>2 DEF Start
<1>4. \A k \in Key : d.entry[k] # Absent /\ d.entry[k].exp # Never => d.entry[k].exp \in Nat
  BY <1>1 DEF DictOK, EntryType
<1>5. S \subseteq Nat \X Key BY <1>3, <1>4
<1>6. IsABag(heap') /\ BagToSet(heap') = S BY <1>3 DEF SetToBag, IsABag, BagToSet
<1> QED BY <1>1, <1>2, <1>5, <1>6 DEF HeapOK

-----------------------------------------------------------------------------
(***************************************************************************)
(* What a save collects, and the types of the saves and the files.         *)
(***************************************************************************)
\* The records of those of some keys that have not expired.
AreRecords(r, d, keys) ==
    /\ r \in Seq(Record)
    /\ \A i \in 1..Len(r) : r[i].entry = Live(d, r[i].key) /\ Live(d, r[i].key) # Absent
    /\ \A j \in 1..Len(keys) : Live(d, keys[j]) # Absent =>
           \E i \in 1..Len(r) : r[i].key = keys[j]

LEMMA RecordsOK ==
    ASSUME NEW d, DictOK(d), NEW keys \in Seq(Key)
    PROVE  AreRecords(Records(d, keys), d, keys)
<1> DEFINE places == {i \in DOMAIN keys : Live(d, keys[i]) # Absent}
<1>1. PICK l \in Nat : l = Len(keys) /\ DOMAIN keys = 1..l OBVIOUS
<1>2. PICK live : live = Picked(keys, places) OBVIOUS
<1>3. \A i : i \in places <=> i \in 1..l /\ Live(d, keys[i]) # Absent BY <1>1
<1>4. Records(d, keys) = [i \in DOMAIN live |-> [key |-> live[i], entry |-> d.entry[live[i]]]]
  BY <1>2 DEF Records
<1> HIDE DEF places
<1>5. PickedUpTo(live, Key, keys, places, l) BY <1>1, <1>2, PickedElements
<1>6. PICK n \in Nat : n = Len(live) /\ DOMAIN live = 1..n BY <1>5 DEF PickedUpTo
<1>7. PICK r : r = [i \in 1..n |-> [key |-> live[i], entry |-> d.entry[live[i]]]] OBVIOUS
<1>8. Records(d, keys) = r BY <1>4, <1>6, <1>7
<1>9. \A i \in 1..n : live[i] \in Key /\ Live(d, live[i]) # Absent
  <2> SUFFICES ASSUME NEW i \in 1..n PROVE live[i] \in Key /\ Live(d, live[i]) # Absent
    OBVIOUS
  <2>1. PICK j \in 1..l : j \in places /\ live[i] = keys[j] BY <1>5, <1>6 DEF PickedUpTo
  <2> QED BY <1>1, <1>3, <2>1, ElementOfSeq
<1>10. \A i \in 1..n : r[i].key = live[i] /\ r[i].entry = d.entry[live[i]] BY <1>7
<1>11. \A i \in 1..n : d.entry[live[i]] = Live(d, live[i]) BY <1>9 DEF Live
<1>12. \A i \in 1..n : r[i] \in Record
  <2>1. \A i \in 1..n : d.entry[live[i]] \in EntryType BY <1>9, <1>11, LiveTyped
  <2> QED BY <1>7, <1>9, <2>1 DEF Record
<1>13. r \in Seq(Record) /\ Len(r) = n BY <1>7, <1>12, IsASeq
<1>14. ASSUME NEW j \in 1..l, Live(d, keys[j]) # Absent
       PROVE  \E i \in 1..n : r[i].key = keys[j]
  <2>1. j \in places BY <1>3, <1>14
  <2>2. PICK i \in 1..n : live[i] = keys[j] BY <1>5, <1>6, <2>1 DEF PickedUpTo
  <2> QED BY <1>10, <2>2
<1>15. AreRecords(r, d, keys)
  BY <1>1, <1>9, <1>10, <1>11, <1>13, <1>14 DEF AreRecords
<1> QED BY <1>8, <1>15

\* A save between two commands collects what the dictionary holds.
LEMMA CollectedOK ==
    ASSUME NEW d, DictOK(d)
    PROVE  /\ Collected(d) \in Seq(Record)
           /\ Agreeing(Collected(d))
           /\ \A k \in Key : Holding(Collected(d), k) = Live(d, k)
<1>1. PICK keys \in Seq(Key) : keys = InDictOrder(d) BY Order DEF DictOK
<1>2. PICK r : r = Collected(d) OBVIOUS
<1>3. /\ r \in Seq(Record)
      /\ \A i \in 1..Len(r) : r[i].entry = Live(d, r[i].key) /\ Live(d, r[i].key) # Absent
      /\ \A j \in 1..Len(keys) : Live(d, keys[j]) # Absent => \E i \in 1..Len(r) : r[i].key = keys[j]
  <2>1. r = Records(d, keys) BY <1>1, <1>2 DEF Collected
  <2>2. AreRecords(r, d, keys) BY <2>1, RecordsOK
  <2> QED BY <2>2 DEF AreRecords
<1>4. Agreeing(r)
  <2> SUFFICES ASSUME NEW i \in 1..Len(r), NEW j \in 1..Len(r), r[i].key = r[j].key
               PROVE  r[i] = r[j]
    BY DEF Agreeing
  <2>1. r[i] \in Record /\ r[j] \in Record BY <1>3, ElementOfSeq
  <2>2. r[i].entry = r[j].entry BY <1>3
  <2> QED BY <2>1, <2>2 DEF Record
<1>5. ASSUME NEW k \in Key PROVE Holding(r, k) = Live(d, k)
  <2>1. CASE Live(d, k) = Absent
    <3>1. \A i \in 1..Len(r) : r[i].key # k BY <1>3, <2>1
    <3> QED BY <1>3, <2>1, <3>1, HoldingOne
  <2>2. CASE Live(d, k) # Absent
    <3>1. d.entry[k] # Absent BY <2>2 DEF Live
    <3>2. PICK j \in 1..Len(keys) : keys[j] = k BY <1>1, <3>1, Order DEF DictOK
    <3>3. PICK i \in 1..Len(r) : r[i].key = k BY <1>3, <2>2, <3>2
    <3> QED BY <1>3, <3>3, HoldingOne
  <2> QED BY <2>1, <2>2
<1> QED BY <1>2, <1>3, <1>4, <1>5

Phases == {"idle", "asked", "walk", "open", "write", "rename"}
Names == {"none", "tmp", "dump", "gone"}
States == {"none", "blank", "torn", "whole"}

SaveOK(save) == save.phase \in Phases /\ save.file \in Names /\ save.got \in Seq(Record)
FileOK(file) == file.state \in States /\ file.data \in Seq(Record)

SavesOK == SaveOK(main) /\ SaveOK(thread) /\ FileOK(dump) /\ FileOK(tmp)

LEMMA WrittenOK ==
    ASSUME NEW file, NEW data \in Seq(Record), NEW new \in Written(file, data)
    PROVE  FileOK(new)
<1>1. new = Whole(data) \/ new = Torn BY DEF Written
<1>2. FileOK(Torn) BY DEF FileOK, Torn, States
<1>3. FileOK(Whole(data)) BY DEF FileOK, Whole, States
<1> QED BY <1>1, <1>2, <1>3

LEMMA WriteOK ==
    ASSUME FileOK(dump), FileOK(tmp), NEW save, save.got \in Seq(Record), WriteFile(save)
    PROVE  FileOK(dump') /\ FileOK(tmp')
  BY WrittenOK DEF WriteFile

LEMMA RestingOK == SaveOK(Idle) /\ SaveOK(NoThread) /\ FileOK(Blank) /\ FileOK(NoFile)
<1>1. <<>> \in Seq(Record) OBVIOUS
<1> QED BY <1>1 DEF SaveOK, FileOK, Idle, NoThread, Blank, NoFile, Phases, Names, States

LEMMA FileStepTypes ==
    ASSUME SavesOK, DumpInv, FileStep
    PROVE  SavesOK'
<1>1. CASE MainOpen
  <2>1. SaveOK(main') BY <1>1 DEF MainOpen, Opened, SavesOK, SaveOK, DumpInv, MainOK, Phases, Names
  <2> QED BY <1>1, <2>1, RestingOK DEF MainOpen, SavesOK
<1>2. CASE ThreadOpen
  <2>1. SaveOK(thread')
    BY <1>2 DEF ThreadOpen, Opened, SavesOK, SaveOK, DumpInv, ThreadOK, Phases, Names
  <2> QED BY <1>2, <2>1, RestingOK DEF ThreadOpen, SavesOK
<1>3. CASE MainWrite
  <2>1. SaveOK(main') BY <1>3 DEF MainWrite, SavesOK, SaveOK, DumpInv, MainOK, Phases
  <2> QED BY <1>3, <2>1, WriteOK DEF MainWrite, SavesOK, SaveOK
<1>4. CASE ThreadWrite
  <2>1. SaveOK(thread') BY <1>4 DEF ThreadWrite, SavesOK, SaveOK, DumpInv, ThreadOK, Phases
  <2> QED BY <1>4, <2>1, WriteOK DEF ThreadWrite, SavesOK, SaveOK
<1>5. CASE MainRename
  <2>1. SaveOK(thread')
    BY <1>5 DEF MainRename, Renamed, SavesOK, SaveOK, DumpInv, ThreadOK, Names
  <2> QED BY <1>5, <2>1, RestingOK DEF MainRename, files, SavesOK
<1>6. CASE ThreadRename
  <2>1. SaveOK(main')
    BY <1>6 DEF ThreadRename, Renamed, SavesOK, SaveOK, DumpInv, MainOK, Names
  <2> QED BY <1>6, <2>1, RestingOK DEF ThreadRename, files, SavesOK
<1> QED BY <1>1, <1>2, <1>3, <1>4, <1>5, <1>6 DEF FileStep

LEMMA MainSaveTypes ==
    ASSUME SavesOK, NEW d, DictOK(d), MainSave(d)
    PROVE  SavesOK'
<1>1. PICK got \in Seq(Record) : got = Collected(d) BY CollectedOK
<1>2. main' = [phase |-> "open", got |-> got, file |-> "none"] BY <1>1 DEF MainSave
<1>3. SaveOK(main') BY <1>2 DEF SaveOK, Phases, Names
<1> QED BY <1>3 DEF MainSave, files, SavesOK

LEMMA BgSaveTypes ==
    ASSUME SavesOK, DumpInv, BgSave
    PROVE  SavesOK'
<1>1. SaveOK(thread')
  BY DEF BgSave, SavesOK, SaveOK, DumpInv, ThreadOK, Phases
<1> QED BY <1>1 DEF BgSave, files, SavesOK

\* The slot that the thread meets next.
LEMMA NextSlot ==
    ASSUME DictOK(dict), NEW pos, NEW ahead,
           ahead = {i \in Filled(dict) : i > pos}, ahead # {}
    PROVE  /\ Min(ahead) \in ahead
           /\ \A i \in ahead : Min(ahead) <= i
           /\ Min(ahead) \in 1..Len(dict.slots)
           /\ dict.slots[Min(ahead)] \in Key
<1>1. DOMAIN dict.slots = 1..Len(dict.slots) /\ Len(dict.slots) \in Nat BY DEF DictOK, Slotted
<1>2. ahead \subseteq Nat BY <1>1 DEF Filled
<1>3. \E x \in ahead : \A y \in ahead : x <= y BY <1>2, LeastNatural
<1>4. Min(ahead) \in ahead /\ \A i \in ahead : Min(ahead) <= i BY <1>3 DEF Min
<1>5. Min(ahead) \in 1..Len(dict.slots) /\ dict.slots[Min(ahead)] # Hole
  BY <1>1, <1>4 DEF Filled
<1>6. dict.slots[Min(ahead)] \in Key \cup {Hole} BY <1>5, ElementOfSeq DEF DictOK, Slotted
<1> QED BY <1>4, <1>5, <1>6

-----------------------------------------------------------------------------
(***************************************************************************)
(* The object that the thread holds.  A step of another that takes it out  *)
(* of the dictionary leaves it as it was; one that changes it leaves it an *)
(* entry that has not expired.                                             *)
(***************************************************************************)
Holds ==
    /\ held = [at |-> held.at, entry |-> held.entry, passed |-> held.passed]
    /\ held.at \in Key \cup {Nowhere}
    /\ Object \in EntryType

LEMMA DropRemovedCarries ==
    ASSUME Holds, \A k \in Key : dict'.entry[k] \in {dict.entry[k], Absent}, held' = DropRemoved
    PROVE  Holds' /\ Object' = Object
<1>1. Nowhere \notin Key BY ExpirationAssumption
<1>2. CASE held.at = Nowhere BY <1>2 DEF Holds, DropRemoved, Object
<1>3. CASE held.at \in Key
  <2>1. CASE dict'.entry[held.at] = Absent
    <3>1. held' = [at |-> Nowhere, entry |-> dict.entry[held.at], passed |-> held.passed]
      BY <1>1, <1>3, <2>1 DEF DropRemoved, Drop, Holds
    <3> QED BY <1>1, <1>3, <3>1 DEF Holds, Object
  <2>2. CASE dict'.entry[held.at] # Absent
    <3>1. held' = held BY <1>1, <1>3, <2>2 DEF DropRemoved
    <3>2. dict'.entry[held.at] = dict.entry[held.at] BY <1>3, <2>2
    <3> QED BY <3>1, <3>2 DEF Holds, Object
  <2> QED BY <2>1, <2>2
<1> QED BY <1>2, <1>3 DEF Holds

LEMMA DropCarries ==
    ASSUME Holds, NEW k \in Key, \A l \in Key : l # k => dict'.entry[l] = dict.entry[l],
           held' = Drop(k)
    PROVE  Holds' /\ Object' = Object
<1>1. k # Nowhere BY ExpirationAssumption
<1>2. CASE held.at = k
  <2>1. held' = [at |-> Nowhere, entry |-> dict.entry[k], passed |-> held.passed]
    BY <1>2 DEF Drop, Holds
  <2> QED BY <1>1, <1>2, <2>1 DEF Holds, Object
<1>3. CASE held.at # k BY <1>3 DEF Drop, Holds, Object
<1> QED BY <1>2, <1>3

LEMMA ChangeCarries ==
    ASSUME Holds, KeysOK, NEW k \in Key, NEW new \in EntryType, ~IsExpired(new), UNCHANGED now,
           dict'.entry = [dict.entry EXCEPT ![k] = new],
           NEW passed, held' = [at |-> held.at, entry |-> held.entry, passed |-> passed]
    PROVE  Holds' /\ (Object' = Object \/ ~IsExpired(Object)')
<1>1. k # Nowhere BY ExpirationAssumption
<1>2. \A l \in Key : dict'.entry[l] = IF l = k THEN new ELSE dict.entry[l]
  BY DEF KeysOK, DictOK
<1>3. CASE held.at = k
  <2>1. Object' = new BY <1>1, <1>2, <1>3 DEF Object
  <2>2. ~IsExpired(Object)' BY <2>1 DEF IsExpired
  <2> QED BY <2>1, <2>2 DEF Holds
<1>4. CASE held.at # k BY <1>2, <1>4 DEF Holds, Object
<1> QED BY <1>3, <1>4

LEMMA LookedKept ==
    ASSUME KeysOK, NEW k
    PROVE  \A l \in Key : /\ Looked(dict, k).entry[l] \in {dict.entry[l], Absent}
                          /\ Removed(dict, k).entry[l] \in {dict.entry[l], Absent}
                          /\ Removed(Looked(dict, k), k).entry[l] \in {dict.entry[l], Absent}
                          /\ l # k => Looked(dict, k).entry[l] = dict.entry[l]
  BY DEF Looked, Removed, KeysOK, DictOK

LEMMA LiveIs ==
    ASSUME KeysOK, NEW k \in Key, Live(dict, k) # Absent
    PROVE  /\ Live(dict, k) = dict.entry[k] /\ dict.entry[k] \in EntryType
           /\ ~IsExpired(dict.entry[k]) /\ Looked(dict, k) = dict
  BY DEF Live, Looked, KeysOK, DictOK

LEMMA StaysLive ==
    ASSUME NEW old \in EntryType, ~IsExpired(old), NEW v \in Value
    PROVE  [val |-> v, exp |-> old.exp] \in EntryType /\ ~IsExpired([val |-> v, exp |-> old.exp])
<1>1. old # Absent BY LifeCycleAssumption
<1> QED BY <1>1 DEF EntryType, IsExpired

LEMMA SetCarries ==
    ASSUME KeysOK, Holds, NEW k \in Key, NEW v, NEW exp, Set(k, v, exp) \/ Incr(k, v)
    PROVE  Holds' /\ Object' = Object
<1>1. held' = Drop(k) BY DEF Set, Incr
<1>2. PICK new : dict' \in Put(Looked(dict, k), k, new) BY DEF Set, Incr
<1>3. dict'.entry = [Looked(dict, k).entry EXCEPT ![k] = new] BY <1>2 DEF Put
<1>4. \A l \in Key : l # k => dict'.entry[l] = dict.entry[l] BY <1>3, LookedKept
<1> QED BY <1>1, <1>4, DropCarries

LEMMA HSetCarries ==
    ASSUME KeysOK, Holds, NEW k \in Key, NEW f \in Field, NEW c \in Content, HSet(k, f, c)
    PROVE  Holds' /\ (Object' = Object \/ ~IsExpired(Object)')
<1>1. CASE Live(dict, k) = Absent
  <2>1. held' = Drop(k) BY <1>1 DEF HSet
  <2>2. PICK new : dict' \in Put(Looked(dict, k), k, new) BY <1>1 DEF HSet
  <2>3. dict'.entry = [Looked(dict, k).entry EXCEPT ![k] = new] BY <2>2 DEF Put
  <2>4. \A l \in Key : l # k => dict'.entry[l] = dict.entry[l] BY <2>3, LookedKept
  <2> QED BY <2>1, <2>4, DropCarries
<1>2. CASE Live(dict, k) # Absent
  <2>1. PICK old \in EntryType : old = dict.entry[k] /\ old = Live(dict, k) /\ ~IsExpired(old)
    BY <1>2, LiveIs
  <2>2. PICK v \in Value : v = [old.val EXCEPT ![f] = c] BY FieldTyped DEF EntryType
  <2>3. PICK new : new = [val |-> v, exp |-> old.exp] OBVIOUS
  <2>4. new \in EntryType /\ ~IsExpired(new) BY <2>1, <2>3, StaysLive
  <2>5. dict'.entry = [dict.entry EXCEPT ![k] = new] BY <1>2, <2>1, <2>2, <2>3 DEF HSet, Valued
  <2>6. held' = [at |-> held.at, entry |-> held.entry, passed |-> held.passed] /\ UNCHANGED now
    BY <1>2 DEF HSet, Holds
  <2> QED BY <2>4, <2>5, <2>6, ChangeCarries
<1> QED BY <1>1, <1>2

LEMMA HDelCarries ==
    ASSUME KeysOK, Holds, NEW k \in Key, NEW f \in Field, HDel(k, f)
    PROVE  Holds' /\ (Object' = Object \/ ~IsExpired(Object)')
<1>1. CASE Live(dict, k) = Absent
  <2>1. dict' = Looked(dict, k) /\ held' = DropRemoved BY <1>1 DEF HDel
  <2> QED BY <2>1, LookedKept, DropRemovedCarries
<1>2. CASE Live(dict, k) # Absent
  <2>1. PICK old \in EntryType : old = dict.entry[k] /\ old = Live(dict, k) /\ ~IsExpired(old)
    BY <1>2, LiveIs
  <2>2. PICK v \in Value : v = [old.val EXCEPT ![f] = NoContent] BY FieldTyped DEF EntryType
  <2>3. PICK new : new = [val |-> v, exp |-> old.exp] OBVIOUS
  <2>4. new \in EntryType /\ ~IsExpired(new) BY <2>1, <2>3, StaysLive
  <2>5. UNCHANGED now BY DEF HDel
  <2>6. CASE v = Empty
    <3>1. dict' = Removed(dict, k) BY <1>2, <2>1, <2>2, <2>6 DEF HDel
    <3>2. CASE held.at # k
      <4>1. held' = held BY <1>2, <2>1, <2>2, <2>6, <3>2 DEF HDel
      <4>2. \A l \in Key : l # k => dict'.entry[l] = dict.entry[l]
        BY <3>1 DEF Removed, KeysOK, DictOK
      <4> QED BY <3>2, <4>1, <4>2 DEF Holds, Object
    <3>3. CASE held.at = k
      <4>1. held' = [at |-> Nowhere, entry |-> new, passed |-> held.passed \ {f}]
        BY <1>2, <2>1, <2>2, <2>3, <2>6, <3>3 DEF HDel, Holds
      <4>2. Object' = new BY <4>1 DEF Object
      <4>3. ~IsExpired(Object)' BY <2>4, <2>5, <4>2 DEF IsExpired
      <4> QED BY <2>4, <4>1, <4>2, <4>3 DEF Holds
    <3> QED BY <3>2, <3>3
  <2>7. CASE v # Empty
    <3>1. dict' = Valued(dict, k, v) BY <1>2, <2>1, <2>2, <2>7 DEF HDel
    <3>2. dict'.entry = [dict.entry EXCEPT ![k] = new] BY <2>1, <2>3, <3>1 DEF Valued
    <3>3. PICK passed : held' = [at |-> held.at, entry |-> held.entry, passed |-> passed]
      BY <1>2, <2>1, <2>2, <2>7 DEF HDel, Holds
    <3> QED BY <2>4, <2>5, <3>2, <3>3, ChangeCarries
  <2> QED BY <2>6, <2>7
<1> QED BY <1>1, <1>2

\* EXPIRE and its like, PERSIST: the entry that the key has gets another expiry.
LEMMA TimedCarries ==
    ASSUME KeysOK, Holds, NEW k \in Key, NEW exp \in {Never} \cup Nat,
           exp = Never \/ ~(exp <= now), Looked(dict, k).entry[k] # Absent,
           dict' = Timed(Looked(dict, k), k, exp), held' = DropRemoved, UNCHANGED now
    PROVE  Holds' /\ (Object' = Object \/ ~IsExpired(Object)')
<1>1. Live(dict, k) # Absent BY DEF Looked, Live, Removed, KeysOK, DictOK
<1>2. PICK old \in EntryType : old = dict.entry[k] /\ Looked(dict, k) = dict BY <1>1, LiveIs
<1>3. PICK new : new = [val |-> old.val, exp |-> exp] OBVIOUS
<1>4. new \in EntryType /\ ~IsExpired(new) /\ new # Absent
  BY <1>3, LifeCycleAssumption DEF EntryType, IsExpired
<1>5. dict'.entry = [dict.entry EXCEPT ![k] = new] BY <1>2, <1>3 DEF Timed
<1>6. held' = held
  <2>1. CASE held.at = Nowhere BY <2>1 DEF DropRemoved
  <2>2. CASE held.at \in Key
    <3>1. dict.entry[held.at] # Absent
      BY <2>2, ExpirationAssumption, LifeCycleAssumption DEF Holds, Object
    <3>2. dict'.entry[held.at] # Absent BY <1>4, <1>5, <2>2, <3>1 DEF KeysOK, DictOK
    <3> QED BY <3>2 DEF DropRemoved
  <2> QED BY <2>1, <2>2 DEF Holds
<1>7. held' = [at |-> held.at, entry |-> held.entry, passed |-> held.passed]
  BY <1>6 DEF Holds
<1> QED BY <1>4, <1>5, <1>7, ChangeCarries

LEMMA ExpireAtCarries ==
    ASSUME KeysOK, Holds, NEW k \in Key, NEW time \in Nat, ExpireAt(k, time)
    PROVE  Holds' /\ (Object' = Object \/ ~IsExpired(Object)')
<1>0. held' = DropRemoved /\ UNCHANGED now BY DEF ExpireAt
<1>1. CASE dict' = Looked(dict, k) \/ dict' = Removed(Looked(dict, k), k)
  BY <1>0, <1>1, LookedKept, DropRemovedCarries
<1>2. CASE /\ Looked(dict, k).entry[k] # Absent /\ ~(time <= now)
           /\ dict' = Timed(Looked(dict, k), k, time)
  BY <1>0, <1>2, TimedCarries
<1> QED BY <1>1, <1>2 DEF ExpireAt

LEMMA PersistCarries ==
    ASSUME KeysOK, Holds, NEW k \in Key, Persist(k)
    PROVE  Holds' /\ (Object' = Object \/ ~IsExpired(Object)')
<1>0. held' = DropRemoved /\ UNCHANGED now BY DEF Persist
<1>1. CASE dict' = Looked(dict, k) BY <1>0, <1>1, LookedKept, DropRemovedCarries
<1>2. CASE Looked(dict, k).entry[k] # Absent /\ dict' = Timed(Looked(dict, k), k, Never)
  BY <1>0, <1>2, TimedCarries
<1> QED BY <1>1, <1>2 DEF Persist

LEMMA RenameCarries ==
    ASSUME KeysOK, Holds, NEW k \in Key, NEW l \in Key, Rename(k, l)
    PROVE  Holds' /\ Object' = Object
<1>1. CASE Live(dict, k) = Absent
  <2>1. dict' = Looked(dict, k) /\ held' = DropRemoved BY <1>1 DEF Rename
  <2> QED BY <2>1, LookedKept, DropRemovedCarries
<1>2. CASE Live(dict, k) # Absent
  <2>1. PICK moving \in EntryType : moving = Live(dict, k) /\ moving = dict.entry[k]
    BY <1>2, LiveIs
  <2>2. PICK d \in Put(dict, l, moving) : dict' = Removed(d, k) BY <1>2, <2>1 DEF Rename
  <2>3. d.entry = [dict.entry EXCEPT ![l] = moving] BY <2>2 DEF Put
  <2>4. dict'.entry = [[dict.entry EXCEPT ![l] = moving] EXCEPT ![k] = Absent]
    BY <2>2, <2>3 DEF Removed
  <2>5. \A m \in Key : dict'.entry[m] = IF m = k THEN Absent
                                        ELSE IF m = l THEN moving ELSE dict.entry[m]
    BY <2>4 DEF KeysOK, DictOK
  <2>6. held' = IF held.at = k /\ k # l THEN [held EXCEPT !.at = l] ELSE Drop(l)
    BY <1>2, <2>1 DEF Rename
  <2>7. k # Nowhere /\ l # Nowhere BY ExpirationAssumption
  <2>8. CASE held.at = k /\ k # l
    <3>1. held' = [at |-> l, entry |-> held.entry, passed |-> held.passed]
      BY <2>6, <2>8 DEF Holds
    <3>2. Object' = moving BY <2>5, <2>7, <2>8, <3>1 DEF Object
    <3>3. Object = moving BY <2>1, <2>7, <2>8 DEF Object
    <3> QED BY <3>1, <3>2, <3>3 DEF Holds
  <2>9. CASE held.at = l
    <3>1. held' = [at |-> Nowhere, entry |-> dict.entry[l], passed |-> held.passed]
      BY <2>6, <2>9 DEF Holds, Drop
    <3> QED BY <2>7, <2>9, <3>1 DEF Holds, Object
  <2>10. CASE held.at # k /\ held.at # l
    <3>1. held' = held BY <2>6, <2>10 DEF Drop
    <3> QED BY <2>5, <2>10, <3>1 DEF Holds, Object
  <2> QED BY <2>8, <2>9, <2>10
<1> QED BY <1>1, <1>2

LEMMA PurgeCarries ==
    ASSUME KeysOK, Holds, Purge
    PROVE  Holds' /\ Object' = Object
<1>1. held' = DropRemoved BY DEF Purge
<1>2. PICK some, few : dict' = RemovedAll(RemovedAll(dict, some), few)
  BY DEF Purge, Purged, Swept
<1>3. \A k \in Key : dict'.entry[k] \in {dict.entry[k], Absent} BY <1>2 DEF RemovedAll
<1> QED BY <1>1, <1>3, DropRemovedCarries

LEMMA CommandCarries ==
    ASSUME KeysOK, Holds, Command
    PROVE  Holds' /\ (Object' = Object \/ ~IsExpired(Object)')
<1>1. CASE \E k \in Key, t \in TTL : ExpireAt(k, now + t)
  <2>1. PICK k \in Key, t \in TTL : ExpireAt(k, now + t) BY <1>1
  <2>2. now + t \in Nat BY LifeCycleAssumption DEF KeysOK
  <2> QED BY <2>1, <2>2, ExpireAtCarries
<1>2. CASE Flush \/ \E k \in Key : Del(k)
  <2>1. held' = DropRemoved BY <1>2 DEF Flush, Del
  <2>2. \A k \in Key : dict'.entry[k] \in {dict.entry[k], Absent}
    BY <1>2, LookedKept DEF Flush, Del, NoKeys
  <2> QED BY <2>1, <2>2, DropRemovedCarries
<1>3. CASE \E k \in Key, v \in Given : \/ Incr(k, v)
                                      \/ \E exp \in Expiries(k) : Set(k, v, exp)
  BY <1>3, SetCarries
<1>4. CASE \E k \in Key, f \in Field : HDel(k, f) \/ \E c \in Content : HSet(k, f, c)
  BY <1>4, HSetCarries, HDelCarries
<1>5. CASE \E k \in Key : Persist(k) \/ \E l \in Key : Rename(k, l)
  BY <1>5, PersistCarries, RenameCarries
<1> QED BY <1>1, <1>2, <1>3, <1>4, <1>5 DEF Command

\* A thread that holds nothing is given nothing.
LEMMA NothingHeld ==
    ASSUME held = NoHold, Command \/ ActiveExpiry \/ Read
    PROVE  held' = NoHold
<1>1. held.at = Nowhere BY DEF NoHold
<1>2. \A k \in Key : k # Nowhere BY ExpirationAssumption
<1>3. \A k \in Key : Drop(k) = held BY <1>1, <1>2 DEF Drop
<1>4. DropRemoved = held BY <1>1 DEF DropRemoved
<1>5. CASE ActiveExpiry \/ Read BY <1>4, <1>5 DEF ActiveExpiry, Purge, Read, Access
<1>6. CASE \E k \in Key, f \in Field : HDel(k, f) \/ \E c \in Content : HSet(k, f, c)
  BY <1>1, <1>2, <1>3, <1>4, <1>6 DEF HDel, HSet
<1>7. CASE \E k \in Key, l \in Key : Rename(k, l)
  BY <1>1, <1>2, <1>3, <1>4, <1>7 DEF Rename
<1>8. held' = held
  BY <1>3, <1>4, <1>5, <1>6, <1>7 DEF Command, Set, Incr, ExpireAt, Persist, Del, Flush
<1> QED BY <1>8

(***************************************************************************)
(* What the thread has in its hands: nothing between two entries; else an  *)
(* object, of which a part has been read.                                  *)
(***************************************************************************)
HandsEmpty == hand = NoHand /\ held = NoHold

HandTyped ==
    /\ hand = [read |-> hand.read, key |-> hand.key, exp |-> hand.exp, val |-> hand.val,
               size |-> hand.size, met |-> hand.met]
    /\ hand.read \in Reads /\ hand.key \in Key
    /\ hand.exp \in {Never} \cup Nat /\ hand.val \in Value

HandsFull == thread.phase = "walk" /\ HandTyped /\ Holds

HandsOK == HandsEmpty \/ HandsFull

LEMMA EmptyHands ==
    ASSUME HandsOK, hand.read = "none" \/ thread.phase # "walk"
    PROVE  HandsEmpty
  BY DEF HandsOK, HandsFull, HandTyped, Reads

LEMMA FullHands ==
    ASSUME HandsOK, hand.read \in Reads
    PROVE  HandsFull
  BY DEF HandsOK, HandsEmpty, NoHand, Reads

\* What the thread meets is stored, and it has read nothing of it yet.
LEMMA MeetsObject ==
    ASSUME DictOK(dict), MeetsNext, UNCHANGED dict
    PROVE  \E at \in 1..Len(dict.slots) :
              /\ at > thread.pos /\ \A i \in Filled(dict) : i > thread.pos => at <= i
              /\ dict.slots[at] \in Key
              /\ thread' = [thread EXCEPT !.pos = at, !.met = @ + 1]
              /\ hand' = [NoHand EXCEPT !.read = "check", !.key = dict.slots[at]]
              /\ Holds' /\ Object' = dict.entry[dict.slots[at]]
<1>1. PICK ahead : ahead = {i \in Filled(dict) : i > thread.pos} /\ ahead # {}
                   /\ Meets(Min(ahead))
  BY DEF MeetsNext
<1>2. PICK at \in 1..Len(dict.slots) :
          at = Min(ahead) /\ at \in ahead /\ (\A i \in ahead : at <= i)
          /\ dict.slots[at] \in Key
  BY <1>1, NextSlot
<1>3. PICK k \in Key : k = dict.slots[at] /\ k # Nowhere BY <1>2, ExpirationAssumption
<1>4. held' = [at |-> k, entry |-> Absent, passed |-> {}]
  BY <1>1, <1>2, <1>3 DEF Meets, NoHold
<1>5. Object' = dict.entry[k] BY <1>3, <1>4 DEF Object
<1>6. dict.entry[k] \in EntryType BY <1>3 DEF DictOK, Slotted
<1>7. Holds' BY <1>4, <1>5, <1>6 DEF Holds
<1> QED BY <1>1, <1>2, <1>3, <1>5, <1>7 DEF Meets

LEMMA LooksTyped ==
    ASSUME HandsFull, Looks, UNCHANGED dict
    PROVE  HandTyped' /\ Holds' /\ Object' = Object
<1>1. CASE UNCHANGED held
  <2>1. Holds' /\ Object' = Object BY <1>1 DEF Holds, Object, HandsFull
  <2>2. HandTyped'
    <3>1. ASSUME NEW from, NEW to \in Reads, MovesOn(from, to) PROVE HandTyped'
      BY <3>1 DEF MovesOn, HandTyped, HandsFull
    <3>2. CASE Stamps
      <4>1. Object.exp \in {Never} \cup Nat BY DEF HandsFull, Holds, EntryType
      <4> QED BY <3>2, <4>1 DEF Stamps, HandTyped, HandsFull, Reads
    <3>3. CASE Counts BY <3>3 DEF Counts, HandTyped, HandsFull, Reads
    <3>4. CASE Passes
      <4>1. PICK f \in FieldsOf(Object.val) :
                hand' = [hand EXCEPT !.val = [@ EXCEPT ![f] = Object.val[f]], !.met = @ + 1]
        BY <3>4 DEF Passes
      <4>2. PICK v \in Value : v = [hand.val EXCEPT ![f] = Object.val[f]]
        <5>1. f \in Field BY DEF FieldsOf
        <5>2. Object.val[f] \in Content \cup {NoContent}
          BY <5>1 DEF HandsFull, Holds, EntryType, Value
        <5> QED BY <5>1, <5>2, FieldTyped DEF HandsFull, HandTyped
      <4>3. hand' = [hand EXCEPT !.val = v, !.met = @ + 1] BY <4>1, <4>2
      <4> QED BY <4>3 DEF HandTyped, HandsFull, Reads
    <3> QED BY <3>1, <3>2, <3>3, <3>4 DEF Looks, Reads
  <2> QED BY <2>1, <2>2
<1>2. CASE Passes
  <2>1. PICK f \in FieldsOf(Object.val) :
            /\ hand' = [hand EXCEPT !.val = [@ EXCEPT ![f] = Object.val[f]], !.met = @ + 1]
            /\ held' = [held EXCEPT !.passed = @ \cup {f}]
    BY <1>2 DEF Passes
  <2>2. PICK v \in Value : v = [hand.val EXCEPT ![f] = Object.val[f]]
    <3>1. f \in Field BY DEF FieldsOf
    <3>2. Object.val[f] \in Content \cup {NoContent}
      BY <3>1 DEF HandsFull, Holds, EntryType, Value
    <3> QED BY <3>1, <3>2, FieldTyped DEF HandsFull, HandTyped
  <2>3. hand' = [hand EXCEPT !.val = v, !.met = @ + 1] BY <2>1, <2>2
  <2>4. HandTyped' BY <1>2, <2>3 DEF HandTyped, HandsFull, Passes, Reads
  <2>5. PICK passed : held' = [at |-> held.at, entry |-> held.entry, passed |-> passed]
    BY <2>1 DEF HandsFull, Holds
  <2>6. Holds' /\ Object' = Object BY <2>5 DEF HandsFull, Holds, Object
  <2> QED BY <2>4, <2>6
<1> QED BY <1>1, <1>2 DEF Looks, MovesOn, Stamps, Counts

LEMMA ReadHands ==
    ASSUME DictOK(dict), HandsOK, ThreadRead, UNCHANGED dict, DumpInv
    PROVE  HandsOK'
<1>0. thread.phase = "walk" BY ReadCases
<1>1. CASE Raised \/ Skips \/ Records1
  BY <1>1 DEF Raised, Skips, Records1, HandsOK, HandsEmpty
<1>2. CASE WalkEnds BY <1>2, EmptyHands DEF WalkEnds, HandsOK, HandsEmpty
<1>3. CASE MeetsNext
  <2>1. PICK at : /\ dict.slots[at] \in Key
                  /\ thread' = [thread EXCEPT !.pos = at, !.met = @ + 1]
                  /\ hand' = [NoHand EXCEPT !.read = "check", !.key = dict.slots[at]]
                  /\ Holds'
    BY <1>3, MeetsObject
  <2>2. thread'.phase = "walk" BY <1>0, <2>1 DEF DumpInv, ThreadOK
  <2>3. HandTyped' BY <2>1, EmptyTyped DEF NoHand, HandTyped, Reads
  <2> QED BY <2>1, <2>2, <2>3 DEF HandsOK, HandsFull
<1>4. CASE Looks
  <2>1. hand.read \in Reads BY <1>4 DEF Looks, MovesOn, Stamps, Counts, Passes, Reads
  <2> QED BY <1>0, <1>4, <2>1, FullHands, LooksTyped DEF HandsOK, HandsFull, Looks
<1> QED BY <1>1, <1>2, <1>3, <1>4, ReadCases

LEMMA ThreadStepTypes ==
    ASSUME SavesOK, DumpInv, HandsOK, DictOK(dict), UNCHANGED dict, ThreadBegin \/ ThreadRead
    PROVE  SavesOK'
<1>1. UNCHANGED <<main, dump, tmp>> BY ReadCases DEF ThreadBegin, files
<1>2. SaveOK(thread')
  <2> USE DEF SavesOK, SaveOK, DumpInv, ThreadOK, Phases
  <2>1. CASE ThreadBegin
    <3>1. PICK size : thread' = [thread EXCEPT !.phase = "walk", !.size = size]
      BY <2>1 DEF ThreadBegin
    <3> QED BY <3>1
  <2>2. CASE Raised BY <2>2, RestingOK DEF Raised
  <2>3. CASE WalkEnds BY <2>3 DEF WalkEnds
  <2>4. CASE MeetsNext
    <3>1. PICK at : thread' = [thread EXCEPT !.pos = at, !.met = @ + 1]
      BY <2>4 DEF MeetsNext, Meets
    <3> QED BY <3>1
  <2>5. CASE Looks BY <2>5 DEF Looks
  <2>6. ASSUME NEW more \in Seq(Record), thread' = [thread EXCEPT !.got = @ \o more]
        PROVE  SaveOK(thread')
    <3>1. PICK got : got = thread.got \o more OBVIOUS
    <3>2. got \in Seq(Record) BY <3>1, ConcatProperties
    <3>3. thread' = [thread EXCEPT !.got = got] BY <2>6, <3>1
    <3> QED BY <3>2, <3>3
  <2>7. CASE Skips
    <3>1. <<>> \in Seq(Record) OBVIOUS
    <3> QED BY <2>6, <2>7, <3>1 DEF Skips
  <2>8. CASE Records1
    <3>1. hand.read \in Reads BY <2>8 DEF Records1, Reads
    <3>2. HandRecord \in Record
      BY <3>1, FullHands DEF HandRecord, HandsFull, HandTyped, Record, EntryType
    <3>3. <<HandRecord>> \in Seq(Record) BY <3>2
    <3> QED BY <2>6, <2>8, <3>3 DEF Records1
  <2> QED BY <2>1, <2>2, <2>3, <2>4, <2>5, <2>7, <2>8, ReadCases
<1> QED BY <1>1, <1>2 DEF SavesOK

-----------------------------------------------------------------------------
(***************************************************************************)
(* The types of the whole program.                                         *)
(***************************************************************************)
\* Only a server that is up has a thread that saves.
ThreadHome == mode = "embedded" \/ up = "down" => thread.phase = "idle"

TypesInv == DumpInv /\ KeysOK /\ SavesOK /\ HandsOK /\ ThreadHome

LEMMA SameSaves ==
    ASSUME SavesOK, UNCHANGED <<dump, tmp, main, thread>>
    PROVE  SavesOK'
  BY DEF SavesOK

LEMMA SameKeys ==
    ASSUME KeysOK, UNCHANGED <<dict, heap, now>>
    PROVE  KeysOK'
  BY DEF KeysOK, HeapOK

LEMMA EmptyHeap == IsABag(EmptyBag) /\ BagToSet(EmptyBag) = {}
  BY DEF EmptyBag, IsABag, BagToSet, SetToBag

LEMMA KeysStep ==
    ASSUME TypesInv, Next
    PROVE  KeysOK'
<1> USE DEF TypesInv
<1>1. CASE Command
  <2>1. UNCHANGED now
    BY <1>1 DEF Command, Set, Incr, HSet, HDel, ExpireAt, Persist, Rename, Del, Flush
  <2> QED BY <1>1, <2>1, CommandTypes DEF KeysOK
<1>2. CASE ActiveExpiry
  BY <1>2, PurgeTypes DEF ActiveExpiry, Purge, KeysOK
<1>3. CASE EmbeddedCall
  <2>1. DictOK(dict') BY <1>3, EmbeddedTypes DEF EmbeddedCall
  <2> QED BY <1>3, <2>1 DEF EmbeddedCall, KeysOK, HeapOK
<1>4. CASE Read
  <2>1. PICK k \in Key : dict' = Removed(dict, k) /\ UNCHANGED <<heap, now>>
    BY <1>4 DEF Read, Access
  <2>2. DictOK(dict') BY <2>1, RemovedOK DEF KeysOK
  <2> QED BY <2>1, <2>2 DEF KeysOK, HeapOK
<1>5. CASE Clock BY <1>5 DEF Clock, Tick, KeysOK, HeapOK
<1>6. CASE Exit BY <1>6, EmptyHeap DEF Exit, KeysOK, HeapOK
<1>7. CASE Crash BY <1>7, EmptyHeap, NoKeysOK DEF Crash, KeysOK, HeapOK
<1>8. CASE Start
  BY <1>8, StartTypes DEF Start, SavesOK, FileOK, KeysOK
<1>9. CASE SaveCommand \/ ThreadStep \/ SaveStep \/ Stop
  BY <1>9, SameKeys DEF SaveCommand, ThreadStep, SaveStep, Stop, state
<1> QED BY <1>1, <1>2, <1>3, <1>4, <1>5, <1>6, <1>7, <1>8, <1>9 DEF Next

LEMMA SavesStep ==
    ASSUME TypesInv, KeysOK', Next
    PROVE  SavesOK'
<1> USE DEF TypesInv
<1>1. CASE SaveCommand
  BY <1>1, MainSaveTypes, BgSaveTypes DEF SaveCommand, KeysOK
<1>2. CASE Stop BY <1>2, MainSaveTypes DEF Stop, KeysOK
<1>3. CASE EmbeddedCall BY <1>3, MainSaveTypes DEF EmbeddedCall, KeysOK
<1>4. CASE ThreadStep BY <1>4, ThreadStepTypes DEF ThreadStep, KeysOK, state
<1>5. CASE SaveStep BY <1>5, FileStepTypes DEF SaveStep
<1>6. CASE Crash BY <1>6, RestingOK DEF Crash, files, SavesOK
<1>7. CASE Command \/ ActiveExpiry \/ Read \/ Clock \/ Exit \/ Start
  BY <1>7, SameSaves DEF Command, ActiveExpiry, Read, Clock, Exit, Start, saves
<1> QED BY <1>1, <1>2, <1>3, <1>4, <1>5, <1>6, <1>7 DEF Next

LEMMA SameHands ==
    ASSUME HandsOK, UNCHANGED <<dict, held, hand>>,
           thread'.phase = thread.phase \/ HandsEmpty
    PROVE  HandsOK' /\ Object' = Object
  BY DEF HandsOK, HandsEmpty, HandsFull, HandTyped, Holds, Object

\* The steps of others: the object that the thread holds is as it was, or has not expired.
LEMMA ObjectCarries ==
    ASSUME TypesInv, Next, ~Crash, ~(ThreadStep /\ ThreadRead)
    PROVE  /\ HandsOK' /\ hand' = hand
           /\ Object' = Object \/ ~IsExpired(Object)'
<1> USE DEF TypesInv
<1>1. CASE Command \/ ActiveExpiry \/ Read
  <2>1. hand' = hand /\ thread' = thread BY <1>1 DEF Command, ActiveExpiry, Read, saves
  <2>2. CASE HandsEmpty
    <3>1. HandsEmpty' BY <1>1, <2>1, <2>2, NothingHeld DEF HandsEmpty
    <3>2. Object' = Object BY <2>2, <3>1 DEF HandsEmpty, NoHold, Object
    <3> QED BY <2>1, <3>1, <3>2 DEF HandsOK
  <2>3. CASE HandsFull
    <3>1. Holds BY <2>3 DEF HandsFull
    <3>2. Holds' /\ (Object' = Object \/ ~IsExpired(Object)')
      <4>1. CASE Command BY <3>1, <4>1, CommandCarries
      <4>2. CASE ActiveExpiry BY <3>1, <4>2, PurgeCarries DEF ActiveExpiry
      <4>3. CASE Read
        <5>1. PICK k \in Key : dict' = Removed(dict, k) /\ held' = DropRemoved
          BY <4>3 DEF Read, Access
        <5>2. \A l \in Key : dict'.entry[l] \in {dict.entry[l], Absent} BY <5>1, LookedKept
        <5> QED BY <3>1, <5>1, <5>2, DropRemovedCarries
      <4> QED BY <1>1, <4>1, <4>2, <4>3
    <3> QED BY <2>1, <2>3, <3>2 DEF HandsOK, HandsFull, HandTyped
  <2> QED BY <2>2, <2>3 DEF HandsOK
<1>2. CASE Clock \/ Exit \/ Stop \/ SaveCommand
  <2>1. UNCHANGED <<dict, held, hand>>
    BY <1>2 DEF Clock, Tick, Exit, Stop, SaveCommand, state, saves
  <2>2. thread'.phase = thread.phase \/ HandsEmpty
    <3>1. thread' = thread \/ thread.phase # "walk"
      BY <1>2 DEF Clock, Exit, Stop, SaveCommand, MainSave, BgSave, saves
    <3> QED BY <3>1, EmptyHands
  <2> QED BY <2>1, <2>2, SameHands
<1>3. CASE SaveStep
  <2>1. UNCHANGED <<dict, held, hand>> BY <1>3 DEF SaveStep, state
  <2>2. thread'.phase = thread.phase \/ thread.phase # "walk"
    BY <1>3 DEF SaveStep, FileStep, MainOpen, MainWrite, MainRename, Renamed,
                ThreadOpen, ThreadWrite, ThreadRename, DumpInv, ThreadOK
  <2> QED BY <2>1, <2>2, EmptyHands, SameHands
<1>4. CASE ThreadStep
  <2>1. ThreadBegin BY <1>4 DEF ThreadStep
  <2>2. UNCHANGED <<dict, held, hand>> /\ thread.phase # "walk"
    BY <1>4, <2>1 DEF ThreadStep, ThreadBegin
  <2> QED BY <2>2, EmptyHands, SameHands
<1>5. CASE EmbeddedCall \/ Start
  <2>1. thread.phase = "idle" BY <1>5 DEF EmbeddedCall, Start, ThreadHome
  <2>2. HandsEmpty BY <2>1, EmptyHands
  <2>3. UNCHANGED <<held, hand>> BY <1>5 DEF EmbeddedCall, Start, saves
  <2> QED BY <2>2, <2>3 DEF HandsOK, HandsEmpty, NoHold, Object
<1> QED BY <1>1, <1>2, <1>3, <1>4, <1>5 DEF Next

LEMMA HandsStep ==
    ASSUME TypesInv, Next
    PROVE  HandsOK' /\ ThreadHome'
<1> USE DEF TypesInv
<1>1. HandsOK'
  <2>1. CASE Crash BY <2>1 DEF Crash, HandsOK, HandsEmpty
  <2>2. CASE ThreadStep /\ ThreadRead BY <2>2, ReadHands DEF ThreadStep, KeysOK
  <2> QED BY <2>1, <2>2, ObjectCarries
<1>2. ThreadHome'
  <2>1. CASE SaveCommand BY <2>1 DEF SaveCommand, AtLoop, ThreadHome, process
  <2>2. CASE Crash BY <2>2 DEF Crash, NoThread, ThreadHome
  <2>3. CASE SaveStep
    <3>1. thread.phase = "idle" => thread'.phase = "idle"
      BY <2>3 DEF SaveStep, FileStep, MainOpen, MainWrite, MainRename, Renamed,
                  ThreadOpen, ThreadWrite, ThreadRename, DumpInv, ThreadOK
    <3> QED BY <2>3, <3>1 DEF SaveStep, ThreadHome, process
  <2>4. CASE ThreadStep
    <3>1. thread.phase # "idle" BY <2>4, ReadCases DEF ThreadStep, ThreadBegin
    <3> QED BY <2>4, <3>1 DEF ThreadStep, ThreadHome, process
  <2>5. CASE EmbeddedCall \/ Stop
    BY <2>5 DEF EmbeddedCall, Stop, MainSave, AtLoop, ThreadHome, process
  <2>6. CASE Exit \/ Start BY <2>6 DEF Exit, Start, saves, ThreadHome
  <2>7. CASE Command \/ ActiveExpiry \/ Read \/ Clock
    BY <2>7 DEF Command, ActiveExpiry, Read, Clock, saves, process, ThreadHome
  <2> QED BY <2>1, <2>2, <2>3, <2>4, <2>5, <2>6, <2>7 DEF Next
<1> QED BY <1>1, <1>2

LEMMA TypesStep ==
    ASSUME TypesInv, [Next]_vars
    PROVE  TypesInv'
<1>1. DumpInv' BY DumpStep DEF TypesInv
<1>2. CASE Next BY <1>1, <1>2, KeysStep, SavesStep, HandsStep DEF TypesInv
<1>3. CASE UNCHANGED vars
  <2>1. HandsOK' BY <1>3, SameHands DEF vars, state, saves, TypesInv
  <2>2. ThreadHome' BY <1>3 DEF vars, saves, process, TypesInv, ThreadHome
  <2> QED BY <1>1, <1>3, <2>1, <2>2, SameKeys, SameSaves DEF vars, state, saves, TypesInv
<1> QED BY <1>2, <1>3

LEMMA TypesInit == Init => TypesInv
<1> SUFFICES ASSUME Init PROVE TypesInv OBVIOUS
<1>1. DumpInv BY DumpInit
<1>2. KeysOK BY EmptyHeap, NoKeysOK DEF Init, KeysOK, HeapOK
<1>3. FileOK(dump)
  <2>1. CASE dump = NoFile BY <2>1, RestingOK
  <2>2. ASSUME NEW data \in Dumps, dump = Whole(data) PROVE FileOK(dump)
    <3>1. data \in Seq(Record) BY LifeCycleAssumption DEF Record
    <3> QED BY <2>2, <3>1 DEF FileOK, Whole, States
  <2> QED BY <2>1, <2>2 DEF Init
<1>4. SavesOK BY <1>3, RestingOK DEF Init, SavesOK
<1>5. HandsOK /\ ThreadHome BY DEF Init, HandsOK, HandsEmpty, ThreadHome, NoThread
<1> QED BY <1>1, <1>2, <1>4, <1>5 DEF TypesInv

(***************************************************************************)
(* The dictionary, the heap, the saves and the files have their types, for *)
(* any keys and sizes of the table: no key is in two slots, and the table  *)
(* has room for every key (storage/keyspace.py, persistence/snapshot.py).  *)
(***************************************************************************)
THEOREM LifeCycleTypes == Spec => []TypeOK
<1>1. TypesInv => TypeOK
  <2> SUFFICES ASSUME TypesInv PROVE TypeOK OBVIOUS
  <2>1. DictOK(dict) BY DEF TypesInv, KeysOK
  <2>2. {k \in Key : dict.entry[k] # Absent}
            = {s \in {dict.slots[i] : i \in DOMAIN dict.slots} : s # Hole}
    <3>1. PICK s \in Seq(Key \cup {Hole}) : s = dict.slots BY <2>1 DEF DictOK, Slotted
    <3>2. DOMAIN s = 1..Len(s) /\ \A i \in 1..Len(s) : s[i] \in Key \cup {Hole}
      BY ElementOfSeq
    <3>3. \A k \in Key : dict.entry[k] # Absent <=> \E i \in 1..Len(s) : s[i] = k
      BY <2>1, <3>1 DEF DictOK, Slotted
    <3> QED BY <3>1, <3>2, <3>3, ExpirationAssumption
  <2>3. Size(dict) = Cardinality({k \in Key : dict.entry[k] # Absent})
    BY <2>1, SizeIsCardinality DEF DictOK, Present
  <2>4. Len(dict.slots) <= MaxSlots /\ dict.entry \in [Key -> EntryType \cup {Absent}]
    BY <2>1 DEF DictOK
  <2>5. IsABag(heap) /\ BagToSet(heap) \subseteq Nat \X Key BY DEF TypesInv, KeysOK, HeapOK
  <2>6. /\ {main.phase, thread.phase} \subseteq
               {"idle", "asked", "walk", "open", "write", "rename"}
        /\ {main.file, thread.file} \subseteq {"none", "tmp", "dump", "gone"}
        /\ {dump.state, tmp.state} \subseteq {"none", "blank", "torn", "whole"}
    BY DEF TypesInv, SavesOK, SaveOK, FileOK, Phases, Names, States
  <2>7. hand.read # "none" => /\ thread.phase = "walk" /\ hand.read \in Reads
                              /\ hand.key \in Key /\ Object \in EntryType
    BY DEF TypesInv, HandsOK, HandsEmpty, NoHand, HandsFull, HandTyped, Holds
  <2> QED BY <2>2, <2>3, <2>4, <2>5, <2>6, <2>7 DEF TypeOK
<1>2. TypesInv /\ [Next]_vars => TypesInv' BY TypesStep
<1> QED BY <1>1, <1>2, TypesInit, PTL DEF Spec

-----------------------------------------------------------------------------
(***************************************************************************)
(* The walk of the saving thread.  While it goes on, every record that it  *)
(* has, and what it has read of the entry it is at, are pieced together    *)
(* from entries that the key had since the walk began; the object itself   *)
(* is one of them once it is known not to have expired.  And unless the    *)
(* table was rebuilt, a key without a record was absent at some moment, is *)
(* still ahead of the thread or is the one it is at.                       *)
(***************************************************************************)
Recorded(got, k) == \E i \in 1..Len(got) : got[i].key = k

Ahead(d, pos, k) == \E i \in 1..Len(d.slots) : i > pos /\ d.slots[i] = k

At(k) == hand.read \in Reads /\ hand.key = k

Seen(got, entries) == \A i \in 1..Len(got) : PiecedFrom(got[i].entry, entries[got[i].key])

ExpiryFrom(exp, entries) == \E e \in entries : e # Absent /\ e.exp = exp

FieldsFrom(val, entries) ==
    \A f \in FieldsOf(val) : \E e \in entries : e # Absent /\ e.val[f] = val[f]

Gathered ==
    hand.read \in Reads =>
        /\ (IF IsExpired(Object) THEN Absent ELSE Object) \in since[hand.key]
        /\ hand.read \notin {"check", "compare"} => Object \in since[hand.key]
        /\ hand.read \notin {"value", "fields"} => hand.exp = Never
        /\ hand.read \in {"value", "fields"} => ExpiryFrom(hand.exp, since[hand.key])
        /\ FieldsFrom(hand.val, since[hand.key])

WalkInv ==
    /\ thread.phase = "asked" => thread.got = <<>> /\ thread.pos = 0
    /\ thread.phase = "walk" =>
           /\ thread.pos \in Nat
           /\ \A k \in Key : Live(dict, k) \in since[k]
           /\ Seen(thread.got, since)
           /\ Gathered
           /\ ~rebuilt => \A k \in Key :
                 \/ Absent \in since[k] \/ Recorded(thread.got, k)
                 \/ Ahead(dict, thread.pos, k) \/ At(k)
    /\ thread.phase = "open" =>
           /\ Seen(thread.got, since)
           /\ ~rebuilt => \A k \in Key : Absent \in since[k] \/ Recorded(thread.got, k)

\* What a step does to the thread while it collects.
Same ==
    /\ thread'.phase = thread.phase /\ thread'.got = thread.got /\ thread'.pos = thread.pos
    /\ hand' = hand
    /\ Object' = Object \/ ~IsExpired(Object)'

LEMMA SaveStepThread ==
    ASSUME DumpInv, FileStep
    PROVE  \/ /\ thread'.phase = thread.phase /\ thread'.got = thread.got
              /\ thread'.pos = thread.pos
           \/ thread'.phase \notin {"asked", "walk", "open"}
<1>1. CASE MainOpen BY <1>1 DEF MainOpen
<1>2. CASE MainWrite BY <1>2 DEF MainWrite
<1>3. CASE MainRename
  BY <1>3 DEF MainRename, Renamed, DumpInv, ThreadOK
<1>4. CASE ThreadOpen BY <1>4 DEF ThreadOpen, Opened, DumpInv, ThreadOK
<1>5. CASE ThreadWrite BY <1>5 DEF ThreadWrite, DumpInv, ThreadOK
<1>6. CASE ThreadRename BY <1>6 DEF ThreadRename, NoThread
<1> QED BY <1>1, <1>2, <1>3, <1>4, <1>5, <1>6 DEF FileStep

LEMMA ThreadCases ==
    ASSUME TypesInv, Next
    PROVE  \/ thread'.phase \notin {"asked", "walk", "open"}
           \/ Same
           \/ thread'.phase = "asked" /\ thread'.got = <<>> /\ thread'.pos = 0
           \/ ThreadBegin /\ UNCHANGED <<dict, now>>
           \/ ThreadRead /\ UNCHANGED <<dict, now>>
<1>1. CASE ThreadStep BY <1>1 DEF ThreadStep
<1>2. CASE Crash BY <1>2 DEF Crash, NoThread
<1>3. CASE ~ThreadStep /\ ~Crash
  <2>0. hand' = hand /\ (Object' = Object \/ ~IsExpired(Object)') BY <1>3, ObjectCarries
  <2>1. CASE SaveCommand
    <3>1. CASE MainSave(dict) BY <2>0, <3>1 DEF MainSave, Same
    <3>2. CASE BgSave BY <2>0, <3>2 DEF BgSave, Same, TypesInv, DumpInv, ThreadOK, NoThread
    <3> QED BY <2>1, <3>1, <3>2 DEF SaveCommand
  <2>2. CASE Stop \/ EmbeddedCall BY <2>0, <2>2 DEF Stop, EmbeddedCall, MainSave, Same
  <2>3. CASE SaveStep BY <2>0, <2>3, SaveStepThread DEF SaveStep, TypesInv, Same
  <2>4. CASE UNCHANGED saves BY <2>0, <2>4 DEF saves, Same
  <2> QED BY <1>3, <2>1, <2>2, <2>3, <2>4
          DEF Next, Command, ActiveExpiry, Read, Clock, Exit, Start
<1> QED BY <1>1, <1>2, <1>3

LEMMA ObservedWalk ==
    ASSUME Observe, thread'.phase = "walk"
    PROVE  /\ \A k \in Key :
                 since'[k] = (IF thread.phase = "walk" THEN since[k] ELSE {})
                             \cup {Live(dict, k)'} \cup Taken(k)'
           /\ rebuilt' = (rebuilt \/ Shifted(dict, dict'))
<1>1. rebuilt' = (rebuilt \/ Shifted(dict, dict')) BY DEF Observe
<1>2. PICK before : before = IF thread.phase = "walk" THEN since ELSE [k \in Key |-> {}]
  OBVIOUS
<1>3. since' = [k \in Key |-> before[k] \cup {Live(dict, k)'} \cup Taken(k)']
  BY <1>2 DEF Observe
<1> QED BY <1>1, <1>2, <1>3

LEMMA PiecedLater ==
    ASSUME NEW S, NEW T, S \subseteq T, NEW record, PiecedFrom(record, S)
    PROVE  PiecedFrom(record, T)
  BY DEF PiecedFrom

\* What has been seen stays seen.
LEMMA SeenLater ==
    ASSUME NEW got \in Seq(Record), Seen(got, since), \A k \in Key : since[k] \subseteq since'[k]
    PROVE  Seen(got, since')
<1> SUFFICES ASSUME NEW i \in 1..Len(got) PROVE PiecedFrom(got[i].entry, since'[got[i].key])
  BY DEF Seen
<1>1. got[i] \in Record BY ElementOfSeq
<1>2. got[i].key \in Key BY <1>1 DEF Record
<1>3. PiecedFrom(got[i].entry, since[got[i].key]) BY DEF Seen
<1>4. PICK k \in Key : k = got[i].key BY <1>2
<1> QED BY <1>3, <1>4, PiecedLater

\* A key that is ahead of the thread, and leaves its slot, has been absent or comes last.
LEMMA StillAhead ==
    ASSUME DictOK(dict), DictOK(dict'), ~Shifted(dict, dict'),
           NEW k \in Key, NEW pos \in Nat, Ahead(dict, pos, k)
    PROVE  dict'.entry[k] = Absent \/ Ahead(dict', pos, k)
<1>a. PICK s \in Seq(Key \cup {Hole}) : s = dict.slots BY DEF DictOK, Slotted
<1>b. PICK t \in Seq(Key \cup {Hole}) : t = dict'.slots BY DEF DictOK, Slotted
<1>1. PICK m \in Nat : m = Len(dict.slots) /\ DOMAIN dict.slots = 1..m BY <1>a
<1>2. PICK n \in Nat : n = Len(dict'.slots) /\ DOMAIN dict'.slots = 1..n BY <1>b
<1>3. PICK i \in 1..m : i > pos /\ dict.slots[i] = k BY <1>1 DEF Ahead
<1>4. \A j \in 1..m : j \in 1..n /\ dict'.slots[j] \in {dict.slots[j], Hole}
  BY <1>1, <1>2 DEF Shifted
<1>5. CASE dict'.slots[i] = k BY <1>2, <1>3, <1>4, <1>5 DEF Ahead
<1>6. CASE dict'.slots[i] # k
  <2>1. SUFFICES ASSUME dict'.entry[k] # Absent PROVE Ahead(dict', pos, k) OBVIOUS
  <2>2. PICK j \in 1..n : dict'.slots[j] = k BY <1>2, <2>1 DEF DictOK, Slotted
  <2>3. j \notin 1..m
    <3>1. SUFFICES ASSUME j \in 1..m PROVE FALSE OBVIOUS
    <3>2. dict.slots[j] = k /\ k # Hole BY <1>4, <2>2, <3>1, ExpirationAssumption
    <3>3. j = i BY <1>1, <1>3, <3>1, <3>2 DEF DictOK, Slotted
    <3> QED BY <1>6, <2>2, <3>3
  <2>4. j > i BY <2>3
  <2>5. j > pos BY <1>3, <2>4
  <2> QED BY <1>2, <2>2, <2>5 DEF Ahead
<1> QED BY <1>5, <1>6

LEMMA WalkBegins ==
    ASSUME TypesInv, WalkInv, ThreadBegin, UNCHANGED <<dict, now>>, Observe
    PROVE  WalkInv'
<1>1. /\ thread'.phase = "walk" /\ thread'.got = <<>> /\ thread'.pos = 0
      /\ thread.phase = "asked"
  BY DEF ThreadBegin, WalkInv, TypesInv, DumpInv, ThreadOK
<1>2. hand' = NoHand BY <1>1, EmptyHands DEF ThreadBegin, TypesInv, HandsEmpty
<1>3. \A k \in Key : Live(dict, k)' \in since'[k] BY <1>1, ObservedWalk
<1>4. ASSUME NEW k \in Key PROVE Absent \in since'[k] \/ Ahead(dict', 0, k)
  <2>1. CASE dict.entry[k] = Absent
    <3>1. Live(dict, k)' = Absent BY <2>1 DEF Live, IsExpired
    <3> QED BY <1>3, <3>1
  <2>2. CASE dict.entry[k] # Absent
    BY <2>2 DEF TypesInv, KeysOK, DictOK, Slotted, Ahead
  <2> QED BY <2>1, <2>2
<1>5. Seen(thread'.got, since') BY <1>1 DEF Seen
<1>6. Gathered' BY <1>2 DEF Gathered, NoHand, Reads
<1> QED BY <1>1, <1>3, <1>4, <1>5, <1>6 DEF WalkInv

LEMMA WalkGoesOn ==
    ASSUME TypesInv, TypesInv', WalkInv, Same, thread.phase = "walk", Observe
    PROVE  WalkInv'
<1>1. /\ \A k \in Key : since'[k] = since[k] \cup {Live(dict, k)'} \cup Taken(k)'
      /\ rebuilt' = (rebuilt \/ Shifted(dict, dict'))
  BY ObservedWalk DEF Same
<1>2. PICK got : got = thread.got /\ got' = got /\ got \in Seq(Record) /\ thread'.got = got
  BY DEF Same, TypesInv, SavesOK, SaveOK
<1>3. Seen(got, since') BY <1>1, <1>2, SeenLater DEF WalkInv
<1>4. Gathered'
  <2>1. SUFFICES ASSUME hand.read \in Reads PROVE Gathered' BY DEF Gathered, Same
  <2>2. hand.key \in Key BY <2>1, FullHands DEF TypesInv, HandsFull, HandTyped
  <2>3. PICK k \in Key : k = hand.key /\ hand' = hand BY <2>2 DEF Same
  <2>4. Taken(k)' = {IF IsExpired(Object)' THEN Absent ELSE Object'} BY <2>3 DEF Taken
  <2>5. (IF IsExpired(Object)' THEN Absent ELSE Object') \in since'[k] BY <1>1, <2>4
  <2>6. since[k] \subseteq since'[k] BY <1>1
  <2>7. hand.read \notin {"check", "compare"} => Object' \in since'[k]
    <3>1. CASE Object' = Object BY <2>1, <2>3, <2>6, <3>1 DEF WalkInv, Gathered
    <3>2. CASE ~IsExpired(Object)' BY <2>5, <3>2
    <3> QED BY <3>1, <3>2 DEF Same
  <2>8. /\ hand.read \notin {"value", "fields"} => hand.exp = Never
        /\ hand.read \in {"value", "fields"} => ExpiryFrom(hand.exp, since'[k])
        /\ FieldsFrom(hand.val, since'[k])
    BY <2>1, <2>3, <2>6 DEF WalkInv, Gathered, ExpiryFrom, FieldsFrom
  <2> QED BY <2>3, <2>5, <2>7, <2>8 DEF Gathered
<1>5. ASSUME ~rebuilt', NEW k \in Key
      PROVE  \/ Absent \in since'[k] \/ Recorded(got, k)
             \/ Ahead(dict', thread'.pos, k) \/ At(k)'
  <2>1. ~rebuilt /\ ~Shifted(dict, dict') BY <1>1, <1>5
  <2>2. Absent \in since[k] \/ Recorded(got, k) \/ Ahead(dict, thread.pos, k) \/ At(k)
    BY <1>2, <2>1 DEF WalkInv
  <2>3. CASE Ahead(dict, thread.pos, k)
    <3>1. dict'.entry[k] = Absent \/ Ahead(dict', thread.pos, k)
      BY <2>1, <2>3, StillAhead DEF TypesInv, KeysOK, WalkInv
    <3>2. CASE dict'.entry[k] = Absent
      <4>1. Live(dict, k)' = Absent BY <3>2 DEF Live
      <4> QED BY <1>1, <4>1
    <3> QED BY <3>1, <3>2 DEF Same
  <2>4. CASE At(k) BY <2>4 DEF At, Same
  <2> QED BY <1>1, <2>2, <2>3, <2>4
<1> QED BY <1>1, <1>2, <1>3, <1>4, <1>5 DEF WalkInv, Same

\* The reads of one entry, of which the last makes a record of what they have read.
LEMMA WalkLooks ==
    ASSUME TypesInv, WalkInv, thread.phase = "walk", Looks, UNCHANGED <<dict, now>>, Observe
    PROVE  WalkInv'
<1>0. hand.read \in Reads BY DEF Looks, MovesOn, Stamps, Counts, Passes, Reads
<1>1. HandsFull BY <1>0, FullHands DEF TypesInv
<1>2. HandTyped' /\ Object' = Object BY <1>1, LooksTyped
<1>3. PICK k \in Key : k = hand.key /\ hand'.key = k
  BY <1>1 DEF HandsFull, HandTyped, Looks, MovesOn, Stamps, Counts, Passes
<1>4. /\ \A l \in Key : since'[l] = since[l] \cup {Live(dict, l)'} \cup Taken(l)'
      /\ ~rebuilt' => ~rebuilt
  BY ObservedWalk DEF Looks
<1>5. since[k] \subseteq since'[k] BY <1>4
<1>6. PICK got \in Seq(Record) : got = thread.got BY DEF TypesInv, SavesOK, SaveOK
<1>7. Seen(got, since') BY <1>4, <1>6, SeenLater DEF WalkInv
<1>8. Gathered'
  <2>1. (IF IsExpired(Object) THEN Absent ELSE Object) \in since'[k]
    BY <1>0, <1>3, <1>5 DEF WalkInv, Gathered
  <2>2. IsExpired(Object)' = IsExpired(Object) BY <1>2 DEF IsExpired
  <2>3. Object # Absent BY <1>1, LifeCycleAssumption DEF HandsFull, Holds
  <2>4. hand'.read \notin {"check", "compare"} => Object \in since'[k]
    <3>1. CASE hand.read \notin {"check", "compare"}
      BY <1>0, <1>3, <1>5, <3>1 DEF WalkInv, Gathered
    <3>2. CASE Object.exp = Never \/ ~IsExpired(Object) BY <2>1, <3>2 DEF IsExpired
    <3>3. CASE hand'.read \in {"check", "compare"} BY <3>3
    <3>4. CASE MovesOn("check", "compare")
      <4>1. hand'.read = "compare" BY <1>1, <3>4 DEF MovesOn, HandsFull, HandTyped
      <4> QED BY <4>1
    <3> QED BY <3>1, <3>2, <3>4 DEF Looks, MovesOn, Stamps, Counts, Passes
  <2>5. hand'.read \notin {"value", "fields"} => hand'.exp = Never
    BY <1>0, <1>1 DEF WalkInv, Gathered, Looks, MovesOn, Stamps, Counts, Passes,
                     HandsFull, HandTyped
  <2>6. hand'.read \in {"value", "fields"} => ExpiryFrom(hand'.exp, since'[k])
    <3>1. CASE MovesOn("expiry", "value") /\ Object.exp = Never
      <4>1. hand'.exp = Never /\ Object \in since'[k]
        BY <1>1, <1>3, <1>5, <3>1 DEF WalkInv, Gathered, MovesOn, HandsFull, HandTyped, Reads
      <4> QED BY <2>3, <3>1, <4>1 DEF ExpiryFrom
    <3>2. CASE Stamps
      <4>1. hand'.exp = Object.exp /\ Object \in since'[k]
        BY <1>1, <1>3, <1>5, <3>2 DEF WalkInv, Gathered, Stamps, HandsFull, HandTyped, Reads
      <4> QED BY <2>3, <4>1 DEF ExpiryFrom
    <3>3. CASE Counts \/ Passes
      <4>1. hand'.exp = hand.exp /\ hand.read \in {"value", "fields"}
        BY <1>1, <3>3 DEF Counts, Passes, HandsFull, HandTyped
      <4> QED BY <1>0, <1>3, <1>5, <4>1 DEF WalkInv, Gathered, ExpiryFrom
    <3>4. ASSUME NEW from, NEW to, to \notin {"value", "fields"}, MovesOn(from, to)
          PROVE  hand'.read \notin {"value", "fields"}
      BY <1>1, <3>4 DEF MovesOn, HandsFull, HandTyped
    <3> QED BY <3>1, <3>2, <3>3, <3>4 DEF Looks
  <2>7. FieldsFrom(hand'.val, since'[k])
    <3>1. CASE hand'.val = hand.val
      BY <1>0, <1>3, <1>5, <3>1 DEF WalkInv, Gathered, FieldsFrom
    <3>2. CASE Passes
      <4>1. PICK f \in FieldsOf(Object.val) :
                hand' = [hand EXCEPT !.val = [@ EXCEPT ![f] = Object.val[f]], !.met = @ + 1]
        BY <3>2 DEF Passes
      <4>2. hand'.val = [hand.val EXCEPT ![f] = Object.val[f]]
        BY <1>1, <4>1 DEF HandsFull, HandTyped
      <4>3. Object \in since'[k]
        BY <1>3, <1>5, <3>2 DEF WalkInv, Gathered, Passes, Reads
      <4>4. FieldsFrom(hand.val, since'[k])
        BY <1>0, <1>3, <1>5 DEF WalkInv, Gathered, FieldsFrom
      <4>5. hand.val \in [Field -> Content \cup {NoContent}]
        BY <1>1 DEF HandsFull, HandTyped, Value
      <4>6. \A g \in Field : hand'.val[g] = IF g = f THEN Object.val[f] ELSE hand.val[g]
        BY <4>2, <4>5
      <4> QED BY <2>3, <4>3, <4>4, <4>6 DEF FieldsFrom, FieldsOf
    <3> QED BY <1>1, <3>1, <3>2 DEF Looks, MovesOn, Stamps, Counts, HandsFull, HandTyped
  <2> QED BY <1>2, <1>3, <2>1, <2>2, <2>4, <2>5, <2>6, <2>7 DEF Gathered
<1>9. ASSUME ~rebuilt', NEW l \in Key
      PROVE  \/ Absent \in since'[l] \/ Recorded(got, l)
             \/ Ahead(dict, thread.pos, l) \/ At(l)'
  <2>1. Absent \in since[l] \/ Recorded(got, l) \/ Ahead(dict, thread.pos, l) \/ At(l)
    BY <1>4, <1>6, <1>9 DEF WalkInv
  <2>2. At(l) => At(l)' BY <1>2, <1>3 DEF At, HandTyped
  <2> QED BY <1>4, <2>1, <2>2
<1> QED BY <1>4, <1>6, <1>7, <1>8, <1>9 DEF WalkInv, Looks

LEMMA WalkMeets ==
    ASSUME TypesInv, WalkInv, thread.phase = "walk", MeetsNext, UNCHANGED <<dict, now>>, Observe
    PROVE  WalkInv'
<1>1. PICK at \in 1..Len(dict.slots) :
          /\ at > thread.pos /\ \A i \in Filled(dict) : i > thread.pos => at <= i
          /\ dict.slots[at] \in Key
          /\ thread' = [thread EXCEPT !.pos = at, !.met = @ + 1]
          /\ hand' = [NoHand EXCEPT !.read = "check", !.key = dict.slots[at]]
          /\ Object' = dict.entry[dict.slots[at]]
  BY MeetsObject DEF TypesInv, KeysOK
<1>2. PICK k \in Key : k = dict.slots[at] BY <1>1
<1>3. thread'.phase = "walk" /\ thread'.pos = at /\ thread'.got = thread.got /\ at \in Nat
  BY <1>1 DEF TypesInv, DumpInv, ThreadOK
<1>4. hand'.read = "check" /\ hand'.key = k /\ hand'.exp = Never /\ hand'.val = Empty
  BY <1>1, <1>2 DEF NoHand
<1>5. /\ \A l \in Key : since'[l] = since[l] \cup {Live(dict, l)'} \cup Taken(l)'
      /\ ~rebuilt' => ~rebuilt
  BY <1>3, ObservedWalk
<1>6. PICK got \in Seq(Record) : got = thread.got BY DEF TypesInv, SavesOK, SaveOK
<1>7. Seen(got, since') BY <1>5, <1>6, SeenLater DEF WalkInv
<1>8. Gathered'
  <2>1. Taken(k)' = {IF IsExpired(Object)' THEN Absent ELSE Object'} BY <1>4 DEF Taken
  <2>2. (IF IsExpired(Object)' THEN Absent ELSE Object') \in since'[k] BY <1>5, <2>1
  <2>3. FieldsFrom(Empty, since'[k]) BY DEF FieldsFrom, FieldsOf, Empty
  <2> QED BY <1>4, <2>2, <2>3 DEF Gathered
<1>9. ASSUME ~rebuilt', NEW l \in Key
      PROVE  Absent \in since'[l] \/ Recorded(got, l) \/ Ahead(dict, at, l) \/ At(l)'
  <2>1. ~At(l) BY DEF At, MeetsNext, Meets, Reads
  <2>2. Absent \in since[l] \/ Recorded(got, l) \/ Ahead(dict, thread.pos, l)
    BY <1>5, <1>6, <1>9, <2>1 DEF WalkInv
  <2>3. CASE Ahead(dict, thread.pos, l)
    <3>1. PICK i \in 1..Len(dict.slots) : i > thread.pos /\ dict.slots[i] = l
      BY <2>3 DEF Ahead
    <3>2. i \in Filled(dict)
      BY <3>1, ExpirationAssumption DEF Filled, TypesInv, KeysOK, DictOK, Slotted
    <3>3. at <= i BY <1>1, <3>1, <3>2
    <3>4. CASE i = at BY <1>2, <1>4, <3>1, <3>4 DEF At, Reads
    <3>5. CASE i > at BY <3>1, <3>5 DEF Ahead
    <3> QED BY <3>3, <3>4, <3>5
  <2> QED BY <1>5, <2>2, <2>3
<1> QED BY <1>3, <1>5, <1>6, <1>7, <1>8, <1>9 DEF WalkInv

\* Done with an entry: it has expired, or there is a record of it.
LEMMA WalkLeaves ==
    ASSUME TypesInv, WalkInv, thread.phase = "walk", NEW more \in Seq(Record), HandsFull,
           thread' = [thread EXCEPT !.got = @ \o more], hand' = NoHand,
           Seen(more, since), Absent \in since[hand.key] \/ Recorded(more, hand.key),
           UNCHANGED <<dict, now>>, Observe
    PROVE  WalkInv'
<1>1. PICK got \in Seq(Record) : got = thread.got BY DEF TypesInv, SavesOK, SaveOK
<1>2. PICK all : all = got \o more OBVIOUS
<1>3. /\ all \in Seq(Record) /\ Len(all) = Len(got) + Len(more)
      /\ Len(got) \in Nat /\ Len(more) \in Nat
      /\ \A i \in 1..Len(got) : all[i] = got[i]
      /\ \A i \in (Len(got) + 1)..(Len(got) + Len(more)) : all[i] = more[i - Len(got)]
  BY <1>2, ConcatProperties
<1>4. thread'.phase = "walk" /\ thread'.pos = thread.pos /\ thread'.got = all
  BY <1>1, <1>2 DEF TypesInv, DumpInv, ThreadOK
<1>5. /\ \A l \in Key : since'[l] = since[l] \cup {Live(dict, l)'} \cup Taken(l)'
      /\ ~rebuilt' => ~rebuilt
  BY <1>4, ObservedWalk
<1>6. Seen(all, since')
  <2>1. Seen(got, since') /\ Seen(more, since') BY <1>1, <1>5, SeenLater DEF WalkInv
  <2> SUFFICES ASSUME NEW i \in 1..(Len(got) + Len(more))
               PROVE  PiecedFrom(all[i].entry, since'[all[i].key])
    BY <1>3 DEF Seen
  <2>2. CASE i \in 1..Len(got) BY <1>3, <2>1, <2>2 DEF Seen
  <2>3. CASE i \in (Len(got) + 1)..(Len(got) + Len(more))
    <3>1. i - Len(got) \in 1..Len(more) BY <1>3, <2>3
    <3>2. PICK j \in 1..Len(more) : all[i] = more[j] BY <1>3, <2>3, <3>1
    <3> QED BY <2>1, <3>2 DEF Seen
  <2> QED BY <1>3, <2>2, <2>3
<1>7. Gathered' BY DEF Gathered, NoHand, Reads
<1>8. ASSUME ~rebuilt', NEW l \in Key
      PROVE  Absent \in since'[l] \/ Recorded(all, l) \/ Ahead(dict, thread.pos, l)
  <2>1. Absent \in since[l] \/ Recorded(got, l) \/ Ahead(dict, thread.pos, l) \/ At(l)
    BY <1>1, <1>5, <1>8 DEF WalkInv
  <2>2. CASE Recorded(got, l)
    <3>1. PICK i \in 1..Len(got) : got[i].key = l BY <2>2 DEF Recorded
    <3>2. i \in 1..Len(all) /\ all[i].key = l BY <1>3, <3>1
    <3> QED BY <3>2 DEF Recorded
  <2>3. CASE Recorded(more, l)
    <3>1. PICK j \in 1..Len(more) : more[j].key = l BY <2>3 DEF Recorded
    <3>2. Len(got) + j \in (Len(got) + 1)..(Len(got) + Len(more))
          /\ (Len(got) + j) - Len(got) = j
      BY <1>3
    <3>3. all[Len(got) + j] = more[j] BY <1>3, <3>2
    <3>4. Len(got) + j \in 1..Len(all) BY <1>3
    <3> QED BY <3>1, <3>3, <3>4 DEF Recorded
  <2>4. CASE At(l) BY <1>5, <2>3, <2>4 DEF At
  <2> QED BY <1>5, <2>1, <2>2, <2>4
<1> QED BY <1>4, <1>5, <1>6, <1>7, <1>8 DEF WalkInv

LEMMA WalkReads ==
    ASSUME TypesInv, WalkInv, ThreadRead, UNCHANGED <<dict, now>>, Observe
    PROVE  WalkInv'
<1>0. thread.phase = "walk" BY ReadCases
<1>1. CASE Raised BY <1>1 DEF Raised, NoThread, WalkInv
<1>2. CASE WalkEnds
  <2>1. thread'.phase = "open" /\ thread'.got = thread.got
    BY <1>2 DEF WalkEnds, TypesInv, DumpInv, ThreadOK
  <2>2. since' = since /\ rebuilt' = rebuilt BY <2>1 DEF Observe
  <2>3. \A k \in Key : ~Ahead(dict, thread.pos, k)
    BY <1>2, ExpirationAssumption
       DEF WalkEnds, Ahead, Filled, TypesInv, KeysOK, DictOK, Slotted
  <2>4. \A k \in Key : ~At(k) BY <1>2 DEF WalkEnds, At, Reads
  <2> QED BY <1>0, <2>1, <2>2, <2>3, <2>4 DEF WalkInv
<1>3. CASE MeetsNext BY <1>0, <1>3, WalkMeets
<1>4. CASE Looks BY <1>0, <1>4, WalkLooks
<1>5. CASE Skips
  <2>1. HandsFull BY <1>5, FullHands DEF TypesInv, Skips, Reads
  <2>2. Absent \in since[hand.key] BY <1>0, <1>5 DEF WalkInv, Gathered, Skips, Reads
  <2>3. <<>> \in Seq(Record) /\ Seen(<<>>, since) BY DEF Seen
  <2> QED BY <1>0, <1>5, <2>1, <2>2, <2>3, WalkLeaves DEF Skips
<1>6. CASE Records1
  <2>1. HandsFull BY <1>6, FullHands DEF TypesInv, Records1, Reads
  <2>2. HandRecord \in Record
    BY <2>1 DEF HandRecord, HandsFull, HandTyped, Record, EntryType
  <2>3. PiecedFrom(HandRecord.entry, since[hand.key])
    BY <1>0, <1>6 DEF WalkInv, Gathered, Records1, Reads, HandRecord, PiecedFrom,
                      ExpiryFrom, FieldsFrom
  <2>4. PICK more \in Seq(Record) : more = <<HandRecord>>
    <3>1. <<HandRecord>> \in Seq(Record) BY <2>2
    <3> QED BY <3>1
  <2>5. Len(more) = 1 /\ more[1] = HandRecord /\ HandRecord.key = hand.key
    BY <2>4 DEF HandRecord
  <2>6. Seen(more, since) BY <2>3, <2>5 DEF Seen
  <2>7. Recorded(more, hand.key) BY <2>5 DEF Recorded
  <2> QED BY <1>0, <1>6, <2>1, <2>4, <2>6, <2>7, WalkLeaves DEF Records1
<1> QED BY <1>1, <1>2, <1>3, <1>4, <1>5, <1>6, ReadCases

LEMMA WalkStep ==
    ASSUME TypesInv, TypesInv', WalkInv, [Next]_vars
    PROVE  WalkInv'
<1>1. CASE Next
  <2>1. Observe BY <1>1 DEF Next
  <2>2. CASE thread'.phase \notin {"asked", "walk", "open"} BY <2>2 DEF WalkInv
  <2>3. CASE Same
    <3>1. CASE thread.phase = "walk" BY <2>1, <2>3, <3>1, WalkGoesOn
    <3>2. CASE thread.phase = "open"
      <4>1. since' = since /\ rebuilt' = rebuilt BY <2>1, <2>3, <3>2 DEF Observe, Same
      <4> QED BY <2>3, <3>2, <4>1 DEF WalkInv, Same
    <3>3. CASE thread.phase \notin {"walk", "open"} BY <2>3, <3>3 DEF WalkInv, Same
    <3> QED BY <3>1, <3>2, <3>3
  <2>4. CASE thread'.phase = "asked" /\ thread'.got = <<>> /\ thread'.pos = 0
    BY <2>4 DEF WalkInv
  <2>5. CASE ThreadBegin /\ UNCHANGED <<dict, now>> BY <2>1, <2>5, WalkBegins
  <2>6. CASE ThreadRead /\ UNCHANGED <<dict, now>> BY <2>1, <2>6, WalkReads
  <2> QED BY <1>1, <2>2, <2>3, <2>4, <2>5, <2>6, ThreadCases
<1>2. CASE UNCHANGED vars
  <2>1. UNCHANGED <<dict, now, thread, hand, held, since, rebuilt>>
    BY <1>2 DEF vars, state, saves
  <2>2. \A k \in Key : Live(dict, k)' = Live(dict, k) BY <2>1 DEF Live, IsExpired
  <2>3. Gathered' <=> Gathered BY <2>1 DEF Gathered, Object, IsExpired
  <2>4. \A k \in Key : At(k)' <=> At(k) BY <2>1 DEF At
  <2> QED BY <2>1, <2>2, <2>3, <2>4 DEF WalkInv
<1> QED BY <1>1, <1>2

(***************************************************************************)
(* BGSAVE (persistence/snapshot.py) saves for every key an expiry that its *)
(* entry had, and in every field something that the entry held there,      *)
(* while the thread walked over the dictionary, though not all of them at  *)
(* the same moment, whatever commands and active expiry do to the          *)
(* dictionary and to the entry meanwhile; it misses a key that was always  *)
(* there only when the table was rebuilt.                                  *)
(***************************************************************************)
THEOREM DumpsAreFaithful == Spec => []DumpFaithful
<1>1. Init => WalkInv BY DEF Init, NoThread, WalkInv
<1>2. TypesInv /\ WalkInv => DumpFaithful
  <2> SUFFICES ASSUME TypesInv, WalkInv, thread.phase = "open", NEW k \in Key
               PROVE  IF Holding(thread.got, k) = Absent THEN rebuilt \/ Absent \in since[k]
                      ELSE PiecedFrom(Holding(thread.got, k), since[k])
    BY DEF DumpFaithful
  <2>1. PICK got \in Seq(Record) : got = thread.got BY DEF TypesInv, SavesOK, SaveOK
  <2>2. Seen(got, since) /\ (~rebuilt => Absent \in since[k] \/ Recorded(got, k))
    BY <2>1 DEF WalkInv
  <2>3. \/ Holding(got, k) = Absent /\ ~Recorded(got, k)
        \/ Holding(got, k) # Absent /\ PiecedFrom(Holding(got, k), since[k])
    <3>1. CASE ~Recorded(got, k) BY <3>1, HoldingOne DEF Recorded
    <3>2. CASE Recorded(got, k)
      <4>1. PICK i \in 1..Len(got) : got[i].key = k /\ Holding(got, k) = got[i].entry
        BY <3>2, HoldingOne DEF Recorded
      <4>2. got[i] \in Record BY ElementOfSeq
      <4>3. got[i].entry # Absent BY <4>2, LifeCycleAssumption DEF Record
      <4> QED BY <2>2, <4>1, <4>3 DEF Seen
    <3> QED BY <3>1, <3>2
  <2> QED BY <2>1, <2>2, <2>3
<1>3. TypesInv /\ TypesInv' /\ WalkInv /\ [Next]_vars => WalkInv' BY WalkStep
<1>4. TypesInv /\ [Next]_vars => TypesInv' BY TypesStep
<1> QED BY <1>1, <1>2, <1>3, <1>4, TypesInit, PTL DEF Spec

-----------------------------------------------------------------------------
(***************************************************************************)
(* What is on disk.  While a program keeps its dataset on disk, the save   *)
(* under way, or the file when there is none, shows what is in memory.     *)
(***************************************************************************)
Shows(data) ==
    \A k \in Key : Live(dict, k) = IF IsExpired(Holding(data, k)) THEN Absent
                                   ELSE Holding(data, k)

Keeping ==
    /\ \/ up = "stopping"
       \/ up = "up" /\ mode = "embedded"
       \/ up = "down" /\ clean
    /\ ~overlapped

KeepInv ==
    Keeping =>
        /\ thread.phase = "idle"
        /\ main.phase # "idle" => Shows(main.got)
        /\ main.phase = "rename" => tmp = Whole(main.got)
        /\ main.phase = "idle" => Shows(dump.data)

DownInv == up = "down" => main.phase = "idle" /\ thread.phase = "idle"

EmbeddedInv ==
    mode = "embedded" =>
        /\ thread.phase = "idle" /\ ~overlapped
        /\ Agreeing(dump.data) /\ Agreeing(tmp.data) /\ Agreeing(main.got)

NothingIn(file) == file.state # "whole" => file.data = <<>>

DiskInv == KeepInv /\ DownInv /\ EmbeddedInv /\ NothingIn(dump) /\ NothingIn(tmp)

LEMMA ShowsLater ==
    ASSUME KeysOK, KeysOK', NEW data \in Seq(Record), Shows(data), dict' = dict, now <= now'
    PROVE  Shows(data)'
<1> SUFFICES ASSUME NEW k \in Key
             PROVE  Live(dict, k)' = IF IsExpired(Holding(data, k))' THEN Absent
                                     ELSE Holding(data, k)
  BY DEF Shows
<1>1. PICK e \in EntryType \cup {Absent} : e = dict.entry[k] BY DEF KeysOK, DictOK
<1>2. PICK h \in EntryType \cup {Absent} : h = Holding(data, k) BY HoldingTyped
<1>3. ASSUME NEW x \in EntryType \cup {Absent}, IsExpired(x) PROVE IsExpired(x)'
  <2>1. x.exp \in Nat BY <1>3 DEF IsExpired, EntryType
  <2>2. now \in Nat /\ now' \in Nat BY DEF KeysOK
  <2> QED BY <1>3, <2>1, <2>2 DEF IsExpired
<1>4. (IF IsExpired(e) THEN Absent ELSE e) = IF IsExpired(h) THEN Absent ELSE h
  BY <1>1, <1>2 DEF Shows, Live
<1>5. (IF IsExpired(e)' THEN Absent ELSE e) = IF IsExpired(h)' THEN Absent ELSE h
  BY <1>3, <1>4
<1> QED BY <1>1, <1>2, <1>5 DEF Live

LEMMA ShowsSame ==
    ASSUME NEW data, Shows(data), now' = now, \A k \in Key : Live(dict', k) = Live(dict, k)
    PROVE  Shows(data)'
  BY DEF Shows, Live, IsExpired

\* What is collected from a dictionary shows it.
LEMMA CollectedShows ==
    ASSUME DictOK(dict'), now' = now, NEW data, data = Collected(dict')
    PROVE  Shows(data)'
<1>1. \A k \in Key : Holding(data, k) = Live(dict', k) BY CollectedOK
<1>2. \A k \in Key : Live(dict, k)' = Live(dict', k) BY DEF Live, IsExpired
<1>3. \A k \in Key : ~IsExpired(Live(dict', k)) BY DEF Live, IsExpired
<1> QED BY <1>1, <1>2, <1>3 DEF Shows, IsExpired

LEMMA LoadedShows ==
    ASSUME TypesInv, NothingIn(dump), NEW data, data = dump.data, Agreeing(data),
           dict' = Loaded(dump), now' = now
    PROVE  Shows(data)'
<1>1. data \in Seq(Record) BY DEF TypesInv, SavesOK, FileOK
<1>2. ASSUME NEW k \in Key
      PROVE  dict'.entry[k] = IF IsExpired(Holding(data, k)) THEN Absent
                              ELSE Holding(data, k)
  <2>1. CASE dump.state = "whole" BY <1>1, <2>1, LoadedOK
  <2>2. CASE dump.state # "whole"
    <3>1. dict'.entry[k] = Absent BY <2>2 DEF Loaded, NoKeys
    <3>2. Holding(data, k) = Absent
      <4>1. data = <<>> BY <2>2 DEF NothingIn
      <4> QED BY <4>1 DEF Holding
    <3> QED BY <3>1, <3>2
  <2> QED BY <2>1, <2>2
<1>3. ASSUME NEW k \in Key
      PROVE  Live(dict, k)' = IF IsExpired(Holding(data, k)) THEN Absent
                              ELSE Holding(data, k)
  BY <1>2 DEF Live, IsExpired
<1> QED BY <1>3 DEF Shows, IsExpired

LEMMA ShowsRewritten ==
    ASSUME NEW data, Shows(data)'
    PROVE  /\ main'.got = data => Shows(main.got)'
           /\ dump'.data = data => Shows(dump.data)'
  BY DEF Shows, Live, IsExpired

\* A save on the main thread begins, and its data shows what is in memory then.
LEMMA MainSaveKeeps ==
    ASSUME TypesInv, DiskInv, NEW d, MainSave(d), d = dict', DictOK(dict'), now' = now,
           up # "down", up' # "down", UNCHANGED mode
    PROVE  DiskInv'
<1>1. PICK got : got = Collected(d) OBVIOUS
<1>2. /\ main' = [phase |-> "open", got |-> got, file |-> "none"]
      /\ overlapped' = (overlapped \/ thread.phase # "idle")
      /\ UNCHANGED <<dump, tmp, thread>>
  BY <1>1 DEF MainSave, files
<1>3. Shows(got)' BY <1>1, CollectedShows
<1>4. Agreeing(got) BY <1>1, CollectedOK
<1>5. KeepInv'
  <2>1. Shows(main.got)' BY <1>2, <1>3, ShowsRewritten
  <2> QED BY <1>2, <2>1 DEF KeepInv, Keeping
<1>6. DownInv' BY DEF DownInv
<1>7. EmbeddedInv' BY <1>2, <1>4 DEF DiskInv, EmbeddedInv
<1> QED BY <1>2, <1>5, <1>6, <1>7 DEF DiskInv, NothingIn

\* The dictionary shows the same, and nothing happens to the saves.
LEMMA StillKeeps ==
    ASSUME DiskInv, UNCHANGED <<saves, mode, up, clean>>,
           \/ ~Keeping
           \/ now' = now /\ \A k \in Key : Live(dict', k) = Live(dict, k)
           \/ KeysOK /\ KeysOK' /\ SavesOK /\ dict' = dict /\ now <= now'
    PROVE  DiskInv'
<1>1. UNCHANGED <<dump, tmp, main, thread, overlapped>> BY DEF saves
<1>2. PICK got, data : got = main.got /\ data = dump.data OBVIOUS
<1>3. ASSUME Keeping, Shows(got) PROVE Shows(got)'
  BY <1>2, <1>3, ShowsLater, ShowsSame DEF SavesOK, SaveOK
<1>4. ASSUME Keeping, Shows(data) PROVE Shows(data)'
  BY <1>2, <1>4, ShowsLater, ShowsSame DEF SavesOK, FileOK
<1>5. KeepInv'
  <2> SUFFICES ASSUME Keeping'
               PROVE  /\ thread'.phase = "idle"
                      /\ main'.phase # "idle" => Shows(main.got)'
                      /\ main'.phase = "rename" => tmp' = Whole(main'.got)
                      /\ main'.phase = "idle" => Shows(dump.data)'
    BY DEF KeepInv
  <2>1. Keeping BY <1>1 DEF Keeping
  <2>2. /\ thread.phase = "idle"
        /\ main.phase # "idle" => Shows(got)
        /\ main.phase = "rename" => tmp = Whole(main.got)
        /\ main.phase = "idle" => Shows(data)
    BY <1>2, <2>1 DEF DiskInv, KeepInv
  <2>3. main.phase # "idle" => Shows(main.got)'
    BY <1>1, <1>2, <1>3, <2>1, <2>2, ShowsRewritten
  <2>4. main.phase = "idle" => Shows(dump.data)'
    BY <1>1, <1>2, <1>4, <2>1, <2>2, ShowsRewritten
  <2> QED BY <1>1, <2>2, <2>3, <2>4
<1> QED BY <1>1, <1>5 DEF DiskInv, DownInv, EmbeddedInv, NothingIn

(***************************************************************************)
(* The steps that reach the files: what the save on the main thread holds  *)
(* becomes the temporary file, and that the snapshot file.                 *)
(***************************************************************************)
LEMMA WriteRests ==
    ASSUME NothingIn(dump), NothingIn(tmp), NEW save, WriteFile(save)
    PROVE  NothingIn(dump)' /\ NothingIn(tmp)'
  BY DEF WriteFile, Written, Whole, Torn, NothingIn

LEMMA ThreadFileKeeps ==
    ASSUME TypesInv, DiskInv, ThreadOpen \/ ThreadWrite \/ ThreadRename,
           UNCHANGED <<dict, now, mode, up, clean>>
    PROVE  DiskInv'
<1>1. thread.phase # "idle" BY DEF ThreadOpen, ThreadWrite, ThreadRename
<1>2. ~Keeping /\ mode # "embedded" /\ up # "down"
  BY <1>1 DEF DiskInv, KeepInv, EmbeddedInv, DownInv
<1>3. UNCHANGED overlapped BY DEF ThreadOpen, ThreadWrite, ThreadRename
<1>4. ~Keeping' BY <1>2, <1>3 DEF Keeping
<1>5. NothingIn(dump)' /\ NothingIn(tmp)'
  <2>1. CASE ThreadWrite BY <2>1, WriteRests DEF ThreadWrite, DiskInv
  <2>2. CASE ThreadOpen BY <2>2 DEF ThreadOpen, Blank, DiskInv, NothingIn
  <2>3. CASE ThreadRename BY <2>3 DEF ThreadRename, NoFile, files, DiskInv, NothingIn
  <2> QED BY <2>1, <2>2, <2>3
<1> QED BY <1>2, <1>4, <1>5 DEF DiskInv, KeepInv, EmbeddedInv, DownInv

LEMMA MainFileKeeps ==
    ASSUME TypesInv, DiskInv, MainOpen \/ MainWrite \/ MainRename,
           UNCHANGED <<dict, now, mode, up, clean>>
    PROVE  DiskInv'
<1>1. PICK got : got = main.got OBVIOUS
<1>2. UNCHANGED overlapped /\ main.phase # "idle" BY DEF MainOpen, MainWrite, MainRename
<1>3. up # "down" BY <1>2 DEF DiskInv, DownInv
<1>4. Keeping' => Keeping BY <1>2 DEF Keeping
<1>5. Keeping => thread.phase = "idle" /\ Shows(got)
  BY <1>1, <1>2 DEF DiskInv, KeepInv
<1>6. Shows(got) => Shows(got)' BY ShowsSame
<1>7. MainOK /\ ThreadOK /\ (Keeping => Apart) BY DEF TypesInv, DumpInv, Keeping
<1>8. mode = "embedded" => Agreeing(got) BY <1>1 DEF DiskInv, EmbeddedInv
<1>9. CASE MainOpen
  <2>1. /\ main'.phase = "write" /\ main'.got = got /\ tmp' = Blank
        /\ UNCHANGED <<dump, thread>>
    BY <1>1, <1>7, <1>9 DEF MainOpen, Opened, MainOK
  <2>2. KeepInv' BY <1>4, <1>5, <1>6, <2>1, ShowsRewritten DEF KeepInv
  <2>3. EmbeddedInv' BY <1>2, <1>8, <2>1 DEF DiskInv, EmbeddedInv, Blank, Agreeing
  <2> QED BY <1>3, <2>1, <2>2, <2>3 DEF DiskInv, DownInv, NothingIn, Blank
<1>10. CASE MainWrite
  <2>1. /\ main'.phase = "rename" /\ main'.got = got /\ UNCHANGED thread /\ WriteFile(main)
    BY <1>1, <1>7, <1>10 DEF MainWrite, MainOK
  <2>2. ASSUME Keeping PROVE tmp' = Whole(got)
    <3>1. main.file = "tmp" /\ tmp = Blank BY <1>7, <1>10, <2>2 DEF MainWrite, Apart, InHand
    <3> QED BY <1>1, <2>1, <3>1 DEF WriteFile, Written
  <2>3. KeepInv' BY <1>4, <1>5, <1>6, <2>1, <2>2, ShowsRewritten DEF KeepInv
  <2>4. EmbeddedInv'
    <3>1. Agreeing(<<>>) BY DEF Agreeing
    <3>2. mode = "embedded" => Agreeing(dump'.data) /\ Agreeing(tmp'.data)
      BY <1>1, <1>8, <2>1, <3>1 DEF DiskInv, EmbeddedInv, WriteFile, Written, Whole, Torn
    <3> QED BY <1>2, <1>8, <2>1, <3>2 DEF DiskInv, EmbeddedInv
  <2>5. NothingIn(dump)' /\ NothingIn(tmp)' BY <2>1, WriteRests DEF DiskInv
  <2> QED BY <1>3, <2>3, <2>4, <2>5 DEF DiskInv, DownInv
<1>11. CASE MainRename
  <2>1. main' = Idle BY <1>11 DEF MainRename
  <2>2. \/ tmp = NoFile /\ UNCHANGED <<dump, tmp, thread>>
        \/ dump' = tmp /\ tmp' = NoFile /\ thread'.phase = thread.phase
    BY <1>7, <1>11 DEF MainRename, Renamed, ThreadOK, files
  <2>3. ASSUME Keeping PROVE dump'.data = got
    <3>1. tmp = Whole(got) BY <1>1, <1>11, <2>3 DEF DiskInv, KeepInv, MainRename
    <3> QED BY <2>2, <3>1 DEF Whole, NoFile
  <2>4. KeepInv'
    <3>1. Keeping => Shows(dump.data)' BY <1>5, <1>6, <2>3, ShowsRewritten
    <3> QED BY <1>4, <1>5, <2>1, <2>2, <3>1 DEF KeepInv, Idle
  <2>5. EmbeddedInv'
    <3>1. Agreeing(<<>>) BY DEF Agreeing
    <3> QED BY <1>2, <2>1, <2>2, <3>1 DEF DiskInv, EmbeddedInv, Idle, NoFile
  <2>6. NothingIn(dump)' /\ NothingIn(tmp)' BY <2>2 DEF DiskInv, NothingIn, NoFile
  <2> QED BY <1>3, <2>4, <2>5, <2>6 DEF DiskInv, DownInv
<1> QED BY <1>9, <1>10, <1>11

-----------------------------------------------------------------------------
\* An expired key that is removed was not there to be seen.
LEMMA AccessSame ==
    ASSUME DictOK(dict), NEW k \in Key, Access(k)
    PROVE  now' = now /\ \A l \in Key : Live(dict', l) = Live(dict, l)
<1>1. dict' = Removed(dict, k) /\ now' = now /\ IsExpired(dict.entry[k]) BY DEF Access
<1>2. PICK entry \in [Key -> EntryType \cup {Absent}] : entry = dict.entry BY DEF DictOK
<1>3. dict'.entry = [entry EXCEPT ![k] = Absent] BY <1>1, <1>2 DEF Removed
<1>4. ~IsExpired(Absent) BY DEF IsExpired
<1>5. ASSUME NEW l \in Key PROVE Live(dict', l) = Live(dict, l)
  <2>1. CASE l = k BY <1>1, <1>2, <1>3, <1>4, <2>1 DEF Live
  <2>2. CASE l # k
    <3>1. dict'.entry[l] = dict.entry[l] BY <1>2, <1>3, <2>2
    <3> QED BY <3>1 DEF Live
  <2> QED BY <2>1, <2>2
<1> QED BY <1>1, <1>5

\* While the server runs, what is in memory need not be on disk.
LEMMA ServerKeeps ==
    ASSUME DiskInv, mode = "server", up = "up", UNCHANGED <<mode, up, clean>>,
           \/ UNCHANGED saves
           \/ /\ thread'.phase # "idle"
              /\ UNCHANGED <<dump, tmp, main, overlapped>>
    PROVE  DiskInv'
  BY DEF DiskInv, KeepInv, Keeping, DownInv, EmbeddedInv, NothingIn, saves

\* The thread runs while the server does, or has not ended yet when it stops.
LEMMA ThreadKeeps ==
    ASSUME DiskInv, ThreadStep
    PROVE  DiskInv'
<1>1. thread.phase # "idle" BY ReadCases DEF ThreadStep, ThreadBegin
<1>2. UNCHANGED <<dump, tmp, main, overlapped, mode, up, clean>>
  BY ReadCases DEF ThreadStep, ThreadBegin, files, process
<1>3. ~Keeping /\ mode # "embedded" /\ up # "down"
  BY <1>1 DEF DiskInv, KeepInv, EmbeddedInv, DownInv
<1>4. ~Keeping' BY <1>2, <1>3 DEF Keeping
<1> QED BY <1>2, <1>3, <1>4 DEF DiskInv, KeepInv, DownInv, EmbeddedInv, NothingIn

LEMMA SaveCommandKeeps ==
    ASSUME TypesInv, TypesInv', DiskInv, SaveCommand
    PROVE  DiskInv'
<1>1. /\ mode = "server" /\ up = "up"
      /\ UNCHANGED <<dict, now, mode, up, clean>>
  BY DEF SaveCommand, AtLoop, state, process
<1>2. DictOK(dict') BY DEF TypesInv, KeysOK
<1>3. CASE MainSave(dict) BY <1>1, <1>2, <1>3, MainSaveKeeps
<1>4. CASE BgSave
  <2>1. UNCHANGED <<dump, tmp, main, overlapped>> BY <1>4 DEF BgSave, files
  <2>2. UNCHANGED thread \/ thread'.phase # "idle"
    <3>1. thread.phase = "idle" => thread'.phase = "asked"
      BY <1>4 DEF BgSave, TypesInv, DumpInv, ThreadOK
    <3> QED BY <1>4, <3>1 DEF BgSave
  <2>3. UNCHANGED hand BY DEF SaveCommand
  <2> QED BY <1>1, <2>1, <2>2, <2>3, ServerKeeps DEF saves
<1> QED BY <1>3, <1>4 DEF SaveCommand

LEMMA ExitKeeps ==
    ASSUME DiskInv, Exit
    PROVE  DiskInv'
<1>1. /\ up = "stopping" /\ main.phase = "idle" /\ thread.phase = "idle"
      /\ UNCHANGED <<dict, now, dump, tmp, main, thread, overlapped, mode>>
  BY DEF Exit, saves
<1>2. PICK data : data = dump.data OBVIOUS
<1>3. ~overlapped => Shows(data) BY <1>1, <1>2 DEF DiskInv, KeepInv, Keeping
<1>4. Shows(data) => Shows(data)' BY <1>1, ShowsSame
<1>5. Keeping' => Shows(dump.data)'
  BY <1>1, <1>2, <1>3, <1>4, ShowsRewritten DEF Keeping
<1>6. KeepInv' BY <1>1, <1>5 DEF KeepInv
<1> QED BY <1>1, <1>6 DEF DiskInv, DownInv, EmbeddedInv, NothingIn

LEMMA CrashKeeps ==
    ASSUME DiskInv, Crash
    PROVE  DiskInv'
<1>1. /\ up' = "down" /\ clean' = FALSE /\ main' = Idle /\ thread' = NoThread
      /\ UNCHANGED <<dump, tmp, overlapped, mode>>
  BY DEF Crash, files
<1>2. ~Keeping' BY <1>1 DEF Keeping
<1>3. Agreeing(<<>>) BY DEF Agreeing
<1> QED BY <1>1, <1>2, <1>3
        DEF DiskInv, KeepInv, DownInv, EmbeddedInv, NothingIn, Idle, NoThread

\* An embedded database begins with what its file shows.
LEMMA StartKeeps ==
    ASSUME TypesInv, DiskInv, Start
    PROVE  DiskInv'
<1>1. /\ up = "down" /\ up' = "up" /\ dict' = Loaded(dump)
      /\ UNCHANGED <<now, dump, tmp, main, thread, overlapped, mode>>
  BY DEF Start, saves
<1>2. main.phase = "idle" /\ thread.phase = "idle" BY <1>1 DEF DiskInv, DownInv
<1>3. PICK data : data = dump.data OBVIOUS
<1>4. mode = "embedded" => Shows(data)'
  BY <1>1, <1>3, LoadedShows DEF DiskInv, EmbeddedInv
<1>5. Keeping' => Shows(dump.data)' BY <1>1, <1>3, <1>4, ShowsRewritten DEF Keeping
<1>6. KeepInv' BY <1>1, <1>2, <1>5 DEF KeepInv
<1> QED BY <1>1, <1>6 DEF DiskInv, DownInv, EmbeddedInv, NothingIn

LEMMA DiskStep ==
    ASSUME TypesInv, TypesInv', DiskInv, [Next]_vars
    PROVE  DiskInv'
<1>0. DictOK(dict) /\ DictOK(dict') BY DEF TypesInv, KeysOK
<1>1. CASE Command \/ ActiveExpiry
  BY <1>1, ServerKeeps DEF Command, ActiveExpiry, AtLoop, process
<1>2. CASE SaveCommand BY <1>2, SaveCommandKeeps
<1>3. CASE ThreadStep BY <1>3, ThreadKeeps
<1>4. CASE EmbeddedCall
  BY <1>0, <1>4, MainSaveKeeps DEF EmbeddedCall, AtLoop, process
<1>5. CASE Read
  <2>1. now' = now /\ \A l \in Key : Live(dict', l) = Live(dict, l)
    BY <1>0, <1>5, AccessSame DEF Read
  <2>2. UNCHANGED <<saves, mode, up, clean>> BY <1>5 DEF Read, process
  <2> QED BY <2>1, <2>2, StillKeeps
<1>6. CASE Clock
  <2>1. dict' = dict /\ now' = now + 1 /\ UNCHANGED <<saves, mode, up, clean>>
    BY <1>6 DEF Clock, Tick, process
  <2>2. now <= now' BY <2>1 DEF TypesInv, KeysOK
  <2> QED BY <2>1, <2>2, StillKeeps DEF TypesInv
<1>7. CASE SaveStep
  <2>1. UNCHANGED <<dict, now, mode, up, clean>> BY <1>7 DEF SaveStep, state, process
  <2> QED BY <1>7, <2>1, ThreadFileKeeps, MainFileKeeps DEF SaveStep, FileStep
<1>8. CASE Stop
  <2>1. /\ up = "up" /\ up' = "stopping" /\ MainSave(dict)
        /\ dict' = dict /\ now' = now /\ UNCHANGED mode
    BY <1>8 DEF Stop, AtLoop, state
  <2> QED BY <1>0, <2>1, MainSaveKeeps
<1>9. CASE Exit BY <1>9, ExitKeeps
<1>10. CASE Crash BY <1>10, CrashKeeps
<1>11. CASE Start BY <1>11, StartKeeps
<1>12. CASE UNCHANGED vars
  <2>1. UNCHANGED <<dict, now, saves, mode, up, clean>> BY <1>12 DEF vars, state, process
  <2>2. \A l \in Key : Live(dict', l) = Live(dict, l) BY <2>1
  <2> QED BY <2>1, <2>2, StillKeeps
<1> QED BY <1>1, <1>2, <1>3, <1>4, <1>5, <1>6, <1>7, <1>8, <1>9, <1>10, <1>11, <1>12
        DEF Next

LEMMA DiskInit == Init => DiskInv
<1> SUFFICES ASSUME Init PROVE DiskInv OBVIOUS
<1>1. KeepInv /\ DownInv BY DEF Init, KeepInv, Keeping, DownInv, Idle, NoThread
<1>2. Agreeing(<<>>) BY DEF Agreeing
<1>3. NothingIn(dump) /\ NothingIn(tmp) BY DEF Init, NothingIn, NoFile, Whole
<1>4. Agreeing(dump.data)
  <2>1. CASE dump = NoFile BY <1>2, <2>1 DEF NoFile
  <2>2. ASSUME NEW data \in Dumps, dump = Whole(data) PROVE Agreeing(dump.data)
    <3>1. \A i, j \in DOMAIN data : data[i].key = data[j].key => data[i] = data[j]
      BY LifeCycleAssumption
    <3>2. Agreeing(data) BY <3>1 DEF Agreeing
    <3> QED BY <2>2, <3>2 DEF Whole
  <2> QED BY <2>1, <2>2 DEF Init
<1>5. EmbeddedInv BY <1>2, <1>4 DEF Init, EmbeddedInv, NoFile, Idle, NoThread
<1> QED BY <1>1, <1>3, <1>5 DEF DiskInv

(***************************************************************************)
(* What a server had in memory when it stopped is on disk, whatever its    *)
(* BGSAVEs did before, unless the save of the shutdown overlapped one; and *)
(* what an embedded database has is on disk after every call, also when it *)
(* crashed and started before (persistence/snapshot.py, embedded.py).      *)
(***************************************************************************)
THEOREM WhatIsOnDisk == Spec => []MemoryOnDisk
<1> DEFINE IInv == TypesInv /\ DiskInv
<1>1. Init => IInv BY TypesInit, DiskInit
<1>2. IInv /\ [Next]_vars => IInv' BY TypesStep, DiskStep
<1>3. IInv => MemoryOnDisk
  <2> SUFFICES ASSUME IInv PROVE MemoryOnDisk OBVIOUS
  <2>1. Shows(dump.data) => SameOnDisk BY DEF Shows, SameOnDisk
  <2>2. ASSUME up = "down", clean, ~overlapped PROVE Shows(dump.data)
    BY <2>2 DEF DiskInv, KeepInv, DownInv, Keeping
  <2>3. ASSUME up = "up", mode = "embedded", main.phase = "idle" PROVE Shows(dump.data)
    BY <2>3 DEF DiskInv, KeepInv, EmbeddedInv, Keeping
  <2> QED BY <2>1, <2>2, <2>3 DEF MemoryOnDisk
<1> QED BY <1>1, <1>2, <1>3, PTL DEF Spec
=============================================================================
