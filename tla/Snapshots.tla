----------------------------- MODULE Snapshots ------------------------------
(***************************************************************************)
(* persistence/snapshot.py: saving the dataset to a file and loading it.   *)
(*                                                                         *)
(* A save writes a temporary file and renames it.  SAVE and the save of a  *)
(* shutdown run on the main thread, BGSAVE on a thread of its own, which   *)
(* walks the dictionary, and the values in it, while commands change them. *)
(* All use the same name for the temporary file, and a file that is open   *)
(* stays the same file when it is renamed or replaced.                     *)
(***************************************************************************)
EXTENDS Expiration

VARIABLES dump,                    \* the snapshot file
          tmp,                     \* the file of the suffix .rdb.tmp
          main,                    \* the save that runs on the main thread
          thread,                  \* the save that runs on the executor's
          hand,                    \* what the thread has read of the entry it is at
          overlapped               \* history: both have run at the same time

files == <<dump, tmp>>

(***************************************************************************)
(* A file: whole with the records of the keys saved, torn, just opened, or *)
(* not there.                                                              *)
(***************************************************************************)
Whole(data) == [state |-> "whole", data |-> data]
Torn == [state |-> "torn", data |-> <<>>]
Blank == [state |-> "blank", data |-> <<>>]
NoFile == [state |-> "none", data |-> <<>>]

Records(d, keys) ==
    LET live == Picked(keys, {i \in DOMAIN keys : Live(d, keys[i]) # Absent})
    IN  [i \in DOMAIN live |-> [key |-> live[i], entry |-> d.entry[live[i]]]]

\* Everything the dictionary holds that has not expired.
Collected(d) == Records(d, InDictOrder(d))

(***************************************************************************)
(* A save in progress: what it has collected, and which name the file it   *)
(* has open goes by ("gone" when it was replaced).  The thread's also has  *)
(* its place in the dictionary, the number of keys when it began and that  *)
(* of the keys it has met.                                                 *)
(***************************************************************************)
Idle == [phase |-> "idle", got |-> <<>>, file |-> "none"]
NoThread == [phase |-> "idle", got |-> <<>>, file |-> "none", pos |-> 0, size |-> 0, met |-> 0]

Size(d) == Cardinality(Filled(d))

(***************************************************************************)
(* bgsave: refused while another one runs.                                 *)
(***************************************************************************)
BgSave ==
    /\ thread' = IF thread.phase = "idle" THEN [thread EXCEPT !.phase = "asked"] ELSE thread
    /\ UNCHANGED <<files, main, overlapped>>

ThreadBegin ==
    /\ thread.phase = "asked"
    /\ thread' = [thread EXCEPT !.phase = "walk", !.size = Size(dict)]
    /\ UNCHANGED <<files, main, overlapped, hand, held>>

(***************************************************************************)
(* The loop over entries.items().  The thread may lose the interpreter's   *)
(* lock between any two reads, so every read is a step: of the next key,   *)
(* with its entry object; of its expiry, which is_expired reads twice, and *)
(* the code after it twice more; and, one after another, of the fields of  *)
(* the value.  The order of the fields is left open.                       *)
(***************************************************************************)
Reads == {"check", "compare", "expiry", "stamp", "value", "fields"}

NoHand == [read |-> "none", key |-> Nowhere, exp |-> Never, val |-> Empty, size |-> 0, met |-> 0]

Quiet == UNCHANGED <<files, main, overlapped>>

\* An exception ends the save.
ThreadRaises ==
    /\ thread' = NoThread /\ hand' = NoHand /\ held' = NoHold
    /\ Quiet

\* The thread has read something of its object, and that is all.
HandIs(h) == hand' = h /\ UNCHANGED <<thread, held>> /\ Quiet

ThreadAt(read) == thread.phase = "walk" /\ hand.read = read

(***************************************************************************)
(* An iterator over a dictionary gives up when the number of its keys is   *)
(* not what it was, or when it meets more than that.                       *)
(***************************************************************************)
GivesUp(count, size, ahead, met) == count # size \/ (ahead # {} /\ met = size)

ThreadVisit ==
    LET ahead == {i \in Filled(dict) : i > thread.pos}
    IN  /\ ThreadAt("none")
        /\ IF GivesUp(Size(dict), thread.size, ahead, thread.met) THEN ThreadRaises
           ELSE /\ IF ahead = {}
                   THEN thread' = [thread EXCEPT !.phase = "open"] /\ UNCHANGED <<hand, held>>
                   ELSE /\ thread' = [thread EXCEPT !.pos = Min(ahead), !.met = @ + 1]
                        /\ hand' = [NoHand EXCEPT !.read = "check",
                                                  !.key = dict.slots[Min(ahead)]]
                        /\ held' = [NoHold EXCEPT !.at = dict.slots[Min(ahead)]]
                /\ Quiet

\* Done with the entry, with or without a record of it.
ThreadNext(records) ==
    /\ thread' = [thread EXCEPT !.got = @ \o records]
    /\ hand' = NoHand /\ held' = NoHold
    /\ Quiet

ThreadCheck ==
    /\ ThreadAt("check")
    /\ HandIs([hand EXCEPT !.read = IF Object.exp = Never THEN "expiry" ELSE "compare"])

\* Wrong on purpose: an entry that has expired is saved too.
ThreadComparesNothing ==
    /\ ThreadAt("compare")
    /\ HandIs([hand EXCEPT !.read = "expiry"])

\* No time can be compared with the None that PERSIST has left.
ThreadCompare ==
    /\ ThreadAt("compare")
    /\ IF Object.exp = Never THEN ThreadRaises
       ELSE IF IsExpired(Object) THEN ThreadNext(<<>>)
       ELSE HandIs([hand EXCEPT !.read = "expiry"])

ThreadExpiry ==
    /\ ThreadAt("expiry")
    /\ HandIs([hand EXCEPT !.read = IF Object.exp = Never THEN "value" ELSE "stamp"])

ThreadStamp ==
    /\ ThreadAt("stamp")
    /\ IF Object.exp = Never THEN ThreadRaises
       ELSE HandIs([hand EXCEPT !.read = "value", !.exp = Object.exp])

ThreadValue ==
    /\ ThreadAt("value")
    /\ HandIs([hand EXCEPT !.read = "fields", !.size = Cardinality(FieldsOf(Object.val))])

HandRecord == [key |-> hand.key, entry |-> [val |-> hand.val, exp |-> hand.exp]]

ThreadField ==
    LET there == FieldsOf(Object.val)
        ahead == there \ held.passed
    IN  /\ ThreadAt("fields")
        /\ IF GivesUp(Cardinality(there), hand.size, ahead, hand.met) THEN ThreadRaises
           ELSE IF ahead = {} THEN ThreadNext(<<HandRecord>>)
           ELSE \E f \in ahead :
                  /\ hand' = [hand EXCEPT !.val = [@ EXCEPT ![f] = Object.val[f]], !.met = @ + 1]
                  /\ held' = [held EXCEPT !.passed = @ \cup {f}]
                  /\ UNCHANGED thread /\ Quiet

ThreadRead ==
    \/ ThreadVisit \/ ThreadCheck \/ ThreadCompare
    \/ ThreadExpiry \/ ThreadStamp \/ ThreadValue \/ ThreadField

\* save on the main thread collects everything between two commands.
MainSave(d) ==
    /\ main' = [phase |-> "open", got |-> Collected(d), file |-> "none"]
    /\ overlapped' = (overlapped \/ thread.phase # "idle")
    /\ UNCHANGED <<files, thread>>
-----------------------------------------------------------------------------
(***************************************************************************)
(* The steps of a save that reach the file: open for writing, which empties*)
(* the file or creates it; write; rename.                                  *)
(***************************************************************************)
Opened(save) == [save EXCEPT !.phase = "write", !.file = "tmp"]

\* The file another save has open, after this one has renamed tmp.
Renamed(save) ==
    [save EXCEPT !.file = CASE @ = "tmp"  -> "dump"
                            [] @ = "dump" -> "gone"
                            [] OTHER      -> @]

\* Over what another save has written, the data may not cover the file.
Written(file, data) ==
    IF file = Blank THEN {Whole(data)} ELSE {Whole(data), Torn}

WriteFile(save) ==
    /\ dump' \in IF save.file = "dump" THEN Written(dump, save.got) ELSE {dump}
    /\ tmp' \in IF save.file = "tmp" THEN Written(tmp, save.got) ELSE {tmp}

MainOpen ==
    /\ main.phase = "open"
    /\ main' = Opened(main)
    /\ tmp' = Blank
    /\ UNCHANGED <<dump, thread, overlapped>>

MainWrite ==
    /\ main.phase = "write"
    /\ WriteFile(main)
    /\ main' = [main EXCEPT !.phase = "rename"]
    /\ UNCHANGED <<thread, overlapped>>

\* os.replace raises when the temporary file is not there.
MainRename ==
    /\ main.phase = "rename"
    /\ main' = Idle
    /\ IF tmp = NoFile THEN UNCHANGED <<files, thread>>
       ELSE /\ dump' = tmp
            /\ tmp' = NoFile
            /\ thread' = Renamed(thread)
    /\ UNCHANGED overlapped

\* Wrong on purpose: the snapshot file is opened in the place of a temporary one.
ThreadOpenInPlace ==
    /\ thread.phase = "open"
    /\ thread' = [thread EXCEPT !.phase = "write", !.file = "dump"]
    /\ dump' = Blank
    /\ UNCHANGED <<tmp, main, overlapped>>

ThreadOpen ==
    /\ thread.phase = "open"
    /\ thread' = Opened(thread)
    /\ tmp' = Blank
    /\ UNCHANGED <<dump, main, overlapped>>

ThreadWrite ==
    /\ thread.phase = "write"
    /\ WriteFile(thread)
    /\ thread' = [thread EXCEPT !.phase = "rename"]
    /\ UNCHANGED <<main, overlapped>>

ThreadRename ==
    /\ thread.phase = "rename"
    /\ thread' = NoThread
    /\ IF tmp = NoFile THEN UNCHANGED <<files, main>>
       ELSE /\ dump' = tmp
            /\ tmp' = NoFile
            /\ main' = Renamed(main)
    /\ UNCHANGED overlapped

FileStep ==
    \/ MainOpen \/ MainWrite \/ MainRename
    \/ ThreadOpen \/ ThreadWrite \/ ThreadRename
-----------------------------------------------------------------------------
(***************************************************************************)
(* load: the records that have not expired, in the order of the file, a    *)
(* later record of a key replacing an earlier one; nothing when the        *)
(* checksum does not match.                                                *)
(***************************************************************************)
Holding(records, k) ==
    LET of == {i \in DOMAIN records : records[i].key = k}
    IN  IF of = {} THEN Absent ELSE records[Max(of)].entry

Loaded(file) ==
    LET kept   == Picked(file.data, {i \in DOMAIN file.data : ~IsExpired(file.data[i].entry)})
        firsts == Picked(kept, {i \in DOMAIN kept :
                                   \A j \in 1..(i - 1) : kept[j].key # kept[i].key})
    IN  IF file.state # "whole" THEN NoKeys
        ELSE [slots |-> [i \in DOMAIN firsts |-> firsts[i].key],
              entry |-> [k \in Key |-> Holding(kept, k)]]
=============================================================================
