------------------------- MODULE ReplicationBacklog -------------------------
(***************************************************************************)
(* The ring of the last bytes of the replication stream                    *)
(* (replication/backlog.py).                                               *)
(***************************************************************************)
EXTENDS Integers, Sequences

CONSTANTS
    Size,       \* max_size
    Byte,       \* what the stream consists of
    Unwritten   \* what bytearray() fills the ring with

ASSUME BacklogAssumption == Size \in Nat \ {0}

Slot == 0..(Size - 1)

Backlog ==
    [buffer : [Slot -> Byte \cup {Unwritten}],
     master : Nat,    \* master_offset
     first : Nat]     \* first_byte_offset

EmptyBacklog ==
    [buffer |-> [i \in Slot |-> Unwritten], master |-> 0, first |-> 0]

(***************************************************************************)
(* The ring after data was written from slot idx on, around its end.       *)
(***************************************************************************)
WrapFrom(buffer, idx, data) ==
    [i \in Slot |->
        IF idx <= i /\ i < idx + Len(data) THEN data[i - idx + 1]
        ELSE IF i + Size < idx + Len(data) THEN data[i + Size - idx + 1]
        ELSE buffer[i]]

(***************************************************************************)
(* Of data that is no smaller than the ring only the end is counted, and   *)
(* it is written from slot 0 on wherever the offset stands.                *)
(***************************************************************************)
FeedWhole(backlog, data) ==
    [buffer |-> [i \in Slot |-> data[Len(data) - Size + i + 1]],
     master |-> backlog.master + Size,
     first |-> backlog.master]

FeedPart(backlog, data) ==
    LET end == backlog.master + Len(data)
    IN  [buffer |-> WrapFrom(backlog.buffer, backlog.master % Size, data),
         master |-> end,
         first |-> IF end - backlog.first > Size THEN end - Size ELSE backlog.first]

Feed(backlog, data) ==
    IF Len(data) >= Size THEN FeedWhole(backlog, data) ELSE FeedPart(backlog, data)

\* Wrong on purpose: the window starts one byte late.
InBacklogLate(backlog, offset) ==
    backlog.first <= offset + 1 /\ offset <= backlog.master

\* is_offset_in_backlog
InBacklog(backlog, offset) ==
    \/ backlog.master = 0 /\ offset = 0
    \/ backlog.first <= offset /\ offset <= backlog.master

\* get_data_since_offset, of an offset in the backlog
DataSince(backlog, offset) ==
    LET idx == offset % Size
    IN  [i \in 1..(backlog.master - offset) |->
            backlog.buffer[IF idx + i <= Size THEN idx + i - 1 ELSE idx + i - 1 - Size]]
=============================================================================
