---------------------------- MODULE MCReplication ----------------------------
(***************************************************************************)
(* Small instances of Replication for TLC.                                 *)
(***************************************************************************)
EXTENDS Replication

CONSTANTS k1, k2

TwoKeys == {k1, k2}

Send(op, k, v) == [op |-> op, key |-> k, val |-> v]

(***************************************************************************)
(* Each command on a key, and on another key one that fills the backlog.   *)
(***************************************************************************)
EveryWrite ==
    { Send("SET", k1, "small"), Send("PUSH", k1, Absent), Send("DEL", k1, Absent),
      Send("SET", k2, "big") }

AnyByte == [cmd : Command, part : 1..(Size + 1)]
=============================================================================
