--------------------------- MODULE MCTransactions ---------------------------
(***************************************************************************)
(* Small instances of Transactions for TLC.                                *)
(***************************************************************************)
EXTENDS Transactions, TLC

CONSTANTS k1, k2

OneDatabase == {0}
TwoDatabases == {0, 1}
TwoKeys == {k1, k2}

SymmetricClients == Permutations(Client)

Request(op, key, dst, d, val, ttl) ==
    [op |-> op, key |-> key, dst |-> dst, db |-> d, val |-> val, ttl |-> ttl]

Plain(op) == Request(op, k1, k1, 0, 0, 0)

(***************************************************************************)
(* Commands that change an entry in each of the ways the store has: write  *)
(* it, give it a TTL, take that away, move it and with that delete it.     *)
(***************************************************************************)
LockingRequests ==
    { Plain("SET"), Plain("PERSIST"),
      Request("EXPIRE", k1, k1, 0, 0, 1), Request("EXPIRE", k1, k1, 0, 0, -2),
      Request("RENAME", k1, k2, 0, 0, 0) }

(***************************************************************************)
(* Every command, on a first key that may be missing, a string, a number   *)
(* or a container, and on a second key for the commands that name two.     *)
(***************************************************************************)
EveryRequest ==
    { Plain(op) : op \in {"GET", "SET NX", "GETSET", "GETDEL", "GETEX PERSIST",
                          "INCR", "PUSH", "POP", "ZADD XX", "PERSIST",
                          "DEL", "FLUSHDB", "FLUSHALL"} }
    \cup { Request(op, k1, k2, 0, 1, 0) : op \in {"MSET", "RENAME", "RENAMENX",
                                                  "SET XX", "SET KEEPTTL"} }
    \cup { Request(op, k1, k1, 0, 1, 1) : op \in {"SET EX", "GETEX EX", "EXPIRE"} }
    \cup { Request("EXPIRE", k1, k1, 0, 0, 0), Request("SELECT", k1, k1, 1, 0, 0),
           Request("SET", k2, k2, 0, 0, 0) }
=============================================================================
