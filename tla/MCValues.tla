------------------------------ MODULE MCValues ------------------------------
(***************************************************************************)
(* A small instance of Values: k1 and k2 share a slot, k3 is in the other. *)
(* k1 takes values of every type, the other keys sets.                     *)
(***************************************************************************)
EXTENDS Values, TLC

CONSTANTS k1, k2, k3, me, peer

ThreeKeys == {k1, k2, k3}
Slots == k1 :> 0 @@ k2 :> 0 @@ k3 :> 1

ListRequests ==
    { [op |-> op, key |-> k1, values |-> vs] :
          op \in {"LPUSH", "RPUSH"}, vs \in {<<0>>, <<1>>, <<0, 1>>} }
    \cup { [op |-> op, key |-> k1, count |-> n] : op \in {"LPOP", "RPOP"}, n \in {1, 2} }
    \cup { [op |-> "LSET", key |-> k1, index |-> i, value |-> 1] : i \in {-1, 1} }
    \cup { [op |-> "LINSERT", key |-> k1, where |-> w, pivot |-> 0, value |-> 1] :
               w \in {"BEFORE", "AFTER", "BESIDE"} }
    \cup { [op |-> "LTRIM", key |-> k1, start |-> 1, stop |-> n] : n \in {-1, 0} }
    \cup { [op |-> "LREM", key |-> k1, count |-> n, value |-> 0] : n \in {-1, 0, 1} }

HashRequests ==
    { [op |-> "HSET", key |-> k1, pairs |-> p] : p \in {1 :> 0, 1 :> Text @@ 2 :> 0} }
    \cup { [op |-> "HSETNX", key |-> k1, field |-> 2, value |-> Text],
           [op |-> "HDEL", key |-> k1, fields |-> {1}],
           [op |-> "HDEL", key |-> k1, fields |-> {1, 2}] }
    \cup { [op |-> "HINCRBY", key |-> k1, field |-> 1, delta |-> d] : d \in {1, Text} }

SetRequests ==
    { [op |-> "SADD", key |-> k, members |-> ms] : k \in {k1, k2}, ms \in {{0}, {0, 1}} }
    \cup { [op |-> "SADD", key |-> k3, members |-> {0}] }
    \cup { [op |-> "SREM", key |-> k1, members |-> {0}] }
    \cup { [op |-> "SPOP", key |-> k1, count |-> n] : n \in {0, 1} }
    \cup { [op |-> op, keys |-> <<k1, k2>>] : op \in {"SUNION", "SINTER", "SDIFF"} }

(***************************************************************************)
(* Three members, of which 0 is the empty one, with two scores.            *)
(***************************************************************************)
SortedSetRequests ==
    { [op |-> "ZADD", key |-> k1, pairs |-> <<<<score, m>>>>, nx |-> FALSE, xx |-> FALSE] :
          score \in 0..1, m \in 0..1 }
    \cup { [op |-> "ZADD", key |-> k1, pairs |-> <<<<1, 2>>, <<0, 2>>>>, nx |-> nx, xx |-> ~nx] :
               nx \in BOOLEAN }
    \cup { [op |-> "ZINCRBY", key |-> k1, delta |-> d, member |-> 1] : d \in {1, -1} }
    \cup { [op |-> "ZREM", key |-> k1, members |-> ms] : ms \in {<<0>>, <<1>>, <<2, 1>>} }

KeyRequests ==
    { [op |-> "SET", key |-> k1, value |-> 0], [op |-> "DEL", keys |-> <<k1, k2>>],
      [op |-> "DEL", keys |-> <<k2, k3>>] }
    \cup { [op |-> op, keys |-> ks] : op \in {"RENAME", "RENAMENX"},
               ks \in {<<k2, k1>>, <<k3, k2>>, <<k2, k2>>} }
    \cup { [op |-> op, key |-> k1] :
               op \in {"LRANGE", "HGET", "HGETALL", "SMEMBERS", "ZRANGE"} }

ClusterRequests ==
    { [op |-> "CLUSTER MEET", node |-> peer] }
    \cup { [op |-> "CLUSTER ADDSLOTS", slots |-> ss] : ss \in {{0}, {1, 2}} }

Requests ==
    ListRequests \cup HashRequests \cup SetRequests \cup SortedSetRequests
    \cup KeyRequests \cup ClusterRequests
=============================================================================
