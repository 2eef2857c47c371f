----------------------------- MODULE ListStore ------------------------------
(***************************************************************************)
(* storage/datatypes/list_store.py: the methods of a list, on sequences.   *)
(***************************************************************************)
EXTENDS Integers, Sequences, FiniteSets, SequencesExt

LPush(list, values) == Reverse(values) \o list
RPush(list, values) == list \o values

\* What is left when count elements were popped from the head or the tail.
LPop(list, count) == SubSeq(list, Min({count, Len(list)}) + 1, Len(list))
RPop(list, count) == SubSeq(list, 1, Len(list) - Min({count, Len(list)}))

(***************************************************************************)
(* Indices count from 0, below 0 from the end.                             *)
(***************************************************************************)
Index(list, i) == IF i < 0 THEN Len(list) + i ELSE i
InRange(list, i) == 0 <= Index(list, i) /\ Index(list, i) < Len(list)

LIndex(list, i) == IF InRange(list, i) THEN <<list[Index(list, i) + 1]>> ELSE <<>>

LSet(list, i, value) == [list EXCEPT ![Index(list, i) + 1] = value]

(***************************************************************************)
(* lrange.  An index before the head is taken for the head, the last index *)
(* of the range too.                                                       *)
(***************************************************************************)
LRange(list, start, stop) ==
    LET n     == Len(list)
        first == IF start < 0 THEN Max({0, n + start}) ELSE start
        last  == IF stop < 0 THEN Max({0, n + stop}) ELSE stop
    IN  IF n = 0 \/ first > last \/ first >= n THEN <<>>
        ELSE SubSeq(list, first + 1, Min({last, n - 1}) + 1)

(***************************************************************************)
(* ltrim writes the same bounds out again.                                 *)
(***************************************************************************)
LTrim(list, start, stop) ==
    LET n     == Len(list)
        first == IF start < 0 THEN Max({0, n + start}) ELSE start
        last  == IF stop < 0 THEN Max({0, n + stop}) ELSE stop
    IN  IF n = 0 THEN list
        ELSE IF first > last \/ first >= n THEN <<>>
        ELSE SubSeq(list, first + 1, Min({last, n - 1}) + 1)

Occurrences(list, value) == {i \in DOMAIN list : list[i] = value}

\* linsert, when the pivot occurs: at its first occurrence.
LInsert(list, where, pivot, value) ==
    LET at == Min(Occurrences(list, pivot))
    IN  InsertAt(list, IF where = "BEFORE" THEN at ELSE at + 1, value)

(***************************************************************************)
(* lrem: the occurrences at most abs(count) of which lie on the side the   *)
(* count starts from are dropped, all of them when count is 0.             *)
(***************************************************************************)
LRem(list, count, value) ==
    LET found  == Occurrences(list, value)
        gone   == CASE count = 0 -> found
                    [] count > 0 -> {i \in found : Cardinality({j \in found : j <= i}) <= count}
                    [] OTHER     -> {i \in found : Cardinality({j \in found : j >= i}) <= -count}
        kept[i \in 0..Len(list)] ==
            IF i = 0 THEN <<>>
            ELSE IF i \in gone THEN kept[i - 1]
            ELSE Append(kept[i - 1], list[i])
    IN  kept[Len(list)]
=============================================================================
