--------------------------- MODULE SortedSetStore ---------------------------
(***************************************************************************)
(* storage/datatypes/sorted_set_store.py: a sorted set is a dictionary     *)
(* from members to scores and a skip list of the same pairs.  No state     *)
(* here: the methods are operators from a store to a store.                *)
(*                                                                         *)
(* Members are numbers in their byte order, 0 being the empty string, which*)
(* the header of a skip list carries too.  Scores are numbers: a NaN, which*)
(* float() parses, is left out (README, section 5).                        *)
(***************************************************************************)
EXTENDS Integers, Sequences, FiniteSets, SequencesExt, TLC

EmptyMember == 0

(***************************************************************************)
(* SkipListNode: a pair of a score and a member, and the two values a link *)
(* can have besides.                                                       *)
(***************************************************************************)
Header == <<>>
None == <<"none">>

MemberOf(node) == IF node = Header THEN EmptyMember ELSE node[2]

Before(node, score, member) ==
    node[1] < score \/ (node[1] = score /\ node[2] < member)

NoLater(node, score, member) ==
    node[1] < score \/ (node[1] = score /\ node[2] <= member)

(***************************************************************************)
(* links[i] maps the nodes of level i, the header among them, to the next  *)
(* node of that level and the number of nodes the link steps over.  The    *)
(* levels of the header above self.level are not kept: they are set again  *)
(* before they are used.                                                   *)
(***************************************************************************)
Unlinked(span) == [x \in {Header} |-> [next |-> None, span |-> span]]

EmptySkipList ==
    [links |-> <<Unlinked(0)>>, back |-> <<>>, tail |-> None, length |-> 0]

Level(sl) == Len(sl.links)
Nodes(sl) == DOMAIN sl.links[1] \ {Header}

(***************************************************************************)
(* The loop that walks one level from a node, adding up spans, as long as  *)
(* the next node is one of nodes and the sum with its span one of ranks.   *)
(***************************************************************************)
Walk(level, from, nodes, ranks) ==
    LET walk[at \in [node : DOMAIN level, rank : Nat]] ==
            LET next == level[at.node].next
                sum  == at.rank + level[at.node].span
            IN  IF next \in nodes /\ sum \in ranks
                THEN walk[[node |-> next, rank |-> sum]]
                ELSE at
    IN  walk[from]

(***************************************************************************)
(* The loop over the levels from the top: the node and the rank at which   *)
(* each level was left.                                                    *)
(***************************************************************************)
Descend(sl, nodes, ranks) ==
    LET left[i \in 1..Level(sl)] ==
            Walk(sl.links[i],
                 IF i = Level(sl) THEN [node |-> Header, rank |-> 0] ELSE left[i + 1],
                 nodes, ranks)
    IN  left

NodesBefore(sl, score, member) == {y \in Nodes(sl) : Before(y, score, member)}

(***************************************************************************)
(* SkipList.insert, with the level that _random_level drew: on the levels  *)
(* of the new node it comes between the node where the level was left and  *)
(* the next one, gap nodes further; on those above a link has grown longer.*)
(***************************************************************************)
Spliced(level, at, node, gap) ==
    [x \in DOMAIN level \cup {node} |->
        IF x = node THEN [next |-> level[at].next, span |-> level[at].span - gap]
        ELSE IF x = at THEN [next |-> node, span |-> gap + 1]
        ELSE level[x]]

Stretched(level, at, by) ==
    [level EXCEPT ![at] = [next |-> @.next, span |-> @.span + by]]

Insert(sl, score, member, lvl) ==
    LET node     == <<score, member>>
        left     == Descend(sl, NodesBefore(sl, score, member), Nat)
        at(i)    == IF i <= Level(sl) THEN left[i] ELSE [node |-> Header, rank |-> 0]
        level(i) == IF i <= Level(sl) THEN sl.links[i] ELSE Unlinked(sl.length)
        previous == left[1].node
        follower == sl.links[1][previous].next
    IN  [links  |-> [i \in 1..Max({lvl, Level(sl)}) |->
                        IF i <= lvl
                        THEN Spliced(level(i), at(i).node, node, left[1].rank - at(i).rank)
                        ELSE Stretched(level(i), at(i).node, 1)],
         back   |-> [x \in DOMAIN sl.back \cup {node} |->
                        IF x = node THEN IF previous = Header THEN None ELSE previous
                        ELSE IF x = follower THEN node
                        ELSE sl.back[x]],
         tail   |-> IF follower = None THEN node ELSE sl.tail,
         length |-> sl.length + 1]

(***************************************************************************)
(* SkipList.delete_node: unlink the node on every level, then drop the     *)
(* levels that have become empty from the top.                             *)
(***************************************************************************)
Unspliced(level, at, node) ==
    [x \in DOMAIN level \ {node} |->
        IF x = at
        THEN [next |-> level[node].next, span |-> level[at].span + level[node].span - 1]
        ELSE level[x]]

DeleteNode(sl, node, left) ==
    LET unlinked(i) ==
            IF sl.links[i][left[i].node].next = node
            THEN Unspliced(sl.links[i], left[i].node, node)
            ELSE Stretched(sl.links[i], left[i].node, -1)
        used     == {i \in 1..Level(sl) : unlinked(i)[Header].next # None}
        follower == sl.links[1][node].next
    IN  [links  |-> [i \in 1..Max({1} \cup used) |-> unlinked(i)],
         back   |-> [x \in DOMAIN sl.back \ {node} |->
                        IF x = follower THEN sl.back[node] ELSE sl.back[x]],
         tail   |-> IF follower = None THEN sl.back[node] ELSE sl.tail,
         length |-> sl.length - 1]

\* SkipList.delete
DeletePair(sl, score, member) ==
    LET left   == Descend(sl, NodesBefore(sl, score, member), Nat)
        target == sl.links[1][left[1].node].next
    IN  IF target = <<score, member>> THEN DeleteNode(sl, target, left) ELSE sl

(***************************************************************************)
(* SkipList.get_rank: the rank at which the first level from the top ends  *)
(* at a node with that member, 0 when no level does.                       *)
(***************************************************************************)
GetRank(sl, score, member) ==
    LET left == Descend(sl, {y \in Nodes(sl) : NoLater(y, score, member)}, Nat)
        hits == {i \in 1..Level(sl) : MemberOf(left[i].node) = member}
    IN  IF hits = {} THEN 0 ELSE left[Max(hits)].rank

\* Wrong on purpose: stops a link early, on the node before the one wanted.
GetElementBeforeRank(sl, rank) ==
    LET left == Descend(sl, Nodes(sl), 0..(rank - 1))
        hits == {i \in 1..Level(sl) : left[i].rank = rank - 1}
    IN  IF hits = {} THEN None ELSE left[Max(hits)].node

\* SkipList.get_element_by_rank
GetElementByRank(sl, rank) ==
    LET left == Descend(sl, Nodes(sl), 0..rank)
        hits == {i \in 1..Level(sl) : left[i].rank = rank}
    IN  IF hits = {} THEN None ELSE left[Max(hits)].node
-----------------------------------------------------------------------------
EmptySortedSet == [dict |-> <<>>, sl |-> EmptySkipList]

ZCard(z) == Cardinality(DOMAIN z.dict)

Placed(z, score, member, lvl) ==
    [dict |-> [m \in DOMAIN z.dict \cup {member} |-> IF m = member THEN score ELSE z.dict[m]],
     sl   |-> Insert(z.sl, score, member, lvl)]

\* Wrong on purpose: a new score is stored, the old pair stays in the skip list.
ZAddOneKeepingOld(z, new, nx, xx) ==
    LET exists == new.member \in DOMAIN z.dict
    IN  IF (nx /\ exists) \/ (xx /\ ~exists) THEN z
        ELSE IF exists /\ z.dict[new.member] = new.score THEN z
        ELSE Placed(z, new.score, new.member, new.level)

(***************************************************************************)
(* One turn of the loop of SortedSetStore.zadd.  A new pair carries the    *)
(* level its node will have.                                               *)
(***************************************************************************)
ZAddOne(z, new, nx, xx) ==
    LET exists == new.member \in DOMAIN z.dict
    IN  IF (nx /\ exists) \/ (xx /\ ~exists) THEN z
        ELSE IF ~exists THEN Placed(z, new.score, new.member, new.level)
        ELSE IF z.dict[new.member] = new.score THEN z
        ELSE Placed([z EXCEPT !.sl = DeletePair(z.sl, z.dict[new.member], new.member)],
                    new.score, new.member, new.level)

ZAdd(z, pairs, nx, xx) ==
    LET added[i \in 0..Len(pairs)] ==
            IF i = 0 THEN z ELSE ZAddOne(added[i - 1], pairs[i], nx, xx)
    IN  added[Len(pairs)]

ZIncrBy(z, delta, member, lvl) ==
    LET exists == member \in DOMAIN z.dict
        score  == IF exists THEN z.dict[member] ELSE 0
        sl     == IF exists THEN DeletePair(z.sl, score, member) ELSE z.sl
    IN  Placed([z EXCEPT !.sl = sl], score + delta, member, lvl)

\* One turn of the loop of SortedSetStore.zrem.
ZRemOne(z, member) ==
    IF member \notin DOMAIN z.dict THEN z
    ELSE [dict |-> Restrict(z.dict, DOMAIN z.dict \ {member}),
          sl   |-> DeletePair(z.sl, z.dict[member], member)]

ZRem(z, members) ==
    LET left[i \in 0..Len(members)] ==
            IF i = 0 THEN z ELSE ZRemOne(left[i - 1], members[i])
    IN  left[Len(members)]

(***************************************************************************)
(* Ranks count from 0; -1 stands for None.                                 *)
(***************************************************************************)
ZRank(z, member) ==
    IF member \notin DOMAIN z.dict THEN -1
    ELSE GetRank(z.sl, z.dict[member], member) - 1

ZRevRank(z, member) ==
    IF ZRank(z, member) = -1 THEN -1
    ELSE ZCard(z) - 1 - ZRank(z, member)

(***************************************************************************)
(* The members met when at most count nodes are followed from a node.      *)
(***************************************************************************)
Follow(first, count, next) ==
    LET node[i \in 1..count] ==
            IF i = 1 THEN first
            ELSE IF node[i - 1] = None THEN None
            ELSE next[node[i - 1]]
        met == {i \in 1..count : node[i] # None}
    IN  [i \in 1..Cardinality(met) |-> MemberOf(node[i])]

(***************************************************************************)
(* zrange and zrevrange: indices below 0 count from the end.               *)
(***************************************************************************)
FromEnd(i, n) == IF i < 0 THEN Max({0, n + i}) ELSE i

ZRange(z, start, stop) ==
    LET n     == ZCard(z)
        first == FromEnd(start, n)
        last  == FromEnd(stop, n)
    IN  IF n = 0 \/ first > last \/ first >= n THEN <<>>
        ELSE Follow(GetElementByRank(z.sl, first + 1), (Min({last, n - 1}) - first) + 1,
                    [x \in DOMAIN z.sl.links[1] |-> z.sl.links[1][x].next])

ZRevRange(z, start, stop) ==
    LET n     == ZCard(z)
        first == FromEnd(start, n)
        last  == FromEnd(stop, n)
    IN  IF n = 0 \/ first > last \/ first >= n THEN <<>>
        ELSE Follow(GetElementByRank(z.sl, n - first), (Min({last, n - 1}) - first) + 1,
                    z.sl.back)

ZCount(z, low, high) ==
    Cardinality({m \in DOMAIN z.dict : low <= z.dict[m] /\ z.dict[m] <= high})
-----------------------------------------------------------------------------
(***************************************************************************)
(* Reference definitions: the place of a node among pairs in the order of  *)
(* score and then of member, the pairs in that order, and what it means for*)
(* a skip list to hold them.                                               *)
(***************************************************************************)
Pairs(dict) == {<<dict[m], m>> : m \in DOMAIN dict}

PlaceIn(pairs, x) ==
    IF x = Header THEN 0
    ELSE IF x = None THEN Cardinality(pairs)
    ELSE Cardinality({p \in pairs : NoLater(p, x[1], x[2])})

InOrder(pairs) ==
    [i \in 1..Cardinality(pairs) |-> CHOOSE p \in pairs : PlaceIn(pairs, p) = i]

(***************************************************************************)
(* A link leads to the nearest later node of its level, and its span is    *)
(* the distance between the two in the whole order.                        *)
(***************************************************************************)
Linked(level, pairs) ==
    \A x \in DOMAIN level :
        LET next  == level[x].next
            later == {y \in DOMAIN level : PlaceIn(pairs, y) > PlaceIn(pairs, x)}
        IN  /\ next \in IF later = {} THEN {None} ELSE later
            /\ \A y \in later : PlaceIn(pairs, next) <= PlaceIn(pairs, y)
            /\ level[x].span = PlaceIn(pairs, next) - PlaceIn(pairs, x)

(***************************************************************************)
(* The first level has all pairs, each level contains the one above, and   *)
(* no level but the first is empty; the tail and the back links give the   *)
(* order in reverse.                                                       *)
(***************************************************************************)
Levelled(links, pairs) ==
    /\ Len(links) \in Nat \ {0}
    /\ DOMAIN links[1] = {Header} \cup pairs
    /\ \A i \in 1..Len(links) :
          /\ Header \in DOMAIN links[i]
          /\ Linked(links[i], pairs)
          /\ i > 1 => /\ DOMAIN links[i] \subseteq DOMAIN links[i - 1]
                      /\ links[i][Header].next # None

Backwards(sl, pairs) ==
    /\ IF pairs = {} THEN sl.tail = None
       ELSE sl.tail \in pairs /\ PlaceIn(pairs, sl.tail) = Cardinality(pairs)
    /\ DOMAIN sl.back = pairs
    /\ \A x \in pairs :
          IF PlaceIn(pairs, x) = 1 THEN sl.back[x] = None
          ELSE sl.back[x] \in pairs /\ PlaceIn(pairs, sl.back[x]) = PlaceIn(pairs, x) - 1

HoldsPairs(sl, pairs) ==
    /\ Levelled(sl.links, pairs)
    /\ Backwards(sl, pairs)
    /\ sl.length = Cardinality(pairs)
=============================================================================
