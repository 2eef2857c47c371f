--------------------------- MODULE SortedSetProof ---------------------------
(***************************************************************************)
(* The skip list of a sorted set holds the pairs of its dictionary, in     *)
(* order, on every level, with the right spans and back links, whatever    *)
(* insert, delete_node, zadd, zincrby and zrem did to it before.           *)
(*                                                                         *)
(* The argument: a level is a chain, whose links are determined by the     *)
(* nodes that are in it (Joins); the walk along a chain ends at the last   *)
(* node that may be passed (WalkEnds), so the descent of insert and        *)
(* delete_node finds the last earlier node of every level and its place    *)
(* (DescendToPlace); and taking a node into or out of a chain at that      *)
(* place leaves a chain of the other pairs (SplicedChain, UnsplicedChain). *)
(* Ranks and ranges are then found where they should be: a descent ends at *)
(* the pair it looks for, and each link followed is one place.             *)
(***************************************************************************)
EXTENDS SortedSetStore, ProofLemmas, FiniteSetTheorems

-----------------------------------------------------------------------------
(***************************************************************************)
(* Nodes and their order.                                                  *)
(***************************************************************************)
Node == Int \X Nat

\* The two marks are no nodes.
LEMMA NodesAreNodes ==
    /\ Header # None
    /\ \A x \in Node : x # Header /\ x # None /\ x = <<x[1], x[2]>> /\ x[1] \in Int /\ x[2] \in Nat
<1>1. Len(Header) = 0 /\ Len(None) = 1 BY DEF Header, None
<1>2. ASSUME NEW x \in Node
      PROVE  x # Header /\ x # None /\ x = <<x[1], x[2]>> /\ x[1] \in Int /\ x[2] \in Nat
  <2>1. x = <<x[1], x[2]>> /\ x[1] \in Int /\ x[2] \in Nat BY DEF Node
  <2>2. Len(x) = 2 BY <2>1
  <2> QED BY <1>1, <2>1, <2>2
<1> QED BY <1>1, <1>2

\* x comes before y; x comes before y or is y.
Less(x, y) == Before(x, y[1], y[2])
AtMost(x, y) == NoLater(x, y[1], y[2])

\* Nodes are in order of score and then of member.
LEMMA LessIsOrder ==
    ASSUME NEW x \in Node, NEW y \in Node
    PROVE  /\ AtMost(x, x) /\ ~Less(x, x)
           /\ AtMost(x, y) <=> Less(x, y) \/ x = y
           /\ Less(x, y) \/ x = y \/ Less(y, x)
           /\ ~(Less(x, y) /\ Less(y, x))
  BY NodesAreNodes DEF Less, AtMost, Before, NoLater

\* That order is transitive.
LEMMA LessIsTransitive ==
    ASSUME NEW x \in Node, NEW y \in Node, NEW z \in Node, Less(x, y), Less(y, z)
    PROVE  Less(x, z)
  BY NodesAreNodes DEF Less, Before

(***************************************************************************)
(* The place of a node among the pairs.                                    *)
(***************************************************************************)
PairSet(S) == IsFiniteSet(S) /\ S \subseteq Node

UpTo(S, x) == {p \in S : AtMost(p, x)}

\* The header is before all pairs, and a pair has a place among them.
LEMMA PlaceValues ==
    ASSUME NEW S, PairSet(S)
    PROVE  /\ Cardinality(S) \in Nat
           /\ PlaceIn(S, Header) = 0
           /\ PlaceIn(S, None) = Cardinality(S)
           /\ \A x \in Node : /\ IsFiniteSet(UpTo(S, x))
                              /\ PlaceIn(S, x) = Cardinality(UpTo(S, x))
                              /\ PlaceIn(S, x) \in 0..Cardinality(S)
           /\ \A x \in S : PlaceIn(S, x) > 0
<1>1. Cardinality(S) \in Nat BY FS_CardinalityType DEF PairSet
<1>2. PlaceIn(S, Header) = 0 BY DEF PlaceIn
<1>3. PlaceIn(S, None) = Cardinality(S) BY NodesAreNodes DEF PlaceIn
<1>4. ASSUME NEW x \in Node
      PROVE  /\ IsFiniteSet(UpTo(S, x))
             /\ PlaceIn(S, x) = Cardinality(UpTo(S, x))
             /\ PlaceIn(S, x) \in 0..Cardinality(S)
  <2>1. PlaceIn(S, x) = Cardinality(UpTo(S, x))
    BY NodesAreNodes, Zenon DEF PlaceIn, UpTo, AtMost
  <2>2. UpTo(S, x) \subseteq S BY DEF UpTo
  <2>3. IsFiniteSet(UpTo(S, x)) /\ Cardinality(UpTo(S, x)) <= Cardinality(S)
    BY <2>2, FS_Subset DEF PairSet
  <2>4. Cardinality(UpTo(S, x)) \in Nat BY <2>3, FS_CardinalityType
  <2> QED BY <1>1, <2>1, <2>3, <2>4
<1>5. ASSUME NEW x \in S PROVE PlaceIn(S, x) > 0
  <2>1. x \in Node BY DEF PairSet
  <2>2. x \in UpTo(S, x) BY <2>1, LessIsOrder DEF UpTo
  <2>3. Cardinality(UpTo(S, x)) # 0 BY <1>4, <2>1, <2>2, FS_EmptySet
  <2> QED BY <1>4, <2>1, <2>3, <1>1
<1> QED BY <1>1, <1>2, <1>3, <1>4, <1>5

(***************************************************************************)
(* Places are in the order of the pairs.                                   *)
(***************************************************************************)
LEMMA PlaceOrder ==
    ASSUME NEW S, PairSet(S), NEW x \in Node, NEW y \in S
    PROVE  /\ Less(x, y) => PlaceIn(S, x) < PlaceIn(S, y)
           /\ PlaceIn(S, x) < PlaceIn(S, y) => Less(x, y)
<1>1. y \in Node BY DEF PairSet
<1>2. /\ IsFiniteSet(UpTo(S, x)) /\ IsFiniteSet(UpTo(S, y))
      /\ PlaceIn(S, x) = Cardinality(UpTo(S, x)) /\ PlaceIn(S, y) = Cardinality(UpTo(S, y))
  BY <1>1, PlaceValues
<1>3. ASSUME Less(x, y) PROVE PlaceIn(S, x) < PlaceIn(S, y)
  <2>1. UpTo(S, x) \subseteq UpTo(S, y)
    BY <1>1, <1>3, LessIsOrder, LessIsTransitive DEF UpTo, PairSet
  <2>2. y \in UpTo(S, y) /\ y \notin UpTo(S, x)
    BY <1>1, <1>3, LessIsOrder DEF UpTo
  <2>3. Cardinality(UpTo(S, x)) < Cardinality(UpTo(S, y))
    BY <1>2, <2>1, <2>2, FS_Subset, FS_CardinalityType
  <2> QED BY <1>2, <2>3
<1>4. ASSUME ~Less(x, y) PROVE ~(PlaceIn(S, x) < PlaceIn(S, y))
  <2>1. UpTo(S, y) \subseteq UpTo(S, x)
    BY <1>1, <1>4, LessIsOrder, LessIsTransitive DEF UpTo, PairSet
  <2>2. Cardinality(UpTo(S, y)) <= Cardinality(UpTo(S, x)) BY <1>2, <2>1, FS_Subset
  <2>3. Cardinality(UpTo(S, y)) \in Nat /\ Cardinality(UpTo(S, x)) \in Nat
    BY <1>2, FS_CardinalityType
  <2> QED BY <1>2, <2>2, <2>3
<1> QED BY <1>3, <1>4

\* No two pairs are at one place.
LEMMA PlacesDiffer ==
    ASSUME NEW S, PairSet(S), NEW x \in S \cup {Header}, NEW y \in S \cup {Header},
           PlaceIn(S, x) = PlaceIn(S, y)
    PROVE  x = y
<1>1. \A z \in S : z \in Node /\ PlaceIn(S, z) \in Nat /\ PlaceIn(S, z) > 0
  BY PlaceValues DEF PairSet
<1>2. PlaceIn(S, Header) = 0 BY PlaceValues
<1>3. CASE x \in S /\ y \in S
  <2>1. ~Less(x, y) /\ ~Less(y, x) BY <1>1, <1>3, PlaceOrder
  <2> QED BY <1>1, <1>3, <2>1, LessIsOrder
<1> QED BY <1>1, <1>2, <1>3

(***************************************************************************)
(* A new pair moves the later ones by one place.                           *)
(***************************************************************************)
LEMMA PlaceAdded ==
    ASSUME NEW S, PairSet(S), NEW p \in Node \ S
    PROVE  /\ PairSet(S \cup {p})
           /\ Cardinality(S \cup {p}) = Cardinality(S) + 1
           /\ PlaceIn(S \cup {p}, Header) = 0
           /\ PlaceIn(S \cup {p}, None) = PlaceIn(S, None) + 1
           /\ \A x \in Node : PlaceIn(S \cup {p}, x) =
                  IF Less(x, p) THEN PlaceIn(S, x) ELSE PlaceIn(S, x) + 1
<1>1. PairSet(S \cup {p}) /\ Cardinality(S \cup {p}) = Cardinality(S) + 1
  BY FS_AddElement DEF PairSet
<1>2. PlaceIn(S \cup {p}, Header) = 0 BY <1>1, PlaceValues
<1>3. PlaceIn(S \cup {p}, None) = PlaceIn(S, None) + 1 BY <1>1, PlaceValues
<1>4. ASSUME NEW x \in Node
      PROVE  PlaceIn(S \cup {p}, x) = IF Less(x, p) THEN PlaceIn(S, x) ELSE PlaceIn(S, x) + 1
  <2>1. /\ IsFiniteSet(UpTo(S, x)) /\ PlaceIn(S, x) = Cardinality(UpTo(S, x))
        /\ PlaceIn(S \cup {p}, x) = Cardinality(UpTo(S \cup {p}, x))
    BY <1>1, PlaceValues
  <2>2. CASE Less(x, p)
    <3>1. ~AtMost(p, x) BY <2>2, LessIsOrder
    <3>2. UpTo(S \cup {p}, x) = UpTo(S, x) BY <3>1 DEF UpTo
    <3> QED BY <2>1, <2>2, <3>2
  <2>3. CASE ~Less(x, p)
    <3>1. AtMost(p, x) BY <2>3, LessIsOrder
    <3>2. UpTo(S \cup {p}, x) = UpTo(S, x) \cup {p} /\ p \notin UpTo(S, x)
      BY <3>1 DEF UpTo
    <3> QED BY <2>1, <2>3, <3>2, FS_AddElement
  <2> QED BY <2>2, <2>3
<1> QED BY <1>1, <1>2, <1>3, <1>4
-----------------------------------------------------------------------------
(***************************************************************************)
(* A level: a chain of some of the pairs, in order, from the header.       *)
(***************************************************************************)
Chain(level, S) ==
    /\ Header \in DOMAIN level
    /\ DOMAIN level \subseteq {Header} \cup S
    /\ Linked(level, S)

\* What a node of a chain has for a place.
LEMMA ChainPlaces ==
    ASSUME NEW S, PairSet(S), NEW x \in S \cup {Header}
    PROVE  /\ PlaceIn(S, x) \in Nat
           /\ PlaceIn(S, x) <= Cardinality(S)
           /\ x # None
           /\ x # Header => PlaceIn(S, x) > 0
<1>1. CASE x = Header BY <1>1, PlaceValues, NodesAreNodes
<1>2. CASE x \in S BY <1>2, PlaceValues, NodesAreNodes DEF PairSet
<1> QED BY <1>1, <1>2

\* A link of a chain leads onward, past no node of its level.
LEMMA LinkFacts ==
    ASSUME NEW S, PairSet(S), NEW level, Chain(level, S), NEW x \in DOMAIN level
    PROVE  /\ \/ /\ level[x].next = None
                 /\ \A y \in DOMAIN level : PlaceIn(S, y) <= PlaceIn(S, x)
              \/ /\ level[x].next \in DOMAIN level \cap S
                 /\ PlaceIn(S, x) < PlaceIn(S, level[x].next)
                 /\ \A y \in DOMAIN level : PlaceIn(S, x) < PlaceIn(S, y) =>
                       PlaceIn(S, level[x].next) <= PlaceIn(S, y)
           /\ level[x].span = PlaceIn(S, level[x].next) - PlaceIn(S, x)
           /\ level[x].span \in Nat
<1> DEFINE next  == level[x].next
           later == {y \in DOMAIN level : PlaceIn(S, y) > PlaceIn(S, x)}
<1>1. /\ next \in IF later = {} THEN {None} ELSE later
      /\ \A y \in later : PlaceIn(S, next) <= PlaceIn(S, y)
      /\ level[x].span = PlaceIn(S, next) - PlaceIn(S, x)
  BY DEF Chain, Linked
<1>2. \A y \in DOMAIN level : PlaceIn(S, y) \in Nat /\ PlaceIn(S, y) <= Cardinality(S)
  BY ChainPlaces DEF Chain
<1>3. PlaceIn(S, None) = Cardinality(S) /\ Cardinality(S) \in Nat /\ PlaceIn(S, Header) = 0
  BY PlaceValues
<1>4. CASE later = {}
  <2>1. next = None BY <1>1, <1>4
  <2>2. \A y \in DOMAIN level : PlaceIn(S, y) <= PlaceIn(S, x) BY <1>2, <1>4
  <2> QED BY <1>1, <1>2, <1>3, <2>1, <2>2
<1>5. CASE later # {}
  <2>1. next \in later BY <1>1, <1>5
  <2>2. next \in DOMAIN level /\ PlaceIn(S, x) < PlaceIn(S, next) BY <1>2, <2>1
  <2>3. next # Header BY <1>2, <1>3, <2>2
  <2>4. next \in DOMAIN level \cap S BY <2>2, <2>3 DEF Chain
  <2>5. \A y \in DOMAIN level : PlaceIn(S, x) < PlaceIn(S, y) => PlaceIn(S, next) <= PlaceIn(S, y)
    BY <1>1, <1>2
  <2>6. level[x].span \in Nat BY <1>1, <1>2, <2>2
  <2> QED BY <1>1, <2>2, <2>4, <2>5, <2>6
<1> QED BY <1>4, <1>5

(***************************************************************************)
(* The walk over a level.                                                  *)
(***************************************************************************)
Steps(level) == [node : DOMAIN level, rank : Nat]

Goes(level, at, nodes, ranks) ==
    level[at.node].next \in nodes /\ at.rank + level[at.node].span \in ranks

Onward(level, at) ==
    [node |-> level[at.node].next, rank |-> at.rank + level[at.node].span]

Walking(f, level, nodes, ranks) ==
    f = [at \in Steps(level) |->
            IF Goes(level, at, nodes, ranks) THEN f[Onward(level, at)] ELSE at]

\* How far a node is from the end.
Ahead(S, x) == Cardinality(S) - PlaceIn(S, x)

\* A step of a walk follows a link and brings the end nearer.
LEMMA OnwardStep ==
    ASSUME NEW S, PairSet(S), NEW level, Chain(level, S), NEW nodes \in SUBSET S, NEW ranks,
           NEW at \in Steps(level), Goes(level, at, nodes, ranks)
    PROVE  /\ Onward(level, at) \in Steps(level)
           /\ Onward(level, at).node = level[at.node].next
           /\ Ahead(S, level[at.node].next) < Ahead(S, at.node)
           /\ Ahead(S, level[at.node].next) \in Nat /\ Ahead(S, at.node) \in Nat
<1>1. at.node \in DOMAIN level /\ at.rank \in Nat BY DEF Steps
<1>2. level[at.node].next # None BY ChainPlaces DEF Goes
<1>3. /\ level[at.node].next \in DOMAIN level
      /\ PlaceIn(S, at.node) < PlaceIn(S, level[at.node].next)
      /\ level[at.node].span \in Nat
  BY <1>1, <1>2, LinkFacts
<1>4. Onward(level, at) \in Steps(level) BY <1>1, <1>3 DEF Onward, Steps
<1>5. /\ PlaceIn(S, at.node) \in Nat /\ PlaceIn(S, at.node) <= Cardinality(S)
      /\ PlaceIn(S, level[at.node].next) \in Nat
      /\ PlaceIn(S, level[at.node].next) <= Cardinality(S)
      /\ Cardinality(S) \in Nat
  BY <1>1, <1>3, ChainPlaces, PlaceValues DEF Chain
<1> QED BY <1>3, <1>4, <1>5 DEF Onward, Ahead

\* The recursion of a walk is well founded.
LEMMA WalkExists ==
    ASSUME NEW S, PairSet(S), NEW level, Chain(level, S), NEW nodes \in SUBSET S, NEW ranks
    PROVE  \E f : Walking(f, level, nodes, ranks)
<1> DEFINE Right(f, at) ==
               f[at] = IF Goes(level, at, nodes, ranks) THEN f[Onward(level, at)] ELSE at
           Upto(m, f) == /\ f = [at \in Steps(level) |-> f[at]]
                         /\ \A at \in Steps(level) : Ahead(S, at.node) < m => Right(f, at)
           M == {m \in Nat : \E f : Upto(m, f)}
<1>1. \A at \in Steps(level) : Ahead(S, at.node) \in Nat /\ Ahead(S, at.node) < Cardinality(S) + 1
  <2> SUFFICES ASSUME NEW at \in Steps(level)
               PROVE  Ahead(S, at.node) \in Nat /\ Ahead(S, at.node) < Cardinality(S) + 1
    OBVIOUS
  <2>1. at.node \in DOMAIN level BY DEF Steps
  <2>2. PlaceIn(S, at.node) \in Nat /\ PlaceIn(S, at.node) <= Cardinality(S) /\ Cardinality(S) \in Nat
    BY <2>1, ChainPlaces, PlaceValues DEF Chain
  <2> QED BY <2>2 DEF Ahead
<1>2. 0 \in M
  <2> DEFINE f == [at \in Steps(level) |-> at]
  <2>1. f = [at \in Steps(level) |-> f[at]] OBVIOUS
  <2>2. Upto(0, f) BY <1>1, <2>1
  <2> QED BY <2>2
<1>3. ASSUME NEW m \in Nat, m \in M PROVE m + 1 \in M
  <2>1. PICK f : Upto(m, f) BY <1>3
  <2> DEFINE g == [at \in Steps(level) |->
                      IF Ahead(S, at.node) < m THEN f[at]
                      ELSE IF Goes(level, at, nodes, ranks) THEN f[Onward(level, at)] ELSE at]
  <2>2. ASSUME NEW at \in Steps(level), Ahead(S, at.node) < m + 1 PROVE Right(g, at)
    <3>1. g[at] = IF Goes(level, at, nodes, ranks) THEN f[Onward(level, at)] ELSE at
      <4>1. CASE Ahead(S, at.node) < m BY <2>1, <4>1
      <4>2. CASE ~(Ahead(S, at.node) < m) BY <4>2
      <4> QED BY <4>1, <4>2
    <3>2. ASSUME Goes(level, at, nodes, ranks)
          PROVE  g[Onward(level, at)] = f[Onward(level, at)]
      <4>1. /\ Onward(level, at) \in Steps(level)
            /\ Ahead(S, Onward(level, at).node) < m
        <5>1. /\ Onward(level, at) \in Steps(level)
              /\ Onward(level, at).node = level[at.node].next
              /\ Ahead(S, level[at.node].next) < Ahead(S, at.node)
              /\ Ahead(S, level[at.node].next) \in Nat /\ Ahead(S, at.node) \in Nat
          BY <3>2, OnwardStep
        <5> QED BY <2>2, <5>1
      <4> QED BY <4>1
    <3> HIDE DEF g
    <3> QED BY <3>1, <3>2
  <2>3. g = [at \in Steps(level) |-> g[at]] OBVIOUS
  <2> HIDE DEF g, Right
  <2>4. Upto(m + 1, g) BY <2>2, <2>3
  <2> QED BY <2>4
<1> HIDE DEF M
<1>4. Cardinality(S) + 1 \in M
  <2>1. Cardinality(S) + 1 \in Nat BY PlaceValues
  <2> QED BY <1>2, <1>3, <2>1, NatSetInduction
<1>5. PICK f : Upto(Cardinality(S) + 1, f) BY <1>4 DEF M
<1>6. \A at \in Steps(level) : Right(f, at) BY <1>1, <1>5
<1>7. Walking(f, level, nodes, ranks) BY <1>5, <1>6 DEF Walking
<1> QED BY <1>7

(***************************************************************************)
(* Those that pass are the first ones in the order; a walk has come to the *)
(* end when none of them is later on the level.                            *)
(***************************************************************************)
Passing(S, nodes, ranks) == {y \in S : y \in nodes /\ PlaceIn(S, y) \in ranks}

First(S, Q) == \A y \in Q, x \in S : PlaceIn(S, x) <= PlaceIn(S, y) => x \in Q

Ends(S, level, Q, z) ==
    /\ z \in DOMAIN level /\ z \in Q \cup {Header}
    /\ \A y \in DOMAIN level \cap Q : PlaceIn(S, y) <= PlaceIn(S, z)

At(S, z) == [node |-> z, rank |-> PlaceIn(S, z)]

\* A walk that starts no later ends at the last node it may pass, with its place.
LEMMA WalkEnds ==
    ASSUME NEW S, PairSet(S), NEW level, Chain(level, S), NEW nodes \in SUBSET S, NEW ranks,
           NEW Q, Q = Passing(S, nodes, ranks), First(S, Q),
           NEW x \in DOMAIN level, x \in Q \cup {Header}
    PROVE  \E z : Walk(level, At(S, x), nodes, ranks) = At(S, z) /\ Ends(S, level, Q, z)
<1>1. PICK f : f = (CHOOSE w : Walking(w, level, nodes, ranks)) OBVIOUS
<1>2. Walk(level, At(S, x), nodes, ranks) = f[At(S, x)]
  BY <1>1, Zenon DEF Walk, Walking, Steps, Goes, Onward
<1>3. Walking(f, level, nodes, ranks) BY <1>1, WalkExists
<1> DEFINE Good(y) == \E z : f[At(S, y)] = At(S, z) /\ Ends(S, level, Q, z)
           M == {m \in Nat : \A y \in DOMAIN level : y \in Q \cup {Header} /\ Ahead(S, y) < m => Good(y)}
<1>4. \A y \in DOMAIN level : /\ PlaceIn(S, y) \in Nat /\ PlaceIn(S, y) <= Cardinality(S)
                              /\ Ahead(S, y) \in Nat
  BY ChainPlaces, PlaceValues DEF Chain, Ahead
<1>5. 0 \in M BY <1>4
<1>6. ASSUME NEW m \in Nat, m \in M PROVE m + 1 \in M
  <2> SUFFICES ASSUME NEW y \in DOMAIN level, y \in Q \cup {Header}, Ahead(S, y) < m + 1
               PROVE  Good(y)
    OBVIOUS
  <2> DEFINE at == At(S, y)  next == level[y].next
  <2>1. at \in Steps(level) /\ at.node = y /\ at.rank = PlaceIn(S, y)
    BY <1>4 DEF At, Steps
  <2>2. f[at] = IF Goes(level, at, nodes, ranks) THEN f[Onward(level, at)] ELSE at
    BY <1>3, <2>1 DEF Walking
  <2>3. CASE Goes(level, at, nodes, ranks)
    <3>1. next \in nodes /\ next \in S BY <2>1, <2>3 DEF Goes
    <3>2. next # None BY <3>1, ChainPlaces
    <3>3. next \in DOMAIN level /\ level[y].span = PlaceIn(S, next) - PlaceIn(S, y)
      BY <3>2, LinkFacts
    <3>4. at.rank + level[y].span = PlaceIn(S, next) BY <1>4, <2>1, <3>3
    <3>5. next \in Q BY <2>1, <2>3, <3>1, <3>4 DEF Goes, Passing
    <3>6. Onward(level, at) = At(S, next) BY <2>1, <3>4 DEF Onward, At
    <3>7. Ahead(S, next) < m
      <4>1. Ahead(S, next) < Ahead(S, y) BY <2>1, <2>3, OnwardStep
      <4> QED BY <1>4, <3>3, <4>1
    <3>8. Good(next) BY <1>6, <3>3, <3>5, <3>7
    <3> QED BY <2>2, <2>3, <3>6, <3>8
  <2>4. CASE ~Goes(level, at, nodes, ranks)
    <3>1. ASSUME NEW v \in DOMAIN level \cap Q PROVE PlaceIn(S, v) <= PlaceIn(S, y)
      <4> SUFFICES ASSUME ~(PlaceIn(S, v) <= PlaceIn(S, y)) PROVE FALSE
        OBVIOUS
      <4>1. PlaceIn(S, y) < PlaceIn(S, v) BY <1>4
      <4>2. /\ next \in DOMAIN level \cap S
            /\ PlaceIn(S, next) <= PlaceIn(S, v)
            /\ level[y].span = PlaceIn(S, next) - PlaceIn(S, y)
        BY <1>4, <4>1, LinkFacts
      <4>3. next \in Q BY <4>2 DEF First
      <4>4. at.rank + level[y].span = PlaceIn(S, next) BY <1>4, <2>1, <4>2
      <4> QED BY <2>1, <2>4, <4>3, <4>4 DEF Goes, Passing
    <3>2. Ends(S, level, Q, y) BY <3>1 DEF Ends
    <3> QED BY <2>2, <2>4, <3>2
  <2> QED BY <2>3, <2>4
<1> HIDE DEF M
<1>7. Ahead(S, x) + 1 \in M BY <1>4, <1>5, <1>6, NatSetInduction
<1>8. Ahead(S, x) < Ahead(S, x) + 1 BY <1>4
<1>9. Good(x) BY <1>7, <1>8 DEF M
<1> QED BY <1>2, <1>9
-----------------------------------------------------------------------------
(***************************************************************************)
(* The descent over all levels.                                            *)
(***************************************************************************)
\* The levels of a skip list of the pairs S.
Chains(links, S) ==
    /\ Len(links) \in Nat \ {0}
    /\ \A i \in 1..Len(links) :
          /\ Chain(links[i], S)
          /\ i > 1 => DOMAIN links[i] \subseteq DOMAIN links[i - 1]

Descending(f, sl, nodes, ranks) ==
    f = [i \in 1..Level(sl) |->
            Walk(sl.links[i],
                 IF i = Level(sl) THEN [node |-> Header, rank |-> 0] ELSE f[i + 1],
                 nodes, ranks)]

\* The recursion of the descent is well founded.
LEMMA DescentExists ==
    ASSUME NEW sl, Level(sl) \in Nat, NEW nodes, NEW ranks
    PROVE  \E f : Descending(f, sl, nodes, ranks)
<1> DEFINE L == Level(sl)
           Start == [node |-> Header, rank |-> 0]
           Right(f, i) == f[i] = Walk(sl.links[i], IF i = L THEN Start ELSE f[i + 1], nodes, ranks)
           From(m, f) == /\ f = [i \in 1..L |-> f[i]]
                         /\ \A i \in 1..L : L - i < m => Right(f, i)
           M == {m \in Nat : \E f : From(m, f)}
<1>1. 0 \in M
  <2> DEFINE f == [i \in 1..L |-> Start]
  <2>1. f = [i \in 1..L |-> f[i]] OBVIOUS
  <2>2. \A i \in 1..L : ~(L - i < 0) OBVIOUS
  <2> HIDE DEF f
  <2>3. From(0, f) BY <2>1, <2>2
  <2> QED BY <2>3
<1>2. ASSUME NEW m \in Nat, m \in M PROVE m + 1 \in M
  <2>1. PICK f : From(m, f) BY <1>2
  <2> DEFINE g == [i \in 1..L |->
                      IF L - i < m THEN f[i]
                      ELSE Walk(sl.links[i], IF i = L THEN Start ELSE f[i + 1], nodes, ranks)]
  <2>2. g = [i \in 1..L |-> g[i]] OBVIOUS
  <2>3. ASSUME NEW i \in 1..L, L - i < m + 1 PROVE Right(g, i)
    <3>1. g[i] = Walk(sl.links[i], IF i = L THEN Start ELSE f[i + 1], nodes, ranks)
      <4>1. CASE L - i < m BY <2>1, <4>1
      <4>2. CASE ~(L - i < m) BY <4>2
      <4> QED BY <4>1, <4>2
    <3>2. i # L => g[i + 1] = f[i + 1]
      <4> SUFFICES ASSUME i # L PROVE g[i + 1] = f[i + 1]
        OBVIOUS
      <4>1. i + 1 \in 1..L /\ L - (i + 1) < m BY <2>3
      <4> QED BY <4>1
    <3> HIDE DEF g
    <3> QED BY <3>1, <3>2
  <2> HIDE DEF g, Right
  <2>4. From(m + 1, g) BY <2>2, <2>3
  <2> QED BY <2>4
<1> HIDE DEF M
<1>3. L + 1 \in M BY <1>1, <1>2, NatSetInduction
<1>4. PICK f : From(L + 1, f) BY <1>3 DEF M
<1>5. \A i \in 1..L : Right(f, i)
  <2> SUFFICES ASSUME NEW i \in 1..L PROVE Right(f, i)
    OBVIOUS
  <2>1. L - i < L + 1 OBVIOUS
  <2> QED BY <1>4, <2>1
<1>6. Descending(f, sl, nodes, ranks) BY <1>4, <1>5 DEF Descending
<1> QED BY <1>6

\* The descent finds that node on every level.
LEMMA DescendEnds ==
    ASSUME NEW S, PairSet(S), NEW sl, Chains(sl.links, S), NEW nodes \in SUBSET S, NEW ranks,
           NEW Q, Q = Passing(S, nodes, ranks), First(S, Q)
    PROVE  /\ DOMAIN Descend(sl, nodes, ranks) = 1..Level(sl)
           /\ \A i \in 1..Level(sl) :
                 LET z == Descend(sl, nodes, ranks)[i].node
                 IN  Descend(sl, nodes, ranks)[i] = At(S, z) /\ Ends(S, sl.links[i], Q, z)
<1> DEFINE L == Level(sl)
           Start == [node |-> Header, rank |-> 0]
<1>1. L \in Nat \ {0} BY DEF Chains, Level
<1>2. PICK f : f = Descend(sl, nodes, ranks) OBVIOUS
<1>3. f = (CHOOSE w : Descending(w, sl, nodes, ranks))
  BY <1>2, Zenon DEF Descend, Descending
<1>4. Descending(f, sl, nodes, ranks) BY <1>1, <1>3, DescentExists
<1>5. DOMAIN f = 1..L BY <1>4 DEF Descending
<1> DEFINE Good(i) == \E z : f[i] = At(S, z) /\ Ends(S, sl.links[i], Q, z)
           M == {m \in Nat : \A i \in 1..L : L - i < m => Good(i)}
<1>6. 0 \in M BY <1>1
<1>7. ASSUME NEW m \in Nat, m \in M PROVE m + 1 \in M
  <2> SUFFICES ASSUME NEW i \in 1..L, L - i < m + 1 PROVE Good(i)
    OBVIOUS
  <2>1. Chain(sl.links[i], S) BY DEF Chains, Level
  <2>2. f[i] = Walk(sl.links[i], IF i = L THEN Start ELSE f[i + 1], nodes, ranks)
    BY <1>4 DEF Descending
  <2>3. CASE i = L
    <3>1. Start = At(S, Header) BY PlaceValues DEF At
    <3>2. Header \in DOMAIN sl.links[i] BY <2>1 DEF Chain
    <3>3. \E z : Walk(sl.links[i], At(S, Header), nodes, ranks) = At(S, z)
                 /\ Ends(S, sl.links[i], Q, z)
      BY <2>1, <3>2, WalkEnds
    <3> QED BY <2>2, <2>3, <3>1, <3>3
  <2>4. CASE i # L
    <3>1. i + 1 \in 1..L /\ L - (i + 1) < m BY <1>1, <2>4
    <3>2. Good(i + 1) BY <1>7, <3>1
    <3>3. PICK x : f[i + 1] = At(S, x) /\ Ends(S, sl.links[i + 1], Q, x) BY <3>2
    <3>4. DOMAIN sl.links[i + 1] \subseteq DOMAIN sl.links[i]
      <4>1. i + 1 > 1 /\ (i + 1) - 1 = i OBVIOUS
      <4> QED BY <3>1, <4>1 DEF Chains, Level
    <3>5. x \in DOMAIN sl.links[i] /\ x \in Q \cup {Header} BY <3>3, <3>4 DEF Ends
    <3>6. \E z : Walk(sl.links[i], At(S, x), nodes, ranks) = At(S, z)
                 /\ Ends(S, sl.links[i], Q, z)
      BY <2>1, <3>5, WalkEnds
    <3> QED BY <2>2, <2>4, <3>3, <3>6
  <2> QED BY <2>3, <2>4
<1> HIDE DEF M
<1>8. L \in M BY <1>1, <1>6, <1>7, NatSetInduction
<1>9. ASSUME NEW i \in 1..L
      PROVE  f[i] = At(S, f[i].node) /\ Ends(S, sl.links[i], Q, f[i].node)
  <2>1. L - i < L BY <1>1
  <2>2. PICK z : f[i] = At(S, z) /\ Ends(S, sl.links[i], Q, z) BY <1>8, <2>1 DEF M
  <2>3. f[i].node = z BY <2>2 DEF At
  <2> QED BY <2>2, <2>3
<1> QED BY <1>2, <1>5, <1>9
-----------------------------------------------------------------------------
(***************************************************************************)
(* What a link has to be, on a level with the nodes D.                     *)
(***************************************************************************)
Joins(D, S, x, next, span) ==
    /\ span = PlaceIn(S, next) - PlaceIn(S, x)
    /\ \/ next = None /\ \A y \in D : PlaceIn(S, y) <= PlaceIn(S, x)
       \/ /\ next \in D \cap S
          /\ PlaceIn(S, x) < PlaceIn(S, next)
          /\ \A y \in D : PlaceIn(S, x) < PlaceIn(S, y) => PlaceIn(S, next) <= PlaceIn(S, y)

\* The links of a chain are those its nodes determine,
LEMMA ChainJoins ==
    ASSUME NEW S, PairSet(S), NEW level, Chain(level, S), NEW x \in DOMAIN level
    PROVE  Joins(DOMAIN level, S, x, level[x].next, level[x].span)
  BY LinkFacts DEF Joins

\* and such links make a chain.
LEMMA JoinsChain ==
    ASSUME NEW S, PairSet(S), NEW level,
           Header \in DOMAIN level, DOMAIN level \subseteq {Header} \cup S,
           \A x \in DOMAIN level : Joins(DOMAIN level, S, x, level[x].next, level[x].span)
    PROVE  Chain(level, S)
<1>1. ASSUME NEW x \in DOMAIN level,
             NEW later, later = {y \in DOMAIN level : PlaceIn(S, y) > PlaceIn(S, x)}
      PROVE  /\ level[x].next \in IF later = {} THEN {None} ELSE later
             /\ \A y \in later : PlaceIn(S, level[x].next) <= PlaceIn(S, y)
             /\ level[x].span = PlaceIn(S, level[x].next) - PlaceIn(S, x)
  <2>1. Joins(DOMAIN level, S, x, level[x].next, level[x].span) OBVIOUS
  <2>2. \A y \in DOMAIN level : PlaceIn(S, y) \in Nat BY ChainPlaces
  <2>3. CASE later = {}
    <3>1. \A y \in DOMAIN level : ~(PlaceIn(S, x) < PlaceIn(S, y)) BY <1>1, <2>2, <2>3
    <3> QED BY <2>1, <2>3, <3>1 DEF Joins
  <2>4. CASE later # {}
    <3>1. PICK y \in DOMAIN level : PlaceIn(S, y) > PlaceIn(S, x) BY <1>1, <2>4
    <3>2. ~(PlaceIn(S, y) <= PlaceIn(S, x)) BY <2>2, <3>1
    <3> QED BY <1>1, <2>1, <2>2, <2>4, <3>1, <3>2 DEF Joins
  <2> QED BY <2>3, <2>4
<1>2. Linked(level, S) BY <1>1 DEF Linked
<1> QED BY <1>2 DEF Chain

(***************************************************************************)
(* The places with and without a pair.                                     *)
(***************************************************************************)
LEMMA PlacesShift ==
    ASSUME NEW S, PairSet(S), NEW p \in Node \ S, NEW T, T = S \cup {p}
    PROVE  /\ PairSet(T)
           /\ Cardinality(T) = Cardinality(S) + 1
           /\ PlaceIn(T, p) \in Nat \ {0} /\ PlaceIn(T, p) <= PlaceIn(T, None)
           /\ PlaceIn(S, None) \in Nat /\ PlaceIn(T, None) = PlaceIn(S, None) + 1
           /\ PlaceIn(S, Header) = 0 /\ PlaceIn(T, Header) = 0
           /\ \A y \in S \cup {Header} :
                 /\ PlaceIn(S, y) \in Nat /\ PlaceIn(S, y) <= PlaceIn(S, None)
                 /\ PlaceIn(S, y) < PlaceIn(T, p) => PlaceIn(T, y) = PlaceIn(S, y)
                 /\ ~(PlaceIn(S, y) < PlaceIn(T, p)) => PlaceIn(T, y) = PlaceIn(S, y) + 1
           /\ \A y \in S : Less(y, p) <=> PlaceIn(S, y) < PlaceIn(T, p)
<1>1. PairSet(T) /\ Cardinality(T) = Cardinality(S) + 1 /\ p \in T BY PlaceAdded
<1>2. /\ PlaceIn(T, p) \in 0..Cardinality(T) /\ PlaceIn(T, p) > 0
      /\ PlaceIn(T, None) = Cardinality(T) /\ PlaceIn(S, None) = Cardinality(S)
      /\ Cardinality(S) \in Nat
      /\ PlaceIn(S, Header) = 0 /\ PlaceIn(T, Header) = 0
  BY <1>1, PlaceValues
<1>3. ASSUME NEW y \in S
      PROVE  /\ PlaceIn(S, y) \in Nat /\ PlaceIn(S, y) <= PlaceIn(S, None)
             /\ Less(y, p) => PlaceIn(T, y) = PlaceIn(S, y) /\ PlaceIn(S, y) < PlaceIn(T, p)
             /\ ~Less(y, p) => PlaceIn(T, y) = PlaceIn(S, y) + 1 /\ ~(PlaceIn(S, y) < PlaceIn(T, p))
  <2>1. y \in Node /\ y \in T /\ y # p BY DEF PairSet
  <2>2. PlaceIn(S, y) \in Nat /\ PlaceIn(S, y) <= PlaceIn(S, None)
    BY <1>2, ChainPlaces
  <2>3. PlaceIn(T, y) = IF Less(y, p) THEN PlaceIn(S, y) ELSE PlaceIn(S, y) + 1
    BY <2>1, PlaceAdded
  <2>4. Less(y, p) => PlaceIn(T, y) < PlaceIn(T, p) BY <1>1, <2>1, PlaceOrder
  <2>5. ~Less(y, p) => PlaceIn(T, p) < PlaceIn(T, y) BY <1>1, <2>1, LessIsOrder, PlaceOrder
  <2> QED BY <1>2, <2>2, <2>3, <2>4, <2>5
<1>4. PlaceIn(T, p) \in Nat \ {0} /\ PlaceIn(T, p) <= PlaceIn(T, None) BY <1>2
<1>5. ASSUME NEW y \in S \cup {Header}
      PROVE  /\ PlaceIn(S, y) \in Nat /\ PlaceIn(S, y) <= PlaceIn(S, None)
             /\ PlaceIn(S, y) < PlaceIn(T, p) => PlaceIn(T, y) = PlaceIn(S, y)
             /\ ~(PlaceIn(S, y) < PlaceIn(T, p)) => PlaceIn(T, y) = PlaceIn(S, y) + 1
  <2>1. CASE y \in S
    <3>1. CASE Less(y, p) BY <1>3, <2>1, <3>1
    <3>2. CASE ~Less(y, p) BY <1>3, <2>1, <3>2
    <3> QED BY <3>1, <3>2
  <2>2. CASE y = Header BY <1>2, <1>4, <2>2
  <2> QED BY <2>1, <2>2
<1>6. \A y \in S : Less(y, p) <=> PlaceIn(S, y) < PlaceIn(T, p) BY <1>3
<1>7. PlaceIn(S, None) \in Nat /\ PlaceIn(T, None) = PlaceIn(S, None) + 1 BY <1>1, <1>2
<1> QED BY <1>1, <1>2, <1>4, <1>5, <1>6, <1>7

(***************************************************************************)
(* The last node before p on a level, or the header.                       *)
(***************************************************************************)
Earlier(S, p) == {y \in S : Less(y, p)}

\* z, the last node of a level before p, is the same whether p is there or not.
LEMMA LastEarlier ==
    ASSUME NEW S, PairSet(S), NEW p \in Node \ S, NEW T, T = S \cup {p}, NEW U, U \in {S, T},
           NEW level, Chain(level, U), NEW z, Ends(U, level, Earlier(U, p), z)
    PROVE  /\ z \in DOMAIN level /\ z \in S \cup {Header} /\ z # p
           /\ PlaceIn(T, z) = PlaceIn(S, z) /\ PlaceIn(S, z) < PlaceIn(T, p)
           /\ \A y \in DOMAIN level \ {p} :
                 PlaceIn(S, y) < PlaceIn(T, p) => PlaceIn(S, y) <= PlaceIn(S, z)
<1>1. PairSet(T) /\ PairSet(U) /\ PlaceIn(S, Header) = 0 /\ PlaceIn(T, p) \in Nat \ {0} BY PlacesShift
<1>2. p # Header BY NodesAreNodes
<1>3. ~Less(p, p) BY LessIsOrder
<1>4. z \in DOMAIN level /\ (z = Header \/ (z \in S /\ Less(z, p)))
  BY <1>3 DEF Ends, Earlier
<1>5. z \in S \cup {Header} /\ z # p BY <1>2, <1>4
<1>6. PlaceIn(S, z) < PlaceIn(T, p)
  BY <1>1, <1>4, PlacesShift
<1>7. PlaceIn(T, z) = PlaceIn(S, z) BY <1>5, <1>6, PlacesShift
<1>8. ASSUME NEW y \in DOMAIN level \ {p}, PlaceIn(S, y) < PlaceIn(T, p)
      PROVE  PlaceIn(S, y) <= PlaceIn(S, z)
  <2>1. y \in S \cup {Header} BY DEF Chain
  <2>2. CASE y = Header
    <3>1. PlaceIn(S, z) \in Nat BY <1>5, PlacesShift
    <3> QED BY <1>1, <2>2, <3>1
  <2>3. CASE y \in S
    <3>1. y \in DOMAIN level \cap Earlier(U, p) BY <1>8, <2>3, PlacesShift DEF Earlier
    <3>2. PlaceIn(U, y) <= PlaceIn(U, z) BY <3>1 DEF Ends
    <3>3. PlaceIn(T, y) = PlaceIn(S, y) BY <1>8, <2>1, PlacesShift
    <3> QED BY <1>7, <3>2, <3>3
  <2> QED BY <2>1, <2>2, <2>3
<1> QED BY <1>4, <1>5, <1>6, <1>7, <1>8

(***************************************************************************)
(* A link that does not start at the last earlier node stays right when p  *)
(* comes or goes, on this level or another one.                            *)
(***************************************************************************)
LEMMA OtherLinkAdds ==
    ASSUME NEW S, PairSet(S), NEW p \in Node \ S, NEW T, T = S \cup {p},
           NEW level, Chain(level, S), NEW z, Ends(S, level, Earlier(S, p), z),
           NEW x \in DOMAIN level \ {z}
    PROVE  Joins(DOMAIN level \cup {p}, T, x, level[x].next, level[x].span)
<1> DEFINE D == DOMAIN level  next == level[x].next  span == level[x].span
           h == PlaceIn(T, p)
<1>1. Joins(D, S, x, next, span) BY ChainJoins
<1>2. /\ z \in D /\ z \in S \cup {Header}
      /\ PlaceIn(S, z) < h
      /\ \A y \in D \ {p} : PlaceIn(S, y) < h => PlaceIn(S, y) <= PlaceIn(S, z)
  BY LastEarlier
<1>3. D \subseteq S \cup {Header} /\ p \notin D BY NodesAreNodes DEF Chain
<1>4. /\ h \in Nat \ {0}
      /\ PlaceIn(S, None) \in Nat /\ PlaceIn(T, None) = PlaceIn(S, None) + 1
      /\ \A y \in D :
            /\ PlaceIn(S, y) \in Nat /\ PlaceIn(S, y) <= PlaceIn(S, None)
            /\ PlaceIn(S, y) < h => PlaceIn(T, y) = PlaceIn(S, y)
            /\ ~(PlaceIn(S, y) < h) => PlaceIn(T, y) = PlaceIn(S, y) + 1
  BY <1>3, PlacesShift
<1>5. CASE PlaceIn(S, x) < h
  <2>1. PlaceIn(S, x) <= PlaceIn(S, z) BY <1>2, <1>3, <1>5
  <2>2. PlaceIn(S, x) # PlaceIn(S, z) BY <1>2, <1>3, PlacesDiffer
  <2>3. PlaceIn(S, x) < PlaceIn(S, z) BY <1>2, <1>4, <2>1, <2>2
  <2>4. /\ next \in D \cap S
        /\ PlaceIn(S, x) < PlaceIn(S, next) /\ PlaceIn(S, next) <= PlaceIn(S, z)
        /\ span = PlaceIn(S, next) - PlaceIn(S, x)
        /\ \A y \in D : PlaceIn(S, x) < PlaceIn(S, y) => PlaceIn(S, next) <= PlaceIn(S, y)
    BY <1>1, <1>2, <1>4, <2>3 DEF Joins
  <2>5. PlaceIn(S, next) < h BY <1>2, <1>4, <2>4
  <2>6. PlaceIn(T, next) = PlaceIn(S, next) /\ PlaceIn(T, x) = PlaceIn(S, x)
    BY <1>4, <1>5, <2>4, <2>5
  <2>7. ASSUME NEW y \in D \cup {p}, PlaceIn(T, x) < PlaceIn(T, y)
        PROVE  PlaceIn(T, next) <= PlaceIn(T, y)
    <3>1. CASE y = p BY <1>4, <2>4, <2>5, <2>6, <3>1
    <3>2. CASE y \in D
      <4>1. /\ PlaceIn(S, y) \in Nat
            /\ PlaceIn(S, y) < h => PlaceIn(T, y) = PlaceIn(S, y)
            /\ ~(PlaceIn(S, y) < h) => PlaceIn(T, y) = PlaceIn(S, y) + 1
        BY <1>4, <3>2
      <4>2. PlaceIn(S, next) \in Nat /\ PlaceIn(S, x) \in Nat /\ h \in Nat BY <1>4, <2>4
      <4>3. CASE PlaceIn(S, y) < h
        <5>1. PlaceIn(T, y) = PlaceIn(S, y) BY <4>1, <4>3
        <5>2. PlaceIn(S, x) < PlaceIn(S, y) BY <2>6, <2>7, <5>1
        <5> QED BY <2>4, <2>6, <3>2, <5>1, <5>2
      <4>4. CASE ~(PlaceIn(S, y) < h)
        <5>1. PlaceIn(T, y) = PlaceIn(S, y) + 1 BY <4>1, <4>4
        <5> HIDE DEF h, next
        <5> QED BY <2>5, <2>6, <4>1, <4>2, <4>4, <5>1
      <4> QED BY <4>3, <4>4
    <3> QED BY <3>1, <3>2
  <2> QED BY <2>4, <2>6, <2>7 DEF Joins
<1>6. CASE ~(PlaceIn(S, x) < h)
  <2>1. PlaceIn(T, x) = PlaceIn(S, x) + 1 BY <1>4, <1>6
  <2>2. CASE next = None /\ \A y \in D : PlaceIn(S, y) <= PlaceIn(S, x)
    <3>1. span = PlaceIn(S, None) - PlaceIn(S, x) BY <1>1, <2>2 DEF Joins
    <3>2. span = PlaceIn(T, None) - PlaceIn(T, x) BY <1>4, <2>1, <3>1
    <3>3. \A y \in D \cup {p} : PlaceIn(T, y) <= PlaceIn(T, x) BY <1>4, <1>6, <2>1, <2>2
    <3> QED BY <2>2, <3>2, <3>3 DEF Joins
  <2>3. CASE /\ next \in D \cap S
             /\ PlaceIn(S, x) < PlaceIn(S, next)
             /\ \A y \in D : PlaceIn(S, x) < PlaceIn(S, y) => PlaceIn(S, next) <= PlaceIn(S, y)
    <3>1. PlaceIn(T, next) = PlaceIn(S, next) + 1 BY <1>4, <1>6, <2>3
    <3>2. span = PlaceIn(T, next) - PlaceIn(T, x) BY <1>1, <1>4, <2>1, <2>3, <3>1 DEF Joins
    <3>3. ASSUME NEW y \in D \cup {p}, PlaceIn(T, x) < PlaceIn(T, y)
          PROVE  PlaceIn(T, next) <= PlaceIn(T, y)
      <4>1. CASE y = p BY <1>4, <1>6, <2>1, <3>3, <4>1
      <4>2. CASE y \in D
        <5>1. /\ PlaceIn(S, y) \in Nat /\ PlaceIn(S, x) \in Nat /\ h \in Nat
              /\ PlaceIn(S, y) < h => PlaceIn(T, y) = PlaceIn(S, y)
              /\ ~(PlaceIn(S, y) < h) => PlaceIn(T, y) = PlaceIn(S, y) + 1
          BY <1>4, <4>2
        <5>2. PlaceIn(S, x) < PlaceIn(S, y)
          <6> HIDE DEF h
          <6> QED BY <1>6, <2>1, <3>3, <5>1
        <5>3. PlaceIn(S, next) <= PlaceIn(S, y) BY <2>3, <4>2, <5>2
        <5>4. PlaceIn(S, next) \in Nat BY <1>4, <2>3
        <5>5. PlaceIn(T, y) = PlaceIn(S, y) + 1
          <6> HIDE DEF h
          <6> QED BY <1>6, <5>1, <5>2
        <5> QED BY <3>1, <5>1, <5>3, <5>4, <5>5
      <4> QED BY <4>1, <4>2
    <3>4. PlaceIn(T, x) < PlaceIn(T, next) BY <1>4, <2>1, <2>3, <3>1
    <3> QED BY <2>3, <3>2, <3>3, <3>4 DEF Joins
  <2> QED BY <1>1, <2>2, <2>3 DEF Joins
<1> QED BY <1>5, <1>6

\* A link of another node than z stays right when p goes.
LEMMA OtherLinkRemoves ==
    ASSUME NEW S, PairSet(S), NEW p \in Node \ S, NEW T, T = S \cup {p},
           NEW level, Chain(level, T), NEW z, Ends(T, level, Earlier(T, p), z),
           NEW x \in DOMAIN level \ {z, p}
    PROVE  Joins(DOMAIN level \ {p}, S, x, level[x].next, level[x].span)
<1> DEFINE D == DOMAIN level  next == level[x].next  span == level[x].span
           h == PlaceIn(T, p)
<1>1. PairSet(T) /\ Joins(D, T, x, next, span) BY ChainJoins, PlacesShift
<1>2. /\ z \in D /\ z \in S \cup {Header} /\ z # p
      /\ PlaceIn(S, z) < h
      /\ \A y \in D \ {p} : PlaceIn(S, y) < h => PlaceIn(S, y) <= PlaceIn(S, z)
  BY LastEarlier
<1>3. D \ {p} \subseteq S \cup {Header} BY DEF Chain
<1>4. /\ h \in Nat \ {0}
      /\ PlaceIn(S, None) \in Nat /\ PlaceIn(T, None) = PlaceIn(S, None) + 1
      /\ \A y \in D \ {p} :
            /\ PlaceIn(S, y) \in Nat /\ PlaceIn(S, y) <= PlaceIn(S, None)
            /\ PlaceIn(S, y) < h => PlaceIn(T, y) = PlaceIn(S, y)
            /\ ~(PlaceIn(S, y) < h) => PlaceIn(T, y) = PlaceIn(S, y) + 1
  BY <1>3, PlacesShift
<1>5. CASE PlaceIn(S, x) < h
  <2>1. PlaceIn(S, x) <= PlaceIn(S, z) BY <1>2, <1>5
  <2>2. PlaceIn(S, x) # PlaceIn(S, z) BY <1>2, <1>3, PlacesDiffer
  <2>3. PlaceIn(T, x) < PlaceIn(T, z)
    <3>1. PlaceIn(T, x) = PlaceIn(S, x) /\ PlaceIn(S, x) \in Nat BY <1>4, <1>5
    <3>2. PlaceIn(T, z) = PlaceIn(S, z) /\ PlaceIn(S, z) \in Nat BY <1>2, <1>4
    <3> QED BY <2>1, <2>2, <3>1, <3>2
  <2>4. PlaceIn(T, z) < h BY <1>2, <1>4
  <2>5. /\ next \in D \cap T
        /\ PlaceIn(T, x) < PlaceIn(T, next) /\ PlaceIn(T, next) <= PlaceIn(T, z)
        /\ span = PlaceIn(T, next) - PlaceIn(T, x)
        /\ \A y \in D : PlaceIn(T, x) < PlaceIn(T, y) => PlaceIn(T, next) <= PlaceIn(T, y)
    <3>1. PlaceIn(T, x) \in Nat /\ PlaceIn(T, z) \in Nat BY <1>2, <1>4
    <3> QED BY <1>1, <1>2, <2>3, <3>1 DEF Joins
  <2>6. next # p /\ next \in D \ {p} /\ next \in S
    <3>1. next # p BY <1>2, <1>4, <2>4, <2>5
    <3> QED BY <2>5, <3>1
  <2>7. PlaceIn(S, next) < h /\ PlaceIn(S, next) = PlaceIn(T, next) /\ PlaceIn(S, x) = PlaceIn(T, x)
    BY <1>2, <1>4, <1>5, <2>4, <2>5, <2>6
  <2>8. ASSUME NEW y \in D \ {p}, PlaceIn(S, x) < PlaceIn(S, y)
        PROVE  PlaceIn(S, next) <= PlaceIn(S, y)
    <3>1. CASE PlaceIn(S, y) < h BY <1>4, <2>5, <2>7, <2>8, <3>1
    <3>2. CASE ~(PlaceIn(S, y) < h) BY <1>4, <2>6, <2>7, <3>2
    <3> QED BY <3>1, <3>2
  <2> QED BY <2>5, <2>6, <2>7, <2>8 DEF Joins
<1>6. CASE ~(PlaceIn(S, x) < h)
  <2>1. PlaceIn(T, x) = PlaceIn(S, x) + 1 /\ PlaceIn(S, x) \in Nat BY <1>4, <1>6
  <2>2. CASE next = None /\ \A y \in D : PlaceIn(T, y) <= PlaceIn(T, x)
    <3>1. span = PlaceIn(T, None) - PlaceIn(T, x) BY <1>1, <2>2 DEF Joins
    <3>2. span = PlaceIn(S, None) - PlaceIn(S, x) BY <1>4, <2>1, <3>1
    <3>3. \A y \in D \ {p} : PlaceIn(S, y) <= PlaceIn(S, x) BY <1>4, <1>6, <2>1, <2>2
    <3> QED BY <2>2, <3>2, <3>3 DEF Joins
  <2>3. CASE /\ next \in D \cap T
             /\ PlaceIn(T, x) < PlaceIn(T, next)
             /\ \A y \in D : PlaceIn(T, x) < PlaceIn(T, y) => PlaceIn(T, next) <= PlaceIn(T, y)
    <3>1. next # p /\ next \in D \ {p} /\ next \in S
      <4>1. next # p BY <1>4, <1>6, <2>1, <2>3
      <4> QED BY <2>3, <4>1
    <3>2. PlaceIn(T, next) = PlaceIn(S, next) + 1 /\ ~(PlaceIn(S, next) < h) /\ PlaceIn(S, next) \in Nat
      BY <1>4, <1>6, <2>1, <2>3, <3>1
    <3>3. span = PlaceIn(S, next) - PlaceIn(S, x) BY <1>1, <2>1, <3>2 DEF Joins
    <3>4. ASSUME NEW y \in D \ {p}, PlaceIn(S, x) < PlaceIn(S, y)
          PROVE  PlaceIn(S, next) <= PlaceIn(S, y)
      <4>1. PlaceIn(T, y) = PlaceIn(S, y) + 1 /\ PlaceIn(S, y) \in Nat
        <5>1. /\ PlaceIn(S, y) \in Nat /\ h \in Nat
              /\ ~(PlaceIn(S, y) < h) => PlaceIn(T, y) = PlaceIn(S, y) + 1
          BY <1>4
        <5> HIDE DEF h
        <5> QED BY <1>6, <2>1, <3>4, <5>1
      <4>2. PlaceIn(T, x) < PlaceIn(T, y) BY <2>1, <3>4, <4>1
      <4>3. PlaceIn(T, next) <= PlaceIn(T, y) BY <2>3, <4>2
      <4> QED BY <3>2, <4>1, <4>3
    <3>5. PlaceIn(S, x) < PlaceIn(S, next) BY <2>1, <2>3, <3>2
    <3> QED BY <3>1, <3>3, <3>4, <3>5 DEF Joins
  <2> QED BY <1>1, <2>2, <2>3 DEF Joins
<1> QED BY <1>5, <1>6
-----------------------------------------------------------------------------
(***************************************************************************)
(* The link of the last earlier node, before p comes and before it goes.   *)
(***************************************************************************)
\* n is where the link leads, h the place of p.
LEMMA LastLinkBefore ==
    ASSUME NEW S, PairSet(S), NEW p \in Node \ S, NEW T, T = S \cup {p},
           NEW level, Chain(level, S), NEW z, Ends(S, level, Earlier(S, p), z),
           NEW n, n = level[z].next, NEW h, h = PlaceIn(T, p)
    PROVE  /\ n = None \/ (n \in DOMAIN level \cap S /\ h < PlaceIn(T, n))
           /\ PlaceIn(S, n) \in Nat /\ PlaceIn(T, n) = PlaceIn(S, n) + 1
           /\ level[z].span = PlaceIn(S, n) - PlaceIn(S, z)
           /\ PlaceIn(S, z) \in Nat /\ h \in Nat
           /\ \A y \in DOMAIN level :
                 /\ PlaceIn(T, y) \in Nat
                 /\ PlaceIn(T, y) <= PlaceIn(T, z)
                    \/ (n # None /\ PlaceIn(T, n) <= PlaceIn(T, y) /\ h < PlaceIn(T, y))
<1> DEFINE D == DOMAIN level
<1>1. Joins(D, S, z, n, level[z].span)
  <2>1. z \in D BY DEF Ends
  <2> QED BY <2>1, ChainJoins
<1>2. /\ z \in D /\ z \in S \cup {Header}
      /\ PlaceIn(T, z) = PlaceIn(S, z) /\ PlaceIn(S, z) < h
      /\ \A y \in D \ {p} : PlaceIn(S, y) < h => PlaceIn(S, y) <= PlaceIn(S, z)
  BY LastEarlier
<1>3. D \subseteq S \cup {Header} /\ p \notin D BY NodesAreNodes DEF Chain
<1>4. /\ h \in Nat \ {0}
      /\ PlaceIn(S, None) \in Nat /\ PlaceIn(T, None) = PlaceIn(S, None) + 1
      /\ \A y \in D :
            /\ PlaceIn(S, y) \in Nat /\ PlaceIn(S, y) <= PlaceIn(S, None)
            /\ PlaceIn(S, y) < h => PlaceIn(T, y) = PlaceIn(S, y)
            /\ ~(PlaceIn(S, y) < h) => PlaceIn(T, y) = PlaceIn(S, y) + 1
  BY <1>3, PlacesShift
<1>5. PlaceIn(S, z) \in Nat BY <1>2, <1>4
<1>6. ASSUME NEW y \in D, PlaceIn(S, z) < PlaceIn(S, y)
      PROVE  /\ PlaceIn(S, y) \in Nat /\ ~(PlaceIn(S, y) < h)
             /\ PlaceIn(T, y) = PlaceIn(S, y) + 1 /\ h < PlaceIn(T, y)
  <2>1. PlaceIn(S, y) \in Nat BY <1>4
  <2>2. ~(PlaceIn(S, y) < h)
    <3> SUFFICES ASSUME PlaceIn(S, y) < h PROVE FALSE
      OBVIOUS
    <3>1. PlaceIn(S, y) <= PlaceIn(S, z) BY <1>2, <1>3
    <3> QED BY <1>5, <1>6, <2>1, <3>1
  <2>3. PlaceIn(T, y) = PlaceIn(S, y) + 1 BY <1>4, <2>2
  <2>4. h < PlaceIn(T, y) BY <1>4, <2>1, <2>2, <2>3
  <2> QED BY <2>1, <2>2, <2>3, <2>4
<1>7. ASSUME NEW y \in D, ~(PlaceIn(S, z) < PlaceIn(S, y))
      PROVE  PlaceIn(T, y) = PlaceIn(S, y) /\ PlaceIn(T, y) \in Nat /\ PlaceIn(T, y) <= PlaceIn(T, z)
  <2>1. PlaceIn(S, y) \in Nat BY <1>4
  <2>2. PlaceIn(S, y) <= PlaceIn(S, z) BY <1>5, <1>7, <2>1
  <2>3. PlaceIn(S, y) < h BY <1>2, <1>4, <1>5, <2>1, <2>2
  <2>4. PlaceIn(T, y) = PlaceIn(S, y) BY <1>4, <2>3
  <2> QED BY <1>2, <2>1, <2>2, <2>4
<1>8. level[z].span = PlaceIn(S, n) - PlaceIn(S, z) BY <1>1 DEF Joins
<1>9. CASE n = None /\ \A y \in D : PlaceIn(S, y) <= PlaceIn(S, z)
  <2>1. ASSUME NEW y \in D PROVE ~(PlaceIn(S, z) < PlaceIn(S, y))
    <3>1. PlaceIn(S, y) <= PlaceIn(S, z) /\ PlaceIn(S, y) \in Nat BY <1>4, <1>9
    <3> QED BY <1>5, <3>1
  <2>2. \A y \in D : PlaceIn(T, y) \in Nat /\ PlaceIn(T, y) <= PlaceIn(T, z) BY <1>7, <2>1
  <2> QED BY <1>4, <1>5, <1>8, <1>9, <2>2
<1>10. CASE /\ n \in D \cap S
            /\ PlaceIn(S, z) < PlaceIn(S, n)
            /\ \A y \in D : PlaceIn(S, z) < PlaceIn(S, y) => PlaceIn(S, n) <= PlaceIn(S, y)
  <2>1. /\ PlaceIn(S, n) \in Nat /\ PlaceIn(T, n) = PlaceIn(S, n) + 1 /\ h < PlaceIn(T, n)
    BY <1>6, <1>10
  <2>2. n # None BY <1>10, ChainPlaces
  <2>3. ASSUME NEW y \in D
        PROVE  /\ PlaceIn(T, y) \in Nat
               /\ PlaceIn(T, y) <= PlaceIn(T, z)
                  \/ (n # None /\ PlaceIn(T, n) <= PlaceIn(T, y) /\ h < PlaceIn(T, y))
    <3>1. CASE PlaceIn(S, z) < PlaceIn(S, y)
      <4>1. PlaceIn(S, n) <= PlaceIn(S, y) BY <1>10, <3>1
      <4>2. PlaceIn(S, y) \in Nat /\ PlaceIn(T, y) = PlaceIn(S, y) + 1 /\ h < PlaceIn(T, y)
        BY <1>6, <3>1
      <4> QED BY <2>1, <2>2, <4>1, <4>2
    <3>2. CASE ~(PlaceIn(S, z) < PlaceIn(S, y)) BY <1>7, <3>2
    <3> QED BY <3>1, <3>2
  <2> QED BY <1>4, <1>5, <1>8, <1>10, <2>1, <2>3
<1> QED BY <1>1, <1>9, <1>10 DEF Joins

(***************************************************************************)
(* SkipList.insert keeps a level a chain.                                  *)
(***************************************************************************)
LEMMA SplicedChain ==
    ASSUME NEW S, PairSet(S), NEW p \in Node \ S, NEW T, T = S \cup {p},
           NEW level, Chain(level, S), NEW z, Ends(S, level, Earlier(S, p), z),
           NEW gap, gap = PlaceIn(T, p) - 1 - PlaceIn(S, z)
    PROVE  Chain(Spliced(level, z, p, gap), T)
<1>1. PICK n : n = level[z].next OBVIOUS
<1>2. PICK h : h = PlaceIn(T, p) OBVIOUS
<1>3. PICK D : D = DOMAIN level OBVIOUS
<1>4. /\ n = None \/ (n \in D \cap S /\ h < PlaceIn(T, n))
      /\ PlaceIn(S, n) \in Nat /\ PlaceIn(T, n) = PlaceIn(S, n) + 1
      /\ level[z].span = PlaceIn(S, n) - PlaceIn(S, z)
      /\ PlaceIn(S, z) \in Nat /\ h \in Nat
      /\ \A y \in D :
            /\ PlaceIn(T, y) \in Nat
            /\ PlaceIn(T, y) <= PlaceIn(T, z)
               \/ (n # None /\ PlaceIn(T, n) <= PlaceIn(T, y) /\ h < PlaceIn(T, y))
  BY <1>1, <1>2, <1>3, LastLinkBefore
<1>5. /\ z \in D /\ z \in S \cup {Header} /\ z # p
      /\ PlaceIn(T, z) = PlaceIn(S, z) /\ PlaceIn(S, z) < h
  BY <1>2, <1>3, LastEarlier
<1>6. PairSet(T) BY PlacesShift
<1>7. PICK new : new = Spliced(level, z, p, gap) OBVIOUS
<1>8. /\ DOMAIN new = D \cup {p}
      /\ new[p].next = n /\ new[p].span = level[z].span - gap
      /\ new[z].next = p /\ new[z].span = gap + 1
      /\ \A x \in D \ {z, p} : new[x] = level[x]
  BY <1>1, <1>3, <1>5, <1>7 DEF Spliced
<1>9. Joins(D \cup {p}, T, p, n, new[p].span)
  <2>1. new[p].span = PlaceIn(T, n) - PlaceIn(T, p) BY <1>2, <1>4, <1>8
  <2>2. ASSUME n = None PROVE \A y \in D \cup {p} : PlaceIn(T, y) <= PlaceIn(T, p)
    <3>1. \A y \in D : PlaceIn(T, y) \in Nat /\ PlaceIn(T, y) <= PlaceIn(T, z) BY <1>4, <2>2
    <3>2. ASSUME NEW y \in D PROVE PlaceIn(T, y) <= PlaceIn(T, p)
      <4>1. PlaceIn(T, y) \in Nat /\ PlaceIn(T, y) <= PlaceIn(S, z) BY <1>5, <3>1
      <4> QED BY <1>2, <1>4, <1>5, <4>1
    <3>3. PlaceIn(T, p) <= PlaceIn(T, p) BY <1>2, <1>4
    <3> QED BY <3>2, <3>3
  <2>3. ASSUME NEW y \in D \cup {p}, n # None, PlaceIn(T, p) < PlaceIn(T, y)
        PROVE  PlaceIn(T, n) <= PlaceIn(T, y)
    <3>1. y \in D BY <1>2, <1>4, <2>3
    <3>2. ~(PlaceIn(T, y) <= PlaceIn(T, z))
      <4>1. PlaceIn(T, y) \in Nat BY <1>4, <3>1
      <4>2. PlaceIn(S, z) < h /\ h < PlaceIn(T, y) BY <1>2, <1>5, <2>3
      <4>3. ~(PlaceIn(T, y) <= PlaceIn(S, z)) BY <1>4, <4>1, <4>2
      <4> QED BY <1>5, <4>3
    <3> QED BY <1>4, <3>1, <3>2
  <2>4. n # None => n \in (D \cup {p}) \cap T /\ PlaceIn(T, p) < PlaceIn(T, n) BY <1>2, <1>4
  <2> QED BY <2>1, <2>2, <2>3, <2>4 DEF Joins
<1>10. Joins(D \cup {p}, T, z, p, new[z].span)
  <2>1. new[z].span = PlaceIn(T, p) - PlaceIn(T, z) BY <1>2, <1>4, <1>5, <1>8
  <2>2. PlaceIn(T, z) < PlaceIn(T, p) BY <1>2, <1>5
  <2>3. ASSUME NEW y \in D \cup {p}, PlaceIn(T, z) < PlaceIn(T, y)
        PROVE  PlaceIn(T, p) <= PlaceIn(T, y)
    <3>1. CASE y = p BY <1>2, <1>4, <3>1
    <3>2. CASE y \in D
      <4>1. PlaceIn(T, y) \in Nat /\ (PlaceIn(T, y) <= PlaceIn(T, z) \/ h < PlaceIn(T, y))
        BY <1>4, <3>2
      <4>2. PlaceIn(S, z) < PlaceIn(T, y) BY <1>5, <2>3
      <4>3. ~(PlaceIn(T, y) <= PlaceIn(S, z)) BY <1>4, <4>1, <4>2
      <4>4. h < PlaceIn(T, y) BY <1>5, <4>1, <4>3
      <4> QED BY <1>2, <1>4, <4>1, <4>4
    <3> QED BY <3>1, <3>2
  <2>4. p \in (D \cup {p}) \cap T OBVIOUS
  <2> QED BY <2>1, <2>2, <2>3, <2>4 DEF Joins
<1>11. ASSUME NEW x \in D \ {z, p} PROVE Joins(D \cup {p}, T, x, new[x].next, new[x].span)
  <2>1. x \in DOMAIN level \ {z} BY <1>3
  <2>2. Joins(D \cup {p}, T, x, level[x].next, level[x].span) BY <1>3, <2>1, OtherLinkAdds
  <2>3. new[x] = level[x] BY <1>8
  <2> QED BY <2>2, <2>3
<1>12. \A x \in DOMAIN new : Joins(DOMAIN new, T, x, new[x].next, new[x].span)
  BY <1>8, <1>9, <1>10, <1>11
<1>13. Header \in DOMAIN new /\ DOMAIN new \subseteq {Header} \cup T BY <1>3, <1>8 DEF Chain
<1>14. Chain(new, T) BY <1>6, <1>12, <1>13, JoinsChain
<1> QED BY <1>7, <1>14

\* A level that p does not reach is a chain once the link over p is longer.
LEMMA StretchedLonger ==
    ASSUME NEW S, PairSet(S), NEW p \in Node \ S, NEW T, T = S \cup {p},
           NEW level, Chain(level, S), NEW z, Ends(S, level, Earlier(S, p), z)
    PROVE  Chain(Stretched(level, z, 1), T) /\ DOMAIN Stretched(level, z, 1) = DOMAIN level
<1>1. PICK n : n = level[z].next OBVIOUS
<1>2. PICK h : h = PlaceIn(T, p) OBVIOUS
<1>3. PICK D : D = DOMAIN level OBVIOUS
<1>4. /\ n = None \/ (n \in D \cap S /\ h < PlaceIn(T, n))
      /\ PlaceIn(S, n) \in Nat /\ PlaceIn(T, n) = PlaceIn(S, n) + 1
      /\ level[z].span = PlaceIn(S, n) - PlaceIn(S, z)
      /\ PlaceIn(S, z) \in Nat /\ h \in Nat
      /\ \A y \in D :
            /\ PlaceIn(T, y) \in Nat
            /\ PlaceIn(T, y) <= PlaceIn(T, z)
               \/ (n # None /\ PlaceIn(T, n) <= PlaceIn(T, y) /\ h < PlaceIn(T, y))
  BY <1>1, <1>2, <1>3, LastLinkBefore
<1>5. /\ z \in D /\ z \in S \cup {Header} /\ z # p
      /\ PlaceIn(T, z) = PlaceIn(S, z) /\ PlaceIn(S, z) < h
  BY <1>2, <1>3, LastEarlier
<1>6. PairSet(T) BY PlacesShift
<1>7. PICK new : new = Stretched(level, z, 1) OBVIOUS
<1>8. /\ DOMAIN new = D
      /\ new[z].next = n /\ new[z].span = level[z].span + 1
      /\ \A x \in D \ {z} : new[x] = level[x]
  BY <1>1, <1>3, <1>5, <1>7 DEF Stretched
<1>9. Joins(D, T, z, n, new[z].span)
  <2>1. new[z].span = PlaceIn(T, n) - PlaceIn(T, z) BY <1>4, <1>5, <1>8
  <2>2. n = None => \A y \in D : PlaceIn(T, y) <= PlaceIn(T, z) BY <1>4
  <2>3. n # None => n \in D \cap T /\ PlaceIn(T, z) < PlaceIn(T, n) BY <1>4, <1>5
  <2>4. ASSUME NEW y \in D, n # None, PlaceIn(T, z) < PlaceIn(T, y)
        PROVE  PlaceIn(T, n) <= PlaceIn(T, y)
    <3>1. ~(PlaceIn(T, y) <= PlaceIn(T, z)) BY <1>4, <1>5, <2>4
    <3> QED BY <1>4, <3>1
  <2> QED BY <2>1, <2>2, <2>3, <2>4 DEF Joins
<1>10. ASSUME NEW x \in D \ {z} PROVE Joins(D, T, x, new[x].next, new[x].span)
  <2>1. Joins(D \cup {p}, T, x, new[x].next, new[x].span) BY <1>3, <1>8, OtherLinkAdds
  <2>2. new[x].next = None \/ new[x].next \in D BY <1>3, <1>8, LinkFacts
  <2>3. \A y \in D : y \in D \cup {p} OBVIOUS
  <2>4. None \notin T BY NodesAreNodes, <1>6 DEF PairSet
  <2> QED BY <2>1, <2>2, <2>3, <2>4 DEF Joins
<1>11. \A x \in DOMAIN new : Joins(DOMAIN new, T, x, new[x].next, new[x].span)
  BY <1>8, <1>9, <1>10
<1>12. Header \in DOMAIN new /\ DOMAIN new \subseteq {Header} \cup T BY <1>3, <1>8 DEF Chain
<1>13. Chain(new, T) BY <1>6, <1>11, <1>12, JoinsChain
<1> QED BY <1>3, <1>7, <1>8, <1>13
-----------------------------------------------------------------------------
\* m is the node after z that is not p, h the place of p.
LEMMA LastLinkAfter ==
    ASSUME NEW S, PairSet(S), NEW p \in Node \ S, NEW T, T = S \cup {p},
           NEW level, Chain(level, T), NEW z, Ends(T, level, Earlier(T, p), z),
           NEW D, D = DOMAIN level, NEW h, h = PlaceIn(T, p),
           NEW w, w = IF p \in D THEN p ELSE z, NEW m, m = level[w].next
    PROVE  /\ m = None \/ (m \in (D \ {p}) \cap S /\ PlaceIn(S, z) < PlaceIn(S, m))
           /\ PlaceIn(S, m) \in Nat /\ PlaceIn(T, m) = PlaceIn(S, m) + 1
           /\ PlaceIn(S, z) \in Nat /\ h \in Nat
           /\ \A y \in D \ {p} :
                 /\ PlaceIn(S, y) \in Nat
                 /\ PlaceIn(S, y) <= PlaceIn(S, z) \/ (m # None /\ PlaceIn(S, m) <= PlaceIn(S, y))
           /\ p \in D => /\ level[z].next = p
                         /\ level[z].span = h - PlaceIn(S, z)
                         /\ level[p].span = PlaceIn(T, m) - h
           /\ p \notin D => level[z].span = PlaceIn(T, m) - PlaceIn(S, z)
<1>1. PairSet(T) /\ p \in T BY PlacesShift
<1>2. /\ z \in D /\ z \in S \cup {Header} /\ z # p
      /\ PlaceIn(T, z) = PlaceIn(S, z) /\ PlaceIn(S, z) < h
      /\ \A y \in D \ {p} : PlaceIn(S, y) < h => PlaceIn(S, y) <= PlaceIn(S, z)
  BY LastEarlier
<1>3. D \ {p} \subseteq S \cup {Header} BY DEF Chain
<1>4. /\ h \in Nat \ {0}
      /\ PlaceIn(S, None) \in Nat /\ PlaceIn(T, None) = PlaceIn(S, None) + 1
      /\ \A y \in D \ {p} :
            /\ PlaceIn(S, y) \in Nat /\ PlaceIn(S, y) <= PlaceIn(S, None)
            /\ PlaceIn(S, y) < h => PlaceIn(T, y) = PlaceIn(S, y)
            /\ ~(PlaceIn(S, y) < h) => PlaceIn(T, y) = PlaceIn(S, y) + 1
  BY <1>3, PlacesShift
<1>5. PlaceIn(S, z) \in Nat BY <1>2, <1>4
<1>6. ASSUME NEW y \in D \ {p}, PlaceIn(S, z) < PlaceIn(S, y)
      PROVE  /\ PlaceIn(S, y) \in Nat /\ PlaceIn(T, y) \in Nat
             /\ PlaceIn(T, y) = PlaceIn(S, y) + 1 /\ h < PlaceIn(T, y)
  <2>1. PlaceIn(S, y) \in Nat BY <1>4
  <2>2. ~(PlaceIn(S, y) < h)
    <3> SUFFICES ASSUME PlaceIn(S, y) < h PROVE FALSE
      OBVIOUS
    <3>1. PlaceIn(S, y) <= PlaceIn(S, z) BY <1>2
    <3> QED BY <1>5, <1>6, <2>1, <3>1
  <2>3. PlaceIn(T, y) = PlaceIn(S, y) + 1 BY <1>4, <2>2
  <2>4. h < PlaceIn(T, y) BY <1>4, <2>1, <2>2, <2>3
  <2> QED BY <2>1, <2>3, <2>4
<1>7. ASSUME NEW y \in D \ {p}, ~(PlaceIn(S, z) < PlaceIn(S, y))
      PROVE  /\ PlaceIn(T, y) = PlaceIn(S, y) /\ PlaceIn(S, y) \in Nat
             /\ PlaceIn(S, y) <= PlaceIn(S, z)
  <2>1. PlaceIn(S, y) \in Nat BY <1>4
  <2>2. PlaceIn(S, y) <= PlaceIn(S, z) BY <1>5, <1>7, <2>1
  <2>3. PlaceIn(S, y) < h BY <1>2, <1>4, <1>5, <2>1, <2>2
  <2>4. PlaceIn(T, y) = PlaceIn(S, y) BY <1>4, <2>3
  <2> QED BY <2>1, <2>2, <2>4
<1>8. /\ w \in D /\ PlaceIn(T, w) \in Nat
      /\ PlaceIn(S, z) <= PlaceIn(T, w) /\ PlaceIn(T, w) <= h
  <2>1. CASE p \in D
    <3>1. w = p /\ PlaceIn(T, w) = h BY <2>1
    <3> QED BY <1>2, <1>4, <1>5, <2>1, <3>1
  <2>2. CASE p \notin D
    <3>1. w = z /\ PlaceIn(T, w) = PlaceIn(S, z) BY <1>2, <2>2
    <3> QED BY <1>2, <1>4, <1>5, <3>1
  <2> QED BY <2>1, <2>2
<1>9. Joins(D, T, w, m, level[w].span) BY <1>1, <1>8, ChainJoins
<1>10. level[w].span = PlaceIn(T, m) - PlaceIn(T, w) BY <1>9 DEF Joins
<1>11. p \in D => level[z].next = p /\ level[z].span = h - PlaceIn(S, z)
  <2> SUFFICES ASSUME p \in D PROVE level[z].next = p /\ level[z].span = h - PlaceIn(S, z)
    OBVIOUS
  <2>1. PICK q : q = level[z].next OBVIOUS
  <2>2. Joins(D, T, z, q, level[z].span) BY <1>1, <1>2, <2>1, ChainJoins
  <2>3. ~(PlaceIn(T, p) <= PlaceIn(T, z)) BY <1>2, <1>4, <1>5
  <2>4. PlaceIn(T, z) < PlaceIn(T, p) BY <1>2
  <2>5. q \in D /\ PlaceIn(T, z) < PlaceIn(T, q) /\ PlaceIn(T, q) <= h
    BY <2>2, <2>3, <2>4 DEF Joins
  <2>6. q = p
    <3> SUFFICES ASSUME q # p PROVE FALSE
      OBVIOUS
    <3>1. q \in D \ {p} BY <2>5
    <3>2. CASE PlaceIn(S, z) < PlaceIn(S, q)
      <4>1. h < PlaceIn(T, q) /\ PlaceIn(T, q) \in Nat BY <1>6, <3>1, <3>2
      <4> QED BY <1>4, <2>5, <4>1
    <3>3. CASE ~(PlaceIn(S, z) < PlaceIn(S, q))
      <4>1. PlaceIn(T, q) = PlaceIn(S, q) /\ PlaceIn(S, q) \in Nat /\ PlaceIn(S, q) <= PlaceIn(S, z)
        BY <1>7, <3>1, <3>3
      <4> QED BY <1>2, <1>5, <2>5, <4>1
    <3> QED BY <3>2, <3>3
  <2>7. level[z].span = PlaceIn(T, q) - PlaceIn(T, z) BY <2>2 DEF Joins
  <2> QED BY <1>2, <2>1, <2>6, <2>7
<1>12. p \in D => level[p].span = PlaceIn(T, m) - h BY <1>10
<1>13. p \notin D => level[z].span = PlaceIn(T, m) - PlaceIn(S, z) BY <1>2, <1>10
<1>14. CASE m = None /\ \A y \in D : PlaceIn(T, y) <= PlaceIn(T, w)
  <2>1. ASSUME NEW y \in D \ {p}
        PROVE  PlaceIn(S, y) \in Nat /\ PlaceIn(S, y) <= PlaceIn(S, z)
    <3>1. ~(PlaceIn(S, z) < PlaceIn(S, y))
      <4> SUFFICES ASSUME PlaceIn(S, z) < PlaceIn(S, y) PROVE FALSE
        OBVIOUS
      <4>1. PlaceIn(T, y) \in Nat /\ h < PlaceIn(T, y) BY <1>6
      <4>2. PlaceIn(T, y) <= PlaceIn(T, w) BY <1>14
      <4> QED BY <1>4, <1>8, <4>1, <4>2
    <3> QED BY <1>7, <3>1
  <2> QED BY <1>4, <1>5, <1>11, <1>12, <1>13, <1>14, <2>1
<1>15. CASE /\ m \in D \cap T
            /\ PlaceIn(T, w) < PlaceIn(T, m)
            /\ \A y \in D : PlaceIn(T, w) < PlaceIn(T, y) => PlaceIn(T, m) <= PlaceIn(T, y)
  <2>1. m # None BY <1>1, <1>15, ChainPlaces
  <2>2. m # p
    <3> SUFFICES ASSUME m = p PROVE FALSE
      OBVIOUS
    <3>1. w = p BY <1>15
    <3> QED BY <1>4, <1>15, <3>1
  <2>3. m \in (D \ {p}) \cap S BY <1>15, <2>2
  <2>4. PlaceIn(S, z) < PlaceIn(S, m)
    <3> SUFFICES ASSUME ~(PlaceIn(S, z) < PlaceIn(S, m)) PROVE FALSE
      OBVIOUS
    <3>1. PlaceIn(T, m) = PlaceIn(S, m) /\ PlaceIn(S, m) \in Nat /\ PlaceIn(S, m) <= PlaceIn(S, z)
      BY <1>7, <2>3
    <3> QED BY <1>5, <1>8, <1>15, <3>1
  <2>5. PlaceIn(S, m) \in Nat /\ PlaceIn(T, m) = PlaceIn(S, m) + 1 BY <1>6, <2>3, <2>4
  <2>6. ASSUME NEW y \in D \ {p}
        PROVE  /\ PlaceIn(S, y) \in Nat
               /\ PlaceIn(S, y) <= PlaceIn(S, z) \/ PlaceIn(S, m) <= PlaceIn(S, y)
    <3>1. CASE PlaceIn(S, z) < PlaceIn(S, y)
      <4>1. PlaceIn(S, y) \in Nat /\ PlaceIn(T, y) = PlaceIn(S, y) + 1 /\ h < PlaceIn(T, y)
        BY <1>6, <3>1
      <4>2. PlaceIn(T, w) < PlaceIn(T, y) BY <1>4, <1>8, <4>1
      <4>3. PlaceIn(T, m) <= PlaceIn(T, y) BY <1>15, <4>2
      <4> QED BY <2>5, <4>1, <4>3
    <3>2. CASE ~(PlaceIn(S, z) < PlaceIn(S, y)) BY <1>7, <3>2
    <3> QED BY <3>1, <3>2
  <2> QED BY <1>4, <1>5, <1>11, <1>12, <1>13, <2>1, <2>3, <2>4, <2>5, <2>6
<1> QED BY <1>9, <1>14, <1>15 DEF Joins

(***************************************************************************)
(* SkipList.delete_node keeps a level a chain.                             *)
(***************************************************************************)
Shortened(level, z) == Stretched(level, z, -1)

\* A level is a chain without p, whether p was in it or below one of its links.
LEMMA UnsplicedChain ==
    ASSUME NEW S, PairSet(S), NEW p \in Node \ S, NEW T, T = S \cup {p},
           NEW level, Chain(level, T), NEW z, Ends(T, level, Earlier(T, p), z)
    PROVE  /\ level[z].next = p => /\ Chain(Unspliced(level, z, p), S)
                                   /\ DOMAIN Unspliced(level, z, p) = DOMAIN level \ {p}
           /\ level[z].next # p => /\ Chain(Shortened(level, z), S)
                                   /\ DOMAIN Shortened(level, z) = DOMAIN level \ {p}
<1> SUFFICES ASSUME NEW new, new = IF level[z].next = p THEN Unspliced(level, z, p)
                                   ELSE Shortened(level, z)
             PROVE  Chain(new, S) /\ DOMAIN new = DOMAIN level \ {p}
  OBVIOUS
<1>1. PICK D : D = DOMAIN level OBVIOUS
<1>2. PICK h : h = PlaceIn(T, p) OBVIOUS
<1>3. PICK w : w = IF p \in D THEN p ELSE z OBVIOUS
<1>4. PICK m : m = level[w].next OBVIOUS
<1>5. /\ m = None \/ (m \in (D \ {p}) \cap S /\ PlaceIn(S, z) < PlaceIn(S, m))
      /\ PlaceIn(S, m) \in Nat /\ PlaceIn(T, m) = PlaceIn(S, m) + 1
      /\ PlaceIn(S, z) \in Nat /\ h \in Nat
      /\ \A y \in D \ {p} :
            /\ PlaceIn(S, y) \in Nat
            /\ PlaceIn(S, y) <= PlaceIn(S, z) \/ (m # None /\ PlaceIn(S, m) <= PlaceIn(S, y))
      /\ p \in D => /\ level[z].next = p
                    /\ level[z].span = h - PlaceIn(S, z)
                    /\ level[p].span = PlaceIn(T, m) - h
      /\ p \notin D => level[z].span = PlaceIn(T, m) - PlaceIn(S, z)
  BY <1>1, <1>2, <1>3, <1>4, LastLinkAfter
<1>6. z \in D /\ z \in S \cup {Header} /\ z # p BY <1>1, LastEarlier
<1>7. PairSet(T) /\ p # Header /\ p # None BY NodesAreNodes, PlacesShift
<1>8. /\ DOMAIN new = D \ {p}
      /\ new[z].next = m /\ new[z].span = PlaceIn(S, m) - PlaceIn(S, z)
      /\ \A x \in D \ {z, p} : new[x] = level[x]
  <2>1. CASE p \in D
    <3>1. new = Unspliced(level, z, p) /\ m = level[p].next BY <1>3, <1>4, <1>5, <2>1
    <3>2. new[z].span = level[z].span + level[p].span - 1 BY <1>1, <1>6, <3>1 DEF Unspliced
    <3>3. new[z].span = PlaceIn(S, m) - PlaceIn(S, z) BY <1>5, <2>1, <3>2
    <3> QED BY <1>1, <1>6, <3>1, <3>3 DEF Unspliced
  <2>2. CASE p \notin D
    <3>1. level[z].next # p
      <4>1. m = level[z].next BY <1>3, <1>4, <2>2
      <4> QED BY <1>5, <1>7, <4>1
    <3>2. new = Shortened(level, z) /\ m = level[z].next BY <1>3, <1>4, <2>2, <3>1
    <3>3. new[z].span = level[z].span + (-1) BY <1>1, <1>6, <3>2 DEF Shortened, Stretched
    <3>4. new[z].span = PlaceIn(S, m) - PlaceIn(S, z) BY <1>5, <2>2, <3>3
    <3> QED BY <1>1, <1>6, <2>2, <3>2, <3>4 DEF Shortened, Stretched
  <2> QED BY <2>1, <2>2
<1>9. Joins(D \ {p}, S, z, m, new[z].span)
  <2>1. m = None => \A y \in D \ {p} : PlaceIn(S, y) <= PlaceIn(S, z) BY <1>5
  <2>2. ASSUME NEW y \in D \ {p}, m # None, PlaceIn(S, z) < PlaceIn(S, y)
        PROVE  PlaceIn(S, m) <= PlaceIn(S, y)
    <3>1. PlaceIn(S, y) \in Nat BY <1>5
    <3>2. ~(PlaceIn(S, y) <= PlaceIn(S, z)) BY <1>5, <2>2, <3>1
    <3> QED BY <1>5, <3>2
  <2> QED BY <1>5, <1>8, <2>1, <2>2 DEF Joins
<1>10. ASSUME NEW x \in D \ {z, p} PROVE Joins(D \ {p}, S, x, new[x].next, new[x].span)
  <2>1. x \in DOMAIN level \ {z, p} BY <1>1
  <2>2. Joins(D \ {p}, S, x, level[x].next, level[x].span) BY <1>1, <2>1, OtherLinkRemoves
  <2>3. new[x] = level[x] BY <1>8
  <2> QED BY <2>2, <2>3
<1>11. \A x \in DOMAIN new : Joins(DOMAIN new, S, x, new[x].next, new[x].span)
  BY <1>6, <1>8, <1>9, <1>10
<1>12. Header \in DOMAIN new /\ DOMAIN new \subseteq {Header} \cup S BY <1>1, <1>7, <1>8 DEF Chain
<1>13. Chain(new, S) BY <1>11, <1>12, JoinsChain
<1> QED BY <1>1, <1>8, <1>13

\* The larger of two numbers.
LEMMA MaxOfTwo ==
    ASSUME NEW a \in Int, NEW b \in Int
    PROVE  Max({a, b}) = IF a >= b THEN a ELSE b
<1> DEFINE m == IF a >= b THEN a ELSE b
<1>1. m \in {a, b} /\ \A y \in {a, b} : m >= y
  OBVIOUS
<1>2. \A x \in {a, b} : (\A y \in {a, b} : x >= y) => x = m
  OBVIOUS
<1> HIDE DEF m
<1>3. Max({a, b}) = m BY <1>1, <1>2 DEF Max
<1> QED BY <1>3 DEF m
\* The largest of some numbers.
LEMMA MaxIsLargest ==
    ASSUME NEW n \in Nat, NEW A \in SUBSET (0..n), A # {}
    PROVE  Max(A) \in A /\ \A y \in A : y <= Max(A)
<1> DEFINE B == {n - x : x \in A}
<1>0. \A x \in A : x \in 0..n OBVIOUS
<1>1. B \subseteq Nat /\ B # {}
  <2>1. \A x \in A : n - x \in Nat BY <1>0
  <2>2. B \subseteq Nat BY <2>1, Zenon
  <2> QED BY <2>2
<1>2. PICK m \in B : \A y \in B : m <= y BY <1>1, LeastNatural
<1>3. PICK x \in A : m = n - x BY <1>2
<1>4. \A y \in A : x >= y
  <2> SUFFICES ASSUME NEW y \in A PROVE x >= y
    OBVIOUS
  <2>1. n - y \in B OBVIOUS
  <2>2. m <= n - y BY <1>2, <2>1
  <2>3. x \in Int /\ y \in Int OBVIOUS
  <2> QED BY <1>3, <2>2, <2>3
<1> HIDE DEF B
<1>5. Max(A) \in A /\ \A y \in A : Max(A) >= y BY <1>4, Zenon DEF Max
<1> QED BY <1>5
-----------------------------------------------------------------------------
(***************************************************************************)
(* The levels of a skip list as a whole: each is a part of those below it. *)
(***************************************************************************)
Nested(links, L) == \A i \in 2..L : DOMAIN links[i] \subseteq DOMAIN links[i - 1]

\* A level is a part of every level below it.
LEMMA LowerLevels ==
    ASSUME NEW links, NEW L \in Nat, Nested(links, L), NEW j \in 1..L, NEW i \in 1..j
    PROVE  DOMAIN links[j] \subseteq DOMAIN links[i]
<1> DEFINE M == {m \in Nat : i + m <= L => DOMAIN links[i + m] \subseteq DOMAIN links[i]}
<1>1. 0 \in M OBVIOUS
<1>2. ASSUME NEW m \in Nat, m \in M PROVE m + 1 \in M
  <2> SUFFICES ASSUME i + (m + 1) <= L
               PROVE  DOMAIN links[i + (m + 1)] \subseteq DOMAIN links[i]
    OBVIOUS
  <2>1. i + (m + 1) \in 2..L /\ (i + (m + 1)) - 1 = i + m /\ i + m <= L OBVIOUS
  <2>2. DOMAIN links[i + (m + 1)] \subseteq DOMAIN links[i + m] BY <2>1 DEF Nested
  <2>3. DOMAIN links[i + m] \subseteq DOMAIN links[i] BY <1>2, <2>1
  <2> QED BY <2>2, <2>3
<1> HIDE DEF M
<1>3. j - i \in M BY <1>1, <1>2, NatSetInduction
<1>4. i + (j - i) = j /\ j <= L /\ j - i \in Nat OBVIOUS
<1> QED BY <1>3, <1>4 DEF M

(***************************************************************************)
(* The header leads somewhere on a level that has other nodes.             *)
(***************************************************************************)
LEMMA HeaderLeads ==
    ASSUME NEW S, PairSet(S), NEW level, Chain(level, S)
    PROVE  level[Header].next # None <=> DOMAIN level # {Header}
<1>1. Header \in DOMAIN level /\ DOMAIN level \subseteq {Header} \cup S BY DEF Chain
<1>2. PlaceIn(S, Header) = 0 /\ \A y \in S : PlaceIn(S, y) \in Nat /\ PlaceIn(S, y) > 0
  BY PlaceValues, ChainPlaces
<1>3. ASSUME level[Header].next # None PROVE DOMAIN level # {Header}
  <2>1. level[Header].next \in DOMAIN level \cap S BY <1>1, <1>3, LinkFacts
  <2>2. Header \notin S BY NodesAreNodes DEF PairSet
  <2> QED BY <2>1, <2>2
<1>4. ASSUME DOMAIN level # {Header} PROVE level[Header].next # None
  <2>1. PICK y \in DOMAIN level : y # Header BY <1>1, <1>4
  <2>2. y \in S BY <1>1, <2>1
  <2>3. ~(PlaceIn(S, y) <= PlaceIn(S, Header)) BY <1>2, <2>2
  <2>4. level[Header].next \in DOMAIN level \cap S BY <1>1, <2>3, LinkFacts
  <2> QED BY <2>4, ChainPlaces
<1> QED BY <1>3, <1>4

\* What the proofs need of a sound skip list,
LEMMA SoundLevels ==
    ASSUME NEW S, PairSet(S), NEW sl, HoldsPairs(sl, S)
    PROVE  /\ Level(sl) \in Nat \ {0}
           /\ Chains(sl.links, S)
           /\ Nested(sl.links, Level(sl))
           /\ DOMAIN sl.links[1] = {Header} \cup S
           /\ Nodes(sl) = S
           /\ \A i \in 2..Level(sl) : sl.links[i][Header].next # None
<1>1. /\ Level(sl) \in Nat \ {0} /\ DOMAIN sl.links[1] = {Header} \cup S
      /\ \A i \in 1..Level(sl) :
            /\ Header \in DOMAIN sl.links[i]
            /\ Linked(sl.links[i], S)
            /\ i > 1 => /\ DOMAIN sl.links[i] \subseteq DOMAIN sl.links[i - 1]
                        /\ sl.links[i][Header].next # None
  BY DEF HoldsPairs, Levelled, Level
<1>2. PICK L \in Nat \ {0} : L = Level(sl) BY <1>1
<1>3. Nested(sl.links, L) /\ \A i \in 2..L : sl.links[i][Header].next # None
  BY <1>1, <1>2 DEF Nested
<1>4. ASSUME NEW i \in 1..L PROVE Chain(sl.links[i], S)
  <2>1. 1 \in 1..i OBVIOUS
  <2>2. DOMAIN sl.links[i] \subseteq DOMAIN sl.links[1] BY <1>3, <2>1, LowerLevels
  <2> QED BY <1>1, <1>2, <2>2 DEF Chain
<1>5. Chains(sl.links, S) BY <1>1, <1>2, <1>4 DEF Chains, Level
<1>6. Nodes(sl) = S
  <2>1. Header \notin S BY NodesAreNodes DEF PairSet
  <2> QED BY <1>1, <2>1 DEF Nodes
<1> QED BY <1>1, <1>2, <1>3, <1>5, <1>6

\* and what makes its levels sound.
LEMMA LevelsSound ==
    ASSUME NEW S, PairSet(S), NEW links, NEW L \in Nat \ {0}, DOMAIN links = 1..L,
           DOMAIN links[1] = {Header} \cup S,
           \A i \in 1..L : Chain(links[i], S),
           Nested(links, L),
           \A i \in 2..L : links[i][Header].next # None
    PROVE  Levelled(links, S)
<1>1. Len(links) = L OBVIOUS
<1> QED BY <1>1 DEF Levelled, Chain, Nested

(***************************************************************************)
(* Places on the first level are one apart.                                *)
(***************************************************************************)
LEMMA NextPlace ==
    ASSUME NEW S, PairSet(S), NEW level, Chain(level, S), DOMAIN level = {Header} \cup S,
           NEW x \in DOMAIN level, NEW n, n = level[x].next
    PROVE  IF n = None THEN PlaceIn(S, x) = Cardinality(S)
           ELSE n \in S /\ PlaceIn(S, n) = PlaceIn(S, x) + 1
<1> DEFINE below == IF x = Header THEN {} ELSE UpTo(S, x)
<1>0. Header \notin S BY NodesAreNodes DEF PairSet
<1>1. IsFiniteSet(below) /\ Cardinality(below) = PlaceIn(S, x) /\ below \subseteq S
  <2>1. CASE x = Header BY <2>1, PlaceValues, FS_EmptySet
  <2>2. CASE x # Header
    <3>1. x \in Node BY <2>2 DEF PairSet
    <3> QED BY <2>2, <3>1, PlaceValues DEF UpTo
  <2> QED BY <2>1, <2>2
<1>2. \A y \in S : PlaceIn(S, y) \in Nat /\ PlaceIn(S, y) > 0 /\ y \in Node
  BY PlaceValues, ChainPlaces DEF PairSet
<1>3. PlaceIn(S, Header) = 0 /\ PlaceIn(S, x) \in Nat BY PlaceValues, ChainPlaces
<1>4. ASSUME NEW y \in S PROVE y \in below <=> PlaceIn(S, y) <= PlaceIn(S, x)
  <2>1. CASE x = Header BY <1>2, <1>3, <2>1
  <2>2. CASE x # Header
    <3>1. x \in S /\ x \in Node BY <1>2, <2>2
    <3>2. y \in below <=> ~Less(x, y) BY <1>2, <2>2, <3>1, LessIsOrder DEF UpTo
    <3>3. Less(x, y) <=> PlaceIn(S, x) < PlaceIn(S, y) BY <3>1, PlaceOrder
    <3> QED BY <1>2, <1>3, <3>2, <3>3
  <2> QED BY <2>1, <2>2
<1> HIDE DEF below
<1>5. CASE n = None /\ \A y \in DOMAIN level : PlaceIn(S, y) <= PlaceIn(S, x)
  <2>1. below = S BY <1>1, <1>4, <1>5
  <2> QED BY <1>1, <1>5, <2>1
<1>6. CASE /\ n \in DOMAIN level \cap S
           /\ PlaceIn(S, x) < PlaceIn(S, n)
           /\ \A y \in DOMAIN level : PlaceIn(S, x) < PlaceIn(S, y) =>
                 PlaceIn(S, n) <= PlaceIn(S, y)
  <2>1. n # None BY <1>6, ChainPlaces
  <2>2. n \in Node /\ PlaceIn(S, n) = Cardinality(UpTo(S, n)) BY <1>2, <1>6, PlaceValues
  <2>3. ASSUME NEW y \in S PROVE y \in UpTo(S, n) <=> y \in below \/ y = n
    <3>1. y \in UpTo(S, n) <=> Less(y, n) \/ y = n BY <1>2, <2>2, LessIsOrder DEF UpTo
    <3>2. Less(y, n) <=> PlaceIn(S, y) < PlaceIn(S, n) BY <1>2, <1>6, PlaceOrder
    <3>3. PlaceIn(S, y) < PlaceIn(S, n) <=> PlaceIn(S, y) <= PlaceIn(S, x)
      <4>1. PlaceIn(S, y) \in Nat /\ PlaceIn(S, n) \in Nat BY <1>2, <1>6
      <4>2. PlaceIn(S, x) < PlaceIn(S, y) => PlaceIn(S, n) <= PlaceIn(S, y) BY <1>6
      <4> QED BY <1>3, <1>6, <4>1, <4>2
    <3> QED BY <1>4, <3>1, <3>2, <3>3
  <2>4. UpTo(S, n) = below \cup {n} BY <1>1, <1>6, <2>3 DEF UpTo
  <2>5. n \notin below
    <3>1. ~(PlaceIn(S, n) <= PlaceIn(S, x)) BY <1>2, <1>3, <1>6
    <3> QED BY <1>4, <1>6, <3>1
  <2>6. Cardinality(UpTo(S, n)) = Cardinality(below) + 1 BY <1>1, <2>4, <2>5, FS_AddElement
  <2> QED BY <1>1, <1>6, <2>1, <2>2, <2>6
<1>7. Joins(DOMAIN level, S, x, n, level[x].span) BY ChainJoins
<1> QED BY <1>5, <1>6, <1>7 DEF Joins

(***************************************************************************)
(* The descent towards the place of a node, in S or in a set that has it.  *)
(***************************************************************************)
LEMMA EarlierPass ==
    ASSUME NEW U, PairSet(U), NEW p \in Node
    PROVE  Earlier(U, p) = Passing(U, Earlier(U, p), Nat) /\ First(U, Earlier(U, p))
<1>1. \A y \in U : PlaceIn(U, y) \in Nat /\ y \in Node BY ChainPlaces DEF PairSet
<1>2. ASSUME NEW y \in Earlier(U, p), NEW x \in U, PlaceIn(U, x) <= PlaceIn(U, y)
      PROVE  x \in Earlier(U, p)
  <2>1. y \in U /\ Less(y, p) BY DEF Earlier
  <2>2. x = y \/ Less(x, y)
    <3>1. ~(PlaceIn(U, y) < PlaceIn(U, x)) BY <1>1, <1>2, <2>1
    <3>2. ~Less(y, x) BY <1>1, <2>1, <3>1, PlaceOrder
    <3> QED BY <1>1, <2>1, <3>2, LessIsOrder
  <2>3. Less(x, p) BY <1>1, <2>1, <2>2, LessIsTransitive
  <2> QED BY <2>3 DEF Earlier
<1> QED BY <1>1, <1>2 DEF Passing, First, Earlier

\* The descent of insert and of delete_node finds where a pair belongs.
LEMMA DescendToPlace ==
    ASSUME NEW U, PairSet(U), NEW sl, HoldsPairs(sl, U),
           NEW score \in Int, NEW member \in Nat, NEW p, p = <<score, member>>,
           NEW left, left = Descend(sl, NodesBefore(sl, score, member), Nat)
    PROVE  \A i \in 1..Level(sl) :
              left[i] = At(U, left[i].node) /\ Ends(U, sl.links[i], Earlier(U, p), left[i].node)
<1>1. p \in Node BY DEF Node
<1>2. NodesBefore(sl, score, member) = Earlier(U, p)
  BY SoundLevels DEF NodesBefore, Earlier, Less
<1>3. Earlier(U, p) = Passing(U, Earlier(U, p), Nat) /\ First(U, Earlier(U, p))
  BY <1>1, EarlierPass
<1>4. Earlier(U, p) \in SUBSET U BY DEF Earlier
<1>5. Chains(sl.links, U) BY SoundLevels
<1> QED BY <1>2, <1>3, <1>4, <1>5, DescendEnds
-----------------------------------------------------------------------------
(***************************************************************************)
(* SkipList.insert.                                                        *)
(***************************************************************************)
LEMMA InsertedLevels ==
    ASSUME NEW S, PairSet(S), NEW sl, HoldsPairs(sl, S),
           NEW score \in Int, NEW member \in Nat, NEW p, p = <<score, member>>, p \notin S,
           NEW T, T = S \cup {p}, NEW lvl \in Nat \ {0},
           NEW left, left = Descend(sl, NodesBefore(sl, score, member), Nat)
    PROVE  /\ Levelled(Insert(sl, score, member, lvl).links, T)
           /\ left[1].node \in {Header} \cup S
           /\ PlaceIn(S, left[1].node) + 1 = PlaceIn(T, p)
<1>1. p \in Node \ S BY DEF Node
<1>2. PICK L \in Nat \ {0} : L = Level(sl) BY SoundLevels
<1>3. /\ Chains(sl.links, S) /\ Nested(sl.links, L) /\ DOMAIN sl.links[1] = {Header} \cup S
      /\ \A i \in 2..L : sl.links[i][Header].next # None
      /\ \A i \in 1..L : Chain(sl.links[i], S)
  BY <1>2, SoundLevels DEF Chains, Level
<1>4. \A i \in 1..L : /\ left[i] = At(S, left[i].node)
                      /\ Ends(S, sl.links[i], Earlier(S, p), left[i].node)
  BY <1>2, DescendToPlace
<1>5. PICK z1 : z1 = left[1].node OBVIOUS
<1>6. PICK h : h = PlaceIn(T, p) OBVIOUS
<1>7. /\ Ends(S, sl.links[1], Earlier(S, p), z1) /\ left[1].rank = PlaceIn(S, z1)
  <2>1. 1 \in 1..L OBVIOUS
  <2>2. left[1] = At(S, z1) /\ Ends(S, sl.links[1], Earlier(S, p), z1) BY <1>4, <1>5, <2>1
  <2> QED BY <2>2 DEF At
<1>8. PlaceIn(S, z1) + 1 = h /\ z1 \in {Header} \cup S /\ PlaceIn(S, z1) \in Nat
  <2>1. PICK n : n = sl.links[1][z1].next OBVIOUS
  <2>2. /\ n = None \/ (n \in S /\ h < PlaceIn(T, n))
        /\ PlaceIn(S, n) \in Nat /\ PlaceIn(T, n) = PlaceIn(S, n) + 1
        /\ PlaceIn(S, z1) \in Nat /\ h \in Nat
    BY <1>1, <1>3, <1>6, <1>7, <2>1, LastLinkBefore
  <2>3. z1 \in DOMAIN sl.links[1] /\ z1 \in {Header} \cup S /\ PlaceIn(S, z1) < h
    BY <1>1, <1>3, <1>6, <1>7, LastEarlier
  <2>4. IF n = None THEN PlaceIn(S, z1) = Cardinality(S)
        ELSE n \in S /\ PlaceIn(S, n) = PlaceIn(S, z1) + 1
    <3>1. PICK first : first = sl.links[1] OBVIOUS
    <3>2. Chain(first, S) /\ DOMAIN first = {Header} \cup S BY <1>3, <3>1
    <3>3. z1 \in DOMAIN first /\ n = first[z1].next BY <2>1, <2>3, <3>1
    <3> QED BY <3>2, <3>3, NextPlace
  <2>5. h <= PlaceIn(T, None) /\ PlaceIn(T, None) = Cardinality(S) + 1 /\ Cardinality(S) \in Nat
    BY <1>1, <1>6, PlacesShift, PlaceValues
  <2> QED BY <2>2, <2>3, <2>4, <2>5
<1>9. PICK N \in Nat \ {0} : N = Max({lvl, L}) /\ N = (IF lvl >= L THEN lvl ELSE L) BY MaxOfTwo
<1>10. PICK links : links = Insert(sl, score, member, lvl).links OBVIOUS
<1>11. PICK z, level :
          /\ z = [i \in 1..N |-> IF i <= L THEN left[i].node ELSE Header]
          /\ level = [i \in 1..N |-> IF i <= L THEN sl.links[i] ELSE Unlinked(sl.length)]
  OBVIOUS
<1>12. ASSUME NEW i \in 1..N
       PROVE  /\ Chain(level[i], S) /\ Ends(S, level[i], Earlier(S, p), z[i])
              /\ i <= L => level[i] = sl.links[i] /\ left[i].rank = PlaceIn(S, z[i])
              /\ i > L => DOMAIN level[i] = {Header} /\ PlaceIn(S, z[i]) = 0
  <2>1. CASE i <= L
    <3>1. level[i] = sl.links[i] /\ z[i] = left[i].node /\ i \in 1..L BY <1>11, <2>1
    <3>2. left[i] = At(S, z[i]) BY <1>4, <3>1
    <3>3. left[i].rank = PlaceIn(S, z[i]) BY <3>2 DEF At
    <3>4. Chain(level[i], S) /\ Ends(S, level[i], Earlier(S, p), z[i]) BY <1>3, <1>4, <3>1
    <3> QED BY <2>1, <3>1, <3>3, <3>4
  <2>2. CASE ~(i <= L)
    <3>1. level[i] = Unlinked(sl.length) /\ z[i] = Header BY <1>11, <2>2
    <3>2. sl.length = Cardinality(S) BY DEF HoldsPairs
    <3>3. /\ PlaceIn(S, Header) = 0 /\ PlaceIn(S, None) = Cardinality(S)
          /\ Cardinality(S) \in Nat
      BY PlaceValues
    <3>4. Header \notin Earlier(S, p) BY NodesAreNodes DEF PairSet, Earlier
    <3>5. /\ DOMAIN level[i] = {Header}
          /\ level[i][Header].next = None /\ level[i][Header].span = Cardinality(S)
      BY <3>1, <3>2 DEF Unlinked
    <3>6. Joins({Header}, S, Header, None, Cardinality(S)) BY <3>3 DEF Joins
    <3>7. Chain(level[i], S) BY <3>5, <3>6, JoinsChain
    <3>8. Ends(S, level[i], Earlier(S, p), Header) BY <3>4, <3>5 DEF Ends
    <3> QED BY <2>2, <3>1, <3>3, <3>5, <3>7, <3>8
  <2> QED BY <2>1, <2>2
<1>13. ASSUME NEW i \in 2..N PROVE DOMAIN level[i] \subseteq DOMAIN level[i - 1]
  <2>1. i \in 1..N /\ i - 1 \in 1..N BY <1>9
  <2>2. CASE i <= L
    <3>1. i \in 2..L /\ i - 1 <= L BY <2>2
    <3>2. level[i] = sl.links[i] /\ level[i - 1] = sl.links[i - 1] BY <1>12, <2>1, <2>2, <3>1
    <3> QED BY <1>3, <3>1, <3>2 DEF Nested
  <2>3. CASE ~(i <= L)
    <3>1. i > L BY <2>3
    <3>2. DOMAIN level[i] = {Header} BY <1>12, <2>1, <3>1
    <3>3. Header \in DOMAIN level[i - 1] BY <1>12, <2>1 DEF Chain
    <3> QED BY <3>2, <3>3
  <2> QED BY <2>2, <2>3
<1>14. ASSUME NEW i \in 1..N
       PROVE  /\ Chain(links[i], T)
              /\ DOMAIN links[i] = IF i <= lvl THEN DOMAIN level[i] \cup {p} ELSE DOMAIN level[i]
  <2>1. PICK gap : gap = left[1].rank - (IF i <= L THEN left[i].rank ELSE 0) OBVIOUS
  <2>2. links[i] = IF i <= lvl THEN Spliced(level[i], z[i], p, gap) ELSE Stretched(level[i], z[i], 1)
    BY <1>2, <1>9, <1>10, <1>11, <2>1 DEF Insert
  <2>3. CASE i <= lvl
    <3>1. links[i] = Spliced(level[i], z[i], p, gap) BY <2>2, <2>3
    <3>2. gap = PlaceIn(T, p) - 1 - PlaceIn(S, z[i])
      <4>1. z[i] \in S \cup {Header} BY <1>1, <1>12, LastEarlier
      <4>2. PlaceIn(S, z[i]) \in Nat BY <4>1, ChainPlaces
      <4>3. gap = PlaceIn(S, z1) - PlaceIn(S, z[i])
        <5>1. CASE i <= L BY <1>7, <1>12, <2>1, <5>1
        <5>2. CASE ~(i <= L)
          <6>1. i > L BY <5>2
          <6> QED BY <1>7, <1>12, <2>1, <5>2, <6>1
        <5> QED BY <5>1, <5>2
      <4>4. PlaceIn(T, p) = PlaceIn(S, z1) + 1 BY <1>6, <1>8
      <4> QED BY <1>8, <4>2, <4>3, <4>4
    <3>3. Chain(links[i], T) BY <1>1, <1>12, <3>1, <3>2, SplicedChain
    <3>4. DOMAIN links[i] = DOMAIN level[i] \cup {p} BY <3>1 DEF Spliced
    <3> QED BY <2>3, <3>3, <3>4
  <2>4. CASE ~(i <= lvl)
    <3>1. links[i] = Stretched(level[i], z[i], 1) BY <2>2, <2>4
    <3> QED BY <1>1, <1>12, <2>4, <3>1, StretchedLonger
  <2> QED BY <2>3, <2>4
<1>15. PairSet(T) BY <1>1, PlacesShift
<1>16. DOMAIN links[1] = {Header} \cup T
  <2>1. 1 \in 1..N /\ 1 <= lvl /\ 1 <= L OBVIOUS
  <2>2. level[1] = sl.links[1] BY <1>12, <2>1
  <2> QED BY <1>3, <1>14, <2>1, <2>2
<1>17. Nested(links, N)
  <2> SUFFICES ASSUME NEW i \in 2..N PROVE DOMAIN links[i] \subseteq DOMAIN links[i - 1]
    BY DEF Nested
  <2>1. i \in 1..N /\ i - 1 \in 1..N /\ (i <= lvl => i - 1 <= lvl) BY <1>9
  <2>2. DOMAIN level[i] \subseteq DOMAIN level[i - 1] BY <1>13
  <2>3. DOMAIN links[i] = IF i <= lvl THEN DOMAIN level[i] \cup {p} ELSE DOMAIN level[i]
    BY <1>14, <2>1
  <2>4. DOMAIN links[i - 1] =
            IF i - 1 <= lvl THEN DOMAIN level[i - 1] \cup {p} ELSE DOMAIN level[i - 1]
    BY <1>14, <2>1
  <2> QED BY <2>1, <2>2, <2>3, <2>4
<1>18. ASSUME NEW i \in 2..N PROVE links[i][Header].next # None
  <2>1. i \in 1..N OBVIOUS
  <2>2. DOMAIN links[i] # {Header}
    <3>1. CASE i <= lvl
      <4>1. p \in DOMAIN links[i] BY <1>14, <2>1, <3>1
      <4> QED BY <1>1, <4>1, NodesAreNodes
    <3>2. CASE ~(i <= lvl)
      <4>1. i \in 2..L /\ i <= L BY <1>9, <3>2
      <4>2. level[i] = sl.links[i] /\ Chain(level[i], S) BY <1>12, <2>1, <4>1
      <4>3. DOMAIN level[i] # {Header} BY <1>3, <4>1, <4>2, HeaderLeads
      <4> QED BY <1>14, <2>1, <3>2, <4>3
    <3> QED BY <3>1, <3>2
  <2> QED BY <1>14, <1>15, <2>1, <2>2, HeaderLeads
<1>19. DOMAIN links = 1..N BY <1>2, <1>9, <1>10 DEF Insert
<1>20. Levelled(links, T) BY <1>14, <1>15, <1>16, <1>17, <1>18, <1>19, LevelsSound
<1> QED BY <1>5, <1>6, <1>8, <1>10, <1>20
-----------------------------------------------------------------------------
(***************************************************************************)
(* The way back, when p is inserted after z.                               *)
(***************************************************************************)
LEMMA InsertedBack ==
    ASSUME NEW S, PairSet(S), NEW p \in Node \ S, NEW T, T = S \cup {p},
           NEW sl, Backwards(sl, S), NEW z \in {Header} \cup S, NEW n,
           PlaceIn(S, z) + 1 = PlaceIn(T, p),
           IF n = None THEN PlaceIn(S, z) = Cardinality(S)
           ELSE n \in S /\ PlaceIn(S, n) = PlaceIn(S, z) + 1,
           NEW new, new.tail = IF n = None THEN p ELSE sl.tail,
           new.back = [x \in DOMAIN sl.back \cup {p} |->
                          IF x = p THEN IF z = Header THEN None ELSE z
                          ELSE IF x = n THEN p
                          ELSE sl.back[x]]
    PROVE  Backwards(new, T)
<1>1. PICK h : h = PlaceIn(T, p) OBVIOUS
<1>2. /\ Cardinality(S) \in Nat /\ Cardinality(T) = Cardinality(S) + 1
      /\ PlaceIn(S, None) = Cardinality(S)
      /\ h \in Nat \ {0}
      /\ PlaceIn(S, Header) = 0
      /\ \A y \in S \cup {Header} :
            /\ PlaceIn(S, y) \in Nat /\ PlaceIn(S, y) <= PlaceIn(S, None)
            /\ PlaceIn(S, y) < h => PlaceIn(T, y) = PlaceIn(S, y)
            /\ ~(PlaceIn(S, y) < h) => PlaceIn(T, y) = PlaceIn(S, y) + 1
  BY <1>1, PlacesShift, PlaceValues
<1>3. p # Header /\ p # None /\ Header \notin S /\ None \notin S BY NodesAreNodes DEF PairSet
<1>4. DOMAIN sl.back = S BY DEF Backwards
<1>5. PlaceIn(S, z) = h - 1 /\ PlaceIn(T, z) = h - 1
  <2>1. PlaceIn(S, z) \in Nat /\ PlaceIn(S, z) + 1 = h BY <1>1, <1>2
  <2>2. PlaceIn(S, z) = h - 1 /\ PlaceIn(S, z) < h BY <1>2, <2>1
  <2> QED BY <1>2, <2>2
<1>6. n = None => h = Cardinality(T) BY <1>2, <1>5
<1>7. n # None => n \in S /\ PlaceIn(S, n) = h BY <1>2, <1>5
<1>8. new.tail \in T /\ PlaceIn(T, new.tail) = Cardinality(T)
  <2>1. CASE n = None BY <1>1, <1>6, <2>1
  <2>2. CASE n # None
    <3>1. sl.tail \in S /\ PlaceIn(S, sl.tail) = Cardinality(S)
      BY <1>7, <2>2 DEF Backwards
    <3>2. PlaceIn(S, n) <= Cardinality(S) BY <1>2, <1>7, <2>2
    <3>3. ~(PlaceIn(S, sl.tail) < h) BY <1>2, <1>7, <2>2, <3>1, <3>2
    <3>4. PlaceIn(T, sl.tail) = PlaceIn(S, sl.tail) + 1 BY <1>2, <3>1, <3>3
    <3> QED BY <1>2, <2>2, <3>1, <3>4
  <2> QED BY <2>1, <2>2
<1>9. ASSUME NEW x \in T
      PROVE  IF PlaceIn(T, x) = 1 THEN new.back[x] = None
             ELSE new.back[x] \in T /\ PlaceIn(T, new.back[x]) = PlaceIn(T, x) - 1
  <2>1. CASE x = p
    <3>1. new.back[x] = IF z = Header THEN None ELSE z BY <1>4, <2>1
    <3>2. PlaceIn(T, x) = h BY <1>1, <2>1
    <3>3. CASE z = Header
      <4>1. h = 1 BY <1>2, <1>5, <3>3
      <4> QED BY <3>1, <3>2, <3>3, <4>1
    <3>4. CASE z # Header
      <4>1. z \in S /\ PlaceIn(S, z) > 0 BY <3>4, PlaceValues
      <4>2. h # 1 BY <1>2, <1>5, <4>1
      <4> QED BY <1>5, <3>1, <3>2, <3>4, <4>1, <4>2
    <3> QED BY <3>3, <3>4
  <2>2. CASE x # p /\ x = n
    <3>1. x \in S /\ PlaceIn(S, x) = h BY <1>3, <1>7, <2>2
    <3>2. PlaceIn(T, x) = h + 1
      <4>1. ~(PlaceIn(S, x) < h) BY <1>2, <3>1
      <4> QED BY <1>2, <3>1, <4>1
    <3>3. new.back[x] = p BY <1>4, <2>2
    <3>4. PlaceIn(T, x) # 1 /\ PlaceIn(T, p) = PlaceIn(T, x) - 1 BY <1>1, <1>2, <3>2
    <3> QED BY <3>3, <3>4
  <2>3. CASE x # p /\ x # n
    <3>1. x \in S /\ new.back[x] = sl.back[x] BY <1>4, <2>3
    <3>2. PICK s \in Nat : s = PlaceIn(S, x) BY <1>2, <3>1
    <3>3. /\ IF s = 1 THEN sl.back[x] = None
             ELSE sl.back[x] \in S /\ PlaceIn(S, sl.back[x]) = s - 1
          /\ s > 0 /\ s <= Cardinality(S)
      BY <1>2, <3>1, <3>2, PlaceValues DEF Backwards
    <3>4. s # h
      <4>1. CASE n = None BY <1>2, <1>6, <3>3, <4>1
      <4>2. CASE n # None BY <1>7, <2>3, <3>1, <3>2, <4>2, PlacesDiffer
      <4> QED BY <4>1, <4>2
    <3>5. PlaceIn(T, x) = IF s < h THEN s ELSE s + 1 BY <1>2, <3>1, <3>2
    <3>6. CASE s = 1
      <4>1. PlaceIn(T, x) = 1 BY <1>2, <3>4, <3>5, <3>6
      <4> QED BY <3>1, <3>3, <3>6, <4>1
    <3>7. CASE s # 1
      <4>1. PICK b : b = sl.back[x] OBVIOUS
      <4>2. b \in S /\ PlaceIn(S, b) = s - 1 BY <3>3, <3>7, <4>1
      <4>3. PlaceIn(T, x) # 1 BY <3>3, <3>5, <3>7
      <4>4. PlaceIn(T, b) = PlaceIn(T, x) - 1
        <5>1. CASE s < h
          <6>1. PlaceIn(S, b) < h BY <1>2, <4>2, <5>1
          <6> QED BY <1>2, <3>5, <4>2, <5>1, <6>1
        <5>2. CASE ~(s < h)
          <6>1. ~(PlaceIn(S, b) < h) BY <1>2, <3>4, <4>2, <5>2
          <6>2. PlaceIn(T, b) = PlaceIn(S, b) + 1 BY <1>2, <4>2, <6>1
          <6> QED BY <3>5, <4>2, <5>2, <6>2
        <5> QED BY <5>1, <5>2
      <4> QED BY <3>1, <4>1, <4>2, <4>3, <4>4
    <3> QED BY <3>6, <3>7
  <2> QED BY <2>1, <2>2, <2>3
<1>10. DOMAIN new.back = T BY <1>4
<1>11. T # {} OBVIOUS
<1> QED BY <1>8, <1>9, <1>10, <1>11 DEF Backwards

\* insert adds its pair to those a skip list holds.
LEMMA InsertHolds ==
    ASSUME NEW S, PairSet(S), NEW sl, HoldsPairs(sl, S),
           NEW score \in Int, NEW member \in Nat, NEW p, p = <<score, member>>, p \notin S,
           NEW lvl \in Nat \ {0}
    PROVE  HoldsPairs(Insert(sl, score, member, lvl), S \cup {p})
<1>1. p \in Node \ S BY DEF Node
<1>2. PICK T : T = S \cup {p} OBVIOUS
<1>3. PICK left : left = Descend(sl, NodesBefore(sl, score, member), Nat) OBVIOUS
<1>4. PICK new : new = Insert(sl, score, member, lvl) OBVIOUS
<1>5. PICK z : z = left[1].node OBVIOUS
<1>6. PICK n : n = sl.links[1][z].next OBVIOUS
<1>7. Levelled(new.links, T) /\ z \in {Header} \cup S /\ PlaceIn(S, z) + 1 = PlaceIn(T, p)
  BY <1>2, <1>3, <1>4, <1>5, InsertedLevels
<1>8. IF n = None THEN PlaceIn(S, z) = Cardinality(S)
      ELSE n \in S /\ PlaceIn(S, n) = PlaceIn(S, z) + 1
  <2>1. PICK first : first = sl.links[1] OBVIOUS
  <2>2. Level(sl) \in Nat \ {0} /\ Chains(sl.links, S) /\ DOMAIN first = {Header} \cup S
    BY <2>1, SoundLevels
  <2>3. 1 \in 1..Level(sl) BY <2>2
  <2>4. Chain(first, S) BY <2>1, <2>2, <2>3 DEF Chains, Level
  <2>5. z \in DOMAIN first /\ n = first[z].next BY <1>6, <1>7, <2>1, <2>2
  <2> QED BY <2>2, <2>4, <2>5, NextPlace
<1>9. /\ new.back = [x \in DOMAIN sl.back \cup {p} |->
                        IF x = p THEN IF z = Header THEN None ELSE z
                        ELSE IF x = n THEN p
                        ELSE sl.back[x]]
      /\ new.tail = IF n = None THEN p ELSE sl.tail
      /\ new.length = sl.length + 1
  BY <1>3, <1>4, <1>5, <1>6, Zenon DEF Insert
<1>10. Backwards(sl, S) /\ sl.length = Cardinality(S) BY DEF HoldsPairs
<1>11. Backwards(new, T) BY <1>1, <1>2, <1>7, <1>8, <1>9, <1>10, InsertedBack
<1>12. new.length = Cardinality(T) BY <1>1, <1>2, <1>9, <1>10, PlacesShift
<1> QED BY <1>2, <1>4, <1>7, <1>11, <1>12 DEF HoldsPairs
-----------------------------------------------------------------------------
(***************************************************************************)
(* SkipList.delete_node.                                                   *)
(***************************************************************************)
With(S, p, T) == PairSet(S) /\ p \in Node \ S /\ T = S \cup {p}

LeftAt(T, p, level, z) == Chain(level, T) /\ Ends(T, level, Earlier(T, p), z)

Without(level, z, p) ==
    IF level[z].next = p THEN Unspliced(level, z, p) ELSE Shortened(level, z)

\* What delete_node makes of one level is a chain without p.
LEMMA WithoutChain ==
    ASSUME NEW S, NEW p, NEW T, With(S, p, T), NEW level, NEW z, LeftAt(T, p, level, z)
    PROVE  /\ Chain(Without(level, z, p), S)
           /\ DOMAIN Without(level, z, p) = DOMAIN level \ {p}
<1>1. PairSet(S) /\ p \in Node \ S /\ T = S \cup {p} BY DEF With
<1>2. Chain(level, T) /\ Ends(T, level, Earlier(T, p), z) BY DEF LeftAt
<1>3. /\ level[z].next = p => /\ Chain(Unspliced(level, z, p), S)
                              /\ DOMAIN Unspliced(level, z, p) = DOMAIN level \ {p}
      /\ level[z].next # p => /\ Chain(Shortened(level, z), S)
                              /\ DOMAIN Shortened(level, z) = DOMAIN level \ {p}
  BY <1>1, <1>2, UnsplicedChain
<1>4. CASE level[z].next = p BY <1>3, <1>4 DEF Without
<1>5. CASE level[z].next # p BY <1>3, <1>5 DEF Without
<1> QED BY <1>4, <1>5

LeftBefore(sl, T, p, left) ==
    \A i \in 1..Level(sl) : Ends(T, sl.links[i], Earlier(T, p), left[i].node)

\* The levels that are left, once the empty ones are cut off.
LEMMA DeletedLevels ==
    ASSUME NEW S, NEW p, NEW T, With(S, p, T),
           NEW sl, HoldsPairs(sl, T), NEW left, LeftBefore(sl, T, p, left)
    PROVE  Levelled(DeleteNode(sl, p, left).links, S)
<1>0. PairSet(S) /\ p \in Node \ S /\ T = S \cup {p} BY DEF With
<1>1. PairSet(T) BY <1>0, PlacesShift
<1>2. PICK L \in Nat \ {0} : L = Level(sl) BY <1>1, SoundLevels
<1>3. /\ Chains(sl.links, T) /\ Nested(sl.links, L) /\ DOMAIN sl.links[1] = {Header} \cup T
      /\ \A i \in 1..L : Chain(sl.links[i], T)
  BY <1>1, <1>2, SoundLevels DEF Chains, Level
<1>4. PICK level : level = [i \in 1..L |->
            IF sl.links[i][left[i].node].next = p
            THEN Unspliced(sl.links[i], left[i].node, p)
            ELSE Shortened(sl.links[i], left[i].node)]
  OBVIOUS
<1>5. ASSUME NEW i \in 1..L
      PROVE  Chain(level[i], S) /\ DOMAIN level[i] = DOMAIN sl.links[i] \ {p}
  <2>1. PICK was, z : was = sl.links[i] /\ z = left[i].node OBVIOUS
  <2>2. LeftAt(T, p, was, z) BY <1>2, <1>3, <2>1 DEF LeftBefore, LeftAt
  <2>3. level[i] = Without(was, z, p) BY <1>4, <2>1 DEF Without
  <2>4. /\ Chain(Without(was, z, p), S)
        /\ DOMAIN Without(was, z, p) = DOMAIN was \ {p}
    BY <2>2, WithoutChain
  <2> QED BY <2>1, <2>3, <2>4
<1>6. Nested(level, L)
  <2> SUFFICES ASSUME NEW i \in 2..L PROVE DOMAIN level[i] \subseteq DOMAIN level[i - 1]
    BY DEF Nested
  <2>1. i \in 1..L /\ i - 1 \in 1..L OBVIOUS
  <2>2. DOMAIN sl.links[i] \subseteq DOMAIN sl.links[i - 1] BY <1>3 DEF Nested
  <2> QED BY <1>5, <2>1, <2>2
<1>7. PICK used : used = {i \in 1..L : level[i][Header].next # None} OBVIOUS
<1>8. PICK K : K = Max({1} \cup used) OBVIOUS
<1>9. K \in {1} \cup used /\ K \in 1..L
  <2>1. {1} \cup used \in SUBSET (0..L) /\ {1} \cup used # {} BY <1>7
  <2>2. K \in {1} \cup used BY <1>8, <2>1, MaxIsLargest
  <2> QED BY <1>7, <2>2
<1>10. PICK links : links = DeleteNode(sl, p, left).links OBVIOUS
<1>11. links = [i \in 1..K |-> level[i]]
  <2>1. used = {i \in 1..L : (IF sl.links[i][left[i].node].next = p
                               THEN Unspliced(sl.links[i], left[i].node, p)
                               ELSE Shortened(sl.links[i], left[i].node))[Header].next # None}
    BY <1>4, <1>7
  <2>2. links = [i \in 1..K |-> IF sl.links[i][left[i].node].next = p
                                THEN Unspliced(sl.links[i], left[i].node, p)
                                ELSE Shortened(sl.links[i], left[i].node)]
    BY <1>2, <1>8, <1>10, <2>1, Zenon DEF DeleteNode, Shortened
  <2>3. DOMAIN links = 1..K BY <2>2
  <2>4. \A i \in 1..K : i \in 1..L BY <1>9
  <2>5. \A i \in 1..K : links[i] = level[i] BY <1>4, <2>2, <2>4
  <2> QED BY <2>2, <2>5
<1>12. \A i \in 1..K : i \in 1..L /\ links[i] = level[i] BY <1>9, <1>11
<1>13. DOMAIN links = 1..K /\ K \in Nat \ {0} BY <1>9, <1>11
<1>14. \A i \in 1..K : Chain(links[i], S) BY <1>5, <1>12
<1>15. DOMAIN links[1] = {Header} \cup S
  <2>1. 1 \in 1..K BY <1>13
  <2>2. DOMAIN links[1] = ({Header} \cup T) \ {p} BY <1>3, <1>5, <1>12, <2>1
  <2> QED BY <1>0, <2>2, NodesAreNodes
<1>16. Nested(links, K)
  <2> SUFFICES ASSUME NEW i \in 2..K PROVE DOMAIN links[i] \subseteq DOMAIN links[i - 1]
    BY DEF Nested
  <2>1. i \in 1..K /\ i - 1 \in 1..K /\ i \in 2..L BY <1>9
  <2> QED BY <1>6, <1>12, <2>1 DEF Nested
<1>17. ASSUME NEW i \in 2..K PROVE links[i][Header].next # None
  <2>1. K \in used /\ i \in 1..K BY <1>9
  <2>2. Chain(level[K], S) /\ level[K][Header].next # None BY <1>5, <1>7, <1>9, <2>1
  <2>3. DOMAIN level[K] # {Header} BY <1>0, <2>2, HeaderLeads
  <2>4. DOMAIN level[K] \subseteq DOMAIN level[i] BY <1>6, <1>9, <2>1, LowerLevels
  <2>5. Header \in DOMAIN level[K] BY <2>2 DEF Chain
  <2>6. DOMAIN level[i] # {Header} BY <2>3, <2>4, <2>5
  <2>7. Chain(level[i], S) BY <1>5, <1>12, <2>1
  <2> QED BY <1>0, <1>12, <2>1, <2>6, <2>7, HeaderLeads
<1>18. Levelled(links, S) BY <1>0, <1>13, <1>14, <1>15, <1>16, <1>17, LevelsSound
<1> QED BY <1>10, <1>18

(***************************************************************************)
(* The way back, when p, which n follows, is taken out.                    *)
(***************************************************************************)
LEMMA DeletedBack ==
    ASSUME NEW S, PairSet(S), NEW p \in Node \ S, NEW T, T = S \cup {p},
           NEW sl, Backwards(sl, T), NEW n,
           IF n = None THEN PlaceIn(T, p) = Cardinality(T)
           ELSE n \in T /\ PlaceIn(T, n) = PlaceIn(T, p) + 1,
           NEW new, new.tail = IF n = None THEN sl.back[p] ELSE sl.tail,
           new.back = [x \in DOMAIN sl.back \ {p} |->
                          IF x = n THEN sl.back[p] ELSE sl.back[x]]
    PROVE  Backwards(new, S)
<1>1. PICK h : h = PlaceIn(T, p) OBVIOUS
<1>2. /\ PairSet(T) /\ Cardinality(S) \in Nat /\ Cardinality(T) = Cardinality(S) + 1
      /\ PlaceIn(S, None) = Cardinality(S)
      /\ h \in Nat \ {0} /\ h <= Cardinality(T)
      /\ \A y \in S :
            /\ PlaceIn(S, y) \in Nat /\ PlaceIn(S, y) <= Cardinality(S) /\ PlaceIn(S, y) > 0
            /\ PlaceIn(S, y) < h => PlaceIn(T, y) = PlaceIn(S, y)
            /\ ~(PlaceIn(S, y) < h) => PlaceIn(T, y) = PlaceIn(S, y) + 1
  BY <1>1, PlacesShift, PlaceValues
<1>3. DOMAIN sl.back = T /\ DOMAIN new.back = S BY DEF Backwards
<1>4. ASSUME NEW x \in T
      PROVE  IF PlaceIn(T, x) = 1 THEN sl.back[x] = None
             ELSE sl.back[x] \in T /\ PlaceIn(T, sl.back[x]) = PlaceIn(T, x) - 1
  BY DEF Backwards
\* The place without p, from the place with it.
<1>5. ASSUME NEW y \in S
      PROVE  /\ PlaceIn(T, y) \in Nat /\ PlaceIn(T, y) # h
             /\ PlaceIn(T, y) < h => PlaceIn(S, y) = PlaceIn(T, y)
             /\ h < PlaceIn(T, y) => PlaceIn(S, y) = PlaceIn(T, y) - 1
  <2>1. PlaceIn(S, y) \in Nat BY <1>2
  <2>2. PlaceIn(S, y) < h => PlaceIn(T, y) = PlaceIn(S, y) BY <1>2
  <2>3. ~(PlaceIn(S, y) < h) => PlaceIn(T, y) = PlaceIn(S, y) + 1 BY <1>2
  <2> QED BY <1>2, <2>1, <2>2, <2>3
\* What comes back from p.
<1>6. IF h = 1 THEN sl.back[p] = None
      ELSE sl.back[p] \in S /\ PlaceIn(S, sl.back[p]) = h - 1
  <2>1. CASE h = 1 BY <1>1, <1>4, <2>1
  <2>2. CASE h # 1
    <3>1. PICK b : b = sl.back[p] OBVIOUS
    <3>2. b \in T /\ PlaceIn(T, b) = h - 1 BY <1>1, <1>4, <2>2, <3>1
    <3>3. b # p BY <1>1, <1>2, <3>2
    <3>4. b \in S /\ PlaceIn(T, b) < h BY <1>2, <3>2, <3>3
    <3>5. PlaceIn(S, b) = h - 1 BY <1>5, <3>2, <3>4
    <3> QED BY <2>2, <3>1, <3>4, <3>5
  <2> QED BY <2>1, <2>2
<1>7. n = None => h = Cardinality(S) + 1 BY <1>1, <1>2
<1>8. n # None => n \in S /\ PlaceIn(T, n) = h + 1
  <2> SUFFICES ASSUME n # None PROVE n \in S /\ PlaceIn(T, n) = h + 1
    OBVIOUS
  <2>1. n \in T /\ PlaceIn(T, n) = h + 1 BY <1>1
  <2>2. n # p BY <1>1, <1>2, <2>1
  <2> QED BY <2>1, <2>2
<1>9. IF S = {} THEN new.tail = None
      ELSE new.tail \in S /\ PlaceIn(S, new.tail) = Cardinality(S)
  <2>1. S = {} <=> Cardinality(S) = 0 BY FS_EmptySet DEF PairSet
  <2>2. CASE n = None
    <3>1. h = 1 <=> S = {} BY <1>2, <1>7, <2>1, <2>2
    <3>2. h - 1 = Cardinality(S) BY <1>2, <1>7, <2>2
    <3> QED BY <1>6, <2>2, <3>1, <3>2
  <2>3. CASE n # None
    <3>1. S # {} /\ n \in T /\ new.tail = sl.tail BY <1>8, <2>3
    <3>2. PICK t : t = sl.tail OBVIOUS
    <3>3. t \in T /\ PlaceIn(T, t) = Cardinality(S) + 1 BY <1>2, <3>1, <3>2 DEF Backwards
    <3>4. PlaceIn(T, n) <= Cardinality(T) BY <1>2, <3>1, ChainPlaces
    <3>5. h < Cardinality(S) + 1 BY <1>2, <1>8, <2>3, <3>4
    <3>6. t # p BY <1>1, <1>2, <3>3, <3>5
    <3>7. t \in S BY <3>3, <3>6
    <3>8. PlaceIn(S, t) = Cardinality(S)
      <4>1. h < PlaceIn(T, t) BY <3>3, <3>5
      <4>2. PlaceIn(S, t) = PlaceIn(T, t) - 1 BY <1>5, <3>7, <4>1
      <4> QED BY <1>2, <3>3, <4>2
    <3> QED BY <3>1, <3>2, <3>7, <3>8
  <2> QED BY <2>2, <2>3
<1>10. ASSUME NEW x \in S
       PROVE  IF PlaceIn(S, x) = 1 THEN new.back[x] = None
              ELSE new.back[x] \in S /\ PlaceIn(S, new.back[x]) = PlaceIn(S, x) - 1
  <2>1. PICK u \in Nat : u = PlaceIn(T, x) BY <1>5
  <2>2. /\ u # h
        /\ u < h => PlaceIn(S, x) = u
        /\ h < u => PlaceIn(S, x) = u - 1
    BY <1>5, <2>1
  <2>3. CASE x = n
    <3>1. n # None
      <4>1. x \in Node BY DEF PairSet
      <4> QED BY <2>3, <4>1, NodesAreNodes
    <3>2. u = h + 1 BY <1>8, <2>1, <2>3, <3>1
    <3>3. PlaceIn(S, x) = h BY <1>2, <2>2, <3>2
    <3>4. new.back[x] = sl.back[p] BY <1>3, <2>3
    <3> QED BY <1>6, <3>3, <3>4
  <2>4. CASE x # n
    <3>1. new.back[x] = sl.back[x] BY <1>3, <2>4
    <3>2. u # h + 1
      <4>1. CASE n = None
        <5>1. u <= Cardinality(T) BY <1>2, <2>1, ChainPlaces
        <5> QED BY <1>2, <1>7, <4>1, <5>1
      <4>2. CASE n # None
        <5>1. n \in T /\ x \in T /\ PlaceIn(T, n) = h + 1 BY <1>8, <4>2
        <5> QED BY <1>2, <2>1, <2>4, <5>1, PlacesDiffer
      <4> QED BY <4>1, <4>2
    <3>3. CASE u = 1
      <4>1. PlaceIn(S, x) = 1 BY <1>2, <2>2, <3>3
      <4>2. sl.back[x] = None BY <1>4, <2>1, <3>3
      <4> QED BY <3>1, <4>1, <4>2
    <3>4. CASE u # 1
      <4>1. PICK b : b = sl.back[x] OBVIOUS
      <4>2. b \in T /\ PlaceIn(T, b) = u - 1 BY <1>4, <2>1, <3>4, <4>1
      <4>3. b # p BY <1>1, <1>2, <3>2, <4>2
      <4>4. b \in S BY <4>2, <4>3
      <4>5. CASE u < h
        <5>1. PlaceIn(S, x) = u /\ PlaceIn(T, b) < h BY <1>2, <2>2, <4>2, <4>5
        <5>2. PlaceIn(S, b) = u - 1 BY <1>5, <4>2, <4>4, <5>1
        <5> QED BY <3>1, <3>4, <4>1, <4>4, <5>1, <5>2
      <4>6. CASE ~(u < h)
        <5>1. h < u BY <1>2, <2>2, <4>6
        <5>2. h < u - 1 BY <1>2, <3>2, <5>1
        <5>3. PlaceIn(S, b) = (u - 1) - 1 BY <1>5, <4>2, <4>4, <5>2
        <5>4. PlaceIn(S, x) = u - 1 /\ u - 1 # 1 BY <1>2, <2>2, <5>1, <5>2
        <5> QED BY <3>1, <4>1, <4>4, <5>3, <5>4
      <4> QED BY <4>5, <4>6
    <3> QED BY <3>3, <3>4
  <2> QED BY <2>3, <2>4
<1> QED BY <1>3, <1>9, <1>10 DEF Backwards

\* delete takes its pair from those a skip list holds.
LEMMA DeleteHolds ==
    ASSUME NEW T, PairSet(T), NEW sl, HoldsPairs(sl, T),
           NEW score \in Int, NEW member \in Nat, NEW p, p = <<score, member>>, p \in T
    PROVE  HoldsPairs(DeletePair(sl, score, member), T \ {p})
<1>1. PICK S : S = T \ {p} OBVIOUS
<1>2. T = S \cup {p} /\ p \in Node \ S /\ PairSet(S)
  <2>1. p \in Node BY DEF Node
  <2>2. IsFiniteSet(S) BY <1>1, FS_RemoveElement DEF PairSet
  <2> QED BY <1>1, <2>1, <2>2 DEF PairSet
<1>3. PICK left : left = Descend(sl, NodesBefore(sl, score, member), Nat) OBVIOUS
<1>4. LeftBefore(sl, T, p, left) BY <1>3, DescendToPlace DEF LeftBefore
<1>5. PICK first, z, n : first = sl.links[1] /\ z = left[1].node /\ n = first[p].next OBVIOUS
<1>6. Chain(first, T) /\ DOMAIN first = {Header} \cup T /\ 1 \in 1..Level(sl)
  <2>1. Level(sl) \in Nat \ {0} /\ Chains(sl.links, T) /\ DOMAIN first = {Header} \cup T
    BY <1>5, SoundLevels
  <2>2. 1 \in 1..Level(sl) BY <2>1
  <2> QED BY <1>5, <2>1, <2>2 DEF Chains, Level
<1>7. first[z].next = p
  <2>1. Ends(T, first, Earlier(T, p), z) BY <1>4, <1>5, <1>6 DEF LeftBefore
  <2>2. PICK D, h, m : D = DOMAIN first /\ h = PlaceIn(T, p) /\ m = first[p].next OBVIOUS
  <2>3. p \in D BY <1>6, <2>2
  <2> QED BY <1>2, <1>6, <2>1, <2>2, <2>3, LastLinkAfter
<1>8. PICK new : new = DeleteNode(sl, p, left) OBVIOUS
<1>9. DeletePair(sl, score, member) = new BY <1>3, <1>5, <1>7, <1>8, Zenon DEF DeletePair
<1>10. Levelled(new.links, S)
  <2>1. With(S, p, T) BY <1>2 DEF With
  <2> QED BY <1>4, <1>8, <2>1, DeletedLevels
<1>11. IF n = None THEN PlaceIn(T, p) = Cardinality(T)
       ELSE n \in T /\ PlaceIn(T, n) = PlaceIn(T, p) + 1
  <2>1. p \in DOMAIN first BY <1>6
  <2>2. n = first[p].next BY <1>5
  <2>3. Chain(first, T) /\ DOMAIN first = {Header} \cup T BY <1>6
  <2> QED BY <2>1, <2>2, <2>3, NextPlace
<1>12. /\ new.back = [x \in DOMAIN sl.back \ {p} |->
                         IF x = n THEN sl.back[p] ELSE sl.back[x]]
       /\ new.tail = IF n = None THEN sl.back[p] ELSE sl.tail
       /\ new.length = sl.length - 1
  BY <1>5, <1>8, Zenon DEF DeleteNode
<1>13. Backwards(sl, T) /\ sl.length = Cardinality(T) BY DEF HoldsPairs
<1>14. Backwards(new, S) BY <1>2, <1>11, <1>12, <1>13, DeletedBack
<1>15. new.length = Cardinality(S)
  <2>1. Cardinality(T) = Cardinality(S) + 1 BY <1>2, PlacesShift
  <2>2. Cardinality(S) \in Nat BY <1>2, PlaceValues
  <2> QED BY <1>12, <1>13, <2>1, <2>2
<1> QED BY <1>1, <1>9, <1>10, <1>14, <1>15 DEF HoldsPairs
-----------------------------------------------------------------------------
(***************************************************************************)
(* A sorted set: its skip list holds the pairs of its dictionary.          *)
(***************************************************************************)
Scores(dict) ==
    /\ IsFiniteSet(DOMAIN dict) /\ DOMAIN dict \subseteq Nat
    /\ \A m \in DOMAIN dict : dict[m] \in Int

SortedSet(z) ==
    /\ DOMAIN z = {"dict", "sl"}
    /\ Scores(z.dict)
    /\ HoldsPairs(z.sl, Pairs(z.dict))

\* The pairs of a dictionary.
LEMMA PairsAreNodes ==
    ASSUME NEW dict, Scores(dict)
    PROVE  PairSet(Pairs(dict))
<1> DEFINE f == [m \in DOMAIN dict |-> <<dict[m], m>>]
<1>1. f \in Surjection(DOMAIN dict, Pairs(dict))
  <2>1. \A m \in DOMAIN dict : f[m] \in Pairs(dict) BY DEF Pairs
  <2>2. \A y \in Pairs(dict) : \E m \in DOMAIN dict : f[m] = y BY DEF Pairs
  <2>3. f \in [DOMAIN dict -> Pairs(dict)] BY <2>1
  <2> HIDE DEF f
  <2> QED BY <2>2, <2>3 DEF Surjection
<1>2. IsFiniteSet(Pairs(dict)) BY <1>1, FS_Surjection DEF Scores
<1>3. Pairs(dict) \subseteq Node BY DEF Pairs, Scores, Node
<1> QED BY <1>2, <1>3 DEF PairSet

\* The pairs of the other members.
Others(dict, member) == {y \in Pairs(dict) : y[2] # member}

\* The pairs but that of one member.
LEMMA OtherPairs ==
    ASSUME NEW dict, Scores(dict), NEW member \in Nat
    PROVE  /\ PairSet(Others(dict, member))
           /\ \A score : <<score, member>> \notin Others(dict, member)
           /\ member \notin DOMAIN dict => Others(dict, member) = Pairs(dict)
           /\ member \in DOMAIN dict =>
                 /\ <<dict[member], member>> \in Pairs(dict)
                 /\ Others(dict, member) = Pairs(dict) \ {<<dict[member], member>>}
<1>1. PairSet(Pairs(dict)) BY PairsAreNodes
<1>2. PairSet(Others(dict, member)) BY <1>1, FS_Subset DEF PairSet, Others
<1>3. \A score : <<score, member>> \notin Others(dict, member) BY DEF Others
<1>4. member \notin DOMAIN dict => Others(dict, member) = Pairs(dict) BY DEF Others, Pairs
<1>5. ASSUME member \in DOMAIN dict
      PROVE  /\ <<dict[member], member>> \in Pairs(dict)
             /\ Others(dict, member) = Pairs(dict) \ {<<dict[member], member>>}
  <2>1. <<dict[member], member>> \in Pairs(dict) BY <1>5 DEF Pairs
  <2>2. ASSUME NEW y \in Pairs(dict) PROVE y[2] # member <=> y # <<dict[member], member>>
    <3>1. PICK m \in DOMAIN dict : y = <<dict[m], m>> BY DEF Pairs
    <3> QED BY <3>1
  <2> QED BY <2>1, <2>2 DEF Others
<1> QED BY <1>2, <1>3, <1>4, <1>5

\* A score is stored when the skip list has no pair of its member.
LEMMA PlacedHolds ==
    ASSUME NEW z, Scores(z.dict), NEW score \in Int, NEW member \in Nat, NEW lvl \in Nat \ {0},
           HoldsPairs(z.sl, Others(z.dict, member))
    PROVE  SortedSet(Placed(z, score, member, lvl))
<1>1. PICK S : S = Others(z.dict, member) OBVIOUS
<1>2. PICK p : p = <<score, member>> OBVIOUS
<1>3. PICK dict : dict = [m \in DOMAIN z.dict \cup {member} |->
                             IF m = member THEN score ELSE z.dict[m]]
  OBVIOUS
<1>4. PICK sl : sl = Insert(z.sl, score, member, lvl) OBVIOUS
<1>5. Placed(z, score, member, lvl) = [dict |-> dict, sl |-> sl]
  BY <1>3, <1>4, Zenon DEF Placed
<1>6. PairSet(S) /\ p \notin S BY <1>1, <1>2, OtherPairs
<1>7. HoldsPairs(sl, S \cup {p}) BY <1>1, <1>2, <1>4, <1>6, InsertHolds
<1>8. Scores(dict)
  <2>1. IsFiniteSet(DOMAIN dict) BY <1>3, FS_AddElement DEF Scores
  <2> QED BY <1>3, <2>1 DEF Scores
<1>9. Pairs(dict) = S \cup {p}
  <2>1. ASSUME NEW y \in Pairs(dict) PROVE y \in S \cup {p}
    <3>1. PICK m \in DOMAIN dict : y = <<dict[m], m>> BY DEF Pairs
    <3>2. CASE m = member BY <1>2, <1>3, <3>1, <3>2
    <3>3. CASE m # member
      <4>1. m \in DOMAIN z.dict /\ y = <<z.dict[m], m>> BY <1>3, <3>1, <3>3
      <4>2. y \in Pairs(z.dict) /\ y[2] = m BY <4>1 DEF Pairs
      <4> QED BY <1>1, <3>3, <4>2 DEF Others
    <3> QED BY <3>2, <3>3
  <2>2. p \in Pairs(dict) BY <1>2, <1>3 DEF Pairs
  <2>3. ASSUME NEW y \in S PROVE y \in Pairs(dict)
    <3>1. y \in Pairs(z.dict) /\ y[2] # member BY <1>1 DEF Others
    <3>2. PICK m \in DOMAIN z.dict : y = <<z.dict[m], m>> BY <3>1 DEF Pairs
    <3>3. m # member BY <3>1, <3>2
    <3>4. m \in DOMAIN dict /\ dict[m] = z.dict[m] BY <1>3, <3>3
    <3> QED BY <3>2, <3>4 DEF Pairs
  <2> QED BY <2>1, <2>2, <2>3
<1>10. HoldsPairs(sl, Pairs(dict)) BY <1>7, <1>9
<1> QED BY <1>5, <1>8, <1>10 DEF SortedSet

\* The skip list has the pair of a member, and deletes it.
LEMMA OldPairDeleted ==
    ASSUME NEW z, SortedSet(z), NEW member \in DOMAIN z.dict
    PROVE  HoldsPairs(DeletePair(z.sl, z.dict[member], member), Others(z.dict, member))
<1>1. Scores(z.dict) /\ HoldsPairs(z.sl, Pairs(z.dict)) /\ PairSet(Pairs(z.dict))
  BY PairsAreNodes DEF SortedSet
<1>2. member \in Nat /\ z.dict[member] \in Int BY <1>1 DEF Scores
<1>3. PICK p : p = <<z.dict[member], member>> OBVIOUS
<1>4. p \in Pairs(z.dict) /\ Others(z.dict, member) = Pairs(z.dict) \ {p}
  BY <1>1, <1>2, <1>3, OtherPairs
<1> QED BY <1>1, <1>2, <1>3, <1>4, DeleteHolds

NewPair(new) == new.score \in Int /\ new.member \in Nat /\ new.level \in Nat \ {0}

\* The old pair goes, the new one comes.
LEMMA ReplacedHolds ==
    ASSUME NEW z, SortedSet(z), NEW score \in Int, NEW member \in DOMAIN z.dict,
           NEW lvl \in Nat \ {0}
    PROVE  SortedSet(Placed([z EXCEPT !.sl = DeletePair(z.sl, z.dict[member], member)],
                            score, member, lvl))
<1>1. PICK old : old = [z EXCEPT !.sl = DeletePair(z.sl, z.dict[member], member)] OBVIOUS
<1>2. old.dict = z.dict /\ old.sl = DeletePair(z.sl, z.dict[member], member)
  BY <1>1 DEF SortedSet
<1>3. Scores(z.dict) /\ member \in Nat BY DEF SortedSet, Scores
<1>4. HoldsPairs(old.sl, Others(old.dict, member)) BY <1>2, OldPairDeleted
<1>5. SortedSet(Placed(old, score, member, lvl)) BY <1>2, <1>3, <1>4, PlacedHolds
<1> QED BY <1>1, <1>5

\* A member is new.
LEMMA AddedHolds ==
    ASSUME NEW z, SortedSet(z), NEW score \in Int, NEW member \in Nat \ DOMAIN z.dict,
           NEW lvl \in Nat \ {0}
    PROVE  SortedSet(Placed(z, score, member, lvl))
<1>1. Scores(z.dict) /\ HoldsPairs(z.sl, Pairs(z.dict)) BY DEF SortedSet
<1>2. Others(z.dict, member) = Pairs(z.dict) BY <1>1, OtherPairs
<1> QED BY <1>1, <1>2, PlacedHolds

\* One turn of the loop of zadd.
LEMMA ZAddOneHolds ==
    ASSUME NEW z, SortedSet(z), NEW new, NewPair(new), NEW nx, NEW xx
    PROVE  SortedSet(ZAddOne(z, new, nx, xx))
<1>1. new.score \in Int /\ new.member \in Nat /\ new.level \in Nat \ {0} BY DEF NewPair
<1>2. CASE new.member \notin DOMAIN z.dict
  <2>1. SortedSet(Placed(z, new.score, new.member, new.level)) BY <1>1, <1>2, AddedHolds
  <2> QED BY <1>2, <2>1 DEF ZAddOne
<1>3. CASE new.member \in DOMAIN z.dict
  <2>1. SortedSet(Placed([z EXCEPT !.sl = DeletePair(z.sl, z.dict[new.member], new.member)],
                         new.score, new.member, new.level))
    BY <1>1, <1>3, ReplacedHolds
  <2> QED BY <1>3, <2>1 DEF ZAddOne
<1> QED BY <1>2, <1>3

\* zincrby, for a member that exists or not.
LEMMA ZIncrByHolds ==
    ASSUME NEW z, SortedSet(z), NEW delta \in Int, NEW member \in Nat, NEW lvl \in Nat \ {0}
    PROVE  SortedSet(ZIncrBy(z, delta, member, lvl))
<1>1. CASE member \in DOMAIN z.dict
  <2>1. z.dict[member] + delta \in Int BY <1>1 DEF SortedSet, Scores
  <2>2. SortedSet(Placed([z EXCEPT !.sl = DeletePair(z.sl, z.dict[member], member)],
                         z.dict[member] + delta, member, lvl))
    BY <1>1, <2>1, ReplacedHolds
  <2>3. ZIncrBy(z, delta, member, lvl) =
            Placed([z EXCEPT !.sl = DeletePair(z.sl, z.dict[member], member)],
                   z.dict[member] + delta, member, lvl)
    BY <1>1 DEF ZIncrBy
  <2> QED BY <2>2, <2>3
<1>2. CASE member \notin DOMAIN z.dict
  <2>1. PICK old : old = [z EXCEPT !.sl = z.sl] OBVIOUS
  <2>2. old.dict = z.dict /\ old.sl = z.sl BY <2>1 DEF SortedSet
  <2>3. ZIncrBy(z, delta, member, lvl) = Placed(old, 0 + delta, member, lvl)
    BY <1>2, <2>1 DEF ZIncrBy
  <2>4. Scores(z.dict) /\ HoldsPairs(z.sl, Pairs(z.dict)) BY DEF SortedSet
  <2>5. Others(old.dict, member) = Pairs(z.dict) BY <1>2, <2>2, <2>4, OtherPairs
  <2>6. 0 + delta \in Int OBVIOUS
  <2> QED BY <2>2, <2>3, <2>4, <2>5, <2>6, PlacedHolds
<1> QED BY <1>1, <1>2

\* One turn of the loop of zrem.
LEMMA ZRemOneHolds ==
    ASSUME NEW z, SortedSet(z), NEW member
    PROVE  SortedSet(ZRemOne(z, member))
<1>1. CASE member \notin DOMAIN z.dict BY <1>1 DEF ZRemOne
<1>2. CASE member \in DOMAIN z.dict
  <2>1. PICK dict : dict = Restrict(z.dict, DOMAIN z.dict \ {member}) OBVIOUS
  <2>2. /\ DOMAIN dict = DOMAIN z.dict \ {member}
        /\ \A m \in DOMAIN dict : dict[m] = z.dict[m]
    BY <2>1 DEF Restrict
  <2>3. PICK sl : sl = DeletePair(z.sl, z.dict[member], member) OBVIOUS
  <2>4. ZRemOne(z, member) = [dict |-> dict, sl |-> sl] BY <1>2, <2>1, <2>3, Zenon DEF ZRemOne
  <2>5. Scores(z.dict) BY DEF SortedSet
  <2>6. Scores(dict)
    <3>1. IsFiniteSet(DOMAIN dict) BY <2>2, <2>5, FS_RemoveElement DEF Scores
    <3> QED BY <2>2, <2>5, <3>1 DEF Scores
  <2>7. Pairs(dict) = Others(z.dict, member)
    <3>1. ASSUME NEW y \in Pairs(dict) PROVE y \in Others(z.dict, member)
      <4>1. PICK m \in DOMAIN dict : y = <<dict[m], m>> BY DEF Pairs
      <4>2. m \in DOMAIN z.dict /\ m # member /\ y = <<z.dict[m], m>> BY <2>2, <4>1
      <4>3. y \in Pairs(z.dict) /\ y[2] = m BY <4>2 DEF Pairs
      <4> QED BY <4>2, <4>3 DEF Others
    <3>2. ASSUME NEW y \in Others(z.dict, member) PROVE y \in Pairs(dict)
      <4>1. y \in Pairs(z.dict) /\ y[2] # member BY DEF Others
      <4>2. PICK m \in DOMAIN z.dict : y = <<z.dict[m], m>> BY <4>1 DEF Pairs
      <4>3. m # member BY <4>1, <4>2
      <4>4. m \in DOMAIN dict /\ y = <<dict[m], m>> BY <2>2, <4>2, <4>3
      <4> QED BY <4>4 DEF Pairs
    <3> QED BY <3>1, <3>2
  <2>8. HoldsPairs(sl, Pairs(dict)) BY <1>2, <2>3, <2>7, OldPairDeleted
  <2> QED BY <2>4, <2>6, <2>8 DEF SortedSet
<1> QED BY <1>1, <1>2

\* The sorted set of a new key.
LEMMA EmptyHolds == SortedSet(EmptySortedSet)
<1>1. PICK dict : dict = EmptySortedSet.dict OBVIOUS
<1>2. PICK sl : sl = EmptySkipList OBVIOUS
<1>3. DOMAIN dict = {} BY <1>1 DEF EmptySortedSet
<1>4. Scores(dict) /\ Pairs(dict) = {} BY <1>3, FS_EmptySet DEF Scores, Pairs
<1>5. PairSet({}) BY FS_EmptySet DEF PairSet
<1>6. PICK level : level = Unlinked(0) OBVIOUS
<1>7. DOMAIN level = {Header} /\ level[Header].next = None /\ level[Header].span = 0
  BY <1>6 DEF Unlinked
<1>8. PlaceIn({}, Header) = 0 /\ PlaceIn({}, None) = 0 /\ Cardinality({}) = 0
  BY <1>5, PlaceValues, FS_EmptySet
<1>9. Joins({Header}, {}, Header, None, 0) BY <1>8 DEF Joins
<1>10. Chain(level, {}) BY <1>5, <1>7, <1>9, JoinsChain
<1>11. sl.links = <<level>> /\ sl.tail = None /\ sl.length = 0 /\ DOMAIN sl.back = {}
  BY <1>2, <1>6 DEF EmptySkipList
<1>12. PICK links : links = sl.links OBVIOUS
<1>13. DOMAIN links = 1..1 /\ links[1] = level BY <1>11, <1>12
<1>14. Levelled(links, {})
  <2>1. \A i \in 1..1 : Chain(links[i], {}) BY <1>10, <1>13
  <2>2. Nested(links, 1) BY DEF Nested
  <2>3. PICK S : S = {} OBVIOUS
  <2>4. DOMAIN links[1] = {Header} \cup S BY <1>7, <1>13, <2>3
  <2>5. \A i \in 2..1 : links[i][Header].next # None OBVIOUS
  <2>6. PICK L \in Nat \ {0} : L = 1 OBVIOUS
  <2>7. Levelled(links, S) BY <1>5, <1>13, <2>1, <2>2, <2>3, <2>4, <2>5, <2>6, LevelsSound
  <2> QED BY <2>3, <2>7
<1>15. Backwards(sl, {}) BY <1>11 DEF Backwards
<1>16. HoldsPairs(sl, {}) BY <1>8, <1>11, <1>12, <1>14, <1>15 DEF HoldsPairs
<1>17. DOMAIN EmptySortedSet = {"dict", "sl"} /\ EmptySortedSet.sl = sl
  BY <1>2 DEF EmptySortedSet
<1> QED BY <1>1, <1>4, <1>16, <1>17 DEF SortedSet

\* The sorted sets that the turns of a loop leave, one after the other.
Adding(added, z, pairs, nx, xx, n) ==
    added = [i \in 0..n |-> IF i = 0 THEN z ELSE ZAddOne(added[i - 1], pairs[i], nx, xx)]

Removing(left, z, members, n) ==
    left = [i \in 0..n |-> IF i = 0 THEN z ELSE ZRemOne(left[i - 1], members[i])]

\* The sets that zadd leaves, turn by turn, exist,
LEMMA AddingExists ==
    ASSUME NEW z, NEW pairs, NEW nx, NEW xx, NEW n \in Nat
    PROVE  \E added : Adding(added, z, pairs, nx, xx, n)
<1> DEFINE S == {m \in Nat : \E added : Adding(added, z, pairs, nx, xx, m)}
<1>1. 0 \in S
  <2> DEFINE f == [i \in 0..0 |-> z]
  <2>1. Adding(f, z, pairs, nx, xx, 0) BY DEF Adding
  <2> QED BY <2>1
<1>2. ASSUME NEW m \in Nat, m \in S PROVE m + 1 \in S
  <2>1. PICK f : Adding(f, z, pairs, nx, xx, m) BY <1>2
  <2> DEFINE g == [i \in 0..(m + 1) |-> IF i <= m THEN f[i] ELSE ZAddOne(f[m], pairs[m + 1], nx, xx)]
  <2>2. ASSUME NEW i \in 0..(m + 1)
        PROVE  g[i] = IF i = 0 THEN z ELSE ZAddOne(g[i - 1], pairs[i], nx, xx)
    <3>1. CASE i <= m
      <4>1. f[i] = IF i = 0 THEN z ELSE ZAddOne(f[i - 1], pairs[i], nx, xx)
        BY <2>1, <3>1 DEF Adding
      <4>2. i # 0 => g[i - 1] = f[i - 1] BY <3>1
      <4> QED BY <3>1, <4>1, <4>2
    <3>2. CASE i = m + 1 BY <3>2
    <3> QED BY <3>1, <3>2
  <2>3. Adding(g, z, pairs, nx, xx, m + 1) BY <2>2 DEF Adding
  <2> QED BY <2>3
<1> HIDE DEF S
<1>3. n \in S BY <1>1, <1>2, NatSetInduction
<1> QED BY <1>3 DEF S

\* and so do those that zrem leaves.
LEMMA RemovingExists ==
    ASSUME NEW z, NEW members, NEW n \in Nat
    PROVE  \E left : Removing(left, z, members, n)
<1> DEFINE S == {m \in Nat : \E left : Removing(left, z, members, m)}
<1>1. 0 \in S
  <2> DEFINE f == [i \in 0..0 |-> z]
  <2>1. Removing(f, z, members, 0) BY DEF Removing
  <2> QED BY <2>1
<1>2. ASSUME NEW m \in Nat, m \in S PROVE m + 1 \in S
  <2>1. PICK f : Removing(f, z, members, m) BY <1>2
  <2> DEFINE g == [i \in 0..(m + 1) |-> IF i <= m THEN f[i] ELSE ZRemOne(f[m], members[m + 1])]
  <2>2. ASSUME NEW i \in 0..(m + 1)
        PROVE  g[i] = IF i = 0 THEN z ELSE ZRemOne(g[i - 1], members[i])
    <3>1. CASE i <= m
      <4>1. f[i] = IF i = 0 THEN z ELSE ZRemOne(f[i - 1], members[i])
        BY <2>1, <3>1 DEF Removing
      <4>2. i # 0 => g[i - 1] = f[i - 1] BY <3>1
      <4> QED BY <3>1, <4>1, <4>2
    <3>2. CASE i = m + 1 BY <3>2
    <3> QED BY <3>1, <3>2
  <2>3. Removing(g, z, members, m + 1) BY <2>2 DEF Removing
  <2> QED BY <2>3
<1> HIDE DEF S
<1>3. n \in S BY <1>1, <1>2, NatSetInduction
<1> QED BY <1>3 DEF S

\* zadd, for any number of pairs, each with the level its node drew.
LEMMA ZAddHolds ==
    ASSUME NEW z, NEW pairs, NEW nx, NEW xx, SortedSet(z), Len(pairs) \in Nat,
           \A i \in 1..Len(pairs) : NewPair(pairs[i])
    PROVE  SortedSet(ZAdd(z, pairs, nx, xx))
<1>1. PICK n \in Nat : n = Len(pairs)
  OBVIOUS
<1> DEFINE added == CHOOSE f : Adding(f, z, pairs, nx, xx, Len(pairs))
<1>2. Adding(added, z, pairs, nx, xx, Len(pairs))
  BY AddingExists, Zenon
<1>3. ZAdd(z, pairs, nx, xx) = added[Len(pairs)]
  BY Zenon DEF ZAdd, Adding
<1> HIDE DEF added
<1> DEFINE S == {i \in Nat : i <= n => SortedSet(added[i])}
<1>4. 0 \in S
  BY <1>1, <1>2 DEF Adding
<1>5. ASSUME NEW i \in Nat, i \in S PROVE i + 1 \in S
  <2> SUFFICES ASSUME i + 1 <= n PROVE SortedSet(added[i + 1])
    OBVIOUS
  <2>1. i + 1 \in 0..n /\ i + 1 # 0 /\ (i + 1) - 1 = i /\ SortedSet(added[i])
    BY <1>5
  <2>2. added[i + 1] = ZAddOne(added[i], pairs[i + 1], nx, xx)
    BY <1>1, <1>2, <2>1 DEF Adding
  <2>3. i + 1 \in 1..Len(pairs) BY <1>1, <2>1
  <2>4. NewPair(pairs[i + 1]) BY <2>3
  <2> QED BY <2>1, <2>2, <2>4, ZAddOneHolds
<1> HIDE DEF S
<1>6. n \in S
  BY <1>4, <1>5, NatSetInduction
<1> QED BY <1>1, <1>3, <1>6 DEF S

\* zrem, for any number of members.
LEMMA ZRemHolds ==
    ASSUME NEW z, NEW members, SortedSet(z), Len(members) \in Nat
    PROVE  SortedSet(ZRem(z, members))
<1>1. PICK n \in Nat : n = Len(members)
  OBVIOUS
<1> DEFINE left == CHOOSE f : Removing(f, z, members, Len(members))
<1>2. Removing(left, z, members, Len(members))
  BY RemovingExists, Zenon
<1>3. ZRem(z, members) = left[Len(members)]
  BY Zenon DEF ZRem, Removing
<1> HIDE DEF left
<1> DEFINE S == {i \in Nat : i <= n => SortedSet(left[i])}
<1>4. 0 \in S
  BY <1>1, <1>2 DEF Removing
<1>5. ASSUME NEW i \in Nat, i \in S PROVE i + 1 \in S
  <2> SUFFICES ASSUME i + 1 <= n PROVE SortedSet(left[i + 1])
    OBVIOUS
  <2>1. i + 1 \in 0..n /\ i + 1 # 0 /\ (i + 1) - 1 = i /\ SortedSet(left[i])
    BY <1>5
  <2>2. left[i + 1] = ZRemOne(left[i], members[i + 1])
    BY <1>1, <1>2, <2>1 DEF Removing
  <2> QED BY <2>1, <2>2, ZRemOneHolds
<1> HIDE DEF S
<1>6. n \in S
  BY <1>4, <1>5, NatSetInduction
<1> QED BY <1>1, <1>3, <1>6 DEF S
-----------------------------------------------------------------------------
(***************************************************************************)
(* The pairs in order.                                                     *)
(***************************************************************************)
\* As many places as pairs: every place is taken.
LEMMA PlacesAreTaken ==
    ASSUME NEW S, PairSet(S), NEW n \in Nat, n = Cardinality(S), NEW i \in 1..n
    PROVE  \E p \in S : PlaceIn(S, p) = i
<1> DEFINE f == [p \in S |-> PlaceIn(S, p)]
<1>1. \A p \in S : PlaceIn(S, p) \in 1..n
  <2>1. ASSUME NEW p \in S PROVE PlaceIn(S, p) \in 1..n
    <3>1. PlaceIn(S, p) \in Nat /\ PlaceIn(S, p) <= Cardinality(S) BY ChainPlaces
    <3>2. PlaceIn(S, p) > 0 BY PlaceValues
    <3> QED BY <3>1, <3>2
  <2> QED BY <2>1
<1>2. \A p, q \in S : PlaceIn(S, p) = PlaceIn(S, q) => p = q BY PlacesDiffer
<1>3. f \in Injection(S, 1..n)
  <2>1. f \in [S -> 1..n] BY <1>1
  <2>2. \A p, q \in S : f[p] = f[q] => p = q BY <1>2
  <2> HIDE DEF f
  <2> QED BY <2>1, <2>2 DEF Injection, IsInjective
<1>4. IsFiniteSet(1..n) /\ Cardinality(1..n) = n BY FS_Interval
<1>5. f \in Surjection(S, 1..n) BY <1>3, <1>4, FS_Injection
<1>6. PICK p \in S : f[p] = i BY <1>5 DEF Surjection
<1> QED BY <1>6

LEMMA InOrderIs ==
    ASSUME NEW S, PairSet(S), NEW n \in Nat, n = Cardinality(S),
           NEW order, order = InOrder(S)
    PROVE  /\ DOMAIN order = 1..n
           /\ \A i \in 1..n : order[i] \in S /\ PlaceIn(S, order[i]) = i
           /\ \A p \in S : PlaceIn(S, p) \in 1..n /\ order[PlaceIn(S, p)] = p
<1>1. DOMAIN order = 1..n BY DEF InOrder
<1>2. ASSUME NEW i \in 1..n PROVE order[i] \in S /\ PlaceIn(S, order[i]) = i
  <2>1. \E p \in S : PlaceIn(S, p) = i BY PlacesAreTaken
  <2>2. order[i] = CHOOSE p \in S : PlaceIn(S, p) = i BY DEF InOrder
  <2> QED BY <2>1, <2>2
<1>3. ASSUME NEW p \in S PROVE PlaceIn(S, p) \in 1..n /\ order[PlaceIn(S, p)] = p
  <2>1. PlaceIn(S, p) \in Nat /\ PlaceIn(S, p) <= Cardinality(S) BY ChainPlaces
  <2>2. PlaceIn(S, p) > 0 BY PlaceValues
  <2>3. PICK i \in 1..n : i = PlaceIn(S, p) BY <2>1, <2>2
  <2>4. order[i] \in S /\ PlaceIn(S, order[i]) = PlaceIn(S, p) BY <1>2, <2>3
  <2>5. order[i] = p BY <2>4, PlacesDiffer
  <2> QED BY <2>3, <2>5
<1> QED BY <1>1, <1>2, <1>3

-----------------------------------------------------------------------------
(***************************************************************************)
(* Where get_element_by_rank and get_rank end.                             *)
(***************************************************************************)
\* The descent ends on the lowest level, if no earlier, at the pair p that is
\* the last of those it passes.
LEMMA DescentHits ==
    ASSUME NEW S, PairSet(S), NEW sl, HoldsPairs(sl, S), NEW nodes \in SUBSET S, NEW ranks,
           NEW Q, Q = Passing(S, nodes, ranks), First(S, Q),
           NEW p \in Q, \A y \in Q : PlaceIn(S, y) <= PlaceIn(S, p),
           NEW left, left = Descend(sl, nodes, ranks)
    PROVE  /\ 1 \in 1..Level(sl) /\ left[1] = At(S, p)
           /\ \A i \in 1..Level(sl) : /\ left[i] = At(S, left[i].node)
                                      /\ left[i].node \in S \cup {Header}
<1>1. Level(sl) \in Nat \ {0} /\ Chains(sl.links, S) /\ DOMAIN sl.links[1] = {Header} \cup S
  BY SoundLevels
<1>2. ASSUME NEW i \in 1..Level(sl)
      PROVE  left[i] = At(S, left[i].node) /\ Ends(S, sl.links[i], Q, left[i].node)
  BY <1>1, DescendEnds
<1>3. Q \subseteq S BY DEF Passing
<1>4. \A i \in 1..Level(sl) : left[i].node \in S \cup {Header} BY <1>2, <1>3 DEF Ends
<1>5. 1 \in 1..Level(sl) BY <1>1
<1>6. PICK z : z = left[1].node OBVIOUS
<1>7. z \in Q \cup {Header} /\ \A y \in DOMAIN sl.links[1] \cap Q : PlaceIn(S, y) <= PlaceIn(S, z)
  BY <1>2, <1>5, <1>6 DEF Ends
<1>8. PlaceIn(S, p) <= PlaceIn(S, z) BY <1>1, <1>3, <1>7
<1>9. PlaceIn(S, Header) = 0 /\ PlaceIn(S, p) > 0 /\ PlaceIn(S, p) \in Nat
  BY <1>3, PlaceValues, ChainPlaces
<1>10. z \in Q
  <2>1. CASE z = Header BY <1>8, <1>9, <2>1
  <2> QED BY <1>7, <2>1
<1>11. PlaceIn(S, z) <= PlaceIn(S, p) /\ PlaceIn(S, z) \in Nat BY <1>3, <1>10, ChainPlaces
<1>12. z = p
  <2>1. PlaceIn(S, z) = PlaceIn(S, p) BY <1>8, <1>9, <1>11
  <2> QED BY <1>3, <1>10, <2>1, PlacesDiffer
<1> QED BY <1>2, <1>4, <1>5, <1>6, <1>12

LEMMA ElementAtRank ==
    ASSUME NEW S, PairSet(S), NEW sl, HoldsPairs(sl, S), NEW p \in S,
           NEW rank \in Nat, rank = PlaceIn(S, p)
    PROVE  GetElementByRank(sl, rank) = p
<1>0. PICK ranks : ranks = 0..rank OBVIOUS
<1>1. PICK left : left = Descend(sl, S, ranks) OBVIOUS
<1>2. Nodes(sl) = S /\ Level(sl) \in Nat \ {0} BY SoundLevels
<1>3. PICK Q : Q = Passing(S, S, ranks) OBVIOUS
<1>4. \A y \in S : PlaceIn(S, y) \in Nat /\ PlaceIn(S, y) > 0 BY ChainPlaces, PlaceValues
<1>5. \A y \in S : y \in Q <=> PlaceIn(S, y) <= rank BY <1>0, <1>3, <1>4 DEF Passing
<1>6. Q \subseteq S BY <1>3 DEF Passing
<1>7. First(S, Q)
  <2> SUFFICES ASSUME NEW y \in Q, NEW x \in S, PlaceIn(S, x) <= PlaceIn(S, y) PROVE x \in Q
    BY DEF First
  <2>1. PlaceIn(S, y) <= rank /\ PlaceIn(S, y) \in Nat /\ PlaceIn(S, x) \in Nat
    BY <1>4, <1>5, <1>6
  <2>2. PlaceIn(S, x) <= rank BY <2>1
  <2> QED BY <1>5, <2>2
<1>8. p \in Q /\ \A y \in Q : PlaceIn(S, y) <= PlaceIn(S, p) BY <1>4, <1>5, <1>6
<1>9. S \in SUBSET S OBVIOUS
<1>10. /\ 1 \in 1..Level(sl) /\ left[1] = At(S, p)
       /\ \A i \in 1..Level(sl) : /\ left[i] = At(S, left[i].node)
                                  /\ left[i].node \in S \cup {Header}
  BY <1>1, <1>3, <1>7, <1>8, <1>9, DescentHits
<1>11. PICK hits : hits = {i \in 1..Level(sl) : left[i].rank = rank} OBVIOUS
<1>12. 1 \in hits BY <1>10, <1>11 DEF At
<1>13. hits \in SUBSET (0..Level(sl)) BY <1>2, <1>11
<1>14. PICK h : h = Max(hits) OBVIOUS
<1>15. h \in hits BY <1>2, <1>12, <1>13, <1>14, MaxIsLargest
<1>16. left[h].rank = rank /\ left[h].node \in S \cup {Header}
       /\ left[h].rank = PlaceIn(S, left[h].node)
  <2>1. h \in 1..Level(sl) /\ left[h].rank = rank BY <1>11, <1>15
  <2>2. left[h] = At(S, left[h].node) BY <1>10, <2>1
  <2> QED BY <1>10, <2>1, <2>2 DEF At
<1>17. left[h].node = p BY <1>16, PlacesDiffer
<1>18. GetElementByRank(sl, rank) = IF hits = {} THEN None ELSE left[Max(hits)].node
  BY <1>0, <1>1, <1>2, <1>11 DEF GetElementByRank
<1> QED BY <1>12, <1>14, <1>17, <1>18

LEMMA RankOfElement ==
    ASSUME NEW S, PairSet(S), NEW sl, HoldsPairs(sl, S), NEW p \in S,
           NEW score \in Int, NEW member \in Nat, p = <<score, member>>,
           member # EmptyMember, \A y \in S : y[2] = member => y = p
    PROVE  GetRank(sl, score, member) = PlaceIn(S, p)
<1>1. Nodes(sl) = S /\ Level(sl) \in Nat \ {0} BY SoundLevels
<1>2. PICK Q : Q = UpTo(S, p) OBVIOUS
<1>3. Q = {y \in S : NoLater(y, score, member)} BY <1>2 DEF UpTo, AtMost
<1>4. PICK left : left = Descend(sl, Q, Nat) OBVIOUS
<1>5. p \in Node /\ Q \subseteq S /\ p \in Q /\ S \subseteq Node
  BY <1>2, LessIsOrder DEF PairSet, UpTo
<1>6. \A y \in S : PlaceIn(S, y) \in Nat BY ChainPlaces
<1>7. \A y \in S : y \in Q <=> PlaceIn(S, y) <= PlaceIn(S, p)
  <2> SUFFICES ASSUME NEW y \in S PROVE y \in Q <=> PlaceIn(S, y) <= PlaceIn(S, p)
    OBVIOUS
  <2>1. y \in Node BY <1>5
  <2>2. y \in Q <=> Less(y, p) \/ y = p BY <1>2, <1>5, <2>1, LessIsOrder DEF UpTo
  <2>3. Less(y, p) <=> PlaceIn(S, y) < PlaceIn(S, p) BY <1>5, <2>1, PlaceOrder
  <2>4. y = p <=> PlaceIn(S, y) = PlaceIn(S, p) BY PlacesDiffer
  <2>5. PlaceIn(S, y) \in Nat /\ PlaceIn(S, p) \in Nat BY <1>6
  <2> QED BY <2>2, <2>3, <2>4, <2>5
<1>8. Q = Passing(S, Q, Nat) BY <1>5, <1>6 DEF Passing
<1>9. First(S, Q)
  <2> SUFFICES ASSUME NEW y \in Q, NEW x \in S, PlaceIn(S, x) <= PlaceIn(S, y) PROVE x \in Q
    BY DEF First
  <2>1. PlaceIn(S, y) <= PlaceIn(S, p) BY <1>5, <1>7
  <2>2. PlaceIn(S, x) \in Nat /\ PlaceIn(S, y) \in Nat /\ PlaceIn(S, p) \in Nat BY <1>5, <1>6
  <2>3. PlaceIn(S, x) <= PlaceIn(S, p) BY <2>1, <2>2
  <2> QED BY <1>7, <2>3
<1>10. \A y \in Q : PlaceIn(S, y) <= PlaceIn(S, p) BY <1>5, <1>7
<1>11. /\ 1 \in 1..Level(sl) /\ left[1] = At(S, p)
       /\ \A i \in 1..Level(sl) : /\ left[i] = At(S, left[i].node)
                                  /\ left[i].node \in S \cup {Header}
  BY <1>4, <1>5, <1>8, <1>9, <1>10, DescentHits
<1>12. PICK hits : hits = {i \in 1..Level(sl) : MemberOf(left[i].node) = member} OBVIOUS
<1>13. \A y \in S : MemberOf(y) = y[2] BY NodesAreNodes DEF MemberOf, PairSet
<1>14. 1 \in hits
  <2>1. left[1].node = p BY <1>11 DEF At
  <2>2. MemberOf(p) = member BY <1>13
  <2> QED BY <1>11, <1>12, <2>1, <2>2
<1>15. hits \in SUBSET (0..Level(sl)) BY <1>1, <1>12
<1>16. PICK h : h = Max(hits) OBVIOUS
<1>17. h \in hits BY <1>1, <1>14, <1>15, <1>16, MaxIsLargest
<1>18. left[h] = At(S, left[h].node) /\ left[h].node \in S \cup {Header}
       /\ MemberOf(left[h].node) = member
  BY <1>11, <1>12, <1>17
<1>19. left[h].node = p
  <2>1. left[h].node # Header BY <1>18 DEF MemberOf
  <2>2. left[h].node \in S BY <1>18, <2>1
  <2> QED BY <1>13, <1>18, <2>2
<1>20. left[h].rank = PlaceIn(S, p) BY <1>18, <1>19 DEF At
<1>21. GetRank(sl, score, member) = IF hits = {} THEN 0 ELSE left[Max(hits)].rank
  BY <1>1, <1>3, <1>4, <1>12 DEF GetRank
<1> QED BY <1>14, <1>16, <1>20, <1>21
-----------------------------------------------------------------------------
(***************************************************************************)
(* The loops of zrange and zrevrange.                                      *)
(***************************************************************************)
Following(node, first, count, next) ==
    node = [i \in 1..count |-> IF i = 1 THEN first
                               ELSE IF node[i - 1] = None THEN None
                               ELSE next[node[i - 1]]]

\* A path of count nodes from first along next.
Leads(path, first, count, next) ==
    /\ path = [i \in 1..count |-> path[i]]
    /\ path[1] = first
    /\ \A i \in 1..count : path[i] # None
    /\ \A i \in 1..(count - 1) : path[i + 1] = next[path[i]]

\* A loop that follows such a path meets its nodes.
LEMMA PathFollowed ==
    ASSUME NEW first, NEW count \in Nat \ {0}, NEW next, NEW path,
           Leads(path, first, count, next)
    PROVE  Follow(first, count, next) = [i \in 1..count |-> MemberOf(path[i])]
<1>1. Following(path, first, count, next)
  <2>1. ASSUME NEW i \in 1..count
        PROVE  path[i] = IF i = 1 THEN first
                         ELSE IF path[i - 1] = None THEN None ELSE next[path[i - 1]]
    <3>1. CASE i = 1 BY <3>1 DEF Leads
    <3>2. CASE i # 1
      <4>1. PICK j \in 1..(count - 1) : j = i - 1 /\ i = j + 1 BY <3>2
      <4>2. j \in 1..count BY <4>1
      <4>3. path[j + 1] = next[path[j]] /\ path[j] # None BY <4>1, <4>2 DEF Leads
      <4> QED BY <3>2, <4>1, <4>3
    <3> QED BY <3>1, <3>2
  <2> QED BY <2>1 DEF Following, Leads
<1> DEFINE node == CHOOSE f : Following(f, first, count, next)
<1>2. Following(node, first, count, next) BY <1>1, Zenon
<1>3. Follow(first, count, next) =
          [i \in 1..Cardinality({i \in 1..count : node[i] # None}) |-> MemberOf(node[i])]
  BY Zenon DEF Follow, Following
<1> HIDE DEF node
<1> DEFINE M == {m \in Nat : m + 1 <= count => node[m + 1] = path[m + 1]}
<1>4. 0 \in M
  <2>1. 1 \in 1..count OBVIOUS
  <2>2. node[1] = first BY <1>2, <2>1 DEF Following
  <2> QED BY <2>2 DEF Leads
<1>5. ASSUME NEW m \in Nat, m \in M PROVE m + 1 \in M
  <2> SUFFICES ASSUME (m + 1) + 1 <= count PROVE node[(m + 1) + 1] = path[(m + 1) + 1]
    OBVIOUS
  <2>1. PICK j \in 1..(count - 1) : j = m + 1 OBVIOUS
  <2>2. j \in 1..count /\ j + 1 \in 1..count /\ j + 1 # 1 /\ (j + 1) - 1 = j OBVIOUS
  <2>3. node[j] = path[j] BY <1>5, <2>1
  <2>4. node[j + 1] = IF node[j] = None THEN None ELSE next[node[j]]
    BY <1>2, <2>2 DEF Following
  <2>5. path[j] # None /\ path[j + 1] = next[path[j]] BY <2>2 DEF Leads
  <2> QED BY <2>1, <2>3, <2>4, <2>5
<1> HIDE DEF M
<1>6. ASSUME NEW i \in 1..count PROVE node[i] = path[i]
  <2>1. PICK m \in Nat : i = m + 1 OBVIOUS
  <2>2. m \in M BY <1>4, <1>5, NatSetInduction
  <2> QED BY <2>1, <2>2 DEF M
<1>7. {i \in 1..count : node[i] # None} = 1..count BY <1>6 DEF Leads
<1>8. Cardinality(1..count) = count BY FS_Interval
<1> QED BY <1>3, <1>6, <1>7, <1>8

\* The links of the first level lead from pair to pair,
LEMMA FirstLevelLeads ==
    ASSUME NEW S, PairSet(S), NEW sl, HoldsPairs(sl, S), NEW n \in Nat, n = Cardinality(S),
           NEW order, order = InOrder(S), NEW i \in 1..n, i < n
    PROVE  order[i] \in DOMAIN sl.links[1] /\ sl.links[1][order[i]].next = order[i + 1]
<1>1. Level(sl) \in Nat \ {0} /\ Chains(sl.links, S) /\ DOMAIN sl.links[1] = {Header} \cup S
  BY SoundLevels
<1>2. PICK level : level = sl.links[1] OBVIOUS
<1>3. Chain(level, S) /\ DOMAIN level = {Header} \cup S BY <1>1, <1>2 DEF Chains
<1>4. /\ \A j \in 1..n : order[j] \in S /\ PlaceIn(S, order[j]) = j
      /\ \A p \in S : order[PlaceIn(S, p)] = p
  BY InOrderIs
<1>5. PICK x \in DOMAIN level : x = order[i] BY <1>1, <1>2, <1>4
<1>6. PICK next : next = level[x].next OBVIOUS
<1>7. IF next = None THEN PlaceIn(S, x) = Cardinality(S)
      ELSE next \in S /\ PlaceIn(S, next) = PlaceIn(S, x) + 1
  BY <1>3, <1>6, NextPlace
<1>8. PlaceIn(S, x) = i BY <1>4, <1>5
<1>9. next \in S /\ PlaceIn(S, next) = i + 1 BY <1>7, <1>8
<1>10. next = order[i + 1] BY <1>4, <1>9
<1> QED BY <1>2, <1>5, <1>6, <1>10

\* and the back links lead back.
LEMMA BackLinksLead ==
    ASSUME NEW S, PairSet(S), NEW sl, HoldsPairs(sl, S), NEW n \in Nat, n = Cardinality(S),
           NEW order, order = InOrder(S), NEW i \in 1..n, i > 1
    PROVE  sl.back[order[i]] = order[i - 1]
<1>1. /\ \A j \in 1..n : order[j] \in S /\ PlaceIn(S, order[j]) = j
      /\ \A p \in S : order[PlaceIn(S, p)] = p
  BY InOrderIs
<1>2. PICK x \in S : x = order[i] BY <1>1
<1>3. PlaceIn(S, x) = i /\ i # 1 BY <1>1, <1>2
<1>4. sl.back[x] \in S /\ PlaceIn(S, sl.back[x]) = i - 1
  BY <1>3 DEF HoldsPairs, Backwards
<1> QED BY <1>1, <1>2, <1>4

\* The smaller of two numbers.
LEMMA MinOfTwo ==
    ASSUME NEW a \in Int, NEW b \in Int
    PROVE  Min({a, b}) = IF a <= b THEN a ELSE b
<1> DEFINE m == IF a <= b THEN a ELSE b
<1>1. m \in {a, b} /\ \A y \in {a, b} : m <= y
  OBVIOUS
<1>2. \A x \in {a, b} : (\A y \in {a, b} : x <= y) => x = m
  OBVIOUS
<1> HIDE DEF m
<1>3. Min({a, b}) = m BY <1>1, <1>2 DEF Min
<1> QED BY <1>3 DEF m
-----------------------------------------------------------------------------
(***************************************************************************)
(* What a sorted set answers, in terms of its pairs in order.              *)
(***************************************************************************)
\* A dictionary has as many pairs as members.
LEMMA PairsCounted ==
    ASSUME NEW dict, Scores(dict)
    PROVE  /\ Cardinality(Pairs(dict)) = Cardinality(DOMAIN dict)
           /\ Cardinality(Pairs(dict)) \in Nat
           /\ \A y \in Pairs(dict) : y[2] \in DOMAIN dict /\ y = <<dict[y[2]], y[2]>>
<1> DEFINE f == [m \in DOMAIN dict |-> <<dict[m], m>>]
<1>1. \A m \in DOMAIN dict : f[m] = <<dict[m], m>> /\ f[m] \in Pairs(dict) BY DEF Pairs
<1>2. f \in Bijection(DOMAIN dict, Pairs(dict))
  <2>1. f \in [DOMAIN dict -> Pairs(dict)] BY <1>1
  <2>2. \A m, k \in DOMAIN dict : f[m] = f[k] => m = k BY <1>1
  <2>3. \A y \in Pairs(dict) : \E m \in DOMAIN dict : f[m] = y BY <1>1 DEF Pairs
  <2> HIDE DEF f
  <2> QED BY <2>1, <2>2, <2>3 DEF Bijection, Injection, Surjection, IsInjective
<1>3. ExistsBijection(DOMAIN dict, Pairs(dict)) BY <1>2 DEF ExistsBijection
<1>4. Cardinality(Pairs(dict)) = Cardinality(DOMAIN dict)
  BY <1>3, FS_Bijection DEF Scores
<1>5. Cardinality(Pairs(dict)) \in Nat BY PairsAreNodes, FS_CardinalityType DEF PairSet
<1>6. ASSUME NEW y \in Pairs(dict) PROVE y[2] \in DOMAIN dict /\ y = <<dict[y[2]], y[2]>>
  <2>1. PICK m \in DOMAIN dict : y = <<dict[m], m>> BY DEF Pairs
  <2>2. y[2] = m BY <2>1
  <2> QED BY <2>1, <2>2
<1> QED BY <1>4, <1>5, <1>6

\* An index counted from the end is one from the head, or the head.
LEMMA FromEndIs ==
    ASSUME NEW i \in Int, NEW n \in Nat
    PROVE  /\ FromEnd(i, n) \in Nat
           /\ i < 0 => FromEnd(i, n) = IF n + i >= 0 THEN n + i ELSE 0
           /\ i >= 0 => FromEnd(i, n) = i
<1>1. CASE i < 0
  <2>1. n + i \in Int OBVIOUS
  <2>2. Max({0, n + i}) = IF 0 >= n + i THEN 0 ELSE n + i BY <2>1, MaxOfTwo
  <2> QED BY <1>1, <2>1, <2>2 DEF FromEnd
<1>2. CASE ~(i < 0) BY <1>2 DEF FromEnd
<1> QED BY <1>1, <1>2

\* The pairs of a sorted set, and how many there are.
Ordered(z, order, n) ==
    /\ SortedSet(z)
    /\ n \in Nat /\ n = Cardinality(Pairs(z.dict))
    /\ order = InOrder(Pairs(z.dict))

LEMMA OrderedPairs ==
    ASSUME NEW z, NEW order, NEW n, Ordered(z, order, n)
    PROVE  /\ n = ZCard(z)
           /\ DOMAIN order = 1..n
           /\ \A i \in 1..n : /\ order[i] \in Pairs(z.dict)
                              /\ PlaceIn(Pairs(z.dict), order[i]) = i
                              /\ order[i] # None
                              /\ MemberOf(order[i]) = order[i][2]
                              /\ order[i][2] \in DOMAIN z.dict
                              /\ order[i] = <<z.dict[order[i][2]], order[i][2]>>
           /\ \A y \in Pairs(z.dict) : \E i \in 1..n : y = order[i]
<1>1. PICK S : S = Pairs(z.dict) OBVIOUS
<1>2. /\ Scores(z.dict) /\ PairSet(S) /\ n \in Nat /\ n = Cardinality(S) /\ order = InOrder(S)
  BY <1>1, PairsAreNodes DEF Ordered, SortedSet
<1>3. n = ZCard(z) BY <1>1, <1>2, PairsCounted DEF ZCard
<1>4. /\ DOMAIN order = 1..n
      /\ \A i \in 1..n : order[i] \in S /\ PlaceIn(S, order[i]) = i
      /\ \A p \in S : PlaceIn(S, p) \in 1..n /\ order[PlaceIn(S, p)] = p
  BY <1>2, InOrderIs
<1>5. ASSUME NEW i \in 1..n
      PROVE  /\ order[i] \in S /\ PlaceIn(S, order[i]) = i
             /\ order[i] # None
             /\ MemberOf(order[i]) = order[i][2]
             /\ order[i][2] \in DOMAIN z.dict
             /\ order[i] = <<z.dict[order[i][2]], order[i][2]>>
  <2>1. PICK x \in S : x = order[i] BY <1>4
  <2>2. x \in Node BY <1>2 DEF PairSet
  <2>3. x # None /\ x # Header BY <2>2, NodesAreNodes
  <2>4. x[2] \in DOMAIN z.dict /\ x = <<z.dict[x[2]], x[2]>> BY <1>1, <1>2, PairsCounted
  <2> QED BY <1>4, <2>1, <2>3, <2>4 DEF MemberOf
<1> QED BY <1>1, <1>3, <1>4, <1>5

\* The bounds of a range that is not empty.
Between(first, last, n) == ~(n = 0 \/ first > last \/ first >= n)

LEMMA RangeUp ==
    ASSUME NEW z, NEW order, NEW n, Ordered(z, order, n), NEW start \in Int, NEW stop \in Int,
           NEW first, first = FromEnd(start, n), NEW last, last = FromEnd(stop, n),
           NEW count, count = (Min({last, n - 1}) - first) + 1
    PROVE  ZRange(z, start, stop) =
               IF Between(first, last, n) THEN [i \in 1..count |-> order[first + i][2]] ELSE <<>>
<1>1. PICK S : S = Pairs(z.dict) OBVIOUS
<1>2. PICK sl : sl = z.sl OBVIOUS
<1>3. /\ PairSet(S) /\ HoldsPairs(sl, S) /\ n \in Nat /\ n = Cardinality(S)
      /\ order = InOrder(S)
  BY <1>1, <1>2, PairsAreNodes DEF Ordered, SortedSet
<1>4. /\ n = ZCard(z)
      /\ \A i \in 1..n : /\ order[i] \in S /\ PlaceIn(S, order[i]) = i
                         /\ order[i] # None /\ MemberOf(order[i]) = order[i][2]
  BY <1>1, OrderedPairs
<1>5. first \in Nat /\ last \in Nat BY <1>3, FromEndIs
<1>6. PICK next : next = [x \in DOMAIN sl.links[1] |-> sl.links[1][x].next] OBVIOUS
<1>7. ZRange(z, start, stop) =
          IF Between(first, last, n)
          THEN Follow(GetElementByRank(sl, first + 1), count, next) ELSE <<>>
  BY <1>2, <1>4, <1>6 DEF ZRange, Between
<1>8. ASSUME Between(first, last, n)
      PROVE  Follow(GetElementByRank(sl, first + 1), count, next) =
                 [i \in 1..count |-> order[first + i][2]]
  <2>1. PICK m \in Nat : m = Min({last, n - 1}) /\ first <= m /\ m < n
    <3>1. n - 1 \in Int /\ last \in Int /\ first < n /\ first <= last
      BY <1>3, <1>5, <1>8 DEF Between
    <3>2. Min({last, n - 1}) = IF last <= n - 1 THEN last ELSE n - 1 BY <3>1, MinOfTwo
    <3> QED BY <1>3, <1>5, <3>1, <3>2
  <2>2. count \in Nat \ {0} /\ first + count <= n BY <1>3, <1>5, <2>1
  <2>3. \A i \in 1..count : first + i \in 1..n BY <1>3, <1>5, <2>2
  <2>4. PICK path : path = [i \in 1..count |-> order[first + i]] OBVIOUS
  <2>5. PICK p \in S : p = order[first + 1] /\ PlaceIn(S, p) = first + 1
    <3>1. 1 \in 1..count BY <2>2
    <3> QED BY <1>4, <2>3, <3>1
  <2>6. PICK rank \in Nat : rank = first + 1 BY <1>5
  <2>7. GetElementByRank(sl, rank) = p BY <1>3, <2>5, <2>6, ElementAtRank
  <2>8. Leads(path, p, count, next)
    <3>1. path[1] = p BY <2>2, <2>4, <2>5
    <3>2. \A i \in 1..count : path[i] # None BY <1>4, <2>3, <2>4
    <3>3. ASSUME NEW i \in 1..(count - 1) PROVE path[i + 1] = next[path[i]]
      <4>1. PICK j \in 1..n : j = first + i /\ j < n BY <1>3, <1>5, <2>2
      <4>2. order[j] \in DOMAIN sl.links[1] /\ sl.links[1][order[j]].next = order[j + 1]
        BY <1>3, <4>1, FirstLevelLeads
      <4>3. path[i] = order[j] /\ path[i + 1] = order[j + 1]
        <5>1. i \in 1..count /\ i + 1 \in 1..count /\ first + (i + 1) = j + 1
          BY <1>5, <2>2, <4>1
        <5> QED BY <2>4, <4>1, <5>1
      <4> QED BY <1>6, <4>2, <4>3
    <3> QED BY <2>4, <3>1, <3>2, <3>3 DEF Leads
  <2>9. Follow(p, count, next) = [i \in 1..count |-> MemberOf(path[i])]
    <3>1. PICK c \in Nat \ {0} : c = count BY <2>2
    <3>2. Leads(path, p, c, next) BY <2>8, <3>1
    <3>3. Follow(p, c, next) = [i \in 1..c |-> MemberOf(path[i])] BY <3>2, PathFollowed
    <3> QED BY <3>1, <3>3
  <2>10. \A i \in 1..count : MemberOf(path[i]) = order[first + i][2] BY <1>4, <2>3, <2>4
  <2> QED BY <2>6, <2>7, <2>9, <2>10
<1> QED BY <1>7, <1>8

LEMMA RangeDown ==
    ASSUME NEW z, NEW order, NEW n, Ordered(z, order, n), NEW start \in Int, NEW stop \in Int,
           NEW first, first = FromEnd(start, n), NEW last, last = FromEnd(stop, n),
           NEW count, count = (Min({last, n - 1}) - first) + 1
    PROVE  ZRevRange(z, start, stop) =
               IF Between(first, last, n) THEN [i \in 1..count |-> order[(n - first + 1) - i][2]]
               ELSE <<>>
<1>1. PICK S : S = Pairs(z.dict) OBVIOUS
<1>2. PICK sl : sl = z.sl OBVIOUS
<1>3. /\ PairSet(S) /\ HoldsPairs(sl, S) /\ n \in Nat /\ n = Cardinality(S)
      /\ order = InOrder(S)
  BY <1>1, <1>2, PairsAreNodes DEF Ordered, SortedSet
<1>4. /\ n = ZCard(z)
      /\ \A i \in 1..n : /\ order[i] \in S /\ PlaceIn(S, order[i]) = i
                         /\ order[i] # None /\ MemberOf(order[i]) = order[i][2]
  BY <1>1, OrderedPairs
<1>5. first \in Nat /\ last \in Nat BY <1>3, FromEndIs
<1>6. PICK next : next = sl.back OBVIOUS
<1>7. ZRevRange(z, start, stop) =
          IF Between(first, last, n)
          THEN Follow(GetElementByRank(sl, n - first), count, next) ELSE <<>>
  BY <1>2, <1>4, <1>6 DEF ZRevRange, Between
<1>8. ASSUME Between(first, last, n)
      PROVE  Follow(GetElementByRank(sl, n - first), count, next) =
                 [i \in 1..count |-> order[(n - first + 1) - i][2]]
  <2>1. PICK m \in Nat : m = Min({last, n - 1}) /\ first <= m /\ m < n
    <3>1. n - 1 \in Int /\ last \in Int /\ first < n /\ first <= last
      BY <1>3, <1>5, <1>8 DEF Between
    <3>2. Min({last, n - 1}) = IF last <= n - 1 THEN last ELSE n - 1 BY <3>1, MinOfTwo
    <3> QED BY <1>3, <1>5, <3>1, <3>2
  <2>2. count \in Nat \ {0} /\ first + count <= n BY <1>3, <1>5, <2>1
  <2>3. \A i \in 1..count : (n - first + 1) - i \in 1..n BY <1>3, <1>5, <2>2
  <2>4. PICK path : path = [i \in 1..count |-> order[(n - first + 1) - i]] OBVIOUS
  <2>5. PICK rank \in Nat : rank = n - first /\ rank \in 1..n BY <1>3, <1>5, <2>2
  <2>6. PICK p \in S : p = order[rank] /\ PlaceIn(S, p) = rank BY <1>4, <2>5
  <2>7. GetElementByRank(sl, rank) = p BY <1>3, <2>6, ElementAtRank
  <2>8. Leads(path, p, count, next)
    <3>1. path[1] = p
      <4>1. 1 \in 1..count /\ (n - first + 1) - 1 = rank BY <1>3, <1>5, <2>2, <2>5
      <4> QED BY <2>4, <2>6, <4>1
    <3>2. \A i \in 1..count : path[i] # None BY <1>4, <2>3, <2>4
    <3>3. ASSUME NEW i \in 1..(count - 1) PROVE path[i + 1] = next[path[i]]
      <4>1. PICK j \in 1..n : j = (n - first + 1) - i /\ j > 1 BY <1>3, <1>5, <2>2
      <4>2. sl.back[order[j]] = order[j - 1] BY <1>3, <4>1, BackLinksLead
      <4>3. path[i] = order[j] /\ path[i + 1] = order[j - 1]
        <5>1. i \in 1..count /\ i + 1 \in 1..count /\ (n - first + 1) - (i + 1) = j - 1
          BY <1>3, <1>5, <2>2, <4>1
        <5> QED BY <2>4, <4>1, <5>1
      <4> QED BY <1>6, <4>2, <4>3
    <3> QED BY <2>4, <3>1, <3>2, <3>3 DEF Leads
  <2>9. Follow(p, count, next) = [i \in 1..count |-> MemberOf(path[i])]
    <3>1. PICK c \in Nat \ {0} : c = count BY <2>2
    <3>2. Leads(path, p, c, next) BY <2>8, <3>1
    <3>3. Follow(p, c, next) = [i \in 1..c |-> MemberOf(path[i])] BY <3>2, PathFollowed
    <3> QED BY <3>1, <3>3
  <2>10. \A i \in 1..count : MemberOf(path[i]) = order[(n - first + 1) - i][2]
    BY <1>4, <2>3, <2>4
  <2> QED BY <2>5, <2>7, <2>9, <2>10
<1> QED BY <1>7, <1>8

\* Ranks, of members that the header does not have, too.
LEMMA RanksArePlaces ==
    ASSUME NEW z, NEW order, NEW n, Ordered(z, order, n), NEW i \in 1..n,
           order[i][2] # EmptyMember
    PROVE  /\ ZRank(z, order[i][2]) = i - 1
           /\ ZRevRank(z, order[i][2]) = n - i
<1>1. PICK S : S = Pairs(z.dict) OBVIOUS
<1>2. PICK sl : sl = z.sl OBVIOUS
<1>3. /\ PairSet(S) /\ HoldsPairs(sl, S) /\ n \in Nat /\ Scores(z.dict)
  BY <1>1, <1>2, PairsAreNodes DEF Ordered, SortedSet
<1>4. PICK p \in S : p = order[i] BY <1>1, OrderedPairs
<1>5. n = ZCard(z) /\ PlaceIn(S, p) = i BY <1>1, <1>4, OrderedPairs
<1>6. PICK member \in DOMAIN z.dict : member = p[2] BY <1>4, OrderedPairs
<1>7. PICK score \in Int : score = z.dict[member] BY <1>3 DEF Scores
<1>8. member \in Nat /\ p = <<score, member>> /\ member # EmptyMember
  BY <1>3, <1>4, <1>6, <1>7, OrderedPairs DEF Scores
<1>9. \A y \in S : y[2] = member => y = p BY <1>1, <1>3, <1>7, <1>8, PairsCounted
<1>10. GetRank(sl, score, member) = i BY <1>3, <1>5, <1>8, <1>9, RankOfElement
<1>11. ZRank(z, member) = i - 1 BY <1>2, <1>7, <1>10 DEF ZRank
<1>12. ZRevRank(z, member) = n - i
  <2>1. i - 1 # -1 /\ n - 1 - (i - 1) = n - i BY <1>3
  <2> QED BY <1>5, <1>11, <2>1 DEF ZRevRank
<1> QED BY <1>4, <1>6, <1>11, <1>12

\* The members up to a place have scores up to the one at that place.
LEMMA CountsReach ==
    ASSUME NEW z, NEW order, NEW n, Ordered(z, order, n), NEW i \in 1..n
    PROVE  ZCount(z, order[1][1], order[i][1]) >= i
<1>1. PICK S : S = Pairs(z.dict) OBVIOUS
<1>2. PairSet(S) /\ n \in Nat /\ Scores(z.dict)
  BY <1>1, PairsAreNodes DEF Ordered, SortedSet
<1>3. 1 \in 1..n BY <1>2
<1>4. PICK p \in S, q \in S : p = order[1] /\ q = order[i] /\ PlaceIn(S, p) = 1 /\ PlaceIn(S, q) = i
  BY <1>1, <1>3, OrderedPairs
<1>5. PICK counted : counted = {m \in DOMAIN z.dict : p[1] <= z.dict[m] /\ z.dict[m] <= q[1]}
  OBVIOUS
<1>6. ZCount(z, order[1][1], order[i][1]) = Cardinality(counted) BY <1>4, <1>5 DEF ZCount
<1>7. IsFiniteSet(counted) /\ Cardinality(counted) \in Nat
  BY <1>2, <1>5, FS_Subset, FS_CardinalityType DEF Scores
<1>8. PICK f : f = [j \in 1..i |-> order[j][2]] OBVIOUS
<1>9. ASSUME NEW j \in 1..i PROVE order[j][2] \in counted
  <2>1. j \in 1..n BY <1>2
  <2>2. PICK x \in S : x = order[j] /\ PlaceIn(S, x) = j BY <1>1, <2>1, OrderedPairs
  <2>3. x[2] \in DOMAIN z.dict /\ x[1] = z.dict[x[2]] BY <2>1, <2>2, OrderedPairs
  <2>4. p \in Node /\ q \in Node /\ x \in Node BY <1>2 DEF PairSet
  <2>5. Less(p, x) \/ p = x
    <3>1. CASE j = 1 BY <1>4, <2>2, <3>1
    <3>2. CASE j # 1
      <4>1. PlaceIn(S, p) < PlaceIn(S, x) BY <1>4, <2>2, <3>2
      <4> QED BY <1>2, <2>4, <4>1, PlaceOrder
    <3> QED BY <3>1, <3>2
  <2>6. Less(x, q) \/ x = q
    <3>1. CASE j = i BY <1>4, <2>2, <3>1
    <3>2. CASE j # i
      <4>1. PlaceIn(S, x) < PlaceIn(S, q) BY <1>4, <2>2, <3>2
      <4> QED BY <1>2, <2>4, <4>1, PlaceOrder
    <3> QED BY <3>1, <3>2
  <2>7. p[1] \in Int /\ x[1] \in Int /\ q[1] \in Int BY <2>4, NodesAreNodes
  <2>8. p[1] <= x[1] /\ x[1] <= q[1] BY <2>5, <2>6, <2>7 DEF Less, Before
  <2> QED BY <1>5, <2>2, <2>3, <2>8
<1>10. \A j, k \in 1..i : f[j] = f[k] => j = k
  <2> SUFFICES ASSUME NEW j \in 1..i, NEW k \in 1..i, f[j] = f[k] PROVE j = k
    OBVIOUS
  <2>1. j \in 1..n /\ k \in 1..n BY <1>2
  <2>2. order[j] = order[k]
    <3>1. order[j][2] = order[k][2] BY <1>8
    <3> QED BY <2>1, <3>1, OrderedPairs
  <2> QED BY <2>1, <2>2, OrderedPairs
<1>11. f \in Injection(1..i, counted)
  <2>1. f \in [1..i -> counted] BY <1>8, <1>9
  <2> QED BY <1>10, <2>1 DEF Injection, IsInjective
<1>12. Cardinality(1..i) <= Cardinality(counted) BY <1>7, <1>11, FS_Injection
<1>13. Cardinality(1..i) = i BY FS_Interval
<1> QED BY <1>6, <1>12, <1>13
=============================================================================
