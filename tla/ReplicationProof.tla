--------------------------- MODULE ReplicationProof ---------------------------
(***************************************************************************)
(* Theorems about replication, for every size of the backlog, every finite *)
(* set of keys and every stream of commands: the ring holds the stream,    *)
(* nothing is applied twice, and a full synchronisation is complete.  What *)
(* the parser makes of a chunk is proved by induction over its bytes.      *)
(***************************************************************************)
EXTENDS Replication, ProofLemmas, SequenceTheorems, FiniteSetTheorems, TLAPS

-----------------------------------------------------------------------------
(***************************************************************************)
(* Arithmetic of the ring.                                                 *)
(***************************************************************************)

(***************************************************************************)
(* A multiple of the size lies between 0 and the size only if it is 0.     *)
(***************************************************************************)
LEMMA SmallMultiple ==
    ASSUME NEW n \in Nat \ {0}, NEW d \in Int, -n < n * d, n * d < n
    PROVE  d = 0
<1>1. d >= 1 => n * d >= n
  OBVIOUS
<1>2. d <= -1 => n * d <= -n
  OBVIOUS
<1>3. QED
  BY <1>1, <1>2

(***************************************************************************)
(* A remainder is what is left after taking a multiple of the size away.   *)
(***************************************************************************)
LEMMA Remainder ==
    ASSUME NEW n \in Nat \ {0}, NEW q \in Int, NEW r \in 0..(n - 1)
    PROVE  (n * q + r) % n = r
<1> DEFINE m == n * q + r
<1>1. m \in Int
  OBVIOUS
<1>2. /\ m = n * (m \div n) + (m % n)
      /\ m % n \in 0..(n - 1)
      /\ m \div n \in Int
  BY <1>1
<1> DEFINE d == (m \div n) - q
<1>3. d \in Int /\ n * d = r - (m % n)
  BY <1>2
<1>4. d = 0
  BY <1>2, <1>3, SmallMultiple
<1>5. QED
  BY <1>2, <1>3, <1>4

(***************************************************************************)
(* The slot of an offset a little further along the stream.                *)
(***************************************************************************)
LEMMA SlotAfter ==
    ASSUME NEW n \in Nat \ {0}, NEW m \in Nat, NEW j \in 0..n
    PROVE  /\ m % n \in 0..(n - 1)
           /\ (m % n) + j < n => (m + j) % n = (m % n) + j
           /\ (m % n) + j >= n /\ j < n => (m + j) % n = (m % n) + j - n
<1> DEFINE q == m \div n
           r == m % n
<1>1. m = n * q + r /\ r \in 0..(n - 1) /\ q \in Int
  OBVIOUS
<1>2. r + j < n => (m + j) % n = r + j
  <2>1. SUFFICES ASSUME r + j < n PROVE (m + j) % n = r + j
    OBVIOUS
  <2>2. m + j = n * q + (r + j) /\ r + j \in 0..(n - 1)
    BY <1>1, <2>1
  <2>3. QED
    BY <1>1, <2>2, Remainder
<1>3. r + j >= n /\ j < n => (m + j) % n = r + j - n
  <2>1. SUFFICES ASSUME r + j >= n, j < n PROVE (m + j) % n = r + j - n
    OBVIOUS
  <2>2. m + j = n * (q + 1) + (r + j - n) /\ r + j - n \in 0..(n - 1)
    BY <1>1, <2>1
  <2>3. q + 1 \in Int
    BY <1>1
  <2>4. QED
    BY <2>2, <2>3, Remainder
<1>4. QED
  BY <1>1, <1>2, <1>3

-----------------------------------------------------------------------------
(***************************************************************************)
(* The ring holds the last bytes of this stream, each in its offset's slot.*)
(***************************************************************************)
Mirrors(ring, bytes) ==
    /\ ring.master = Len(bytes)
    /\ ring.first <= ring.master
    /\ ring.master - ring.first <= Size
    /\ \A o \in ring.first..(ring.master - 1) :
        ring.buffer[o % Size] = bytes[o + 1]

(***************************************************************************)
(* Feeding gives a ring again.                                             *)
(***************************************************************************)
LEMMA FeedType ==
    ASSUME NEW ring \in Backlog, NEW data \in Seq(Byte)
    PROVE  Feed(ring, data) \in Backlog
<1>1. CASE Len(data) >= Size
  <2>1. \A i \in Slot : data[Len(data) - Size + i + 1] \in Byte
    <3>1. SUFFICES ASSUME NEW i \in Slot
                   PROVE  data[Len(data) - Size + i + 1] \in Byte
      OBVIOUS
    <3>2. Len(data) - Size + i + 1 \in 1..Len(data)
      BY <1>1, BacklogAssumption DEF Slot
    <3>3. QED
      BY <3>2, ElementOfSeq
  <2>2. FeedWhole(ring, data) \in Backlog
    BY <2>1, BacklogAssumption DEF FeedWhole, Backlog
  <2>3. QED
    BY <1>1, <2>2 DEF Feed
<1>2. CASE ~(Len(data) >= Size)
  <2> DEFINE idx == ring.master % Size
             end == ring.master + Len(data)
  <2>1. idx \in Int
    BY BacklogAssumption DEF Backlog
  <2>2. WrapFrom(ring.buffer, idx, data) \in [Slot -> Byte \cup {Unwritten}]
    <3>1. SUFFICES ASSUME NEW i \in Slot
                   PROVE  WrapFrom(ring.buffer, idx, data)[i] \in Byte \cup {Unwritten}
      BY DEF WrapFrom
    <3>2. ring.buffer[i] \in Byte \cup {Unwritten}
      BY DEF Backlog
    <3>3. CASE idx <= i /\ i < idx + Len(data)
      <4>1. i - idx + 1 \in 1..Len(data)
        BY <2>1, <3>3, BacklogAssumption DEF Slot
      <4>2. data[i - idx + 1] \in Byte
        BY <4>1, ElementOfSeq
      <4>3. QED
        BY <3>3, <4>2 DEF WrapFrom
    <3>4. CASE ~(idx <= i /\ i < idx + Len(data)) /\ i + Size < idx + Len(data)
      <4>1. i + Size - idx + 1 \in 1..Len(data)
        <5>1. idx < Size
          BY BacklogAssumption DEF Backlog
        <5>2. QED
          BY <2>1, <3>4, <5>1, BacklogAssumption DEF Slot
      <4>2. data[i + Size - idx + 1] \in Byte
        BY <4>1, ElementOfSeq
      <4>3. WrapFrom(ring.buffer, idx, data)[i] = data[i + Size - idx + 1]
        BY <3>4 DEF WrapFrom
      <4>4. QED
        BY <4>2, <4>3
    <3>5. CASE ~(idx <= i /\ i < idx + Len(data)) /\ ~(i + Size < idx + Len(data))
      BY <3>2, <3>5 DEF WrapFrom
    <3>6. QED
      BY <3>3, <3>4, <3>5
  <2>3. end \in Nat /\ (end - ring.first > Size => end - Size \in Nat)
    BY BacklogAssumption DEF Backlog
  <2>4. FeedPart(ring, data) \in Backlog
    BY <2>2, <2>3 DEF FeedPart, Backlog
  <2>5. QED
    BY <1>2, <2>4 DEF Feed
<1>3. QED
  BY <1>1, <1>2

(***************************************************************************)
(* Feeding data smaller than the ring keeps what the window still covers,  *)
(* and adds the data, across the end of the ring or not.                   *)
(***************************************************************************)
LEMMA FeedMirrors ==
    ASSUME NEW ring \in Backlog, NEW bytes \in Seq(Byte), NEW data \in Seq(Byte),
           Mirrors(ring, bytes), Len(data) < Size
    PROVE  Mirrors(Feed(ring, data), bytes \o data)
<1> DEFINE m == ring.master
           fed == Feed(ring, data)
           idx == m % Size
<1>1. /\ m \in Nat /\ ring.first \in Nat /\ Size \in Nat \ {0}
      /\ m = Len(bytes) /\ ring.first <= m /\ m - ring.first <= Size
      /\ Len(data) \in Nat
  BY BacklogAssumption DEF Backlog, Mirrors
<1>2. /\ fed.master = m + Len(data)
      /\ fed.first = IF m + Len(data) - ring.first > Size
                     THEN m + Len(data) - Size ELSE ring.first
      /\ fed.buffer = WrapFrom(ring.buffer, idx, data)
  BY <1>1 DEF Feed, FeedPart
<1>3. fed.first \in Nat /\ fed.first >= ring.first /\ fed.first <= fed.master
      /\ fed.master - fed.first <= Size
  BY <1>1, <1>2
<1>4. Len(bytes \o data) = m + Len(data)
  BY <1>1
<1>5. ASSUME NEW o \in fed.first..(fed.master - 1)
      PROVE  fed.buffer[o % Size] = (bytes \o data)[o + 1]
  <2>1. o \in Nat /\ o < m + Len(data) /\ o >= fed.first
    BY <1>2, <1>3, <1>1
  <2>2. o % Size \in Slot
    BY <1>1, <2>1, SlotAfter DEF Slot
  <2>3. idx \in 0..(Size - 1)
    BY <1>1, SlotAfter
  <2>4. CASE o >= m
    <3>0. PICK j \in 0..(Len(data) - 1) : o = m + j
      <4>1. o - m \in 0..(Len(data) - 1) /\ o = m + (o - m)
        BY <1>1, <2>1, <2>4
      <4>2. QED
        BY <4>1
    <3>1. j \in Nat /\ j < Len(data) /\ j \in 0..Size /\ j < Size /\ o = m + j
      BY <1>1, <3>0
    <3>2. /\ idx + j < Size => o % Size = idx + j
          /\ idx + j >= Size => o % Size = idx + j - Size
      BY <1>1, <3>1, SlotAfter
    <3>3. (bytes \o data)[o + 1] = data[j + 1]
      BY <1>1, <3>1
    <3>4. WrapFrom(ring.buffer, idx, data)[o % Size] = data[j + 1]
      <4>1. CASE idx + j < Size
        <5>1. o % Size = idx + j
          BY <3>2, <4>1
        <5>2. idx <= o % Size /\ o % Size < idx + Len(data)
          BY <1>1, <2>3, <3>1, <5>1
        <5>3. (o % Size) - idx + 1 = j + 1
          BY <2>3, <3>1, <5>1
        <5>4. QED
          BY <2>2, <5>2, <5>3 DEF WrapFrom
      <4>2. CASE idx + j >= Size
        <5>1. o % Size = idx + j - Size
          BY <3>2, <4>2
        <5>2. ~(idx <= o % Size) /\ (o % Size) + Size < idx + Len(data)
          BY <1>1, <2>3, <3>1, <5>1
        <5>3. (o % Size) + Size - idx + 1 = j + 1
          <6>1. \A a, b \in Int : a = b + j - Size => a + Size - b + 1 = j + 1
            BY <1>1, <3>1
          <6>2. o % Size \in Int /\ idx \in Int
            BY <2>2, <2>3 DEF Slot
          <6>3. QED
            BY <5>1, <6>1, <6>2
        <5>4. QED
          BY <2>2, <5>2, <5>3 DEF WrapFrom
      <4>3. QED
        BY <1>1, <2>3, <3>1, <4>1, <4>2
    <3>5. QED
      BY <1>2, <3>3, <3>4
  <2>5. CASE o < m
    <3> DEFINE i == o % Size
    <3>0. PICK j \in 1..Size : m = o + j
      <4>1. m - o \in 1..Size /\ m = o + (m - o)
        BY <1>1, <1>3, <2>1, <2>5
      <4>2. QED
        BY <4>1
    <3>1. j \in 0..Size /\ j > 0 /\ m = o + j /\ j + Len(data) <= Size
      <4>1. (m + Len(data)) - fed.first <= Size
        <5>1. fed.master = m + Len(data) /\ fed.master - fed.first <= Size
          BY <1>2, <1>3
        <5>2. QED
          BY <5>1
      <4>2. QED
        BY <1>1, <1>3, <2>1, <3>0, <4>1
    <3>2. i \in 0..(Size - 1)
      BY <2>2 DEF Slot
    <3>3. /\ i + j < Size => idx = i + j
          /\ i + j >= Size /\ j < Size => idx = i + j - Size
      <4>1. /\ i + j < Size => (o + j) % Size = i + j
            /\ i + j >= Size /\ j < Size => (o + j) % Size = i + j - Size
        BY <1>1, <2>1, <3>1, SlotAfter
      <4>2. idx = (o + j) % Size
        BY <3>1
      <4>3. QED
        BY <4>1, <4>2
    <3>4. ~(idx <= i /\ i < idx + Len(data)) /\ ~(i + Size < idx + Len(data))
      <4>1. CASE i + j < Size
        BY <1>1, <3>1, <3>2, <3>3, <4>1
      <4>2. CASE i + j >= Size /\ j < Size
        BY <1>1, <3>1, <3>2, <3>3, <4>2
      <4>3. CASE j = Size
        BY <1>1, <2>3, <3>1, <3>2, <4>3
      <4>4. QED
        BY <1>1, <3>1, <3>2, <4>1, <4>2, <4>3
    <3>5. WrapFrom(ring.buffer, idx, data)[i] = ring.buffer[i]
      BY <2>2, <3>4 DEF WrapFrom
    <3>6. o \in ring.first..(m - 1)
      BY <1>1, <1>3, <2>1, <2>5
    <3>7. ring.buffer[i] = bytes[o + 1]
      BY <3>6 DEF Mirrors
    <3>8. (bytes \o data)[o + 1] = bytes[o + 1]
      BY <1>1, <2>1, <2>5
    <3>9. QED
      BY <1>2, <3>5, <3>7, <3>8
  <2>6. QED
    BY <1>1, <2>1, <2>4, <2>5
<1>6. QED
  BY <1>2, <1>3, <1>4, <1>5 DEF Mirrors

(***************************************************************************)
(* What a mirroring ring returns is the stream from the offset on.         *)
(***************************************************************************)
LEMMA DataSinceMirrors ==
    ASSUME NEW ring \in Backlog, NEW bytes \in Seq(Byte), Mirrors(ring, bytes),
           NEW from \in 0..Len(bytes), InBacklog(ring, from)
    PROVE  DataSince(ring, from) = SubSeq(bytes, from + 1, Len(bytes))
<1> DEFINE m == Len(bytes)
           idx == from % Size
           part == SubSeq(bytes, from + 1, m)
<1>1. /\ m \in Nat /\ from \in Nat /\ from <= m /\ Size \in Nat \ {0}
      /\ ring.master = m /\ ring.first \in Nat /\ m - ring.first <= Size
      /\ ring.first <= from
  BY BacklogAssumption DEF Backlog, Mirrors, InBacklog
<1>2. idx \in 0..(Size - 1)
  BY <1>1, SlotAfter
<1>3. /\ part = [i \in 1..(m - from) |-> bytes[from + i]]
  <2>1. Len(part) = m - from /\ part \in Seq(Byte)
        /\ \A i \in 1..(m - from) : part[i] = bytes[from + i]
    BY <1>1, SubSeqProperties, ElementOfSeq
  <2>2. part = [i \in 1..Len(part) |-> part[i]]
    BY <2>1
  <2>3. QED
    BY <2>1, <2>2
<1>4. ASSUME NEW i \in 1..(m - from)
      PROVE  ring.buffer[IF idx + i <= Size THEN idx + i - 1 ELSE idx + i - 1 - Size]
                = bytes[from + i]
  <2> DEFINE o == from + i - 1
  <2>1. o \in ring.first..(m - 1) /\ i - 1 \in 0..Size /\ i - 1 < Size
    BY <1>1
  <2>2. ring.buffer[o % Size] = bytes[o + 1]
    BY <1>1, <2>1 DEF Mirrors
  <2>3. /\ idx + (i - 1) < Size => o % Size = idx + (i - 1)
        /\ idx + (i - 1) >= Size => o % Size = idx + (i - 1) - Size
    <3>1. o = from + (i - 1)
      BY <1>1
    <3>2. QED
      BY <1>1, <2>1, <3>1, SlotAfter
  <2>4. o % Size = IF idx + i <= Size THEN idx + i - 1 ELSE idx + i - 1 - Size
    BY <1>1, <1>2, <2>3
  <2>5. o + 1 = from + i
    BY <1>1
  <2>6. QED
    BY <2>2, <2>4, <2>5
<1>5. QED
  BY <1>1, <1>3, <1>4 DEF DataSince

-----------------------------------------------------------------------------
(***************************************************************************)
(* The parser after each of the first bytes of a chunk.                    *)
(***************************************************************************)
Computes(states, start, chunk, fate, n) ==
    states = [i \in 0..n |-> IF i = 0 THEN start ELSE ParseByte(states[i - 1], chunk[i], fate)]

States(start, chunk, fate) == CHOOSE states : Computes(states, start, chunk, fate, Len(chunk))

(***************************************************************************)
(* There is such a sequence of states, of any length.                      *)
(***************************************************************************)
LEMMA StatesExist ==
    ASSUME NEW start, NEW chunk, NEW fate, NEW n \in Nat
    PROVE  \E states : Computes(states, start, chunk, fate, n)
<1> DEFINE S == {m \in Nat : \E states : Computes(states, start, chunk, fate, m)}
<1>1. 0 \in S
  <2> DEFINE states == [i \in 0..0 |-> start]
  <2>1. Computes(states, start, chunk, fate, 0) BY DEF Computes
  <2> QED BY <2>1
<1>2. ASSUME NEW m \in Nat, m \in S PROVE m + 1 \in S
  <2>1. PICK f : Computes(f, start, chunk, fate, m) BY <1>2
  <2> DEFINE g == [i \in 0..(m + 1) |-> IF i <= m THEN f[i] ELSE ParseByte(f[m], chunk[m + 1], fate)]
  <2>2. ASSUME NEW i \in 0..(m + 1)
        PROVE  g[i] = IF i = 0 THEN start ELSE ParseByte(g[i - 1], chunk[i], fate)
    <3>1. CASE i <= m
      <4>1. f[i] = IF i = 0 THEN start ELSE ParseByte(f[i - 1], chunk[i], fate)
        BY <2>1, <3>1 DEF Computes
      <4>2. i # 0 => g[i - 1] = f[i - 1] BY <3>1
      <4> QED BY <3>1, <4>1, <4>2
    <3>2. CASE i = m + 1 BY <3>2
    <3> QED BY <3>1, <3>2
  <2>3. Computes(g, start, chunk, fate, m + 1) BY <2>2 DEF Computes
  <2> QED BY <2>3
<1> HIDE DEF S
<1>3. n \in S BY <1>1, <1>2, NatSetInduction
<1> QED BY <1>3 DEF S

\* Each state but the first comes from the one before.
Steps(states, chunk, fate, n) ==
    \A i \in 1..n : states[i] = ParseByte(states[i - 1], chunk[i], fate)

(***************************************************************************)
(* The states begin with the first one, each comes from the one before it, *)
(* and the last is what ParseFrom gives.                                   *)
(***************************************************************************)
LEMMA StatesSteps ==
    ASSUME NEW start, NEW chunk, NEW fate, Len(chunk) \in Nat
    PROVE  LET states == States(start, chunk, fate)
           IN  /\ states[0] = start
               /\ Steps(states, chunk, fate, Len(chunk))
               /\ ParseFrom(start, chunk, fate) = states[Len(chunk)]
<1>1. Computes(States(start, chunk, fate), start, chunk, fate, Len(chunk))
  BY StatesExist, Zenon DEF States
<1>2. ParseFrom(start, chunk, fate) = States(start, chunk, fate)[Len(chunk)]
  BY Zenon DEF ParseFrom, States, Computes
<1> QED BY <1>1, <1>2 DEF Computes, Steps

(***************************************************************************)
(* Two computations that make the same steps from the same state agree.    *)
(***************************************************************************)
LEMMA SameStates ==
    ASSUME NEW f, NEW g, NEW chunk, NEW fate, NEW n \in Nat, f[0] = g[0],
           Steps(f, chunk, fate, n), Steps(g, chunk, fate, n)
    PROVE  \A i \in 0..n : f[i] = g[i]
<1> DEFINE S == {i \in Nat : i <= n => f[i] = g[i]}
<1>1. 0 \in S OBVIOUS
<1>2. ASSUME NEW i \in Nat, i \in S PROVE i + 1 \in S
  <2> SUFFICES ASSUME i + 1 <= n PROVE f[i + 1] = g[i + 1] OBVIOUS
  <2>1. i + 1 \in 1..n /\ (i + 1) - 1 = i /\ f[i] = g[i] BY <1>2
  <2> QED BY <2>1 DEF Steps
<1> HIDE DEF S
<1>3. \A i \in Nat : i \in S BY <1>1, <1>2, NatSetInduction
<1> QED BY <1>3 DEF S

(***************************************************************************)
(* Bytes that follow others are parsed from the state those leave.         *)
(***************************************************************************)
LEMMA StatesJoin ==
    ASSUME NEW start, NEW fate, NEW s \in Seq(Byte), NEW t \in Seq(Byte),
           NEW middle, middle = ParseFrom(start, s, fate)
    PROVE  /\ \A i \in 0..Len(s) : States(start, s \o t, fate)[i] = States(start, s, fate)[i]
           /\ \A j \in 0..Len(t) :
                 States(start, s \o t, fate)[Len(s) + j] = States(middle, t, fate)[j]
           /\ ParseFrom(start, s \o t, fate) = ParseFrom(middle, t, fate)
<1> DEFINE whole == States(start, s \o t, fate)
           first == States(start, s, fate)
           then == States(middle, t, fate)
           rest == [j \in 0..Len(t) |-> whole[Len(s) + j]]
<1>0. /\ Len(s) \in Nat /\ Len(t) \in Nat /\ Len(s \o t) \in Nat
      /\ Len(s \o t) = Len(s) + Len(t)
      /\ \A i \in 1..Len(s) : (s \o t)[i] = s[i]
      /\ \A j \in 1..Len(t) : (s \o t)[Len(s) + j] = t[j]
  OBVIOUS
<1>1. /\ whole[0] = start
      /\ Steps(whole, s \o t, fate, Len(s \o t))
      /\ ParseFrom(start, s \o t, fate) = whole[Len(s \o t)]
  <2>1. PICK joined : joined = s \o t OBVIOUS
  <2>2. Len(joined) \in Nat BY <1>0, <2>1
  <2>3. /\ States(start, joined, fate)[0] = start
        /\ Steps(States(start, joined, fate), joined, fate, Len(joined))
        /\ ParseFrom(start, joined, fate) = States(start, joined, fate)[Len(joined)]
    BY <2>2, StatesSteps
  <2> QED BY <2>1, <2>3, Zenon
<1>2. /\ first[0] = start
      /\ Steps(first, s, fate, Len(s))
      /\ ParseFrom(start, s, fate) = first[Len(s)]
  BY <1>0, StatesSteps
<1>3. /\ then[0] = middle
      /\ Steps(then, t, fate, Len(t))
      /\ ParseFrom(middle, t, fate) = then[Len(t)]
  BY <1>0, StatesSteps
<1> HIDE DEF whole, first, then
<1>4. Steps(whole, s, fate, Len(s))
  <2>1. \A i \in 1..Len(s) : i \in 1..Len(s \o t) BY <1>0
  <2> QED BY <1>0, <1>1, <2>1 DEF Steps
<1>5. \A i \in 0..Len(s) : whole[i] = first[i]
  BY <1>0, <1>1, <1>2, <1>4, SameStates
<1>6. rest[0] = then[0]
  BY <1>0, <1>2, <1>3, <1>5
<1>7. Steps(rest, t, fate, Len(t))
  <2> SUFFICES ASSUME NEW j \in 1..Len(t) PROVE rest[j] = ParseByte(rest[j - 1], t[j], fate)
    BY DEF Steps
  <2>1. Len(s) + j \in 1..Len(s \o t) /\ (Len(s) + j) - 1 = Len(s) + (j - 1) BY <1>0
  <2>2. whole[Len(s) + j] = ParseByte(whole[Len(s) + (j - 1)], t[j], fate)
    BY <1>0, <1>1, <2>1 DEF Steps
  <2>3. j \in 0..Len(t) /\ j - 1 \in 0..Len(t) BY <1>0
  <2> QED BY <2>2, <2>3
<1> HIDE DEF rest
<1>8. \A j \in 0..Len(t) : rest[j] = then[j]
  BY <1>0, <1>3, <1>6, <1>7, SameStates
<1>9. \A j \in 0..Len(t) : whole[Len(s) + j] = then[j] BY <1>8 DEF rest
<1>10. ParseFrom(start, s \o t, fate) = ParseFrom(middle, t, fate)
  <2>1. Len(t) \in 0..Len(t) BY <1>0
  <2> QED BY <1>0, <1>1, <1>3, <1>9, <2>1
<1> QED BY <1>5, <1>9, <1>10 DEF whole, first, then

-----------------------------------------------------------------------------
(***************************************************************************)
(* The parser before and after a whole command, with this data.            *)
(***************************************************************************)
Ready(data) == Parser(data, Nothing, FALSE)

\* After the first j bytes of a command.
Amid(data, cmd, j) ==
    Parser(IF j = Length(cmd) THEN Run(data, cmd) ELSE data,
           IF j \in {0, Length(cmd)} THEN Nothing ELSE [cmd |-> cmd, got |-> j, clean |-> TRUE],
           FALSE)

(***************************************************************************)
(* A command is one byte long at least.                                    *)
(***************************************************************************)
LEMMA LengthType ==
    ASSUME NEW cmd
    PROVE  Length(cmd) \in 1..(Size + 1) \cup {2} /\ Length(cmd) \in Nat \ {0}
<1>1. Length(cmd) \in {1, Size + 1, 2}
  <2>1. CASE cmd.op \in {"PING", "DEL"} BY <2>1 DEF Length
  <2>2. CASE cmd.op \notin {"PING", "DEL"} /\ cmd.val \in BigString BY <2>2 DEF Length
  <2>3. CASE cmd.op \notin {"PING", "DEL"} /\ cmd.val \notin BigString BY <2>3 DEF Length
  <2> QED BY <2>1, <2>2, <2>3
<1> QED BY <1>1, BacklogAssumption

(***************************************************************************)
(* The bytes of a command are bytes of the stream.                         *)
(***************************************************************************)
LEMMA EncodeCommandType ==
    ASSUME NEW cmd \in Command
    PROVE  Encode(cmd) \in Seq(Byte) /\ Len(Encode(cmd)) = Length(cmd)
<1>1. Length(cmd) \in Nat /\ Length(cmd) \in 1..(Size + 1) BY LengthType, BacklogAssumption
<1>2. \A i \in 1..Length(cmd) : [cmd |-> cmd, part |-> i] \in Byte
  BY <1>1, BacklogAssumption, ReplicationAssumption DEF CommandByte
<1>3. Encode(cmd) \in [1..Length(cmd) -> Byte] BY <1>2 DEF Encode
<1> QED BY <1>1, <1>3

(***************************************************************************)
(* The next byte of a command takes the parser one byte further, and the   *)
(* last one runs the command.                                              *)
(***************************************************************************)
LEMMA AmidStep ==
    ASSUME NEW data, NEW cmd, NEW fate, NEW j \in 1..Length(cmd)
    PROVE  ParseByte(Amid(data, cmd, j - 1), Encode(cmd)[j], fate) = Amid(data, cmd, j)
<1> DEFINE state == Amid(data, cmd, j - 1)
           byte == [cmd |-> cmd, part |-> j]
           read == [cmd |-> cmd, got |-> j, clean |-> TRUE]
<1>1. Encode(cmd)[j] = byte BY DEF Encode
<1>2. Length(cmd) \in Nat \ {0} BY LengthType
<1>3. state.data = data /\ state.failed = FALSE
  <2>1. j - 1 # Length(cmd) BY <1>2
  <2> QED BY <2>1 DEF Amid, Parser
<1>4. Finish(state, read, fate) = Amid(data, cmd, j)
  <2>1. CASE j < Length(cmd)
    <3>1. Finish(state, read, fate) = Parser(state.data, read, state.failed)
      BY <2>1 DEF Finish
    <3>2. Amid(data, cmd, j) = Parser(data, read, FALSE)
      <4>1. j # Length(cmd) /\ j \notin {0, Length(cmd)} BY <1>2, <2>1
      <4> QED BY <4>1, Zenon DEF Amid
    <3> QED BY <1>3, <3>1, <3>2
  <2>2. CASE j = Length(cmd)
    <3>1. Finish(state, read, fate) = Parser(Run(state.data, cmd), Nothing, state.failed)
      BY <1>2, <2>2 DEF Finish
    <3>2. Amid(data, cmd, j) = Parser(Run(data, cmd), Nothing, FALSE)
      BY <1>2, <2>2 DEF Amid
    <3> QED BY <1>3, <3>1, <3>2
  <2> QED BY <1>2, <2>1, <2>2
<1>5. ParseByte(state, byte, fate) = Finish(state, read, fate)
  <2>1. CASE j = 1
    <3>1. state.partial.got = 0 BY <2>1 DEF Amid, Parser, Nothing
    <3> QED BY <2>1, <3>1 DEF ParseByte
  <2>2. CASE j > 1
    <3>1. PICK p : p = state.partial OBVIOUS
    <3>2. p = [cmd |-> cmd, got |-> j - 1, clean |-> TRUE]
      BY <1>2, <2>2, <3>1 DEF Amid, Parser
    <3>3. [cmd |-> p.cmd, got |-> p.got + 1,
           clean |-> IF byte = [cmd |-> p.cmd, part |-> p.got + 1] THEN p.clean ELSE FALSE] = read
      BY <3>2
    <3>4. p.got > 0 BY <2>2, <3>2
    <3> QED BY <3>1, <3>3, <3>4 DEF ParseByte
  <2> QED BY <2>1, <2>2
<1> QED BY <1>1, <1>4, <1>5

(***************************************************************************)
(* A chunk of whole commands.  It turns a parser without a fault into one  *)
(* that is ready and has this data, whatever the values are that would     *)
(* decide what to make of damaged bytes.                                   *)
(***************************************************************************)
Healthy(state) == state = Parser(state.data, state.partial, FALSE)

Brings(start, chunk, data) ==
    /\ chunk \in Seq(Byte)
    /\ \A fate : ParseFrom(start, chunk, fate) = Ready(data)
    /\ \A fate : \A i \in 0..Len(chunk) : Healthy(States(start, chunk, fate)[i])
    /\ \A fate, other : \A i \in 0..Len(chunk) :
          States(start, chunk, fate)[i] = States(start, chunk, other)[i]

(***************************************************************************)
(* No bytes leave the data as it is.                                       *)
(***************************************************************************)
LEMMA BringsNothing ==
    ASSUME NEW data
    PROVE  Brings(Ready(data), <<>>, data)
<1>1. \A fate : /\ States(Ready(data), <<>>, fate)[0] = Ready(data)
                /\ ParseFrom(Ready(data), <<>>, fate) = Ready(data)
  <2>1. Len(<<>>) = 0 OBVIOUS
  <2> QED BY <2>1, StatesSteps
<1>2. Healthy(Ready(data))
  BY DEF Healthy, Ready, Parser
<1>3. Len(<<>>) = 0 /\ <<>> \in Seq(Byte) OBVIOUS
<1> QED BY <1>1, <1>2, <1>3 DEF Brings

(***************************************************************************)
(* The bytes of one command run it.                                        *)
(***************************************************************************)
LEMMA BringsCommand ==
    ASSUME NEW data, NEW cmd \in Command
    PROVE  Brings(Ready(data), Encode(cmd), Run(data, cmd))
<1> DEFINE chunk == Encode(cmd)
           amid == [j \in 0..Length(cmd) |-> Amid(data, cmd, j)]
<1>1. Length(cmd) \in Nat \ {0} BY LengthType
<1>2. chunk \in Seq(Byte) /\ Len(chunk) = Length(cmd) BY EncodeCommandType
<1>3. ASSUME NEW fate PROVE Steps(amid, chunk, fate, Length(cmd))
  <2> SUFFICES ASSUME NEW j \in 1..Length(cmd) PROVE amid[j] = ParseByte(amid[j - 1], chunk[j], fate)
    BY DEF Steps
  <2>1. j \in 0..Length(cmd) /\ j - 1 \in 0..Length(cmd) BY <1>1
  <2> QED BY <2>1, AmidStep
<1>4. amid[0] = Ready(data)
  <2>1. 0 \in 0..Length(cmd) /\ 0 # Length(cmd) BY <1>1
  <2> QED BY <2>1 DEF Amid, Ready
<1> HIDE DEF chunk, amid
<1>5. ASSUME NEW fate
      PROVE  /\ \A i \in 0..Len(chunk) : States(Ready(data), chunk, fate)[i] = amid[i]
             /\ ParseFrom(Ready(data), chunk, fate) = amid[Len(chunk)]
  <2>1. Len(chunk) \in Nat BY <1>1, <1>2
  <2>2. /\ States(Ready(data), chunk, fate)[0] = amid[0]
        /\ Steps(States(Ready(data), chunk, fate), chunk, fate, Len(chunk))
        /\ ParseFrom(Ready(data), chunk, fate) = States(Ready(data), chunk, fate)[Len(chunk)]
    BY <1>4, <2>1, StatesSteps
  <2>3. Steps(amid, chunk, fate, Len(chunk)) BY <1>2, <1>3
  <2>4. \A i \in 0..Len(chunk) : States(Ready(data), chunk, fate)[i] = amid[i]
    BY <2>1, <2>2, <2>3, SameStates
  <2> QED BY <2>1, <2>2, <2>4
<1>6. \A i \in 0..Len(chunk) : Healthy(amid[i])
  BY <1>2 DEF amid, Amid, Parser, Healthy
<1>7. amid[Len(chunk)] = Ready(Run(data, cmd))
  <2>1. Length(cmd) \in 0..Length(cmd) /\ Length(cmd) \in {0, Length(cmd)} BY <1>1
  <2>2. Amid(data, cmd, Length(cmd)) = Ready(Run(data, cmd)) BY <2>1 DEF Amid, Ready
  <2> QED BY <1>2, <2>1, <2>2 DEF amid
<1>8. Brings(Ready(data), chunk, Run(data, cmd))
  BY <1>2, <1>5, <1>6, <1>7 DEF Brings
<1> QED BY <1>8 DEF chunk

(***************************************************************************)
(* One chunk after another does what they do in turn.                      *)
(***************************************************************************)
LEMMA BringsJoin ==
    ASSUME NEW start, NEW s, NEW t, NEW data, NEW more,
           Brings(start, s, data), Brings(Ready(data), t, more)
    PROVE  Brings(start, s \o t, more)
<1>1. /\ s \in Seq(Byte) /\ t \in Seq(Byte) /\ s \o t \in Seq(Byte)
      /\ Len(s) \in Nat /\ Len(t) \in Nat /\ Len(s \o t) = Len(s) + Len(t)
  BY DEF Brings
<1>2. ASSUME NEW fate
      PROVE  /\ \A i \in 0..Len(s) : States(start, s \o t, fate)[i] = States(start, s, fate)[i]
             /\ \A j \in 0..Len(t) :
                   States(start, s \o t, fate)[Len(s) + j] = States(Ready(data), t, fate)[j]
             /\ ParseFrom(start, s \o t, fate) = Ready(more)
  <2>1. ParseFrom(start, s, fate) = Ready(data) /\ ParseFrom(Ready(data), t, fate) = Ready(more)
    BY DEF Brings
  <2> QED BY <1>1, <2>1, StatesJoin
<1>3. ASSUME NEW fate, NEW other, NEW i \in 0..Len(s \o t)
      PROVE  /\ Healthy(States(start, s \o t, fate)[i])
             /\ States(start, s \o t, fate)[i] = States(start, s \o t, other)[i]
  <2>1. CASE i \in 0..Len(s) BY <1>2, <2>1 DEF Brings
  <2>2. CASE i \notin 0..Len(s)
    <3>1. PICK j \in 0..Len(t) : i = Len(s) + j
      <4>1. i - Len(s) \in 0..Len(t) /\ i = Len(s) + (i - Len(s)) BY <1>1, <2>2
      <4> QED BY <4>1
    <3>2. \A any : States(start, s \o t, any)[i] = States(Ready(data), t, any)[j]
      BY <1>2, <3>1
    <3>3. /\ Healthy(States(Ready(data), t, fate)[j])
          /\ States(Ready(data), t, fate)[j] = States(Ready(data), t, other)[j]
      BY DEF Brings
    <3> QED BY <3>2, <3>3
  <2> QED BY <2>1, <2>2
<1> QED BY <1>1, <1>2, <1>3 DEF Brings

(***************************************************************************)
(* What is left of such a chunk after it was cut anywhere is one too, for  *)
(* the parser that has read the rest.                                      *)
(***************************************************************************)
LEMMA BringsCut ==
    ASSUME NEW start, NEW s, NEW t, NEW data, NEW fate, s \in Seq(Byte), t \in Seq(Byte),
           Brings(start, s \o t, data)
    PROVE  LET state == ParseFrom(start, s, fate)
           IN  Healthy(state) /\ Brings(state, t, data)
<1> DEFINE state == ParseFrom(start, s, fate)
<1>1. /\ Len(s) \in Nat /\ Len(t) \in Nat /\ Len(s \o t) = Len(s) + Len(t)
  OBVIOUS
<1>2. ASSUME NEW other PROVE ParseFrom(start, s, other) = States(start, s \o t, other)[Len(s)]
  <2>1. Len(s) \in 0..Len(s) BY <1>1
  <2>2. ParseFrom(start, s, other) = States(start, s, other)[Len(s)] BY <1>1, StatesSteps
  <2> QED BY <2>1, <2>2, StatesJoin
<1>3. Len(s) \in 0..Len(s \o t) BY <1>1
<1>4. Healthy(state) /\ \A other : ParseFrom(start, s, other) = state
  BY <1>2, <1>3 DEF Brings
<1>5. ASSUME NEW other
      PROVE  /\ \A j \in 0..Len(t) : States(start, s \o t, other)[Len(s) + j] = States(state, t, other)[j]
             /\ ParseFrom(state, t, other) = Ready(data)
  <2>1. ParseFrom(start, s, other) = state /\ ParseFrom(start, s \o t, other) = Ready(data)
    BY <1>4 DEF Brings
  <2> HIDE DEF state
  <2> QED BY <2>1, StatesJoin
<1> HIDE DEF state
<1>6. \A j \in 0..Len(t) : Len(s) + j \in 0..Len(s \o t) BY <1>1
<1>7. ASSUME NEW any, NEW other, NEW j \in 0..Len(t)
      PROVE  /\ Healthy(States(state, t, any)[j])
             /\ States(state, t, any)[j] = States(state, t, other)[j]
  <2>1. PICK i \in 0..Len(s \o t) : i = Len(s) + j BY <1>6
  <2>2. /\ Healthy(States(start, s \o t, any)[i])
        /\ States(start, s \o t, any)[i] = States(start, s \o t, other)[i]
    BY DEF Brings
  <2>3. \A any1 : States(start, s \o t, any1)[i] = States(state, t, any1)[j]
    BY <1>5, <2>1
  <2> QED BY <2>2, <2>3
<1>8. Brings(state, t, data)
  BY <1>5, <1>7 DEF Brings
<1> QED BY <1>4, <1>8 DEF state

-----------------------------------------------------------------------------
(***************************************************************************)
(* The snapshot: each key the primary has, in whatever order, as a SET.    *)
(***************************************************************************)
LEMMA Enumeration ==
    ASSUME NEW S, IsFiniteSet(S)
    PROVE  /\ Cardinality(S) \in Nat
           /\ SetToSeq(S) \in [1..Cardinality(S) -> S]
           /\ \A i, j \in 1..Cardinality(S) : SetToSeq(S)[i] = SetToSeq(S)[j] => i = j
           /\ \A x \in S : \E i \in 1..Cardinality(S) : SetToSeq(S)[i] = x
<1> DEFINE n == Cardinality(S)  s == SetToSeq(S)
<1>1. n \in Nat /\ ExistsBijection(1..n, S) BY FS_CardinalityType
<1>2. PICK f \in Bijection(1..n, S) : TRUE BY <1>1 DEF ExistsBijection
<1>3. f \in [1..n -> S] /\ IsInjective(f) BY <1>2 DEF Bijection, Injection, IsInjective
<1>4. s \in [1..n -> S] /\ IsInjective(s) BY <1>3, Zenon DEF SetToSeq
<1> HIDE DEF s
<1>5. s \in Injection(1..n, S) BY <1>4 DEF Injection, IsInjective
<1>6. IsFiniteSet(1..n) /\ Cardinality(1..n) = n BY <1>1, FS_Interval
<1>7. s \in Surjection(1..n, S) BY <1>5, <1>6, FS_Injection
<1>8. \A x \in S : \E i \in 1..n : s[i] = x BY <1>7 DEF Surjection
<1> QED BY <1>1, <1>4, <1>8 DEF s, IsInjective

Then(before, next) == before \o next

\* The sequences joined so far.
Joins(joined, seqs, n) ==
    joined = [i \in 1..n |-> IF i = 1 THEN seqs[i] ELSE Then(joined[i - 1], seqs[i])]

(***************************************************************************)
(* There is such a sequence, of any length.                                *)
(***************************************************************************)
LEMMA JoinsExist ==
    ASSUME NEW seqs, NEW n \in Nat
    PROVE  \E joined : Joins(joined, seqs, n)
<1> DEFINE S == {m \in Nat : \E joined : Joins(joined, seqs, m)}
<1>1. 0 \in S
  <2> DEFINE f == [i \in 1..0 |-> seqs[i]]
  <2>1. Joins(f, seqs, 0) BY DEF Joins
  <2> QED BY <2>1
<1>2. ASSUME NEW m \in Nat, m \in S PROVE m + 1 \in S
  <2>1. PICK f : Joins(f, seqs, m) BY <1>2
  <2> DEFINE g == [i \in 1..(m + 1) |-> IF i <= m THEN f[i]
                                        ELSE IF i = 1 THEN seqs[1] ELSE Then(f[m], seqs[m + 1])]
  <2>2. ASSUME NEW i \in 1..(m + 1)
        PROVE  g[i] = IF i = 1 THEN seqs[i] ELSE Then(g[i - 1], seqs[i])
    <3>1. CASE i <= m
      <4>1. f[i] = IF i = 1 THEN seqs[i] ELSE Then(f[i - 1], seqs[i]) BY <2>1, <3>1 DEF Joins
      <4>2. i # 1 => g[i - 1] = f[i - 1] BY <3>1
      <4> QED BY <3>1, <4>1, <4>2
    <3>2. CASE i = m + 1 BY <3>2
    <3> QED BY <3>1, <3>2
  <2>3. Joins(g, seqs, m + 1) BY <2>2 DEF Joins
  <2> QED BY <2>3
<1> HIDE DEF S
<1>3. n \in S BY <1>1, <1>2, NatSetInduction
<1> QED BY <1>3 DEF S

(***************************************************************************)
(* FlattenSeq is the last of them.                                         *)
(***************************************************************************)
LEMMA FlattenJoins ==
    ASSUME NEW seqs, Len(seqs) \in Nat \ {0}
    PROVE  \E joined : /\ joined[1] = seqs[1]
                       /\ \A i \in 1..Len(seqs) : i # 1 => joined[i] = joined[i - 1] \o seqs[i]
                       /\ FlattenSeq(seqs) = joined[Len(seqs)]
<1> DEFINE joined == CHOOSE f : Joins(f, seqs, Len(seqs))
<1>1. Joins(joined, seqs, Len(seqs)) BY JoinsExist, Zenon
<1>2. FlattenSeq(seqs) = joined[Len(seqs)] BY Zenon DEF FlattenSeq, Joins, Then
<1> HIDE DEF joined
<1>3. PICK n \in Nat \ {0} : n = Len(seqs) OBVIOUS
<1>4. Joins(joined, seqs, n) BY <1>1, <1>3
<1>5. ASSUME NEW i \in 1..n
      PROVE  joined[i] = IF i = 1 THEN seqs[i] ELSE Then(joined[i - 1], seqs[i])
  BY <1>4 DEF Joins
<1>6. 1 \in 1..n BY <1>3
<1>7. joined[1] = seqs[1] BY <1>5, <1>6
<1>8. \A i \in 1..n : i # 1 => joined[i] = joined[i - 1] \o seqs[i]
  BY <1>5 DEF Then
<1> QED BY <1>2, <1>3, <1>7, <1>8

Loaded(store, data) == [k \in Key |-> IF store[k] # Absent THEN AsString(store[k]) ELSE data[k]]

(***************************************************************************)
(* The snapshot gives the replica the value of each key there is, a        *)
(* container as a string, and leaves the other keys alone.                 *)
(***************************************************************************)
LEMMA SnapshotBrings ==
    ASSUME NEW store \in [Key -> Value], NEW data \in [Key -> Value]
    PROVE  Brings(Ready(data), Snapshot(store), Loaded(store, data))
<1> DEFINE K == {k \in Key : store[k] # Absent}
           n == Cardinality(K)
           keys == SetToSeq(K)
           seqs == [i \in 1..Len(keys) |-> Encode(Loading(store, keys[i]))]
           upto(m) == [k \in Key |-> IF \E i \in 1..m : keys[i] = k THEN AsString(store[k])
                                     ELSE data[k]]
<1>1. IsFiniteSet(K) BY FS_Subset, ReplicationAssumption
<1> HIDE DEF keys
<1>2. /\ n \in Nat /\ keys \in [1..n -> K]
      /\ \A i, j \in 1..n : keys[i] = keys[j] => i = j
      /\ \A k \in K : \E i \in 1..n : keys[i] = k
  BY <1>1, Enumeration DEF keys
<1> HIDE DEF n
<1>3. keys \in Seq(K) /\ Len(keys) = n BY <1>2
<1>4. Snapshot(store) = FlattenSeq(seqs) BY DEF Snapshot, keys
<1>5. upto(n) = Loaded(store, data) BY <1>2 DEF Loaded
<1>6. upto(0) = data OBVIOUS
<1>7. ASSUME NEW m \in 1..n
      PROVE  Brings(Ready(upto(m - 1)), Encode(Loading(store, keys[m])), upto(m))
  <2>1. keys[m] \in K BY <1>2
  <2> DEFINE cmd == Loading(store, keys[m])
  <2>2. cmd \in Command
    BY <2>1, ReplicationAssumption DEF Loading, AsString, Command, ClientCommand, Value
  <2>3. Run(upto(m - 1), cmd) = upto(m)
    <3>1. Run(upto(m - 1), cmd) = [upto(m - 1) EXCEPT ![keys[m]] = AsString(store[keys[m]])]
      BY DEF Run, Loading, Fails
    <3>2. \A k : (\E i \in 1..m : keys[i] = k) <=> (k = keys[m] \/ \E i \in 1..(m - 1) : keys[i] = k)
      BY <1>2
    <3> QED BY <2>1, <3>1, <3>2
  <2> HIDE DEF cmd, upto
  <2>4. Brings(Ready(upto(m - 1)), Encode(cmd), Run(upto(m - 1), cmd)) BY <2>2, BringsCommand
  <2> QED BY <2>3, <2>4 DEF cmd
<1>8. CASE n = 0
  <2>1. seqs = <<>> /\ Len(seqs) = 0 BY <1>3, <1>8
  <2>2. Snapshot(store) = <<>> BY <1>4, <2>1 DEF FlattenSeq
  <2> HIDE DEF upto
  <2> QED BY <1>5, <1>6, <1>8, <2>2, BringsNothing
<1>9. CASE n # 0
  <2>1. Len(seqs) = n BY <1>2, <1>3
  <2>2. PICK joined : /\ joined[1] = seqs[1]
                      /\ \A i \in 1..n : i # 1 => joined[i] = joined[i - 1] \o seqs[i]
                      /\ FlattenSeq(seqs) = joined[n]
    BY <1>2, <1>9, <2>1, FlattenJoins
  <2>3. \A i \in 1..n : seqs[i] = Encode(Loading(store, keys[i])) BY <1>3
  <2> DEFINE S == {m \in Nat : m < n => Brings(Ready(data), joined[m + 1], upto(m + 1))}
  <2> HIDE DEF upto, seqs
  <2>4. 0 \in S
    <3>1. 1 \in 1..n /\ 1 - 1 = 0 /\ 0 + 1 = 1 BY <1>2, <1>9
    <3>2. Brings(Ready(upto(0)), joined[1], upto(1)) BY <1>7, <2>2, <2>3, <3>1
    <3> QED BY <1>6, <3>1, <3>2
  <2>5. ASSUME NEW m \in Nat, m \in S PROVE m + 1 \in S
    <3> SUFFICES ASSUME m + 1 < n PROVE Brings(Ready(data), joined[m + 2], upto(m + 2))
      BY DEF S
    <3>1. m + 2 \in 1..n /\ m + 2 # 1 /\ (m + 2) - 1 = m + 1 /\ m < n BY <1>2
    <3>2. joined[m + 2] = joined[m + 1] \o Encode(Loading(store, keys[m + 2]))
      BY <2>2, <2>3, <3>1
    <3>3. Brings(Ready(upto(m + 1)), Encode(Loading(store, keys[m + 2])), upto(m + 2))
      BY <1>7, <3>1
    <3>4. Brings(Ready(data), joined[m + 1], upto(m + 1)) BY <2>5, <3>1
    <3> QED BY <3>2, <3>3, <3>4, BringsJoin
  <2> HIDE DEF S
  <2>6. n - 1 \in Nat /\ n - 1 \in S BY <1>2, <1>9, <2>4, <2>5, NatSetInduction
  <2>7. Brings(Ready(data), joined[n], upto(n))
    <3>1. n - 1 < n /\ (n - 1) + 1 = n BY <1>2
    <3> QED BY <2>6, <3>1 DEF S
  <2> QED BY <1>4, <1>5, <2>2, <2>7
<1> QED BY <1>8, <1>9

-----------------------------------------------------------------------------
(***************************************************************************)
(* The bytes of a request are bytes of the stream.                         *)
(***************************************************************************)
LEMMA EncodeType ==
    ASSUME NEW cmd \in Requests
    PROVE  /\ cmd \in Command
           /\ Encode(cmd) \in Seq(Byte)
           /\ Len(Encode(cmd)) = Length(cmd)
           /\ Length(cmd) \in Nat
<1>1. cmd \in Command
  BY ReplicationAssumption DEF Command
<1>2. QED
  BY <1>1, EncodeCommandType, LengthType

(***************************************************************************)
(* The inductive invariant: the ring mirrors the stream for as long as no  *)
(* command has been as large as the ring.                                  *)
(***************************************************************************)
StreamInv ==
    /\ backlog \in Backlog
    /\ stream \in Seq(Byte)
    /\ overfed \in BOOLEAN
    /\ ~overfed => Mirrors(backlog, stream)

(***************************************************************************)
(* An empty ring mirrors the empty stream.                                 *)
(***************************************************************************)
LEMMA EmptyMirrors ==
    EmptyBacklog \in Backlog /\ Mirrors(EmptyBacklog, <<>>)
BY BacklogAssumption DEF EmptyBacklog, Backlog, Mirrors

(***************************************************************************)
(* Only a write and a restart of the primary change the ring.              *)
(***************************************************************************)
LEMMA StreamStep ==
    ASSUME StreamInv, [Next]_vars
    PROVE  StreamInv'
<1>1. CASE \E cmd \in Requests : Write(cmd)
  <2>1. PICK cmd \in Requests : Write(cmd)
    BY <1>1
  <2> DEFINE data == Encode(cmd)
  <2>2. /\ backlog' = Feed(backlog, data)
        /\ stream' = stream \o data
        /\ overfed' = (overfed \/ Length(cmd) >= Size)
    BY <2>1 DEF Write
  <2>3. data \in Seq(Byte) /\ Len(data) = Length(cmd) /\ Length(cmd) \in Nat
    BY EncodeType
  <2>4. backlog' \in Backlog
    BY <2>2, <2>3, FeedType DEF StreamInv
  <2>5. stream' \in Seq(Byte) /\ overfed' \in BOOLEAN
    BY <2>2, <2>3 DEF StreamInv
  <2>6. ~overfed' => Mirrors(backlog, stream)'
    <3> SUFFICES ASSUME ~overfed' PROVE Mirrors(backlog, stream)'
      OBVIOUS
    <3>1. Mirrors(backlog', stream') => Mirrors(backlog, stream)'
      BY DEF Mirrors
    <3>2. ~overfed /\ Len(data) < Size
      <4>1. ~overfed /\ ~(Length(cmd) >= Size)
        BY <2>2, Zenon
      <4>2. QED
        BY <2>3, <4>1, BacklogAssumption
    <3>3. Mirrors(Feed(backlog, data), stream \o data)
      BY <2>3, <3>2, FeedMirrors DEF StreamInv
    <3>4. QED
      BY <2>2, <3>1, <3>3
  <2>7. QED
    BY <2>4, <2>5, <2>6 DEF StreamInv
<1>2. CASE RestartPrimary
  <2>1. backlog' = EmptyBacklog /\ stream' = <<>> /\ overfed' = FALSE
    BY <1>2 DEF RestartPrimary
  <2>2. Mirrors(backlog', stream') => Mirrors(backlog, stream)'
    BY DEF Mirrors
  <2>3. <<>> \in Seq(Byte)
    OBVIOUS
  <2>4. QED
    BY <2>1, <2>2, <2>3, EmptyMirrors DEF StreamInv
<1>3. CASE UNCHANGED pvars
  BY <1>3 DEF pvars, StreamInv, Mirrors
<1>4. UNCHANGED pvars
        \/ RestartPrimary \/ \E cmd \in Requests : Write(cmd)
  <2>1. CASE Heartbeat
    BY <2>1 DEF Heartbeat
  <2>2. CASE HandlePsync
    BY <2>2 DEF HandlePsync
  <2>3. CASE Connect
    BY <2>3 DEF Connect
  <2>4. CASE ReadReply
    BY <2>4 DEF ReadReply
  <2>5. CASE ReceiveSome
    BY <2>5 DEF ReceiveSome, Receive
  <2>6. CASE LoseConnection
    BY <2>6 DEF LoseConnection
  <2>7. CASE ReplicaOf
    BY <2>7 DEF ReplicaOf
  <2>8. CASE UNCHANGED vars
    BY <2>8 DEF vars
  <2>9. QED
    BY <2>1, <2>2, <2>3, <2>4, <2>5, <2>6, <2>7, <2>8 DEF Next
<1>5. QED
  BY <1>1, <1>2, <1>3, <1>4

(***************************************************************************)
(* The initial ring mirrors the initial stream.                            *)
(***************************************************************************)
LEMMA StreamInit ==
    ASSUME Init
    PROVE  StreamInv
<1>1. backlog = EmptyBacklog /\ stream = <<>> /\ overfed = FALSE
  BY DEF Init
<1>2. <<>> \in Seq(Byte)
  OBVIOUS
<1>3. QED
  BY <1>1, <1>2, EmptyMirrors DEF StreamInv

(***************************************************************************)
(* A ring that mirrors the stream returns it from every offset it holds.   *)
(***************************************************************************)
LEMMA StreamHeld ==
    ASSUME StreamInv
    PROVE  BacklogHoldsStream
<1>1. SUFFICES ASSUME ~overfed, NEW from \in 0..Len(stream), InBacklog(backlog, from)
               PROVE  DataSince(backlog, from) = SubSeq(stream, from + 1, Len(stream))
  BY DEF BacklogHoldsStream
<1>2. QED
  BY <1>1, DataSinceMirrors DEF StreamInv

(***************************************************************************)
(* What get_data_since_offset returns for an offset that                   *)
(* is_offset_in_backlog accepts is the stream from that offset on, for     *)
(* every backlog size and every sequence of smaller commands, wherever     *)
(* they wrap around.                                                       *)
(***************************************************************************)
THEOREM BacklogIsTheStream ==
    Spec => []BacklogHoldsStream
<1>1. Init => StreamInv
  BY StreamInit
<1>2. StreamInv /\ [Next]_vars => StreamInv'
  BY StreamStep
<1>3. StreamInv => BacklogHoldsStream
  BY StreamHeld
<1>4. QED
  BY <1>1, <1>2, <1>3, PTL DEF Spec

-----------------------------------------------------------------------------
(***************************************************************************)
(* Counting the bytes of the stream that are on their way: those behind    *)
(* the first loading bytes that are not of a heartbeat.                    *)
(***************************************************************************)
Counted(rest, loading) == {i \in 1..Len(rest) : i > loading /\ rest[i].cmd # Ping}

Pending(rest, loading) == Cardinality(Counted(rest, loading))

\* A snapshot of which n bytes were read.
Remaining(loading, n) == IF loading > n THEN loading - n ELSE 0

(***************************************************************************)
(* There are no more of them than bytes behind the snapshot.               *)
(***************************************************************************)
LEMMA PendingType ==
    ASSUME NEW rest, Len(rest) \in Nat, NEW loading \in Nat, loading <= Len(rest)
    PROVE  /\ IsFiniteSet(Counted(rest, loading))
           /\ Pending(rest, loading) \in Nat
           /\ Pending(rest, loading) <= Len(rest) - loading
<1> DEFINE S == Counted(rest, loading)
<1>1. PICK n \in Nat : n = Len(rest) OBVIOUS
<1>2. IsFiniteSet((loading + 1)..n) /\ Cardinality((loading + 1)..n) = n - loading
  <2>1. loading <= n /\ loading + 1 \in Int /\ n \in Int BY <1>1
  <2>2. (n - (loading + 1)) + 1 = n - loading /\ (loading + 1 > n => n - loading = 0) BY <2>1
  <2>3. /\ IsFiniteSet((loading + 1)..n)
        /\ Cardinality((loading + 1)..n) = IF loading + 1 > n THEN 0 ELSE n - (loading + 1) + 1
    BY <2>1, FS_Interval
  <2> QED BY <2>2, <2>3
<1>3. S \in SUBSET ((loading + 1)..n) BY <1>1 DEF Counted
<1> HIDE DEF S
<1>4. IsFiniteSet(S) /\ Cardinality(S) <= n - loading BY <1>2, <1>3, FS_Subset
<1>5. Cardinality(S) \in Nat BY <1>4, FS_CardinalityType
<1> QED BY <1>1, <1>4, <1>5 DEF S, Pending

(***************************************************************************)
(* If no byte is a heartbeat's, every one behind the snapshot counts.      *)
(***************************************************************************)
LEMMA PendingAll ==
    ASSUME NEW rest, Len(rest) \in Nat, \A i \in 1..Len(rest) : rest[i].cmd # Ping
    PROVE  Pending(rest, 0) = Len(rest)
<1>1. PICK n \in Nat : n = Len(rest) OBVIOUS
<1>2. Counted(rest, 0) = 1..n BY <1>1 DEF Counted
<1>3. Cardinality(1..n) = n BY FS_Interval
<1> QED BY <1>1, <1>2, <1>3 DEF Pending

(***************************************************************************)
(* Nothing behind a snapshot that is all there is.                         *)
(***************************************************************************)
LEMMA PendingNone ==
    ASSUME NEW rest, Len(rest) \in Nat
    PROVE  Pending(rest, Len(rest)) = 0
<1>1. Counted(rest, Len(rest)) = {} BY DEF Counted
<1> QED BY <1>1, FS_EmptySet DEF Pending

(***************************************************************************)
(* A command of a client adds its bytes, a heartbeat none.                 *)
(***************************************************************************)
LEMMA PendingAppend ==
    ASSUME NEW rest \in Seq(Byte), NEW loading \in Nat, loading <= Len(rest), NEW cmd \in Command
    PROVE  Pending(rest \o Encode(cmd), loading)
              = Pending(rest, loading) + (IF cmd = Ping THEN 0 ELSE Length(cmd))
<1>1. PICK n \in Nat : n = Len(rest) OBVIOUS
<1>2. PICK m \in Nat \ {0} : m = Length(cmd) BY LengthType
<1>3. PICK whole : whole = rest \o Encode(cmd) OBVIOUS
<1>4. /\ Len(whole) = n + m
      /\ \A i \in 1..n : whole[i] = rest[i]
      /\ \A i \in (n + 1)..(n + m) : whole[i].cmd = cmd
  <2>1. Encode(cmd) \in Seq(Byte) /\ Len(Encode(cmd)) = m BY <1>2, EncodeCommandType
  <2>0. PICK last \in Seq(Byte) : last = Encode(cmd) BY <2>1
  <2>2. Len(whole) = n + m /\ \A i \in 1..n : whole[i] = rest[i]
    <3>1. /\ Len(rest \o last) = Len(rest) + Len(last)
          /\ \A i \in 1..Len(rest) : (rest \o last)[i] = rest[i]
      OBVIOUS
    <3>2. whole = rest \o last /\ Len(last) = m BY <1>3, <2>0, <2>1
    <3> QED BY <1>1, <3>1, <3>2
  <2>3. ASSUME NEW i \in (n + 1)..(n + m) PROVE whole[i].cmd = cmd
    <3>1. i - n \in 1..m /\ i \in 1..(n + m) /\ i > n OBVIOUS
    <3>2. whole[i] = Encode(cmd)[i - n] BY <1>1, <1>3, <2>0, <2>1, <3>1
    <3>3. Encode(cmd)[i - n] = [cmd |-> cmd, part |-> i - n] BY <1>2, <3>1 DEF Encode
    <3> QED BY <3>2, <3>3
  <2> QED BY <2>2, <2>3
<1>5. CASE cmd = Ping
  <2>1. Counted(whole, loading) = Counted(rest, loading)
    BY <1>1, <1>4, <1>5 DEF Counted
  <2>2. Pending(rest, loading) \in Nat BY <1>1, PendingType
  <2> QED BY <1>3, <1>5, <2>1, <2>2 DEF Pending
<1>6. CASE cmd # Ping
  <2> DEFINE S == Counted(rest, loading)  T == (n + 1)..(n + m)
  <2>1. Counted(whole, loading) = S \cup T
    BY <1>1, <1>4, <1>6 DEF Counted
  <2>2. S \cap T = {} BY <1>1 DEF Counted
  <2>3. IsFiniteSet(S) /\ Cardinality(S) \in Nat BY <1>1, PendingType DEF Pending
  <2>4. IsFiniteSet(T) /\ Cardinality(T) = m BY FS_Interval
  <2> HIDE DEF S, T
  <2>5. Cardinality(S \cup T) = Cardinality(S) + m
    <3>1. Cardinality(S \cap T) = 0 BY <2>2, FS_EmptySet
    <3>2. Cardinality(S \cup T) = Cardinality(S) + Cardinality(T) - Cardinality(S \cap T)
      BY <2>3, <2>4, FS_Union
    <3> QED BY <2>3, <2>4, <3>1, <3>2
  <2> QED BY <1>2, <1>3, <1>6, <2>1, <2>5 DEF Pending, S
<1> QED BY <1>5, <1>6

(***************************************************************************)
(* Of the first n bytes at most n count.                                   *)
(***************************************************************************)
LEMMA PendingCut ==
    ASSUME NEW rest \in Seq(Byte), NEW loading \in Nat, loading <= Len(rest),
           NEW n \in 1..Len(rest)
    PROVE  LET left == SubSeq(rest, n + 1, Len(rest))
           IN  /\ left \in Seq(Byte)
               /\ Len(left) = Len(rest) - n
               /\ Remaining(loading, n) \in Nat
               /\ Remaining(loading, n) <= Len(left)
               /\ Pending(left, Remaining(loading, n)) \in Nat
               /\ Pending(left, Remaining(loading, n)) <= Pending(rest, loading)
               /\ Pending(left, Remaining(loading, n)) + n >= Pending(rest, loading)
<1>1. PICK w \in Nat : w = Len(rest) OBVIOUS
<1>2. PICK left : left = SubSeq(rest, n + 1, w) OBVIOUS
<1>3. PICK l \in Nat : l = Remaining(loading, n) BY DEF Remaining
<1>4. n \in Nat /\ n <= w /\ n >= 1 BY <1>1
<1>5. left \in Seq(Byte) /\ Len(left) = w - n /\ \A i \in 1..(w - n) : left[i] = rest[n + i]
  BY <1>1, <1>2, <1>4
<1>6. l <= w - n BY <1>1, <1>3, <1>4 DEF Remaining
<1> DEFINE S == Counted(rest, loading)  T == Counted(left, l)
           f == [i \in T |-> i + n]
           g == [i \in S \ 1..n |-> i - n]
<1>7. IsFiniteSet(S) /\ Cardinality(S) \in Nat BY <1>1, PendingType DEF Pending
<1>8. IsFiniteSet(T) /\ Cardinality(T) \in Nat BY <1>4, <1>5, <1>6, PendingType DEF Pending
<1>9. ASSUME NEW i \in T PROVE i + n \in S /\ i \in Int
  <2>1. i \in 1..(w - n) /\ i > l /\ left[i].cmd # Ping BY <1>5 DEF Counted
  <2>2. i + n \in 1..w /\ i + n > loading BY <1>3, <1>4, <2>1 DEF Remaining
  <2>3. left[i] = rest[n + i] BY <1>5, <2>1
  <2>4. n + i = i + n BY <1>4, <2>1
  <2> QED BY <1>1, <2>1, <2>2, <2>3, <2>4 DEF Counted
<1>10. ASSUME NEW i \in S \ 1..n PROVE i - n \in T /\ i \in Int
  <2>1. i \in 1..w /\ i > loading /\ rest[i].cmd # Ping /\ i > n BY <1>1, <1>4 DEF Counted
  <2>2. PICK j \in 1..(w - n) : i = n + j
    <3>1. i - n \in 1..(w - n) /\ i = n + (i - n) BY <1>4, <2>1
    <3> QED BY <3>1
  <2>3. left[j] = rest[i] BY <1>5, <2>2
  <2>4. j > l BY <1>3, <1>4, <2>1, <2>2 DEF Remaining
  <2>5. i - n = j BY <1>4, <2>2
  <2> QED BY <1>5, <2>1, <2>2, <2>3, <2>4, <2>5 DEF Counted
<1> HIDE DEF S, T
<1>11. f \in Injection(T, S)
  <2>1. f \in [T -> S] BY <1>9
  <2>2. \A i, j \in T : f[i] = f[j] => i = j BY <1>4, <1>9
  <2> QED BY <2>1, <2>2 DEF Injection, IsInjective
<1>12. g \in Injection(S \ 1..n, T)
  <2>1. g \in [S \ 1..n -> T] BY <1>10
  <2>2. \A i, j \in S \ 1..n : g[i] = g[j] => i = j BY <1>4, <1>10
  <2> QED BY <2>1, <2>2 DEF Injection, IsInjective
<1> HIDE DEF f, g
<1>13. Cardinality(T) <= Cardinality(S) BY <1>7, <1>11, FS_Injection
<1>14. IsFiniteSet(S \ 1..n) /\ Cardinality(S \ 1..n) <= Cardinality(T)
  BY <1>8, <1>12, FS_Injection
<1>15. Cardinality(S) <= Cardinality(S \ 1..n) + n
  <2>1. IsFiniteSet(1..n) /\ Cardinality(1..n) = n BY <1>4, FS_Interval
  <2>2. IsFiniteSet((S \ 1..n) \cup 1..n)
        /\ Cardinality((S \ 1..n) \cup 1..n) = Cardinality(S \ 1..n) + n - Cardinality((S \ 1..n) \cap 1..n)
    BY <1>14, <2>1, FS_Union
  <2>3. Cardinality((S \ 1..n) \cap 1..n) = 0
    <3>1. (S \ 1..n) \cap 1..n = {} OBVIOUS
    <3> QED BY <3>1, FS_EmptySet
  <2>4. S \in SUBSET ((S \ 1..n) \cup 1..n) OBVIOUS
  <2>5. Cardinality(S) <= Cardinality((S \ 1..n) \cup 1..n) BY <2>2, <2>4, FS_Subset
  <2>6. Cardinality(S \ 1..n) \in Nat BY <1>14, FS_CardinalityType
  <2> QED BY <1>4, <1>7, <2>2, <2>3, <2>5, <2>6
<1>16. Cardinality(T) + n >= Cardinality(S)
  <2>1. Cardinality(S \ 1..n) \in Nat BY <1>14, FS_CardinalityType
  <2> QED BY <1>4, <1>7, <1>8, <1>14, <1>15, <2>1
<1>17. Pending(rest, loading) = Cardinality(S) /\ Pending(left, l) = Cardinality(T)
  BY DEF S, T, Pending
<1>18. /\ left \in Seq(Byte) /\ Len(left) = w - n /\ l <= Len(left) /\ l \in Nat
       /\ Pending(left, l) \in Nat
       /\ Pending(left, l) <= Pending(rest, loading)
       /\ Pending(left, l) + n >= Pending(rest, loading)
  BY <1>5, <1>6, <1>8, <1>13, <1>16, <1>17
<1> QED BY <1>1, <1>2, <1>3, <1>18

-----------------------------------------------------------------------------
(***************************************************************************)
(* What a parser holds.                                                    *)
(***************************************************************************)
Reading == [cmd : Command, got : Nat, clean : BOOLEAN]

ParserOK(state) == state.data \in [Key -> Value] /\ state.partial \in Reading

(***************************************************************************)
(* A command leaves values.                                                *)
(***************************************************************************)
LEMMA RunType ==
    ASSUME NEW data \in [Key -> Value], NEW cmd \in Command
    PROVE  Run(data, cmd) \in [Key -> Value]
<1>1. CASE cmd.op = "PING" \/ Fails(data, cmd)
  <2>1. Run(data, cmd) = data
    <3>1. CASE cmd.op = "PING" BY <3>1 DEF Run, Fails
    <3>2. CASE Fails(data, cmd)
      <4>1. cmd.op = "PUSH" BY <3>2 DEF Fails
      <4> QED BY <3>2, <4>1 DEF Run
    <3> QED BY <1>1, <3>1, <3>2
  <2> QED BY <2>1
<1>2. CASE cmd.op = "PUSH" /\ ~Fails(data, cmd)
  <2>1. Run(data, cmd) = [data EXCEPT ![cmd.key] = Container] BY <1>2 DEF Run
  <2> QED BY <2>1 DEF Value
<1>3. CASE cmd.op \in {"SET", "DEL"}
  <2>1. Run(data, cmd) = [data EXCEPT ![cmd.key] = cmd.val] BY <1>3 DEF Run, Fails
  <2>2. cmd.val \in Value BY <1>3, ReplicationAssumption DEF Command, ClientCommand, Value
  <2> QED BY <2>1, <2>2
<1>4. cmd.op \in {"PING", "PUSH", "SET", "DEL"} BY DEF Command, ClientCommand
<1> QED BY <1>1, <1>2, <1>3, <1>4

(***************************************************************************)
(* A parser that has begun nothing.                                        *)
(***************************************************************************)
LEMMA NothingType == Nothing \in Reading
<1>1. Ping \in Command BY DEF Ping, Command
<1> QED BY <1>1 DEF Nothing, Reading

(***************************************************************************)
(* A command that is complete leaves a parser of its type, whatever its    *)
(* bytes were.                                                             *)
(***************************************************************************)
LEMMA FinishType ==
    ASSUME NEW state, ParserOK(state), NEW read \in Reading, NEW fate \in String \cup {"error"}
    PROVE  ParserOK(Finish(state, read, fate))
<1>0. read.cmd \in Command BY DEF Reading
<1>1. CASE read.got < Length(read.cmd)
  <2>1. Finish(state, read, fate) = Parser(state.data, read, state.failed) BY <1>1 DEF Finish
  <2> QED BY <2>1 DEF ParserOK, Parser
<1>2. CASE ~(read.got < Length(read.cmd)) /\ read.clean
  <2>1. Finish(state, read, fate) = Parser(Run(state.data, read.cmd), Nothing, state.failed)
    BY <1>2 DEF Finish
  <2> QED BY <1>0, <2>1, RunType, NothingType DEF ParserOK, Parser
<1>3. CASE /\ ~(read.got < Length(read.cmd)) /\ ~read.clean
           /\ fate = "error" \/ read.cmd.op # "SET"
  <2>1. Finish(state, read, fate) = Parser(state.data, state.partial, TRUE) BY <1>3 DEF Finish
  <2> QED BY <2>1 DEF ParserOK, Parser
<1>4. CASE /\ ~(read.got < Length(read.cmd)) /\ ~read.clean
           /\ ~(fate = "error" \/ read.cmd.op # "SET")
  <2>1. Finish(state, read, fate)
          = Parser([state.data EXCEPT ![read.cmd.key] = fate], Nothing, state.failed)
    BY <1>4 DEF Finish
  <2>2. fate \in Value BY <1>4 DEF Value
  <2>3. PICK data \in [Key -> Value] : data = state.data BY DEF ParserOK
  <2>4. [data EXCEPT ![read.cmd.key] = fate] \in [Key -> Value] BY <2>2
  <2>5. Finish(state, read, fate).data \in [Key -> Value]
    BY <2>1, <2>3, <2>4 DEF Parser
  <2>6. Finish(state, read, fate).partial = Nothing BY <2>1 DEF Parser
  <2> QED BY <2>5, <2>6, NothingType DEF ParserOK
<1> QED BY <1>1, <1>2, <1>3, <1>4

(***************************************************************************)
(* So does one byte.                                                       *)
(***************************************************************************)
LEMMA ParseByteType ==
    ASSUME NEW state, ParserOK(state), NEW byte \in CommandByte, NEW fate \in String \cup {"error"}
    PROVE  ParserOK(ParseByte(state, byte, fate))
<1> DEFINE read == state.partial
           next == [cmd |-> read.cmd, got |-> read.got + 1,
                    clean |-> IF byte = [cmd |-> read.cmd, part |-> read.got + 1]
                              THEN read.clean ELSE FALSE]
           begun == [cmd |-> byte.cmd, got |-> 1, clean |-> TRUE]
<1>1. CASE read.got > 0
  <2>1. ParseByte(state, byte, fate) = Finish(state, next, fate) BY <1>1 DEF ParseByte
  <2>2. PICK held \in Reading : held = read BY DEF ParserOK
  <2>3. (IF byte = [cmd |-> held.cmd, part |-> held.got + 1] THEN held.clean ELSE FALSE) \in BOOLEAN
    BY DEF Reading
  <2>4. held.cmd \in Command /\ held.got + 1 \in Nat BY DEF Reading
  <2>5. next \in Reading BY <2>2, <2>3, <2>4 DEF Reading
  <2> QED BY <2>1, <2>5, FinishType
<1>2. CASE ~(read.got > 0) /\ byte.part = 1
  <2>1. ParseByte(state, byte, fate) = Finish(state, begun, fate) BY <1>2 DEF ParseByte
  <2>2. begun \in Reading BY DEF CommandByte, Reading
  <2> QED BY <2>1, <2>2, FinishType
<1>3. CASE ~(read.got > 0) /\ byte.part # 1
  <2>1. ParseByte(state, byte, fate)
          = Parser(state.data, read, IF fate = "error" THEN TRUE ELSE state.failed)
    BY <1>3 DEF ParseByte
  <2> QED BY <2>1 DEF ParserOK, Parser
<1> QED BY <1>1, <1>2, <1>3

(***************************************************************************)
(* So does a chunk.                                                        *)
(***************************************************************************)
LEMMA ParseFromType ==
    ASSUME NEW start, ParserOK(start), NEW chunk \in Seq(CommandByte),
           NEW fate \in String \cup {"error"}
    PROVE  ParserOK(ParseFrom(start, chunk, fate))
<1> DEFINE n == Len(chunk)
           states == States(start, chunk, fate)
           S == {i \in Nat : i <= n => ParserOK(states[i])}
<1>1. n \in Nat OBVIOUS
<1>2. /\ states[0] = start
      /\ Steps(states, chunk, fate, n)
      /\ ParseFrom(start, chunk, fate) = states[n]
  BY <1>1, StatesSteps
<1> HIDE DEF states
<1>3. 0 \in S BY <1>2
<1>4. ASSUME NEW i \in Nat, i \in S PROVE i + 1 \in S
  <2> SUFFICES ASSUME i + 1 <= n PROVE ParserOK(states[i + 1]) OBVIOUS
  <2>1. i + 1 \in 1..n /\ (i + 1) - 1 = i /\ ParserOK(states[i]) BY <1>4
  <2>2. chunk[i + 1] \in CommandByte BY <2>1, ElementOfSeq
  <2>3. states[i + 1] = ParseByte(states[i], chunk[i + 1], fate) BY <1>2, <2>1 DEF Steps
  <2> QED BY <2>1, <2>2, <2>3, ParseByteType
<1> HIDE DEF S
<1>5. \A i \in Nat : i \in S BY <1>3, <1>4, NatSetInduction
<1> QED BY <1>1, <1>2, <1>5 DEF S

-----------------------------------------------------------------------------
(***************************************************************************)
(* The window of the ring ends where the stream does or before, and after  *)
(* a command as large as the ring no slot of it is unwritten.              *)
(***************************************************************************)
RingInv ==
    /\ backlog.first <= backlog.master
    /\ backlog.master - backlog.first <= Size
    /\ backlog.master <= Len(stream)
    /\ overfed => backlog.buffer \in [Slot -> Byte]

(***************************************************************************)
(* The inductive invariant of the types, in parts: the primary, the        *)
(* replica and the connection between them, where a snapshot is no longer  *)
(* than what is on its way, and no more of the stream is on its way than   *)
(* there is.                                                               *)
(***************************************************************************)
PrimaryOK ==
    /\ keyspace \in [Key -> Value]
    /\ replid \in Nat \ {0}
    /\ StreamInv /\ RingInv

ReplicaOK ==
    /\ copy \in [Key -> Value]
    /\ source \in Nat
    /\ offset \in Nat \cup {-1} /\ reached \in Nat

ConnectionOK ==
    /\ link \in {"down", "syncing", "replied", "streaming"}
    /\ reply \in [full : BOOLEAN, replid : Nat, offset : Nat] \cup {NoReply}
    /\ link = "replied" => reply # NoReply
    /\ channel \in Seq(Byte)
    /\ partial \in Reading
    /\ full \in BOOLEAN /\ stale \subseteq Key
    /\ snapshot \in Nat /\ snapshot <= Len(channel)

PendingOK == Pending(channel, snapshot) <= Len(stream)

TypeInv == PrimaryOK /\ ReplicaOK /\ ConnectionOK /\ PendingOK

(***************************************************************************)
(* Feeding keeps the window inside the ring, counts no more bytes than     *)
(* were fed, and leaves no slot unwritten if none was or all are written   *)
(* now.                                                                    *)
(***************************************************************************)
LEMMA FeedRing ==
    ASSUME NEW ring \in Backlog, NEW data \in Seq(Byte),
           ring.first <= ring.master, ring.master - ring.first <= Size
    PROVE  LET fed == Feed(ring, data)
           IN  /\ fed.first <= fed.master
               /\ fed.master - fed.first <= Size
               /\ fed.master <= ring.master + Len(data)
               /\ Len(data) >= Size \/ ring.buffer \in [Slot -> Byte]
                     => fed.buffer \in [Slot -> Byte]
<1>0. /\ ring.master \in Nat /\ ring.first \in Nat /\ Size \in Nat \ {0} /\ Len(data) \in Nat
  BY BacklogAssumption DEF Backlog
<1>1. CASE Len(data) >= Size
  <2>1. /\ Feed(ring, data).master = ring.master + Size
        /\ Feed(ring, data).first = ring.master
        /\ Feed(ring, data).buffer = [i \in Slot |-> data[Len(data) - Size + i + 1]]
    BY <1>1 DEF Feed, FeedWhole
  <2>2. ASSUME NEW i \in Slot PROVE data[Len(data) - Size + i + 1] \in Byte
    <3>1. Len(data) - Size + i + 1 \in 1..Len(data) BY <1>0, <1>1 DEF Slot
    <3> QED BY <3>1, ElementOfSeq
  <2>3. Feed(ring, data).buffer \in [Slot -> Byte] BY <2>1, <2>2
  <2>4. ring.master <= ring.master + Size /\ (ring.master + Size) - ring.master <= Size
        /\ ring.master + Size <= ring.master + Len(data)
    BY <1>0, <1>1
  <2> QED BY <2>1, <2>3, <2>4
<1>2. CASE ~(Len(data) >= Size)
  <2> DEFINE idx == ring.master % Size
  <2>1. idx \in 0..(Size - 1) BY <1>0
  <2>2. /\ Feed(ring, data).master = ring.master + Len(data)
        /\ Feed(ring, data).first = IF ring.master + Len(data) - ring.first > Size
                                    THEN ring.master + Len(data) - Size ELSE ring.first
        /\ Feed(ring, data).buffer = WrapFrom(ring.buffer, idx, data)
    <3>1. Feed(ring, data) = FeedPart(ring, data) BY <1>2, Zenon DEF Feed
    <3>2. /\ Feed(ring, data).master = ring.master + Len(data)
          /\ Feed(ring, data).buffer = WrapFrom(ring.buffer, idx, data)
      BY <3>1 DEF FeedPart
    <3>3. Feed(ring, data).first = IF ring.master + Len(data) - ring.first > Size
                                   THEN ring.master + Len(data) - Size ELSE ring.first
      BY <1>0, <3>1 DEF FeedPart
    <3> QED BY <3>2, <3>3
  <2> HIDE DEF idx
  <2>3. ASSUME ring.buffer \in [Slot -> Byte], NEW i \in Slot
        PROVE  WrapFrom(ring.buffer, idx, data)[i] \in Byte
    <3>0. i \in 0..(Size - 1) BY DEF Slot
    <3>1. CASE idx <= i /\ i < idx + Len(data)
      <4>1. i - idx + 1 \in 1..Len(data) BY <1>0, <2>1, <3>0, <3>1
      <4>2. data[i - idx + 1] \in Byte BY <4>1, ElementOfSeq
      <4> QED BY <3>1, <4>2 DEF WrapFrom
    <3>2. CASE ~(idx <= i /\ i < idx + Len(data)) /\ i + Size < idx + Len(data)
      <4>1. i + Size - idx + 1 \in 1..Len(data) BY <1>0, <2>1, <3>0, <3>2
      <4>2. data[i + Size - idx + 1] \in Byte BY <4>1, ElementOfSeq
      <4>3. WrapFrom(ring.buffer, idx, data)[i] = data[i + Size - idx + 1]
        BY <3>2 DEF WrapFrom
      <4> QED BY <4>2, <4>3
    <3>3. CASE ~(idx <= i /\ i < idx + Len(data)) /\ ~(i + Size < idx + Len(data))
      <4>1. ring.buffer[i] \in Byte BY <2>3
      <4> QED BY <3>3, <4>1 DEF WrapFrom
    <3> QED BY <3>1, <3>2, <3>3
  <2>4. ring.buffer \in [Slot -> Byte] => WrapFrom(ring.buffer, idx, data) \in [Slot -> Byte]
    BY <2>3 DEF WrapFrom
  <2> QED BY <1>0, <1>2, <2>2, <2>4
<1> QED BY <1>1, <1>2

(***************************************************************************)
(* What the ring returns are bytes of commands, and none before its first. *)
(***************************************************************************)
LEMMA DataSinceType ==
    ASSUME StreamInv, RingInv, NEW from \in Int, InBacklog(backlog, from)
    PROVE  /\ from \in Nat
           /\ from <= backlog.master
           /\ DataSince(backlog, from) \in Seq(Byte)
           /\ Len(DataSince(backlog, from)) = backlog.master - from
<1> DEFINE m == backlog.master
           idx == from % Size
           slot(i) == IF idx + i <= Size THEN idx + i - 1 ELSE idx + i - 1 - Size
<1>1. /\ m \in Nat /\ backlog.first \in Nat /\ Size \in Nat \ {0}
      /\ backlog.first <= m /\ m - backlog.first <= Size /\ m <= Len(stream)
      /\ stream \in Seq(Byte)
  BY BacklogAssumption DEF Backlog, StreamInv, RingInv
<1>2. from \in Nat /\ from <= m BY <1>1 DEF InBacklog
<1>3. m - from \in Nat /\ m - from <= Size BY <1>1, <1>2 DEF InBacklog
<1>4. idx \in 0..(Size - 1) BY <1>1, <1>2, SlotAfter
<1>5. DataSince(backlog, from) = [i \in 1..(m - from) |-> backlog.buffer[slot(i)]]
  BY DEF DataSince
<1>6. CASE overfed
  <2>1. ASSUME NEW i \in 1..(m - from) PROVE slot(i) \in Slot
    BY <1>1, <1>3, <1>4 DEF Slot
  <2>2. backlog.buffer \in [Slot -> Byte] BY <1>6 DEF RingInv
  <2>3. [i \in 1..(m - from) |-> backlog.buffer[slot(i)]] \in [1..(m - from) -> Byte]
    BY <2>1, <2>2
  <2> QED BY <1>2, <1>3, <1>5, <2>3
<1>7. CASE ~overfed
  <2>1. Mirrors(backlog, stream) /\ backlog \in Backlog BY <1>7 DEF StreamInv
  <2>2. m = Len(stream) /\ from \in 0..Len(stream) BY <1>1, <1>2, <2>1 DEF Mirrors
  <2>3. DataSince(backlog, from) = SubSeq(stream, from + 1, Len(stream))
    BY <1>1, <2>1, <2>2, DataSinceMirrors
  <2>4. /\ SubSeq(stream, from + 1, Len(stream)) \in Seq(Byte)
        /\ Len(SubSeq(stream, from + 1, Len(stream))) = m - from
    BY <1>1, <2>2
  <2> QED BY <1>2, <2>3, <2>4
<1> QED BY <1>6, <1>7, <1>1 DEF StreamInv

(***************************************************************************)
(* The parts are what TypeOK says.                                         *)
(***************************************************************************)
LEMMA TypesHold ==
    ASSUME TypeInv
    PROVE  TypeOK
<1>1. Byte = CommandByte BY ReplicationAssumption
<1> QED
  BY <1>1 DEF TypeInv, TypeOK, ConnectionOK, PrimaryOK, ReplicaOK, StreamInv, Reading

(***************************************************************************)
(* Of bytes joined with bytes.                                             *)
(***************************************************************************)
LEMMA Joined ==
    ASSUME NEW s \in Seq(Byte), NEW t \in Seq(Byte)
    PROVE  s \o t \in Seq(Byte) /\ Len(s \o t) = Len(s) + Len(t) /\ Len(s) \in Nat
OBVIOUS

(***************************************************************************)
(* A closed connection has nothing on its way.                             *)
(***************************************************************************)
LEMMA Closed ==
    ASSUME ConnectionOK, CloseConnection, stream' \in Seq(Byte)
    PROVE  ConnectionOK' /\ PendingOK'
<1>1. link' = "down" /\ reply' = NoReply /\ channel' = <<>> /\ partial' = Nothing
      /\ snapshot' = 0 /\ full' = full /\ stale' = stale
  BY DEF CloseConnection
<1>2. <<>> \in Seq(Byte) /\ Len(<<>>) = 0 OBVIOUS
<1>3. ConnectionOK' BY <1>1, <1>2, NothingType DEF ConnectionOK
<1>4. Pending(<<>>, 0) = 0 BY <1>2, PendingNone
<1>5. Len(stream') \in Nat OBVIOUS
<1> QED BY <1>1, <1>3, <1>4, <1>5 DEF PendingOK

(***************************************************************************)
(* What does not touch the primary keeps its part.                         *)
(***************************************************************************)
LEMMA PrimaryKept ==
    ASSUME PrimaryOK, UNCHANGED pvars
    PROVE  PrimaryOK'
BY DEF PrimaryOK, StreamInv, RingInv, Mirrors, pvars

(***************************************************************************)
(* What does not touch the replica keeps its part.                         *)
(***************************************************************************)
LEMMA ReplicaKept ==
    ASSUME ReplicaOK, UNCHANGED rvars
    PROVE  ReplicaOK'
BY DEF ReplicaOK, rvars

(***************************************************************************)
(* A write adds as many bytes to the channel as to the stream.             *)
(***************************************************************************)
LEMMA WriteType ==
    ASSUME TypeInv, NEW cmd \in Requests, Write(cmd)
    PROVE  TypeInv'
<1>1. ConnectionOK /\ PrimaryOK /\ ReplicaOK /\ PendingOK
  BY DEF TypeInv
<1>2. /\ cmd \in Command /\ Encode(cmd) \in Seq(Byte) /\ Len(Encode(cmd)) = Length(cmd)
      /\ Length(cmd) \in Nat
  BY EncodeType
<1>4. PrimaryOK'
  <2>1. StreamInv' BY <1>1, StreamStep DEF Next, PrimaryOK
  <2>2. keyspace' \in [Key -> Value] BY <1>1, <1>2, RunType DEF Write, PrimaryOK
  <2>3. replid' = replid BY DEF Write
  <2>4. RingInv'
    <3>1. /\ backlog' = Feed(backlog, Encode(cmd))
          /\ stream' = stream \o Encode(cmd)
          /\ overfed' = (overfed \/ Length(cmd) >= Size)
      BY DEF Write
    <3>2. backlog \in Backlog /\ stream \in Seq(Byte) /\ RingInv
      BY <1>1 DEF PrimaryOK, StreamInv
    <3>3. Len(stream') = Len(stream) + Len(Encode(cmd)) BY <1>2, <3>1, <3>2, Joined
    <3>4. /\ backlog'.first <= backlog'.master
          /\ backlog'.master - backlog'.first <= Size
          /\ backlog'.master <= backlog.master + Len(Encode(cmd))
          /\ Len(Encode(cmd)) >= Size \/ backlog.buffer \in [Slot -> Byte]
                => backlog'.buffer \in [Slot -> Byte]
      BY <1>2, <3>1, <3>2, FeedRing DEF RingInv
    <3>5. backlog.master \in Nat /\ backlog'.master \in Nat
      BY <2>1, <3>2 DEF StreamInv, Backlog
    <3>6. backlog'.master <= Len(stream')
      BY <1>2, <3>2, <3>3, <3>4, <3>5 DEF RingInv
    <3>7. overfed' => backlog'.buffer \in [Slot -> Byte]
      <4>1. overfed' => overfed \/ Len(Encode(cmd)) >= Size BY <1>2, <3>1
      <4> QED BY <3>2, <3>4, <4>1 DEF RingInv
    <3> QED BY <3>4, <3>6, <3>7 DEF RingInv
  <2> QED BY <1>1, <2>1, <2>2, <2>3, <2>4 DEF PrimaryOK
<1>5. ReplicaOK' BY <1>1, ReplicaKept DEF Write
<1>6. ConnectionOK' /\ PendingOK'
  <2>1. /\ UNCHANGED <<link, reply, partial, full, stale, snapshot>>
        /\ channel' = IF Online THEN channel \o Encode(cmd) ELSE channel
        /\ stream' = stream \o Encode(cmd)
    BY DEF Write
  <2>2. stream \in Seq(Byte) /\ channel \in Seq(Byte) /\ snapshot \in Nat /\ snapshot <= Len(channel)
    BY <1>1 DEF PrimaryOK, StreamInv, ConnectionOK
  <2>3. Len(stream') = Len(stream) + Length(cmd) BY <1>2, <2>1, <2>2, Joined
  <2>4. Pending(channel, snapshot) \in Nat BY <2>2, PendingType
  <2>5. CASE Online
    <3>1. channel' = channel \o Encode(cmd) BY <2>1, <2>5
    <3>2. channel' \in Seq(Byte) /\ Len(channel') = Len(channel) + Length(cmd)
      BY <1>2, <2>2, <3>1, Joined
    <3>3. ConnectionOK' BY <1>1, <1>2, <2>1, <2>2, <3>2 DEF ConnectionOK
    <3>4. Pending(channel', snapshot')
            = Pending(channel, snapshot) + (IF cmd = Ping THEN 0 ELSE Length(cmd))
      <4>1. Pending(channel \o Encode(cmd), snapshot)
              = Pending(channel, snapshot) + (IF cmd = Ping THEN 0 ELSE Length(cmd))
        BY <1>2, <2>2, PendingAppend
      <4> QED BY <2>1, <3>1, <4>1
    <3>5. Pending(channel', snapshot') <= Len(stream')
      <4>1. Len(stream) \in Nat BY <2>2, Joined
      <4> QED BY <1>1, <1>2, <2>3, <2>4, <3>4, <4>1 DEF PendingOK
    <3> QED BY <3>3, <3>5 DEF PendingOK
  <2>6. CASE ~Online
    <3>1. ConnectionOK' /\ channel' = channel BY <1>1, <2>1, <2>6 DEF ConnectionOK
    <3>2. Len(stream) \in Nat BY <2>2, Joined
    <3>3. Pending(channel', snapshot') = Pending(channel, snapshot) BY <2>1, <3>1
    <3>4. Pending(channel', snapshot') <= Len(stream')
      BY <1>1, <1>2, <2>3, <2>4, <3>2, <3>3 DEF PendingOK
    <3> QED BY <3>1, <3>4 DEF PendingOK
  <2> QED BY <2>5, <2>6
<1> QED BY <1>4, <1>5, <1>6 DEF TypeInv

(***************************************************************************)
(* The ring holds bytes only from the offset on that the replica asked     *)
(* for, and a snapshot holds none of the stream.                           *)
(***************************************************************************)
LEMMA PsyncType ==
    ASSUME TypeInv, HandlePsync
    PROVE  TypeInv'
<1>1. ConnectionOK /\ PrimaryOK /\ ReplicaOK /\ PendingOK
  BY DEF TypeInv
<1>2. PrimaryOK' /\ stream' = stream BY <1>1, PrimaryKept DEF HandlePsync, pvars
<1>3. ReplicaOK' BY <1>1, ReplicaKept DEF HandlePsync
<1>4. /\ offset \in Int /\ Len(stream) \in Nat /\ backlog.master \in Nat
      /\ backlog.master <= Len(stream)
      /\ StreamInv /\ RingInv
  BY <1>1 DEF PrimaryOK, StreamInv, RingInv, ReplicaOK, Backlog
<1>5. /\ channel' \in Seq(Byte)
      /\ snapshot' \in Nat /\ snapshot' <= Len(channel')
      /\ Pending(channel', snapshot') <= Len(stream)
  <2>1. CASE Continues(source, offset)
    <3>1. channel' = DataSince(backlog, offset) /\ snapshot' = 0
      BY <2>1 DEF HandlePsync
    <3>2. /\ offset \in Nat
          /\ DataSince(backlog, offset) \in Seq(Byte)
          /\ Len(DataSince(backlog, offset)) = backlog.master - offset
      BY <1>4, <2>1, DataSinceType DEF Continues
    <3>3. /\ Pending(DataSince(backlog, offset), 0) \in Nat
          /\ Pending(DataSince(backlog, offset), 0) <= Len(DataSince(backlog, offset)) - 0
          /\ Len(DataSince(backlog, offset)) \in Nat
      <4>1. PICK data \in Seq(Byte) : data = DataSince(backlog, offset) BY <3>2
      <4>2. Len(data) \in Nat /\ 0 <= Len(data) OBVIOUS
      <4>3. Pending(data, 0) \in Nat /\ Pending(data, 0) <= Len(data) - 0
        BY <4>2, PendingType
      <4> QED BY <4>1, <4>2, <4>3
    <3> QED BY <1>4, <3>1, <3>2, <3>3
  <2>2. CASE ~Continues(source, offset)
    <3>1. channel' = Snapshot(keyspace) /\ snapshot' = Len(channel')
      BY <2>2 DEF HandlePsync
    <3>2. Snapshot(keyspace) \in Seq(Byte)
      BY <1>1, SnapshotBrings DEF Brings, PrimaryOK
    <3>3. PICK data \in Seq(Byte) : data = Snapshot(keyspace) BY <3>2
    <3>4. Len(data) \in Nat /\ Pending(data, Len(data)) = 0
      <4>1. Len(data) \in Nat OBVIOUS
      <4> QED BY <4>1, PendingNone
    <3> QED BY <1>4, <3>1, <3>3, <3>4
  <2> QED BY <2>1, <2>2
<1>6. ConnectionOK'
  <2>1. /\ link' = "replied"
        /\ reply' = [full |-> ~Continues(source, offset), replid |-> replid,
                     offset |-> backlog.master]
        /\ full' = ~Continues(source, offset)
        /\ stale' = {k \in Key : copy[k] # Absent /\ keyspace[k] = Absent}
        /\ partial' = partial
    BY DEF HandlePsync
  <2>2. full' \in BOOLEAN /\ reply'.full \in BOOLEAN /\ reply' \in [full : BOOLEAN, replid : Nat, offset : Nat]
    <3>1. (~Continues(source, offset)) \in BOOLEAN BY Zenon
    <3>2. replid \in Nat BY <1>1 DEF PrimaryOK
    <3>3. PICK b \in BOOLEAN : b = ~Continues(source, offset) BY <3>1
    <3>4. [full |-> b, replid |-> replid, offset |-> backlog.master]
            \in [full : BOOLEAN, replid : Nat, offset : Nat]
      BY <1>4, <3>2
    <3> QED BY <2>1, <3>3, <3>4, Zenon
  <2>3. reply' # NoReply
    <3>1. reply'.offset = backlog.master BY <2>1
    <3>2. NoReply.offset = -1 BY DEF NoReply
    <3> QED BY <1>4, <3>1, <3>2
  <2>4. stale' \subseteq Key /\ partial' \in Reading /\ link' \in {"down", "syncing", "replied", "streaming"}
    BY <1>1, <2>1 DEF ConnectionOK
  <2> QED BY <1>5, <2>2, <2>3, <2>4 DEF ConnectionOK
<1> QED BY <1>2, <1>3, <1>5, <1>6 DEF TypeInv, PendingOK

(***************************************************************************)
(* The bytes that were read are gone from the channel and counted.         *)
(***************************************************************************)
LEMMA ReceiveType ==
    ASSUME TypeInv, NEW n \in 1..Len(channel), NEW fate \in String \cup {"error"},
           Receive(n, fate)
    PROVE  TypeInv'
<1>1. ConnectionOK /\ PrimaryOK /\ ReplicaOK /\ PendingOK
  BY DEF TypeInv
<1>2. PrimaryOK' /\ stream' = stream BY <1>1, PrimaryKept DEF Receive, pvars
<1> DEFINE rest == SubSeq(channel, n + 1, Len(channel))
           loading == Remaining(snapshot, n)
           parsed == Parse(SubSeq(channel, 1, n), fate)
<1>3. /\ rest \in Seq(Byte)
      /\ loading \in Nat /\ loading <= Len(rest)
      /\ Pending(rest, loading) \in Nat
      /\ Pending(rest, loading) <= Pending(channel, snapshot)
      /\ Pending(channel, snapshot) \in Nat
  <2>1. channel \in Seq(Byte) /\ snapshot \in Nat /\ snapshot <= Len(channel)
    BY <1>1 DEF ConnectionOK
  <2>2. Len(channel) \in Nat BY <2>1
  <2> QED BY <2>1, <2>2, PendingCut, PendingType
<1>4. Len(stream) \in Nat BY <1>1 DEF PrimaryOK, StreamInv
<1>5. ReadUpTo(rest, loading) \in Nat
  <2>1. ReadUpTo(rest, loading) = Len(stream) - Pending(rest, loading)
    BY DEF ReadUpTo, Pending, Counted
  <2> HIDE DEF rest, loading
  <2> QED BY <1>1, <1>3, <1>4, <2>1 DEF PendingOK
<1>6. ParserOK(parsed)
  <2>1. ParserOK(Parser(copy, partial, FALSE))
    BY <1>1 DEF ReplicaOK, ConnectionOK, ParserOK, Parser
  <2>2. SubSeq(channel, 1, n) \in Seq(CommandByte)
    <3>1. channel \in Seq(CommandByte) BY <1>1, ReplicationAssumption DEF ConnectionOK
    <3>2. \A i \in 1..n : i \in 1..Len(channel) BY <3>1
    <3> QED BY <3>1, <3>2, SubSeqProperties
  <2> QED BY <2>1, <2>2, ParseFromType DEF Parse
<1>7. /\ offset' = offset + n
      /\ reached' = ReadUpTo(rest, loading)
      /\ source' = source
      /\ \/ parsed.failed /\ CloseConnection /\ copy' = copy
         \/ /\ copy' = parsed.data
            /\ partial' = parsed.partial
            /\ channel' = rest
            /\ snapshot' = loading
            /\ UNCHANGED <<link, reply, full, stale>>
  BY DEF Receive, Remaining
<1>8. offset' \in Nat
  <2>1. n \in Nat /\ n >= 1 BY <1>1 DEF ConnectionOK
  <2> QED BY <1>1, <1>7, <2>1 DEF ReplicaOK
<1>9. copy' \in [Key -> Value]
  BY <1>1, <1>6, <1>7 DEF ParserOK, ReplicaOK
<1> HIDE DEF rest, loading, parsed
<1>10. ReplicaOK'
  BY <1>1, <1>5, <1>7, <1>8, <1>9 DEF ReplicaOK
<1>11. ConnectionOK' /\ PendingOK'
  <2>1. CASE CloseConnection
    <3>1. stream' \in Seq(Byte) BY <1>2 DEF PrimaryOK, StreamInv
    <3> QED BY <1>1, <2>1, <3>1, Closed
  <2>2. CASE /\ partial' = parsed.partial
             /\ channel' = rest
             /\ snapshot' = loading
             /\ UNCHANGED <<link, reply, full, stale>>
    <3>1. ConnectionOK' BY <1>1, <1>3, <1>6, <2>2 DEF ConnectionOK, ParserOK
    <3>2. Pending(channel', snapshot') = Pending(rest, loading) BY <2>2
    <3>3. Pending(channel', snapshot') <= Len(stream')
      BY <1>1, <1>2, <1>3, <1>4, <3>2 DEF PendingOK
    <3> QED BY <3>1, <3>3 DEF PendingOK
  <2> QED BY <1>7, <2>1, <2>2
<1> QED BY <1>2, <1>10, <1>11 DEF TypeInv

(***************************************************************************)
(* A heartbeat is not of the stream.                                       *)
(***************************************************************************)
LEMMA HeartbeatType ==
    ASSUME TypeInv, Heartbeat
    PROVE  /\ TypeInv'
           /\ Pending(channel', snapshot') = Pending(channel, snapshot)
<1>1. ConnectionOK /\ PrimaryOK /\ ReplicaOK /\ PendingOK
  BY DEF TypeInv
<1>2. PrimaryOK' /\ stream' = stream BY <1>1, PrimaryKept DEF Heartbeat, pvars
<1>3. ReplicaOK' BY <1>1, ReplicaKept DEF Heartbeat
<1>4. /\ channel' = channel \o Encode(Ping)
      /\ UNCHANGED <<link, reply, partial, full, stale, snapshot>>
  BY DEF Heartbeat
<1>5. Ping \in Command BY DEF Ping, Command
<1>6. Encode(Ping) \in Seq(Byte) /\ channel \in Seq(Byte) BY <1>1, <1>5, EncodeCommandType DEF ConnectionOK
<1>7. /\ channel' \in Seq(Byte)
      /\ Len(channel') = Len(channel) + Len(Encode(Ping))
      /\ Len(channel) \in Nat /\ Len(Encode(Ping)) \in Nat
  BY <1>4, <1>6, Joined
<1>8. snapshot \in Nat /\ snapshot <= Len(channel) BY <1>1 DEF ConnectionOK
<1>9. Pending(channel', snapshot') = Pending(channel, snapshot)
  <2>1. Pending(channel \o Encode(Ping), snapshot)
          = Pending(channel, snapshot) + (IF Ping = Ping THEN 0 ELSE Length(Ping))
    BY <1>5, <1>6, <1>8, PendingAppend
  <2>2. Pending(channel, snapshot) \in Nat BY <1>7, <1>8, PendingType
  <2> QED BY <1>4, <2>1, <2>2
<1>10. ConnectionOK' BY <1>1, <1>4, <1>7, <1>8 DEF ConnectionOK
<1>11. PendingOK' BY <1>1, <1>2, <1>9 DEF PendingOK
<1> QED BY <1>2, <1>3, <1>9, <1>10, <1>11 DEF TypeInv

(***************************************************************************)
(* Every step keeps the types.                                             *)
(***************************************************************************)
LEMMA TypeStep ==
    ASSUME TypeInv, [Next]_vars
    PROVE  TypeInv'
<1>0. ConnectionOK /\ PrimaryOK /\ ReplicaOK /\ PendingOK
  BY DEF TypeInv
<1>1. CASE \E cmd \in Requests : Write(cmd) BY <1>1, WriteType
<1>2. CASE Heartbeat BY <1>2, HeartbeatType
<1>3. CASE HandlePsync BY <1>3, PsyncType
<1>4. CASE Connect
  <2>1. /\ UNCHANGED <<reply, channel, full, stale, snapshot>>
        /\ link' = "syncing" /\ partial' = Nothing
    BY <1>4 DEF Connect
  <2>2. PrimaryOK' /\ stream' = stream BY <1>0, <1>4, PrimaryKept DEF Connect, pvars
  <2>3. ReplicaOK' BY <1>0, <1>4, ReplicaKept DEF Connect
  <2>4. ConnectionOK' BY <1>0, <2>1, NothingType DEF ConnectionOK
  <2>5. PendingOK' BY <1>0, <2>1, <2>2 DEF PendingOK
  <2> QED BY <2>2, <2>3, <2>4, <2>5 DEF TypeInv
<1>5. CASE ReadReply
  <2>1. /\ UNCHANGED <<channel, partial, full, stale, snapshot>>
        /\ link = "replied" /\ link' = "streaming" /\ reply' = NoReply
        /\ source' = reply.replid /\ copy' = copy
        /\ offset' = IF reply.full THEN reply.offset ELSE offset
        /\ reached' = IF reply.full THEN reply.offset ELSE reached
    BY <1>5 DEF ReadReply
  <2>2. PrimaryOK' /\ stream' = stream BY <1>0, <1>5, PrimaryKept DEF ReadReply, pvars
  <2>3. reply \in [full : BOOLEAN, replid : Nat, offset : Nat] BY <1>0, <2>1 DEF ConnectionOK
  <2>4. reply.offset \in Nat /\ reply.replid \in Nat BY <2>3
  <2>5. ReplicaOK' BY <1>0, <2>1, <2>4 DEF ReplicaOK
  <2>6. ConnectionOK' BY <1>0, <2>1 DEF ConnectionOK
  <2>7. PendingOK' BY <1>0, <2>1, <2>2 DEF PendingOK
  <2> QED BY <2>2, <2>5, <2>6, <2>7 DEF TypeInv
<1>6. CASE ReceiveSome BY <1>6, ReceiveType DEF ReceiveSome
<1>7. CASE LoseConnection
  <2>1. PrimaryOK' /\ stream' = stream BY <1>0, <1>7, PrimaryKept DEF LoseConnection, pvars
  <2>2. ReplicaOK' BY <1>0, <1>7, ReplicaKept DEF LoseConnection
  <2>3. ConnectionOK' /\ PendingOK' BY <1>0, <1>7, <2>1, Closed DEF LoseConnection, PrimaryOK, StreamInv
  <2> QED BY <2>1, <2>2, <2>3 DEF TypeInv
<1>8. CASE ReplicaOf
  <2>1. PrimaryOK' /\ stream' = stream BY <1>0, <1>8, PrimaryKept DEF ReplicaOf, pvars
  <2>2. ReplicaOK' BY <1>0, <1>8 DEF ReplicaOf, ReplicaOK, Unknown
  <2>3. ConnectionOK' /\ PendingOK' BY <1>0, <1>8, <2>1, Closed DEF ReplicaOf, PrimaryOK, StreamInv
  <2> QED BY <2>1, <2>2, <2>3 DEF TypeInv
<1>9. CASE RestartPrimary
  <2>1. /\ backlog' = EmptyBacklog /\ stream' = <<>> /\ overfed' = FALSE
        /\ replid' = replid + 1 /\ keyspace' = keyspace
    BY <1>9 DEF RestartPrimary
  <2>2. StreamInv' BY <1>0, StreamStep DEF PrimaryOK
  <2>3. RingInv' BY <2>1, BacklogAssumption DEF RingInv, EmptyBacklog
  <2>4. PrimaryOK' BY <1>0, <2>1, <2>2, <2>3 DEF PrimaryOK
  <2>5. ReplicaOK' BY <1>0, <1>9, ReplicaKept DEF RestartPrimary
  <2>6. ConnectionOK' /\ PendingOK' BY <1>0, <1>9, <2>2, Closed DEF RestartPrimary, StreamInv
  <2> QED BY <2>4, <2>5, <2>6 DEF TypeInv
<1>10. CASE UNCHANGED vars
  <2>1. UNCHANGED pvars /\ UNCHANGED rvars /\ UNCHANGED connection /\ stream' = stream
    BY <1>10 DEF vars, pvars
  <2>2. PrimaryOK' /\ ReplicaOK' BY <1>0, <2>1, PrimaryKept, ReplicaKept
  <2>3. ConnectionOK' /\ PendingOK' BY <1>0, <2>1 DEF connection, ConnectionOK, PendingOK
  <2> QED BY <2>2, <2>3 DEF TypeInv
<1> QED
  BY <1>1, <1>2, <1>3, <1>4, <1>5, <1>6, <1>7, <1>8, <1>9, <1>10 DEF Next

(***************************************************************************)
(* They hold at the start.                                                 *)
(***************************************************************************)
LEMMA TypeInit ==
    ASSUME Init
    PROVE  TypeInv
<1>1. StreamInv BY StreamInit
<1>2. RingInv BY BacklogAssumption DEF Init, RingInv, EmptyBacklog
<1>3. PrimaryOK BY <1>1, <1>2 DEF Init, PrimaryOK, Value
<1>4. ReplicaOK BY DEF Init, ReplicaOK, Unknown, Value
<1>5. <<>> \in Seq(Byte) /\ Len(<<>>) = 0 OBVIOUS
<1>6. ConnectionOK
  <2>1. /\ link = "down" /\ reply = NoReply /\ channel = <<>> /\ partial = Nothing
        /\ full = FALSE /\ stale = {} /\ snapshot = 0
    BY DEF Init
  <2>2. full \in BOOLEAN /\ stale \subseteq Key /\ snapshot \in Nat /\ partial \in Reading
    BY <2>1, NothingType
  <2>3. channel \in Seq(Byte) /\ snapshot <= Len(channel) BY <1>5, <2>1
  <2> QED BY <2>1, <2>2, <2>3 DEF ConnectionOK
<1>7. PendingOK
  <2>1. Pending(<<>>, 0) = 0 BY <1>5, PendingNone
  <2> QED BY <1>5, <2>1 DEF Init, PendingOK
<1> QED BY <1>3, <1>4, <1>6, <1>7 DEF TypeInv

(***************************************************************************)
(* For every backlog size, set of keys and set of requests.                *)
(***************************************************************************)
THEOREM ReplicationTypes == Spec => []TypeOK
<1>1. Init => TypeInv BY TypeInit
<1>2. TypeInv /\ [Next]_vars => TypeInv' BY TypeStep
<1>3. TypeInv => TypeOK BY TypesHold
<1> QED BY <1>1, <1>2, <1>3, PTL DEF Spec

-----------------------------------------------------------------------------
(***************************************************************************)
(* The inductive invariant of the offsets, in parts: the ids the two ends  *)
(* speak of agree, the stream is what clients wrote, and with what is on   *)
(* its way the offset the replica counts comes to the end of it at least.  *)
(***************************************************************************)
Asked ==
    /\ source <= replid
    /\ link = "streaming" => source = replid
    /\ link = "replied" => reply.replid = replid /\ (reply.full \/ source = replid)

ClientBytes == \A i \in 1..Len(stream) : stream[i].cmd # Ping

From == IF link = "replied" /\ reply.full THEN reply.offset ELSE offset

Reaches ==
    Online /\ ~overfed => From + Pending(channel, snapshot) >= Len(stream)

OffsetInv == TypeInv /\ Asked /\ ClientBytes /\ Reaches /\ NothingTwice

(***************************************************************************)
(* No client sends a heartbeat.                                            *)
(***************************************************************************)
LEMMA RequestsAreNoPing ==
    ASSUME NEW cmd \in Requests
    PROVE  cmd # Ping
<1>1. cmd \in ClientCommand BY ReplicationAssumption
<1>2. cmd.op \in {"SET", "PUSH", "DEL"} BY <1>1 DEF ClientCommand
<1> QED BY <1>2 DEF Ping

(***************************************************************************)
(* The numbers the offsets are compared as.                                *)
(***************************************************************************)
LEMMA OffsetTypes ==
    ASSUME TypeInv
    PROVE  /\ offset \in Int /\ reached \in Nat /\ source \in Nat /\ replid \in Nat \ {0}
           /\ stream \in Seq(Byte) /\ channel \in Seq(Byte)
           /\ Len(stream) \in Nat /\ Len(channel) \in Nat
           /\ snapshot \in Nat /\ snapshot <= Len(channel)
           /\ Pending(channel, snapshot) \in Nat
           /\ link = "replied" => reply.offset \in Nat /\ reply.replid \in Nat
           /\ Online => From \in Int
<1>1. /\ offset \in Int /\ reached \in Nat /\ source \in Nat /\ replid \in Nat \ {0}
      /\ stream \in Seq(Byte) /\ channel \in Seq(Byte)
      /\ snapshot \in Nat /\ snapshot <= Len(channel)
  BY DEF TypeInv, PrimaryOK, ReplicaOK, ConnectionOK, StreamInv
<1>2. Len(stream) \in Nat /\ Len(channel) \in Nat BY <1>1
<1>3. Pending(channel, snapshot) \in Nat BY <1>1, <1>2, PendingType
<1>4. link = "replied" => reply \in [full : BOOLEAN, replid : Nat, offset : Nat]
  BY DEF TypeInv, ConnectionOK
<1>5. link = "replied" => reply.offset \in Nat /\ reply.replid \in Nat BY <1>4
<1>6. Online => From \in Int BY <1>1, <1>5 DEF From
<1> QED BY <1>1, <1>2, <1>3, <1>5, <1>6

(***************************************************************************)
(* A write moves the end of the stream as far as what is on its way.       *)
(***************************************************************************)
LEMMA OffsetWrite ==
    ASSUME OffsetInv, NEW cmd \in Requests, Write(cmd)
    PROVE  OffsetInv'
<1>1. TypeInv' BY WriteType DEF OffsetInv
<1>2. /\ UNCHANGED <<replid, source, offset, reached, link, reply, snapshot>>
      /\ stream' = stream \o Encode(cmd)
      /\ overfed' = (overfed \/ Length(cmd) >= Size)
      /\ channel' = IF Online THEN channel \o Encode(cmd) ELSE channel
  BY DEF Write, rvars
<1>3. cmd \in Command /\ Encode(cmd) \in Seq(Byte) /\ Len(Encode(cmd)) = Length(cmd)
      /\ Length(cmd) \in Nat /\ cmd # Ping
  BY EncodeType, RequestsAreNoPing
<1>4. /\ stream \in Seq(Byte) /\ channel \in Seq(Byte) /\ Len(stream) \in Nat
      /\ snapshot \in Nat /\ snapshot <= Len(channel)
      /\ Pending(channel, snapshot) \in Nat
      /\ Online => From \in Int
  BY OffsetTypes DEF OffsetInv
<1>5. Len(stream') = Len(stream) + Length(cmd) BY <1>2, <1>3, <1>4, Joined
<1>6. ClientBytes'
  <2>1. PICK bytes \in Seq(Byte) : bytes = Encode(cmd) BY <1>3
  <2>2. PICK old \in Seq(Byte) : old = stream BY <1>4
  <2>3. PICK m \in Nat : m = Length(cmd) BY <1>3
  <2>4. \A i \in 1..m : bytes[i].cmd = cmd BY <2>1, <2>3 DEF Encode
  <2>5. \A i \in 1..Len(old) : old[i].cmd # Ping BY <2>2 DEF OffsetInv, ClientBytes
  <2>6. Len(bytes) = m BY <1>3, <2>1, <2>3
  <2>7. ASSUME NEW i \in 1..Len(old \o bytes) PROVE (old \o bytes)[i].cmd # Ping
    <3>1. CASE i <= Len(old)
      <4>1. (old \o bytes)[i] = old[i] /\ i \in 1..Len(old) BY <3>1
      <4> QED BY <2>5, <4>1
    <3>2. CASE i > Len(old)
      <4>1. (old \o bytes)[i] = bytes[i - Len(old)] /\ i - Len(old) \in 1..m BY <2>6, <3>2
      <4> QED BY <1>3, <2>4, <4>1
    <3> QED BY <3>1, <3>2
  <2>8. stream' = old \o bytes BY <1>2, <2>1, <2>2
  <2> QED BY <2>7, <2>8 DEF ClientBytes
<1>7. Asked' BY <1>2 DEF OffsetInv, Asked
<1>8. Reaches'
  <2>1. SUFFICES ASSUME Online', ~overfed' PROVE From' + Pending(channel', snapshot') >= Len(stream')
    BY DEF Reaches
  <2>2. Online /\ ~overfed /\ From' = From
    <3>1. Online BY <1>2, <2>1 DEF Online
    <3>2. ~overfed BY <1>2, <2>1, Zenon
    <3>3. From' = From BY <1>2 DEF From
    <3> QED BY <3>1, <3>2, <3>3
  <2>3. Pending(channel', snapshot') = Pending(channel, snapshot) + Length(cmd)
    <3>1. Pending(channel \o Encode(cmd), snapshot)
            = Pending(channel, snapshot) + (IF cmd = Ping THEN 0 ELSE Length(cmd))
      BY <1>3, <1>4, PendingAppend
    <3> QED BY <1>2, <1>3, <2>2, <3>1
  <2>4. From + Pending(channel, snapshot) >= Len(stream) BY <2>2 DEF OffsetInv, Reaches
  <2> QED BY <1>3, <1>4, <1>5, <2>2, <2>3, <2>4
<1>9. NothingTwice'
  <2>1. ~overfed' => ~overfed BY <1>2, Zenon
  <2> QED BY <1>2, <2>1 DEF OffsetInv, NothingTwice
<1> QED BY <1>1, <1>6, <1>7, <1>8, <1>9 DEF OffsetInv

(***************************************************************************)
(* The primary answers with its own id and sends what lies between the     *)
(* offset it is asked for, or the one it gives, and the end.               *)
(***************************************************************************)
LEMMA OffsetPsync ==
    ASSUME OffsetInv, HandlePsync
    PROVE  OffsetInv'
<1>1. TypeInv' BY PsyncType DEF OffsetInv
<1> DEFINE continues == Continues(source, offset)
<1>2. /\ UNCHANGED <<pvars, rvars>>
      /\ link' = "replied"
      /\ reply' = [full |-> ~continues, replid |-> replid, offset |-> backlog.master]
      /\ channel' = IF continues THEN DataSince(backlog, offset) ELSE Snapshot(keyspace)
      /\ snapshot' = IF continues THEN 0 ELSE Len(channel')
  BY DEF HandlePsync
<1>3. /\ offset \in Int /\ stream \in Seq(Byte) /\ Len(stream) \in Nat
      /\ StreamInv /\ RingInv
      /\ channel' \in Seq(Byte) /\ Len(channel') \in Nat
  <2>1. channel' \in Seq(Byte) BY <1>1 DEF TypeInv, ConnectionOK
  <2> QED BY <2>1, OffsetTypes DEF OffsetInv, TypeInv, PrimaryOK
<1>4. ClientBytes' /\ NothingTwice' BY <1>2 DEF OffsetInv, ClientBytes, NothingTwice, pvars, rvars
<1>5. Asked'
  <2>1. reply'.replid = replid /\ reply'.full = ~continues BY <1>2
  <2>2. continues => source = replid BY DEF Continues
  <2>3. replid' = replid /\ source' = source BY <1>2 DEF pvars, rvars
  <2> HIDE DEF continues
  <2> QED BY <1>2, <2>1, <2>2, <2>3 DEF OffsetInv, Asked
<1>6. Reaches'
  <2>1. SUFFICES ASSUME ~overfed' PROVE From' + Pending(channel', snapshot') >= Len(stream')
    BY DEF Reaches
  <2>2. ~overfed /\ stream' = stream /\ offset' = offset BY <1>2, <2>1 DEF pvars, rvars
  <2>3. Mirrors(backlog, stream) /\ backlog.master = Len(stream) /\ backlog \in Backlog
    BY <1>3, <2>2 DEF StreamInv, Mirrors
  <2>4. CASE continues
    <3>1. From' = offset
      <4>1. ~reply'.full BY <1>2, <2>4
      <4> QED BY <2>2, <4>1 DEF From
    <3>2. InBacklog(backlog, offset) BY <2>4 DEF Continues
    <3>3. /\ offset \in Nat /\ offset <= Len(stream)
          /\ Len(DataSince(backlog, offset)) = Len(stream) - offset
      BY <1>3, <2>3, <3>2, DataSinceType
    <3>4. channel' = SubSeq(stream, offset + 1, Len(stream))
      <4>1. offset \in 0..Len(stream) BY <1>3, <3>3
      <4>2. DataSince(backlog, offset) = SubSeq(stream, offset + 1, Len(stream))
        BY <1>3, <2>3, <3>2, <4>1, DataSinceMirrors
      <4> QED BY <1>2, <2>4, <4>2
    <3>5. Len(channel') = Len(stream) - offset BY <1>2, <2>4, <3>3
    <3>6. ASSUME NEW i \in 1..Len(channel') PROVE channel'[i].cmd # Ping
      <4>1. i \in 1..(Len(stream) - offset) /\ offset + i \in 1..Len(stream)
        BY <1>3, <3>3, <3>5
      <4>2. channel'[i] = stream[offset + i] BY <1>3, <3>3, <3>4, <4>1, SubSeqProperties
      <4>3. stream[offset + i].cmd # Ping BY <4>1 DEF OffsetInv, ClientBytes
      <4> QED BY <4>2, <4>3
    <3>7. Pending(channel', snapshot') = Len(stream) - offset
      <4>1. PICK bytes \in Seq(Byte) : bytes = channel' BY <1>3
      <4>2. Len(bytes) \in Nat /\ \A i \in 1..Len(bytes) : bytes[i].cmd # Ping BY <3>6, <4>1
      <4>3. Pending(bytes, 0) = Len(bytes) BY <4>2, PendingAll
      <4>4. snapshot' = 0 BY <1>2, <2>4
      <4> QED BY <3>5, <4>1, <4>3, <4>4
    <3> QED BY <1>3, <2>2, <3>1, <3>7
  <2>5. CASE ~continues
    <3>1. From' = backlog.master
      <4>1. reply'.full /\ reply'.offset = backlog.master BY <1>2, <2>5
      <4> QED BY <1>2, <4>1 DEF From
    <3>2. Pending(channel', snapshot') = 0
      <4>1. PICK bytes \in Seq(Byte) : bytes = channel' BY <1>3
      <4>2. Pending(bytes, Len(bytes)) = 0 BY PendingNone
      <4> QED BY <1>2, <2>5, <4>1, <4>2
    <3> QED BY <1>3, <2>2, <2>3, <3>1, <3>2
  <2> QED BY <2>4, <2>5
<1> QED BY <1>1, <1>4, <1>5, <1>6 DEF OffsetInv

(***************************************************************************)
(* A connection that is not up claims nothing.                             *)
(***************************************************************************)
LEMMA OffsetOffline ==
    ASSUME OffsetInv, TypeInv', ~Online', UNCHANGED <<pvars, rvars>>
    PROVE  OffsetInv'
BY DEF OffsetInv, Asked, ClientBytes, Reaches, NothingTwice, Online, pvars, rvars

(***************************************************************************)
(* The offset grows by all the bytes read, what is on its way by no more.  *)
(***************************************************************************)
LEMMA OffsetReceive ==
    ASSUME OffsetInv, NEW n \in 1..Len(channel), NEW fate \in String \cup {"error"},
           Receive(n, fate)
    PROVE  OffsetInv'
<1>1. TypeInv' BY ReceiveType DEF OffsetInv
<1> DEFINE rest == SubSeq(channel, n + 1, Len(channel))
           loading == Remaining(snapshot, n)
           parsed == Parse(SubSeq(channel, 1, n), fate)
<1>2. /\ offset \in Int /\ channel \in Seq(Byte) /\ Len(stream) \in Nat
      /\ Len(channel) \in Nat /\ snapshot \in Nat /\ snapshot <= Len(channel)
      /\ Pending(channel, snapshot) \in Nat /\ n \in Nat
  BY OffsetTypes DEF OffsetInv
<1>3. /\ Pending(rest, loading) \in Nat
      /\ Pending(rest, loading) + n >= Pending(channel, snapshot)
  BY <1>2, PendingCut
<1>4. /\ link = "streaming" /\ UNCHANGED <<pvars, source>>
      /\ offset' = offset + n
      /\ reached' = ReadUpTo(rest, loading)
      /\ \/ CloseConnection
         \/ /\ channel' = rest
            /\ snapshot' = loading
            /\ UNCHANGED <<link, reply>>
  BY DEF Receive, Remaining
<1>5. reached' = Len(stream) - Pending(rest, loading)
  BY <1>4 DEF ReadUpTo, Pending, Counted
<1> HIDE DEF rest, loading
<1>6. ~overfed => offset + Pending(channel, snapshot) >= Len(stream)
  BY <1>4 DEF OffsetInv, Reaches, Online, From
<1>7. /\ ~overfed => offset' + Pending(rest, loading) >= Len(stream)
      /\ ~overfed => reached' <= offset'
  BY <1>2, <1>3, <1>4, <1>5, <1>6
<1>8. source = replid BY <1>4 DEF OffsetInv, Asked
<1>9. ClientBytes' /\ NothingTwice'
  BY <1>4, <1>7 DEF OffsetInv, ClientBytes, NothingTwice, pvars
<1>10. Asked' /\ Reaches'
  <2>1. CASE CloseConnection
    <3>1. link' = "down" BY <2>1 DEF CloseConnection
    <3>2. source' <= replid' BY <1>4 DEF pvars, OffsetInv, Asked
    <3> QED BY <3>1, <3>2 DEF Asked, Reaches, Online
  <2>2. CASE channel' = rest /\ snapshot' = loading /\ UNCHANGED <<link, reply>>
    <3>1. Asked' BY <1>4, <2>2 DEF pvars, OffsetInv, Asked
    <3>2. From' = offset' BY <1>4, <2>2 DEF From
    <3>3. Pending(channel', snapshot') = Pending(rest, loading) BY <2>2
    <3>4. Reaches' BY <1>4, <1>7, <3>2, <3>3 DEF Reaches, pvars
    <3> QED BY <3>1, <3>4
  <2> QED BY <1>4, <2>1, <2>2
<1> QED BY <1>1, <1>9, <1>10 DEF OffsetInv

(***************************************************************************)
(* The replica takes over an offset only with the id it belongs to.        *)
(***************************************************************************)
LEMMA OffsetReadReply ==
    ASSUME OffsetInv, ReadReply
    PROVE  OffsetInv'
<1>1. TypeInv' BY TypeStep DEF OffsetInv, Next
<1>2. /\ link = "replied" /\ link' = "streaming"
      /\ UNCHANGED <<pvars, channel, snapshot>>
      /\ source' = reply.replid
      /\ offset' = IF reply.full THEN reply.offset ELSE offset
      /\ reached' = IF reply.full THEN reply.offset ELSE reached
  BY DEF ReadReply
<1>3. reply.replid = replid /\ (reply.full \/ source = replid)
  BY <1>2 DEF OffsetInv, Asked
<1>4. reply.offset \in Nat /\ replid \in Nat BY <1>2, OffsetTypes DEF OffsetInv
<1>5. Asked' BY <1>2, <1>3, <1>4 DEF Asked, pvars
<1>6. From' = From BY <1>2 DEF From
<1>7. Reaches' BY <1>2, <1>6 DEF OffsetInv, Reaches, Online, pvars
<1>8. NothingTwice' BY <1>2, <1>3, <1>4 DEF OffsetInv, NothingTwice, pvars
<1>9. ClientBytes' BY <1>2 DEF OffsetInv, ClientBytes, pvars
<1> QED BY <1>1, <1>5, <1>7, <1>8, <1>9 DEF OffsetInv

(***************************************************************************)
(* Every step keeps the offsets.                                           *)
(***************************************************************************)
LEMMA OffsetStep ==
    ASSUME OffsetInv, [Next]_vars
    PROVE  OffsetInv'
<1>0. TypeInv' BY TypeStep DEF OffsetInv
<1>1. CASE \E cmd \in Requests : Write(cmd) BY <1>1, OffsetWrite
<1>2. CASE Heartbeat
  <2>1. Pending(channel', snapshot') = Pending(channel, snapshot)
    BY <1>2, HeartbeatType DEF OffsetInv
  <2>2. UNCHANGED <<pvars, rvars, link, reply>> BY <1>2 DEF Heartbeat
  <2>3. From' = From BY <2>2 DEF From, rvars
  <2>4. Reaches' BY <2>1, <2>2, <2>3 DEF OffsetInv, Reaches, Online, pvars
  <2> QED BY <1>0, <2>2, <2>4 DEF OffsetInv, Asked, ClientBytes, NothingTwice, pvars, rvars
<1>3. CASE HandlePsync BY <1>3, OffsetPsync
<1>4. CASE Connect BY <1>0, <1>4, OffsetOffline DEF Connect, Online
<1>5. CASE ReadReply BY <1>5, OffsetReadReply
<1>6. CASE ReceiveSome BY <1>6, OffsetReceive DEF ReceiveSome
<1>7. CASE LoseConnection
  BY <1>0, <1>7, OffsetOffline DEF LoseConnection, CloseConnection, Online
<1>8. CASE ReplicaOf
  <2>1. UNCHANGED pvars /\ source' = Unknown /\ link' = "down"
    BY <1>8 DEF ReplicaOf, CloseConnection
  <2>2. replid \in Nat \ {0} BY OffsetTypes DEF OffsetInv
  <2> QED
    BY <1>0, <2>1, <2>2
    DEF OffsetInv, Asked, ClientBytes, Reaches, NothingTwice, Online, Unknown, pvars
<1>9. CASE RestartPrimary
  <2>1. UNCHANGED rvars /\ replid' = replid + 1 /\ stream' = <<>> /\ link' = "down"
    BY <1>9 DEF RestartPrimary, CloseConnection
  <2>2. replid \in Nat /\ source \in Nat /\ source <= replid
    BY OffsetTypes DEF OffsetInv, Asked
  <2>3. Asked' /\ NothingTwice' BY <2>1, <2>2 DEF Asked, NothingTwice, rvars
  <2>4. ClientBytes' /\ Reaches' BY <2>1 DEF ClientBytes, Reaches, Online
  <2> QED BY <1>0, <2>3, <2>4 DEF OffsetInv
<1>10. CASE UNCHANGED vars
  <2>1. UNCHANGED <<pvars, rvars, link, reply, channel, snapshot>>
    BY <1>10 DEF vars, connection
  <2>2. From' = From BY <2>1 DEF From, rvars
  <2> QED
    BY <1>0, <2>1, <2>2
    DEF OffsetInv, Asked, ClientBytes, Reaches, NothingTwice, Online, pvars, rvars
<1> QED
  BY <1>1, <1>2, <1>3, <1>4, <1>5, <1>6, <1>7, <1>8, <1>9, <1>10 DEF Next

(***************************************************************************)
(* The offset a replica counts, heartbeats and snapshots included, is      *)
(* never behind what it has read of the stream it would ask to continue    *)
(* (processed_offset), for every size of the backlog, however the chunks   *)
(* are cut and whenever connections fail, for as long as no command was as *)
(* large as the backlog.                                                   *)
(***************************************************************************)
THEOREM NothingIsAppliedTwice == Spec => []NothingTwice
<1>1. Init => OffsetInv
  <2> SUFFICES ASSUME Init PROVE OffsetInv OBVIOUS
  <2>1. TypeInv BY TypeInit
  <2>2. source = 0 /\ replid = 1 /\ stream = <<>> /\ link = "down" BY DEF Init, Unknown
  <2> QED BY <2>1, <2>2 DEF OffsetInv, Asked, ClientBytes, Reaches, NothingTwice, Online
<1>2. OffsetInv /\ [Next]_vars => OffsetInv' BY OffsetStep
<1>3. OffsetInv => NothingTwice BY DEF OffsetInv
<1> QED BY <1>1, <1>2, <1>3, PTL DEF Spec

-----------------------------------------------------------------------------
(***************************************************************************)
(* The inductive invariant of a full synchronisation: what is on its way   *)
(* is whole commands, but for the one the parser has begun, and they make  *)
(* of the replica's data what the primary has.                             *)
(***************************************************************************)
Matches(data) ==
    \A k \in Key :
        \/ data[k] = keyspace[k]
        \/ k \in stale /\ data[k] # Absent
        \/ keyspace[k] = Container /\ data[k] \in String \cup {Printed}

Leads(start, data) == Brings(start, channel, data) /\ Matches(data)

SyncInv ==
    /\ TypeInv
    /\ link = "syncing" => partial = Nothing
    /\ Online /\ full => \E data \in [Key -> Value] : Leads(Parser(copy, partial, FALSE), data)

(***************************************************************************)
(* What the channel leads to is what the replica finally stores.           *)
(***************************************************************************)
LEMMA SyncHolds ==
    ASSUME SyncInv
    PROVE  FullSyncComplete
<1> SUFFICES ASSUME Online, full, NEW k \in Key PROVE Agrees(k)
  BY DEF FullSyncComplete
<1>1. PICK data \in [Key -> Value] : Leads(Parser(copy, partial, FALSE), data)
  BY DEF SyncInv
<1>2. Parse(channel, "error") = Ready(data) BY <1>1 DEF Leads, Brings, Parse
<1>3. Final = data BY <1>2 DEF Final, Ready, Parser
<1> QED BY <1>1, <1>3 DEF Leads, Matches, Agrees

(***************************************************************************)
(* A command that the primary executed makes of data that matches what     *)
(* matches again.                                                          *)
(***************************************************************************)
LEMMA RunMatches ==
    ASSUME NEW data \in [Key -> Value], NEW cmd \in Requests, keyspace \in [Key -> Value],
           Matches(data), ~Fails(keyspace, cmd),
           keyspace' = Run(keyspace, cmd), stale' = stale
    PROVE  /\ Run(data, cmd) \in [Key -> Value]
           /\ Matches(Run(data, cmd))'
<1>0. cmd \in Command BY EncodeType
<1>1. Run(data, cmd) \in [Key -> Value] BY <1>0, RunType
<1>2. cmd \in ClientCommand BY ReplicationAssumption
<1>3. cmd.key \in Key /\ cmd.op \in {"SET", "PUSH", "DEL"} BY <1>2 DEF ClientCommand
<1>4. ASSUME NEW d \in [Key -> Value], ~Fails(d, cmd)
      PROVE  Run(d, cmd) = [d EXCEPT ![cmd.key] = IF cmd.op = "PUSH" THEN Container ELSE cmd.val]
  <2>1. CASE cmd.op = "PUSH" BY <1>4, <2>1 DEF Run
  <2>2. CASE cmd.op # "PUSH" BY <1>3, <2>2 DEF Run, Fails
  <2> QED BY <2>1, <2>2
<1>5. keyspace' = [keyspace EXCEPT ![cmd.key] = IF cmd.op = "PUSH" THEN Container ELSE cmd.val]
  BY <1>4
<1>6. CASE ~Fails(data, cmd)
  <2>1. Run(data, cmd) = [data EXCEPT ![cmd.key] = IF cmd.op = "PUSH" THEN Container ELSE cmd.val]
    BY <1>4, <1>6
  <2>2. PICK after : after = Run(data, cmd) OBVIOUS
  <2>3. ASSUME NEW k \in Key
        PROVE  \/ after[k] = keyspace'[k]
               \/ k \in stale' /\ after[k] # Absent
               \/ keyspace'[k] = Container /\ after[k] \in String \cup {Printed}
    <3>1. CASE k = cmd.key BY <1>5, <2>1, <2>2, <3>1
    <3>2. CASE k # cmd.key
      <4>1. after[k] = data[k] /\ keyspace'[k] = keyspace[k] BY <1>5, <2>1, <2>2, <3>2
      <4> QED BY <4>1 DEF Matches
    <3> QED BY <3>1, <3>2
  <2> QED BY <1>1, <2>2, <2>3 DEF Matches
<1>7. CASE Fails(data, cmd)
  <2>1. cmd.op = "PUSH" /\ data[cmd.key] \notin {Container, Absent} BY <1>7 DEF Fails
  <2>2. Run(data, cmd) = data BY <1>7, <2>1 DEF Run
  <2>3. data[cmd.key] \in String \cup {Printed} BY <1>3, <2>1 DEF Value
  <2>4. keyspace'[cmd.key] = Container BY <1>3, <1>5, <2>1
  <2>5. \A k \in Key : k # cmd.key => keyspace'[k] = keyspace[k] BY <1>5
  <2>6. ASSUME NEW k \in Key
        PROVE  \/ data[k] = keyspace'[k]
               \/ k \in stale' /\ data[k] # Absent
               \/ keyspace'[k] = Container /\ data[k] \in String \cup {Printed}
    BY <2>3, <2>4, <2>5 DEF Matches
  <2> QED BY <1>1, <2>2, <2>6 DEF Matches
<1> QED BY <1>6, <1>7

(***************************************************************************)
(* A write is sent behind what is on its way and run on both sides.        *)
(***************************************************************************)
LEMMA SyncWrite ==
    ASSUME SyncInv, NEW cmd \in Requests, Write(cmd)
    PROVE  SyncInv'
<1>1. TypeInv' BY WriteType DEF SyncInv
<1>2. /\ UNCHANGED <<copy, link, partial, full, stale>>
      /\ ~Fails(keyspace, cmd)
      /\ keyspace' = Run(keyspace, cmd)
      /\ channel' = IF Online THEN channel \o Encode(cmd) ELSE channel
  BY DEF Write, rvars
<1>3. ASSUME Online', full'
      PROVE  \E data \in [Key -> Value] : Leads(Parser(copy, partial, FALSE), data)'
  <2>1. Online /\ full BY <1>2, <1>3 DEF Online
  <2> DEFINE start == Parser(copy, partial, FALSE)
  <2>2. PICK data \in [Key -> Value] : Leads(start, data) BY <2>1 DEF SyncInv
  <2>3. keyspace \in [Key -> Value] /\ cmd \in Command
    BY EncodeType DEF SyncInv, TypeInv, PrimaryOK
  <2>4. Run(data, cmd) \in [Key -> Value] /\ Matches(Run(data, cmd))'
    BY <1>2, <2>2, <2>3, RunMatches DEF Leads
  <2>5. Brings(start, channel \o Encode(cmd), Run(data, cmd))
    <3>1. Brings(start, channel, data) BY <2>2 DEF Leads
    <3>2. Brings(Ready(data), Encode(cmd), Run(data, cmd)) BY <2>3, BringsCommand
    <3> HIDE DEF start
    <3> QED BY <3>1, <3>2, BringsJoin
  <2>6. Brings(start', channel', Run(data, cmd))
    <3>1. start' = start /\ channel' = channel \o Encode(cmd) BY <1>2, <2>1
    <3> QED BY <2>5, <3>1
  <2>7. PICK after \in [Key -> Value] : after = Run(data, cmd) BY <2>4
  <2>8. Leads(Parser(copy, partial, FALSE), after)' BY <2>4, <2>6, <2>7 DEF Leads
  <2> QED BY <2>8
<1> QED BY <1>1, <1>2, <1>3 DEF SyncInv

(***************************************************************************)
(* A heartbeat changes no data.                                            *)
(***************************************************************************)
LEMMA SyncHeartbeat ==
    ASSUME SyncInv, Heartbeat
    PROVE  SyncInv'
<1>1. TypeInv' BY HeartbeatType DEF SyncInv
<1>2. /\ Online /\ UNCHANGED <<pvars, copy, link, partial, full, stale>>
      /\ channel' = channel \o Encode(Ping)
  BY DEF Heartbeat, rvars
<1>3. ASSUME full'
      PROVE  \E data \in [Key -> Value] : Leads(Parser(copy, partial, FALSE), data)'
  <2> DEFINE start == Parser(copy, partial, FALSE)
  <2>1. PICK data \in [Key -> Value] : Leads(start, data) BY <1>2, <1>3 DEF SyncInv
  <2>2. Ping \in Command /\ Run(data, Ping) = data
    BY DEF Ping, Command, Run, Fails
  <2>3. Brings(start, channel, data) BY <2>1 DEF Leads
  <2>4. Brings(Ready(data), Encode(Ping), data) BY <2>2, BringsCommand
  <2> HIDE DEF start
  <2>5. Brings(start, channel \o Encode(Ping), data) BY <2>3, <2>4, BringsJoin
  <2>6. Brings(start', channel', data)
    <3>1. start' = start /\ channel' = channel \o Encode(Ping) BY <1>2 DEF start
    <3> QED BY <2>5, <3>1
  <2>7. Matches(data)' BY <1>2, <2>1 DEF Leads, Matches, pvars
  <2>8. Leads(Parser(copy, partial, FALSE), data)' BY <2>6, <2>7 DEF Leads, start
  <2> QED BY <2>8
<1> QED BY <1>1, <1>2, <1>3 DEF SyncInv, Online

(***************************************************************************)
(* A snapshot that was just taken leads to what the primary stores.        *)
(***************************************************************************)
LEMMA SyncPsync ==
    ASSUME SyncInv, HandlePsync
    PROVE  SyncInv'
<1>1. TypeInv' BY PsyncType DEF SyncInv
<1>2. /\ link = "syncing" /\ link' = "replied"
      /\ UNCHANGED <<pvars, rvars, partial>>
      /\ full' = ~Continues(source, offset)
      /\ channel' = IF Continues(source, offset) THEN DataSince(backlog, offset)
                    ELSE Snapshot(keyspace)
      /\ stale' = {k \in Key : copy[k] # Absent /\ keyspace[k] = Absent}
  BY DEF HandlePsync
<1>3. ASSUME full'
      PROVE  \E data \in [Key -> Value] : Leads(Parser(copy, partial, FALSE), data)'
  <2>1. ~Continues(source, offset) BY <1>2, <1>3, Zenon
  <2>2. channel' = Snapshot(keyspace) BY <1>2, <2>1
  <2>3. keyspace \in [Key -> Value] /\ copy \in [Key -> Value]
    BY DEF SyncInv, TypeInv, PrimaryOK, ReplicaOK
  <2> DEFINE data == Loaded(keyspace, copy)
  <2>4. Brings(Ready(copy), Snapshot(keyspace), data) BY <2>3, SnapshotBrings
  <2>5. \A k \in Key : data[k] = IF keyspace[k] # Absent THEN AsString(keyspace[k]) ELSE copy[k]
    BY DEF Loaded
  <2>6. data \in [Key -> Value] BY <2>3 DEF Loaded, AsString, Value
  <2> HIDE DEF data
  <2>7. ASSUME NEW k \in Key
        PROVE  \/ data[k] = keyspace[k]
               \/ k \in stale' /\ data[k] # Absent
               \/ keyspace[k] = Container /\ data[k] \in String \cup {Printed}
    BY <1>2, <2>5 DEF AsString
  <2>8. PICK final \in [Key -> Value] : final = data BY <2>6
  <2>9. Matches(final)' BY <1>2, <2>7, <2>8 DEF Matches, pvars
  <2>10. Parser(copy, partial, FALSE)' = Ready(copy)
    <3>1. partial = Nothing BY <1>2 DEF SyncInv
    <3>2. copy' = copy /\ partial' = partial BY <1>2 DEF rvars
    <3> QED BY <3>1, <3>2 DEF Ready
  <2>11. Brings(Parser(copy, partial, FALSE)', channel', final) BY <2>2, <2>4, <2>8, <2>10
  <2>12. Leads(Parser(copy, partial, FALSE), final)' BY <2>9, <2>11 DEF Leads
  <2> QED BY <2>12
<1> QED BY <1>1, <1>2, <1>3 DEF SyncInv

(***************************************************************************)
(* Wherever the channel is cut, the parser keeps what the cut command      *)
(* needs, and the rest leads to the same data.                             *)
(***************************************************************************)
LEMMA SyncReceive ==
    ASSUME SyncInv, NEW n \in 1..Len(channel), NEW fate \in String \cup {"error"},
           Receive(n, fate)
    PROVE  SyncInv'
<1>1. TypeInv' BY ReceiveType DEF SyncInv
<1> DEFINE start == Parser(copy, partial, FALSE)
           front == SubSeq(channel, 1, n)
           rest == SubSeq(channel, n + 1, Len(channel))
           parsed == ParseFrom(start, front, fate)
<1>2. /\ link = "streaming" /\ UNCHANGED pvars
      /\ \/ CloseConnection
         \/ /\ copy' = parsed.data
            /\ partial' = parsed.partial
            /\ channel' = rest
            /\ UNCHANGED <<link, full, stale>>
  BY DEF Receive, Parse
<1>3. CASE CloseConnection
  <2>1. link' = "down" BY <1>3 DEF CloseConnection
  <2> QED BY <1>1, <2>1 DEF SyncInv, Online
<1>4. CASE /\ copy' = parsed.data
           /\ partial' = parsed.partial
           /\ channel' = rest
           /\ UNCHANGED <<link, full, stale>>
  <2>1. ASSUME full'
        PROVE  \E data \in [Key -> Value] : Leads(Parser(copy, partial, FALSE), data)'
    <3>1. PICK data \in [Key -> Value] : Leads(start, data)
      BY <1>2, <1>4, <2>1 DEF SyncInv, Online
    <3>2. front \in Seq(Byte) /\ rest \in Seq(Byte) /\ front \o rest = channel
      <4>1. PICK bytes \in Seq(Byte) : bytes = channel BY DEF SyncInv, TypeInv, ConnectionOK
      <4>2. n \in 1..Len(bytes) BY <4>1
      <4>3. /\ SubSeq(bytes, 1, n) \in Seq(Byte)
            /\ SubSeq(bytes, n + 1, Len(bytes)) \in Seq(Byte)
            /\ SubSeq(bytes, 1, n) \o SubSeq(bytes, n + 1, Len(bytes)) = bytes
        BY <4>2
      <4> QED BY <4>1, <4>3
    <3>3. Brings(start, front \o rest, data) BY <3>1, <3>2 DEF Leads
    <3> HIDE DEF start, front, rest
    <3>4. Healthy(parsed) /\ Brings(parsed, rest, data) BY <3>2, <3>3, BringsCut
    <3>5. Parser(copy, partial, FALSE)' = parsed BY <1>4, <3>4 DEF Healthy
    <3>6. Brings(Parser(copy, partial, FALSE)', channel', data) BY <1>4, <3>4, <3>5
    <3>7. Matches(data)' BY <1>2, <1>4, <3>1 DEF Leads, Matches, pvars
    <3>8. Leads(Parser(copy, partial, FALSE), data)' BY <3>6, <3>7 DEF Leads
    <3> QED BY <3>8
  <2>2. link' = "streaming" BY <1>2, <1>4
  <2> QED BY <1>1, <2>1, <2>2 DEF SyncInv
<1> QED BY <1>2, <1>3, <1>4

(***************************************************************************)
(* What changes neither data nor the connection keeps the invariant, and   *)
(* what ends the connection too.                                           *)
(***************************************************************************)
LEMMA SyncKept ==
    ASSUME SyncInv, TypeInv', link' = "syncing" => partial' = Nothing,
           Online' => Online /\ UNCHANGED <<keyspace, copy, channel, partial, full, stale>>
    PROVE  SyncInv'
<1>1. CASE ~Online' BY <1>1 DEF SyncInv
<1>2. CASE Online /\ UNCHANGED <<keyspace, copy, channel, partial, full, stale>>
  <2>1. ASSUME full
        PROVE  \E data \in [Key -> Value] : Leads(Parser(copy, partial, FALSE), data)'
    <3>1. PICK data \in [Key -> Value] : Leads(Parser(copy, partial, FALSE), data)
      BY <1>2, <2>1 DEF SyncInv
    <3>2. Brings(Parser(copy, partial, FALSE)', channel', data) BY <1>2, <3>1 DEF Leads
    <3>3. Matches(data)' BY <1>2, <3>1 DEF Leads, Matches
    <3>4. Leads(Parser(copy, partial, FALSE), data)' BY <3>2, <3>3 DEF Leads
    <3> QED BY <3>4
  <2> QED BY <1>2, <2>1 DEF SyncInv
<1> QED BY <1>1, <1>2

(***************************************************************************)
(* Every step keeps it.                                                    *)
(***************************************************************************)
LEMMA SyncStep ==
    ASSUME SyncInv, [Next]_vars
    PROVE  SyncInv'
<1>0. TypeInv' BY TypeStep DEF SyncInv
<1>1. CASE \E cmd \in Requests : Write(cmd) BY <1>1, SyncWrite
<1>2. CASE Heartbeat BY <1>2, SyncHeartbeat
<1>3. CASE HandlePsync BY <1>3, SyncPsync
<1>4. CASE Connect BY <1>0, <1>4, SyncKept DEF Connect, Online
<1>5. CASE ReadReply BY <1>0, <1>5, SyncKept DEF ReadReply, Online, pvars
<1>6. CASE ReceiveSome BY <1>6, SyncReceive DEF ReceiveSome
<1>7. CASE LoseConnection BY <1>0, <1>7, SyncKept DEF LoseConnection, CloseConnection, Online
<1>8. CASE ReplicaOf BY <1>0, <1>8, SyncKept DEF ReplicaOf, CloseConnection, Online
<1>9. CASE RestartPrimary BY <1>0, <1>9, SyncKept DEF RestartPrimary, CloseConnection, Online
<1>10. CASE UNCHANGED vars
  BY <1>0, <1>10, SyncKept DEF vars, pvars, rvars, connection, SyncInv, Online
<1> QED
  BY <1>1, <1>2, <1>3, <1>4, <1>5, <1>6, <1>7, <1>8, <1>9, <1>10 DEF Next

(***************************************************************************)
(* A connection that began with a full synchronisation brings the replica  *)
(* every write up to the present (handle_psync, propagate_write), for      *)
(* every set of keys, every snapshot and every cut of the bytes into       *)
(* chunks, but for the keys only the replica had and the containers sent   *)
(* as strings.                                                             *)
(***************************************************************************)
THEOREM FullSynchronisation == Spec => []FullSyncComplete
<1>1. Init => SyncInv
  <2> SUFFICES ASSUME Init PROVE SyncInv OBVIOUS
  <2>1. TypeInv /\ link = "down" BY TypeInit DEF Init
  <2> QED BY <2>1 DEF SyncInv, Online
<1>2. SyncInv /\ [Next]_vars => SyncInv' BY SyncStep
<1>3. SyncInv => FullSyncComplete BY SyncHolds
<1> QED BY <1>1, <1>2, <1>3, PTL DEF Spec
=============================================================================
