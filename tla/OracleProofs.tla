----------------------------- MODULE OracleProofs -----------------------------
(***************************************************************************)
(* Theorems about the single-pool adapter, for any size of ring, modulus   *)
(* of the stamps, ticks, quotes, windows and interleaving of swaps, growth *)
(* and time: it prices an instant at its true mean or not at all, and it   *)
(* keeps the promises of the price feed.  What a ring tells is proved of   *)
(* any pool, in the operators of ObservationRing, before the adapter.      *)
(***************************************************************************)
EXTENDS PonsOracle, TotalsProofs

-----------------------------------------------------------------------------
(* Arithmetic of 32-bit timestamps and of mean ticks *)

\* A remainder is the only one of its size.
LEMMA RemainderIs ==
    ASSUME NEW B \in Nat \ {0}, NEW q \in Int, NEW r \in 0..B - 1, NEW x, x = B * q + r
    PROVE  x % B = r /\ x \div B = q
<1> DEFINE Q == x \div B
           R == x % B
<1>1. x \in Int
  OBVIOUS
<1>2. Q \in Int /\ R \in 0..B - 1 /\ x = B * Q + R
  BY <1>1
<1> HIDE DEF Q, R
<1>3. B * (q - Q) = R - r
  BY <1>2
<1>4. q = Q
  <2>1. CASE q > Q
    <3>1. B * (q - Q) >= B
      BY <1>2, <2>1
    <3>2. QED
      BY <1>2, <1>3, <3>1
  <2>2. CASE q < Q
    <3>1. B * (q - Q) <= -B
      <4>1. q - Q <= -1 /\ q - Q \in Int
        BY <1>2, <2>2
      <4>2. QED
        BY <4>1
    <3>2. QED
      BY <1>2, <1>3, <3>1
  <2>3. QED
    BY <1>2, <2>1, <2>2
<1>5. R = r
  BY <1>2, <1>4
<1>6. QED
  BY <1>4, <1>5 DEF Q, R

\* how often the stamps have started again by an instant
Era(t) == t \div TimestampModulus

LEMMA StampParts ==
    ASSUME NEW t \in Nat
    PROVE  /\ Era(t) \in Nat
           /\ Stamp(t) \in 0..TimestampModulus - 1
           /\ t = TimestampModulus * Era(t) + Stamp(t)
           /\ Stamp(t) <= t
<1>1. TimestampModulus \in Nat \ {0}
  BY RingAssumption
<1>2. /\ Era(t) \in Nat
      /\ Stamp(t) \in 0..TimestampModulus - 1
      /\ t = TimestampModulus * Era(t) + Stamp(t)
  BY <1>1 DEF Stamp, Era
<1>3. TimestampModulus * Era(t) >= 0
  BY <1>1, <1>2
<1>4. QED
  BY <1>1, <1>2, <1>3

\* The age of a stamp taken less than 2^32 seconds ago is its real age.
LEMMA StampAge ==
    ASSUME NEW t \in Nat, NEW u \in Nat, u <= t, t - u < TimestampModulus
    PROVE  Age(t, Stamp(u)) = t - u
<1> DEFINE B == TimestampModulus
           q == Era(u) - Era(t)
           x == Stamp(t) - Stamp(u)
           r == t - u
<1>1. B \in Nat \ {0}
  BY RingAssumption
<1>2. Era(t) \in Nat /\ Stamp(t) \in Int /\ t = B * Era(t) + Stamp(t)
  BY StampParts
<1>3. Era(u) \in Nat /\ Stamp(u) \in Int /\ u = B * Era(u) + Stamp(u)
  BY StampParts
<1>4. q \in Int /\ B * q = B * Era(u) - B * Era(t)
  BY <1>1, <1>2, <1>3
<1> HIDE DEF B, q
<1>5. x = B * q + r
  BY <1>1, <1>2, <1>3, <1>4
<1>6. r \in 0..B - 1
  BY <1>1 DEF B
<1> HIDE DEF x, r
<1>7. x % B = r
  BY <1>1, <1>4, <1>5, <1>6, RemainderIs
<1>8. QED
  BY <1>7 DEF Age, B, x, r

\* Going back from the present by as much as an instant is ago gives its stamp.
LEMMA StampBack ==
    ASSUME NEW time \in Nat, NEW t \in Nat
    PROVE  (Stamp(time) - (time - t)) % TimestampModulus = Stamp(t)
<1> DEFINE B == TimestampModulus
           q == Era(t) - Era(time)
           x == Stamp(time) - (time - t)
<1>1. B \in Nat \ {0}
  BY RingAssumption
<1>2. Era(t) \in Nat /\ Stamp(t) \in 0..B - 1 /\ t = B * Era(t) + Stamp(t)
  BY StampParts
<1>3. Era(time) \in Nat /\ Stamp(time) \in Int /\ time = B * Era(time) + Stamp(time)
  BY <1>1, StampParts
<1>4. q \in Int /\ B * q = B * Era(t) - B * Era(time)
  BY <1>1, <1>2, <1>3
<1> HIDE DEF B, q
<1>5. x = B * q + Stamp(t)
  BY <1>1, <1>2, <1>3, <1>4
<1> HIDE DEF x
<1>6. x % B = Stamp(t)
  BY <1>1, <1>2, <1>4, <1>5, RemainderIs
<1>7. QED
  BY <1>6 DEF B, x

\* The library's correction of a truncated quotient is the floor.
LEMMA MeanIsFloor ==
    ASSUME NEW d \in Int, NEW w \in Nat \ {0}
    PROVE  MeanTick(d, w) = d \div w
<1>1. CASE d >= 0
  BY <1>1 DEF MeanTick, TruncatedQuotient
<1>2. CASE d < 0
  <2> DEFINE q == (-d) \div w
             r == (-d) % w
  <2>1. q \in Int /\ r \in 0..w - 1 /\ -d = w * q + r
    OBVIOUS
  <2> HIDE DEF q, r
  <2>2. CASE r = 0
    <3>1. d = w * (-q) + 0
      BY <2>1, <2>2
    <3>2. d % w = 0 /\ d \div w = -q
      BY <2>1, <3>1, RemainderIs
    <3>3. QED
      BY <1>2, <3>2 DEF MeanTick, TruncatedQuotient, q
  <2>3. CASE r # 0
    <3>1. d = w * (-q - 1) + (w - r) /\ -q - 1 \in Int /\ w - r \in 0..w - 1
      BY <2>1, <2>3
    <3>2. d % w = w - r /\ d \div w = -q - 1
      BY <3>1, RemainderIs
    <3>3. d % w # 0
      BY <2>1, <3>2
    <3>4. QED
      BY <1>2, <2>1, <3>2, <3>3 DEF MeanTick, TruncatedQuotient, q
  <2>4. QED
    BY <2>2, <2>3
<1>3. QED
  BY <1>1, <1>2

\* The slope of a straight stretch comes out of the division exactly.
LEMMA ExactQuotient ==
    ASSUME NEW s \in Int, NEW d \in Nat \ {0}
    PROVE  (s * d) \div d = s
<1>1. s * d = d * s + 0 /\ 0 \in 0..d - 1
  OBVIOUS
<1>2. QED
  BY <1>1, RemainderIs

\* The slot after a slot of the ring.
LEMMA SlotAfter ==
    ASSUME NEW c \in Nat \ {0}, NEW i \in 0..c - 1
    PROVE  (i + 1) % c = IF i = c - 1 THEN 0 ELSE i + 1
<1> DEFINE x == i + 1
<1>1. CASE i = c - 1
  <2>1. x = c * 1 + 0 /\ 0 \in 0..c - 1 /\ 1 \in Int
    BY <1>1
  <2> HIDE DEF x
  <2>2. x % c = 0
    BY <2>1, RemainderIs
  <2>3. QED
    BY <1>1, <2>2 DEF x
<1>2. CASE i # c - 1
  <2>1. x = c * 0 + x /\ x \in 0..c - 1 /\ 0 \in Int
    BY <1>2
  <2> HIDE DEF x
  <2>2. x % c = x
    BY <2>1, RemainderIs
  <2>3. QED
    BY <1>2, <2>2 DEF x
<1>3. QED
  BY <1>1, <1>2

-----------------------------------------------------------------------------
(***************************************************************************)
(* What a ring remembers.  `at` says when each slot was written: it is not *)
(* in the pool, whose stamps forget which 2^32 seconds they are from.      *)
(***************************************************************************)
PoolType ==
    [tick : Int, index : Slots, cardinality : 1..MaxCardinality,
     cardinalityNext : 1..MaxCardinality, observations : [Slots -> Observation]]

Written(p, i) == p.observations[i].initialized

Follower(p, i) == (i + 1) % p.cardinality

\* filled in order, and kept when it is full
Shape(p) ==
    /\ p.index < p.cardinality /\ p.cardinality <= p.cardinalityNext
    /\ \A i \in 0..p.index : Written(p, i)
    /\ \A i \in Slots : i >= p.cardinality => ~Written(p, i)
    /\ \/ \A i \in Slots : i > p.index => ~Written(p, i)
       \/ \A i \in 0..p.cardinality - 1 : Written(p, i)

\* the pool traded at one tick all the way from a to b
Straight(sum, a, b) ==
    \E slope \in Int : \A t \in a..b : sum[t] = sum[a] + slope * (t - a)

\* slot i was written at u and holds what had accumulated by then
Records(p, i, u, sum) ==
    /\ p.observations[i].blockTimestamp = Stamp(u)
    /\ p.observations[i].tickCumulative = sum[u]

\* from the newest observation on, the pool trades at its present tick
Trades(sum, a, b, tick) == \A t \in a..b : sum[t] = sum[a] + tick * (t - a)

Tells(p, at, time, sum) ==
    /\ \A i \in Slots : Written(p, i) =>
         at[i] \in Genesis..time /\ Records(p, i, at[i], sum)
    /\ \A i \in 0..p.cardinality - 1 :
         i # p.index /\ Written(p, i) /\ Written(p, Follower(p, i)) =>
             /\ at[i] < at[Follower(p, i)]
             /\ Straight(sum, at[i], at[Follower(p, i)])
    /\ Trades(sum, at[p.index], time, p.tick)

Clock(time, sum) ==
    /\ time \in Nat /\ time >= Genesis /\ time - Genesis < TimestampModulus
    /\ sum \in [Genesis..time -> Int]

LEMMA ClockFacts ==
    ASSUME NEW time, NEW sum, Clock(time, sum)
    PROVE  /\ time \in Nat /\ Genesis \in Nat /\ time - Genesis < TimestampModulus
           /\ TimestampModulus \in Nat \ {0}
           /\ \A t \in Genesis..time : t \in Nat /\ sum[t] \in Int
BY OracleAssumption, RingAssumption DEF Clock

LEMMA PoolFacts ==
    ASSUME NEW p \in PoolType, Shape(p)
    PROVE  /\ p.tick \in Int
           /\ p.cardinality \in Nat \ {0} /\ p.cardinality <= MaxCardinality
           /\ p.cardinalityNext \in Nat \ {0} /\ p.cardinalityNext <= MaxCardinality
           /\ p.index \in 0..p.cardinality - 1 /\ p.index \in Slots
           /\ \A i \in 0..p.cardinality - 1 : i \in Slots
           /\ Written(p, p.index)
           /\ \A i \in Slots : Written(p, i) \in BOOLEAN
<1>1. /\ p.tick \in Int /\ p.index \in Slots
      /\ p.cardinality \in 1..MaxCardinality /\ p.cardinalityNext \in 1..MaxCardinality
      /\ p.observations \in [Slots -> Observation]
  BY DEF PoolType
<1>2. MaxCardinality \in Nat \ {0} /\ Slots = 0..MaxCardinality - 1
  BY RingAssumption DEF Slots
<1>3. /\ p.cardinality \in Nat \ {0} /\ p.cardinality <= MaxCardinality
      /\ p.cardinalityNext \in Nat \ {0} /\ p.cardinalityNext <= MaxCardinality
      /\ p.index \in Nat /\ p.index < p.cardinality
  BY <1>1, <1>2 DEF Shape
<1>4. p.index \in 0..p.cardinality - 1 /\ \A i \in 0..p.cardinality - 1 : i \in Slots
  BY <1>2, <1>3
<1>5. Written(p, p.index)
  BY <1>3 DEF Shape
<1>6. \A i \in Slots : Written(p, i) \in BOOLEAN
  BY <1>1 DEF Written, Observation
<1>7. QED
  BY <1>1, <1>3, <1>4, <1>5, <1>6

LEMMA FollowerIs ==
    ASSUME NEW p \in PoolType, Shape(p), NEW i \in 0..p.cardinality - 1
    PROVE  /\ Follower(p, i) = IF i = p.cardinality - 1 THEN 0 ELSE i + 1
           /\ Follower(p, i) \in 0..p.cardinality - 1
<1>1. p.cardinality \in Nat \ {0}
  BY PoolFacts
<1>2. QED
  BY <1>1, SlotAfter DEF Follower

\* What follows a written slot that is not the newest is written.
LEMMA FollowerWritten ==
    ASSUME NEW p \in PoolType, Shape(p), NEW i \in 0..p.cardinality - 1,
           i # p.index, Written(p, i)
    PROVE  Written(p, Follower(p, i))
<1>1. /\ p.cardinality \in Nat \ {0} /\ p.index \in 0..p.cardinality - 1
      /\ \A j \in 0..p.cardinality - 1 : j \in Slots
  BY PoolFacts
<1>2. /\ Follower(p, i) = IF i = p.cardinality - 1 THEN 0 ELSE i + 1
      /\ Follower(p, i) \in 0..p.cardinality - 1
  BY FollowerIs
<1>3. CASE \A j \in 0..p.cardinality - 1 : Written(p, j)
  BY <1>2, <1>3
<1>4. CASE \A j \in Slots : j > p.index => ~Written(p, j)
  <2>1. i < p.index
    BY <1>1, <1>4
  <2>2. Follower(p, i) \in 0..p.index
    BY <1>1, <1>2, <2>1
  <2>3. QED
    BY <2>2 DEF Shape
<1>5. QED
  BY <1>3, <1>4 DEF Shape

\* Ages order written slots and instants as they really were.
LEMMA AgesTell ==
    ASSUME NEW time, NEW sum, Clock(time, sum), NEW u \in Genesis..time,
           NEW t \in Nat, t <= time, time - t < TimestampModulus
    PROVE  /\ Age(time, Stamp(u)) = time - u
           /\ Age(time, Stamp(t)) = time - t
           /\ Age(time, Stamp(u)) >= Age(time, Stamp(t)) <=> u <= t
           /\ Age(time, Stamp(t)) >= Age(time, Stamp(u)) <=> t <= u
           /\ t >= u => Age(t, Stamp(u)) = t - u
<1>1. time \in Nat /\ u \in Nat /\ u <= time /\ time - u < TimestampModulus
  BY ClockFacts
<1>2. Age(time, Stamp(u)) = time - u
  BY <1>1, StampAge
<1>3. Age(time, Stamp(t)) = time - t
  BY <1>1, StampAge
<1>4. ASSUME t >= u
      PROVE  Age(t, Stamp(u)) = t - u
  <2>1. t - u < TimestampModulus
    BY <1>1, ClockFacts
  <2>2. QED
    BY <1>1, <1>4, <2>1, StampAge
<1>5. QED
  BY <1>1, <1>2, <1>3, <1>4

-----------------------------------------------------------------------------
(* Reading a ring *)

\* Of a set of instants up to b, one is the latest.
LEMMA LatestOf ==
    ASSUME NEW b \in Nat, NEW T, T \subseteq 0..b, T # {}
    PROVE  \E x \in T : \A y \in T : y <= x
<1> DEFINE Latest(U) == \E x \in U : \A y \in U : y <= x
           Good == {U \in SUBSET T : U = {} \/ Latest(U)}
<1>1. IsFiniteSet(T)
  <2>1. IsFiniteSet(0..b)
    BY FS_Interval
  <2>2. QED
    BY <2>1, FS_Subset
<1>2. {} \in Good
  OBVIOUS
<1>3. ASSUME NEW U \in SUBSET T, NEW x \in T \ U, U \in Good
      PROVE  U \cup {x} \in Good
  <2>1. \A y \in T : y \in Nat
    OBVIOUS
  <2>2. CASE U = {}
    BY <2>1, <2>2
  <2>3. CASE U # {}
    <3>1. PICK z \in U : \A y \in U : y <= z
      BY <1>3, <2>3
    <3>2. CASE x <= z
      <4>1. \A y \in U \cup {x} : y <= z
        BY <3>1, <3>2
      <4>2. QED
        BY <3>1, <4>1
    <3>3. CASE z <= x
      <4>1. \A y \in U \cup {x} : y <= x
        BY <2>1, <3>1, <3>3
      <4>2. QED
        BY <4>1
    <3>4. QED
      BY <2>1, <3>2, <3>3
  <2>4. QED
    BY <2>2, <2>3
<1>4. T \in Good
  <2> HIDE DEF Good
  <2>1. QED
    BY <1>1, <1>2, <1>3, SubsetInduction
<1>5. QED
  BY <1>4

OldestIndex(p) ==
    IF Written(p, Follower(p, p.index)) THEN Follower(p, p.index) ELSE 0

LEMMA OldestIs ==
    ASSUME NEW p \in PoolType, Shape(p)
    PROVE  /\ Oldest(p) = p.observations[OldestIndex(p)]
           /\ Newest(p) = p.observations[p.index]
           /\ OldestIndex(p) \in 0..p.cardinality - 1
           /\ OldestIndex(p) \in Slots
           /\ Written(p, OldestIndex(p))
<1>1. /\ p.cardinality \in Nat \ {0} /\ p.index \in 0..p.cardinality - 1
      /\ \A i \in 0..p.cardinality - 1 : i \in Slots
  BY PoolFacts
<1>2. Follower(p, p.index) \in 0..p.cardinality - 1
  BY <1>1, FollowerIs
<1>3. Oldest(p) = p.observations[OldestIndex(p)]
  BY DEF Oldest, OldestIndex, NextIndex, Follower, Written
<1>4. OldestIndex(p) \in 0..p.cardinality - 1 /\ Written(p, OldestIndex(p))
  <2>1. 0 \in 0..p.index /\ 0 \in 0..p.cardinality - 1
    BY <1>1
  <2>2. Written(p, 0)
    BY <2>1 DEF Shape
  <2>3. QED
    BY <1>2, <2>1, <2>2 DEF OldestIndex
<1>5. QED
  BY <1>1, <1>3, <1>4 DEF Newest

\* what reading needs to know, in one name
Ring(p, at, time, sum) ==
    /\ Clock(time, sum)
    /\ p \in PoolType /\ Shape(p)
    /\ at \in [Slots -> Nat]
    /\ Tells(p, at, time, sum)

\* an instant of the last 2^32 seconds
Recent(time, t) == t \in Nat /\ t <= time /\ time - t < TimestampModulus

Target(time, t) == (Stamp(time) - (time - t)) % TimestampModulus

LEMMA SlotFacts ==
    ASSUME NEW p, NEW at, NEW time, NEW sum, Ring(p, at, time, sum),
           NEW i \in Slots, Written(p, i)
    PROVE  /\ at[i] \in Genesis..time /\ at[i] \in Nat
           /\ p.observations[i].blockTimestamp = Stamp(at[i])
           /\ p.observations[i].tickCumulative = sum[at[i]]
           /\ sum[at[i]] \in Int
<1>1. at[i] \in Genesis..time /\ Records(p, i, at[i], sum)
  BY DEF Ring, Tells
<1>2. sum[at[i]] \in Int /\ at[i] \in Nat
  BY <1>1, ClockFacts DEF Ring
<1>3. QED
  BY <1>1, <1>2 DEF Records

\* A slot and its follower bracket an instant as their stamps say.
LEMMA StampsOrder ==
    ASSUME NEW p, NEW at, NEW time, NEW sum, Ring(p, at, time, sum),
           NEW i \in Slots, Written(p, i), NEW t, Recent(time, t)
    PROVE  LET target == Target(time, t)
               stamp == p.observations[i].blockTimestamp
           IN  /\ target = Stamp(t)
               /\ Age(time, stamp) >= Age(time, target) <=> at[i] <= t
               /\ Age(time, target) >= Age(time, stamp) <=> t <= at[i]
               /\ Age(time, stamp) < Age(time, target) <=> t < at[i]
               /\ t >= at[i] => (target - stamp) % TimestampModulus = t - at[i]
<1>1. at[i] \in Genesis..time /\ at[i] \in Nat
      /\ p.observations[i].blockTimestamp = Stamp(at[i])
  BY SlotFacts
<1>2. time \in Nat /\ t \in Nat /\ t <= time /\ Clock(time, sum)
  BY ClockFacts DEF Ring, Recent
<1>3. Target(time, t) = Stamp(t)
  BY <1>2, StampBack DEF Target
<1>4. /\ Age(time, Stamp(at[i])) >= Age(time, Stamp(t)) <=> at[i] <= t
      /\ Age(time, Stamp(t)) >= Age(time, Stamp(at[i])) <=> t <= at[i]
      /\ Age(time, Stamp(at[i])) = time - at[i]
      /\ Age(time, Stamp(t)) = time - t
      /\ t >= at[i] => Age(t, Stamp(at[i])) = t - at[i]
  BY <1>1, <1>2, AgesTell DEF Recent
<1>5. Age(time, Stamp(at[i])) < Age(time, Stamp(t)) <=> t < at[i]
  BY <1>1, <1>2, <1>4
<1>6. QED
  BY <1>1, <1>3, <1>4, <1>5 DEF Age

\* From the newest observation on, the answer carries it forward.
LEMMA ObserveNewest ==
    ASSUME NEW p, NEW at, NEW time, NEW sum, Ring(p, at, time, sum),
           NEW t, Recent(time, t), at[p.index] <= t
    PROVE  /\ ObserveSingle(p, time, time - t) = {sum[t]}
           /\ t >= Genesis /\ sum[t] \in Int
<1> DEFINE n == p.index
           target == Target(time, t)
           last == p.observations[n]
<1>1. p \in PoolType /\ Shape(p) /\ Clock(time, sum)
  BY DEF Ring
<1>2. n \in Slots /\ Written(p, n) /\ p.tick \in Int
  BY <1>1, PoolFacts
<1>3. /\ at[n] \in Genesis..time /\ at[n] \in Nat
      /\ last.tickCumulative = sum[at[n]] /\ sum[at[n]] \in Int
  BY <1>2, SlotFacts
<1>4. /\ Age(time, last.blockTimestamp) >= Age(time, target)
      /\ (target - last.blockTimestamp) % TimestampModulus = t - at[n]
  BY <1>2, StampsOrder
<1>5. t \in Genesis..time /\ t \in at[n]..time
  BY <1>1, <1>3, ClockFacts DEF Recent
<1>6. sum[t] = sum[at[n]] + p.tick * (t - at[n]) /\ sum[t] \in Int
  BY <1>1, <1>5, ClockFacts DEF Ring, Tells, Trades
<1>7. Transform(last, target, p.tick).tickCumulative = sum[t]
  BY <1>3, <1>4, <1>6 DEF Transform
<1>8. ObserveSingle(p, time, time - t) = {Transform(last, target, p.tick).tickCumulative}
  BY <1>4 DEF ObserveSingle, Newest, Target
<1>9. QED
  BY <1>1, <1>5, <1>6, <1>7, <1>8, ClockFacts

\* Two neighbours bracket the instant, and what they hold is the whole truth of it.
LEMMA BracketTells ==
    ASSUME NEW p, NEW at, NEW time, NEW sum, Ring(p, at, time, sum),
           NEW t, Recent(time, t), NEW i \in Surrounding(p, time, Target(time, t))
    PROVE  /\ i \in 0..p.cardinality - 1
           /\ Interpolated(p.observations[i], p.observations[Follower(p, i)],
                           Target(time, t)) = sum[t]
           /\ t >= Genesis /\ sum[t] \in Int
<1> DEFINE j == Follower(p, i)
           target == Target(time, t)
           before == p.observations[i]
           after == p.observations[j]
           span == at[j] - at[i]
<1>1. p \in PoolType /\ Shape(p) /\ Clock(time, sum)
  BY DEF Ring
<1>2. /\ i \in 0..p.cardinality - 1 /\ i # p.index /\ Written(p, i) /\ Written(p, j)
      /\ Age(time, before.blockTimestamp) >= Age(time, target)
      /\ Age(time, target) >= Age(time, after.blockTimestamp)
  BY DEF Surrounding, Written, Follower
<1>3. i \in Slots /\ j \in Slots /\ j \in 0..p.cardinality - 1
  BY <1>1, <1>2, PoolFacts, FollowerIs
<1> HIDE DEF j, target
<1>4. /\ at[i] \in Genesis..time /\ at[i] \in Nat
      /\ before.tickCumulative = sum[at[i]] /\ sum[at[i]] \in Int
  BY <1>2, <1>3, SlotFacts
<1>5. /\ at[j] \in Genesis..time /\ at[j] \in Nat
      /\ after.tickCumulative = sum[at[j]] /\ after.blockTimestamp = Stamp(at[j])
      /\ sum[at[j]] \in Int
  BY <1>2, <1>3, SlotFacts
<1>6. /\ at[i] <= t
      /\ (target - before.blockTimestamp) % TimestampModulus = t - at[i]
  BY <1>2, <1>3, StampsOrder DEF target
<1>7. t <= at[j]
  BY <1>2, <1>3, StampsOrder DEF target
<1>8. at[i] < at[j] /\ Straight(sum, at[i], at[j])
  BY <1>2 DEF Ring, Tells, j
<1>9. (after.blockTimestamp - before.blockTimestamp) % TimestampModulus = span
  <2>1. Recent(time, at[j])
    BY <1>1, <1>5, ClockFacts DEF Recent
  <2>2. Target(time, at[j]) = Stamp(at[j])
    BY <1>2, <1>3, <2>1, StampsOrder
  <2>3. (Target(time, at[j]) - before.blockTimestamp) % TimestampModulus = at[j] - at[i]
    <3>1. at[j] >= at[i]
      BY <1>4, <1>5, <1>8
    <3>2. QED
      BY <1>2, <1>3, <2>1, <3>1, StampsOrder
  <2>4. QED
    BY <1>5, <2>2, <2>3
<1>10. t \in Genesis..time /\ t \in at[i]..at[j] /\ at[j] \in at[i]..at[j]
  BY <1>1, <1>4, <1>5, <1>6, <1>7, <1>8, ClockFacts DEF Recent
<1>11. PICK slope \in Int : \A u \in at[i]..at[j] : sum[u] = sum[at[i]] + slope * (u - at[i])
  BY <1>8 DEF Straight
<1>12. sum[t] = sum[at[i]] + slope * (t - at[i]) /\ sum[at[j]] = sum[at[i]] + slope * span
  BY <1>10, <1>11
<1>13. span \in Nat \ {0}
  BY <1>4, <1>5, <1>8
<1> HIDE DEF span
<1>14. sum[at[j]] - sum[at[i]] = slope * span
  BY <1>4, <1>5, <1>12, <1>13
<1>15. (slope * span) \div span = slope
  BY <1>13, ExactQuotient
<1> HIDE DEF before, after
<1>16. Interpolated(before, after, target) = sum[at[i]] + slope * (t - at[i])
  BY <1>4, <1>5, <1>6, <1>9, <1>14, <1>15 DEF Interpolated
<1>17. QED
  BY <1>1, <1>2, <1>10, <1>12, <1>16, ClockFacts DEF before, after, j, target

\* Whatever a ring answers of an instant is what had accumulated by then.
LEMMA ObserveSound ==
    ASSUME NEW p, NEW at, NEW time, NEW sum, Ring(p, at, time, sum),
           NEW t, Recent(time, t), NEW v \in ObserveSingle(p, time, time - t)
    PROVE  t >= Genesis /\ v = sum[t] /\ sum[t] \in Int
<1> DEFINE target == Target(time, t)
<1>1. p.index \in Slots /\ Written(p, p.index)
  BY PoolFacts DEF Ring
<1>2. at[p.index] \in Nat /\ t \in Nat
  BY <1>1, SlotFacts DEF Recent
<1>3. CASE at[p.index] <= t
  BY <1>3, ObserveNewest
<1>4. CASE t < at[p.index]
  <2>1. ~(Age(time, Newest(p).blockTimestamp) >= Age(time, target))
    BY <1>1, <1>2, <1>4, StampsOrder DEF Newest
  <2>2. v \in {Interpolated(p.observations[i], p.observations[Follower(p, i)], target) :
                 i \in Surrounding(p, time, target)}
    BY <2>1 DEF ObserveSingle, Target, Follower
  <2>3. PICK i \in Surrounding(p, time, target) :
          v = Interpolated(p.observations[i], p.observations[Follower(p, i)], target)
    BY <2>2
  <2>4. QED
    BY <2>3, BracketTells
<1>5. QED
  BY <1>2, <1>3, <1>4

\* From the oldest observation on, some pair of neighbours brackets every instant.
LEMMA BracketExists ==
    ASSUME NEW p, NEW at, NEW time, NEW sum, Ring(p, at, time, sum),
           NEW t, Recent(time, t), at[OldestIndex(p)] <= t, t < at[p.index]
    PROVE  Surrounding(p, time, Target(time, t)) # {}
<1> DEFINE Before == {i \in 0..p.cardinality - 1 :
                        i # p.index /\ Written(p, i) /\ at[i] <= t}
           T == {at[i] : i \in Before}
<1>1. p \in PoolType /\ Shape(p) /\ Clock(time, sum) /\ t \in Nat
  BY DEF Ring, Recent
<1>2. \A i \in 0..p.cardinality - 1 : i \in Slots
  BY <1>1, PoolFacts
<1>3. \A i \in 0..p.cardinality - 1 : Written(p, i) => at[i] \in Nat
  BY <1>2 DEF Ring
<1>4. T \subseteq 0..t
  BY <1>1, <1>3
<1>5. OldestIndex(p) \in Before
  <2>1. /\ OldestIndex(p) \in 0..p.cardinality - 1 /\ Written(p, OldestIndex(p))
        /\ p.index \in 0..p.cardinality - 1 /\ Written(p, p.index)
    BY <1>1, OldestIs, PoolFacts
  <2>2. OldestIndex(p) # p.index
    BY <1>1, <1>3, <2>1
  <2>3. QED
    BY <2>1, <2>2
<1>6. \E x \in T : \A y \in T : y <= x
  <2>1. T # {}
    BY <1>5
  <2> HIDE DEF T
  <2>2. QED
    BY <1>1, <1>4, <2>1, LatestOf
<1>7. PICK i \in Before : \A k \in Before : at[k] <= at[i]
  BY <1>6
<1> DEFINE j == Follower(p, i)
<1>8. /\ i \in 0..p.cardinality - 1 /\ i # p.index /\ Written(p, i) /\ at[i] <= t
      /\ at[i] \in Nat
  BY <1>3
<1>9. j \in 0..p.cardinality - 1 /\ Written(p, j) /\ at[j] \in Nat
  BY <1>1, <1>3, <1>8, FollowerIs, FollowerWritten
<1>10. at[i] < at[j]
  BY <1>8, <1>9 DEF Ring, Tells
<1> HIDE DEF j
<1>11. t <= at[j]
  <2>1. CASE j = p.index
    BY <1>1, <1>9, <2>1
  <2>2. CASE j # p.index /\ at[j] <= t
    <3>1. j \in Before
      BY <1>9, <2>2
    <3>2. at[j] <= at[i]
      BY <1>7, <3>1
    <3>3. QED
      BY <1>8, <1>9, <1>10, <3>2
  <2>3. QED
    BY <1>1, <1>9, <2>1, <2>2
<1>12. Age(time, p.observations[i].blockTimestamp) >= Age(time, Target(time, t))
  BY <1>2, <1>8, StampsOrder
<1>13. Age(time, Target(time, t)) >= Age(time, p.observations[j].blockTimestamp)
  BY <1>2, <1>9, <1>11, StampsOrder
<1>14. i \in Surrounding(p, time, Target(time, t))
  BY <1>8, <1>9, <1>12, <1>13 DEF Surrounding, Written, Follower, j
<1>15. QED
  BY <1>14

\* An instant that the ring still reaches is answered, and with one value.
LEMMA ObserveComplete ==
    ASSUME NEW p, NEW at, NEW time, NEW sum, Ring(p, at, time, sum),
           NEW t, Recent(time, t), at[OldestIndex(p)] <= t
    PROVE  ObserveSingle(p, time, time - t) = {sum[t]}
<1> DEFINE target == Target(time, t)
           O == OldestIndex(p)
<1>1. p \in PoolType /\ Shape(p) /\ t \in Nat
  BY DEF Ring, Recent
<1>2. /\ p.index \in Slots /\ Written(p, p.index)
      /\ O \in Slots /\ Written(p, O)
      /\ Oldest(p) = p.observations[O] /\ Newest(p) = p.observations[p.index]
  BY <1>1, PoolFacts, OldestIs
<1>3. at[p.index] \in Nat /\ at[O] \in Nat
  BY <1>2 DEF Ring
<1>4. CASE at[p.index] <= t
  BY <1>4, ObserveNewest
<1>5. CASE t < at[p.index]
  <2>1. ~(Age(time, Newest(p).blockTimestamp) >= Age(time, target))
    BY <1>1, <1>2, <1>3, <1>5, StampsOrder
  <2>2. ~(Age(time, Oldest(p).blockTimestamp) < Age(time, target))
    BY <1>1, <1>2, <1>3, StampsOrder
  <2>3. ObserveSingle(p, time, time - t) =
          {Interpolated(p.observations[i], p.observations[Follower(p, i)], target) :
             i \in Surrounding(p, time, target)}
    BY <2>1, <2>2 DEF ObserveSingle, Target, Follower
  <2>4. \A i \in Surrounding(p, time, target) :
          Interpolated(p.observations[i], p.observations[Follower(p, i)], target) = sum[t]
    BY BracketTells
  <2>5. Surrounding(p, time, target) # {}
    BY <1>5, BracketExists
  <2>6. QED
    BY <2>3, <2>4, <2>5
<1>6. QED
  BY <1>1, <1>3, <1>4, <1>5

-----------------------------------------------------------------------------
(* The life of a ring *)

\* A straight stretch looks at nothing outside itself.
LEMMA StraightAlike ==
    ASSUME NEW a \in Int, NEW b \in Int, NEW f, NEW g, \A t \in a..b : g[t] = f[t], a <= b,
           Straight(f, a, b)
    PROVE  Straight(g, a, b)
<1>1. PICK slope \in Int : \A t \in a..b : f[t] = f[a] + slope * (t - a)
  BY DEF Straight
<1>2. a \in a..b
  OBVIOUS
<1>3. \A t \in a..b : g[t] = g[a] + slope * (t - a)
  BY <1>1, <1>2
<1>4. QED
  BY <1>3 DEF Straight

\* Time passing adds a second at the present tick and changes nothing before.
LEMMA TimePasses ==
    ASSUME NEW p, NEW at, NEW time, NEW sum, Ring(p, at, time, sum), time < MaxTime,
           NEW later, later = [t \in Genesis..time + 1 |->
                                 IF t <= time THEN sum[t] ELSE sum[time] + p.tick]
    PROVE  Ring(p, at, time + 1, later)
<1> DEFINE n == p.index
<1>1. /\ p \in PoolType /\ Shape(p) /\ at \in [Slots -> Nat]
      /\ Clock(time, sum) /\ Tells(p, at, time, sum)
  BY DEF Ring
<1>2. /\ time \in Nat /\ Genesis \in Nat /\ time >= Genesis
      /\ sum \in [Genesis..time -> Int] /\ (time + 1) - Genesis < TimestampModulus
  BY <1>1, OracleAssumption, RingAssumption DEF Clock
<1>3. p.tick \in Int /\ n \in Slots /\ Written(p, n)
  BY <1>1, PoolFacts
<1>4. /\ \A t \in Genesis..time : later[t] = sum[t]
      /\ later[time + 1] = sum[time] + p.tick
      /\ later \in [Genesis..time + 1 -> Int]
  BY <1>2, <1>3
<1>5. Clock(time + 1, later)
  BY <1>2, <1>4, OracleAssumption DEF Clock
<1>6. \A i \in Slots : Written(p, i) =>
        at[i] \in Genesis..time + 1 /\ at[i] \in Genesis..time /\ Records(p, i, at[i], later)
  BY <1>1, <1>2, <1>4 DEF Tells, Records
<1>7. ASSUME NEW i \in 0..p.cardinality - 1, i # n, Written(p, i), Written(p, Follower(p, i))
      PROVE  /\ at[i] < at[Follower(p, i)]
             /\ Straight(later, at[i], at[Follower(p, i)])
  <2> DEFINE a == at[i]
             b == at[Follower(p, i)]
  <2>1. a < b /\ Straight(sum, a, b)
    BY <1>1, <1>7 DEF Tells
  <2>2. i \in Slots /\ Follower(p, i) \in Slots
    BY <1>1, PoolFacts, FollowerIs
  <2>3. a \in Genesis..time /\ b \in Genesis..time
    BY <1>6, <1>7, <2>2
  <2> HIDE DEF a, b
  <2>4. \A t \in a..b : later[t] = sum[t]
    BY <1>2, <1>4, <2>3
  <2>5. Straight(later, a, b)
    BY <1>2, <2>1, <2>3, <2>4, StraightAlike
  <2>6. QED
    BY <2>1, <2>5 DEF a, b
<1>8. Trades(later, at[n], time + 1, p.tick)
  <2> DEFINE a == at[n]
  <2>1. a \in Genesis..time /\ sum[a] \in Int
    BY <1>2, <1>3, <1>6
  <2>2. \A t \in a..time : sum[t] = sum[a] + p.tick * (t - a)
    BY <1>1 DEF Tells, Trades
  <2> HIDE DEF a
  <2>3. later[a] = sum[a] /\ sum[time] = sum[a] + p.tick * (time - a)
    BY <1>2, <1>4, <2>1, <2>2
  <2>4. later[time + 1] = later[a] + p.tick * ((time + 1) - a)
    <3>1. p.tick * ((time + 1) - a) = p.tick * (time - a) + p.tick
      BY <1>2, <1>3, <2>1
    <3>2. p.tick * (time - a) \in Int
      BY <1>2, <1>3, <2>1
    <3>3. QED
      BY <1>3, <1>4, <2>1, <2>3, <3>1, <3>2
  <2>5. \A t \in a..time : later[t] = later[a] + p.tick * (t - a)
    BY <1>2, <1>4, <2>1, <2>2, <2>3
  <2>6. \A t \in a..time + 1 : t \in a..time \/ t = time + 1
    BY <1>2, <2>1
  <2>7. QED
    BY <2>4, <2>5, <2>6 DEF Trades, a
<1>9. QED
  BY <1>1, <1>5, <1>6, <1>7, <1>8 DEF Ring, Tells

LEMMA RingGrows ==
    ASSUME NEW p, NEW at, NEW time, NEW sum, Ring(p, at, time, sum),
           NEW next \in 1..MaxCardinality
    PROVE  /\ Ring(Grow(p, next), at, time, sum)
           /\ Grow(p, next).index = p.index
<1> DEFINE q == Grow(p, next)
<1>1. p \in PoolType /\ Shape(p)
  BY DEF Ring
<1>2. /\ p.cardinality \in Nat \ {0} /\ p.cardinality <= MaxCardinality
      /\ p.cardinalityNext \in Nat \ {0} /\ p.cardinalityNext <= MaxCardinality
  BY <1>1, PoolFacts
<1>3. p.cardinalityNext \in 1..MaxCardinality /\ p.cardinality <= p.cardinalityNext
  BY <1>1 DEF PoolType, Shape
<1> DEFINE grown == IF next > p.cardinalityNext THEN next ELSE p.cardinalityNext
<1>4. grown \in 1..MaxCardinality /\ p.cardinality <= grown
  BY <1>2, <1>3, RingAssumption
<1>5. q = [p EXCEPT !.cardinalityNext = grown]
  BY DEF Grow
<1> HIDE DEF q, grown
<1>6. /\ q \in PoolType /\ p.cardinality <= q.cardinalityNext
      /\ q.index = p.index /\ q.cardinality = p.cardinality /\ q.tick = p.tick
      /\ q.observations = p.observations
  BY <1>1, <1>4, <1>5 DEF PoolType
<1>7. Shape(q)
  BY <1>1, <1>6 DEF Shape, Written
<1>8. Tells(q, at, time, sum)
  BY <1>6 DEF Ring, Tells, Written, Follower, Records
<1>9. QED
  BY <1>6, <1>7, <1>8 DEF Ring, q

\* A pool begins with one observation, of the moment it begins.
LEMMA RingBegins ==
    ASSUME NEW tick \in Int
    PROVE  LET p == NewPool(Genesis, tick)
               at == [i \in Slots |-> Genesis]
           IN  /\ Ring(p, at, Genesis, [t \in {Genesis} |-> 0])
               /\ p.index = 0 /\ 0 \in Slots
<1> DEFINE p == NewPool(Genesis, tick)
           at == [i \in Slots |-> Genesis]
           sum == [t \in {Genesis} |-> 0]
<1>1. /\ Genesis \in Nat /\ TimestampModulus \in Nat \ {0} /\ MaxCardinality \in Nat \ {0}
      /\ 0 \in Slots
  BY OracleAssumption, RingAssumption DEF Slots
<1>2. Stamp(Genesis) \in 0..TimestampModulus - 1
  BY <1>1, StampParts
<1>3. /\ p.tick = tick /\ p.index = 0 /\ p.cardinality = 1 /\ p.cardinalityNext = 1
      /\ p.observations = [i \in Slots |->
            IF i = 0 THEN [Unwritten EXCEPT !.blockTimestamp = Stamp(Genesis),
                                            !.initialized = TRUE]
                     ELSE Unwritten]
      /\ p = [tick |-> tick, index |-> 0, cardinality |-> 1, cardinalityNext |-> 1,
              observations |-> p.observations]
  BY DEF NewPool
<1> DEFINE first == [Unwritten EXCEPT !.blockTimestamp = Stamp(Genesis),
                                      !.initialized = TRUE]
<1>4. /\ first \in Observation /\ first.initialized
       /\ first.blockTimestamp = Stamp(Genesis) /\ first.tickCumulative = 0
  <2> DEFINE stamp == Stamp(Genesis)
  <2>1. stamp \in 0..TimestampModulus - 1
    BY <1>2
  <2>2. Unwritten \in Observation /\ Unwritten.tickCumulative = 0
    BY <1>1 DEF Unwritten, Observation
  <2> HIDE DEF stamp
  <2>3. /\ first \in Observation /\ first.initialized = TRUE
        /\ first.blockTimestamp = stamp /\ first.tickCumulative = Unwritten.tickCumulative
    BY <2>1, <2>2 DEF Observation, first, stamp
  <2>4. QED
    BY <2>2, <2>3 DEF stamp
<1>5. Unwritten \in Observation /\ ~Unwritten.initialized
  BY <1>1 DEF Unwritten, Observation
<1>6. p.observations = [i \in Slots |-> IF i = 0 THEN first ELSE Unwritten]
  BY <1>3
<1> HIDE DEF p, first
<1>7. /\ p.observations[0].blockTimestamp = Stamp(Genesis)
      /\ p.observations[0].tickCumulative = 0
      /\ Written(p, 0)
      /\ \A i \in Slots : i # 0 => ~Written(p, i)
      /\ p.observations \in [Slots -> Observation]
  BY <1>1, <1>4, <1>5, <1>6 DEF Written
<1>8. p \in PoolType
  <2>1. 1 \in 1..MaxCardinality
    BY <1>1
  <2>2. QED
    BY <1>1, <1>3, <1>7, <2>1 DEF PoolType
<1>9. Shape(p)
  BY <1>1, <1>3, <1>7 DEF Shape, Slots
<1>10. Clock(Genesis, sum)
  BY <1>1 DEF Clock
<1>11. Tells(p, at, Genesis, sum)
  <2>1. \A i \in Slots : Written(p, i) =>
          at[i] \in Genesis..Genesis /\ Records(p, i, at[i], sum)
    BY <1>1, <1>7 DEF Records
  <2>2. Trades(sum, at[p.index], Genesis, p.tick)
    BY <1>1, <1>3 DEF Trades
  <2>3. \A i \in 0..p.cardinality - 1 : i = p.index
    BY <1>3
  <2>4. QED
    BY <2>1, <2>2, <2>3 DEF Tells
<1>12. at \in [Slots -> Nat]
  BY <1>1
<1>13. QED
  BY <1>1, <1>3, <1>8, <1>9, <1>10, <1>11, <1>12 DEF Ring, p

\* The slot a write takes, and what becomes of its neighbours.
LEMMA WriteSlot ==
    ASSUME NEW p \in PoolType, Shape(p)
    PROVE  LET c == CardinalityOnWrite(p)
               K == NextIndex(p, c)
           IN  /\ c \in p.cardinality..MaxCardinality /\ c <= p.cardinalityNext
               /\ K \in 0..c - 1 /\ K \in Slots
               /\ K = IF p.index = c - 1 THEN 0 ELSE p.index + 1
               /\ p.index = c - 1 => c = p.cardinality
               /\ c # p.cardinality => p.index = p.cardinality - 1
<1> DEFINE c == CardinalityOnWrite(p)
           K == NextIndex(p, c)
<1>1. /\ p.cardinality \in Nat \ {0} /\ p.cardinality <= MaxCardinality
      /\ p.cardinalityNext \in Nat \ {0} /\ p.cardinalityNext <= MaxCardinality
      /\ p.index \in 0..p.cardinality - 1
  BY PoolFacts
<1>2. p.cardinality <= p.cardinalityNext
  BY DEF Shape
<1>3. /\ c \in Nat \ {0} /\ p.cardinality <= c /\ c <= p.cardinalityNext
      /\ c # p.cardinality => p.index = p.cardinality - 1
  BY <1>1, <1>2 DEF CardinalityOnWrite
<1> HIDE DEF c
<1>4. p.index \in 0..c - 1
  BY <1>1, <1>3
<1>5. K = IF p.index = c - 1 THEN 0 ELSE p.index + 1
  BY <1>3, <1>4, SlotAfter DEF NextIndex
<1> HIDE DEF K
<1>6. K \in 0..c - 1
  BY <1>3, <1>4, <1>5
<1>7. c \in p.cardinality..MaxCardinality /\ K \in Slots
  BY <1>1, <1>3, <1>6, RingAssumption DEF Slots
<1>8. p.index = c - 1 => c = p.cardinality
  BY <1>1, <1>3
<1>9. QED
  BY <1>3, <1>5, <1>6, <1>7, <1>8 DEF c, K

\* the pool after a swap that writes slot K and takes up c slots
Wrote(p, c, K, new, tick) ==
    [[p EXCEPT !.cardinality = c, !.index = K, !.observations[K] = new] EXCEPT !.tick = tick]

LEMMA WriteFields ==
    ASSUME NEW p \in PoolType, NEW c \in 1..MaxCardinality, NEW K \in Slots,
           NEW new \in Observation, NEW tick \in Int,
           NEW q, q = Wrote(p, c, K, new, tick)
    PROVE  /\ q \in PoolType
           /\ q.index = K /\ q.cardinality = c /\ q.tick = tick
           /\ q.cardinalityNext = p.cardinalityNext
           /\ q.observations = [p.observations EXCEPT ![K] = new]
<1> DEFINE row == [p.observations EXCEPT ![K] = new]
<1>1. row \in [Slots -> Observation]
  BY DEF PoolType
<1>2. q = [p EXCEPT !.cardinality = c, !.index = K, !.observations = row, !.tick = tick]
  BY DEF PoolType, Wrote
<1> HIDE DEF row
<1>3. QED
  BY <1>1, <1>2 DEF PoolType, row

\* A second swap in the second of the newest observation writes nothing.
LEMMA SwapAgain ==
    ASSUME NEW p, NEW at, NEW time, NEW sum, Ring(p, at, time, sum), NEW tick \in Int,
           at[p.index] = time, NEW q, q = [p EXCEPT !.tick = tick]
    PROVE  Ring(q, at, time, sum) /\ q.index = p.index
<1>1. p \in PoolType /\ Shape(p) /\ Clock(time, sum)
  BY DEF Ring
<1>2. /\ q \in PoolType /\ q.tick = tick /\ q.index = p.index
      /\ q.cardinality = p.cardinality /\ q.cardinalityNext = p.cardinalityNext
      /\ q.observations = p.observations
  BY <1>1 DEF PoolType
<1>3. Shape(q)
  BY <1>1, <1>2 DEF Shape, Written
<1>4. time \in Genesis..time /\ time \in Nat /\ sum[time] \in Int
  BY <1>1, ClockFacts DEF Clock
<1>5. Trades(sum, time, time, tick)
  BY <1>4 DEF Trades
<1>6. Tells(q, at, time, sum)
  BY <1>2, <1>5 DEF Ring, Tells, Written, Follower, Records
<1>7. QED
  BY <1>2, <1>3, <1>6 DEF Ring

\* pool q after a swap that writes slot K of pool p at time
Swapped(p, at, time, tick, q, K, when) ==
    /\ Newest(p).blockTimestamp # Stamp(time)
    /\ q = SwapToTick(p, time, tick)
    /\ K = NextIndex(p, CardinalityOnWrite(p))
    /\ when = [at EXCEPT ![K] = time]

\* A swap that writes puts the present into the slot after the newest one.
LEMMA SwapWrites ==
    ASSUME NEW p, NEW at, NEW time, NEW sum, Ring(p, at, time, sum), NEW tick \in Int,
           NEW q, NEW K, NEW when, Swapped(p, at, time, tick, q, K, when)
    PROVE  /\ Ring(q, when, time, sum)
           /\ q.index = K /\ when[K] = time /\ q.cardinality = CardinalityOnWrite(p)
           /\ \A i \in Slots : Written(q, i) <=> i = K \/ Written(p, i)
<1> DEFINE c == CardinalityOnWrite(p)
           n == p.index
           new == Transform(Newest(p), Stamp(time), p.tick)
<1>0. /\ Newest(p).blockTimestamp # Stamp(time)
      /\ q = SwapToTick(p, time, tick)
      /\ K = NextIndex(p, c) /\ when = [at EXCEPT ![K] = time]
  BY DEF Swapped
<1>1. p \in PoolType /\ Shape(p) /\ Clock(time, sum) /\ at \in [Slots -> Nat]
  BY DEF Ring
<1>2. /\ c \in p.cardinality..MaxCardinality /\ c <= p.cardinalityNext
      /\ K \in 0..c - 1 /\ K \in Slots
      /\ K = IF n = c - 1 THEN 0 ELSE n + 1
      /\ n = c - 1 => c = p.cardinality
      /\ c # p.cardinality => n = p.cardinality - 1
  BY <1>0, <1>1, WriteSlot
<1>3. /\ p.cardinality \in Nat \ {0} /\ p.cardinality <= MaxCardinality
      /\ n \in 0..p.cardinality - 1 /\ n \in Slots /\ Written(p, n) /\ p.tick \in Int
      /\ \A i \in 0..p.cardinality - 1 : i \in Slots
  BY <1>1, PoolFacts
<1>4. c \in 1..MaxCardinality /\ c \in Nat \ {0} /\ p.cardinality <= c
  BY <1>2, <1>3, RingAssumption
<1>5. /\ time \in Nat /\ time \in Genesis..time /\ Genesis \in Nat /\ sum[time] \in Int
      /\ Stamp(time) \in 0..TimestampModulus - 1
  <2>1. /\ time \in Nat /\ Genesis \in Nat /\ time >= Genesis
        /\ \A t \in Genesis..time : sum[t] \in Int
    BY <1>1, ClockFacts DEF Clock
  <2>2. Stamp(time) \in 0..TimestampModulus - 1
    BY <2>1, StampParts
  <2>3. QED
    BY <2>1, <2>2
<1>6. /\ at[n] \in Genesis..time /\ at[n] \in Nat
      /\ p.observations[n].blockTimestamp = Stamp(at[n])
      /\ p.observations[n].tickCumulative = sum[at[n]] /\ sum[at[n]] \in Int
  BY <1>3, SlotFacts
<1>7. at[n] < time
  BY <1>0, <1>5, <1>6 DEF Newest
<1>8. Trades(sum, at[n], time, p.tick)
  BY DEF Ring, Tells
<1>9. sum[time] = sum[at[n]] + p.tick * (time - at[n])
  BY <1>5, <1>6, <1>8 DEF Trades
<1>10. /\ new.blockTimestamp = Stamp(time) /\ new.tickCumulative = sum[time]
       /\ new.initialized = TRUE /\ new \in Observation
  <2>1. (Stamp(time) - Stamp(at[n])) % TimestampModulus = time - at[n]
    <3>1. time - at[n] < TimestampModulus /\ at[n] <= time
      BY <1>1, <1>6, ClockFacts
    <3>2. Age(time, Stamp(at[n])) = time - at[n]
      BY <1>5, <1>6, <3>1, StampAge
    <3>3. QED
      BY <3>2 DEF Age
  <2>2. new = [blockTimestamp |-> Stamp(time), tickCumulative |-> sum[time],
               initialized |-> TRUE]
    BY <1>6, <1>9, <2>1 DEF Transform, Newest
  <2> HIDE DEF new
  <2>3. QED
    BY <1>5, <2>2 DEF Observation
<1> HIDE DEF new, c
<1>11. /\ q \in PoolType
       /\ q.index = K /\ q.cardinality = c /\ q.tick = tick
       /\ q.cardinalityNext = p.cardinalityNext
       /\ q.observations = [p.observations EXCEPT ![K] = new]
  <2>1. q = Wrote(p, c, K, new, tick)
    BY <1>0 DEF SwapToTick, Write, Wrote, c, new
  <2>2. QED
    <3>1. p \in PoolType /\ c \in 1..MaxCardinality /\ K \in Slots /\ new \in Observation
      BY <1>1, <1>2, <1>4, <1>10
    <3>2. QED
      BY <2>1, <3>1, WriteFields
<1>12. /\ q.observations[K] = new /\ Written(q, K)
       /\ \A i \in Slots : i # K => /\ q.observations[i] = p.observations[i]
                                    /\ Written(q, i) = Written(p, i)
  <2>1. p.observations \in [Slots -> Observation]
    BY <1>1 DEF PoolType
  <2>2. q.observations[K] = new
    BY <1>2, <1>11, <2>1
  <2>3. \A i \in Slots : i # K => q.observations[i] = p.observations[i]
    BY <1>11, <2>1
  <2>4. QED
    BY <1>10, <2>2, <2>3 DEF Written
<1>13. /\ when[K] = time /\ when \in [Slots -> Nat]
       /\ \A i \in Slots : i # K => when[i] = at[i]
  BY <1>0, <1>1, <1>2, <1>5
<1>14. Shape(q)
  <2>1. /\ \A i \in 0..n : Written(p, i)
        /\ \A i \in Slots : i >= p.cardinality => ~Written(p, i)
        /\ \/ \A i \in Slots : i > n => ~Written(p, i)
           \/ \A i \in 0..p.cardinality - 1 : Written(p, i)
    BY <1>1 DEF Shape
  <2>2. \A i \in 0..K : Written(q, i)
    <3>1. \A i \in 0..K : i \in Slots /\ (i = K \/ i \in 0..n)
      BY <1>2, <1>3, <1>4, RingAssumption DEF Slots
    <3>2. QED
      BY <1>12, <2>1, <3>1
  <2>3. \A i \in Slots : i >= c => ~Written(q, i)
    <3>1. \A i \in Slots : i >= c => i # K /\ i >= p.cardinality
      BY <1>2, <1>3, <1>4 DEF Slots
    <3>2. QED
      BY <1>12, <2>1, <3>1
  <2>4. \/ \A i \in Slots : i > K => ~Written(q, i)
        \/ \A i \in 0..c - 1 : Written(q, i)
    <3>1. CASE n = p.cardinality - 1 /\ c # p.cardinality
      <4>1. \A i \in Slots : i > K => i # K /\ i >= p.cardinality
        BY <1>2, <1>3, <1>4, <3>1 DEF Slots
      <4>2. QED
        BY <1>12, <2>1, <4>1
    <3>2. CASE c = p.cardinality /\ \A i \in 0..p.cardinality - 1 : Written(p, i)
      <4>1. \A i \in 0..c - 1 : Written(q, i)
        BY <1>3, <1>12, <3>2
      <4>2. QED
        BY <4>1
    <3>3. CASE c = p.cardinality /\ \A i \in Slots : i > n => ~Written(p, i)
      <4>1. CASE n = c - 1
        <5>1. \A i \in 0..p.cardinality - 1 : Written(p, i)
          BY <2>1, <3>3, <4>1
        <5>2. QED
          BY <3>2, <3>3, <5>1
      <4>2. CASE n # c - 1
        <5>1. \A i \in Slots : i > K => i # K /\ i > n
          BY <1>2, <1>3, <4>2 DEF Slots
        <5>2. QED
          BY <1>12, <3>3, <5>1
      <4>3. QED
        BY <4>1, <4>2
    <3>4. QED
      BY <1>2, <2>1, <3>1, <3>2, <3>3
  <2>5. K < c /\ c <= q.cardinalityNext
    BY <1>2, <1>4, <1>11
  <2>6. QED
    BY <1>11, <2>2, <2>3, <2>4, <2>5 DEF Shape
<1>15. ASSUME NEW i \in 0..c - 1, i # K, Written(q, i), Written(q, Follower(q, i))
       PROVE  /\ when[i] < when[Follower(q, i)]
              /\ Straight(sum, when[i], when[Follower(q, i)])
  <2> DEFINE F == Follower(q, i)
  <2>1. F = IF i = c - 1 THEN 0 ELSE i + 1
    BY <1>11, <1>14, FollowerIs
  <2>2. F \in 0..c - 1 /\ F \in Slots /\ i \in Slots
    BY <1>11, <1>14, FollowerIs, PoolFacts
  <2>3. Written(q, F)
    BY <1>15
  <2> HIDE DEF F
  <2>4. Written(p, i) /\ when[i] = at[i]
    BY <1>12, <1>13, <1>15, <2>2
  <2>5. CASE i = n
    <3>1. F = K
      BY <1>2, <2>1, <2>5
    <3>2. at[n] < time /\ when[F] = time /\ when[i] = at[n]
      BY <1>7, <1>13, <2>4, <2>5, <3>1
    <3>3. Straight(sum, at[n], time)
      BY <1>3, <1>8 DEF Straight, Trades
    <3>4. QED
      BY <3>2, <3>3 DEF F
  <2>6. CASE i # n
    <3>1. i \in 0..p.cardinality - 1
      <4>1. ~(i >= p.cardinality)
        BY <1>1, <2>2, <2>4 DEF Shape
      <4>2. QED
        BY <1>3, <4>1
    <3>2. F = Follower(p, i)
      <4>1. Follower(p, i) = IF i = p.cardinality - 1 THEN 0 ELSE i + 1
        BY <1>1, <3>1, FollowerIs
      <4>2. QED
        BY <1>2, <1>3, <1>4, <2>1, <2>6, <3>1, <4>1
    <3>3. F # K
      BY <1>2, <1>3, <1>4, <2>1, <2>6, <3>1
    <3>4. Written(p, F) /\ when[F] = at[F]
      BY <1>12, <1>13, <2>2, <2>3, <3>3
    <3>5. at[i] < at[F] /\ Straight(sum, at[i], at[F])
      BY <2>4, <2>6, <3>1, <3>2, <3>4 DEF Ring, Tells
    <3>6. QED
      BY <2>4, <3>4, <3>5 DEF F
  <2>7. QED
    BY <2>5, <2>6
<1>16. ASSUME NEW i \in Slots, Written(q, i)
       PROVE  when[i] \in Genesis..time /\ Records(q, i, when[i], sum)
  <2>1. CASE i = K
    BY <1>5, <1>10, <1>12, <1>13, <2>1 DEF Records
  <2>2. CASE i # K
    <3>1. Written(p, i) /\ when[i] = at[i] /\ q.observations[i] = p.observations[i]
      BY <1>12, <1>13, <1>16, <2>2
    <3>2. at[i] \in Genesis..time /\ Records(p, i, at[i], sum)
      BY <3>1 DEF Ring, Tells
    <3>3. QED
      BY <3>1, <3>2 DEF Records
  <2>3. QED
    BY <2>1, <2>2
<1>17. Trades(sum, time, time, tick)
  BY <1>5 DEF Trades
<1>18. Tells(q, when, time, sum)
  BY <1>11, <1>13, <1>15, <1>16, <1>17 DEF Tells
<1>19. QED
  BY <1>1, <1>11, <1>12, <1>13, <1>14, <1>18 DEF Ring, c

\* No slot was written after the newest one.
LEMMA NewestIsLatest ==
    ASSUME NEW p, NEW at, NEW time, NEW sum, Ring(p, at, time, sum),
           NEW i \in 0..p.cardinality - 1, Written(p, i)
    PROVE  at[i] <= at[p.index]
<1> DEFINE Good == {k \in 0..p.cardinality - 1 : Written(p, k)}
           T == {at[k] : k \in Good}
<1>1. p \in PoolType /\ Shape(p) /\ Clock(time, sum) /\ time \in Nat
  BY ClockFacts DEF Ring
<1>2. \A k \in Good : k \in Slots /\ at[k] \in 0..time
  BY <1>1, PoolFacts, ClockFacts DEF Ring, Tells
<1>3. T \subseteq 0..time /\ T # {}
  BY <1>2
<1>4. \E x \in T : \A y \in T : y <= x
  <2> HIDE DEF T
  <2>1. QED
    BY <1>1, <1>3, LatestOf
<1>5. PICK k \in Good : \A j \in Good : at[j] <= at[k]
  BY <1>4
<1>6. k = p.index
  <2>1. CASE k # p.index
    <3> DEFINE j == Follower(p, k)
    <3>1. j \in 0..p.cardinality - 1 /\ Written(p, j)
      BY <1>1, <2>1, FollowerIs, FollowerWritten
    <3>2. at[k] < at[j]
      BY <2>1, <3>1 DEF Ring, Tells
    <3> HIDE DEF j
    <3>3. at[j] <= at[k] /\ at[j] \in Nat /\ at[k] \in Nat
      BY <1>2, <1>5, <3>1
    <3>4. QED
      BY <3>2, <3>3
  <2>2. QED
    BY <2>1
<1>7. QED
  BY <1>5, <1>6

\* A swap that writes loses the oldest observation of a full ring, and no other.
LEMMA SwapOldest ==
    ASSUME NEW p, NEW at, NEW time, NEW sum, Ring(p, at, time, sum), NEW tick \in Int,
           NEW q, NEW K, NEW when, Swapped(p, at, time, tick, q, K, when)
    PROVE  /\ at[OldestIndex(p)] <= when[OldestIndex(q)]
           /\ at[OldestIndex(p)] = when[OldestIndex(q)]
                \/ at[OldestIndex(p)] = at[p.index]
                \/ /\ q.cardinality = p.cardinality
                   /\ q.index # p.index
                   /\ \A i \in 0..p.cardinality - 1 : Written(p, i)
<1> DEFINE c == CardinalityOnWrite(p)
           n == p.index
           O == OldestIndex(p)
<1>0. /\ Newest(p).blockTimestamp # Stamp(time)
      /\ q = SwapToTick(p, time, tick)
      /\ K = NextIndex(p, c) /\ when = [at EXCEPT ![K] = time]
  BY DEF Swapped
<1>1. p \in PoolType /\ Shape(p) /\ Clock(time, sum) /\ at \in [Slots -> Nat] /\ time \in Nat
  BY ClockFacts DEF Ring
<1>2. /\ c \in p.cardinality..MaxCardinality
      /\ K \in 0..c - 1 /\ K \in Slots
      /\ K = IF n = c - 1 THEN 0 ELSE n + 1
      /\ n = c - 1 => c = p.cardinality
      /\ c # p.cardinality => n = p.cardinality - 1
  BY <1>0, <1>1, WriteSlot
<1>3. /\ p.cardinality \in Nat \ {0} /\ p.cardinality <= MaxCardinality
      /\ n \in 0..p.cardinality - 1 /\ n \in Slots /\ Written(p, n)
      /\ \A i \in 0..p.cardinality - 1 : i \in Slots
  BY <1>1, PoolFacts
<1>4. /\ Ring(q, when, time, sum) /\ q \in PoolType /\ Shape(q)
      /\ q.index = K /\ when[K] = time /\ q.cardinality = c
      /\ \A i \in Slots : Written(q, i) <=> i = K \/ Written(p, i)
  <2>1. /\ Ring(q, when, time, sum)
        /\ q.index = K /\ when[K] = time /\ q.cardinality = c
        /\ \A i \in Slots : Written(q, i) <=> i = K \/ Written(p, i)
    BY SwapWrites
  <2>2. QED
    BY <2>1 DEF Ring
<1> HIDE DEF c
<1>5. /\ Follower(p, n) = IF n = p.cardinality - 1 THEN 0 ELSE n + 1
      /\ Follower(q, K) = IF K = c - 1 THEN 0 ELSE K + 1
      /\ Follower(q, K) \in Slots /\ Follower(p, n) \in Slots
  <2>1. /\ Follower(p, n) = IF n = p.cardinality - 1 THEN 0 ELSE n + 1
        /\ Follower(p, n) \in 0..p.cardinality - 1
    BY <1>1, <1>3, FollowerIs
  <2>2. /\ Follower(q, K) = IF K = c - 1 THEN 0 ELSE K + 1
        /\ Follower(q, K) \in 0..c - 1
    BY <1>2, <1>4, FollowerIs
  <2>3. \A i \in 0..c - 1 : i \in Slots
    BY <1>4, PoolFacts
  <2>4. QED
    BY <1>3, <2>1, <2>2, <2>3
<1>6. /\ O \in 0..p.cardinality - 1 /\ O \in Slots /\ Written(p, O)
      /\ at[O] \in Genesis..time /\ at[O] \in Nat /\ at[O] <= at[n] /\ at[n] <= time
      /\ at[n] \in Nat
  <2>1. O \in 0..p.cardinality - 1 /\ O \in Slots /\ Written(p, O)
    BY <1>1, OldestIs
  <2>2. at[O] \in Genesis..time /\ at[n] \in Genesis..time
    BY <1>3, <2>1, SlotFacts
  <2>3. at[O] <= at[n]
    BY <2>1, NewestIsLatest
  <2>4. QED
    BY <1>1, <1>3, <2>1, <2>2, <2>3
<1>7. \A i \in Slots : i # K => when[i] = at[i]
  BY <1>0, <1>1, <1>2
\* the ring is not full: its first slot stays the oldest
<1>8. CASE \/ c # p.cardinality
           \/ \E i \in 0..p.cardinality - 1 : ~Written(p, i)
  <2>1. /\ \A i \in 0..n : Written(p, i)
        /\ \A i \in Slots : i >= p.cardinality => ~Written(p, i)
        /\ \/ \A i \in Slots : i > n => ~Written(p, i)
           \/ \A i \in 0..p.cardinality - 1 : Written(p, i)
    BY <1>1 DEF Shape
  <2>2. K = n + 1 /\ \A i \in Slots : i > n => ~Written(p, i)
    <3>1. CASE c # p.cardinality
      <4>1. n = p.cardinality - 1 /\ n # c - 1
        BY <1>2, <3>1
      <4>2. \A i \in Slots : i > n => i >= p.cardinality
        BY <1>3, <4>1 DEF Slots
      <4>3. QED
        BY <1>2, <2>1, <4>1, <4>2
    <3>2. CASE c = p.cardinality /\ \E i \in 0..p.cardinality - 1 : ~Written(p, i)
      <4>1. n # p.cardinality - 1
        BY <2>1, <3>2
      <4>2. QED
        BY <1>2, <2>1, <3>2, <4>1
    <3>3. QED
      BY <1>8, <3>1, <3>2
  <2>3. O = 0
    BY <1>3, <1>5, <2>2 DEF OldestIndex
  <2>4. OldestIndex(q) = 0
    <3>1. Follower(q, K) # 0 => ~Written(q, Follower(q, K))
      <4>1. CASE Follower(q, K) # 0
        <5>1. Follower(q, K) = K + 1 /\ K + 1 > n /\ K + 1 # K
          BY <1>3, <1>5, <2>2, <4>1
        <5>2. QED
          BY <1>4, <1>5, <2>2, <5>1
      <4>2. QED
        BY <4>1
    <3>2. QED
      BY <1>4, <3>1 DEF OldestIndex
  <2>5. 0 # K /\ 0 \in Slots
    BY <1>3, <1>6, <2>2, <2>3
  <2>6. when[0] = at[0]
    BY <1>7, <2>5
  <2>7. QED
    BY <1>6, <2>3, <2>4, <2>6
\* the ring is full: the oldest observation gives way to the one after it
<1>9. CASE c = p.cardinality /\ \A i \in 0..p.cardinality - 1 : Written(p, i)
  <2>1. Follower(p, n) = K
    BY <1>2, <1>5, <1>9
  <2>2. O = K
    BY <1>2, <1>9, <2>1 DEF OldestIndex
  <2>3. CASE K = n
    <3>1. OldestIndex(q) = K
      <4>1. c = 1 /\ Follower(q, K) = 0 /\ K = 0
        BY <1>2, <1>3, <1>5, <1>9, <2>3
      <4>2. QED
        BY <1>4, <4>1 DEF OldestIndex
    <3>2. QED
      BY <1>4, <1>6, <2>2, <2>3, <3>1
  <2>4. CASE K # n
    <3> DEFINE F == Follower(q, K)
    <3>1. F = Follower(p, K) /\ F \in 0..p.cardinality - 1
      BY <1>1, <1>2, <1>5, <1>9, FollowerIs
    <3>2. F # K
      BY <1>2, <1>3, <1>5, <1>9, <2>4
    <3>3. Written(p, F) /\ Written(q, F) /\ OldestIndex(q) = F
      BY <1>3, <1>4, <1>9, <3>1 DEF OldestIndex
    <3>4. at[K] < at[F]
      BY <1>2, <1>9, <2>4, <3>1, <3>3 DEF Ring, Tells
    <3>5. when[F] = at[F] /\ at[F] \in Nat
      BY <1>1, <1>3, <1>7, <3>1, <3>2
    <3>6. QED
      BY <1>4, <1>6, <1>9, <2>2, <2>4, <3>3, <3>4, <3>5
  <2>5. QED
    BY <2>3, <2>4
<1>10. QED
  BY <1>8, <1>9

\* A swap, whether it writes or not, leaves a ring whose newest observation is of
\* the present, and loses nothing but the oldest observation of a full one.
LEMMA RingSwaps ==
    ASSUME NEW p, NEW at, NEW time, NEW sum, Ring(p, at, time, sum), NEW tick \in Int,
           NEW q, q = SwapToTick(p, time, tick)
    PROVE  \E after :
             /\ Ring(q, after, time, sum)
             /\ after[q.index] = time /\ at[p.index] <= time
             /\ at[OldestIndex(p)] <= after[OldestIndex(q)]
             /\ \/ at[OldestIndex(p)] = after[OldestIndex(q)]
                \/ at[OldestIndex(p)] = at[p.index]
                \/ /\ q.cardinality = p.cardinality
                   /\ q.index # p.index
                   /\ \A i \in 0..p.cardinality - 1 : Written(p, i)
<1>1. /\ at \in [Slots -> Nat] /\ p \in PoolType /\ Shape(p)
      /\ Clock(time, sum) /\ time \in Nat
  BY ClockFacts DEF Ring
<1>2. /\ p.index \in Slots /\ Written(p, p.index)
      /\ OldestIndex(p) \in Slots
      /\ Newest(p) = p.observations[p.index]
  BY <1>1, PoolFacts, OldestIs
<1>3. /\ at[p.index] \in Genesis..time /\ at[p.index] \in Nat
      /\ Newest(p).blockTimestamp = Stamp(at[p.index])
      /\ at[OldestIndex(p)] \in Nat
  BY <1>1, <1>2, SlotFacts
<1>4. CASE Newest(p).blockTimestamp = Stamp(time)
  <2>1. at[p.index] = time
    <3>1. Age(time, Stamp(at[p.index])) = time - at[p.index]
      BY <1>1, <1>3, AgesTell, ClockFacts
    <3>2. Age(time, Stamp(time)) = time - time
      BY <1>1, StampAge, RingAssumption
    <3>3. QED
      BY <1>1, <1>3, <1>4, <3>1, <3>2
  <2>2. q = [p EXCEPT !.tick = tick]
    BY <1>4 DEF SwapToTick, Write
  <2>3. Ring(q, at, time, sum) /\ q.index = p.index
    BY <2>1, <2>2, SwapAgain
  <2>4. q.cardinality = p.cardinality /\ q.observations = p.observations
    BY <1>1, <2>2 DEF PoolType
  <2>5. OldestIndex(q) = OldestIndex(p)
    BY <2>3, <2>4 DEF OldestIndex, Written, Follower
  <2>6. QED
    BY <1>1, <1>3, <2>1, <2>3, <2>5
<1>5. CASE Newest(p).blockTimestamp # Stamp(time)
  <2>1. PICK K : K = NextIndex(p, CardinalityOnWrite(p))
    OBVIOUS
  <2>2. PICK after : after = [at EXCEPT ![K] = time]
    OBVIOUS
  <2>3. Swapped(p, at, time, tick, q, K, after)
    BY <1>5, <2>1, <2>2 DEF Swapped
  <2>4. Ring(q, after, time, sum) /\ q.index = K /\ after[K] = time
    BY <2>3, SwapWrites
  <2>5. /\ at[OldestIndex(p)] <= after[OldestIndex(q)]
        /\ \/ at[OldestIndex(p)] = after[OldestIndex(q)]
           \/ at[OldestIndex(p)] = at[p.index]
           \/ /\ q.cardinality = p.cardinality
              /\ q.index # p.index
              /\ \A i \in 0..p.cardinality - 1 : Written(p, i)
    BY <2>3, SwapOldest
  <2>6. QED
    BY <1>1, <1>3, <2>4, <2>5
<1>6. QED
  BY <1>4, <1>5

\* Two comparisons of stamps and the age check say that the window lies between the
\* oldest and the newest observation, and that the stamps have not started again.
LEMMA StampsReach ==
    ASSUME NEW time \in Nat, NEW o \in Nat, NEW n \in Nat, o <= n, n <= time,
           time - o < TimestampModulus,
           NEW start \in Nat, NEW target \in Nat, start <= target
    PROVE  /\ Stamp(n) >= target
           /\ start >= Stamp(o)
           /\ time - start < TimestampModulus
           <=>
           target <= n /\ o <= start /\ n < TimestampModulus
<1> DEFINE M == TimestampModulus
<1>1. M \in Nat \ {0}
  BY RingAssumption
<1>2. /\ n = M * Era(n) + Stamp(n) /\ Era(n) \in Nat /\ Stamp(n) \in 0..M - 1 /\ Stamp(n) <= n
      /\ o = M * Era(o) + Stamp(o) /\ Era(o) \in Nat /\ Stamp(o) \in 0..M - 1 /\ Stamp(o) <= o
  BY <1>1, StampParts
<1> HIDE DEF M
<1>3. ASSUME Stamp(n) >= target, start >= Stamp(o), time - start < M
      PROVE  target <= n /\ o <= start /\ n < M
  <2>1. n < M
    <3>1. CASE Era(n) = 0
      BY <1>1, <1>2, <3>1
    <3>2. CASE Era(n) # 0
      <4>1. M * Era(n) >= M
        BY <1>1, <1>2, <3>2
      <4>2. n >= M + target
        BY <1>1, <1>2, <1>3, <4>1
      <4>3. QED
        BY <1>1, <1>3, <4>2
    <3>3. QED
      BY <3>1, <3>2
  <2>2. \A t \in Nat : t < M => Stamp(t) = t
    <3>1. ASSUME NEW t \in Nat, t < M PROVE Stamp(t) = t
      <4>1. t = M * 0 + t /\ t \in 0..M - 1 /\ 0 \in Int
        BY <1>1, <3>1
      <4>2. t % M = t
        BY <1>1, <4>1, RemainderIs
      <4>3. QED
        BY <4>2 DEF Stamp, M
    <3>2. QED
      BY <3>1
  <2>3. Stamp(n) = n /\ Stamp(o) = o
    BY <1>1, <2>1, <2>2
  <2>4. QED
    BY <1>1, <1>3, <2>1, <2>3
<1>4. ASSUME target <= n, o <= start, n < M
      PROVE  Stamp(n) >= target /\ start >= Stamp(o) /\ time - start < M
  <2>1. M * Era(n) = 0
    <3>1. CASE Era(n) = 0
      BY <1>1, <3>1
    <3>2. CASE Era(n) # 0
      <4>1. M * Era(n) >= M
        BY <1>1, <1>2, <3>2
      <4>2. QED
        BY <1>1, <1>2, <1>4, <4>1
    <3>3. QED
      BY <3>1, <3>2
  <2>2. Stamp(n) = n
    BY <1>1, <1>2, <2>1
  <2>3. Stamp(o) <= start /\ time - start < M
    BY <1>1, <1>2, <1>4 DEF M
  <2>4. QED
    BY <1>4, <2>2, <2>3
<1>5. QED
  BY <1>3, <1>4 DEF M

\* What reading asks of a ring: its ends, and the moments they were written for.
LEMMA RingFacts ==
    ASSUME NEW p, NEW at, NEW time, NEW sum, Ring(p, at, time, sum)
    PROVE  /\ at \in [Slots -> Nat]
           /\ p \in PoolType /\ Shape(p) /\ Clock(time, sum)
           /\ time \in Nat /\ Genesis \in Nat
           /\ p.index \in Slots /\ OldestIndex(p) \in Slots
           /\ at[p.index] \in Genesis..time /\ at[OldestIndex(p)] \in Genesis..time
           /\ at[p.index] \in Nat /\ at[OldestIndex(p)] \in Nat
           /\ at[OldestIndex(p)] <= at[p.index]
           /\ Newest(p).blockTimestamp = Stamp(at[p.index])
           /\ Oldest(p).blockTimestamp = Stamp(at[OldestIndex(p)])
<1>1. at \in [Slots -> Nat] /\ p \in PoolType /\ Shape(p) /\ Clock(time, sum)
  BY DEF Ring
<1>2. time \in Nat /\ Genesis \in Nat
  BY <1>1, ClockFacts
<1>3. /\ p.index \in Slots /\ Written(p, p.index)
      /\ OldestIndex(p) \in Slots /\ Written(p, OldestIndex(p))
      /\ OldestIndex(p) \in 0..p.cardinality - 1
      /\ Oldest(p) = p.observations[OldestIndex(p)]
      /\ Newest(p) = p.observations[p.index]
  BY <1>1, PoolFacts, OldestIs
<1>4. /\ at[p.index] \in Genesis..time
      /\ Newest(p).blockTimestamp = Stamp(at[p.index])
  BY <1>3, SlotFacts
<1>5. /\ at[OldestIndex(p)] \in Genesis..time
      /\ Oldest(p).blockTimestamp = Stamp(at[OldestIndex(p)])
  BY <1>3, SlotFacts
<1>6. at[OldestIndex(p)] <= at[p.index]
  BY <1>3, NewestIsLatest
<1>7. QED
  BY <1>1, <1>2, <1>3, <1>4, <1>5, <1>6

\* A ring that reaches over a window tells what accumulated at both its ends, and
\* so the true mean between them.
LEMMA MeanTold ==
    ASSUME NEW p, NEW at, NEW time, NEW sum, Ring(p, at, time, sum),
           NEW target \in Nat, NEW window \in Nat \ {0},
           target <= time, target >= window, at[OldestIndex(p)] <= target - window
    PROVE  /\ target \in Genesis..time /\ target - window \in Genesis..time
           /\ sum[target] - sum[target - window] \in Int
           /\ ObserveSingle(p, time, time - target) = {sum[target]}
           /\ ObserveSingle(p, time, time - (target - window)) = {sum[target - window]}
           /\ MeanTick(sum[target] - sum[target - window], window)
                = (sum[target] - sum[target - window]) \div window
<1> DEFINE start == target - window
           d == sum[target] - sum[start]
<1>1. /\ time \in Nat /\ Genesis \in Nat
      /\ at[OldestIndex(p)] \in Genesis..time /\ at[OldestIndex(p)] \in Nat
      /\ time - Genesis < TimestampModulus
      /\ \A t \in Genesis..time : sum[t] \in Int
  BY RingFacts, ClockFacts
<1>2. start \in Genesis..time /\ start \in Nat /\ start <= target
  BY <1>1
<1>3. target \in Genesis..time /\ at[OldestIndex(p)] <= target
  BY <1>1, <1>2
<1>4. Recent(time, start) /\ Recent(time, target)
  BY <1>1, <1>2, <1>3, RingAssumption DEF Recent
<1>5. d \in Int
  BY <1>1, <1>2, <1>3
<1>6. ObserveSingle(p, time, time - target) = {sum[target]}
  BY <1>3, <1>4, ObserveComplete
<1> HIDE DEF start
<1>7. ObserveSingle(p, time, time - start) = {sum[start]}
  <2>1. at[OldestIndex(p)] <= start
    BY DEF start
  <2>2. QED
    BY <1>4, <2>1, ObserveComplete
<1> HIDE DEF d
<1>8. MeanTick(d, window) = d \div window
  BY <1>5, MeanIsFloor
<1>9. QED
  BY <1>2, <1>3, <1>5, <1>6, <1>7, <1>8 DEF start, d

-----------------------------------------------------------------------------
(* The pool of the adapter *)

\* the slots of the pool were written at these moments
Holds(at) ==
    /\ at \in [Slots -> Nat]
    /\ Ring(pool, at, now, area)
    /\ observedAt = at[pool.index]

OracleInv == \E at \in [Slots -> Nat] : Holds(at)

\* the ring was full and its oldest observation made room
Overwrites ==
    /\ pool'.cardinality = pool.cardinality
    /\ pool'.index # pool.index
    /\ \A i \in 0..pool.cardinality - 1 : Written(pool, i)

\* what a step leaves of the past
Keeps(at, after) ==
    /\ now <= now'
    /\ \A t \in Genesis..now : area'[t] = area[t]
    /\ at[pool.index] <= after[pool'.index]
    /\ at[OldestIndex(pool)] <= after[OldestIndex(pool')]
    /\ \/ at[OldestIndex(pool)] = after[OldestIndex(pool')]
       \/ at[OldestIndex(pool)] = at[pool.index]
       \/ Overwrites

LEMMA HoldsFacts ==
    ASSUME NEW at, Holds(at)
    PROVE  /\ at \in [Slots -> Nat] /\ Ring(pool, at, now, area)
           /\ pool \in PoolType /\ Shape(pool) /\ Clock(now, area)
           /\ now \in Nat /\ Genesis \in Nat
           /\ pool.index \in Slots /\ OldestIndex(pool) \in Slots
           /\ at[pool.index] \in Genesis..now /\ at[OldestIndex(pool)] \in Genesis..now
           /\ at[pool.index] \in Nat /\ at[OldestIndex(pool)] \in Nat
           /\ at[OldestIndex(pool)] <= at[pool.index]
           /\ Newest(pool).blockTimestamp = Stamp(at[pool.index])
           /\ Oldest(pool).blockTimestamp = Stamp(at[OldestIndex(pool)])
BY RingFacts DEF Holds

LEMMA OracleBegins == Init => OracleInv
<1> SUFFICES ASSUME Init PROVE OracleInv
  OBVIOUS
<1>1. PICK tick \in Ticks : pool = NewPool(Genesis, tick)
  BY DEF Init
<1>2. now = Genesis /\ area = [t \in {Genesis} |-> 0] /\ observedAt = Genesis
  BY DEF Init
<1> DEFINE at == [i \in Slots |-> Genesis]
<1>3. tick \in Int /\ Genesis \in Nat
  BY OracleAssumption
<1>4. Ring(pool, at, now, area) /\ pool.index = 0 /\ 0 \in Slots
  BY <1>1, <1>2, <1>3, RingBegins
<1>5. at \in [Slots -> Nat] /\ observedAt = at[pool.index]
  BY <1>2, <1>3, <1>4
<1> HIDE DEF at
<1>6. QED
  BY <1>4, <1>5 DEF OracleInv, Holds

LEMMA TickKeeps ==
    ASSUME NEW at, Holds(at), Tick
    PROVE  Holds(at)' /\ Keeps(at, at)
<1>1. /\ now < MaxTime /\ now' = now + 1 /\ pool' = pool /\ observedAt' = observedAt
      /\ area' = [t \in Genesis..now + 1 |->
                    IF t <= now THEN area[t] ELSE area[now] + pool.tick]
  BY DEF Tick
<1>2. Ring(pool, at, now + 1, area')
  BY <1>1, TimePasses DEF Holds
<1>3. Holds(at)'
  BY <1>1, <1>2 DEF Holds
<1>4. now \in Nat /\ Genesis \in Nat /\ at[pool.index] \in Nat /\ at[OldestIndex(pool)] \in Nat
  BY HoldsFacts
<1>5. now <= now' /\ \A t \in Genesis..now : area'[t] = area[t]
  BY <1>1, <1>4
<1>6. QED
  BY <1>1, <1>3, <1>4, <1>5 DEF Keeps

LEMMA GrowthKeeps ==
    ASSUME NEW at, Holds(at), NEW next \in 1..MaxCardinality, IncreasePoolCardinality(next)
    PROVE  Holds(at)' /\ Keeps(at, at)
<1>1. pool' = Grow(pool, next) /\ now' = now /\ area' = area /\ observedAt' = observedAt
  BY DEF IncreasePoolCardinality
<1>2. Ring(pool', at, now, area) /\ pool'.index = pool.index
  BY <1>1, RingGrows DEF Holds
<1>3. Holds(at)'
  BY <1>1, <1>2 DEF Holds
<1>4. pool'.cardinality = pool.cardinality /\ pool'.observations = pool.observations
  BY <1>1, HoldsFacts DEF Grow, PoolType
<1>5. OldestIndex(pool') = OldestIndex(pool)
  BY <1>2, <1>4 DEF OldestIndex, Written, Follower
<1>6. now \in Nat /\ at[pool.index] \in Nat /\ at[OldestIndex(pool)] \in Nat
  BY HoldsFacts
<1>7. QED
  BY <1>1, <1>2, <1>3, <1>5, <1>6 DEF Keeps

LEMMA SwapKeeps ==
    ASSUME NEW at, Holds(at), NEW tick \in Ticks, Swap(tick)
    PROVE  \E after : Holds(after)' /\ Keeps(at, after)
<1>1. /\ pool' = SwapToTick(pool, now, tick) /\ observedAt' = now
      /\ now' = now /\ area' = area
  BY DEF Swap
<1>2. Ring(pool, at, now, area) /\ tick \in Int /\ now \in Nat
  BY HoldsFacts, OracleAssumption
<1>3. PICK after :
        /\ Ring(pool', after, now, area)
        /\ after[pool'.index] = now /\ at[pool.index] <= now
        /\ at[OldestIndex(pool)] <= after[OldestIndex(pool')]
        /\ at[OldestIndex(pool)] = after[OldestIndex(pool')]
             \/ at[OldestIndex(pool)] = at[pool.index]
             \/ Overwrites
  BY <1>1, <1>2, RingSwaps DEF Overwrites
<1>4. after \in [Slots -> Nat]
  BY <1>3 DEF Ring
<1>5. Holds(after)'
  BY <1>1, <1>3, <1>4 DEF Holds
<1>6. Keeps(at, after)
  BY <1>1, <1>2, <1>3 DEF Keeps
<1>7. QED
  BY <1>5, <1>6

\* A step keeps the past: what it loses it loses from the end of a full ring.
LEMMA OracleStep ==
    ASSUME NEW at, Holds(at), [Next]_vars
    PROVE  \E after : Holds(after)' /\ Keeps(at, after)
<1>1. CASE Tick
  BY <1>1, TickKeeps
<1>2. ASSUME NEW tick \in Ticks, Swap(tick)
      PROVE  \E after : Holds(after)' /\ Keeps(at, after)
  BY <1>2, SwapKeeps
<1>3. ASSUME NEW next \in 1..MaxCardinality, IncreasePoolCardinality(next)
      PROVE  \E after : Holds(after)' /\ Keeps(at, after)
  BY <1>3, GrowthKeeps
<1>4. CASE UNCHANGED vars
  <2>1. now' = now /\ pool' = pool /\ area' = area /\ observedAt' = observedAt
    BY <1>4 DEF vars
  <2>2. now \in Nat /\ at[pool.index] \in Nat /\ at[OldestIndex(pool)] \in Nat
    BY HoldsFacts
  <2>3. Holds(at)' /\ Keeps(at, at)
    BY <2>1, <2>2 DEF Holds, Keeps
  <2>4. QED
    BY <2>3
<1>5. QED
  BY <1>1, <1>2, <1>3, <1>4 DEF Next

\* The ring never loses its order, and each slot tells what it was written for.
THEOREM OracleAlwaysInOrder == Spec => []OracleInv
<1>1. OracleInv /\ [Next]_vars => OracleInv'
  <2> SUFFICES ASSUME OracleInv, [Next]_vars PROVE OracleInv'
    OBVIOUS
  <2>1. PICK at : Holds(at)
    BY DEF OracleInv
  <2>2. PICK after : Holds(after)'
    BY <2>1, OracleStep
  <2>3. QED
    BY <2>2 DEF OracleInv, Holds
<1>2. QED
  BY <1>1, OracleBegins, PTL DEF Spec

-----------------------------------------------------------------------------
(* What the adapter answers *)

\* the window lies in what the ring holds, and stamps have not started again
Held(at, target, window) ==
    /\ WellFormed(target, window)
    /\ target <= at[pool.index]
    /\ at[OldestIndex(pool)] <= target - window
    /\ at[pool.index] < TimestampModulus

\* canQuote compares stamps, and that is enough
LEMMA QuotableIsHeld ==
    ASSUME NEW at, Holds(at), NEW target \in Nat, NEW window \in Nat
    PROVE  CanQuote(target, window) <=> Held(at, target, window)
<1> DEFINE n == at[pool.index]
           o == at[OldestIndex(pool)]
           start == target - window
<1>1. /\ now \in Nat /\ Genesis \in Nat /\ n \in Nat /\ o \in Nat
      /\ n \in Genesis..now /\ o \in Genesis..now /\ o <= n
      /\ now - Genesis < TimestampModulus
  BY HoldsFacts, ClockFacts
<1>2. CanQuote(target, window) <=>
        /\ WellFormed(target, window)
        /\ Stamp(n) >= target /\ start >= Stamp(o) /\ now - start < TimestampModulus
  BY HoldsFacts DEF CanQuote, Sealed, Retained, NewestObservationTimestamp,
                    EarliestAvailableTimestamp
<1>3. Held(at, target, window) <=>
        WellFormed(target, window) /\ target <= n /\ o <= start /\ n < TimestampModulus
  BY DEF Held
<1> HIDE DEF n, o
<1>4. CASE WellFormed(target, window)
  <2>1. start \in Nat /\ start <= target
    BY <1>4 DEF WellFormed
  <2>2. n <= now /\ now - o < TimestampModulus
    BY <1>1, RingAssumption
  <2>3. (Stamp(n) >= target /\ start >= Stamp(o) /\ now - start < TimestampModulus)
          <=> (target <= n /\ o <= start /\ n < TimestampModulus)
    <3>1. o <= n /\ o \in Nat /\ n \in Nat /\ now \in Nat
      BY <1>1
    <3>2. \A s \in Nat : s <= target =>
            (Stamp(n) >= target /\ s >= Stamp(o) /\ now - s < TimestampModulus
              <=> target <= n /\ o <= s /\ n < TimestampModulus)
      BY <2>2, <3>1, StampsReach
    <3>3. QED
      BY <2>1, <3>2
  <2>4. QED
    BY <1>2, <1>3, <1>4, <2>3
<1>5. QED
  BY <1>2, <1>3, <1>4

\* An answer is the quote at the true mean, and is there whenever canQuote says so.
LEMMA AnswerIs ==
    ASSUME NEW at, Holds(at), NEW target \in Nat, NEW window \in Nat
    PROVE  GetPriceAt(target, window) =
             IF CanQuote(target, window) THEN {Quote[TrueMean(target, window)]} \ {0} ELSE {}
<1>1. CASE ~CanQuote(target, window)
  BY <1>1 DEF GetPriceAt, PriceFrom, CanQuote
<1>2. CASE CanQuote(target, window)
  <2> DEFINE start == target - window
             d == area[target] - area[start]
  <2>1. /\ window # 0 /\ target <= now /\ target >= window
        /\ target <= at[pool.index] /\ at[OldestIndex(pool)] <= start
    BY <1>2, QuotableIsHeld DEF Held, WellFormed
  <2>2. Ring(pool, at, now, area) /\ window \in Nat \ {0}
    BY <2>1, HoldsFacts
  <2>3. /\ ObserveSingle(pool, now, now - target) = {area[target]}
        /\ ObserveSingle(pool, now, now - start) = {area[start]}
    BY <2>1, <2>2, MeanTold
  <2>4. MeanTick(d, window) = d \div window
    BY <2>1, <2>2, MeanTold
  <2>5. GetPriceAt(target, window) = {Quote[MeanTick(d, window)]} \ {0}
    <3> HIDE DEF d, start
    <3>1. QED
      BY <1>2, <2>3 DEF GetPriceAt, PriceFrom, CanQuote, d, start
  <2>6. TrueMean(target, window) = d \div window
    BY DEF TrueMean, d, start
  <2>7. QED
    BY <1>2, <2>4, <2>5, <2>6
<1>3. QED
  BY <1>1, <1>2

\* the ranges the properties speak of
LEMMA Asked == Targets \subseteq Nat /\ Windows \subseteq Nat
BY OracleAssumption DEF Targets, Windows

\* A price that is given is the quote at the true mean tick over its window.
THEOREM PricedAlwaysTrue == Spec => []PricedIsTrue
<1>1. OracleInv => PricedIsTrue
  <2> SUFFICES ASSUME OracleInv,
                      NEW target \in Targets, NEW window \in Windows,
                      NEW price \in GetPriceAt(target, window)
               PROVE  target - window >= Genesis /\ price = Quote[TrueMean(target, window)]
    BY DEF PricedIsTrue
  <2>1. PICK at : Holds(at)
    BY DEF OracleInv
  <2>2. target \in Nat /\ window \in Nat
    BY Asked
  <2>3. CanQuote(target, window) /\ price \in {Quote[TrueMean(target, window)]} \ {0}
    BY <2>1, <2>2, AnswerIs
  <2>4. at[OldestIndex(pool)] <= target - window
    BY <2>1, <2>2, <2>3, QuotableIsHeld DEF Held
  <2>5. QED
    BY <2>1, <2>2, <2>3, <2>4, HoldsFacts
<1>2. QED
  BY <1>1, OracleAlwaysInOrder, PTL

\* canQuote and getPriceAt disagree only where the quote at the true mean is zero.
THEOREM QuotableAlwaysPriced == Spec => []QuotableIsPriced
<1>1. OracleInv => QuotableIsPriced
  <2> SUFFICES ASSUME OracleInv, NEW target \in Targets, NEW window \in Windows
               PROVE  /\ GetPriceAt(target, window) # {} => CanQuote(target, window)
                      /\ CanQuote(target, window) /\ GetPriceAt(target, window) = {} =>
                            /\ target - window >= Genesis
                            /\ target <= observedAt
                            /\ Quote[TrueMean(target, window)] = 0
    BY DEF QuotableIsPriced
  <2>1. PICK at : Holds(at)
    BY DEF OracleInv
  <2>2. target \in Nat /\ window \in Nat
    BY Asked
  <2>3. GetPriceAt(target, window) =
          IF CanQuote(target, window) THEN {Quote[TrueMean(target, window)]} \ {0} ELSE {}
    BY <2>1, <2>2, AnswerIs
  <2>4. ASSUME CanQuote(target, window)
        PROVE  target - window >= Genesis /\ target <= observedAt
    <3>1. at[OldestIndex(pool)] <= target - window /\ target <= at[pool.index]
      BY <2>1, <2>2, <2>4, QuotableIsHeld DEF Held
    <3>2. observedAt = at[pool.index]
      BY <2>1 DEF Holds
    <3>3. QED
      BY <2>1, <2>2, <3>1, <3>2, HoldsFacts
  <2>5. QED
    BY <2>3, <2>4
<1>2. QED
  BY <1>1, OracleAlwaysInOrder, PTL

\* Up to the newest observation, what a ring answers does not look at its tick.
LEMMA TickAside ==
    ASSUME NEW p, NEW at, NEW time, NEW sum, Ring(p, at, time, sum),
           NEW t, Recent(time, t), t <= at[p.index], NEW tick \in Int,
           NEW q, q = [p EXCEPT !.tick = tick]
    PROVE  ObserveSingle(q, time, time - t) = ObserveSingle(p, time, time - t)
<1> DEFINE target == Target(time, t)
           last == p.observations[p.index]
<1>1. p \in PoolType /\ Shape(p) /\ t \in Nat
  BY DEF Ring, Recent
<1>2. /\ q.tick = tick /\ q.index = p.index /\ q.cardinality = p.cardinality
      /\ q.observations = p.observations
  BY <1>1 DEF PoolType
<1>3. /\ p.index \in Slots /\ Written(p, p.index) /\ p.tick \in Int
      /\ at[p.index] \in Nat
  BY <1>1, PoolFacts DEF Ring
<1>4. /\ Age(time, last.blockTimestamp) >= Age(time, target) <=> at[p.index] <= t
      /\ t >= at[p.index] => (target - last.blockTimestamp) % TimestampModulus = t - at[p.index]
  BY <1>3, StampsOrder
<1>5. Newest(q) = last /\ Newest(p) = last /\ Oldest(q) = Oldest(p)
  BY <1>2 DEF Newest, Oldest, NextIndex
<1>6. Surrounding(q, time, target) = Surrounding(p, time, target)
  BY <1>2 DEF Surrounding
<1>7. CASE at[p.index] = t
  <2>1. (target - last.blockTimestamp) % TimestampModulus = 0
    BY <1>1, <1>4, <1>7
  <2>2. Transform(last, target, tick).tickCumulative
          = Transform(last, target, p.tick).tickCumulative
    BY <1>3, <2>1 DEF Transform
  <2>3. Age(time, last.blockTimestamp) >= Age(time, target)
    BY <1>1, <1>4, <1>7
  <2>4. QED
    BY <1>2, <1>5, <2>2, <2>3 DEF ObserveSingle, Target
<1>8. CASE at[p.index] # t
  <2>1. ~(Age(time, last.blockTimestamp) >= Age(time, target))
    BY <1>1, <1>3, <1>4, <1>8
  <2>2. QED
    BY <1>2, <1>5, <1>6, <2>1 DEF ObserveSingle, Target
<1>9. QED
  BY <1>7, <1>8

\* No answer depends on the tick that the pool trades at now.
THEOREM LiveTickAlwaysIgnored == Spec => []LiveTickIsIgnored
<1>1. OracleInv => LiveTickIsIgnored
  <2> SUFFICES ASSUME OracleInv, NEW target \in Targets, NEW window \in Windows,
                      NEW tick \in Ticks
               PROVE  PriceFrom([pool EXCEPT !.tick = tick], target, window)
                        = GetPriceAt(target, window)
    BY DEF LiveTickIsIgnored
  <2>1. PICK at : Holds(at)
    BY DEF OracleInv
  <2>2. target \in Nat /\ window \in Nat /\ tick \in Int
    BY Asked, OracleAssumption
  <2> DEFINE q == [pool EXCEPT !.tick = tick]
             start == target - window
  <2>3. pool \in PoolType
    BY <2>1, HoldsFacts
  <2>4. /\ q.index = pool.index /\ q.cardinality = pool.cardinality
        /\ q.observations = pool.observations
    BY <2>3 DEF PoolType
  <2>5. Newest(q) = Newest(pool) /\ Oldest(q) = Oldest(pool)
    BY <2>4 DEF Newest, Oldest, NextIndex
  <2>6. WellFormed(target, window) /\ Sealed(q, target) /\ Retained(q, start)
          <=> CanQuote(target, window)
    BY <2>5 DEF CanQuote, Sealed, Retained, NewestObservationTimestamp,
                EarliestAvailableTimestamp
  <2>7. CASE ~CanQuote(target, window)
    BY <2>6, <2>7 DEF GetPriceAt, PriceFrom, CanQuote
  <2>8. CASE CanQuote(target, window)
    <3>1. /\ window # 0 /\ target <= now /\ target >= window
          /\ target <= at[pool.index] /\ at[OldestIndex(pool)] <= start
      BY <2>1, <2>2, <2>8, QuotableIsHeld DEF Held, WellFormed
    <3>2. /\ Ring(pool, at, now, area) /\ now \in Nat /\ Genesis \in Nat
          /\ at[OldestIndex(pool)] \in Genesis..now /\ at[pool.index] \in Nat
          /\ now - Genesis < TimestampModulus /\ TimestampModulus \in Nat
      BY <2>1, HoldsFacts, ClockFacts
    <3>3. Recent(now, start) /\ Recent(now, target) /\ start <= at[pool.index]
      BY <2>2, <3>1, <3>2 DEF Recent
    <3>4. ObserveSingle(q, now, now - target) = ObserveSingle(pool, now, now - target)
      BY <2>2, <3>1, <3>2, <3>3, TickAside
    <3> HIDE DEF start
    <3>5. ObserveSingle(q, now, now - start) = ObserveSingle(pool, now, now - start)
      BY <2>2, <3>2, <3>3, TickAside
    <3> HIDE DEF q
    <3>6. QED
      BY <2>6, <2>8, <3>4, <3>5 DEF GetPriceAt, PriceFrom, CanQuote, start, q
  <2>9. QED
    BY <2>7, <2>8
<1>2. QED
  BY <1>1, OracleAlwaysInOrder, PTL

-----------------------------------------------------------------------------
(* What becomes of an answer *)

\* the lemmas on moments and answers, to be used of the next state as well
Orderly ==
    \A at : Holds(at) => /\ now \in Nat /\ at[pool.index] \in Nat
                         /\ at[OldestIndex(pool)] \in Nat /\ at[pool.index] <= now
                         /\ observedAt = at[pool.index]

Truthful ==
    \A at : Holds(at) => \A target \in Nat, window \in Nat :
        /\ CanQuote(target, window) <=> Held(at, target, window)
        /\ GetPriceAt(target, window) =
             IF CanQuote(target, window) THEN {Quote[TrueMean(target, window)]} \ {0} ELSE {}

LEMMA AlwaysOrderly == Orderly
BY HoldsFacts DEF Orderly, Holds

LEMMA AlwaysTruthful == Truthful
BY QuotableIsHeld, AnswerIs DEF Truthful

\* What an instant accumulated is settled for good.
LEMMA MeanStays ==
    ASSUME NEW at, Holds(at), NEW after, Keeps(at, after),
           NEW target \in Nat, NEW window \in Nat, Held(at, target, window)
    PROVE  TrueMean(target, window)' = TrueMean(target, window)
<1>1. /\ target <= now /\ target >= window
      /\ at[OldestIndex(pool)] <= target - window
  BY DEF Held, WellFormed
<1>2. at[OldestIndex(pool)] \in Genesis..now /\ now \in Nat /\ Genesis \in Nat
  BY HoldsFacts
<1>3. target \in Genesis..now /\ target - window \in Genesis..now
  BY <1>1, <1>2
<1>4. area'[target] = area[target] /\ area'[target - window] = area[target - window]
  BY <1>3 DEF Keeps
<1>5. QED
  BY <1>4 DEF TrueMean

\* An answer that a later state gives was already there when its instant was sealed,
\* and the answer of an earlier state is lost with the oldest observation only.
LEMMA AnswerLater ==
    ASSUME NEW at, Holds(at), NEW after, Holds(after)', Keeps(at, after),
           NEW target \in Nat, NEW window \in Nat
    PROVE  /\ target <= observedAt /\ CanQuote(target, window)' => CanQuote(target, window)
           /\ CanQuote(target, window) =>
                \/ CanQuote(target, window)'
                \/ now' >= TimestampModulus
                \/ Overwrites
           /\ CanQuote(target, window) /\ CanQuote(target, window)' =>
                GetPriceAt(target, window)' = GetPriceAt(target, window)
           /\ observedAt <= observedAt'
           /\ CanQuote(target, window) => target <= observedAt
           /\ CanQuote(target, window)' => target <= now'
<1>1. Truthful /\ Truthful'
  BY AlwaysTruthful, PTL
<1>2. /\ CanQuote(target, window) <=> Held(at, target, window)
      /\ GetPriceAt(target, window) =
             IF CanQuote(target, window) THEN {Quote[TrueMean(target, window)]} \ {0} ELSE {}
  BY <1>1 DEF Truthful
<1>3. /\ CanQuote(target, window)' <=> Held(after, target, window)'
      /\ GetPriceAt(target, window)' =
             IF CanQuote(target, window)' THEN {Quote[TrueMean(target, window)']} \ {0} ELSE {}
  BY <1>1 DEF Truthful
<1> DEFINE n == at[pool.index]
           o == at[OldestIndex(pool)]
           n2 == after[pool'.index]
           o2 == after[OldestIndex(pool')]
           start == target - window
<1>4. /\ now \in Nat /\ n \in Nat /\ o \in Nat /\ n <= now /\ o <= n /\ Genesis \in Nat
      /\ observedAt = n
  BY HoldsFacts DEF Holds
<1>5. Orderly'
  BY AlwaysOrderly, PTL
<1>6. now' \in Nat /\ n2 \in Nat /\ o2 \in Nat /\ n2 <= now' /\ observedAt' = n2
  BY <1>5 DEF Orderly
<1>7. now <= now' /\ n <= n2 /\ o <= o2 /\ (o = o2 \/ o = n \/ Overwrites)
  BY DEF Keeps
<1>8. Held(at, target, window) <=>
        /\ window # 0 /\ window <= MAX_TWAP_WINDOW /\ target <= now /\ target >= window
        /\ target <= n /\ o <= start /\ n < TimestampModulus
  BY DEF Held, WellFormed
<1>9. Held(after, target, window)' <=>
        /\ window # 0 /\ window <= MAX_TWAP_WINDOW /\ target <= now' /\ target >= window
        /\ target <= n2 /\ o2 <= start /\ n2 < TimestampModulus
  BY DEF Held, WellFormed
<1>10. CanQuote(target, window) =>
         TrueMean(target, window)' = TrueMean(target, window)
  BY <1>2, MeanStays
<1> HIDE DEF n, o, n2, o2
<1>11. start \in Int /\ TimestampModulus \in Nat
  BY RingAssumption
<1>12. target <= n /\ Held(after, target, window)' => Held(at, target, window)
  BY <1>4, <1>6, <1>7, <1>8, <1>9, <1>11
<1>13. Held(at, target, window) =>
         Held(after, target, window)' \/ now' >= TimestampModulus \/ Overwrites
  <2> SUFFICES ASSUME Held(at, target, window), now' < TimestampModulus, ~Overwrites
               PROVE  Held(after, target, window)'
    BY <1>6, <1>11
  <2>1. o # n
    BY <1>4, <1>8
  <2>2. o = o2
    BY <1>7, <2>1
  <2>3. QED
    BY <1>4, <1>6, <1>7, <1>8, <1>9, <1>11, <2>2
<1>14. observedAt <= observedAt'
  BY <1>4, <1>6, <1>7
<1>15. CanQuote(target, window) => target <= observedAt
  BY <1>2, <1>4, <1>8
<1>16. CanQuote(target, window)' => target <= now'
  BY <1>3, <1>9
<1>17. CanQuote(target, window) /\ CanQuote(target, window)' =>
         GetPriceAt(target, window)' = GetPriceAt(target, window)
  BY <1>2, <1>3, <1>10
<1>18. QED
  BY <1>2, <1>3, <1>4, <1>12, <1>13, <1>14, <1>15, <1>16, <1>17

\* An answer is lost only with the oldest observation of a full ring.
THEOREM LossesAlwaysFromFull == Spec => LostOnlyWhenFull
<1>1. OracleInv /\ [Next]_vars =>
        [\A target \in Targets, window \in Windows :
           GetPriceAt(target, window) # {} /\ GetPriceAt(target, window)' = {} =>
              \/ now' >= TimestampModulus
              \/ /\ pool'.cardinality = pool.cardinality
                 /\ pool'.index # pool.index
                 /\ \A i \in 0..pool.cardinality - 1 : pool.observations[i].initialized]_vars
  <2> SUFFICES ASSUME OracleInv, [Next]_vars,
                      NEW target \in Targets, NEW window \in Windows,
                      GetPriceAt(target, window) # {}, GetPriceAt(target, window)' = {}
               PROVE  \/ now' >= TimestampModulus
                      \/ /\ pool'.cardinality = pool.cardinality
                         /\ pool'.index # pool.index
                         /\ \A i \in 0..pool.cardinality - 1 :
                              pool.observations[i].initialized
    OBVIOUS
  <2>1. PICK at : Holds(at)
    BY DEF OracleInv
  <2>2. PICK after : Holds(after)' /\ Keeps(at, after)
    BY <2>1, OracleStep
  <2>3. target \in Nat /\ window \in Nat
    BY Asked
  <2>4. CanQuote(target, window)
    BY <2>1, <2>3, AnswerIs
  <2>5. ~CanQuote(target, window)'
    BY <2>1, <2>2, <2>3, <2>4, AnswerLater
  <2>6. now' >= TimestampModulus \/ Overwrites
    BY <2>1, <2>2, <2>3, <2>4, <2>5, AnswerLater
  <2>7. QED
    BY <2>6 DEF Overwrites, Written
<1>2. QED
  BY <1>1, OracleAlwaysInOrder, PTL DEF Spec, LostOnlyWhenFull

-----------------------------------------------------------------------------
(* The mean of ticks lies between two of them *)

Between(d, w) == \E low \in Ticks, high \in Ticks : low * w <= d /\ d <= high * w

LEMMA BetweenMore ==
    ASSUME NEW d \in Int, NEW w \in Nat, Between(d, w), NEW tick \in Ticks
    PROVE  Between(d + tick, w + 1)
<1>1. PICK low \in Ticks, high \in Ticks : low * w <= d /\ d <= high * w
  BY DEF Between
<1>2. low \in Int /\ high \in Int /\ tick \in Int
  BY OracleAssumption
<1>3. \E l \in Ticks : l * (w + 1) <= d + tick
  <2>1. CASE low <= tick
    <3>1. low * (w + 1) = low * w + low /\ low * w \in Int
      BY <1>2
    <3>2. low * (w + 1) <= d + tick
      BY <1>1, <1>2, <2>1, <3>1
    <3>3. QED
      BY <3>2
  <2>2. CASE tick < low
    <3>1. tick * w <= low * w
      <4>1. (low - tick) * w >= 0 /\ (low - tick) * w = low * w - tick * w
        BY <1>2, <2>2
      <4>2. QED
        BY <1>2, <4>1
    <3>2. tick * (w + 1) = tick * w + tick /\ tick * w \in Int /\ low * w \in Int
      BY <1>2
    <3>3. tick * (w + 1) <= d + tick
      BY <1>1, <1>2, <3>1, <3>2
    <3>4. QED
      BY <3>3
  <2>3. QED
    BY <1>2, <2>1, <2>2
<1>4. \E h \in Ticks : d + tick <= h * (w + 1)
  <2>1. CASE tick <= high
    <3>1. high * (w + 1) = high * w + high /\ high * w \in Int
      BY <1>2
    <3>2. d + tick <= high * (w + 1)
      BY <1>1, <1>2, <2>1, <3>1
    <3>3. QED
      BY <3>2
  <2>2. CASE high < tick
    <3>1. high * w <= tick * w
      <4>1. (tick - high) * w >= 0 /\ (tick - high) * w = tick * w - high * w
        BY <1>2, <2>2
      <4>2. QED
        BY <1>2, <4>1
    <3>2. tick * (w + 1) = tick * w + tick /\ tick * w \in Int /\ high * w \in Int
      BY <1>2
    <3>3. d + tick <= tick * (w + 1)
      BY <1>1, <1>2, <3>1, <3>2
    <3>4. QED
      BY <3>3
  <2>3. QED
    BY <1>2, <2>1, <2>2
<1>5. QED
  BY <1>3, <1>4 DEF Between

LEMMA MeanBetween ==
    ASSUME NEW d \in Int, NEW w \in Nat \ {0}, Between(d, w)
    PROVE  \E low \in Ticks, high \in Ticks : d \div w \in low..high
<1>1. PICK low \in Ticks, high \in Ticks : low * w <= d /\ d <= high * w
  BY DEF Between
<1>2. low \in Int /\ high \in Int
  BY OracleAssumption
<1> DEFINE q == d \div w
           r == d % w
<1>3. q \in Int /\ r \in 0..w - 1 /\ d = w * q + r
  OBVIOUS
<1> HIDE DEF q, r
<1>4. low <= q
  <2>1. CASE low > q
    <3>1. (low - q) * w >= w
      <4>1. low - q >= 1 /\ low - q \in Int
        BY <1>2, <1>3, <2>1
      <4>2. QED
        BY <4>1
    <3>2. (low - q) * w = low * w - w * q /\ low * w \in Int /\ w * q \in Int
      BY <1>2, <1>3
    <3>3. QED
      BY <1>1, <1>3, <3>1, <3>2
  <2>2. QED
    BY <1>2, <1>3, <2>1
<1>5. q <= high
  <2>1. CASE q > high
    <3>1. (q - high) * w >= w
      <4>1. q - high >= 1 /\ q - high \in Int
        BY <1>2, <1>3, <2>1
      <4>2. QED
        BY <4>1
    <3>2. (q - high) * w = w * q - high * w /\ high * w \in Int /\ w * q \in Int
      BY <1>2, <1>3
    <3>3. QED
      BY <1>1, <1>3, <3>1, <3>2
  <2>2. QED
    BY <1>2, <1>3, <2>1
<1>6. q \in low..high
  BY <1>2, <1>3, <1>4, <1>5
<1>7. QED
  BY <1>6 DEF q

\* every stretch of a history accumulated at ticks the pool trades at
Ranges(sum, time) ==
    \A a \in Genesis..time : \A b \in Genesis..time :
        a <= b => Between(sum[b] - sum[a], b - a)

LEMMA BetweenNothing == Ticks # {} => Between(0, 0)
<1> SUFFICES ASSUME NEW tick \in Ticks PROVE Between(0, 0)
  OBVIOUS
<1>1. tick * 0 <= 0 /\ 0 <= tick * 0
  BY OracleAssumption
<1>2. QED
  BY <1>1 DEF Between

LEMMA RangesBegin ==
    ASSUME Ticks # {}
    PROVE  Ranges([t \in {Genesis} |-> 0], Genesis)
<1> DEFINE sum == [t \in {Genesis} |-> 0]
<1>1. ASSUME NEW a \in Genesis..Genesis, NEW b \in Genesis..Genesis
      PROVE  Between(sum[b] - sum[a], b - a)
  <2>1. a = Genesis /\ b = Genesis /\ sum[Genesis] = 0 /\ Genesis \in Nat
    BY OracleAssumption
  <2>2. sum[b] - sum[a] = 0 /\ b - a = 0
    BY <2>1
  <2>3. QED
    BY <2>2, BetweenNothing
<1>2. QED
  BY <1>1 DEF Ranges

\* The next second accumulates the tick the pool trades at.
LEMMA RangesLater ==
    ASSUME NEW time \in Nat, NEW sum, \A t \in Genesis..time : sum[t] \in Int,
           Genesis <= time, Ranges(sum, time), NEW tick \in Ticks,
           NEW later, later = [t \in Genesis..time + 1 |->
                                 IF t <= time THEN sum[t] ELSE sum[time] + tick]
    PROVE  Ranges(later, time + 1)
<1>0. tick \in Int /\ Genesis \in Nat
  BY OracleAssumption
<1>1. /\ \A t \in Genesis..time : later[t] = sum[t]
      /\ later[time + 1] = sum[time] + tick
  BY <1>0
<1>2. ASSUME NEW a \in Genesis..time + 1, NEW b \in Genesis..time + 1, a <= b
      PROVE  Between(later[b] - later[a], b - a)
  <2>1. CASE b <= time
    <3>1. a \in Genesis..time /\ b \in Genesis..time
      BY <1>0, <1>2, <2>1
    <3>2. QED
      BY <1>1, <1>2, <3>1 DEF Ranges
  <2>2. CASE a <= time /\ b = time + 1
    <3> DEFINE d == sum[time] - sum[a]
               w == time - a
    <3>1. a \in Genesis..time /\ time \in Genesis..time
      BY <1>0, <2>2
    <3>2. Between(d, w)
      BY <2>2, <3>1 DEF Ranges
    <3>3. d \in Int /\ w \in Nat
      BY <1>0, <2>2, <3>1
    <3>4. later[b] - later[a] = d + tick /\ b - a = w + 1
      BY <1>0, <1>1, <2>2, <3>1
    <3> HIDE DEF d, w
    <3>5. QED
      BY <3>2, <3>3, <3>4, BetweenMore
  <2>3. CASE a = time + 1 /\ b = time + 1
    <3>1. sum[time] \in Int
      BY <1>0
    <3>2. later[b] - later[a] = 0 /\ b - a = 0
      BY <1>0, <1>1, <2>3, <3>1
    <3>3. QED
      BY <3>2, BetweenNothing
  <2>4. QED
    BY <1>0, <1>2, <2>1, <2>2, <2>3
<1>3. QED
  BY <1>2 DEF Ranges

\* whatever accumulated did so at ticks the pool trades at
RangeInv ==
    /\ OracleInv
    /\ pool.tick \in Ticks
    /\ Ranges(area, now)

LEMMA RangeBegins == Init => RangeInv
<1> SUFFICES ASSUME Init PROVE RangeInv
  OBVIOUS
<1>1. PICK tick \in Ticks : pool = NewPool(Genesis, tick)
  BY DEF Init
<1>2. now = Genesis /\ area = [t \in {Genesis} |-> 0] /\ Genesis \in Nat /\ tick \in Int
  BY OracleAssumption DEF Init
<1>3. pool.tick \in Ticks
  BY <1>1 DEF NewPool
<1>4. Ranges(area, now)
  BY <1>2, RangesBegin
<1>5. QED
  BY <1>3, <1>4, OracleBegins DEF RangeInv

LEMMA RangeStep == RangeInv /\ [Next]_vars => RangeInv'
<1> SUFFICES ASSUME RangeInv, [Next]_vars PROVE RangeInv'
  OBVIOUS
<1>1. PICK at : Holds(at)
  BY DEF RangeInv, OracleInv
<1>2. PICK after : Holds(after)'
  BY <1>1, OracleStep
<1>3. OracleInv'
  BY <1>2 DEF OracleInv, Holds
<1>4. /\ now \in Nat /\ Genesis \in Nat /\ now \in Genesis..now /\ pool \in PoolType
      /\ \A t \in Genesis..now : area[t] \in Int
  BY <1>1, HoldsFacts, ClockFacts DEF Clock
<1>5. CASE area' = area /\ now' = now /\ pool'.tick \in Ticks
  BY <1>3, <1>5 DEF RangeInv
<1>6. CASE Tick
  <2>1. /\ now' = now + 1 /\ pool' = pool
        /\ area' = [t \in Genesis..now + 1 |->
                      IF t <= now THEN area[t] ELSE area[now] + pool.tick]
    BY <1>6 DEF Tick
  <2>2. pool.tick \in Ticks /\ Ranges(area, now) /\ Genesis <= now
    BY <1>4 DEF RangeInv
  <2>3. Ranges(area', now + 1)
    BY <1>4, <2>1, <2>2, RangesLater
  <2>4. QED
    BY <1>3, <2>1, <2>2, <2>3 DEF RangeInv
<1>7. ASSUME NEW tick \in Ticks, Swap(tick)
      PROVE  area' = area /\ now' = now /\ pool'.tick \in Ticks
  <2>1. area' = area /\ now' = now /\ pool' = SwapToTick(pool, now, tick)
    BY <1>7 DEF Swap
  <2>2. SwapToTick(pool, now, tick).tick = tick
    BY <1>4 DEF SwapToTick, Write, PoolType
  <2>3. QED
    BY <2>1, <2>2
<1>8. ASSUME NEW next \in 1..MaxCardinality, IncreasePoolCardinality(next)
      PROVE  area' = area /\ now' = now /\ pool'.tick \in Ticks
  <2>1. area' = area /\ now' = now /\ pool' = Grow(pool, next)
    BY <1>8 DEF IncreasePoolCardinality
  <2>2. Grow(pool, next).tick = pool.tick
    BY <1>4 DEF Grow, PoolType
  <2>3. QED
    BY <2>1, <2>2 DEF RangeInv
<1>9. CASE UNCHANGED vars
  BY <1>5, <1>9 DEF vars, RangeInv
<1>10. QED
  BY <1>5, <1>6, <1>7, <1>8, <1>9 DEF Next

-----------------------------------------------------------------------------
(* The adapter implements the feed *)

LEMMA ShownIs ==
    ASSUME NEW at, Holds(at), NEW target \in Nat, NEW window \in Nat
    PROVE  /\ CanQuote(target, window) /\ Quote[TrueMean(target, window)] # 0 =>
                AnswerNow(target, window) =
                  [status |-> "priced", price |-> Quote[TrueMean(target, window)]]
           /\ ~(CanQuote(target, window) /\ Quote[TrueMean(target, window)] # 0) =>
                AnswerNow(target, window) =
                  [status |-> IF target <= observedAt THEN "lost" ELSE "pending",
                   price |-> 0]
           /\ GetPriceAt(target, window) # {} <=>
                CanQuote(target, window) /\ Quote[TrueMean(target, window)] # 0
<1> DEFINE quote == Quote[TrueMean(target, window)]
<1>1. GetPriceAt(target, window) = IF CanQuote(target, window) THEN {quote} \ {0} ELSE {}
  BY AnswerIs
<1> HIDE DEF quote
<1>2. GetPriceAt(target, window) # {} <=> CanQuote(target, window) /\ quote # 0
  BY <1>1
<1>3. CASE CanQuote(target, window) /\ quote # 0
  <2>1. GetPriceAt(target, window) = {quote}
    BY <1>1, <1>3
  <2>2. (CHOOSE x \in {quote} : TRUE) = quote
    OBVIOUS
  <2>3. AnswerNow(target, window) = [status |-> "priced", price |-> quote]
    BY <2>1, <2>2 DEF AnswerNow
  <2>4. QED
    BY <1>2, <1>3, <2>3 DEF quote
<1>4. CASE ~(CanQuote(target, window) /\ quote # 0)
  <2>1. AnswerNow(target, window) =
          [status |-> IF target <= observedAt THEN "lost" ELSE "pending", price |-> 0]
    BY <1>2, <1>4 DEF AnswerNow
  <2>2. QED
    BY <1>2, <1>4, <2>1 DEF quote
<1>5. QED
  BY <1>3, <1>4

LEMMA ShownTyped ==
    ASSUME RangeInv, NEW target \in Nat, NEW window \in Nat
    PROVE  /\ AnswerNow(target, window) \in Feed!Answers
           /\ target > now => AnswerNow(target, window) = Feed!Pending
<1>1. PICK at : Holds(at)
  BY DEF RangeInv, OracleInv
<1> DEFINE quote == Quote[TrueMean(target, window)]
<1>2. CASE CanQuote(target, window) /\ quote # 0
  <2>1. Held(at, target, window)
    BY <1>1, <1>2, QuotableIsHeld
  <2>2. /\ window \in Nat \ {0} /\ target <= now /\ target >= window
        /\ at[OldestIndex(pool)] <= target - window
    BY <2>1 DEF Held, WellFormed
  <2>3. /\ at[OldestIndex(pool)] \in Genesis..now /\ now \in Nat /\ Genesis \in Nat
        /\ \A t \in Genesis..now : area[t] \in Int
    BY <1>1, HoldsFacts, ClockFacts
  <2> DEFINE start == target - window
             d == area[target] - area[start]
  <2>4. start \in Genesis..now /\ target \in Genesis..now /\ start <= target
        /\ target - start = window
    BY <2>2, <2>3
  <2>5. Between(d, window) /\ d \in Int
    BY <2>3, <2>4 DEF RangeInv, Ranges
  <2>6. TrueMean(target, window) = d \div window
    BY DEF TrueMean
  <2> HIDE DEF d
  <2>7. TrueMean(target, window) \in DOMAIN Quote
    BY <2>2, <2>5, <2>6, MeanBetween, QuoteAssumption
  <2>8. quote \in Prices
    BY <1>2, <2>7 DEF Prices
  <2>9. AnswerNow(target, window) = Feed!Priced(quote)
    BY <1>1, <1>2, ShownIs DEF Feed!Priced
  <2>10. QED
    BY <2>2, <2>3, <2>8, <2>9 DEF Feed!Answers
<1>3. CASE ~(CanQuote(target, window) /\ quote # 0)
  <2>1. AnswerNow(target, window) =
          [status |-> IF target <= observedAt THEN "lost" ELSE "pending", price |-> 0]
    BY <1>1, <1>3, ShownIs
  <2>2. AnswerNow(target, window) \in {Feed!Pending, Feed!Lost}
    BY <2>1 DEF Feed!Pending, Feed!Lost
  <2>3. observedAt <= now /\ now \in Nat /\ observedAt \in Nat
    BY <1>1, HoldsFacts DEF Holds
  <2>4. target > now => AnswerNow(target, window) = Feed!Pending
    BY <2>1, <2>3 DEF Feed!Pending
  <2>5. QED
    BY <2>2, <2>4 DEF Feed!Answers
<1>4. QED
  BY <1>2, <1>3

\* the same two lemmas, to be used of the next state as well
Showing ==
    \A at : Holds(at) => \A target \in Nat, window \in Nat :
        /\ CanQuote(target, window) /\ Quote[TrueMean(target, window)] # 0 =>
             AnswerNow(target, window) =
               [status |-> "priced", price |-> Quote[TrueMean(target, window)]]
        /\ ~(CanQuote(target, window) /\ Quote[TrueMean(target, window)] # 0) =>
             AnswerNow(target, window) =
               [status |-> IF target <= observedAt THEN "lost" ELSE "pending", price |-> 0]

LEMMA AlwaysShowing == Showing
BY ShownIs DEF Showing

FeedTyped ==
    RangeInv => \A target \in Nat, window \in Nat :
        /\ AnswerNow(target, window) \in Feed!Answers
        /\ target > now => AnswerNow(target, window) = Feed!Pending

LEMMA AlwaysFeedTyped == FeedTyped
BY ShownTyped DEF FeedTyped

\* Once sealed an answer is final, and once lost it is lost for good.
LEMMA ShownStep ==
    ASSUME RangeInv, [Next]_vars, NEW target \in Nat, NEW window \in Nat
    PROVE  \/ AnswerNow(target, window)' = AnswerNow(target, window)
           \/ Feed!Answered(AnswerNow(target, window), AnswerNow(target, window)', target)
           \/ Feed!Forgotten(AnswerNow(target, window), AnswerNow(target, window)')
<1>1. PICK at : Holds(at)
  BY DEF RangeInv, OracleInv
<1>2. PICK after : Holds(after)' /\ Keeps(at, after)
  BY <1>1, OracleStep
<1> DEFINE quote == Quote[TrueMean(target, window)]
           Given == CanQuote(target, window) /\ quote # 0
           gone == [status |-> "lost", price |-> 0]
           waiting == [status |-> "pending", price |-> 0]
           old == AnswerNow(target, window)
           new == AnswerNow(target, window)'
<1>3. /\ Given => old = [status |-> "priced", price |-> quote]
      /\ ~Given => old = [status |-> IF target <= observedAt THEN "lost" ELSE "pending",
                          price |-> 0]
  BY <1>1, AlwaysShowing DEF Showing
<1>4. /\ Given' => new = [status |-> "priced", price |-> quote']
      /\ ~Given' => new = [status |-> IF target <= observedAt' THEN "lost" ELSE "pending",
                           price |-> 0]
  <2>1. Showing'
    BY AlwaysShowing, PTL
  <2>2. QED
    BY <1>2, <2>1 DEF Showing
<1>5. /\ target <= observedAt /\ CanQuote(target, window)' => CanQuote(target, window)
      /\ observedAt <= observedAt'
      /\ CanQuote(target, window) => target <= observedAt
      /\ CanQuote(target, window)' => target <= now'
  BY <1>1, <1>2, AnswerLater
<1>6. CanQuote(target, window) => quote' = quote
  <2>1. CanQuote(target, window) => TrueMean(target, window)' = TrueMean(target, window)
    BY <1>1, <1>2, QuotableIsHeld, MeanStays
  <2>2. QED
    BY <2>1
<1>7. observedAt \in Nat /\ observedAt' \in Nat
  <2>1. Orderly /\ Orderly'
    BY AlwaysOrderly, PTL
  <2>2. QED
    BY <1>1, <1>2, <2>1 DEF Orderly
<1>8. /\ Feed!Pending = waiting /\ Feed!Lost = gone
      /\ \A a, b : Feed!Forgotten(a, b) <=> a # gone /\ b = gone
      /\ \A a, b : Feed!Answered(a, b, target) <=>
                     a = waiting /\ b.status = "priced" /\ target <= now'
  BY DEF Feed!Pending, Feed!Lost, Feed!Forgotten, Feed!Answered
<1> HIDE DEF quote, old, new
<1>9. Given => target <= observedAt /\ target <= observedAt'
  BY <1>5, <1>7
\* given before: the same, or lost
<1>10. CASE Given
  <2>1. CASE Given'
    BY <1>3, <1>4, <1>6, <1>10, <2>1 DEF old, new
  <2>2. CASE ~Given'
    <3>1. new = gone
      BY <1>4, <1>9, <1>10, <2>2
    <3>2. old # gone
      BY <1>3, <1>10
    <3>3. QED
      BY <1>8, <3>1, <3>2 DEF old, new
  <2>3. QED
    BY <2>1, <2>2
\* lost before: lost
<1>11. CASE ~Given /\ target <= observedAt
  <2>1. ~Given'
    BY <1>5, <1>6, <1>11
  <2>2. target <= observedAt'
    BY <1>5, <1>7, <1>11
  <2>3. old = gone /\ new = gone
    BY <1>3, <1>4, <1>11, <2>1, <2>2
  <2>4. QED
    BY <2>3 DEF old, new
\* still to come: anything, but no price before its instant
<1>12. CASE ~Given /\ ~(target <= observedAt)
  <2>1. old = waiting /\ old # gone
    BY <1>3, <1>12
  <2>2. CASE Given'
    <3>1. new.status = "priced" /\ target <= now'
      BY <1>4, <1>5, <2>2
    <3>2. QED
      BY <1>8, <2>1, <3>1 DEF old, new
  <2>3. CASE ~Given'
    <3>1. new = gone \/ new = waiting
      BY <1>4, <2>3
    <3>2. QED
      BY <1>8, <2>1, <3>1 DEF old, new
  <2>4. QED
    BY <2>2, <2>3
<1>13. QED
  BY <1>10, <1>11, <1>12

LEMMA FeedBegins == Init => Feed!Init
<1> SUFFICES ASSUME Init PROVE Feed!Init
  OBVIOUS
<1> DEFINE shown == [q \in Targets \X Windows |-> AnswerNow(q[1], q[2])]
<1>1. RangeInv
  BY RangeBegins
<1>2. now \in Nat
  BY OracleAssumption DEF Init
<1>3. ASSUME NEW q \in Targets \X Windows
      PROVE  /\ AnswerNow(q[1], q[2]) \in Feed!Answers
             /\ q[1] > now => AnswerNow(q[1], q[2]) = Feed!Pending
  <2>1. q[1] \in Nat /\ q[2] \in Nat
    BY Asked
  <2>2. QED
    BY <1>1, <2>1, ShownTyped
<1>4. shown \in [Targets \X Windows -> Feed!Answers]
  BY <1>3
<1>5. \A q \in Targets \X Windows : q[1] > now => shown[q] = Feed!Pending
  BY <1>3
<1>6. QED
  BY <1>2, <1>4, <1>5 DEF Feed!Init

LEMMA FeedStep ==
    RangeInv /\ RangeInv' /\ [Next]_vars =>
      [Feed!Next]_<<now, [q \in Targets \X Windows |-> AnswerNow(q[1], q[2])]>>
<1> SUFFICES ASSUME RangeInv, RangeInv', [Next]_vars
             PROVE  Feed!Next
  OBVIOUS
<1> DEFINE shown == [q \in Targets \X Windows |-> AnswerNow(q[1], q[2])]
<1>1. now' >= now
  <2>1. PICK at : Holds(at)
    BY DEF RangeInv, OracleInv
  <2>2. PICK after : Holds(after)' /\ Keeps(at, after)
    BY <2>1, OracleStep
  <2>3. now \in Nat /\ now' \in Nat
    <3>1. Orderly /\ Orderly'
      BY AlwaysOrderly, PTL
    <3>2. QED
      BY <2>1, <2>2, <3>1 DEF Orderly
  <2>4. QED
    BY <2>2, <2>3 DEF Keeps
<1>2. FeedTyped'
  BY AlwaysFeedTyped, PTL
<1>3. ASSUME NEW q \in Targets \X Windows
      PROVE  /\ AnswerNow(q[1], q[2])' \in Feed!Answers
             /\ \/ AnswerNow(q[1], q[2])' = AnswerNow(q[1], q[2])
                \/ Feed!Answered(AnswerNow(q[1], q[2]), AnswerNow(q[1], q[2])', q[1])
                \/ Feed!Forgotten(AnswerNow(q[1], q[2]), AnswerNow(q[1], q[2])')
  <2>1. q[1] \in Nat /\ q[2] \in Nat
    BY Asked
  <2>2. AnswerNow(q[1], q[2])' \in Feed!Answers
    BY <1>2, <2>1 DEF FeedTyped
  <2>3. \/ AnswerNow(q[1], q[2])' = AnswerNow(q[1], q[2])
        \/ Feed!Answered(AnswerNow(q[1], q[2]), AnswerNow(q[1], q[2])', q[1])
        \/ Feed!Forgotten(AnswerNow(q[1], q[2]), AnswerNow(q[1], q[2])')
    BY <2>1, ShownStep
  <2>4. QED
    BY <2>2, <2>3
<1>4. shown' \in [Targets \X Windows -> Feed!Answers]
  BY <1>3
<1>5. \A q \in Targets \X Windows :
        \/ shown'[q] = shown[q]
        \/ Feed!Answered(shown[q], shown'[q], q[1])
        \/ Feed!Forgotten(shown[q], shown'[q])
  BY <1>3
<1>6. QED
  BY <1>1, <1>4, <1>5 DEF Feed!Next

\* The adapter keeps the promises of the price feed: an answer is given at most
\* once, never before its instant, never changes, and once lost stays lost.
THEOREM AdapterImplementsFeed == Spec => ImplementsFeed
BY FeedBegins, FeedStep, RangeBegins, RangeStep, PTL DEF Spec, ImplementsFeed, Feed!Spec
===============================================================================
