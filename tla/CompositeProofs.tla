-------------------------- MODULE CompositeProofs --------------------------
(***************************************************************************)
(* Theorems about the composite adapter, for any number of sources in any  *)
(* orientation, any ticks, divergence, windows and interleaving of swaps   *)
(* and time.  What a single ring tells is proved in OracleProofs of any    *)
(* ring; here it is used of the ring of each source, and the rest is about *)
(* medians, spreads and what the sources together still remember.          *)
(***************************************************************************)
EXTENDS CompositeOracle, TotalsProofs

-----------------------------------------------------------------------------
(* Least, greatest and middle *)

\* A finite set of integers has a least and a greatest member.
LEMMA ExtremesOf ==
    ASSUME NEW S, IsFiniteSet(S), S \subseteq Int, S # {}
    PROVE  \E low \in S, high \in S : \A v \in S : low <= v /\ v <= high
<1> DEFINE Bounded(U) == \E low \in U, high \in U : \A v \in U : low <= v /\ v <= high
           Good == {U \in SUBSET S : U = {} \/ Bounded(U)}
<1>1. {} \in Good
  OBVIOUS
<1>2. ASSUME NEW U \in SUBSET S, NEW x \in S \ U, U \in Good
      PROVE  U \cup {x} \in Good
  <2>1. \A v \in S : v \in Int
    OBVIOUS
  <2>2. CASE U = {}
    BY <2>1, <2>2
  <2>3. CASE U # {}
    <3>1. PICK low \in U, high \in U : \A v \in U : low <= v /\ v <= high
      BY <1>2, <2>3
    <3>2. \E a \in U \cup {x} : \A v \in U \cup {x} : a <= v
      <4>1. CASE x <= low
        BY <2>1, <3>1, <4>1
      <4>2. CASE low <= x
        BY <2>1, <3>1, <4>2
      <4>3. QED
        BY <2>1, <4>1, <4>2
    <3>3. \E b \in U \cup {x} : \A v \in U \cup {x} : v <= b
      <4>1. CASE x <= high
        BY <2>1, <3>1, <4>1
      <4>2. CASE high <= x
        BY <2>1, <3>1, <4>2
      <4>3. QED
        BY <2>1, <4>1, <4>2
    <3>4. QED
      BY <3>2, <3>3
  <2>4. QED
    BY <2>2, <2>3
<1>3. S \in Good
  <2> HIDE DEF Good
  <2>1. QED
    BY <1>1, <1>2, SubsetInduction
<1>4. QED
  BY <1>3

\* The values of finitely many ticks are finitely many.
LEMMA ValuesFinite ==
    ASSUME NEW D, IsFiniteSet(D), D # {}, NEW ticks \in [D -> Int]
    PROVE  /\ IsFiniteSet({ticks[s] : s \in D})
           /\ {ticks[s] : s \in D} \subseteq Int /\ {ticks[s] : s \in D} # {}
<1>1. IsFiniteSet({ticks[s] : s \in D})
  <2> DEFINE Good == {U \in SUBSET D : IsFiniteSet({ticks[s] : s \in U})}
  <2>1. {} \in Good
    <3>1. {ticks[s] : s \in {}} = {}
      OBVIOUS
    <3>2. QED
      BY <3>1, FS_EmptySet
  <2>2. ASSUME NEW U \in SUBSET D, NEW x \in D \ U, U \in Good
        PROVE  U \cup {x} \in Good
    <3>1. {ticks[s] : s \in U \cup {x}} = {ticks[s] : s \in U} \cup {ticks[x]}
      OBVIOUS
    <3>2. IsFiniteSet({ticks[s] : s \in U} \cup {ticks[x]})
      BY <2>2, FS_AddElement
    <3>3. QED
      BY <3>1, <3>2
  <2>3. D \in Good
    <3> HIDE DEF Good
    <3>1. QED
      BY <2>1, <2>2, SubsetInduction
  <2>4. QED
    BY <2>3
<1>2. QED
  BY <1>1

\* Whatever place is asked for, a value of the ticks stands there.
LEMMA RankedIs ==
    ASSUME NEW D, IsFiniteSet(D), D # {}, NEW ticks \in [D -> Int],
           NEW k \in 1..Cardinality(D)
    PROVE  Ranked(ticks, k) \in {ticks[s] : s \in D}
<1> DEFINE values == {ticks[s] : s \in D}
           Below(v) == {s \in D : ticks[s] < v}
           UpTo(v) == {s \in D : ticks[s] <= v}
           W == {v \in values : k <= Cardinality(UpTo(v))}
<1>1. IsFiniteSet(values) /\ values \subseteq Int /\ values # {}
  BY ValuesFinite
<1>2. k \in Nat \ {0} /\ k <= Cardinality(D) /\ Cardinality(D) \in Nat
  BY FS_CardinalityType
<1>3. W # {} /\ IsFiniteSet(W) /\ W \subseteq Int
  <2>1. PICK high \in values : \A v \in values : v <= high
    BY <1>1, ExtremesOf
  <2>2. UpTo(high) = D
    BY <2>1
  <2>3. IsFiniteSet(W)
    BY <1>1, FS_Subset
  <2>4. QED
    BY <1>1, <1>2, <2>2, <2>3
<1>4. PICK v \in W : \A w \in W : v <= w
  BY <1>3, ExtremesOf
<1>5. v \in values /\ v \in Int /\ k <= Cardinality(UpTo(v))
  BY <1>1, <1>4
<1>6. Cardinality(Below(v)) < k
  <2> DEFINE less == {u \in values : u < v}
  <2>1. CASE less = {}
    <3>1. Below(v) = {}
      BY <2>1
    <3>2. QED
      BY <1>2, <3>1, FS_EmptySet
  <2>2. CASE less # {}
    <3>1. IsFiniteSet(less) /\ less \subseteq Int
      BY <1>1, FS_Subset
    <3>2. PICK u \in less : \A w \in less : w <= u
      BY <2>2, <3>1, ExtremesOf
    <3>3. u \in values /\ u \in Int /\ u < v
      BY <3>1, <3>2
    <3>4. u \notin W
      BY <1>4, <1>5, <3>3
    <3>5. Below(v) = UpTo(u)
      <4>1. ASSUME NEW s \in D PROVE ticks[s] < v <=> ticks[s] <= u
        <5>1. ticks[s] \in Int /\ ticks[s] \in values
          OBVIOUS
        <5>2. ticks[s] < v => ticks[s] <= u
          BY <3>2, <5>1
        <5>3. QED
          BY <1>5, <3>3, <5>1, <5>2
      <4>2. QED
        BY <4>1
    <3>6. Cardinality(UpTo(u)) \in Nat
      BY FS_Subset, FS_CardinalityType
    <3>7. ~(k <= Cardinality(UpTo(u)))
      BY <3>3, <3>4
    <3>8. QED
      BY <1>2, <3>5, <3>6, <3>7
  <2>3. QED
    BY <2>1, <2>2
<1>7. DOMAIN ticks = D
  OBVIOUS
<1>8. Ranked(ticks, k) =
         CHOOSE w \in values : Cardinality(Below(w)) < k /\ k <= Cardinality(UpTo(w))
  BY <1>7 DEF Ranked
<1> HIDE DEF values, Below, UpTo
<1>9. Ranked(ticks, k) \in values
  BY <1>5, <1>6, <1>8
<1>10. QED
  BY <1>9 DEF values

\* The median lies between two of the ticks.
LEMMA MedianBetween ==
    ASSUME NEW D, IsFiniteSet(D), D # {}, NEW ticks \in [D -> Int]
    PROVE  /\ Median(ticks) \in Int
           /\ \E a \in D, b \in D : ticks[a] <= Median(ticks) /\ Median(ticks) <= ticks[b]
<1> DEFINE n == Cardinality(D)
<1>1. n \in Nat \ {0}
  BY FS_CardinalityType, FS_EmptySet
<1>2. DOMAIN ticks = D
  OBVIOUS
<1> HIDE DEF n
<1>3. (n + 1) \div 2 \in 1..n /\ n \div 2 + 1 \in 1..n
  BY <1>1
<1>4. Lower(ticks) \in {ticks[s] : s \in D} /\ Upper(ticks) \in {ticks[s] : s \in D}
  BY <1>2, <1>3, RankedIs DEF Lower, Upper, n
<1>5. PICK a \in D, b \in D : Lower(ticks) = ticks[a] /\ Upper(ticks) = ticks[b]
  BY <1>4
<1>6. Median(ticks) = (ticks[a] + ticks[b]) \div 2 /\ ticks[a] \in Int /\ ticks[b] \in Int
  BY <1>5 DEF Median
<1>7. \A x \in Int, y \in Int : x <= y =>
        /\ (x + y) \div 2 \in Int /\ (y + x) \div 2 = (x + y) \div 2
        /\ x <= (x + y) \div 2 /\ (x + y) \div 2 <= y
  OBVIOUS
<1>8. CASE ticks[a] <= ticks[b]
  BY <1>6, <1>7, <1>8
<1>9. CASE ticks[b] <= ticks[a]
  BY <1>6, <1>7, <1>9
<1>10. QED
  BY <1>6, <1>8, <1>9

\* A spread bounds the distance of any two ticks.
LEMMA SpreadBounds ==
    ASSUME NEW D, IsFiniteSet(D), D # {}, NEW ticks \in [D -> Int]
    PROVE  /\ Spread(ticks) \in Int
           /\ \A a \in D, b \in D : ticks[a] - ticks[b] <= Spread(ticks)
<1> DEFINE values == {ticks[s] : s \in D}
<1>1. IsFiniteSet(values) /\ values \subseteq Int /\ values # {}
  BY ValuesFinite
<1>2. DOMAIN ticks = D
  OBVIOUS
<1>3. Spread(ticks) = Max(values) - Min(values)
  BY <1>2 DEF Spread
<1>4. \A s \in D : ticks[s] \in values
  OBVIOUS
<1> HIDE DEF values
<1>5. PICK low \in values, high \in values : \A v \in values : low <= v /\ v <= high
  BY <1>1, ExtremesOf
<1>6. Max(values) \in values /\ \A v \in values : Max(values) >= v
  BY <1>1, <1>5 DEF Max
<1>7. Min(values) \in values /\ \A v \in values : Min(values) <= v
  BY <1>1, <1>5 DEF Min
<1>8. ASSUME NEW a \in D, NEW b \in D
      PROVE  Spread(ticks) \in Int /\ ticks[a] - ticks[b] <= Spread(ticks)
  <2> DEFINE most == Max(values)
             least == Min(values)
  <2>1. /\ most \in Int /\ least \in Int /\ ticks[a] \in Int /\ ticks[b] \in Int
        /\ ticks[a] <= most /\ least <= ticks[b]
    BY <1>1, <1>4, <1>6, <1>7
  <2>2. Spread(ticks) = most - least
    BY <1>3
  <2> HIDE DEF most, least
  <2>3. QED
    BY <2>1, <2>2
<1>9. QED
  BY <1>8

-----------------------------------------------------------------------------
(* The ring of a source *)

\* What is proved of a ring in OracleProofs is proved of any ring; the pool it is
\* instantiated with is of no consequence.
Lone == INSTANCE OracleProofs WITH
    pool <- pools[1], area <- areas[1], observedAt <- observedAt[1]

\* what the single-pool adapter assumes of its constants follows from what the
\* composite assumes of them
LEMMA Grounds ==
    /\ \A low \in Ticks, high \in Ticks : low .. high \subseteq DOMAIN Quote
    /\ Genesis \in Nat
    /\ MaxTime \in Nat
    /\ MaxTime - Genesis < TimestampModulus
    /\ Ticks \subseteq Int
    /\ MAX_TWAP_WINDOW \in Nat \ {0}
    /\ TimestampModulus \in Nat \ {0}
    /\ MaxCardinality \in Nat \ {0}
BY CompositeAssumption, OrientedQuoteAssumption, RingAssumption

\* the operators on rings are the same on both sides
LEMMA SameStamp == \A t : Lone!Stamp(t) = Stamp(t)
BY DEF Lone!Stamp, Stamp

LEMMA SameEnds == \A p : Lone!Newest(p) = Newest(p) /\ Lone!Oldest(p) = Oldest(p)
BY DEF Lone!Newest, Newest, Lone!Oldest, Oldest, Lone!NextIndex, NextIndex

LEMMA SameObserve ==
    \A p, time, ago : Lone!ObserveSingle(p, time, ago) = ObserveSingle(p, time, ago)
BY DEF Lone!ObserveSingle, ObserveSingle, Lone!Stamp, Stamp, Lone!Age, Age,
       Lone!Newest, Newest, Lone!Oldest, Oldest, Lone!Transform, Transform,
       Lone!Interpolated, Interpolated, Lone!Surrounding, Surrounding,
       Lone!NextIndex, NextIndex

LEMMA SameMean == \A d, w : Lone!MeanTick(d, w) = MeanTick(d, w)
BY DEF Lone!MeanTick, MeanTick, Lone!TruncatedQuotient, TruncatedQuotient

LEMMA SameSwap == \A p, time, tick : Lone!SwapToTick(p, time, tick) = SwapToTick(p, time, tick)
BY DEF Lone!SwapToTick, SwapToTick, Lone!Write, Write, Lone!CardinalityOnWrite,
       CardinalityOnWrite, Lone!NextIndex, NextIndex, Lone!Newest, Newest,
       Lone!Stamp, Stamp, Lone!Transform, Transform

LEMMA SameStart ==
    \A tick, next :
        Lone!Grow(Lone!NewPool(Genesis, tick), next) = Grow(NewPool(Genesis, tick), next)
BY DEF Lone!NewPool, NewPool, Lone!Grow, Grow, Lone!Stamp, Stamp, Lone!Slots, Slots,
       Lone!Unwritten, Unwritten

-----------------------------------------------------------------------------
(* The pools of the composite *)

\* the slots of a source's ring were written at these moments
Holds(s, at) ==
    /\ at \in [Slots -> Nat]
    /\ Lone!Ring(pools[s], at, now, areas[s])
    /\ observedAt[s] = at[pools[s].index]

SourceInv(s) ==
    /\ \E at \in [Slots -> Nat] : Holds(s, at)
    /\ pools[s].tick \in Ticks
    /\ Lone!Ranges(areas[s], now)

CompositeInv ==
    /\ DOMAIN pools = Sources /\ pools = [s \in Sources |-> pools[s]]
    /\ observedAt = [s \in Sources |-> observedAt[s]]
    /\ \A s \in Sources : SourceInv(s)

\* what a step leaves of a source's past
Keeps(s, at, after) ==
    /\ now <= now'
    /\ \A t \in Genesis..now : areas'[s][t] = areas[s][t]
    /\ at[pools[s].index] <= after[pools'[s].index]
    /\ at[Lone!OldestIndex(pools[s])] <= after[Lone!OldestIndex(pools'[s])]

LEMMA HoldsFacts ==
    ASSUME NEW s, NEW at, Holds(s, at)
    PROVE  LET p == pools[s]
               n == at[p.index]
               o == at[Lone!OldestIndex(p)]
           IN  /\ p.index \in Slots
               /\ now \in Nat /\ Genesis \in Nat /\ Genesis <= now
               /\ now - Genesis < TimestampModulus
               /\ n \in Genesis..now /\ o \in Genesis..now /\ n \in Nat /\ o \in Nat /\ o <= n
               /\ Newest(p).blockTimestamp = Stamp(n)
               /\ Oldest(p).blockTimestamp = Stamp(o)
               /\ observedAt[s] = n
               /\ \A t \in Genesis..now : areas[s][t] \in Int
               /\ Lone!Slots = Slots
<1>1. Lone!Ring(pools[s], at, now, areas[s]) /\ observedAt[s] = at[pools[s].index]
  BY DEF Holds
<1>2. Lone!Slots = Slots
  BY DEF Lone!Slots, Slots
<1>3. Lone!Clock(now, areas[s])
  BY <1>1 DEF Lone!Ring
<1>4. /\ now \in Nat /\ Genesis \in Nat /\ Genesis <= now
      /\ now - Genesis < TimestampModulus
      /\ \A t \in Genesis..now : areas[s][t] \in Int
  BY <1>3, Grounds DEF Lone!Clock
<1>5. QED
  BY <1>1, <1>2, <1>4, Grounds, SameStamp, SameEnds, Lone!RingFacts

LEMMA CompositeBegins == Init => CompositeInv
<1> SUFFICES ASSUME Init PROVE CompositeInv
  OBVIOUS
<1>1. /\ now = Genesis /\ Genesis \in Nat /\ MaxCardinality \in 1..MaxCardinality
      /\ pools \in [Sources -> {Grow(NewPool(Genesis, tick), MaxCardinality) : tick \in Ticks}]
      /\ areas = [s \in Sources |-> [t \in {Genesis} |-> 0]]
      /\ observedAt = [s \in Sources |-> Genesis]
  BY Grounds DEF Init
<1>2. ASSUME NEW s \in Sources PROVE SourceInv(s)
  <2>1. PICK tick \in Ticks : pools[s] = Grow(NewPool(Genesis, tick), MaxCardinality)
    BY <1>1
  <2>2. tick \in Int
    BY Grounds
  <2> DEFINE first == Lone!NewPool(Genesis, tick)
             at == [i \in Lone!Slots |-> Genesis]
             none == [t \in {Genesis} |-> 0]
  <2>3. Lone!Ring(first, at, Genesis, none) /\ first.index = 0 /\ 0 \in Slots
    <3>1. Lone!Slots = Slots
      BY DEF Lone!Slots, Slots
    <3>2. Lone!Ring(first, at, Genesis, none) /\ first.index = 0 /\ 0 \in Lone!Slots
      BY <2>2, Grounds, Lone!RingBegins
    <3>3. QED
      BY <3>1, <3>2
  <2>4. pools[s] = Lone!Grow(first, MaxCardinality)
    BY <2>1, SameStart
  <2> HIDE DEF at, none
  <2>5. Lone!Ring(pools[s], at, Genesis, none) /\ pools[s].index = 0
    <3> HIDE DEF first
    <3>1. QED
      BY <1>1, <2>3, <2>4, Grounds, Lone!RingGrows
  <2>6. at \in [Slots -> Nat] /\ at[0] = Genesis
    BY <1>1, <2>3 DEF at, Lone!Slots, Slots
  <2>7. areas[s] = none /\ observedAt[s] = Genesis
    BY <1>1 DEF none
  <2>8. Holds(s, at)
    BY <1>1, <2>5, <2>6, <2>7 DEF Holds
  <2>9. pools[s].tick = tick
    BY <2>1 DEF Grow, NewPool
  <2>10. Lone!Ranges(areas[s], now)
    BY <1>1, <2>7, Grounds, Lone!RangesBegin DEF none
  <2>11. QED
    BY <2>6, <2>8, <2>9, <2>10 DEF SourceInv
<1>3. QED
  BY <1>1, <1>2 DEF CompositeInv

LEMMA TickKeeps ==
    ASSUME NEW s \in Sources, NEW at, Holds(s, at), Tick
    PROVE  Holds(s, at)' /\ Keeps(s, at, at)
<1>1. /\ now < MaxTime /\ now' = now + 1 /\ pools' = pools /\ observedAt' = observedAt
      /\ areas'[s] = [t \in Genesis..now + 1 |->
                       IF t <= now THEN areas[s][t] ELSE areas[s][now] + pools[s].tick]
  BY DEF Tick
<1>2. Lone!Ring(pools[s], at, now + 1, areas'[s])
  BY <1>1, Grounds, Lone!TimePasses DEF Holds
<1>3. Holds(s, at)'
  BY <1>1, <1>2 DEF Holds
<1>4. /\ now \in Nat /\ Genesis \in Nat
      /\ at[pools[s].index] \in Nat /\ at[Lone!OldestIndex(pools[s])] \in Nat
  BY HoldsFacts
<1>5. now <= now' /\ \A t \in Genesis..now : areas'[s][t] = areas[s][t]
  BY <1>1, <1>4
<1>6. QED
  BY <1>1, <1>3, <1>4, <1>5 DEF Keeps

\* a source whose pool no one trades in this step
LEMMA StillKeeps ==
    ASSUME NEW s \in Sources, NEW at, Holds(s, at),
           now' = now, areas' = areas, pools'[s] = pools[s], observedAt'[s] = observedAt[s]
    PROVE  Holds(s, at)' /\ Keeps(s, at, at)
<1>1. /\ now \in Nat /\ at[pools[s].index] \in Nat
      /\ at[Lone!OldestIndex(pools[s])] \in Nat
  BY HoldsFacts
<1>2. Holds(s, at)'
  BY DEF Holds
<1>3. QED
  BY <1>1, <1>2 DEF Keeps

LEMMA SwapKeeps ==
    ASSUME NEW s \in Sources, NEW at, Holds(s, at), NEW tick \in Ticks,
           now' = now, areas' = areas,
           pools'[s] = SwapToTick(pools[s], now, tick), observedAt'[s] = now
    PROVE  \E after : Holds(s, after)' /\ Keeps(s, at, after)
<1>1. Lone!Ring(pools[s], at, now, areas[s]) /\ tick \in Int /\ now \in Nat
  BY HoldsFacts, Grounds DEF Holds
<1>2. pools'[s] = Lone!SwapToTick(pools[s], now, tick)
  BY SameSwap
<1>3. PICK after :
        /\ Lone!Ring(pools'[s], after, now, areas[s])
        /\ after[pools'[s].index] = now /\ at[pools[s].index] <= now
        /\ at[Lone!OldestIndex(pools[s])] <= after[Lone!OldestIndex(pools'[s])]
  BY <1>1, <1>2, Grounds, Lone!RingSwaps
<1>4. after \in [Slots -> Nat]
  BY <1>3 DEF Lone!Ring, Lone!Slots, Slots
<1>5. Holds(s, after)'
  BY <1>3, <1>4 DEF Holds
<1>6. Keeps(s, at, after)
  BY <1>1, <1>3 DEF Keeps
<1>7. QED
  BY <1>5, <1>6

\* A step keeps the past of every source.
LEMMA CompositeStep ==
    ASSUME CompositeInv, [Next]_vars, NEW s \in Sources, NEW at, Holds(s, at)
    PROVE  \E after : Holds(s, after)' /\ Keeps(s, at, after)
<1>1. CASE Tick
  BY <1>1, TickKeeps
<1>2. ASSUME NEW r \in Sources, NEW tick \in Ticks, Swap(r, tick)
      PROVE  \E after : Holds(s, after)' /\ Keeps(s, at, after)
  <2>1. /\ now' = now /\ areas' = areas
        /\ pools' = [pools EXCEPT ![r] = SwapToTick(pools[r], now, tick)]
        /\ observedAt' = [observedAt EXCEPT ![r] = now]
    BY <1>2 DEF Swap
  <2>2. /\ DOMAIN pools = Sources
        /\ observedAt = [z \in Sources |-> observedAt[z]]
    BY DEF CompositeInv
  <2>3. CASE r = s
    BY <2>1, <2>2, <2>3, SwapKeeps
  <2>4. CASE r # s
    BY <2>1, <2>2, <2>4, StillKeeps
  <2>5. QED
    BY <2>3, <2>4
<1>3. CASE UNCHANGED vars
  BY <1>3, StillKeeps DEF vars
<1>4. QED
  BY <1>1, <1>2, <1>3 DEF Next

\* What accumulated at a source did so at ticks its pool trades at.
LEMMA CompositeKept == CompositeInv /\ [Next]_vars => CompositeInv'
<1> SUFFICES ASSUME CompositeInv, [Next]_vars PROVE CompositeInv'
  OBVIOUS
<1>0. /\ DOMAIN pools = Sources /\ pools = [s \in Sources |-> pools[s]]
      /\ observedAt = [s \in Sources |-> observedAt[s]]
      /\ \A s \in Sources : SourceInv(s)
  BY DEF CompositeInv
<1>1. ASSUME NEW s \in Sources
      PROVE  \E at \in [Slots -> Nat] : Holds(s, at)'
  <2>1. PICK at \in [Slots -> Nat] : Holds(s, at)
    BY <1>0 DEF SourceInv
  <2>2. PICK after : Holds(s, after)'
    BY <2>1, CompositeStep
  <2>3. QED
    BY <2>2 DEF Holds
<1>2. CASE Tick
  <2>1. /\ now' = now + 1 /\ pools' = pools /\ observedAt' = observedAt
        /\ \A s \in Sources : areas'[s] = [t \in Genesis..now + 1 |->
              IF t <= now THEN areas[s][t] ELSE areas[s][now] + pools[s].tick]
    BY <1>2 DEF Tick
  <2>2. ASSUME NEW s \in Sources
        PROVE  pools'[s].tick \in Ticks /\ Lone!Ranges(areas'[s], now')
    <3>1. PICK at \in [Slots -> Nat] : Holds(s, at)
      BY <1>0 DEF SourceInv
    <3>2. now \in Nat /\ Genesis <= now /\ \A t \in Genesis..now : areas[s][t] \in Int
      BY <3>1, HoldsFacts
    <3>3. pools[s].tick \in Ticks /\ Lone!Ranges(areas[s], now)
      BY <1>0 DEF SourceInv
    <3>4. Lone!Ranges(areas'[s], now + 1)
      <4>1. areas'[s] = [t \in Genesis..now + 1 |->
              IF t <= now THEN areas[s][t] ELSE areas[s][now] + pools[s].tick]
        BY <2>1
      <4>2. PICK time, sum, tick :
              time = now /\ sum = areas[s] /\ tick = pools[s].tick
        OBVIOUS
      <4>3. PICK later : later = [t \in Genesis..time + 1 |->
              IF t <= time THEN sum[t] ELSE sum[time] + tick]
        OBVIOUS
      <4>4. Lone!Ranges(later, time + 1)
        <5>1. /\ time \in Nat /\ Genesis <= time /\ \A t \in Genesis..time : sum[t] \in Int
              /\ tick \in Ticks /\ Lone!Ranges(sum, time)
          BY <3>2, <3>3, <4>2
        <5>2. QED
          BY <4>3, <5>1, Grounds, Lone!RangesLater
      <4>5. areas'[s] = later
        BY <4>1, <4>2, <4>3
      <4>6. QED
        BY <4>2, <4>4, <4>5
    <3>5. QED
      BY <2>1, <3>3, <3>4
  <2>3. QED
    BY <1>0, <1>1, <2>1, <2>2 DEF CompositeInv, SourceInv
<1>3. ASSUME NEW r \in Sources, NEW tick \in Ticks, Swap(r, tick)
      PROVE  CompositeInv'
  <2>1. /\ now' = now /\ areas' = areas
        /\ pools' = [pools EXCEPT ![r] = SwapToTick(pools[r], now, tick)]
        /\ observedAt' = [observedAt EXCEPT ![r] = now]
    BY <1>3 DEF Swap
  <2>2. SwapToTick(pools[r], now, tick).tick = tick
    <3>1. PICK at \in [Slots -> Nat] : Holds(r, at)
      BY <1>0 DEF SourceInv
    <3>2. pools[r] \in Lone!PoolType
      BY <3>1 DEF Holds, Lone!Ring
    <3>3. QED
      BY <3>2 DEF SwapToTick, Write, Lone!PoolType
  <2>3. ASSUME NEW s \in Sources PROVE pools'[s].tick \in Ticks
    BY <1>0, <2>1, <2>2 DEF SourceInv
  <2>4. DOMAIN pools' = Sources /\ pools' = [s \in Sources |-> pools'[s]]
        /\ observedAt' = [s \in Sources |-> observedAt'[s]]
    BY <1>0, <2>1
  <2>5. \A s \in Sources : Lone!Ranges(areas'[s], now')
    BY <1>0, <2>1 DEF SourceInv
  <2>6. QED
    BY <1>1, <2>3, <2>4, <2>5 DEF CompositeInv, SourceInv
<1>4. CASE UNCHANGED vars
  BY <1>0, <1>1, <1>4 DEF vars, CompositeInv, SourceInv
<1>5. QED
  BY <1>2, <1>3, <1>4 DEF Next

\* The ring of every source stays in order, whatever the others do.
THEOREM SourcesAlwaysInOrder == Spec => []CompositeInv
BY CompositeBegins, CompositeKept, PTL DEF Spec
-----------------------------------------------------------------------------
(* What a source answers *)

\* the window lies in what the source's ring holds, and stamps have not started again
Held(s, at, target, window) ==
    /\ target <= at[pools[s].index]
    /\ at[Lone!OldestIndex(pools[s])] <= target - window
    /\ at[pools[s].index] < TimestampModulus

\* every tick a source can report, whichever side of the pair the base token is
Oriented == Ticks \union {-tick : tick \in Ticks}

LEMMA OrientedInt == Oriented \subseteq Int
<1>1. \A tick \in Ticks : tick \in Int
  BY Grounds
<1>2. \A tick \in Int : -tick \in Int
  OBVIOUS
<1>3. QED
  BY <1>1, <1>2 DEF Oriented

\* The comparisons of stamps say that the ring reaches over the window.
LEMMA ReachIsHeld ==
    ASSUME NEW s \in Sources, NEW at, Holds(s, at),
           NEW target \in Nat, NEW window \in Nat, WellFormed(target, window)
    PROVE  /\ Newest(pools[s]).blockTimestamp >= target
           /\ target - window >= EarliestOf(pools[s])
           /\ now - (target - window) < TimestampModulus
           <=>
           Held(s, at, target, window)
<1> DEFINE n == at[pools[s].index]
           o == at[Lone!OldestIndex(pools[s])]
           start == target - window
<1>1. /\ now \in Nat /\ n \in Nat /\ o \in Nat /\ o <= n /\ n <= now
      /\ now - o < TimestampModulus
      /\ Newest(pools[s]).blockTimestamp = Stamp(n)
      /\ EarliestOf(pools[s]) = Stamp(o)
  <2>1. /\ n \in Genesis..now /\ o \in Genesis..now /\ now - Genesis < TimestampModulus
        /\ now \in Nat /\ n \in Nat /\ o \in Nat /\ o <= n /\ Genesis \in Nat
        /\ Newest(pools[s]).blockTimestamp = Stamp(n)
        /\ Oldest(pools[s]).blockTimestamp = Stamp(o)
    BY HoldsFacts
  <2> HIDE DEF n, o
  <2>2. QED
    BY <2>1, Grounds DEF EarliestOf
<1>2. start \in Nat /\ start <= target
  BY DEF WellFormed
<1> HIDE DEF n, o, start
<1>3. \A t \in Nat : t <= target =>
        (Stamp(n) >= target /\ t >= Stamp(o) /\ now - t < TimestampModulus
          <=> target <= n /\ o <= t /\ n < TimestampModulus)
  BY <1>1, Grounds, SameStamp, Lone!StampsReach
<1>4. Stamp(n) >= target /\ start >= Stamp(o) /\ now - start < TimestampModulus
        <=> target <= n /\ o <= start /\ n < TimestampModulus
  BY <1>2, <1>3
<1>5. QED
  BY <1>1, <1>4 DEF Held, n, o, start

\* A source answers with its true mean, oriented, or not at all.
LEMMA SourceTickIs ==
    ASSUME NEW s \in Sources, NEW at, Holds(s, at),
           NEW target \in Nat, NEW window \in Nat, WellFormed(target, window)
    PROVE  /\ SourceTick(s, target, window) =
                IF Held(s, at, target, window) THEN {TrueMean(s, target, window)} ELSE {}
           /\ Held(s, at, target, window) =>
                /\ target \in Genesis..now /\ target - window \in Genesis..now
                /\ (areas[s][target] - areas[s][target - window]) \div window \in Int
<1> DEFINE p == pools[s]
           start == target - window
           d == areas[s][target] - areas[s][start]
<1>1. CASE ~Held(s, at, target, window)
  BY <1>1, ReachIsHeld DEF SourceTick
<1>2. CASE Held(s, at, target, window)
  <2>1. /\ Lone!Ring(p, at, now, areas[s]) /\ window \in Nat \ {0}
        /\ target <= now /\ target >= window /\ at[Lone!OldestIndex(p)] <= start
    BY <1>2 DEF Holds, Held, WellFormed
  <2>2. target \in Genesis..now /\ start \in Genesis..now /\ d \in Int
    BY <2>1, Grounds, Lone!MeanTold
  <2>3. /\ Lone!ObserveSingle(p, now, now - target) = {areas[s][target]}
        /\ Lone!ObserveSingle(p, now, now - start) = {areas[s][start]}
    BY <2>1, Grounds, Lone!MeanTold
  <2>4. Lone!MeanTick(d, window) = d \div window
    BY <2>1, Grounds, Lone!MeanTold
  <2>5. SourceTick(s, target, window) = {Normalised(s, MeanTick(d, window))}
    <3>1. /\ ObserveSingle(p, now, now - target) = {areas[s][target]}
          /\ ObserveSingle(p, now, now - start) = {areas[s][start]}
      BY <2>3, SameObserve
    <3>2. SourceTick(s, target, window) =
            {Normalised(s, MeanTick(b - a, window)) :
               a \in ObserveSingle(p, now, now - start), b \in ObserveSingle(p, now, now - target)}
      BY <1>2, ReachIsHeld DEF SourceTick
    <3> HIDE DEF p, start
    <3>3. QED
      BY <3>1, <3>2
  <2>6. Normalised(s, MeanTick(d, window)) = TrueMean(s, target, window)
    BY <2>4, SameMean DEF Normalised, TrueMean
  <2>7. d \div window \in Int
    <3> HIDE DEF d
    <3>1. QED
      BY <2>1, <2>2
  <2>8. QED
    BY <1>2, <2>2, <2>5, <2>6, <2>7
<1>3. QED
  BY <1>1, <1>2

\* The true mean of a window lies between ticks that the source can report.
LEMMA MeanOriented ==
    ASSUME NEW s \in Sources, SourceInv(s), NEW target \in Nat, NEW window \in Nat \ {0},
           target \in Genesis..now, target - window \in Genesis..now, now \in Nat,
           \A t \in Genesis..now : areas[s][t] \in Int
    PROVE  /\ TrueMean(s, target, window) \in Int
           /\ \E low \in Oriented, high \in Oriented :
                low <= TrueMean(s, target, window) /\ TrueMean(s, target, window) <= high
<1> DEFINE start == target - window
           d == areas[s][target] - areas[s][start]
           mean == d \div window
<1>1. d \in Int /\ target - start = window /\ start <= target
  OBVIOUS
<1>2. Lone!Between(d, window)
  BY <1>1 DEF SourceInv, Lone!Ranges
<1>3. TrueMean(s, target, window) = IF BaseIsToken0[s] THEN mean ELSE -mean
  BY DEF TrueMean
<1> HIDE DEF d
<1>4. PICK low \in Ticks, high \in Ticks : mean \in low..high
  BY <1>1, <1>2, Grounds, Lone!MeanBetween
<1>5. low \in Int /\ high \in Int /\ mean \in Int /\ low <= mean /\ mean <= high
  BY <1>1, <1>4, Grounds
<1>6. /\ low \in Oriented /\ high \in Oriented
      /\ -low \in Oriented /\ -high \in Oriented
  BY <1>4 DEF Oriented
<1> HIDE DEF mean
<1>7. -high <= -mean /\ -mean <= -low /\ -mean \in Int
  BY <1>5
<1>8. CASE BaseIsToken0[s]
  BY <1>3, <1>5, <1>6, <1>8
<1>9. CASE ~BaseIsToken0[s]
  BY <1>3, <1>6, <1>7, <1>9
<1>10. QED
  BY <1>8, <1>9
-----------------------------------------------------------------------------
(* What the composite answers *)

\* the ranges the properties speak of
LEMMA Asked == Targets \subseteq Nat /\ Windows \subseteq Nat
BY Grounds DEF Targets, Windows

LEMMA SourcesFinite == IsFiniteSet(Sources) /\ Sources # {}
<1>1. SourceCount \in Nat \ {0}
  BY CompositeAssumption
<1>2. IsFiniteSet(1..SourceCount) /\ 1 \in 1..SourceCount
  BY <1>1, FS_Interval
<1>3. QED
  BY <1>2 DEF Sources

Means(target, window) == [s \in Sources |-> TrueMean(s, target, window)]

\* When every source answers, the ticks compared are the true means, each between
\* ticks that its source can report.
LEMMA TicksAreMeans ==
    ASSUME CompositeInv, NEW target \in Nat, NEW window \in Nat,
           WellFormed(target, window), Answering(target, window) = Sources
    PROVE  /\ SourceTicks(target, window) = Means(target, window)
           /\ Means(target, window) \in [Sources -> Int]
           /\ \A s \in Sources : \E low \in Oriented, high \in Oriented :
                low <= TrueMean(s, target, window) /\ TrueMean(s, target, window) <= high
<1>1. ASSUME NEW s \in Sources
      PROVE  /\ SourceTick(s, target, window) = {TrueMean(s, target, window)}
             /\ TrueMean(s, target, window) \in Int
             /\ \E low \in Oriented, high \in Oriented :
                  low <= TrueMean(s, target, window) /\ TrueMean(s, target, window) <= high
  <2>1. PICK at \in [Slots -> Nat] : Holds(s, at)
    BY DEF CompositeInv, SourceInv
  <2>2. SourceTick(s, target, window) # {}
    BY DEF Answering
  <2>3. Held(s, at, target, window)
    BY <2>1, <2>2, SourceTickIs
  <2>4. SourceTick(s, target, window) = {TrueMean(s, target, window)}
    BY <2>1, <2>3, SourceTickIs
  <2>5. target \in Genesis..now /\ target - window \in Genesis..now
    BY <2>1, <2>3, SourceTickIs
  <2>6. window \in Nat \ {0} /\ now \in Nat /\ \A t \in Genesis..now : areas[s][t] \in Int
    BY <2>1, HoldsFacts DEF WellFormed
  <2>7. SourceInv(s)
    BY DEF CompositeInv
  <2>8. QED
    BY <2>4, <2>5, <2>6, <2>7, MeanOriented
<1>2. ASSUME NEW s \in Sources
      PROVE  (CHOOSE tick \in SourceTick(s, target, window) : TRUE) = TrueMean(s, target, window)
  BY <1>1
<1>3. SourceTicks(target, window) = Means(target, window)
  BY <1>2 DEF SourceTicks, Means
<1>4. QED
  BY <1>1, <1>3 DEF Means

\* The median of the true means has a quote, and is within the spread of each.
LEMMA MedianIs ==
    ASSUME CompositeInv, NEW target \in Nat, NEW window \in Nat,
           WellFormed(target, window), Answering(target, window) = Sources
    PROVE  LET median == Median(Means(target, window))
               spread == Spread(Means(target, window))
           IN  /\ median \in DOMAIN Quote
               /\ \A s \in Sources : /\ TrueMean(s, target, window) - median <= spread
                                     /\ median - TrueMean(s, target, window) <= spread
<1> DEFINE means == Means(target, window)
           median == Median(means)
<1>1. /\ means \in [Sources -> Int]
      /\ \A s \in Sources : means[s] = TrueMean(s, target, window) /\ means[s] \in Int
      /\ \A s \in Sources : \E low \in Oriented, high \in Oriented :
           low <= means[s] /\ means[s] <= high
  BY TicksAreMeans DEF Means
<1> HIDE DEF means
<1>2. median \in Int
  BY <1>1, SourcesFinite, MedianBetween
<1>3. PICK a \in Sources, b \in Sources : means[a] <= median /\ median <= means[b]
  BY <1>1, SourcesFinite, MedianBetween
<1>4. \A s \in Sources, r \in Sources : means[s] - means[r] <= Spread(means)
  BY <1>1, SourcesFinite, SpreadBounds
<1>5. Spread(means) \in Int
  BY <1>1, SourcesFinite, SpreadBounds
<1> DEFINE spread == Spread(means)
<1> HIDE DEF median, spread
<1>6. ASSUME NEW s \in Sources
      PROVE  means[s] - median <= spread /\ median - means[s] <= spread
  <2>1. /\ means[s] \in Int /\ means[a] \in Int /\ means[b] \in Int
        /\ means[s] - means[a] <= spread /\ means[b] - means[s] <= spread
    BY <1>1, <1>4 DEF spread
  <2>2. spread \in Int
    BY <1>5 DEF spread
  <2>3. QED
    BY <1>2, <1>3, <2>1, <2>2
<1>7. median \in DOMAIN Quote
  <2>1. PICK low \in Oriented : low <= means[a]
    BY <1>1
  <2>2. PICK high \in Oriented : means[b] <= high
    BY <1>1
  <2>3. low \in Int /\ high \in Int /\ means[a] \in Int /\ means[b] \in Int
    BY <1>1, <2>1, <2>2, OrientedInt
  <2>4. median \in low..high
    BY <1>2, <1>3, <2>1, <2>2, <2>3
  <2>5. low..high \subseteq DOMAIN Quote
    BY OrientedQuoteAssumption DEF Oriented
  <2>6. QED
    BY <2>4, <2>5
<1>8. QED
  BY <1>1, <1>6, <1>7 DEF median, spread, means

\* A price is the quote at a tick no further than MaxDivergence from the true mean
\* of every source.
THEOREM EverySourceAlwaysAgrees == Spec => []EverySourceAgrees
<1>1. CompositeInv => EverySourceAgrees
  <2> SUFFICES ASSUME CompositeInv, NEW target \in Targets, NEW window \in Windows,
                      NEW price \in GetPriceAt(target, window)
               PROVE  \E tick \in DOMAIN Quote :
                        /\ price = Quote[tick]
                        /\ \A s \in Sources :
                             /\ TrueMean(s, target, window) - tick <= MaxDivergence
                             /\ tick - TrueMean(s, target, window) <= MaxDivergence
    BY DEF EverySourceAgrees
  <2> DEFINE median == Median(Means(target, window))
             spread == Spread(Means(target, window))
  <2>1. target \in Nat /\ window \in Nat
    BY Asked
  <2>2. /\ WellFormed(target, window) /\ Answering(target, window) = Sources
        /\ Spread(SourceTicks(target, window)) <= MaxDivergence
        /\ price = Quote[Median(SourceTicks(target, window))]
    BY DEF GetPriceAt
  <2>3. SourceTicks(target, window) = Means(target, window)
    BY <2>1, <2>2, TicksAreMeans
  <2>4. /\ median \in DOMAIN Quote
        /\ \A s \in Sources : /\ TrueMean(s, target, window) - median <= spread
                              /\ median - TrueMean(s, target, window) <= spread
    BY <2>1, <2>2, MedianIs
  <2>5. spread <= MaxDivergence /\ price = Quote[median]
    BY <2>2, <2>3
  <2>6. median \in Int /\ spread \in Int /\ MaxDivergence \in Int
        /\ \A s \in Sources : TrueMean(s, target, window) \in Int
    <3>1. Means(target, window) \in [Sources -> Int]
      BY <2>1, <2>2, TicksAreMeans
    <3>2. median \in Int /\ spread \in Int
      BY <3>1, SourcesFinite, MedianBetween, SpreadBounds
    <3>3. QED
      BY <3>1, <3>2, CompositeAssumption DEF Means
  <2> HIDE DEF median, spread
  <2>7. \A s \in Sources : /\ TrueMean(s, target, window) - median <= MaxDivergence
                           /\ median - TrueMean(s, target, window) <= MaxDivergence
    BY <2>4, <2>5, <2>6
  <2>8. QED
    BY <2>4, <2>5, <2>7
<1>2. QED
  BY <1>1, SourcesAlwaysInOrder, PTL

\* canQuote and getPriceAt disagree only where the quote at the median is zero.
THEOREM QuotableAlwaysPriced == Spec => []QuotableIsPriced
<1>1. CompositeInv => QuotableIsPriced
  <2> SUFFICES ASSUME CompositeInv, NEW target \in Targets, NEW window \in Windows
               PROVE  /\ GetPriceAt(target, window) # {} => CanQuote(target, window)
                      /\ CanQuote(target, window) /\ GetPriceAt(target, window) = {} =>
                           Quote[Median([s \in Sources |-> TrueMean(s, target, window)])] = 0
    BY DEF QuotableIsPriced
  <2>1. target \in Nat /\ window \in Nat
    BY Asked
  <2>2. GetPriceAt(target, window) # {} => CanQuote(target, window)
    BY DEF GetPriceAt, CanQuote
  <2>3. ASSUME CanQuote(target, window), GetPriceAt(target, window) = {}
        PROVE  Quote[Median([s \in Sources |-> TrueMean(s, target, window)])] = 0
    <3>1. SourceTicks(target, window) = [s \in Sources |-> TrueMean(s, target, window)]
      BY <2>1, <2>3, TicksAreMeans DEF CanQuote, Means
    <3>2. {Quote[Median(SourceTicks(target, window))]} \ {0} = {}
      BY <2>3 DEF CanQuote, GetPriceAt
    <3>3. QED
      BY <3>1, <3>2
  <2>4. QED
    BY <2>2, <2>3
<1>2. QED
  BY <1>1, SourcesAlwaysInOrder, PTL
-----------------------------------------------------------------------------
(* What becomes of an answer *)

\* the source has an answer for a window that may be asked for
Told(s, target, window) == WellFormed(target, window) /\ SourceTick(s, target, window) # {}

\* the lemmas on moments and answers, to be used of the next state as well
Orderly ==
    \A s \in Sources : \A at : Holds(s, at) =>
        LET n == at[pools[s].index]
        IN  /\ now \in Nat /\ n \in Nat /\ n <= now /\ observedAt[s] = n
            /\ at[Lone!OldestIndex(pools[s])] \in Nat

Truthful ==
    \A s \in Sources : \A at : Holds(s, at) => \A target \in Nat, window \in Nat :
        /\ Told(s, target, window) <=> WellFormed(target, window) /\ Held(s, at, target, window)
        /\ Told(s, target, window) =>
             SourceTick(s, target, window) = {TrueMean(s, target, window)}

LEMMA AlwaysOrderly == Orderly
<1> SUFFICES ASSUME NEW s \in Sources, NEW at, Holds(s, at)
             PROVE  LET n == at[pools[s].index]
                    IN  /\ now \in Nat /\ n \in Nat /\ n <= now /\ observedAt[s] = n
                        /\ at[Lone!OldestIndex(pools[s])] \in Nat
  BY DEF Orderly
<1> DEFINE n == at[pools[s].index]
<1>1. /\ now \in Nat /\ Genesis \in Nat /\ n \in Genesis..now /\ n \in Nat
      /\ observedAt[s] = n /\ at[Lone!OldestIndex(pools[s])] \in Nat
  BY HoldsFacts
<1>2. QED
  BY <1>1

LEMMA AlwaysTruthful == Truthful
<1> SUFFICES ASSUME NEW s \in Sources, NEW at, Holds(s, at),
                    NEW target \in Nat, NEW window \in Nat
             PROVE  /\ Told(s, target, window)
                         <=> WellFormed(target, window) /\ Held(s, at, target, window)
                    /\ Told(s, target, window) =>
                         SourceTick(s, target, window) = {TrueMean(s, target, window)}
  BY DEF Truthful
<1>1. QED
  BY SourceTickIs DEF Told

\* What accumulated over a window that a source remembers is settled for good.
LEMMA MeanStays ==
    ASSUME NEW s \in Sources, NEW at, Holds(s, at), NEW after, Keeps(s, at, after),
           NEW target \in Nat, NEW window \in Nat,
           WellFormed(target, window), Held(s, at, target, window)
    PROVE  TrueMean(s, target, window)' = TrueMean(s, target, window)
<1>1. target \in Genesis..now /\ target - window \in Genesis..now
  BY SourceTickIs
<1>2. areas'[s][target] = areas[s][target]
      /\ areas'[s][target - window] = areas[s][target - window]
  BY <1>1 DEF Keeps
<1>3. QED
  BY <1>2 DEF TrueMean

\* What a source answers in a later state it already answered when the instant was
\* sealed, and answers the same.
LEMMA SourceLater ==
    ASSUME CompositeInv, [Next]_vars, NEW s \in Sources,
           NEW target \in Nat, NEW window \in Nat
    PROVE  /\ target <= observedAt[s] /\ Told(s, target, window)' => Told(s, target, window)
           /\ Told(s, target, window) /\ Told(s, target, window)' =>
                SourceTick(s, target, window)' = SourceTick(s, target, window)
           /\ Told(s, target, window) => target <= observedAt[s]
           /\ Told(s, target, window)' => target <= now'
           /\ observedAt[s] \in Nat /\ observedAt'[s] \in Nat
           /\ observedAt[s] <= observedAt'[s]
           /\ now \in Nat /\ now' \in Nat /\ now <= now'
<1>1. PICK at \in [Slots -> Nat] : Holds(s, at)
  BY DEF CompositeInv, SourceInv
<1>2. PICK after : Holds(s, after)' /\ Keeps(s, at, after)
  BY <1>1, CompositeStep
<1>3. Orderly /\ Orderly' /\ Truthful /\ Truthful'
  BY AlwaysOrderly, AlwaysTruthful, PTL
<1> DEFINE n == at[pools[s].index]
           o == at[Lone!OldestIndex(pools[s])]
           n2 == after[pools'[s].index]
           o2 == after[Lone!OldestIndex(pools'[s])]
           start == target - window
<1>4. /\ now \in Nat /\ n \in Nat /\ o \in Nat /\ n <= now /\ observedAt[s] = n
      /\ now' \in Nat /\ n2 \in Nat /\ o2 \in Nat /\ n2 <= now' /\ observedAt'[s] = n2
  BY <1>1, <1>2, <1>3 DEF Orderly
<1>5. now <= now' /\ n <= n2 /\ o <= o2
  BY <1>2 DEF Keeps
<1>6. /\ Told(s, target, window)
           <=> WellFormed(target, window) /\ Held(s, at, target, window)
      /\ Told(s, target, window) =>
           SourceTick(s, target, window) = {TrueMean(s, target, window)}
  BY <1>1, <1>3 DEF Truthful
<1>7. /\ Told(s, target, window)'
           <=> WellFormed(target, window)' /\ Held(s, after, target, window)'
      /\ Told(s, target, window)' =>
           SourceTick(s, target, window)' = {TrueMean(s, target, window)'}
  BY <1>2, <1>3 DEF Truthful
<1>8. WellFormed(target, window) /\ Held(s, at, target, window) <=>
        /\ window # 0 /\ window <= MAX_TWAP_WINDOW /\ target <= now /\ target >= window
        /\ target <= n /\ o <= start /\ n < TimestampModulus
  BY DEF Held, WellFormed
<1>9. WellFormed(target, window)' /\ Held(s, after, target, window)' <=>
        /\ window # 0 /\ window <= MAX_TWAP_WINDOW /\ target <= now' /\ target >= window
        /\ target <= n2 /\ o2 <= start /\ n2 < TimestampModulus
  BY DEF Held, WellFormed
<1>10. Told(s, target, window) => TrueMean(s, target, window)' = TrueMean(s, target, window)
  BY <1>1, <1>2, <1>6, MeanStays
<1>11. start \in Int /\ TimestampModulus \in Nat
  BY Grounds
<1> HIDE DEF n, o, n2, o2, start
<1>12. target <= n /\ Told(s, target, window)' => Told(s, target, window)
  BY <1>4, <1>5, <1>6, <1>7, <1>8, <1>9, <1>11
<1>13. Told(s, target, window) => target <= n
  BY <1>6, <1>8
<1>14. Told(s, target, window)' => target <= now'
  BY <1>7, <1>9
<1>15. Told(s, target, window) /\ Told(s, target, window)' =>
         SourceTick(s, target, window)' = SourceTick(s, target, window)
  BY <1>6, <1>7, <1>10
<1>16. QED
  BY <1>4, <1>5, <1>12, <1>13, <1>14, <1>15

\* the price that is given, and the instants that every source has sealed
Given(target, window) ==
    CanQuote(target, window) /\ Quote[Median(SourceTicks(target, window))] # 0

SealedByAll(target) == \A s \in Sources : target <= observedAt[s]

Unanimous ==
    \A target, window : CanQuote(target, window) <=>
        /\ \A s \in Sources : Told(s, target, window)
        /\ Spread(SourceTicks(target, window)) <= MaxDivergence

LEMMA AlwaysUnanimous == Unanimous
BY SourcesFinite DEF Unanimous, CanQuote, Answering, Told

\* Once every source has sealed an instant, no later state gives a price that was
\* not already given, nor another one.
LEMMA GivenLater ==
    ASSUME CompositeInv, [Next]_vars, NEW target \in Nat, NEW window \in Nat
    PROVE  /\ SealedByAll(target) /\ Given(target, window)' => Given(target, window)
           /\ Given(target, window) /\ Given(target, window)' =>
                Quote[Median(SourceTicks(target, window))]'
                  = Quote[Median(SourceTicks(target, window))]
           /\ Given(target, window) => SealedByAll(target)
           /\ Given(target, window)' => target <= now'
           /\ SealedByAll(target) => SealedByAll(target)'
           /\ now' >= now
<1>1. /\ Given(target, window) => \A s \in Sources : Told(s, target, window)
      /\ Given(target, window)' => \A s \in Sources : Told(s, target, window)'
  <2>1. Unanimous /\ Unanimous'
    BY AlwaysUnanimous, PTL
  <2>2. QED
    BY <2>1 DEF Given, Unanimous
<1>2. ASSUME \A s \in Sources : Told(s, target, window),
             \A s \in Sources : Told(s, target, window)'
      PROVE  SourceTicks(target, window)' = SourceTicks(target, window)
  <2>1. \A s \in Sources : SourceTick(s, target, window)' = SourceTick(s, target, window)
    BY <1>2, SourceLater
  <2>2. Answering(target, window) = Sources /\ Answering(target, window)' = Sources
    BY <1>2 DEF Told, Answering
  <2>3. QED
    BY <2>1, <2>2 DEF SourceTicks
<1>3. SealedByAll(target) /\ Given(target, window)' =>
        \A s \in Sources : Told(s, target, window)
  BY <1>1, SourceLater DEF SealedByAll
<1>4. SealedByAll(target) /\ Given(target, window)' => Given(target, window)
  <2> SUFFICES ASSUME SealedByAll(target), Given(target, window)'
               PROVE  Given(target, window)
    OBVIOUS
  <2>1. SourceTicks(target, window)' = SourceTicks(target, window)
    BY <1>1, <1>2, <1>3
  <2>2. /\ Spread(SourceTicks(target, window)') <= MaxDivergence
        /\ Quote[Median(SourceTicks(target, window)')] # 0
    BY DEF Given, CanQuote
  <2>3. \A s \in Sources : Told(s, target, window)
    BY <1>3
  <2>4. QED
    BY <2>1, <2>2, <2>3, AlwaysUnanimous DEF Given, Unanimous
<1>5. Given(target, window) /\ Given(target, window)' =>
        Quote[Median(SourceTicks(target, window))]' = Quote[Median(SourceTicks(target, window))]
  BY <1>1, <1>2
<1>6. Given(target, window) => SealedByAll(target)
  BY <1>1, SourceLater DEF SealedByAll
<1>7. Given(target, window)' => target <= now'
  BY <1>1, SourceLater, SourcesFinite
<1>8. SealedByAll(target) => SealedByAll(target)'
  BY SourceLater DEF SealedByAll
<1>9. now' >= now
  BY SourceLater, SourcesFinite
<1>10. QED
  BY <1>4, <1>5, <1>6, <1>7, <1>8, <1>9
-----------------------------------------------------------------------------
(* The composite implements the feed *)

\* what the feed shows, to be used of the next state as well
Showing ==
    \A target, window :
        /\ Given(target, window) =>
             AnswerNow(target, window) =
               [status |-> "priced", price |-> Quote[Median(SourceTicks(target, window))]]
        /\ ~Given(target, window) =>
             AnswerNow(target, window) =
               [status |-> IF SealedByAll(target) THEN "lost" ELSE "pending", price |-> 0]

LEMMA AlwaysShowing == Showing
<1> SUFFICES ASSUME NEW target, NEW window
             PROVE  /\ Given(target, window) =>
                         AnswerNow(target, window) =
                           [status |-> "priced",
                            price |-> Quote[Median(SourceTicks(target, window))]]
                    /\ ~Given(target, window) =>
                         AnswerNow(target, window) =
                           [status |-> IF SealedByAll(target) THEN "lost" ELSE "pending",
                            price |-> 0]
  BY DEF Showing
<1> DEFINE quote == Quote[Median(SourceTicks(target, window))]
<1>1. GetPriceAt(target, window) = IF CanQuote(target, window) THEN {quote} \ {0} ELSE {}
  BY DEF GetPriceAt, CanQuote
<1>2. Given(target, window) <=> CanQuote(target, window) /\ quote # 0
  BY DEF Given
<1> HIDE DEF quote
<1>3. CASE Given(target, window)
  <2>1. GetPriceAt(target, window) = {quote}
    BY <1>1, <1>2, <1>3
  <2>2. (CHOOSE x \in {quote} : TRUE) = quote
    OBVIOUS
  <2>3. AnswerNow(target, window) = [status |-> "priced", price |-> quote]
    BY <2>1, <2>2 DEF AnswerNow
  <2>4. QED
    BY <1>3, <2>3 DEF quote
<1>4. CASE ~Given(target, window)
  <2>1. GetPriceAt(target, window) = {}
    BY <1>1, <1>2, <1>4
  <2>2. QED
    BY <1>4, <2>1 DEF AnswerNow, SealedByAll
<1>5. QED
  BY <1>3, <1>4

\* what the feed shows is one of its answers, and pending before the instant
FeedTyped ==
    CompositeInv => \A target \in Nat, window \in Nat :
        /\ AnswerNow(target, window) \in Feed!Answers
        /\ target > now => AnswerNow(target, window) = Feed!Pending

LEMMA AlwaysFeedTyped == FeedTyped
<1> SUFFICES ASSUME CompositeInv, NEW target \in Nat, NEW window \in Nat
             PROVE  /\ AnswerNow(target, window) \in Feed!Answers
                    /\ target > now => AnswerNow(target, window) = Feed!Pending
  BY DEF FeedTyped
<1>1. \A s \in Sources : now \in Nat /\ observedAt[s] \in Nat /\ observedAt[s] <= now
  <2>1. ASSUME NEW s \in Sources
        PROVE  now \in Nat /\ observedAt[s] \in Nat /\ observedAt[s] <= now
    <3>1. PICK at \in [Slots -> Nat] : Holds(s, at)
      BY DEF CompositeInv, SourceInv
    <3>2. QED
      BY <3>1, AlwaysOrderly DEF Orderly
  <2>2. QED
    BY <2>1
<1>2. now \in Nat
  BY <1>1, SourcesFinite
<1>3. CASE Given(target, window)
  <2> DEFINE quote == Quote[Median(SourceTicks(target, window))]
  <2>1. /\ WellFormed(target, window) /\ Answering(target, window) = Sources
        /\ quote # 0
    BY <1>3 DEF Given, CanQuote
  <2>2. Median(SourceTicks(target, window)) \in DOMAIN Quote
    BY <2>1, TicksAreMeans, MedianIs
  <2>3. quote \in Prices
    BY <2>1, <2>2 DEF Prices
  <2>4. AnswerNow(target, window) = Feed!Priced(quote)
    BY <1>3, AlwaysShowing DEF Showing, Feed!Priced
  <2>5. ~(target > now)
    BY <1>2, <2>1 DEF WellFormed
  <2>6. QED
    BY <2>3, <2>4, <2>5 DEF Feed!Answers
<1>4. CASE ~Given(target, window)
  <2>1. AnswerNow(target, window) =
          [status |-> IF SealedByAll(target) THEN "lost" ELSE "pending", price |-> 0]
    BY <1>4, AlwaysShowing DEF Showing
  <2>2. AnswerNow(target, window) \in {Feed!Pending, Feed!Lost}
    BY <2>1 DEF Feed!Pending, Feed!Lost
  <2>3. target > now => ~SealedByAll(target)
    BY <1>1, SourcesFinite DEF SealedByAll
  <2>4. target > now => AnswerNow(target, window) = Feed!Pending
    BY <2>1, <2>3 DEF Feed!Pending
  <2>5. QED
    BY <2>2, <2>4 DEF Feed!Answers
<1>5. QED
  BY <1>3, <1>4

\* Once sealed by all an answer is final, and once lost it is lost for good.
LEMMA ShownStep ==
    ASSUME CompositeInv, [Next]_vars, NEW target \in Nat, NEW window \in Nat
    PROVE  \/ AnswerNow(target, window)' = AnswerNow(target, window)
           \/ Feed!Answered(AnswerNow(target, window), AnswerNow(target, window)', target)
           \/ Feed!Forgotten(AnswerNow(target, window), AnswerNow(target, window)')
<1> DEFINE quote == Quote[Median(SourceTicks(target, window))]
           gone == [status |-> "lost", price |-> 0]
           waiting == [status |-> "pending", price |-> 0]
           old == AnswerNow(target, window)
           new == AnswerNow(target, window)'
<1>1. Showing /\ Showing'
  BY AlwaysShowing, PTL
<1>2. /\ Given(target, window) => old = [status |-> "priced", price |-> quote]
      /\ ~Given(target, window) =>
           old = [status |-> IF SealedByAll(target) THEN "lost" ELSE "pending", price |-> 0]
  BY <1>1 DEF Showing
<1>3. /\ Given(target, window)' => new = [status |-> "priced", price |-> quote']
      /\ ~Given(target, window)' =>
           new = [status |-> IF SealedByAll(target)' THEN "lost" ELSE "pending", price |-> 0]
  BY <1>1 DEF Showing
<1>4. /\ SealedByAll(target) /\ Given(target, window)' => Given(target, window)
      /\ Given(target, window) /\ Given(target, window)' => quote' = quote
      /\ Given(target, window) => SealedByAll(target)
      /\ Given(target, window)' => target <= now'
      /\ SealedByAll(target) => SealedByAll(target)'
  BY GivenLater
<1>5. /\ Feed!Pending = waiting /\ Feed!Lost = gone
      /\ \A a, b : Feed!Forgotten(a, b) <=> a # gone /\ b = gone
      /\ \A a, b : Feed!Answered(a, b, target) <=>
                     a = waiting /\ b.status = "priced" /\ target <= now'
  BY DEF Feed!Pending, Feed!Lost, Feed!Forgotten, Feed!Answered
<1> HIDE DEF quote, old, new
\* given before: the same, or lost
<1>6. CASE Given(target, window)
  <2>1. CASE Given(target, window)'
    BY <1>2, <1>3, <1>4, <1>6, <2>1 DEF old, new
  <2>2. CASE ~Given(target, window)'
    <3>1. new = gone
      BY <1>3, <1>4, <1>6, <2>2
    <3>2. old # gone
      BY <1>2, <1>6
    <3>3. QED
      BY <1>5, <3>1, <3>2 DEF old, new
  <2>3. QED
    BY <2>1, <2>2
\* lost before: lost
<1>7. CASE ~Given(target, window) /\ SealedByAll(target)
  <2>1. ~Given(target, window)' /\ SealedByAll(target)'
    BY <1>4, <1>7
  <2>2. old = gone /\ new = gone
    BY <1>2, <1>3, <1>7, <2>1
  <2>3. QED
    BY <2>2 DEF old, new
\* still to come: anything, but no price before its instant
<1>8. CASE ~Given(target, window) /\ ~SealedByAll(target)
  <2>1. old = waiting /\ old # gone
    BY <1>2, <1>8
  <2>2. CASE Given(target, window)'
    <3>1. new.status = "priced" /\ target <= now'
      BY <1>3, <1>4, <2>2
    <3>2. QED
      BY <1>5, <2>1, <3>1 DEF old, new
  <2>3. CASE ~Given(target, window)'
    <3>1. new = gone \/ new = waiting
      BY <1>3, <2>3
    <3>2. QED
      BY <1>5, <2>1, <3>1 DEF old, new
  <2>4. QED
    BY <2>2, <2>3
<1>9. QED
  BY <1>6, <1>7, <1>8

LEMMA FeedBegins == Init => Feed!Init
<1> SUFFICES ASSUME Init PROVE Feed!Init
  OBVIOUS
<1> DEFINE shown == [q \in Targets \X Windows |-> AnswerNow(q[1], q[2])]
<1>1. CompositeInv /\ now \in Nat
  BY CompositeBegins, Grounds DEF Init
<1>2. ASSUME NEW q \in Targets \X Windows
      PROVE  /\ AnswerNow(q[1], q[2]) \in Feed!Answers
             /\ q[1] > now => AnswerNow(q[1], q[2]) = Feed!Pending
  <2>1. q[1] \in Nat /\ q[2] \in Nat
    BY Asked
  <2>2. QED
    BY <1>1, <2>1, AlwaysFeedTyped DEF FeedTyped
<1>3. shown \in [Targets \X Windows -> Feed!Answers]
  BY <1>2
<1>4. \A q \in Targets \X Windows : q[1] > now => shown[q] = Feed!Pending
  BY <1>2
<1>5. QED
  BY <1>1, <1>3, <1>4 DEF Feed!Init

LEMMA FeedStep ==
    CompositeInv /\ CompositeInv' /\ [Next]_vars =>
      [Feed!Next]_<<now, [q \in Targets \X Windows |-> AnswerNow(q[1], q[2])]>>
<1> SUFFICES ASSUME CompositeInv, CompositeInv', [Next]_vars
             PROVE  Feed!Next
  OBVIOUS
<1> DEFINE shown == [q \in Targets \X Windows |-> AnswerNow(q[1], q[2])]
<1>1. now' >= now
  <2>1. 0 \in Nat
    OBVIOUS
  <2>2. QED
    BY <2>1, GivenLater
<1>2. FeedTyped'
  BY AlwaysFeedTyped, PTL
<1>3. ASSUME NEW q \in Targets \X Windows
      PROVE  /\ AnswerNow(q[1], q[2])' \in Feed!Answers
             /\ \/ AnswerNow(q[1], q[2])' = AnswerNow(q[1], q[2])
                \/ Feed!Answered(AnswerNow(q[1], q[2]), AnswerNow(q[1], q[2])', q[1])
                \/ Feed!Forgotten(AnswerNow(q[1], q[2]), AnswerNow(q[1], q[2])')
  <2>1. q[1] \in Nat /\ q[2] \in Nat
    BY Asked
  <2>2. AnswerNow(q[1], q[2])' \in Feed!Answers
    BY <1>2, <2>1 DEF FeedTyped
  <2>3. \/ AnswerNow(q[1], q[2])' = AnswerNow(q[1], q[2])
        \/ Feed!Answered(AnswerNow(q[1], q[2]), AnswerNow(q[1], q[2])', q[1])
        \/ Feed!Forgotten(AnswerNow(q[1], q[2]), AnswerNow(q[1], q[2])')
    BY <2>1, ShownStep
  <2>4. QED
    BY <2>2, <2>3
<1>4. shown' \in [Targets \X Windows -> Feed!Answers]
  BY <1>3
<1>5. \A q \in Targets \X Windows :
        \/ shown'[q] = shown[q]
        \/ Feed!Answered(shown[q], shown'[q], q[1])
        \/ Feed!Forgotten(shown[q], shown'[q])
  BY <1>3
<1>6. QED
  BY <1>1, <1>4, <1>5 DEF Feed!Next

\* The composite keeps the promises of the price feed: an answer is given at most
\* once, never before its instant, never changes, and once lost stays lost.
THEOREM CompositeImplementsFeed == Spec => ImplementsFeed
BY FeedBegins, FeedStep, CompositeBegins, CompositeKept, PTL
   DEF Spec, ImplementsFeed, Feed!Spec
===============================================================================
