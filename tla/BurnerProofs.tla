----------------------------- MODULE BurnerProofs -----------------------------
(***************************************************************************)
(* The burner's split and its spending cap, for any shares, deposits,      *)
(* limits and targets.                                                     *)
(* SharesFollowFunding counts what a target was given as what it still has *)
(* plus what it spent, which no purchase changes; a deposit adds a floored *)
(* part of itself, which is less than one wei short of its share.  The     *)
(* invariant adds the types and that the first share never moves.          *)
(***************************************************************************)
EXTENDS BuybackBurner, TotalsProofs

SplitTypes ==
    /\ allocated \in [Indexes -> Nat] /\ totalSpent \in [Indexes -> Nat]
    /\ funded \in Nat /\ deposits \in Nat
    /\ shareBps[0] = PonsShareBps

SplitInv == SplitTypes /\ SharesFollowFunding

\* The share of a value, floored, is less than one unit of MaxBps below it.
LEMMA FlooredShare ==
    ASSUME NEW v \in Nat, NEW share \in 0..MaxBps, NEW part, part = (v * share) \div MaxBps
    PROVE  /\ part \in 0..v
           /\ v * share - MaxBps * part \in 0..MaxBps - 1
<1>1. MaxBps \in Nat \ {0} /\ v * share \in Nat
  BY BurnerAssumption
<1>2. part \in Nat /\ v * share - MaxBps * part \in 0..MaxBps - 1
  BY <1>1
<1>3. part <= v
  <2>1. v * share <= v * MaxBps
    BY <1>1
  <2>2. ASSUME part > v
        PROVE  FALSE
    <3>1. MaxBps * part >= MaxBps * (v + 1)
      BY <1>1, <1>2, <2>2
    <3>2. QED
      BY <1>1, <1>2, <2>1, <3>1
  <2>3. QED
    BY <1>2, <2>2
<1>4. QED
  BY <1>2, <1>3

\* A purchase moves wei from what a target has to what it has spent.
LEMMA PurchaseKeepsSplit ==
    ASSUME SplitInv, NEW i \in Indexes, NEW amount \in Nat, BuyAndBurn(i, amount)
    PROVE  SplitInv'
<1>1. amount <= allocated[i]
  BY DEF BuyAndBurn, CanBuy
<1>2. SplitTypes'
  <2>1. allocated[i] - amount \in Nat /\ totalSpent[i] + amount \in Nat
    BY <1>1 DEF SplitInv, SplitTypes
  <2>2. QED
    BY <2>1 DEF BuyAndBurn, config, history, SplitInv, SplitTypes
<1>3. \A j \in Indexes : allocated'[j] + totalSpent'[j] = allocated[j] + totalSpent[j]
  BY <1>1 DEF BuyAndBurn, SplitInv, SplitTypes
<1>4. QED
  BY <1>2, <1>3 DEF BuyAndBurn, history, SplitInv, SharesFollowFunding, Indexes

\* A deposit is split without loss, and rounds the first part down by less than a wei.
LEMMA DepositKeepsSplit ==
    ASSUME SplitInv, NEW v \in Nat, Receive(v)
    PROVE  SplitInv'
<1> DEFINE part == PonsPart(v)
           given == allocated[0] + totalSpent[0]
<1>1. part \in 0..v /\ v * PonsShareBps - MaxBps * part \in 0..MaxBps - 1
  BY FlooredShare, BurnerAssumption DEF PonsPart, SplitInv, SplitTypes
<1>2. SplitTypes'
  BY <1>1 DEF Receive, config, SplitInv, SplitTypes, Indexes
<1>3. /\ allocated'[0] = allocated[0] + part
      /\ allocated'[1] = allocated[1] + (v - part)
      /\ totalSpent' = totalSpent /\ funded' = funded + v /\ deposits' = deposits + 1
  BY DEF Receive, SplitInv, SplitTypes, Indexes
<1>4. given \in Nat /\ part \in Nat /\ MaxBps \in Nat \ {0} /\ PonsShareBps \in Nat
      /\ funded \in Nat /\ deposits \in Nat
  BY <1>1, BurnerAssumption DEF SplitInv, SplitTypes, Indexes
<1>5. funded * PonsShareBps - MaxBps * given \in 0..deposits * (MaxBps - 1)
  BY DEF SplitInv, SharesFollowFunding, Indexes
<1>6. (funded + v) * PonsShareBps - MaxBps * (given + part)
        \in 0..(deposits + 1) * (MaxBps - 1)
  <2>1. (funded + v) * PonsShareBps - MaxBps * (given + part)
          = (funded * PonsShareBps - MaxBps * given) + (v * PonsShareBps - MaxBps * part)
    BY <1>1, <1>4
  <2>2. (deposits + 1) * (MaxBps - 1) = deposits * (MaxBps - 1) + (MaxBps - 1)
    BY <1>4
  <2>3. QED
    BY <1>1, <1>4, <1>5, <2>1, <2>2
<1>7. allocated'[0] + totalSpent'[0] = given + part
  BY <1>3, <1>4, <1>1 DEF SplitInv, SplitTypes, Indexes
<1>8. allocated'[0] + totalSpent'[0] + (allocated'[1] + totalSpent'[1]) = funded'
  <2>1. given + (allocated[1] + totalSpent[1]) = funded
    BY DEF SplitInv, SharesFollowFunding, Indexes
  <2>2. allocated[1] \in Nat /\ totalSpent[1] \in Nat
    BY DEF SplitInv, SplitTypes, Indexes
  <2>3. QED
    BY <1>3, <1>4, <1>7, <2>1, <2>2
<1>9. QED
  BY <1>2, <1>3, <1>6, <1>7, <1>8 DEF SplitInv, SharesFollowFunding, Indexes

\* No step moves money between the two.
LEMMA SplitAlwaysKept == Spec => []SplitInv
<1>1. Init => SplitInv
  <2> SUFFICES ASSUME Init
               PROVE  SplitInv
    OBVIOUS
  <2>1. SplitTypes
    BY DEF Init, SplitTypes, Indexes
  <2>2. SharesFollowFunding
    BY BurnerAssumption DEF Init, SharesFollowFunding, Indexes
  <2>3. QED
    BY <2>1, <2>2 DEF SplitInv
<1>2. SplitInv /\ [Next]_vars => SplitInv'
  <2> SUFFICES ASSUME SplitInv, [Next]_vars
               PROVE  SplitInv'
    OBVIOUS
  <2>1. CASE UNCHANGED <<shareBps, allocated, totalSpent, funded, deposits>>
    BY <2>1 DEF SplitInv, SplitTypes, SharesFollowFunding
  <2>2. CASE \E value \in Deposits : Receive(value)
    BY <2>2, DepositKeepsSplit, BurnerAssumption
  <2>3. ASSUME NEW i \in Indexes, RunBuybacks(i)
        PROVE  SplitInv'
    <3>1. allocated[i] \in Nat
      BY DEF SplitInv, SplitTypes
    <3>2. CASE BuyAndBurn(i, allocated[i])
      BY <3>1, <3>2, PurchaseKeepsSplit
    <3>3. CASE UNCHANGED <<config, money, history>>
      BY <3>3, <2>1 DEF config, money, history
    <3>4. QED
      BY <2>3, <3>2, <3>3 DEF RunBuybacks
  <2>4. CASE \E i \in Indexes, amount \in 1..MaxFunded : SomebodyBuys(i, amount)
    BY <2>4, PurchaseKeepsSplit DEF SomebodyBuys
  <2>5. CASE Tick \/ (\E i \in Indexes : PoolMoves(i) \/ PoolReturns(i)) \/ StartBuybacks
    BY <2>1, <2>5 DEF Tick, PoolMoves, PoolReturns, StartBuybacks, config, money, history
  <2>6. CASE (\E i \in Indexes, t \in Targets : SetTarget(i, t))
             \/ (\E new \in Limits : SetRateLimit(new))
    BY <2>1, <2>6 DEF SetTarget, SetRateLimit, money, history
  <2>7. CASE UNCHANGED vars
    BY <2>1, <2>7 DEF vars, config, money, history
  <2>8. QED
    BY <2>2, <2>3, <2>4, <2>5, <2>6, <2>7 DEF Next
<1>3. QED
  BY <1>1, <1>2, PTL DEF Spec

\* Every wei the burner was ever sent is still allocated or was spent on its target, and
\* each target's part is its share at construction up to one wei per deposit: no order of
\* deposits, purchases, retargetings and limits moves money between the two.
THEOREM SharesAlwaysFollow == Spec => []SharesFollowFunding
<1>1. SplitInv => SharesFollowFunding
  BY DEF SplitInv
<1>2. QED
  BY <1>1, SplitAlwaysKept, PTL

-----------------------------------------------------------------------------
(***************************************************************************)
(* The cap.  While a window is open, what was spent since it opened is     *)
(* within the counter and within the cap, and what a stretch of the same   *)
(* length still sees of earlier windows is within the cap by itself: the   *)
(* window before opened at least a whole window earlier, so no stretch     *)
(* meets more than two.  Once a window is over, all that is in sight is    *)
(* its own, and nothing is of this instant, so that the next purchase      *)
(* starts again from an empty counter.                                     *)
(***************************************************************************)
Ages == 0..Horizon - 1

\* what the instants from a to b ago add up to
Over(f, a, b) == Total(f, a..b)

LimitTypes ==
    /\ limit.cap \in Nat /\ limit.window \in 1..Horizon
    /\ age \in 0..Horizon
    /\ spentInWindow \in Nat
    /\ recent \in [Ages -> Nat]

\* what the limit has to do with what was spent, f
WithinLimit(f, cap, window, since, counted) ==
    /\ since >= window => f[0] = 0 /\ Over(f, 0, window - 1) <= cap
    /\ since < window => /\ Over(f, 0, since) <= counted
                         /\ Over(f, 0, since) <= cap
                         /\ Over(f, since + 1, window - 1) <= cap

CapInv == LimitTypes /\ WithinLimit(recent, limit.cap, limit.window, age, spentInWindow)

LEMMA StretchType ==
    ASSUME NEW a \in Nat, NEW b \in Int, b < Horizon
    PROVE  a..b \subseteq Ages /\ IsFiniteSet(a..b)
<1>1. Horizon \in Nat
  BY BurnerAssumption
<1>2. a \in Int
  OBVIOUS
<1>3. IsFiniteSet(a..b)
  BY <1>2, FS_Interval
<1>4. QED
  BY <1>1, <1>3 DEF Ages

LEMMA OverType ==
    ASSUME NEW f \in [Ages -> Nat], NEW a \in Nat, NEW b \in Int, b < Horizon
    PROVE  Over(f, a, b) \in Nat
<1> DEFINE S == a..b
<1>1. IsFiniteSet(S) /\ \A d \in S : f[d] \in Nat
  BY StretchType
<1> HIDE DEF S
<1>2. Total(f, S) \in Nat
  BY <1>1, TotalType
<1>3. QED
  BY <1>2 DEF Over, S

\* A stretch within a stretch sees no more.
LEMMA OverWithin ==
    ASSUME NEW f \in [Ages -> Nat], NEW a \in Nat, NEW b \in Int, b < Horizon,
           NEW c \in Nat, NEW d \in Int, a <= c, d <= b
    PROVE  Over(f, c, d) <= Over(f, a, b)
<1> DEFINE S == a..b
           T == c..d
<1>1. T \in SUBSET S
  OBVIOUS
<1>2. IsFiniteSet(S) /\ \A s \in S : f[s] \in Nat
  BY StretchType
<1> HIDE DEF S, T
<1>3. Total(f, T) <= Total(f, S)
  BY <1>1, <1>2, TotalSubset
<1>4. QED
  BY <1>3 DEF Over, S, T

\* A stretch cut in two.
LEMMA OverCut ==
    ASSUME NEW f \in [Ages -> Nat], NEW b \in Int, b < Horizon, NEW c \in Nat, c <= b
    PROVE  Over(f, 0, b) = Over(f, 0, c) + Over(f, c + 1, b)
<1> DEFINE low == 0..c
           high == (c + 1)..b
           all == 0..b
<1>1. all = low \cup high /\ low \cap high = {} /\ c < Horizon
  BY BurnerAssumption
<1>2. low \subseteq Ages /\ IsFiniteSet(low)
  BY <1>1, StretchType
<1>3. high \subseteq Ages /\ IsFiniteSet(high)
  <2>1. c + 1 \in Nat
    OBVIOUS
  <2>2. QED
    BY <2>1, StretchType
<1> HIDE DEF low, high, all
<1>4. \A s \in low \cup high : f[s] \in Nat
  BY <1>2, <1>3
<1>5. Total(f, all) = Total(f, low) + Total(f, high)
  BY <1>1, <1>2, <1>3, <1>4, TotalUnion
<1>6. QED
  BY <1>5 DEF Over, low, high, all

\* The present instant and the others.
LEMMA OverNow ==
    ASSUME NEW f \in [Ages -> Nat], NEW b \in Nat, b < Horizon
    PROVE  /\ Over(f, 0, b) = f[0] + Over(f, 1, b)
           /\ f[0] \in Nat /\ Over(f, 1, b) \in Nat
<1>1. f[0] \in Nat
  BY BurnerAssumption DEF Ages
<1>2. Over(f, 1, b) \in Nat
  BY OverType
<1>3. Over(f, 0, b) = Over(f, 0, 0) + Over(f, 0 + 1, b)
  BY OverCut
<1>4. Over(f, 0, 0) = f[0]
  <2>1. 0..0 = {0}
    OBVIOUS
  <2>2. QED
    BY <1>1, <2>1, TotalSingleton DEF Over
<1>5. 0 + 1 = 1
  OBVIOUS
<1>6. QED
  BY <1>1, <1>2, <1>3, <1>4, <1>5

\* Time moves what was spent one instant back.
Aged(f) == [d \in Ages |-> IF d = 0 THEN 0 ELSE f[d - 1]]

LEMMA AgedType ==
    ASSUME NEW f \in [Ages -> Nat]
    PROVE  Aged(f) \in [Ages -> Nat] /\ Aged(f)[0] = 0
BY BurnerAssumption DEF Aged, Ages

LEMMA AgedOver ==
    ASSUME NEW f \in [Ages -> Nat], NEW a \in Nat, NEW b \in Int, b < Horizon
    PROVE  Over(Aged(f), a + 1, b) = Over(f, a, b - 1)
<1> DEFINE g == Aged(f)
           c == b - 1
<1>1. \A d \in a..c : f[d] \in Nat /\ g[d + 1] = f[d]
  BY BurnerAssumption DEF Aged, Ages
<1>2. c + 1 = b /\ c \in Int /\ a \in Int
  OBVIOUS
<1> HIDE DEF g, c
<1>3. Total(g, (a + 1)..(c + 1)) = Total(f, a..c)
  BY <1>1, <1>2, TotalShift
<1>4. QED
  BY <1>2, <1>3 DEF Over, g, c

LEMMA AgedNow ==
    ASSUME NEW f \in [Ages -> Nat], NEW b \in Nat, b < Horizon
    PROVE  Over(Aged(f), 0, b) = Over(f, 0, b - 1)
<1>1. Over(Aged(f), 0, b) = Aged(f)[0] + Over(Aged(f), 1, b) /\ Over(Aged(f), 1, b) \in Nat
  BY AgedType, OverNow
<1>2. Over(Aged(f), 0 + 1, b) = Over(f, 0, b - 1)
  BY AgedOver
<1>3. 0 + 1 = 1
  OBVIOUS
<1>4. QED
  BY <1>1, <1>2, <1>3, AgedType

\* A purchase counts at the present instant and at no other.
Bought(f, amount) == [f EXCEPT ![0] = @ + amount]

LEMMA BoughtType ==
    ASSUME NEW f \in [Ages -> Nat], NEW amount \in Nat
    PROVE  /\ Bought(f, amount) \in [Ages -> Nat]
           /\ Bought(f, amount)[0] = f[0] + amount
           /\ \A d \in Ages : d # 0 => Bought(f, amount)[d] = f[d]
BY BurnerAssumption DEF Bought, Ages

LEMMA BoughtBefore ==
    ASSUME NEW f \in [Ages -> Nat], NEW amount \in Nat,
           NEW a \in Nat \ {0}, NEW b \in Int, b < Horizon
    PROVE  Over(Bought(f, amount), a, b) = Over(f, a, b)
<1> DEFINE g == Bought(f, amount)
           S == a..b
<1>1. S \subseteq Ages /\ 0 \notin S
  BY StretchType
<1> HIDE DEF S
<1>2. \A d \in S : g[d] = f[d]
  BY <1>1, BoughtType
<1> HIDE DEF g
<1>3. Total(g, S) = Total(f, S)
  BY <1>2, TotalAgree
<1>4. QED
  BY <1>3 DEF Over, g, S

LEMMA BoughtNow ==
    ASSUME NEW f \in [Ages -> Nat], NEW amount \in Nat, NEW b \in Nat, b < Horizon
    PROVE  Over(Bought(f, amount), 0, b) = Over(f, 0, b) + amount
<1>1. Over(Bought(f, amount), 1, b) = Over(f, 1, b)
  BY BoughtBefore
<1>2. Over(f, 0, b) = f[0] + Over(f, 1, b) /\ f[0] \in Nat /\ Over(f, 1, b) \in Nat
  BY OverNow
<1>3. Over(Bought(f, amount), 0, b) = Bought(f, amount)[0] + Over(Bought(f, amount), 1, b)
  BY BoughtType, OverNow
<1>4. QED
  BY <1>1, <1>2, <1>3, BoughtType

\* A purchase is within what is left of an open window, or opens one of its own.
LEMMA PurchaseWithinLimit ==
    ASSUME NEW f \in [Ages -> Nat], NEW cap \in Nat, NEW window \in 1..Horizon,
           NEW since \in 0..Horizon, NEW counted \in Nat, NEW amount \in Nat,
           WithinLimit(f, cap, window, since, counted),
           amount <= cap - (IF since >= window THEN 0 ELSE counted)
    PROVE  WithinLimit(Bought(f, amount), cap, window,
                       IF since >= window THEN 0 ELSE since,
                       IF since >= window THEN amount ELSE counted + amount)
<1> DEFINE g == Bought(f, amount)
           last == window - 1
<1>1. /\ Horizon \in Nat \ {0} /\ window \in Nat \ {0} /\ window <= Horizon /\ since \in Nat
      /\ last \in Nat /\ last < Horizon
  BY BurnerAssumption
<1> HIDE DEF last
<1>2. CASE since >= window
  <2>1. f[0] = 0 /\ Over(f, 0, last) <= cap
    BY <1>2 DEF WithinLimit, last
  <2>2. Over(g, 0, 0) = Over(f, 0, 0) + amount
    BY <1>1, BoughtNow
  <2>3. Over(f, 0, 0) = 0
    <3>1. Over(f, 0, 0) = f[0] + Over(f, 1, 0)
      BY <1>1, OverNow
    <3>2. Over(f, 1, 0) = 0
      <4>1. 1..0 = {}
        OBVIOUS
      <4>2. QED
        BY <4>1, TotalEmpty DEF Over
    <3>3. QED
      BY <2>1, <3>1, <3>2
  <2>4. Over(g, 1, last) = Over(f, 1, last)
    BY <1>1, BoughtBefore
  <2>5. Over(f, 1, last) <= Over(f, 0, last)
    BY <1>1, OverWithin
  <2>6. Over(f, 1, last) \in Nat /\ Over(f, 0, last) \in Nat
    BY <1>1, OverType
  <2>7. WithinLimit(g, cap, window, 0, amount)
    <3>1. ~(0 >= window) /\ 0 + 1 = 1
      BY <1>1
    <3>2. Over(g, 0, 0) <= amount /\ Over(g, 0, 0) <= cap
      BY <1>2, <2>2, <2>3
    <3>3. Over(g, 1, last) <= cap
      BY <2>1, <2>4, <2>5, <2>6
    <3> HIDE DEF g
    <3>4. QED
      BY <3>1, <3>2, <3>3 DEF WithinLimit, last
  <2>8. QED
    BY <1>2, <2>7
<1>3. CASE ~(since >= window)
  <2>1. /\ Over(f, 0, since) <= counted /\ Over(f, 0, since) <= cap
        /\ Over(f, since + 1, last) <= cap
        /\ since < Horizon
    BY <1>1, <1>3 DEF WithinLimit, last
  <2>2. Over(g, 0, since) = Over(f, 0, since) + amount /\ Over(f, 0, since) \in Nat
    BY <1>1, <2>1, BoughtNow, OverType
  <2>3. Over(g, since + 1, last) = Over(f, since + 1, last)
    <3>1. since + 1 \in Nat \ {0}
      BY <1>1
    <3>2. QED
      BY <1>1, <3>1, BoughtBefore
  <2>4. /\ Over(g, 0, since) <= counted + amount
        /\ Over(g, 0, since) <= cap
        /\ Over(g, since + 1, last) <= cap
    BY <1>3, <2>1, <2>2, <2>3
  <2> HIDE DEF g
  <2>5. WithinLimit(g, cap, window, since, counted + amount)
    BY <1>3, <2>4 DEF WithinLimit, last
  <2>6. QED
    BY <1>3, <2>5 DEF g
<1>4. QED
  BY <1>2, <1>3

\* Time takes instants out of sight and brings none in.
LEMMA TimeWithinLimit ==
    ASSUME NEW f \in [Ages -> Nat], NEW cap \in Nat, NEW window \in 1..Horizon,
           NEW since \in 0..Horizon, NEW counted \in Nat,
           WithinLimit(f, cap, window, since, counted)
    PROVE  WithinLimit(Aged(f), cap, window, Older(since), counted)
<1> DEFINE g == Aged(f)
           last == window - 1
           older == Older(since)
<1>1. /\ Horizon \in Nat \ {0} /\ window \in Nat \ {0} /\ window <= Horizon /\ since \in Nat
      /\ last \in Nat /\ last < Horizon
  BY BurnerAssumption
<1>2. /\ since >= window => older >= window
      /\ since < window => older = since + 1
      /\ older \in 0..Horizon
  BY <1>1 DEF Older
<1>3. g[0] = 0
  BY AgedType
<1> DEFINE prev == last - 1
<1>0. prev \in Int /\ prev <= last /\ prev < Horizon
  BY <1>1
<1>4. Over(g, 0, last) = Over(f, 0, prev)
  BY <1>1, AgedNow
<1> HIDE DEF prev
<1>5. /\ Over(f, 0, prev) <= Over(f, 0, last)
      /\ Over(f, 0, last) \in Nat /\ Over(f, 0, prev) \in Nat
  <2>1. Over(f, 0, last) \in Nat
    BY <1>1, OverType
  <2>2. Over(f, 0, prev) \in Nat
    BY <1>0, OverType
  <2>3. Over(f, 0, prev) <= Over(f, 0, last)
    <3>1. 0 \in Nat /\ 0 <= 0 /\ last \in Int
      BY <1>1
    <3>2. QED
      BY <1>0, <1>1, <3>1, OverWithin
  <2>4. QED
    BY <2>1, <2>2, <2>3
<1> HIDE DEF last, older, g
<1>6. CASE since >= window
  <2>1. Over(f, 0, last) <= cap
    BY <1>6 DEF WithinLimit, last
  <2>2. Over(g, 0, last) <= cap /\ ~(older < window)
    BY <1>1, <1>2, <1>4, <1>5, <1>6, <2>1
  <2>3. QED
    BY <1>3, <2>2 DEF WithinLimit, last, older, g
<1>7. CASE since < window
  <2>1. /\ Over(f, 0, since) <= counted /\ Over(f, 0, since) <= cap
        /\ Over(f, since + 1, last) <= cap
    BY <1>7 DEF WithinLimit, last
  <2>2. Over(f, 0, since) \in Nat
    BY <1>1, <1>7, OverType
  <2>3. CASE since + 1 >= window
    <3>1. last = since
      BY <1>1, <1>7, <2>3 DEF last
    <3>2. Over(g, 0, last) <= cap
      BY <1>4, <1>5, <2>1, <3>1
    <3>3. ~(older < window)
      BY <1>1, <1>2, <1>7, <2>3
    <3>4. QED
      BY <1>3, <3>2, <3>3 DEF WithinLimit, last, older, g
  <2>4. CASE since + 1 < window
    <3>1. since + 1 \in Nat /\ since + 1 < Horizon /\ (since + 1) - 1 = since
      BY <1>1, <2>4
    <3>2. Over(g, 0, since + 1) = Over(f, 0, since)
      <4>1. Over(g, 0, since + 1) = Over(f, 0, (since + 1) - 1)
        BY <3>1, AgedNow DEF g
      <4>2. QED
        BY <3>1, <4>1
    <3>3. Over(g, (since + 1) + 1, last) = Over(f, since + 1, prev)
      BY <1>1, <3>1, AgedOver DEF g, prev
    <3>4. /\ Over(f, since + 1, prev) <= Over(f, since + 1, last)
          /\ Over(f, since + 1, last) \in Nat /\ Over(f, since + 1, prev) \in Nat
      <4> DEFINE from == since + 1
      <4>1. from \in Nat /\ from <= from /\ last \in Int
        BY <1>1, <3>1
      <4> HIDE DEF from
      <4>2. Over(f, from, last) \in Nat
        BY <1>1, <4>1, OverType
      <4>3. Over(f, from, prev) \in Nat
        BY <1>0, <4>1, OverType
      <4>4. Over(f, from, prev) <= Over(f, from, last)
        BY <1>0, <1>1, <4>1, OverWithin
      <4>5. QED
        BY <4>2, <4>3, <4>4 DEF from
    <3>5. older = since + 1 /\ ~(since + 1 >= window)
      BY <1>1, <1>2, <1>7, <2>4
    <3>6. /\ Over(g, 0, older) <= counted /\ Over(g, 0, older) <= cap
          /\ Over(g, older + 1, last) <= cap
      BY <2>1, <2>2, <3>2, <3>3, <3>4, <3>5
    <3>7. QED
      BY <3>5, <3>6 DEF WithinLimit, last, older, g
  <2>5. QED
    BY <1>1, <2>3, <2>4
<1>8. QED
  BY <1>1, <1>6, <1>7

\* Nothing spent is within any limit.
LEMMA NothingWithinLimit ==
    ASSUME NEW cap \in Nat, NEW window \in 1..Horizon, NEW since \in 0..Horizon,
           NEW counted \in Nat
    PROVE  Nothing \in [Ages -> Nat] /\ WithinLimit(Nothing, cap, window, since, counted)
<1>1. /\ Nothing \in [Ages -> Nat] /\ Nothing[0] = 0
      /\ \A d \in Ages : Nothing[d] = 0
  BY BurnerAssumption DEF Nothing, Ages
<1>2. ASSUME NEW a \in Nat, NEW b \in Int, b < Horizon
      PROVE  Over(Nothing, a, b) = 0
  <2>1. \A d \in a..b : Nothing[d] = 0
    BY <1>1, <1>2, StretchType
  <2>2. QED
    BY <2>1, TotalNothing DEF Over
<1>3. since >= window => Over(Nothing, 0, window - 1) = 0
  <2>1. window - 1 \in Int /\ window - 1 < Horizon
    BY BurnerAssumption
  <2>2. QED
    BY <1>2, <2>1
<1>4. since < window => /\ Over(Nothing, 0, since) = 0
                        /\ Over(Nothing, since + 1, window - 1) = 0
  <2>1. SUFFICES ASSUME since < window
                 PROVE  /\ Over(Nothing, 0, since) = 0
                        /\ Over(Nothing, since + 1, window - 1) = 0
    OBVIOUS
  <2>2. /\ window - 1 \in Int /\ window - 1 < Horizon
        /\ since \in Int /\ since < Horizon /\ since + 1 \in Nat
    BY <2>1, BurnerAssumption
  <2>3. QED
    BY <1>2, <2>2
<1>5. QED
  BY <1>1, <1>3, <1>4 DEF WithinLimit

\* Every step keeps to the limit in force after it.
LEMMA CapStep == SplitInv /\ CapInv /\ [Next]_vars => CapInv'
<1> SUFFICES ASSUME SplitInv, CapInv, [Next]_vars
             PROVE  CapInv'
  OBVIOUS
<1>1. /\ limit.cap \in Nat /\ limit.window \in 1..Horizon /\ age \in 0..Horizon
      /\ spentInWindow \in Nat /\ recent \in [Ages -> Nat]
      /\ WithinLimit(recent, limit.cap, limit.window, age, spentInWindow)
  BY DEF CapInv, LimitTypes
<1>2. CASE UNCHANGED <<limit, age, spentInWindow, recent>>
  BY <1>1, <1>2 DEF CapInv, LimitTypes
<1>3. ASSUME NEW i \in Indexes, NEW amount \in Nat, BuyAndBurn(i, amount)
      PROVE  CapInv'
  <2>1. /\ amount <= limit.cap - (IF age >= limit.window THEN 0 ELSE spentInWindow)
        /\ spentInWindow' = IF age >= limit.window THEN amount ELSE spentInWindow + amount
        /\ age' = IF age >= limit.window THEN 0 ELSE age
        /\ limit' = limit
        /\ recent' = Bought(recent, amount)
    BY <1>3 DEF BuyAndBurn, CanBuy, ConsumeRateLimit, Remaining, WindowOver, config, Bought
  <2>2. WithinLimit(recent', limit.cap, limit.window, age', spentInWindow')
    BY <1>1, <2>1, PurchaseWithinLimit
  <2>3. recent' \in [Ages -> Nat] /\ age' \in 0..Horizon /\ spentInWindow' \in Nat
    BY <1>1, <2>1, BoughtType, BurnerAssumption
  <2>4. QED
    BY <1>1, <2>1, <2>2, <2>3 DEF CapInv, LimitTypes
<1>4. CASE Tick
  <2>1. /\ age' = Older(age) /\ recent' = Aged(recent)
        /\ UNCHANGED <<limit, spentInWindow>>
    BY <1>4 DEF Tick, config, Aged, Ages
  <2>2. WithinLimit(recent', limit.cap, limit.window, age', spentInWindow)
    BY <1>1, <2>1, TimeWithinLimit
  <2>3. recent' \in [Ages -> Nat] /\ age' \in 0..Horizon
    BY <1>1, <2>1, AgedType, BurnerAssumption DEF Older
  <2>4. QED
    BY <1>1, <2>1, <2>2, <2>3 DEF CapInv, LimitTypes
<1>5. ASSUME NEW new \in Limits, SetRateLimit(new)
      PROVE  CapInv'
  <2>1. limit' = new /\ recent' = Nothing /\ UNCHANGED <<age, spentInWindow>>
    BY <1>5 DEF SetRateLimit
  <2>2. new.cap \in Nat /\ new.window \in 1..Horizon
    BY BurnerAssumption
  <2>3. Nothing \in [Ages -> Nat]
        /\ WithinLimit(Nothing, new.cap, new.window, age, spentInWindow)
    BY <1>1, <2>2, NothingWithinLimit
  <2>4. QED
    BY <1>1, <2>1, <2>2, <2>3 DEF CapInv, LimitTypes
<1>6. ASSUME NEW i \in Indexes, RunBuybacks(i)
      PROVE  CapInv'
  <2>1. allocated[i] \in Nat
    BY DEF SplitInv, SplitTypes
  <2>2. BuyAndBurn(i, allocated[i]) \/ UNCHANGED <<config, money>>
    BY <1>6 DEF RunBuybacks
  <2>3. QED
    BY <1>2, <1>3, <2>1, <2>2 DEF config, money
<1>7. CASE \E i \in Indexes, amount \in 1..MaxFunded : SomebodyBuys(i, amount)
  BY <1>3, <1>7 DEF SomebodyBuys
<1>8. CASE \E i \in Indexes : PoolMoves(i) \/ PoolReturns(i)
  BY <1>2, <1>8 DEF PoolMoves, PoolReturns, config, money
<1>9. CASE StartBuybacks \/ UNCHANGED vars
  BY <1>2, <1>9 DEF StartBuybacks, vars, config, money
<1>10. CASE (\E value \in Deposits : Receive(value))
            \/ (\E i \in Indexes, t \in Targets : SetTarget(i, t))
  BY <1>2, <1>10 DEF Receive, SetTarget, config, money
<1>11. QED
  BY <1>4, <1>5, <1>6, <1>7, <1>8, <1>9, <1>10 DEF Next

LEMMA CapInit == Init => CapInv
<1> SUFFICES ASSUME Init
             PROVE  CapInv
  OBVIOUS
<1>1. /\ Horizon \in Nat \ {0} /\ Horizon \in 1..Horizon /\ Horizon \in 0..Horizon
      /\ Unlimited \in Nat
  BY BurnerAssumption
<1>2. limit.cap = Unlimited /\ limit.window = Horizon /\ age = Horizon
      /\ spentInWindow = 0 /\ recent = Nothing
  BY DEF Init
<1>3. Nothing \in [Ages -> Nat] /\ WithinLimit(Nothing, Unlimited, Horizon, Horizon, 0)
  BY <1>1, NothingWithinLimit
<1>4. QED
  BY <1>1, <1>2, <1>3 DEF CapInv, LimitTypes

\* A stretch as long as the window is what the open window has spent and what is still
\* in sight of the one before.
LEMMA CapHere == CapInv => SpendIsCapped
<1> SUFFICES ASSUME CapInv
             PROVE  SpendIsCapped
  OBVIOUS
<1> DEFINE cap == limit.cap
           last == limit.window - 1
<1>1. /\ cap \in Nat /\ limit.window \in 1..Horizon /\ age \in Nat
      /\ recent \in [Ages -> Nat]
      /\ WithinLimit(recent, cap, limit.window, age, spentInWindow)
  BY DEF CapInv, LimitTypes
<1>2. last \in Nat /\ last < Horizon
  BY <1>1, BurnerAssumption
<1>3. Over(recent, 0, last) <= 2 * cap
  <2>1. CASE age >= limit.window
    <3>1. Over(recent, 0, last) <= cap
      BY <1>1, <2>1 DEF WithinLimit
    <3>2. Over(recent, 0, last) \in Nat
      BY <1>1, <1>2, OverType
    <3>3. QED
      BY <1>1, <3>1, <3>2
  <2>2. CASE age < limit.window
    <3>1. Over(recent, 0, age) <= cap /\ Over(recent, age + 1, last) <= cap
      BY <1>1, <2>2 DEF WithinLimit
    <3>2. age <= last /\ age < Horizon /\ age + 1 \in Nat
      BY <1>1, <2>2, BurnerAssumption
    <3>3. Over(recent, 0, last) = Over(recent, 0, age) + Over(recent, age + 1, last)
      BY <1>1, <1>2, <3>2, OverCut
    <3>4. Over(recent, 0, age) \in Nat /\ Over(recent, age + 1, last) \in Nat
      BY <1>1, <1>2, <3>2, OverType
    <3>5. QED
      BY <1>1, <3>1, <3>3, <3>4
  <2>3. QED
    BY <1>1, <2>1, <2>2
<1>4. QED
  BY <1>3 DEF SpendIsCapped, Over

\* Whoever buys, whenever, and however the limit cuts a window: no stretch of rateWindow
\* since the limit was last set sees more than twice the cap spent.
THEOREM SpendAlwaysCapped == Spec => []SpendIsCapped
BY SplitAlwaysKept, CapInit, CapStep, CapHere, PTL DEF Spec
===============================================================================
