----------------------------- MODULE PonsOracle -----------------------------
(***************************************************************************)
(* The single-pool price adapter over a pool that trades, ages and grows.  *)
(*                                                                         *)
(* now   the block timestamp                                               *)
(* pool  the Uniswap pool the adapter reads (see ObservationRing)          *)
(* area  history: the true accumulated tick at every second so far         *)
(* observedAt  history: when the newest observation was written            *)
(*                                                                         *)
(* The adapter keeps no state. A price is the quote at a mean tick, one of *)
(* the numbers Quote assigns to ticks; an answer is the set of the price,  *)
(* or the empty set where the call reverts.                                *)
(***************************************************************************)
EXTENDS ObservationRing, TickPriceMath

CONSTANTS
    Genesis,            \* when the pool was initialised
    MaxTime,            \* bound: the clock stops here
    Ticks,              \* ticks the pool trades at
    Quote,              \* the price of one base token at a tick, 0 when too small
    MAX_TWAP_WINDOW

VARIABLES now, pool, area, observedAt

vars == <<now, pool, area, observedAt>>

ASSUME OracleAssumption ==
    /\ Genesis \in Nat
    /\ MaxTime \in Nat
    /\ MaxTime - Genesis < TimestampModulus   \* 2^32 s: the pool is not 136 years old
    /\ Ticks \subseteq Int
    /\ MAX_TWAP_WINDOW \in Nat \ {0}

\* every mean of ticks the pool trades at has a quote
ASSUME QuoteAssumption ==
    \A low \in Ticks, high \in Ticks : low .. high \subseteq DOMAIN Quote

-----------------------------------------------------------------------------
(* The adapter *)

NewestObservationTimestamp(p) == Newest(p).blockTimestamp

EarliestAvailableTimestamp(p) == Oldest(p).blockTimestamp

WellFormed(target, window) ==
    /\ window # 0
    /\ window <= MAX_TWAP_WINDOW
    /\ target <= now
    /\ target >= window

Sealed(p, target) == NewestObservationTimestamp(p) >= target

\* stamps do not say which 2^32 seconds they are from: the age check does
RetainedAtAnyAge(p, windowStart) ==
    windowStart >= EarliestAvailableTimestamp(p)

Retained(p, windowStart) ==
    /\ windowStart >= EarliestAvailableTimestamp(p)
    /\ now - windowStart < TimestampModulus

CanQuote(target, window) ==
    /\ WellFormed(target, window)
    /\ Sealed(pool, target)
    /\ Retained(pool, target - window)

\* the price over the window that ends at the target, as read from pool p
PriceUnsealed(p, target, window) ==
    IF WellFormed(target, window) /\ Retained(p, target - window)
    THEN {Quote[MeanTick(end - start, window)] :
            start \in ObserveSingle(p, now, now - (target - window)),
            end \in ObserveSingle(p, now, now - target)} \ {0}
    ELSE {}

PriceOfLatestWindow(p, target, window) ==
    IF WellFormed(target, window) /\ Sealed(p, target) /\ Retained(p, now - window)
    THEN {Quote[MeanTick(end - start, window)] :
            start \in ObserveSingle(p, now, window),
            end \in ObserveSingle(p, now, 0)} \ {0}
    ELSE {}

PriceFrom(p, target, window) ==
    IF /\ WellFormed(target, window)
       /\ Sealed(p, target)
       /\ Retained(p, target - window)
    THEN {Quote[MeanTick(end - start, window)] :
            start \in ObserveSingle(p, now, now - (target - window)),
            end \in ObserveSingle(p, now, now - target)} \ {0}
    ELSE {}

GetPriceAt(target, window) == PriceFrom(pool, target, window)

-----------------------------------------------------------------------------
(* The pool's life: time passes, a swap moves the tick, anyone grows the ring *)

Init ==
    /\ now = Genesis
    /\ \E tick \in Ticks : pool = NewPool(Genesis, tick)
    /\ area = [t \in {Genesis} |-> 0]
    /\ observedAt = Genesis

Tick ==
    /\ now < MaxTime
    /\ now' = now + 1
    /\ area' = [t \in Genesis .. now + 1 |->
                  IF t <= now THEN area[t] ELSE area[now] + pool.tick]
    /\ UNCHANGED <<pool, observedAt>>

Swap(tick) ==
    /\ tick # pool.tick
    /\ pool' = SwapToTick(pool, now, tick)
    /\ observedAt' = now
    /\ UNCHANGED <<now, area>>

IncreasePoolCardinality(next) ==
    /\ pool' = Grow(pool, next)
    /\ UNCHANGED <<now, area, observedAt>>

Next ==
    \/ Tick
    \/ \E tick \in Ticks : Swap(tick)
    \/ \E next \in 1 .. MaxCardinality : IncreasePoolCardinality(next)

Spec == Init /\ [][Next]_vars

-----------------------------------------------------------------------------
(* Properties *)

Targets == 0 .. MaxTime
Windows == 0 .. MAX_TWAP_WINDOW + 1

\* the mean of the ticks that were really traded at, rounded down
TrueMean(target, window) == (area[target] - area[target - window]) \div window

\* A price that the adapter gives is the quote at the true mean tick over the
\* window, whenever it is asked for: waiting, later swaps, growth of the ring,
\* overwritten slots and the wrap of 32-bit timestamps make no difference.
PricedIsTrue ==
    \A target \in Targets, window \in Windows : \A price \in GetPriceAt(target, window) :
        /\ target - window >= Genesis
        /\ price = Quote[TrueMean(target, window)]

\* No answer depends on the tick the pool trades at now, which whoever sends
\* the settling transaction can move within it.
LiveTickIsIgnored ==
    \A target \in Targets, window \in Windows, tick \in Ticks :
        PriceFrom([pool EXCEPT !.tick = tick], target, window) = GetPriceAt(target, window)

\* canQuote says yes exactly where getPriceAt answers, but for the instants
\* whose mean tick has the quote zero: the pool never disagrees with the
\* adapter about what it still holds, before the ring has filled, after it has
\* wrapped and while it grows.
QuotableIsPriced ==
    \A target \in Targets, window \in Windows :
        /\ GetPriceAt(target, window) # {} => CanQuote(target, window)
        /\ CanQuote(target, window) /\ GetPriceAt(target, window) = {} =>
              /\ target - window >= Genesis
              /\ target <= observedAt
              /\ Quote[TrueMean(target, window)] = 0

\* A price is lost only when an observation takes the slot of the oldest one in
\* a ring that is full: never by growing the ring, by a swap into a new slot or
\* by time passing (until the 32-bit timestamps run out).
LostOnlyWhenFull ==
    [][\A target \in Targets, window \in Windows :
         GetPriceAt(target, window) # {} /\ GetPriceAt(target, window)' = {} =>
            \/ now' >= TimestampModulus
            \/ /\ pool'.cardinality = pool.cardinality
               /\ pool'.index # pool.index
               /\ \A i \in 0 .. pool.cardinality - 1 : pool.observations[i].initialized]_vars

-----------------------------------------------------------------------------
(* The adapter implements the feed the market relies on *)

Prices == {Quote[tick] : tick \in DOMAIN Quote} \ {0}

AnswerNow(target, window) ==
    IF GetPriceAt(target, window) # {}
    THEN [status |-> "priced", price |-> CHOOSE p \in GetPriceAt(target, window) : TRUE]
    ELSE [status |-> IF target <= observedAt THEN "lost" ELSE "pending", price |-> 0]

Feed == INSTANCE QuoteFeed WITH
    Instants <- Targets, clock <- now,
    answer <- [q \in Targets \X Windows |-> AnswerNow(q[1], q[2])]

\* Once sealed an answer is final: it stays the same until its history is
\* overwritten, and is then gone for good.
ImplementsFeed == Feed!Spec
=============================================================================
