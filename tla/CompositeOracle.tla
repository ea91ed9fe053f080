--------------------------- MODULE CompositeOracle ---------------------------
(***************************************************************************)
(* The adapter that prices an instant from several pools at once: every    *)
(* source must answer, the answers must lie within MaxDivergence ticks of  *)
(* each other, and the price is the quote at their median.                 *)
(*                                                                         *)
(* now         the block timestamp                                         *)
(* pools       the Uniswap pool of each source                             *)
(* areas       history: each pool's true accumulated tick at every second  *)
(* observedAt  history: when each pool's newest observation was written    *)
(*                                                                         *)
(* Growth of the rings is left to PonsOracle: pools start fully grown.     *)
(***************************************************************************)
EXTENDS ObservationRing, TickPriceMath, FiniteSetsExt

CONSTANTS
    Genesis, MaxTime, Ticks, Quote, MAX_TWAP_WINDOW,
    SourceCount,
    BaseIsToken0,       \* whether the base token is token0 of each source's pool
    MaxDivergence       \* the widest spread accepted; a tick is a basis point

Sources == 1 .. SourceCount

ASSUME CompositeAssumption ==
    /\ Genesis \in Nat /\ MaxTime \in Nat
    /\ MaxTime - Genesis < TimestampModulus
    /\ Ticks \subseteq Int
    /\ MAX_TWAP_WINDOW \in Nat \ {0}
    /\ SourceCount \in Nat \ {0}
    /\ BaseIsToken0 \in [Sources -> BOOLEAN]
    /\ MaxDivergence \in Nat \ {0}

\* every tick between two that a source can report has a quote
ASSUME OrientedQuoteAssumption ==
    LET oriented == Ticks \union {-tick : tick \in Ticks}
    IN  \A low \in oriented, high \in oriented : low .. high \subseteq DOMAIN Quote

VARIABLES now, pools, areas, observedAt

vars == <<now, pools, areas, observedAt>>

-----------------------------------------------------------------------------
(* The adapter *)

Unnormalised(s, mean) == mean

\* a rising tick is a rising base token, whichever side of the pair it is on
Normalised(s, mean) == IF BaseIsToken0[s] THEN mean ELSE -mean

EarliestOf(p) == Oldest(p).blockTimestamp

\* a source's mean tick, in a set that is empty when the source cannot answer
SourceTick(s, target, window) ==
    LET p == pools[s]
        windowStart == target - window
    IN  IF /\ Newest(p).blockTimestamp >= target
           /\ windowStart >= EarliestOf(p)
           /\ now - windowStart < TimestampModulus
        THEN {Normalised(s, MeanTick(end - start, window)) :
                start \in ObserveSingle(p, now, now - windowStart),
                end \in ObserveSingle(p, now, now - target)}
        ELSE {}

WellFormed(target, window) ==
    /\ window # 0
    /\ window <= MAX_TWAP_WINDOW
    /\ target <= now
    /\ target >= window

Answering(target, window) == {s \in Sources : SourceTick(s, target, window) # {}}

SourceTicks(target, window) ==
    [s \in Answering(target, window) |->
        CHOOSE tick \in SourceTick(s, target, window) : TRUE]

Spread(ticks) ==
    LET values == {ticks[s] : s \in DOMAIN ticks} IN Max(values) - Min(values)

\* what stands in place k once the ticks are sorted
Ranked(ticks, k) ==
    CHOOSE v \in {ticks[s] : s \in DOMAIN ticks} :
        /\ Cardinality({s \in DOMAIN ticks : ticks[s] < v}) < k
        /\ k <= Cardinality({s \in DOMAIN ticks : ticks[s] <= v})

Lower(ticks) == Ranked(ticks, (Cardinality(DOMAIN ticks) + 1) \div 2)
Upper(ticks) == Ranked(ticks, Cardinality(DOMAIN ticks) \div 2 + 1)

\* the middle one, or the floor of the mean of the middle two
Median(ticks) == (Lower(ticks) + Upper(ticks)) \div 2

CanQuoteDiverged(target, window) ==
    /\ WellFormed(target, window)
    /\ Answering(target, window) = Sources

CanQuote(target, window) ==
    /\ WellFormed(target, window)
    /\ Answering(target, window) = Sources
    /\ Spread(SourceTicks(target, window)) <= MaxDivergence

PriceDiverged(target, window) ==
    IF WellFormed(target, window) /\ Answering(target, window) = Sources
    THEN {Quote[Median(SourceTicks(target, window))]} \ {0}
    ELSE {}

PriceOfAnswering(target, window) ==
    IF /\ WellFormed(target, window)
       /\ Answering(target, window) # {}
       /\ Spread(SourceTicks(target, window)) <= MaxDivergence
    THEN {Quote[Median(SourceTicks(target, window))]} \ {0}
    ELSE {}

GetPriceAt(target, window) ==
    IF /\ WellFormed(target, window)
       /\ Answering(target, window) = Sources
       /\ Spread(SourceTicks(target, window)) <= MaxDivergence
    THEN {Quote[Median(SourceTicks(target, window))]} \ {0}
    ELSE {}

-----------------------------------------------------------------------------
(* The pools' life *)

Init ==
    /\ now = Genesis
    /\ pools \in [Sources -> {Grow(NewPool(Genesis, tick), MaxCardinality) : tick \in Ticks}]
    /\ areas = [s \in Sources |-> [t \in {Genesis} |-> 0]]
    /\ observedAt = [s \in Sources |-> Genesis]

Tick ==
    /\ now < MaxTime
    /\ now' = now + 1
    /\ areas' = [s \in Sources |-> [t \in Genesis .. now + 1 |->
                    IF t <= now THEN areas[s][t] ELSE areas[s][now] + pools[s].tick]]
    /\ UNCHANGED <<pools, observedAt>>

Swap(s, tick) ==
    /\ tick # pools[s].tick
    /\ pools' = [pools EXCEPT ![s] = SwapToTick(@, now, tick)]
    /\ observedAt' = [observedAt EXCEPT ![s] = now]
    /\ UNCHANGED <<now, areas>>

Next ==
    \/ Tick
    \/ \E s \in Sources, tick \in Ticks : Swap(s, tick)

Spec == Init /\ [][Next]_vars

-----------------------------------------------------------------------------
(* Properties *)

Targets == 0 .. MaxTime
Windows == 1 .. MAX_TWAP_WINDOW

\* a source's true mean tick, oriented so that it rises with the base token
TrueMean(s, target, window) ==
    LET mean == (areas[s][target] - areas[s][target - window]) \div window
    IN  IF BaseIsToken0[s] THEN mean ELSE -mean

\* A price is never further than MaxDivergence from what any of the pools
\* really traded at over the window: no pool is left out because it has not
\* sealed or has forgotten, and none is read in the other's orientation.
EverySourceAgrees ==
    \A target \in Targets, window \in Windows : \A price \in GetPriceAt(target, window) :
        \E tick \in DOMAIN Quote :
            /\ price = Quote[tick]
            /\ \A s \in Sources :
                 /\ TrueMean(s, target, window) - tick <= MaxDivergence
                 /\ tick - TrueMean(s, target, window) <= MaxDivergence

\* canQuote says yes exactly where getPriceAt answers, but for a median whose
\* quote is zero.
QuotableIsPriced ==
    \A target \in Targets, window \in Windows :
        /\ GetPriceAt(target, window) # {} => CanQuote(target, window)
        /\ CanQuote(target, window) /\ GetPriceAt(target, window) = {} =>
              Quote[Median([s \in Sources |-> TrueMean(s, target, window)])] = 0

Prices == {Quote[tick] : tick \in DOMAIN Quote} \ {0}

AnswerNow(target, window) ==
    IF GetPriceAt(target, window) # {}
    THEN [status |-> "priced", price |-> CHOOSE p \in GetPriceAt(target, window) : TRUE]
    ELSE [status |-> IF \A s \in Sources : target <= observedAt[s]
                     THEN "lost" ELSE "pending",
          price |-> 0]

Feed == INSTANCE QuoteFeed WITH
    Instants <- Targets, clock <- now,
    answer <- [q \in Targets \X Windows |-> AnswerNow(q[1], q[2])]

\* Once every source has sealed an instant the composite's answer, or its
\* refusal because the sources diverge, is final; an answer is lost for good
\* with the first source that forgets it.
ImplementsFeed == Feed!Spec
=============================================================================
