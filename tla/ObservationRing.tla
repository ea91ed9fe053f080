--------------------------- MODULE ObservationRing ---------------------------
(***************************************************************************)
(* The observations of a Uniswap v3 pool: a ring buffer of (timestamp,     *)
(* accumulated tick) pairs that swaps append to and that can be grown.     *)
(* A pool is a record; the operators are the pool's functions.             *)
(*                                                                         *)
(* Abstracted: liquidity and its accumulator; the contents of slots that   *)
(* were never written, which no function reads (grow only prepays them);   *)
(* the binary search, of which Surrounding says what it finds.             *)
(***************************************************************************)
EXTENDS Integers

CONSTANTS
    TimestampModulus,   \* 2^32: timestamps are stored in 32 bits
    MaxCardinality      \* the number of slots the array has

ASSUME RingAssumption ==
    /\ TimestampModulus \in Nat \ {0}
    /\ MaxCardinality \in Nat \ {0}

Slots == 0 .. MaxCardinality - 1

Stamp(time) == time % TimestampModulus

\* seconds from a stored stamp to now: orders stamps across the wrap
Age(time, stamp) == (Stamp(time) - stamp) % TimestampModulus

Observation == [blockTimestamp : 0 .. TimestampModulus - 1,
                tickCumulative : Int,
                initialized : BOOLEAN]

Unwritten == [blockTimestamp |-> 0, tickCumulative |-> 0, initialized |-> FALSE]

NewPool(time, tick) ==
    [tick |-> tick, index |-> 0, cardinality |-> 1, cardinalityNext |-> 1,
     observations |-> [i \in Slots |->
        IF i = 0 THEN [Unwritten EXCEPT !.blockTimestamp = Stamp(time),
                                        !.initialized = TRUE]
                 ELSE Unwritten]]

\* an observation carried forward at a constant tick
Transform(last, stamp, tick) ==
    [blockTimestamp |-> stamp,
     tickCumulative |-> last.tickCumulative
                          + tick * ((stamp - last.blockTimestamp) % TimestampModulus),
     initialized |-> TRUE]

Newest(pool) == pool.observations[pool.index]

NextIndex(pool, cardinality) == (pool.index + 1) % cardinality

OldestSlot(pool) == pool.observations[NextIndex(pool, pool.cardinality)]

Oldest(pool) ==
    LET next == pool.observations[NextIndex(pool, pool.cardinality)]
    IN  IF next.initialized THEN next ELSE pool.observations[0]

GrowAtOnce(pool) == pool.cardinalityNext

\* the ring takes up the slots grown for it when the index is at its end
CardinalityOnWrite(pool) ==
    IF pool.cardinalityNext > pool.cardinality /\ pool.index = pool.cardinality - 1
    THEN pool.cardinalityNext
    ELSE pool.cardinality

\* an observation is written at most once a second, with the tick before the swap
Write(pool, time) ==
    LET cardinality == CardinalityOnWrite(pool)
        index == NextIndex(pool, cardinality)
    IN  IF Newest(pool).blockTimestamp = Stamp(time)
        THEN pool
        ELSE [pool EXCEPT
                !.cardinality = cardinality,
                !.index = index,
                !.observations[index] = Transform(Newest(pool), Stamp(time), pool.tick)]

SwapToTick(pool, time, tick) == [Write(pool, time) EXCEPT !.tick = tick]

Grow(pool, next) ==
    [pool EXCEPT !.cardinalityNext = IF next > @ THEN next ELSE @]

(***************************************************************************)
(* The neighbouring observations around a target older than the newest     *)
(* one. Two pairs when the target is an observation itself: they give the  *)
(* same value.                                                             *)
(***************************************************************************)
Surrounding(pool, time, target) ==
    {i \in 0 .. pool.cardinality - 1 :
        LET before == pool.observations[i]
            after == pool.observations[(i + 1) % pool.cardinality]
        IN  /\ i # pool.index
            /\ before.initialized /\ after.initialized
            /\ Age(time, before.blockTimestamp) >= Age(time, target)
            /\ Age(time, target) >= Age(time, after.blockTimestamp)}

\* the quotient is exact: between neighbours the tick did not change
Interpolated(before, after, target) ==
    before.tickCumulative
      + ((after.tickCumulative - before.tickCumulative)
            \div ((after.blockTimestamp - before.blockTimestamp) % TimestampModulus))
        * ((target - before.blockTimestamp) % TimestampModulus)

(***************************************************************************)
(* The tick accumulator secondsAgo before now: a set with the answer, or   *)
(* the empty set where the pool reverts.                                   *)
(***************************************************************************)
ObserveSingle(pool, time, secondsAgo) ==
    LET target == (Stamp(time) - secondsAgo) % TimestampModulus
    IN  IF Age(time, Newest(pool).blockTimestamp) >= Age(time, target)
        THEN {Transform(Newest(pool), target, pool.tick).tickCumulative}
        ELSE IF Age(time, Oldest(pool).blockTimestamp) < Age(time, target)
        THEN {}
        ELSE {Interpolated(pool.observations[i],
                           pool.observations[(i + 1) % pool.cardinality], target) :
                i \in Surrounding(pool, time, target)}
=============================================================================
