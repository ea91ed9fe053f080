------------------------------ MODULE MCOracle ------------------------------
(* Timestamps of three bits that wrap during the run, rings of one to three *)
(* slots, ticks of both signs, and a tick whose quote is zero.              *)
EXTENDS PonsOracle

\* PONS is token1 of its pool: the quote falls as the tick rises
QuoteFalls == [tick \in -2 .. 1 |-> 1 - tick]
TwoTicks == {-2, 1}
=============================================================================
