---------------------------- MODULE TickPriceMath ----------------------------
(* The mean tick over a window, rounded towards negative infinity. *)
EXTENDS Integers

\* Solidity divides towards zero
TruncatedQuotient(a, b) == IF a >= 0 THEN a \div b ELSE -((-a) \div b)

MeanTick(delta, window) ==
    LET mean == TruncatedQuotient(delta, window)
    IN  IF delta < 0 /\ delta % window # 0 THEN mean - 1 ELSE mean
=============================================================================
