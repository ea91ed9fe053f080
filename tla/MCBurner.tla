------------------------------ MODULE MCBurner ------------------------------
(* Shares of 3 to 1; deposits that do and do not divide; limits that cut a window, *)
(* lower the cap below what the window has spent, and fall short of one deposit;   *)
(* a pool that takes less than two deposits bring, and one that takes all.         *)
EXTENDS BuybackBurner

MCDeposits == {1, 3}
MCLimits == {[cap |-> 1, window |-> 2], [cap |-> 2, window |-> 1], [cap |-> 3, window |-> 2]}
MCDepth == [i \in Indexes |-> IF i = 0 THEN 2 ELSE 6]
MCRooms == {0, 4}
=============================================================================
