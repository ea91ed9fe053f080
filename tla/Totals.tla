-------------------------------- MODULE Totals --------------------------------
(***************************************************************************)
(* Sums of amounts of ETH.  An amount f[s] is a heap of f[s] distinct      *)
(* coins <<s, 1>>, ..., <<s, f[s]>>, and a total is the number of coins in *)
(* all the heaps.  The count is the usual sum; written as a cardinality it *)
(* needs no recursion, so the theorems of FiniteSetTheorems apply to it.   *)
(***************************************************************************)
EXTENDS Naturals, FiniteSets

Coins(f, S) == UNION {{s} \X (1..f[s]) : s \in S}

Total(f, S) == Cardinality(Coins(f, S))
=============================================================================
