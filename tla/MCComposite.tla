----------------------------- MODULE MCComposite -----------------------------
(* Three pools that hold the pair in either order and agree within one tick or *)
(* not at all.                                                                 *)
EXTENDS CompositeOracle

Orders == <<TRUE, FALSE, FALSE>>
QuoteRises == [tick \in -2 .. 2 |-> tick + 2]
TwoTicks == {-2, 1}
=============================================================================
