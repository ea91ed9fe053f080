------------------------------ MODULE MCKeeper ------------------------------
(* Two replicas and two overlapping rounds, the second of which is the last told apart. *)
EXTENDS Keeper

CONSTANTS k1, k2
MCKeepers == {k1, k2}
=============================================================================
