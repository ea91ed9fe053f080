------------------------------ MODULE MCSender ------------------------------
(* lock: lockRound, whose revert is benign; buy: buyAndBurn, whose revert is not. *)
EXTENDS TxSender

CONSTANTS lock, buy
MCActions == {lock, buy}
MCBenign == {lock}
=============================================================================
