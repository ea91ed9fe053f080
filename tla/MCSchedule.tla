------------------------------ MODULE MCSchedule ------------------------------
(***************************************************************************)
(* The schedule: three overlapping rounds that may be locked, settled,     *)
(* voided or left behind in any order.  The first oracle is honest: it may *)
(* answer late or lose an answer.  The one it may be exchanged for answers *)
(* anything at any time.  The interval changes too.  Nobody stakes.        *)
(***************************************************************************)
EXTENDS PonsPrediction

CONSTANTS o1, o2, b1

MCOracles == {o1, o2}
MCBurners == {b1}

MCPrices == {1, 2}
MCStakes == [e \in 1..MaxEpoch |-> {}]
MCIntervals == {1, 2}
MCWindows == {1}
MCBuffers == {0}

MCDeployment ==
    [oracle |-> o1, burner |-> b1, interval |-> 1, twapWindow |-> 1,
     bufferSeconds |-> 0, burnFeeBps |-> 1, minimumBet |-> 1,
     maximumBet |-> 0, maximumRoundPool |-> 0]

MCProposals ==
    [oracle |-> {o2}, burner |-> {}, interval |-> {2}, twapWindow |-> {},
     bufferSeconds |-> {}, burnFeeBps |-> {}, minimumBet |-> {},
     maximumBet |-> {}, maximumRoundPool |-> {}, paused |-> {}]
==============================================================================
