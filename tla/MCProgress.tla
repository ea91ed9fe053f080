------------------------------ MODULE MCProgress ------------------------------
(***************************************************************************)
(* Progress: two overlapping rounds two accounts may enter, a pause at any *)
(* time and for good, and an oracle that may answer late, never, or lose   *)
(* an answer.  The stake that is placed leaves room for one more wei in    *)
(* the pool; what the entry form may be given also meets every limit.      *)
(***************************************************************************)
EXTENDS WebPages

CONSTANTS a1, a2, o1, b1

MCAccounts == {a1, a2}
MCOracles == {o1}
MCBurners == {b1}

MCPrices == {1, 2}
MCStakes == <<{2}, {2}>>
MCIntervals == {1}
MCWindows == {1}
MCBuffers == {0}

MCDeployment ==
    [oracle |-> o1, burner |-> b1, interval |-> 1, twapWindow |-> 1,
     bufferSeconds |-> 0, burnFeeBps |-> 1, minimumBet |-> 2,
     maximumBet |-> 4, maximumRoundPool |-> 3]

MCProposals ==
    [oracle |-> {}, burner |-> {}, interval |-> {}, twapWindow |-> {},
     bufferSeconds |-> {}, burnFeeBps |-> {}, minimumBet |-> {},
     maximumBet |-> {}, maximumRoundPool |-> {}, paused |-> BOOLEAN]
=============================================================================
