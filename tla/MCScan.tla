-------------------------------- MODULE MCScan --------------------------------
(***************************************************************************)
(* The scan window of executeRound and pendingWork: five rounds, an        *)
(* interval of one second or three and a tolerance of none or two, each    *)
(* changed while rounds are open.  The window then spans three to five     *)
(* rounds back.  One price, nobody stakes, so the limit of the pools,      *)
(* which may be set as well, is idle.                                      *)
(***************************************************************************)
EXTENDS PonsPrediction

CONSTANTS o1, b1

MCOracles == {o1}
MCBurners == {b1}

MCPrices == {1}
MCStakes == [e \in 1..MaxEpoch |-> {}]
MCIntervals == {1, 3}
MCWindows == {1}
MCBuffers == {0, 2}

MCDeployment ==
    [oracle |-> o1, burner |-> b1, interval |-> 1, twapWindow |-> 1,
     bufferSeconds |-> 0, burnFeeBps |-> 1, minimumBet |-> 1,
     maximumBet |-> 0, maximumRoundPool |-> 0]

MCProposals ==
    [oracle |-> {}, burner |-> {}, interval |-> {1, 3}, twapWindow |-> {},
     bufferSeconds |-> {2}, burnFeeBps |-> {}, minimumBet |-> {},
     maximumBet |-> {}, maximumRoundPool |-> {1}, paused |-> {}]
=============================================================================
