------------------------------ MODULE MCPayouts ------------------------------
(***************************************************************************)
(* The market's money on a small instance: one round, three entrants,      *)
(* every outcome, cancellation, eviction and order of claims, under a fee  *)
(* of 25% that may be abolished while the round that pinned it is open or  *)
(* being paid.  Two winners against one loser is the least with flooring:  *)
(* stakes 1, 1 against 2 leave one wei.                                    *)
(***************************************************************************)
EXTENDS ClientViews, TLC

CONSTANTS a1, a2, a3, o1, b1, b2

MCAccounts == {a1, a2, a3}
MCOracles == {o1}
MCBurners == {b1, b2}
Symmetry == Permutations(Accounts)

MCPrices == {1, 2}
MCStakes == <<{1, 2}>>
MCIntervals == {1}
MCWindows == {1}
MCBuffers == {0}

MCDeployment ==
    [oracle |-> o1, burner |-> b1, interval |-> 1, twapWindow |-> 1,
     bufferSeconds |-> 0, burnFeeBps |-> 1, minimumBet |-> 1,
     maximumBet |-> 0, maximumRoundPool |-> 0]

MCProposals ==
    [oracle |-> {}, burner |-> {b2}, interval |-> {}, twapWindow |-> {},
     bufferSeconds |-> {}, burnFeeBps |-> {0}, minimumBet |-> {},
     maximumBet |-> {}, maximumRoundPool |-> {}, paused |-> {}]
=============================================================================
