------------------------------ MODULE MCSettings ------------------------------
(***************************************************************************)
(* Administration: settings that have a second value, administrator calls  *)
(* that come at any time and in any order, fees and oracles through        *)
(* their timelock, before, during and after a round with two entrants: a   *)
(* fee is lowered or raised while the round that pinned another one takes  *)
(* entries.  The longer tolerance does not fit in the scan window.         *)
(***************************************************************************)
EXTENDS Announcements, ClientViews, TLC

CONSTANTS a1, a2, o1, o2, b1

MCAccounts == {a1, a2}
MCOracles == {o1, o2}
MCBurners == {b1}

Symmetry == Permutations(Accounts)

MCStakes == <<{1}>>
MCIntervals == {2}
MCWindows == {1, 2}
MCBuffers == {0, 2, 4}

MCDeployment ==
    [oracle |-> o1, burner |-> b1, interval |-> 2, twapWindow |-> 1,
     bufferSeconds |-> 0, burnFeeBps |-> 1, minimumBet |-> 1,
     maximumBet |-> 0, maximumRoundPool |-> 0]

MCProposals ==
    [oracle |-> {o2}, burner |-> {}, interval |-> {}, twapWindow |-> {2},
     bufferSeconds |-> {2, 4}, burnFeeBps |-> {0, 2}, minimumBet |-> {2},
     maximumBet |-> {1}, maximumRoundPool |-> {}, paused |-> {}]
=============================================================================
