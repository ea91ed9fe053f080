------------------------------ MODULE MCIndexer ------------------------------
(* One round's life in two versions that fork after its second block, a     *)
(* third that forks in the first, and another instance of the chain.        *)
EXTENDS ReadApi

CONSTANTS alice, bob
MCAccounts == {alice, bob}

\* amounts are small numbers; a field its event does not have is 0 or None
Log(name, tx, index, epoch, account, amount, outcome) ==
    [name |-> name, tx |-> tx, index |-> index, epoch |-> epoch, account |-> account,
     amount |-> amount, outcome |-> outcome, block |-> 0]

Started(tx, i, e)        == Log("RoundStarted", tx, i, e, None, 0, None)
Bull(tx, e, a, x)        == Log("BetBull", tx, 0, e, a, x, None)
Bear(tx, e, a, x)        == Log("BetBear", tx, 0, e, a, x, None)
Locked(tx, i, e)         == Log("RoundLocked", tx, i, e, None, 0, None)
Settled(tx, i, e, o, f)  == Log("RoundSettled", tx, i, e, None, f, o)
Cancelled(tx, e)         == Log("RoundCancelled", tx, 0, e, None, 0, None)
Claimed(tx, e, a, x)     == Log("Claim", tx, 0, e, a, x, None)
Refunded(tx, e, a, x)    == Log("Refund", tx, 0, e, a, x, None)
Swept(tx, x)             == Log("BurnSwept", tx, 0, None, None, x, None)
Bought(tx, x)            == Log("BoughtAndBurned", tx, 0, None, None, x, None)
FeeSet(tx)               == Log("FeeUpdated", tx, 0, None, None, 0, None)

\* m: alice wins, and bob's entry of the second round comes late
\* f: the same transactions, some a block later, one never; the round is cancelled
\* d: a fork below the first bet;  r: a devnet recreated with the same addresses
MCContents ==
    [t1 |-> <<Started("genesis", 0, 1)>>,
     t2 |-> <<Bull("a1", 1, alice, 2)>>,
     m3 |-> <<Bear("b1", 1, bob, 3), FeeSet("f")>>,
     m4 |-> <<Locked("x1", 0, 1), Started("x1", 1, 2)>>,
     m5 |-> <<Bull("b2", 2, bob, 1)>>,
     m6 |-> <<Locked("x2", 0, 2), Settled("x2", 1, 1, "BULL", 1), Started("x2", 2, 3)>>,
     m7 |-> <<Claimed("c1", 1, alice, 4), Swept("s", 1)>>,
     m8 |-> <<Bought("y", 1)>>,
     f3 |-> <<FeeSet("f")>>,
     f4 |-> <<Bear("b1", 1, bob, 3)>>,
     f5 |-> <<Locked("x1", 0, 1), Started("x1", 1, 2)>>,
     f6 |-> <<Cancelled("k", 1), Bear("b3", 2, bob, 1)>>,
     f7 |-> <<Refunded("r1", 1, alice, 2)>>,
     f8 |-> <<>>,
     d2 |-> <<Bear("a2", 1, alice, 2)>>,
     d3 |-> <<Locked("x1", 0, 1), Started("x1", 1, 2)>>,
     d4 |-> <<>>,
     r1 |-> <<Started("genesis", 0, 1)>>,
     r2 |-> <<Bear("z", 1, bob, 1)>>,
     r3 |-> <<>>]

MCHistories ==
    {<<"t1", "t2", "m3", "m4", "m5", "m6", "m7", "m8">>,
     <<"t1", "t2", "f3", "f4", "f5", "f6", "f7", "f8">>,
     <<"t1", "d2", "d3", "d4", "d4", "d4", "d4", "d4">>,
     <<"r1", "r2", "r3", "r3">>}

MCOtherTables ==
    [EmptyTables EXCEPT
        !.events = {[block |-> 1, tx |-> "other", index |-> 0, name |-> "BoughtAndBurned",
                     hash |-> <<>>]},
        !.bets = {[epoch |-> 1, account |-> bob, amount |-> 9, position |-> "BULL",
                   tx |-> "other", index |-> 0, block |-> 1]},
        !.rounds = {[NewRound(1) EXCEPT !.bull = 9]},
        !.burns = {[tx |-> "other", index |-> 0, amount |-> 9, block |-> 1]},
        !.market = OtherMarket,
        !.state = [last |-> 4, hash |-> <<"r1", "r2", "r3", "r3">>, anchor |-> <<"r1">>]]
=============================================================================
