----------------------------- MODULE RoundEscrow -----------------------------
(***************************************************************************)
(* What the market promises the people who stake in it, said without a     *)
(* clock, an oracle, a schedule or an accumulator.  Each round holds the   *)
(* stakes of its entrants until it gets one verdict, for good.  Everybody  *)
(* then collects, once, an amount that follows from the individual stakes, *)
(* the verdict and a fee rate fixed before the first stake; and what is    *)
(* held for users changes by exactly these amounts.                        *)
(***************************************************************************)
EXTENDS Naturals, FiniteSets, Totals

CONSTANTS Accounts, Epochs, MaxBps, MaxBurnFeeBps

VARIABLES
    stake,      \* [Epochs -> [Accounts -> amount and side]]
    verdict,    \* [Epochs -> Verdicts]
    rate,       \* the fee rate of each round
    collected,  \* [Epochs -> SUBSET Accounts]
    held,       \* ETH held for users
    raked       \* ETH taken as fees so far

escrow == <<stake, verdict, rate, collected, held, raked>>

Verdicts == {"Undecided", "Refund", "Bull", "Bear", "AllLost"}
Sides == {"Bull", "Bear"}
NoStake == [amount |-> 0, position |-> "Bull"]

Pot(e) == Total([a \in Accounts |-> stake[e][a].amount], Accounts)

Backers(e, side) ==
    {a \in Accounts : stake[e][a].amount > 0 /\ stake[e][a].position = side}

Backing(e, side) ==
    Total([a \in Accounts |-> stake[e][a].amount], Backers(e, side))

\* the fee of a round under a verdict
Rake(e, v) ==
    IF v = "AllLost" THEN Pot(e)
    ELSE IF v \in Sides THEN (Pot(e) * rate[e]) \div MaxBps
    ELSE 0

\* what a verdict gives an account back
Share(e, v, a) ==
    IF v = "Refund" THEN stake[e][a].amount
    ELSE IF a \in Backers(e, v)
         THEN (stake[e][a].amount * (Pot(e) - Rake(e, v))) \div Backing(e, v)
    ELSE 0

\* a side wins only against somebody; the house takes all only from one side
Admissible(e, v) ==
    \/ v = "Refund"
    \/ v \in Sides /\ \A s \in Sides : Backers(e, s) # {}
    \/ v = "AllLost" /\ \E s, t \in Sides : Backers(e, s) # {} /\ Backers(e, t) = {}

InitEscrow ==
    /\ stake = [e \in Epochs |-> [a \in Accounts |-> NoStake]]
    /\ verdict = [e \in Epochs |-> "Undecided"]
    /\ rate \in [Epochs -> 0..MaxBurnFeeBps]
    /\ collected = [e \in Epochs |-> {}]
    /\ held = 0
    /\ raked = 0

Stake(a, e) ==
    /\ verdict[e] = "Undecided"
    /\ stake[e][a].amount = 0
    /\ held' >= held
    /\ \E s \in Sides :
         stake' = [stake EXCEPT ![e][a] = [amount |-> held' - held, position |-> s]]
    /\ UNCHANGED <<verdict, rate, collected, raked>>

\* verdicts fall on some rounds, and rounds nobody entered yet may be repriced
Decide(decided) ==
    /\ \A e \in decided : verdict[e] = "Undecided" /\ Admissible(e, verdict'[e])
    /\ \A e \in Epochs \ decided : verdict'[e] = verdict[e]
    /\ \A e \in Epochs : Pot(e) > 0 => rate'[e] = rate[e]
    /\ LET rakes == Total([e \in decided |-> Rake(e, verdict'[e])], decided)
       IN  held' + rakes = held /\ raked' = raked + rakes
    /\ UNCHANGED <<stake, collected>>

Collect(a, batch) ==
    LET shares == [e \in batch |-> Share(e, verdict[e], a)]
    IN  /\ \A e \in batch : a \notin collected[e] /\ shares[e] > 0
                            /\ verdict[e] # "Undecided"
        /\ collected' = [e \in Epochs |-> IF e \in batch THEN collected[e] \cup {a}
                                          ELSE collected[e]]
        /\ held' + Total(shares, batch) = held
        /\ UNCHANGED <<stake, verdict, rate, raked>>

NextEscrow ==
    \/ \E a \in Accounts, e \in Epochs : Stake(a, e)
    \/ Decide({e \in Epochs : verdict[e] # verdict'[e]})
    \/ \E a \in Accounts, batch \in SUBSET Epochs : Collect(a, batch)

SpecEscrow == InitEscrow /\ [][NextEscrow]_escrow
=============================================================================
