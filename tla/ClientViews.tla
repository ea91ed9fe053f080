------------------------------ MODULE ClientViews ------------------------------
(***************************************************************************)
(* What clients make of a round: the market's own views, phaseOf,          *)
(* claimable and refundable, and the functions of packages/sdk that the    *)
(* web application shows stakes, estimates, results and labels with.       *)
(*                                                                         *)
(* The SDK computes again, in TypeScript, what the contract computes in    *)
(* Solidity: payout.ts the settlement and entitlement arithmetic,          *)
(* tokenomics.ts the outcome.  Every definition here is translated from    *)
(* the client's code and shares nothing with the contract's, so that the   *)
(* two can be compared on every state the market reaches.  A view has no   *)
(* state and no step: what a page shows is a function of one state.        *)
(***************************************************************************)
EXTENDS PonsPrediction

CONSTANT FormStakes     \* the amounts a user may type into the entry form

ASSUME FormAssumption == FormStakes \subseteq Nat

\* MAX_BURN_FEE_BPS leaves something of every pool: payout.ts takes an empty reward
\* pool to mean that one side is empty
ASSUME FeeCapAssumption == MaxBurnFeeBps < MaxBps

(***************************************************************************)
(* The market's views                                                      *)
(***************************************************************************)
\* phaseOf
PhaseOf(e) ==
    LET r == rounds[e]
    IN  CASE r.status \notin {"Open", "Locked"} -> r.status
          [] r.status \in {"Open", "Locked"} /\ Cancellable(e) -> "Cancellable"
          [] r.status = "Open" /\ ~Cancellable(e) ->
               IF now < r.lockTimestamp THEN "Open" ELSE "AwaitingLock"
          [] r.status = "Locked" /\ ~Cancellable(e) ->
               IF now < r.closeTimestamp THEN "Live" ELSE "AwaitingSettle"

\* claimable and refundable: an entitlement is winnings or a returned stake
Claimable(e, a) == IF Contested(rounds[e].outcome) THEN Entitlement(e, a) ELSE 0
Refundable(e, a) == IF Contested(rounds[e].outcome) THEN 0 ELSE Entitlement(e, a)

(***************************************************************************)
(* payout.ts                                                               *)
(***************************************************************************)
BurnFee(total, bps) == (total * bps) \div MaxBps

RewardPool(bull, bear, bps) ==
    IF bull = 0 \/ bear = 0 THEN 0
    ELSE (bull + bear) - BurnFee(bull + bear, bps)

\* mutant: the pool to share leaves the new stake out
EstimateWithoutOwnStake(stake, side, other, bps) ==
    LET pool == RewardPool(side, other, bps)
    IN  IF pool = 0 THEN stake ELSE (stake * pool) \div (side + stake)

\* estimatePayout: what the entry form promises for a stake about to be placed
EstimatePayout(stake, side, other, bps) ==
    LET newSide == side + stake
        pool == RewardPool(newSide, other, bps)
    IN  IF pool = 0 \/ newSide = 0 THEN stake ELSE (stake * pool) \div newSide

SettledPayout(r, bet, outcome) ==
    IF r.rewardBaseAmount # 0 /\ outcome \in Positions /\ bet.position = outcome
    THEN (bet.amount * r.rewardAmount) \div r.rewardBaseAmount ELSE 0

IsRefundShaped(r, outcome) ==
    \/ r.status = "Cancelled"
    \/ r.status = "Settled" /\ outcome \in {"Tie", "NoContest"}

\* mutant: a refund that was collected is offered again
LabelForgetsRefund(r, bet, outcome, phase) ==
    CASE bet.amount = 0 -> "PENDING"
      [] bet.amount # 0 /\ (phase = "Cancellable" \/ IsRefundShaped(r, outcome)) ->
           "REFUNDABLE"
      [] OTHER ->
           IF r.status # "Settled" THEN "LIVE"
           ELSE IF SettledPayout(r, bet, outcome) = 0 THEN "LOST"
           ELSE IF bet.claimed THEN "CLAIMED" ELSE "CLAIMABLE"

\* userRoundStatus: the label of an entry on the wallet's page
UserRoundStatus(r, bet, outcome, phase) ==
    IF bet.amount = 0 THEN "PENDING"
    ELSE IF r.status # "Cancelled" /\ phase = "Cancellable" THEN "REFUNDABLE"
    ELSE IF IsRefundShaped(r, outcome)
         THEN IF bet.claimed THEN "REFUNDED" ELSE "REFUNDABLE"
    ELSE IF r.status # "Settled" THEN "LIVE"
    ELSE IF SettledPayout(r, bet, outcome) = 0 THEN "LOST"
    ELSE IF bet.claimed THEN "CLAIMED" ELSE "CLAIMABLE"

(***************************************************************************)
(* tokenomics.ts, and the result card that is drawn from it                *)
(***************************************************************************)
\* mutant: no reward base is taken to mean that everybody was refunded
OutcomeFromReward(r) ==
    IF r.rewardBaseAmount = 0 THEN "NoContest"
    ELSE IF r.closePrice > r.lockPrice THEN "Bull" ELSE "Bear"

\* deriveOutcome: the outcome from the round alone, which carries no terms
DeriveOutcome(r) ==
    LET bullWins == r.closePrice > r.lockPrice
        winning == IF bullWins THEN r.bullAmount ELSE r.bearAmount
        losing == IF bullWins THEN r.bearAmount ELSE r.bullAmount
    IN  IF r.totalAmount = 0 THEN "NoContest"
        ELSE IF r.closePrice = r.lockPrice THEN "Tie"
        ELSE IF winning = 0 THEN "AllLost"
        ELSE IF losing = 0 THEN "NoContest"
        ELSE IF bullWins THEN "Bull" ELSE "Bear"

\* describeOutcome, what it says of the money
DescribeOutcome(outcome) ==
    [refunded |-> outcome \in {"Tie", "NoContest", "Cancelled"},
     burnedWholePot |-> outcome = "AllLost"]

\* PreviousCard: the phase decides whether an outcome is derived at all
CardOutcome(e) ==
    IF PhaseOf(e) = "Cancelled" THEN "Cancelled" ELSE DeriveOutcome(rounds[e])

(***************************************************************************)
(* Clients and contract agree                                              *)
(***************************************************************************)
Label(e, a) ==
    UserRoundStatus(rounds[e], ledger[e][a], rounds[e].outcome, PhaseOf(e))

\* The label of every entry, in every order of settlement, cancellation and claim,
\* says whether there is something to collect exactly as the contract's entitlement
\* does; a stuck round's stake, called refundable, is one that anybody can free now.
LabelsMatchClaims ==
    \A e \in Epochs, a \in Accounts :
        LET label == Label(e, a)
        IN  /\ Claimable(e, a) > 0 <=> label = "CLAIMABLE"
            /\ Refundable(e, a) > 0 => label = "REFUNDABLE"
            /\ label = "REFUNDABLE" => Refundable(e, a) > 0 \/ Cancellable(e)
            /\ label \in {"CLAIMED", "REFUNDED"} <=> ledger[e][a].claimed

\* Of every decided round the result card tells the verdict the contract recorded,
\* and what it says of the money is what the ledger does with every open position:
\* "refunded" is the whole stake back, "burned" is nothing for anybody.
CardsTellTheVerdict ==
    \A e \in Epochs : Decided(e) =>
        LET told == DescribeOutcome(CardOutcome(e))
        IN  /\ rounds[e].status = "Settled" => CardOutcome(e) = rounds[e].outcome
            /\ \A a \in Accounts :
                 ledger[e][a].amount > 0 /\ ~ledger[e][a].claimed =>
                   /\ told.refunded <=> Refundable(e, a) = ledger[e][a].amount
                   /\ told.burnedWholePot => Entitlement(e, a) = 0

\* what a position taken now gets if nobody else enters and its side wins, when the
\* contract locks the round and settles it with the terms it pinned
PaidOnWin(e, position, amount) ==
    LET locked == LockedAt(Entered(rounds[e], position, amount), 2)
        r == SettledAt(locked, IF position = "Bull" THEN 3 ELSE 1, terms[e].burnFeeBps)
    IN  IF r.outcome = "NoContest" THEN amount
        ELSE (amount * r.rewardAmount) \div r.rewardBaseAmount

\* the estimate of the entry form, which is given the fee in force, not the round's own
ShownOnWin(e, position, amount) ==
    LET r == rounds[e]
    IN  IF position = "Bull"
        THEN EstimatePayout(amount, r.bullAmount, r.bearAmount, config.burnFeeBps)
        ELSE EstimatePayout(amount, r.bearAmount, r.bullAmount, config.burnFeeBps)

\* What the entry form shows for a stake, should its side win and nobody else enter, is
\* what the contract will pay, to the wei, floors and one-sided pools included, for as
\* long as the fee in force is the one the round pinned.  A fee committed while the round
\* takes entries makes the form wrong one way only: too little if it was raised, too much
\* if it was lowered.
EstimatesFollowTheLiveFee ==
    \A e \in Epochs, position \in Positions, amount \in FormStakes \ {0} :
        LET shown == ShownOnWin(e, position, amount)
            paid == PaidOnWin(e, position, amount)
        IN  OpenForEntry(rounds[e]) =>
              /\ config.burnFeeBps >= terms[e].burnFeeBps => shown <= paid
              /\ config.burnFeeBps <= terms[e].burnFeeBps => shown >= paid
================================================================================
