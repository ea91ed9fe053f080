------------------------------- MODULE WebPages -------------------------------
(***************************************************************************)
(* What the web application lets a user do: the prediction panel, the      *)
(* quick-stake row and the entry form on the round taking entries, and the *)
(* claims of the positions page and of the panel for a replaced market.    *)
(*                                                                         *)
(* A page decides from what its hooks have read of the market; a decision  *)
(* is an operator on the market's state, as fresh reads would have it. The *)
(* panel and the quick-stake row decide whether the form opens.  Once open *)
(* it stays open, on the round taking entries as it was last read, and     *)
(* decides alone what is submitted: Submits says nothing of the panel.     *)
(* Reads of settings come in one multicall whose entries fail one by one,  *)
(* and a setting that failed to be read has a default.                     *)
(***************************************************************************)
EXTENDS ClientViews, SequencesExt

CONSTANTS
    Wallets,        \* the balances a wallet may have
    GasReserve,     \* what MAX leaves in the wallet for gas
    RowLimit,       \* entries the positions page reads
    LegacyLimit     \* entries the panel for a replaced market reads

(***************************************************************************)
(* The hooks of useMarket.ts                                               *)
(***************************************************************************)
\* getVisibleRounds: previous, live and next, epoch 0 for none
Visible ==
    [previous |-> IF currentEpoch >= 3 THEN currentEpoch - 2 ELSE 0,
     live |-> IF currentEpoch >= 2 THEN currentEpoch - 1 ELSE 0,
     next |-> currentEpoch]

Settings == {"minimumBet", "maximumBet", "maximumRoundPool", "paused"}

\* useMarketParams, where the entries of the multicall in failed brought no answer
MarketParams(failed) ==
    [minimumBet |-> IF "minimumBet" \in failed THEN 0 ELSE config.minimumBet,
     maximumBet |-> IF "maximumBet" \in failed THEN 0 ELSE config.maximumBet,
     maximumRoundPool |->
        IF "maximumRoundPool" \in failed THEN 0 ELSE config.maximumRoundPool,
     paused |-> "paused" \notin failed /\ paused]

\* useUserPredictions: the account's last entries, with what the market says they are due
PositionRows(a) ==
    LET count == Len(userEpochs[a])
        offset == IF count > RowLimit THEN count - RowLimit ELSE 0
    IN  Reverse(SubSeq(userEpochs[a], offset + 1, count))

\* useLegacyClaimable: the same of the replaced market, rows that are due nothing dropped
LegacyRows(a) ==
    LET count == Len(userEpochs[a])
        offset == IF count > LegacyLimit THEN count - LegacyLimit ELSE 0
    IN  SelectSeq(SubSeq(userEpochs[a], offset + 1, count),
                  LAMBDA e : Claimable(e, a) > 0 \/ Refundable(e, a) > 0)

(***************************************************************************)
(* Entering: the panel and the form it opens                               *)
(***************************************************************************)
\* useCountdown, with a wall clock that agrees with the chain's
Expired(e) == now >= rounds[e].lockTimestamp

AlreadyIn(a, e) == ledger[e][a].amount > 0

\* PredictPanel: its two buttons
PanelOffers(a, params) ==
    LET e == Visible.next
    IN  /\ e # 0
        /\ ~params.paused
        /\ PhaseOf(e) = "Open"
        /\ ~AlreadyIn(a, e)

\* mutant: an amount that fills the pool exactly is refused
ProblemAtTheCap(e, amount, wallet, params) ==
    CASE Expired(e) -> "closed"
      [] ~Expired(e) /\ amount < params.minimumBet -> "minimum"
      [] OTHER ->
           IF params.maximumBet > 0 /\ amount > params.maximumBet THEN "maximum"
           ELSE IF /\ params.maximumRoundPool > 0
                   /\ rounds[e].totalAmount + amount >= params.maximumRoundPool
                THEN "roundPool"
           ELSE IF amount >= wallet THEN "balance" ELSE "none"

\* PredictionModal's problem: why a stake, already known to be positive, is refused
Problem(e, amount, wallet, params) ==
    IF Expired(e) THEN "closed"
    ELSE IF amount < params.minimumBet THEN "minimum"
    ELSE IF params.maximumBet > 0 /\ amount > params.maximumBet THEN "maximum"
    ELSE IF /\ params.maximumRoundPool > 0
            /\ rounds[e].totalAmount + amount > params.maximumRoundPool
         THEN "roundPool"
    ELSE IF amount >= wallet THEN "balance" ELSE "none"

\* setMax: all of the wallet but the reserve, within the limit for one entry
MaxStake(wallet, params) ==
    LET usable == IF wallet > GasReserve THEN wallet - GasReserve ELSE 0
    IN  IF params.maximumBet > 0 /\ usable > params.maximumBet
        THEN params.maximumBet ELSE usable

\* submit: the call goes to the round on the page
Submits(e, amount, wallet, params) ==
    e = Visible.next /\ Problem(e, amount, wallet, params) = "none"

(***************************************************************************)
(* Collecting                                                              *)
(***************************************************************************)
\* mutant: the rows whose label says there is something to collect
RowsLabelledCollectable(a) ==
    SelectSeq(PositionRows(a), LAMBDA e : Label(e, a) \in {"CLAIMABLE", "REFUNDABLE"})

\* MyPredictions: the rows that Claim all collects
CollectableRows(a) ==
    SelectSeq(PositionRows(a), LAMBDA e : Claimable(e, a) > 0 \/ Refundable(e, a) > 0)

(***************************************************************************)
(* What is offered is accepted                                             *)
(***************************************************************************)
Accepts(a, e, amount) == \E p \in Positions : ENABLED Enter(a, e, p, amount)

\* Nobody is turned away: whatever rounds overlap, wait for a lock or were cancelled, the
\* panel opens the form and the form submits every stake that the market accepts at that
\* moment and the wallet can pay, even if settings could not be read.
AcceptedIsOffered(a, e, amount, wallet) ==
    Accepts(a, e, amount) /\ amount < wallet =>
        \A failed \in SUBSET Settings :
            /\ PanelOffers(a, MarketParams(failed))
            /\ Submits(e, amount, wallet, MarketParams(failed))

\* A form opened at any time and submitted now sends a stake that the market refuses in
\* three cases only, none of which the form looks at again: entries were paused, the
\* account has entered, or the round was cancelled while it was open.
OfferedIsAccepted(a, e, amount, wallet) ==
    Submits(e, amount, wallet, MarketParams({})) =>
        \/ Accepts(a, e, amount)
        \/ paused \/ AlreadyIn(a, e) \/ rounds[e].status = "Cancelled"

FormFollowsTheMarket ==
    \A a \in Accounts, e \in Epochs, wallet \in Wallets :
        \A amount \in FormStakes \union {MaxStake(wallet, MarketParams({}))} :
            amount > 0 => /\ AcceptedIsOffered(a, e, amount, wallet)
                          /\ OfferedIsAccepted(a, e, amount, wallet)

\* "Claim all" collects every row it names in one transaction: none is turned down for a
\* row of another round, stuck or already collected, nor for a round named twice.
ClaimAllIsPaid ==
    \A a \in Accounts : \A rows \in {CollectableRows(a), LegacyRows(a)} :
        rows # <<>> => ENABLED Claim(a, rows)

\* While what a page has read is current, it keeps from nobody a stake that the market
\* would accept, sends nobody to sign an entry that the market refuses but in the three
\* cases its form forgets, and collects with "Claim all" whatever it shows.
OffersAreAccepted == FormFollowsTheMarket /\ ClaimAllIsPaid
===============================================================================
