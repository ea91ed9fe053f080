---------------------------- MODULE PonsPrediction ----------------------------
(***************************************************************************)
(* The prediction market contract, PonsPrediction.sol: rounds on an        *)
(* overlapping schedule, stakes on either side of each round, settlement   *)
(* at prices the pinned oracle quotes for the scheduled instants, refunds, *)
(* pull-based claims, booked burn fees and timelocked configuration.       *)
(*                                                                         *)
(* One action is one transaction.  Solidity transactions are atomic and    *)
(* every external function that pays ETH out is nonReentrant with its      *)
(* effects before the transfer, so a transaction is a single step.  A call *)
(* that reverts changes nothing and is not an action.                      *)
(*                                                                         *)
(* A caller's role is not modelled: a role-gated action is enabled         *)
(* whenever the holder of the role may send it, that is, always.           *)
(***************************************************************************)
EXTENDS Integers, Sequences, FiniteSets, Totals

CONSTANTS
    Accounts,           \* wallets that may stake
    Burners,            \* addresses the burner setting may hold
    Oracles,            \* price sources
    FaultyOracles,      \* those bound by no promise of IPredictionOracle
    Prices,             \* prices an oracle may quote, all positive
    Stakes,             \* values sent with betBull and betBear, per round
    MaxBps,             \* MAX_BPS
    MaxBurnFeeBps,      \* MAX_BURN_FEE_BPS
    ConfigTimelock,     \* CONFIG_TIMELOCK
    MaxScanRounds,      \* MAX_SCAN_ROUNDS
    IntervalRange,      \* MIN_INTERVAL .. MAX_INTERVAL
    WindowRange,        \* MIN_TWAP_WINDOW .. MAX_TWAP_WINDOW
    BufferRange,        \* MIN_BUFFER_SECONDS .. MAX_BUFFER_SECONDS
    Deployment,         \* the constructor's InitParams
    Proposals,          \* values administrators try, per setting
    MaxEpoch,           \* bound: rounds that are ever created
    MaxBatch,           \* bound: epochs named in one claim
    MaxTime,            \* bound: the clock's last value
    MaxForced           \* bound: ETH forced into the contract

VARIABLES
    now,                \* block.timestamp
    currentEpoch,
    config,             \* the settings new rounds are created with
    pendingFee,         \* _pendingFeeBps, _pendingFeeReadyAt
    pendingOracle,      \* _pendingOracle, _pendingOracleReadyAt
    paused,
    rounds,             \* _rounds, with the outcome field of _terms
    terms,              \* the pinned fields of _terms
    ledger,             \* _ledger
    userEpochs,         \* _userEpochs
    totalLiabilities,
    burnAllocated,
    balance,            \* address(this).balance
    received,           \* ETH each burner has been sent
    feed                \* what each oracle answers, per window and instant

settings == <<config, pendingFee, pendingOracle, paused>>
schedule == <<currentEpoch, rounds, terms>>
positions == <<ledger, userEpochs>>
money == <<totalLiabilities, burnAllocated, balance, received>>
vars == <<now, settings, schedule, positions, money, feed>>

Epochs == 1..MaxEpoch
Instants == 0..MaxTime
Statuses == {"Pending", "Open", "Locked", "Settled", "Cancelled"}
Outcomes == {"Undecided", "Bull", "Bear", "Tie", "NoContest", "AllLost"}
Positions == {"Bull", "Bear"}

(***************************************************************************)
(* Configuration and its bounds                                            *)
(***************************************************************************)
Config ==
    [oracle: Oracles, burner: Burners, interval: IntervalRange,
     twapWindow: WindowRange, bufferSeconds: BufferRange,
     burnFeeBps: 0..MaxBurnFeeBps, minimumBet: Nat, maximumBet: Nat,
     maximumRoundPool: Nat]

ScanSpan(bufferSeconds, interval) == 3 + (bufferSeconds \div interval)

\* _checkTolerance
ToleranceFits(bufferSeconds, interval) ==
    ScanSpan(bufferSeconds, interval) <= MaxScanRounds

\* the checks the constructor and the two bet-limit setters share; 0 = no cap
BetLimitsFit(minimum, maximum) == maximum # 0 => maximum >= minimum

\* what the constructor accepts
ConstructorAccepts(p) ==
    /\ p \in Config
    /\ ToleranceFits(p.bufferSeconds, p.interval)
    /\ BetLimitsFit(p.minimumBet, p.maximumBet)

ASSUME BoundAssumption ==
    /\ MaxBps \in Nat \ {0}
    /\ MaxBurnFeeBps \in 0..MaxBps
    /\ ConfigTimelock \in Nat \ {0}
    /\ MaxScanRounds \in Nat \ {0}
    /\ IntervalRange \subseteq Nat \ {0}
    /\ WindowRange \subseteq Nat \ {0}
    /\ BufferRange \subseteq Nat
    /\ MaxEpoch \in Nat \ {0}
    /\ MaxBatch \in Nat
    /\ MaxTime \in Nat
    /\ MaxForced \in Nat

ASSUME DomainAssumption ==
    /\ IsFiniteSet(Accounts)
    /\ IsFiniteSet(Burners)
    /\ FaultyOracles \subseteq Oracles
    /\ Prices \subseteq Nat \ {0}
    /\ Stakes \in [1..MaxEpoch -> SUBSET Nat]
    /\ ConstructorAccepts(Deployment)
    /\ Proposals \in
         [oracle: SUBSET Oracles, burner: SUBSET Burners, interval: SUBSET Nat,
          twapWindow: SUBSET Nat, bufferSeconds: SUBSET Nat,
          burnFeeBps: SUBSET Nat, minimumBet: SUBSET Nat,
          maximumBet: SUBSET Nat, maximumRoundPool: SUBSET Nat,
          paused: SUBSET BOOLEAN]

(***************************************************************************)
(* The oracle's side of IPredictionOracle.  An answer says whether         *)
(* canQuote accepts and what getPriceAt returns, 0 standing for a revert.  *)
(* An oracle that keeps its promises accepts exactly what it can price,    *)
(* prices an instant only once it has passed, never changes a price, and   *)
(* may lose one to eviction for good.                                      *)
(***************************************************************************)
Answer == [ok: BOOLEAN, price: Prices \cup {0}, gone: BOOLEAN]

Unsealed == [ok |-> FALSE, price |-> 0, gone |-> FALSE]
Evicted == [ok |-> FALSE, price |-> 0, gone |-> TRUE]
Sealed(p) == [ok |-> TRUE, price |-> p, gone |-> FALSE]

\* mutant: the current settings are asked, not the terms the round pinned
ProbeCurrent(e, instant) == feed[config.oracle][config.twapWindow][instant].ok

\* _probe: canQuote of the round's own oracle over its own window
Probe(e, instant) == feed[terms[e].oracle][terms[e].twapWindow][instant].ok

\* _quote: getPriceAt; a revert and a zero price are both "no price"
PriceAt(e, instant) == feed[terms[e].oracle][terms[e].twapWindow][instant].price
Quotes(e, instant) == PriceAt(e, instant) # 0

(***************************************************************************)
(* Rounds                                                                  *)
(***************************************************************************)
NoRound ==
    [startTimestamp |-> 0, lockTimestamp |-> 0, closeTimestamp |-> 0,
     lockPrice |-> 0, closePrice |-> 0,
     totalAmount |-> 0, bullAmount |-> 0, bearAmount |-> 0,
     rewardBaseAmount |-> 0, rewardAmount |-> 0,
     status |-> "Pending", outcome |-> "Undecided"]

NoBet == [position |-> "Bull", amount |-> 0, claimed |-> FALSE]

OpenRound(start, lock, close) ==
    [NoRound EXCEPT !.startTimestamp = start, !.lockTimestamp = lock,
                    !.closeTimestamp = close, !.status = "Open"]

\* what _createRound pins
CurrentTerms ==
    [oracle |-> config.oracle, twapWindow |-> config.twapWindow,
     burnFeeBps |-> config.burnFeeBps]

LockDue(r) == r.status = "Open" /\ now >= r.lockTimestamp
CloseDue(r) == r.status = "Locked" /\ now >= r.closeTimestamp

LockedAt(r, price) == [r EXCEPT !.lockPrice = price, !.status = "Locked"]

WinningPool(r, price) == IF price > r.lockPrice THEN r.bullAmount ELSE r.bearAmount
LosingPool(r, price) == IF price > r.lockPrice THEN r.bearAmount ELSE r.bullAmount

OutcomeOf(r, price) ==
    CASE r.totalAmount = 0 -> "NoContest"
      [] r.totalAmount # 0 /\ price = r.lockPrice -> "Tie"
      [] r.totalAmount # 0 /\ price # r.lockPrice ->
           IF WinningPool(r, price) = 0 THEN "AllLost"
           ELSE IF LosingPool(r, price) = 0 THEN "NoContest"
           ELSE IF price > r.lockPrice THEN "Bull" ELSE "Bear"

Contested(outcome) == outcome \in {"Bull", "Bear"}

\* mutant: the fee is taken from the winnings only
FeeOnWinnings(r, price, bps) ==
    LET outcome == OutcomeOf(r, price)
    IN  IF outcome = "AllLost" THEN r.totalAmount
        ELSE IF Contested(outcome) THEN (LosingPool(r, price) * bps) \div MaxBps
        ELSE 0

\* the protocol's share of a settled round
FeeOf(r, price, bps) ==
    LET outcome == OutcomeOf(r, price)
    IN  IF outcome = "AllLost" THEN r.totalAmount
        ELSE IF Contested(outcome) THEN (r.totalAmount * bps) \div MaxBps
        ELSE 0

SettledAt(r, price, bps) ==
    LET outcome == OutcomeOf(r, price)
        winning == IF Contested(outcome) THEN WinningPool(r, price) ELSE 0
        reward == IF Contested(outcome)
                  THEN r.totalAmount - FeeOf(r, price, bps) ELSE 0
    IN  [r EXCEPT !.closePrice = price, !.status = "Settled",
                  !.outcome = outcome, !.rewardBaseAmount = winning,
                  !.rewardAmount = reward]

\* mutant: the window forgets that a late round may still be priced
OldestPunctual == IF currentEpoch > 3 THEN currentEpoch - 3 ELSE 1

\* _oldestUnresolved
OldestUnresolved ==
    LET wanted == ScanSpan(config.bufferSeconds, config.interval)
        span == IF wanted > MaxScanRounds THEN MaxScanRounds ELSE wanted
    IN  IF currentEpoch > span THEN currentEpoch - span ELSE 1

\* mutant: only a round that never locked can be given up
CancellableUnlocked(e) ==
    /\ rounds[e].status = "Open"
    /\ now > rounds[e].lockTimestamp + config.bufferSeconds
    /\ ~Probe(e, rounds[e].lockTimestamp)

\* mutant: whatever is not open is taken for locked
CancellableUnlessOpen(e) ==
    LET r == rounds[e]
    IN  \/ /\ r.status = "Open"
           /\ now > r.lockTimestamp + config.bufferSeconds
           /\ ~Probe(e, r.lockTimestamp)
        \/ /\ r.status \in {"Locked", "Settled"}
           /\ now > r.closeTimestamp + config.bufferSeconds
           /\ ~Probe(e, r.closeTimestamp)

\* _cancellability
Cancellable(e) ==
    LET r == rounds[e]
    IN  \/ /\ r.status = "Open"
           /\ now > r.lockTimestamp + config.bufferSeconds
           /\ ~Probe(e, r.lockTimestamp)
        \/ /\ r.status = "Locked"
           /\ now > r.closeTimestamp + config.bufferSeconds
           /\ ~Probe(e, r.closeTimestamp)

(***************************************************************************)
(* Entitlements                                                            *)
(***************************************************************************)
\* mutant: winnings are rounded up
EntitlementRoundedUp(e, a) ==
    LET r == rounds[e]
        bet == ledger[e][a]
    IN  IF bet.amount = 0 \/ bet.claimed THEN 0
        ELSE IF r.status = "Cancelled" \/ r.outcome \in {"Tie", "NoContest"} THEN bet.amount
        ELSE IF Contested(r.outcome) /\ bet.position = r.outcome
             THEN (bet.amount * r.rewardAmount + r.rewardBaseAmount - 1)
                      \div r.rewardBaseAmount
        ELSE 0

\* _entitlement
Entitlement(e, a) ==
    LET r == rounds[e]
        bet == ledger[e][a]
    IN  IF bet.amount = 0 \/ bet.claimed THEN 0
        ELSE IF r.status = "Cancelled" THEN bet.amount
        ELSE IF r.status # "Settled" THEN 0
        ELSE IF r.outcome \in {"Tie", "NoContest"} THEN bet.amount
        ELSE IF Contested(r.outcome) /\ bet.position = r.outcome
             THEN (bet.amount * r.rewardAmount) \div r.rewardBaseAmount
        ELSE 0

Init ==
    /\ now = 0
    /\ currentEpoch = 0
    /\ config = Deployment
    /\ pendingFee = [burnFeeBps |-> 0, readyAt |-> 0]
    /\ pendingOracle = [oracle |-> Deployment.oracle, readyAt |-> 0]
    /\ paused = FALSE
    /\ rounds = [e \in Epochs |-> NoRound]
    /\ terms = [e \in Epochs |-> CurrentTerms]     \* read only once pinned
    /\ ledger = [e \in Epochs |-> [a \in Accounts |-> NoBet]]
    /\ userEpochs = [a \in Accounts |-> <<>>]
    /\ totalLiabilities = 0
    /\ burnAllocated = 0
    /\ balance = 0
    /\ received = [b \in Burners |-> 0]
    /\ feed = [o \in Oracles |-> [w \in WindowRange |-> [t \in Instants |-> Unsealed]]]

(***************************************************************************)
(* Entering                                                                *)
(***************************************************************************)
\* mutant: only the last entry of a side is kept
EnteredOverwriting(r, position, amount) ==
    [r EXCEPT !.totalAmount = @ + amount,
              !.bullAmount = IF position = "Bull" THEN amount ELSE @,
              !.bearAmount = IF position = "Bear" THEN amount ELSE @]

Entered(r, position, amount) ==
    [r EXCEPT !.totalAmount = @ + amount,
              !.bullAmount = IF position = "Bull" THEN @ + amount ELSE @,
              !.bearAmount = IF position = "Bear" THEN @ + amount ELSE @]

\* mutant: the lock instant itself still takes entries
OpenThroughLock(r) ==
    r.status = "Open" /\ now >= r.startTimestamp /\ now <= r.lockTimestamp

\* the entry window, which ends at lockTimestamp whether or not the round is locked
OpenForEntry(r) ==
    r.status = "Open" /\ now >= r.startTimestamp /\ now < r.lockTimestamp

\* betBull and betBear
Enter(a, e, position, amount) ==
    LET r == rounds[e]
    IN  /\ ~paused
        /\ OpenForEntry(r)
        /\ amount >= config.minimumBet
        /\ config.maximumBet # 0 => amount <= config.maximumBet
        /\ ledger[e][a].amount = 0
        /\ config.maximumRoundPool # 0 =>
              r.totalAmount + amount <= config.maximumRoundPool
        /\ ledger' = [ledger EXCEPT ![e][a] =
                        [@ EXCEPT !.position = position, !.amount = amount]]
        /\ rounds' = [rounds EXCEPT ![e] = Entered(@, position, amount)]
        /\ userEpochs' = [userEpochs EXCEPT ![a] = Append(@, e)]
        /\ totalLiabilities' = totalLiabilities + amount
        /\ balance' = balance + amount
        /\ UNCHANGED <<now, currentEpoch, settings, terms, burnAllocated, received, feed>>

(***************************************************************************)
(* The round lifecycle                                                     *)
(***************************************************************************)
GenesisStartRound ==
    /\ ~paused
    /\ currentEpoch = 0
    /\ rounds' = [rounds EXCEPT ![1] =
                    OpenRound(now, now + config.interval, now + 2 * config.interval)]
    /\ terms' = [terms EXCEPT ![1] = CurrentTerms]
    /\ currentEpoch' = 1
    /\ UNCHANGED <<now, settings, positions, money, feed>>

\* mutant: the schedule restarts from the transaction's timestamp
NextRoundFromNow ==
    OpenRound(now, now + config.interval, now + 2 * config.interval)

\* the round _startNextRound writes after the head round
NextRound ==
    LET head == rounds[currentEpoch]
    IN  OpenRound(head.lockTimestamp, head.closeTimestamp,
                  head.closeTimestamp + config.interval)

NextStartable ==
    /\ now >= rounds[currentEpoch].lockTimestamp
    /\ currentEpoch < MaxEpoch

StartNextRound ==
    /\ ~paused
    /\ currentEpoch # 0
    /\ NextStartable
    /\ rounds' = [rounds EXCEPT ![currentEpoch + 1] = NextRound]
    /\ terms' = [terms EXCEPT ![currentEpoch + 1] = CurrentTerms]
    /\ currentEpoch' = currentEpoch + 1
    /\ UNCHANGED <<now, settings, positions, money, feed>>

\* mutant: a late lock reads the price of the transaction's own instant
TryLockAtNow(e, r) ==
    IF LockDue(r) /\ Quotes(e, now) THEN LockedAt(r, PriceAt(e, now)) ELSE r

\* what _tryLock and _trySettle make of a round that is due, or the round itself
TryLock(e, r) ==
    IF LockDue(r) /\ Quotes(e, r.lockTimestamp)
    THEN LockedAt(r, PriceAt(e, r.lockTimestamp)) ELSE r

Settles(e, r) == CloseDue(r) /\ Quotes(e, r.closeTimestamp)

TrySettle(e, r) ==
    IF Settles(e, r)
    THEN SettledAt(r, PriceAt(e, r.closeTimestamp), terms[e].burnFeeBps) ELSE r

\* the fee _trySettle moves from what is owed to users to what is burned
FeeBooked(e, r) ==
    IF Settles(e, r)
    THEN FeeOf(r, PriceAt(e, r.closeTimestamp), terms[e].burnFeeBps) ELSE 0

\* mutant: the fee stays owed to users as well
BookTwice(fee) ==
    /\ fee <= totalLiabilities
    /\ burnAllocated' = burnAllocated + fee
    /\ UNCHANGED <<totalLiabilities, balance, received>>

\* a fee changes hands inside the contract
Book(fee) ==
    /\ fee <= totalLiabilities
    /\ burnAllocated' = burnAllocated + fee
    /\ totalLiabilities' = totalLiabilities - fee
    /\ UNCHANGED <<balance, received>>

LockRound(e) ==
    /\ LockDue(rounds[e])
    /\ Quotes(e, rounds[e].lockTimestamp)
    /\ rounds' = [rounds EXCEPT ![e] = TryLock(e, @)]
    /\ UNCHANGED <<now, currentEpoch, settings, terms, positions, money, feed>>

SettleRound(e) ==
    /\ Settles(e, rounds[e])
    /\ rounds' = [rounds EXCEPT ![e] = TrySettle(e, @)]
    /\ Book(FeeBooked(e, rounds[e]))
    /\ UNCHANGED <<now, currentEpoch, settings, terms, positions, feed>>

\* mutant: a round moves on by one stage per call
AdvanceOneStage(e, r) == IF r.status = "Open" THEN TryLock(e, r) ELSE TrySettle(e, r)

\* the loop body of executeRound: a round that is long due is locked and settled at once
Advance(e, r) == TrySettle(e, TryLock(e, r))

\* executeRound: advance every round in the scan window, then open one round
ExecuteRound ==
    LET scanned == OldestUnresolved..currentEpoch
        advanced == [e \in Epochs |-> IF e \in scanned THEN Advance(e, rounds[e])
                                      ELSE rounds[e]]
        fees == [e \in scanned |-> FeeBooked(e, TryLock(e, rounds[e]))]
    IN  /\ ~paused
        /\ currentEpoch # 0
        /\ Book(Total(fees, scanned))
        /\ IF NextStartable
           THEN /\ rounds' = [advanced EXCEPT ![currentEpoch + 1] = NextRound]
                /\ terms' = [terms EXCEPT ![currentEpoch + 1] = CurrentTerms]
                /\ currentEpoch' = currentEpoch + 1
           ELSE rounds' = advanced /\ UNCHANGED <<terms, currentEpoch>>
        /\ UNCHANGED <<now, settings, positions, feed>>

CancelRound(e) ==
    /\ Cancellable(e)
    /\ rounds' = [rounds EXCEPT ![e].status = "Cancelled"]
    /\ UNCHANGED <<now, currentEpoch, settings, terms, positions, money, feed>>

EmergencyCancelRound(e) ==
    LET r == rounds[e]
        takingEntries == r.status = "Open" /\ now < r.lockTimestamp
        instant == IF r.status = "Open" THEN r.lockTimestamp ELSE r.closeTimestamp
    IN  /\ r.status \in {"Open", "Locked"}
        /\ takingEntries \/ (now >= instant /\ ~Probe(e, instant))
        /\ rounds' = [rounds EXCEPT ![e].status = "Cancelled"]
        /\ UNCHANGED <<now, currentEpoch, settings, terms, positions, money, feed>>

(***************************************************************************)
(* Claims and the burn allocation                                          *)
(***************************************************************************)
\* mutant: what was collected is marked once the loop is over
UnmarkedUntilPaid(epochs, i) == i \in DOMAIN epochs

\* the loop of claim marks every epoch it has been through, which a repetition meets
Unmarked(epochs, i) == \A j \in 1..(i - 1) : epochs[j] # epochs[i]

\* claim: one transaction over a list, reverted whole by any entry that is owed nothing
Claim(a, epochs) ==
    LET named == {epochs[i] : i \in DOMAIN epochs}
        owed == [i \in DOMAIN epochs |-> Entitlement(epochs[i], a)]
        payout == Total(owed, DOMAIN epochs)
    IN  /\ \A i \in DOMAIN epochs : owed[i] > 0 /\ Unmarked(epochs, i)
        /\ ledger' = [e \in Epochs |->
                        IF e \in named THEN [ledger[e] EXCEPT ![a].claimed = TRUE]
                        ELSE ledger[e]]
        /\ payout <= totalLiabilities /\ payout <= balance
        /\ totalLiabilities' = totalLiabilities - payout
        /\ balance' = balance - payout
        /\ UNCHANGED <<now, settings, schedule, userEpochs, burnAllocated, received, feed>>

SweepToBurner ==
    /\ burnAllocated # 0
    /\ burnAllocated <= balance
    /\ burnAllocated' = 0
    /\ balance' = balance - burnAllocated
    /\ received' = [received EXCEPT ![config.burner] = @ + burnAllocated]
    /\ UNCHANGED <<now, settings, schedule, positions, totalLiabilities, feed>>

(***************************************************************************)
(* Administration                                                          *)
(***************************************************************************)
PausePrediction ==
    /\ TRUE \in Proposals.paused
    /\ ~paused
    /\ paused' = TRUE
    /\ UNCHANGED <<now, config, pendingFee, pendingOracle, schedule, positions, money, feed>>

UnpausePrediction ==
    /\ FALSE \in Proposals.paused
    /\ paused
    /\ paused' = FALSE
    /\ UNCHANGED <<now, config, pendingFee, pendingOracle, schedule, positions, money, feed>>

\* mutant: a second proposal inherits the waiting time of the first
ProposeBurnFeeUnannounced(bps) ==
    /\ bps <= MaxBurnFeeBps
    /\ pendingFee' = [burnFeeBps |-> bps,
                      readyAt |-> IF pendingFee.readyAt # 0 THEN pendingFee.readyAt
                                  ELSE now + ConfigTimelock]
    /\ UNCHANGED <<now, config, pendingOracle, paused, schedule, positions, money, feed>>

ProposeBurnFee(bps) ==
    /\ bps <= MaxBurnFeeBps
    /\ pendingFee' = [burnFeeBps |-> bps, readyAt |-> now + ConfigTimelock]
    /\ UNCHANGED <<now, config, pendingOracle, paused, schedule, positions, money, feed>>

CommitBurnFee ==
    /\ pendingFee.readyAt # 0
    /\ now >= pendingFee.readyAt
    /\ config' = [config EXCEPT !.burnFeeBps = pendingFee.burnFeeBps]
    /\ pendingFee' = [pendingFee EXCEPT !.readyAt = 0]
    /\ UNCHANGED <<now, pendingOracle, paused, schedule, positions, money, feed>>

CancelPendingFee ==
    /\ pendingFee' = [pendingFee EXCEPT !.readyAt = 0]
    /\ UNCHANGED <<now, config, pendingOracle, paused, schedule, positions, money, feed>>

ProposeOracle(next) ==
    /\ pendingOracle' = [oracle |-> next, readyAt |-> now + ConfigTimelock]
    /\ UNCHANGED <<now, config, pendingFee, paused, schedule, positions, money, feed>>

CommitOracle ==
    /\ pendingOracle.readyAt # 0
    /\ now >= pendingOracle.readyAt
    /\ config' = [config EXCEPT !.oracle = pendingOracle.oracle]
    /\ pendingOracle' = [pendingOracle EXCEPT !.readyAt = 0]
    /\ UNCHANGED <<now, pendingFee, paused, schedule, positions, money, feed>>

CancelPendingOracle ==
    /\ pendingOracle' = [pendingOracle EXCEPT !.readyAt = 0]
    /\ UNCHANGED <<now, config, pendingFee, paused, schedule, positions, money, feed>>

\* the setters that take effect at once; each checks its own bounds
SetInterval(v) ==
    /\ v \in IntervalRange
    /\ ToleranceFits(config.bufferSeconds, v)
    /\ config' = [config EXCEPT !.interval = v]

SetTwapWindow(v) ==
    /\ v \in WindowRange
    /\ config' = [config EXCEPT !.twapWindow = v]

SetBufferSeconds(v) ==
    /\ v \in BufferRange
    /\ ToleranceFits(v, config.interval)
    /\ config' = [config EXCEPT !.bufferSeconds = v]

SetMinimumBet(v) ==
    /\ BetLimitsFit(v, config.maximumBet)
    /\ config' = [config EXCEPT !.minimumBet = v]

\* mutant: the other limit is not looked at
SetMaximumBetUnchecked(v) == config' = [config EXCEPT !.maximumBet = v]

SetMaximumBet(v) ==
    /\ BetLimitsFit(config.minimumBet, v)
    /\ config' = [config EXCEPT !.maximumBet = v]

SetMaximumRoundPool(v) == config' = [config EXCEPT !.maximumRoundPool = v]

SetBurner(b) == config' = [config EXCEPT !.burner = b]

Configure ==
    /\ \/ \E v \in Proposals.interval : SetInterval(v)
       \/ \E v \in Proposals.twapWindow : SetTwapWindow(v)
       \/ \E v \in Proposals.bufferSeconds : SetBufferSeconds(v)
       \/ \E v \in Proposals.minimumBet : SetMinimumBet(v)
       \/ \E v \in Proposals.maximumBet : SetMaximumBet(v)
       \/ \E v \in Proposals.maximumRoundPool : SetMaximumRoundPool(v)
       \/ \E b \in Proposals.burner : SetBurner(b)
    /\ UNCHANGED <<now, pendingFee, pendingOracle, paused, schedule, positions, money, feed>>

(***************************************************************************)
(* The environment                                                         *)
(***************************************************************************)
Tick ==
    /\ now < MaxTime
    /\ now' = now + 1
    /\ UNCHANGED <<settings, schedule, positions, money, feed>>

\* the instants some unresolved round waits for a price of; no other answer is looked at
Awaited(o, w, t) ==
    \E e \in Epochs :
        /\ terms[e].oracle = o
        /\ terms[e].twapWindow = w
        /\ \/ LockDue(rounds[e]) /\ rounds[e].lockTimestamp = t
           \/ rounds[e].status \in {"Open", "Locked"}
              /\ now >= t /\ rounds[e].closeTimestamp = t

\* what an oracle may answer next: one that keeps its promises seals, then may evict
MayAnswer(o, old, new) ==
    IF o \in FaultyOracles THEN ~new.gone
    ELSE \/ old = Unsealed /\ new \in {Sealed(p) : p \in Prices}
         \/ old.ok /\ new = Evicted

OracleAnswers(o, w, t) ==
    /\ Awaited(o, w, t)
    /\ \E new \in Answer :
         /\ MayAnswer(o, feed[o][w][t], new)
         /\ feed' = [feed EXCEPT ![o][w][t] = new]
    /\ UNCHANGED <<now, settings, schedule, positions, money>>

\* a selfdestruct elsewhere may force ETH in without calling receive
ForceEther ==
    /\ balance < totalLiabilities + burnAllocated + MaxForced
    /\ balance' = balance + 1
    /\ UNCHANGED <<now, settings, schedule, positions, totalLiabilities,
                   burnAllocated, received, feed>>

Next ==
    \/ Tick
    \/ \E o \in Oracles, w \in WindowRange, t \in Instants : OracleAnswers(o, w, t)
    \/ \E a \in Accounts, e \in Epochs, p \in Positions :
         \E v \in Stakes[e] : Enter(a, e, p, v)
    \/ GenesisStartRound
    \/ StartNextRound
    \/ ExecuteRound
    \/ \E e \in Epochs : LockRound(e)
    \/ \E e \in Epochs : SettleRound(e)
    \/ \E e \in Epochs : CancelRound(e)
    \/ \E e \in Epochs : EmergencyCancelRound(e)
    \/ \E a \in Accounts, n \in 0..MaxBatch :
         \E epochs \in [1..n -> Epochs] : Claim(a, epochs)
    \/ SweepToBurner
    \/ PausePrediction
    \/ UnpausePrediction
    \/ \E bps \in Proposals.burnFeeBps : ProposeBurnFee(bps)
    \/ CommitBurnFee
    \/ CancelPendingFee
    \/ \E o \in Proposals.oracle : ProposeOracle(o)
    \/ CommitOracle
    \/ CancelPendingOracle
    \/ Configure
    \/ ForceEther

Spec == Init /\ [][Next]_vars

(***************************************************************************)
(* Locking, settling and cancelling are permissionless and not gated by    *)
(* the pause.  The keeper retries the first two at every tick for as long  *)
(* as they are possible, and any entrant who wants the refund can send the *)
(* third.  Nothing else is assumed to happen.                              *)
(***************************************************************************)
FairSpec ==
    /\ Spec
    /\ WF_vars(Tick)
    /\ \A e \in Epochs :
         WF_vars(LockRound(e)) /\ WF_vars(SettleRound(e)) /\ WF_vars(CancelRound(e))

(***************************************************************************)
(* Type correctness                                                        *)
(***************************************************************************)
RoundType ==
    [startTimestamp: Nat, lockTimestamp: Nat, closeTimestamp: Nat,
     lockPrice: Nat, closePrice: Nat,
     totalAmount: Nat, bullAmount: Nat, bearAmount: Nat,
     rewardBaseAmount: Nat, rewardAmount: Nat,
     status: Statuses, outcome: Outcomes]
TermsType == [oracle: Oracles, twapWindow: WindowRange, burnFeeBps: 0..MaxBurnFeeBps]
BetType == [position: Positions, amount: Nat, claimed: BOOLEAN]

\* every variable keeps its type, and the settings stay inside their hard limits
TypeOK ==
    /\ now \in Instants
    /\ currentEpoch \in 0..MaxEpoch
    /\ ConstructorAccepts(config)
    /\ pendingFee \in [burnFeeBps: 0..MaxBurnFeeBps, readyAt: Nat]
    /\ pendingOracle \in [oracle: Oracles, readyAt: Nat]
    /\ paused \in BOOLEAN
    /\ rounds \in [Epochs -> RoundType]
    /\ terms \in [Epochs -> TermsType]
    /\ ledger \in [Epochs -> [Accounts -> BetType]]
    /\ userEpochs \in [Accounts -> Seq(Epochs)]
    /\ totalLiabilities \in Nat
    /\ burnAllocated \in Nat
    /\ balance \in Nat
    /\ received \in [Burners -> Nat]
    /\ feed \in [Oracles -> [WindowRange -> [Instants -> Answer]]]

(***************************************************************************)
(* Money                                                                   *)
(***************************************************************************)
\* The solvency invariant of totalLiabilities' comment and of solvency(): the
\* contract always holds what it owes to users plus the fees it has booked.
Solvent == balance >= totalLiabilities + burnAllocated

Decided(e) == rounds[e].status \in {"Settled", "Cancelled"}

\* what the ledger says an account may still get out of a round
Owed(e, a) ==
    IF Decided(e) THEN Entitlement(e, a) ELSE ledger[e][a].amount

\* totalLiabilities is enough for every claim still to come, in any order, so the
\* checked subtraction in claim never reverts and no winner is locked out by the
\* flooring, fees or refunds of other rounds.
LiabilitiesCoverClaims ==
    Total([x \in Epochs \X Accounts |-> Owed(x[1], x[2])], Epochs \X Accounts)
        <= totalLiabilities

Backers(e, position) == {a \in Accounts : ledger[e][a].position = position}
Staked(e, S) == Total([a \in S |-> ledger[e][a].amount], S)

\* The pools a round settles with are the sums of the individual stakes of _enter.
PoolsMatchLedger ==
    \A e \in Epochs :
        /\ rounds[e].bullAmount = Staked(e, Backers(e, "Bull"))
        /\ rounds[e].bearAmount = Staked(e, Backers(e, "Bear"))
        /\ rounds[e].totalAmount = Staked(e, Accounts)

\* what _entitlement pays the winners of a contested round, claimed or not
WinnersShare(e, a) ==
    (ledger[e][a].amount * rounds[e].rewardAmount) \div rounds[e].rewardBaseAmount

\* A contested round pays its winners everything but the fee: the flooring of
\* _entitlement leaves less than one wei per winner, and never overpays.
OnlyDustStays ==
    \A e \in Epochs : Contested(rounds[e].outcome) =>
        LET r == rounds[e]
            winners == {a \in Backers(e, r.outcome) : ledger[e][a].amount > 0}
            paid == Total([a \in winners |-> WinnersShare(e, a)], winners)
            fee == (r.totalAmount * terms[e].burnFeeBps) \div MaxBps
        IN  /\ winners # {}
            /\ paid + fee <= r.totalAmount
            /\ r.totalAmount < paid + fee + Cardinality(winners)

(***************************************************************************)
(* History                                                                 *)
(***************************************************************************)
\* the schedule and terms of a round never move once it exists, its lock price never
\* once recorded, its pools never once locked, nothing at all once it is decided
HistoryKept ==
    \A e \in Epochs :
        LET r == rounds[e]
            s == rounds'[e]
        IN  /\ r.status # "Pending" =>
                 /\ terms'[e] = terms[e]
                 /\ s.startTimestamp = r.startTimestamp
                 /\ s.lockTimestamp = r.lockTimestamp
                 /\ s.closeTimestamp = r.closeTimestamp
            /\ r.status = "Locked" =>
                 /\ s.status \in {"Locked", "Settled", "Cancelled"}
                 /\ s.lockPrice = r.lockPrice
                 /\ s.bullAmount = r.bullAmount /\ s.bearAmount = r.bearAmount
            /\ Decided(e) => s = r

\* Nothing rewrites what is decided, whatever is called, in whatever order, and
\* whatever becomes of the settings and of the oracle's answers.
HistoryIsFinal == [][HistoryKept]_vars

\* nothing an honest oracle has answered by then is about the lock instant or later
EntriesPrecedeLockPrice ==
    \A e \in Epochs : rounds'[e].totalAmount # rounds[e].totalAmount =>
        \A o \in Oracles \ FaultyOracles, w \in WindowRange, t \in Instants :
            t >= rounds[e].lockTimestamp => feed[o][w][t] = Unsealed

\* Whoever stakes on a round does not know its lock price: at that moment no honest
\* oracle has priced the lock instant yet, over any window, or has priced and lost it,
\* however late the keeper is to lock the round and whatever the settings became.
NoEntryOnceLockPriceIsKnown == [][EntriesPrecedeLockPrice]_vars

(***************************************************************************)
(* The schedule                                                            *)
(***************************************************************************)
\* Rounds overlap without a gap, whatever happens to the interval: a round closes at
\* the instant the next one locks, and locks at the instant the next one starts.
BoundariesMeet ==
    \A e \in Epochs :
        /\ rounds[e].status # "Pending" <=> e <= currentEpoch
        /\ e <= currentEpoch =>
             /\ rounds[e].startTimestamp < rounds[e].lockTimestamp
             /\ rounds[e].lockTimestamp < rounds[e].closeTimestamp
        /\ e < currentEpoch =>
             /\ rounds[e].closeTimestamp = rounds[e + 1].lockTimestamp
             /\ rounds[e].lockTimestamp = rounds[e + 1].startTimestamp

\* an unresolved round that cannot be cancelled for age yet
InTolerance(e) ==
    \/ rounds[e].status = "Open"
       /\ now <= rounds[e].lockTimestamp + config.bufferSeconds
    \/ rounds[e].status = "Locked"
       /\ now <= rounds[e].closeTimestamp + config.bufferSeconds

Length(r) == r.closeTimestamp - r.lockTimestamp

\* the rounds that could push e out of the window are no shorter than the interval
NoShorterSince(e) ==
    \A f \in (e + 1)..(currentEpoch - 2) : Length(rounds[f]) >= config.interval

\* _oldestUnresolved looks back far enough, whatever becomes of interval and tolerance
\* and however late the rounds were opened, unless the interval was raised since: a
\* round of "the widest window in which an unresolved round can legitimately still be
\* sitting" is left out only when a round opened after it is shorter than the interval
\* the window is computed with.
WindowIsWide == \A e \in Epochs : InTolerance(e) /\ NoShorterSince(e) => e >= OldestUnresolved

\* One executeRound leaves nothing it could still do in the window it scanned, apart
\* from the round it has just opened: it never takes two calls to catch up.
ExecuteCatchesUp ==
    [][ExecuteRound =>
        \A e \in OldestUnresolved..currentEpoch :
            /\ ~(LockDue(rounds'[e]) /\ Quotes(e, rounds[e].lockTimestamp))
            /\ ~(CloseDue(rounds'[e]) /\ Quotes(e, rounds[e].closeTimestamp))]_vars

\* Two consecutive rounds priced under the same terms read the same price at the
\* instant they share, however far apart in time the two readings are.
SharedBoundaryAgrees ==
    \A e \in Epochs \ {MaxEpoch} :
        /\ terms[e].oracle \notin FaultyOracles
        /\ rounds[e].status = "Settled" /\ rounds[e + 1].lockPrice # 0
        /\ terms[e].oracle = terms[e + 1].oracle
        /\ terms[e].twapWindow = terms[e + 1].twapWindow
        => rounds[e].closePrice = rounds[e + 1].lockPrice

VoidsAreUnpriceable ==
    \A e \in Epochs :
        LET r == rounds[e]
        IN  /\ r.status # "Cancelled" /\ rounds'[e].status = "Cancelled"
            /\ terms[e].oracle \notin FaultyOracles
            => /\ LockDue(r) => ~Quotes(e, r.lockTimestamp)
               /\ r.status = "Locked" => ~Quotes(e, r.closeTimestamp)

\* No role voids a round after its due instant while the round's own oracle, over the
\* round's own window, can price it: settings changed since creation are irrelevant.
NoVoidOfPriceableRound == [][VoidsAreUnpriceable]_vars

(***************************************************************************)
(* Progress                                                                *)
(***************************************************************************)
\* No stake is locked in for ever: every round the clock carries past its tolerance is
\* settled or cancelled, even if its price never comes, comes late or is evicted, and
\* even if the market stays paused.
EveryRoundIsDecided ==
    \A e \in Epochs :
        (/\ rounds[e].status = "Open"
         /\ rounds[e].closeTimestamp + config.bufferSeconds < MaxTime) ~> Decided(e)

(***************************************************************************)
(* The market implements the escrow                                        *)
(***************************************************************************)
VerdictOf(r) ==
    CASE r.status = "Cancelled" -> "Refund"
      [] r.status = "Settled" ->
           IF r.outcome \in {"Tie", "NoContest"} THEN "Refund" ELSE r.outcome
      [] OTHER -> "Undecided"

Escrow == INSTANCE RoundEscrow WITH
    stake <- [e \in Epochs |-> [a \in Accounts |->
                 [amount |-> ledger[e][a].amount, position |-> ledger[e][a].position]]],
    verdict <- [e \in Epochs |-> VerdictOf(rounds[e])],
    rate <- [e \in Epochs |-> terms[e].burnFeeBps],
    collected <- [e \in Epochs |-> {a \in Accounts : ledger[e][a].claimed}],
    held <- totalLiabilities,
    raked <- burnAllocated + Total(received, Burners)

\* What stakers are promised, in RoundEscrow's words: one verdict per round, one
\* collection per entrant, of the amount the individual stakes give.
ImplementsEscrow == Escrow!SpecEscrow
=============================================================================
