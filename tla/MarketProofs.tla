----------------------------- MODULE MarketProofs -----------------------------
(***************************************************************************)
(* Theorems about the market contract, for every value of the constants.   *)
(*                                                                         *)
(* Part 1  types, and what a step may do to an entry or a setting          *)
(* Part 2  the schedule and the history of rounds: what any transaction    *)
(*         can make of a round that exists, and what follows for instants, *)
(*         prices, verdicts and the scan window                            *)
(* Part 3  the money: the pools are the sums of the stakes, a contested    *)
(*         round pays out everything but its fee and some dust, what is    *)
(*         owed is always covered, and the market implements RoundEscrow   *)
(***************************************************************************)
EXTENDS PonsPrediction, Announcements, ClientViews, TotalsProofs

-----------------------------------------------------------------------------
(* Part 1: types, entries, settings *)

(***************************************************************************)
(* Type correctness.  TypeOK is inductive once RewardOK joins it: the      *)
(* floor division of _entitlement is by a positive reward base.            *)
(***************************************************************************)
RewardOK ==
    \A e \in Epochs : Contested(rounds[e].outcome) => rounds[e].rewardBaseAmount > 0

\* a quotient by a positive number is a natural number no larger than the dividend
LEMMA DivType ==
    ASSUME NEW a \in Nat, NEW b \in Nat, b > 0
    PROVE  a \div b \in Nat
OBVIOUS

\* A fee rate within MaxBps takes no more than the pool.
LEMMA FeeWithinPool ==
    ASSUME NEW total \in Nat, NEW bps \in 0..MaxBps
    PROVE  /\ (total * bps) \div MaxBps \in Nat
           /\ (total * bps) \div MaxBps <= total
<1>1. MaxBps \in Nat /\ MaxBps > 0
  BY BoundAssumption
<1>2. total * bps \in Nat /\ total * bps <= total * MaxBps
  BY <1>1
<1>3. QED
  BY <1>1, <1>2

LEMMA FeeRateFits ==
    \A bps \in 0..MaxBurnFeeBps : bps \in 0..MaxBps
BY BoundAssumption

\* a single round's part of RewardOK
RewardFits(r) == Contested(r.outcome) => r.rewardBaseAmount > 0

LEMMA NoRoundType == NoRound \in RoundType /\ RewardFits(NoRound)
BY DEF NoRound, RoundType, Statuses, Outcomes, RewardFits, Contested

LEMMA OpenRoundType ==
    ASSUME NEW start \in Nat, NEW lock \in Nat, NEW close \in Nat
    PROVE  /\ OpenRound(start, lock, close) \in RoundType
           /\ RewardFits(OpenRound(start, lock, close))
BY DEF OpenRound, NoRound, RoundType, Statuses, Outcomes, RewardFits, Contested

LEMMA EnteredType ==
    ASSUME NEW r \in RoundType, RewardFits(r), NEW position \in Positions,
           NEW amount \in Nat
    PROVE  /\ Entered(r, position, amount) \in RoundType
           /\ RewardFits(Entered(r, position, amount))
<1>1. r.totalAmount \in Nat /\ r.bullAmount \in Nat /\ r.bearAmount \in Nat
  BY DEF RoundType
<1>2. \A total, bull, bear \in Nat :
        LET n == [r EXCEPT !.totalAmount = total, !.bullAmount = bull, !.bearAmount = bear]
        IN  n \in RoundType /\ RewardFits(n)
  BY DEF RoundType, RewardFits
<1> DEFINE bull == IF position = "Bull" THEN r.bullAmount + amount ELSE r.bullAmount
           bear == IF position = "Bear" THEN r.bearAmount + amount ELSE r.bearAmount
<1>3. r.totalAmount + amount \in Nat /\ bull \in Nat /\ bear \in Nat
  BY <1>1
<1>4. QED
  BY <1>2, <1>3 DEF Entered

LEMMA LockedAtType ==
    ASSUME NEW r \in RoundType, RewardFits(r), NEW price \in Nat
    PROVE  LockedAt(r, price) \in RoundType /\ RewardFits(LockedAt(r, price))
BY DEF LockedAt, RoundType, Statuses, RewardFits

\* Settling a round of the right type gives a round of the right type, whose fee is
\* a natural number and whose reward, if there is one, has somebody to share it.
LEMMA SettledAtType ==
    ASSUME NEW r \in RoundType, NEW price \in Nat, NEW bps \in 0..MaxBps
    PROVE  /\ FeeOf(r, price, bps) \in Nat
           /\ SettledAt(r, price, bps) \in RoundType
           /\ RewardFits(SettledAt(r, price, bps))
<1> DEFINE outcome == OutcomeOf(r, price)
<1>1. /\ r.totalAmount \in Nat /\ r.bullAmount \in Nat /\ r.bearAmount \in Nat
      /\ r.lockPrice \in Nat
  BY DEF RoundType
<1>2. outcome \in Outcomes
  BY <1>1 DEF OutcomeOf, Outcomes, WinningPool, LosingPool
<1>3. Contested(outcome) => WinningPool(r, price) > 0
  BY <1>1 DEF OutcomeOf, Contested, WinningPool, LosingPool
<1>4. WinningPool(r, price) \in Nat
  BY <1>1 DEF WinningPool
<1>5. /\ (r.totalAmount * bps) \div MaxBps \in Nat
      /\ (r.totalAmount * bps) \div MaxBps <= r.totalAmount
  BY <1>1, FeeWithinPool
<1>6. /\ FeeOf(r, price, bps) \in Nat
      /\ FeeOf(r, price, bps) <= r.totalAmount
  BY <1>1, <1>5 DEF FeeOf
<1>7. r.totalAmount - FeeOf(r, price, bps) \in Nat
  BY <1>1, <1>6
<1>8. SettledAt(r, price, bps) \in RoundType
  BY <1>2, <1>4, <1>7 DEF SettledAt, RoundType, Statuses
<1>9. RewardFits(SettledAt(r, price, bps))
  BY <1>3 DEF SettledAt, RewardFits, RoundType
<1>10. QED
  BY <1>6, <1>8, <1>9

\* Replacing one round by another of the right type keeps what the rounds must satisfy.
LEMMA RoundReplaced ==
    ASSUME rounds \in [Epochs -> RoundType], RewardOK,
           NEW e \in Epochs, NEW r \in RoundType, RewardFits(r),
           rounds' = [rounds EXCEPT ![e] = r]
    PROVE  rounds' \in [Epochs -> RoundType] /\ RewardOK'
BY DEF RewardOK, RewardFits

\* What a quote of a round returns is a price, or 0 for none.
LEMMA PriceType ==
    ASSUME TypeOK, NEW e \in Epochs, NEW t \in Instants
    PROVE  PriceAt(e, t) \in Nat
<1>1. terms[e].oracle \in Oracles /\ terms[e].twapWindow \in WindowRange
  BY DEF TypeOK, TermsType
<1>2. feed[terms[e].oracle][terms[e].twapWindow][t] \in Answer
  BY <1>1 DEF TypeOK
<1>3. feed[terms[e].oracle][terms[e].twapWindow][t].price \in Prices \cup {0}
  BY <1>2 DEF Answer
<1>4. \A p \in Prices \cup {0} : p \in Nat
  BY DomainAssumption
<1>5. PriceAt(e, t) \in Prices \cup {0}
  BY <1>3 DEF PriceAt
<1>6. QED
  BY <1>4, <1>5, Zenon

\* A due boundary is one of the clock's instants.
LEMMA DueInstants ==
    ASSUME TypeOK, NEW r \in RoundType
    PROVE  /\ LockDue(r) => r.lockTimestamp \in Instants
           /\ CloseDue(r) => r.closeTimestamp \in Instants
BY BoundAssumption DEF TypeOK, LockDue, CloseDue, RoundType, Instants

LEMMA TryLockType ==
    ASSUME TypeOK, NEW e \in Epochs, NEW r \in RoundType, RewardFits(r)
    PROVE  TryLock(e, r) \in RoundType /\ RewardFits(TryLock(e, r))
<1>1. CASE LockDue(r) /\ Quotes(e, r.lockTimestamp)
  <2>1. PriceAt(e, r.lockTimestamp) \in Nat
    BY <1>1, DueInstants, PriceType
  <2>2. QED
    BY <1>1, <2>1, LockedAtType DEF TryLock
<1>2. CASE ~(LockDue(r) /\ Quotes(e, r.lockTimestamp))
  BY <1>2 DEF TryLock
<1>3. QED
  BY <1>1, <1>2

LEMMA TrySettleType ==
    ASSUME TypeOK, NEW e \in Epochs, NEW r \in RoundType, RewardFits(r)
    PROVE  /\ TrySettle(e, r) \in RoundType /\ RewardFits(TrySettle(e, r))
           /\ FeeBooked(e, r) \in Nat
<1>1. CASE Settles(e, r)
  <2>1. PriceAt(e, r.closeTimestamp) \in Nat
    BY <1>1, DueInstants, PriceType DEF Settles
  <2>2. terms[e].burnFeeBps \in 0..MaxBps
    BY FeeRateFits DEF TypeOK, TermsType
  <2>3. QED
    BY <1>1, <2>1, <2>2, SettledAtType DEF TrySettle, FeeBooked
<1>2. CASE ~Settles(e, r)
  BY <1>2 DEF TrySettle, FeeBooked
<1>3. QED
  BY <1>1, <1>2

LEMMA EntitlementType ==
    ASSUME TypeOK, RewardOK, NEW e \in Epochs, NEW a \in Accounts
    PROVE  Entitlement(e, a) \in Nat
<1>1. ledger[e][a].amount \in Nat
  BY DEF TypeOK, BetType
<1>2. rounds[e].rewardAmount \in Nat /\ rounds[e].rewardBaseAmount \in Nat
  BY DEF TypeOK, RoundType
<1>3. Contested(rounds[e].outcome) =>
        (ledger[e][a].amount * rounds[e].rewardAmount)
            \div rounds[e].rewardBaseAmount \in Nat
  <2>1. ledger[e][a].amount * rounds[e].rewardAmount \in Nat
    BY <1>1, <1>2
  <2>2. QED
    BY <1>2, <2>1, DivType DEF RewardOK
<1>4. QED
  BY <1>1, <1>3 DEF Entitlement

\* The booked fee leaves both accumulators natural numbers.
LEMMA BookType ==
    ASSUME TypeOK, NEW fee \in Nat, Book(fee)
    PROVE  /\ totalLiabilities' \in Nat /\ burnAllocated' \in Nat
           /\ balance' \in Nat /\ received' = received
           /\ totalLiabilities' + burnAllocated' = totalLiabilities + burnAllocated
           /\ balance' = balance
BY DEF TypeOK, Book

LEMMA EpochFacts ==
    /\ Epochs \subseteq Nat /\ IsFiniteSet(Epochs)
    /\ MaxEpoch \in Nat /\ 1 \in Epochs
<1>1. MaxEpoch \in Nat \ {0}
  BY BoundAssumption
<1>2. IsFiniteSet(1..MaxEpoch)
  BY <1>1, FS_Interval
<1>3. QED
  BY <1>1, <1>2 DEF Epochs

(***************************************************************************)
(* One lemma per action that touches rounds or money: it preserves the     *)
(* type invariant and its strengthening.                                   *)
(***************************************************************************)
TypeInv == TypeOK /\ RewardOK

LEMMA InitTypeInv == Init => TypeInv
<1> SUFFICES ASSUME Init PROVE TypeInv
  OBVIOUS
<1>1. ConstructorAccepts(Deployment)
  BY DomainAssumption
<1>2. Deployment \in Config
  BY <1>1 DEF ConstructorAccepts
<1>3. /\ config = Deployment /\ ConstructorAccepts(config) /\ config \in Config
  BY <1>1, <1>2 DEF Init
<1>4. CurrentTerms \in TermsType
  BY <1>3 DEF CurrentTerms, TermsType, Config
<1>5. NoBet \in BetType
  BY DEF NoBet, BetType, Positions
<1>6. Unsealed \in Answer
  BY DEF Unsealed, Answer
<1>7. /\ rounds \in [Epochs -> RoundType] /\ terms \in [Epochs -> TermsType]
      /\ ledger \in [Epochs -> [Accounts -> BetType]]
      /\ userEpochs \in [Accounts -> Seq(Epochs)]
      /\ feed \in [Oracles -> [WindowRange -> [Instants -> Answer]]]
  BY <1>4, <1>5, <1>6, NoRoundType DEF Init
<1>8. /\ pendingFee \in [burnFeeBps: 0..MaxBurnFeeBps, readyAt: Nat]
      /\ pendingOracle \in [oracle: Oracles, readyAt: Nat]
  BY <1>2, BoundAssumption DEF Init, Config
<1>9. RewardOK
  BY NoRoundType DEF Init, RewardOK, RewardFits
<1>10. now \in Instants /\ currentEpoch \in 0..MaxEpoch
  BY BoundAssumption DEF Init, Instants
<1>11. /\ totalLiabilities \in Nat /\ burnAllocated \in Nat
       /\ balance \in Nat /\ received \in [Burners -> Nat]
  BY DEF Init
<1>12. paused \in BOOLEAN
  BY Zenon DEF Init
<1>13. QED
  BY <1>3, <1>7, <1>8, <1>9, <1>10, <1>11, <1>12 DEF TypeInv, TypeOK

LEMMA EnterTypeInv ==
    ASSUME TypeInv, NEW a \in Accounts, NEW e \in Epochs, NEW p \in Positions,
           NEW v \in Stakes[e], Enter(a, e, p, v)
    PROVE  TypeInv'
<1>1. v \in Nat
  BY DomainAssumption DEF Epochs
<1>2. rounds[e] \in RoundType /\ rounds \in [Epochs -> RoundType]
  BY DEF TypeInv, TypeOK
<1>3. RewardFits(rounds[e])
  BY DEF TypeInv, RewardOK, RewardFits
<1>4. rounds' = [rounds EXCEPT ![e] = Entered(rounds[e], p, v)]
  BY DEF Enter
<1>5. rounds' \in [Epochs -> RoundType] /\ RewardOK'
  <2>1. Entered(rounds[e], p, v) \in RoundType /\ RewardFits(Entered(rounds[e], p, v))
    BY <1>1, <1>2, <1>3, EnteredType
  <2>2. QED
    BY <1>2, <1>4, <2>1, RoundReplaced DEF TypeInv
<1>6. ledger' \in [Epochs -> [Accounts -> BetType]]
  <2>1. ledger \in [Epochs -> [Accounts -> BetType]]
    BY DEF TypeInv, TypeOK
  <2>2. ledger[e][a] \in BetType
    BY <2>1
  <2>3. [ledger[e][a] EXCEPT !.position = p, !.amount = v] \in BetType
    BY <1>1, <2>2 DEF BetType
  <2>4. QED
    BY <2>1, <2>3 DEF Enter
<1>7. userEpochs' \in [Accounts -> Seq(Epochs)]
  BY DEF Enter, TypeInv, TypeOK
<1>8. totalLiabilities' \in Nat /\ balance' \in Nat
  BY <1>1 DEF Enter, TypeInv, TypeOK
<1>9. QED
  BY <1>5, <1>6, <1>7, <1>8 DEF Enter, TypeInv, TypeOK, settings, ConstructorAccepts

\* The round GenesisStartRound and _startNextRound create, and the terms it pins.
LEMMA NewRoundType ==
    ASSUME TypeOK
    PROVE  /\ CurrentTerms \in TermsType
           /\ LET r == OpenRound(now, now + config.interval, now + 2 * config.interval)
              IN  r \in RoundType /\ RewardFits(r)
           /\ currentEpoch # 0 => NextRound \in RoundType /\ RewardFits(NextRound)
<1>1. now \in Nat /\ config \in Config
  BY BoundAssumption DEF TypeOK, Instants, ConstructorAccepts
<1>2. CurrentTerms \in TermsType
  BY <1>1 DEF CurrentTerms, TermsType, Config
<1>3. config.interval \in Nat
  BY <1>1, BoundAssumption DEF Config
<1>4. now + config.interval \in Nat /\ now + 2 * config.interval \in Nat
  BY <1>1, <1>3
<1>5. LET r == OpenRound(now, now + config.interval, now + 2 * config.interval)
      IN  r \in RoundType /\ RewardFits(r)
  BY <1>1, <1>4, OpenRoundType
<1>6. ASSUME currentEpoch # 0
      PROVE  NextRound \in RoundType /\ RewardFits(NextRound)
  <2>1. currentEpoch \in Epochs
    BY <1>6, BoundAssumption DEF TypeOK, Epochs
  <2>2. rounds[currentEpoch] \in RoundType
    BY <2>1 DEF TypeOK
  <2>3. /\ rounds[currentEpoch].lockTimestamp \in Nat
        /\ rounds[currentEpoch].closeTimestamp \in Nat
    BY <2>2 DEF RoundType
  <2>4. rounds[currentEpoch].closeTimestamp + config.interval \in Nat
    BY <1>3, <2>3
  <2>5. QED
    BY <2>3, <2>4, OpenRoundType DEF NextRound
<1>7. QED
  BY <1>2, <1>5, <1>6

LEMMA GenesisTypeInv ==
    ASSUME TypeInv, GenesisStartRound
    PROVE  TypeInv'
<1> DEFINE r == OpenRound(now, now + config.interval, now + 2 * config.interval)
<1>1. 1 \in Epochs /\ 1 \in 0..MaxEpoch
  BY BoundAssumption DEF Epochs
<1>2. r \in RoundType /\ RewardFits(r) /\ CurrentTerms \in TermsType
  BY NewRoundType DEF TypeInv
<1>3. rounds' = [rounds EXCEPT ![1] = r] /\ rounds \in [Epochs -> RoundType]
  BY DEF GenesisStartRound, TypeInv, TypeOK
<1> HIDE DEF r
<1>4. rounds' \in [Epochs -> RoundType] /\ RewardOK'
  BY <1>1, <1>2, <1>3, RoundReplaced DEF TypeInv
<1>5. terms' \in [Epochs -> TermsType]
  BY <1>1, <1>2 DEF GenesisStartRound, TypeInv, TypeOK
<1>6. currentEpoch' \in 0..MaxEpoch
  BY <1>1 DEF GenesisStartRound
<1>7. QED
  BY <1>4, <1>5, <1>6
  DEF GenesisStartRound, TypeInv, TypeOK, settings, positions, money, ConstructorAccepts

LEMMA StartNextTypeInv ==
    ASSUME TypeInv, StartNextRound
    PROVE  TypeInv'
<1>1. currentEpoch + 1 \in Epochs /\ currentEpoch + 1 \in 0..MaxEpoch
  BY BoundAssumption DEF StartNextRound, NextStartable, TypeInv, TypeOK, Epochs
<1>2. NextRound \in RoundType /\ RewardFits(NextRound) /\ CurrentTerms \in TermsType
  BY NewRoundType DEF TypeInv, StartNextRound
<1>3. /\ rounds' = [rounds EXCEPT ![currentEpoch + 1] = NextRound]
      /\ rounds \in [Epochs -> RoundType]
  BY DEF StartNextRound, TypeInv, TypeOK
<1>4. rounds' \in [Epochs -> RoundType] /\ RewardOK'
  BY <1>1, <1>2, <1>3, RoundReplaced DEF TypeInv
<1>5. terms' \in [Epochs -> TermsType]
  BY <1>1, <1>2 DEF StartNextRound, TypeInv, TypeOK
<1>6. currentEpoch' \in 0..MaxEpoch
  BY <1>1 DEF StartNextRound
<1>7. QED
  BY <1>4, <1>5, <1>6
  DEF StartNextRound, TypeInv, TypeOK, settings, positions, money, ConstructorAccepts

LEMMA LockTypeInv ==
    ASSUME TypeInv, NEW e \in Epochs, LockRound(e)
    PROVE  TypeInv'
<1>1. rounds \in [Epochs -> RoundType] /\ rounds[e] \in RoundType /\ RewardFits(rounds[e])
  BY DEF TypeInv, TypeOK, RewardOK, RewardFits
<1>2. TryLock(e, rounds[e]) \in RoundType /\ RewardFits(TryLock(e, rounds[e]))
  BY <1>1, TryLockType DEF TypeInv
<1>3. rounds' = [rounds EXCEPT ![e] = TryLock(e, rounds[e])]
  BY DEF LockRound
<1>4. rounds' \in [Epochs -> RoundType] /\ RewardOK'
  BY <1>1, <1>2, <1>3, RoundReplaced DEF TypeInv
<1>5. QED
  BY <1>4 DEF LockRound, TypeInv, TypeOK, settings, positions, money, ConstructorAccepts

LEMMA SettleTypeInv ==
    ASSUME TypeInv, NEW e \in Epochs, SettleRound(e)
    PROVE  TypeInv'
<1>1. rounds \in [Epochs -> RoundType] /\ rounds[e] \in RoundType /\ RewardFits(rounds[e])
  BY DEF TypeInv, TypeOK, RewardOK, RewardFits
<1>2. /\ TrySettle(e, rounds[e]) \in RoundType /\ RewardFits(TrySettle(e, rounds[e]))
      /\ FeeBooked(e, rounds[e]) \in Nat
  BY <1>1, TrySettleType DEF TypeInv
<1>3. rounds' = [rounds EXCEPT ![e] = TrySettle(e, rounds[e])]
  BY DEF SettleRound
<1>4. rounds' \in [Epochs -> RoundType] /\ RewardOK'
  BY <1>1, <1>2, <1>3, RoundReplaced DEF TypeInv
<1>5. /\ totalLiabilities' \in Nat /\ burnAllocated' \in Nat
      /\ balance' \in Nat /\ received' = received
  BY <1>2, BookType DEF TypeInv, SettleRound
<1>6. QED
  BY <1>4, <1>5 DEF SettleRound, TypeInv, TypeOK, settings, positions, ConstructorAccepts

\* The scan window of _oldestUnresolved is a finite set of existing rounds.
LEMMA ScanFacts ==
    ASSUME TypeOK
    PROVE  /\ OldestUnresolved..currentEpoch \subseteq Epochs
           /\ IsFiniteSet(OldestUnresolved..currentEpoch)
           /\ OldestUnresolved \in Nat
<1>1. currentEpoch \in 0..MaxEpoch /\ MaxEpoch \in Nat
  BY BoundAssumption DEF TypeOK
<1>2. ScanSpan(config.bufferSeconds, config.interval) \in Nat
  <2>1. config \in Config
    BY DEF TypeOK, ConstructorAccepts
  <2>2. config.bufferSeconds \in BufferRange /\ config.interval \in IntervalRange
    BY <2>1 DEF Config
  <2>3. config.bufferSeconds \in Nat /\ config.interval \in Nat \ {0}
    BY <2>2, BoundAssumption, Zenon
  <2>4. config.bufferSeconds \div config.interval \in Nat
    BY <2>3, DivType
  <2>5. QED
    BY <2>4 DEF ScanSpan
<1>3. OldestUnresolved \in Nat /\ OldestUnresolved >= 1
  BY <1>1, <1>2, BoundAssumption DEF OldestUnresolved
<1>4. OldestUnresolved..currentEpoch \subseteq Epochs
  BY <1>1, <1>3 DEF Epochs
<1>5. IsFiniteSet(OldestUnresolved..currentEpoch)
  <2>1. OldestUnresolved \in Int /\ currentEpoch \in Int
    BY <1>1, <1>3
  <2>2. QED
    BY <2>1, FS_Interval
<1>6. QED
  BY <1>3, <1>4, <1>5

LEMMA ExecuteTypeInv ==
    ASSUME TypeInv, ExecuteRound
    PROVE  TypeInv' /\ totalLiabilities' + burnAllocated' = totalLiabilities + burnAllocated
                    /\ balance' = balance
<1> DEFINE scanned == OldestUnresolved..currentEpoch
           advanced == [e \in Epochs |-> IF e \in scanned THEN Advance(e, rounds[e])
                                         ELSE rounds[e]]
           fees == [e \in scanned |-> FeeBooked(e, TryLock(e, rounds[e]))]
<1>1. TypeOK /\ scanned \subseteq Epochs /\ IsFiniteSet(scanned)
  BY ScanFacts DEF TypeInv
<1>2. /\ ~paused /\ currentEpoch # 0 /\ Book(Total(fees, scanned))
      /\ IF NextStartable
         THEN /\ rounds' = [advanced EXCEPT ![currentEpoch + 1] = NextRound]
              /\ terms' = [terms EXCEPT ![currentEpoch + 1] = CurrentTerms]
              /\ currentEpoch' = currentEpoch + 1
         ELSE rounds' = advanced /\ UNCHANGED <<terms, currentEpoch>>
      /\ UNCHANGED <<now, settings, positions, feed>>
  BY Zenon DEF ExecuteRound
<1> HIDE DEF scanned
<1>3. \A e \in Epochs : rounds[e] \in RoundType /\ RewardFits(rounds[e])
  BY DEF TypeInv, TypeOK, RewardOK, RewardFits
<1>4. \A e \in scanned : /\ TryLock(e, rounds[e]) \in RoundType
                         /\ RewardFits(TryLock(e, rounds[e]))
  BY <1>1, <1>3, TryLockType
<1>5. \A e \in scanned : /\ Advance(e, rounds[e]) \in RoundType
                         /\ RewardFits(Advance(e, rounds[e]))
                         /\ FeeBooked(e, TryLock(e, rounds[e])) \in Nat
  BY <1>1, <1>4, TrySettleType DEF Advance
<1>6. /\ advanced \in [Epochs -> RoundType]
      /\ \A e \in Epochs : RewardFits(advanced[e])
  BY <1>3, <1>5
<1>7. Total(fees, scanned) \in Nat
  <2>1. \A e \in scanned : fees[e] \in Nat
    BY <1>5
  <2> HIDE DEF fees
  <2>2. QED
    BY <1>1, <2>1, TotalType
<1> HIDE DEF fees, advanced
<1>8. /\ totalLiabilities' \in Nat /\ burnAllocated' \in Nat
      /\ balance' \in Nat /\ received' = received
      /\ totalLiabilities' + burnAllocated' = totalLiabilities + burnAllocated
      /\ balance' = balance
  BY <1>1, <1>2, <1>7, BookType
<1>9. /\ rounds' \in [Epochs -> RoundType] /\ RewardOK'
      /\ terms' \in [Epochs -> TermsType] /\ currentEpoch' \in 0..MaxEpoch
  <2>1. CASE NextStartable
    <3>1. currentEpoch + 1 \in Epochs /\ currentEpoch + 1 \in 0..MaxEpoch
      BY <1>1, <2>1, BoundAssumption DEF NextStartable, TypeOK, Epochs
    <3>2. NextRound \in RoundType /\ RewardFits(NextRound) /\ CurrentTerms \in TermsType
      BY <1>1, <1>2, NewRoundType
    <3>3. /\ rounds' = [advanced EXCEPT ![currentEpoch + 1] = NextRound]
          /\ terms' = [terms EXCEPT ![currentEpoch + 1] = CurrentTerms]
          /\ currentEpoch' = currentEpoch + 1
      BY <1>2, <2>1
    <3>4. /\ rounds' \in [Epochs -> RoundType]
          /\ \A e \in Epochs : RewardFits(rounds'[e])
      BY <1>6, <3>1, <3>2, <3>3
    <3>5. terms' \in [Epochs -> TermsType] /\ currentEpoch' \in 0..MaxEpoch
      BY <1>1, <3>1, <3>2, <3>3 DEF TypeOK
    <3>6. QED
      BY <3>4, <3>5 DEF RewardOK, RewardFits
  <2>2. CASE ~NextStartable
    <3>1. rounds' = advanced /\ terms' = terms /\ currentEpoch' = currentEpoch
      BY <1>2, <2>2
    <3>2. QED
      BY <1>1, <1>6, <3>1 DEF TypeOK, RewardOK, RewardFits
  <2>3. QED
    BY <2>1, <2>2
<1>10. QED
  BY <1>1, <1>2, <1>8, <1>9 DEF TypeInv, TypeOK, settings, positions, ConstructorAccepts

LEMMA VoidTypeInv ==
    ASSUME TypeInv, NEW e \in Epochs, CancelRound(e) \/ EmergencyCancelRound(e)
    PROVE  TypeInv'
<1> DEFINE r == [rounds[e] EXCEPT !.status = "Cancelled"]
<1>1. /\ rounds \in [Epochs -> RoundType] /\ rounds[e] \in RoundType
      /\ RewardFits(rounds[e])
  BY DEF TypeInv, TypeOK, RewardOK, RewardFits
<1>2. r \in RoundType /\ RewardFits(r)
  BY <1>1 DEF RoundType, RewardFits, Statuses
<1>3. rounds' = [rounds EXCEPT ![e] = r]
  BY DEF CancelRound, EmergencyCancelRound
<1> HIDE DEF r
<1>4. rounds' \in [Epochs -> RoundType] /\ RewardOK'
  BY <1>1, <1>2, <1>3, RoundReplaced DEF TypeInv
<1>5. UNCHANGED <<now, currentEpoch, settings, terms, positions, money, feed>>
  BY DEF CancelRound, EmergencyCancelRound
<1>6. QED
  BY <1>4, <1>5 DEF TypeInv, TypeOK, settings, positions, money, ConstructorAccepts

(***************************************************************************)
(* A claim names a list of epochs.  As no epoch of a list that is paid is  *)
(* named twice, it comes to the claim of a set.                            *)
(***************************************************************************)
ClaimSet(a, batch) ==
    LET owed == [e \in batch |-> Entitlement(e, a)]
        payout == Total(owed, batch)
    IN  /\ \A e \in batch : owed[e] > 0
        /\ ledger' = [e \in Epochs |->
                        IF e \in batch THEN [ledger[e] EXCEPT ![a].claimed = TRUE]
                        ELSE ledger[e]]
        /\ payout <= totalLiabilities /\ payout <= balance
        /\ totalLiabilities' = totalLiabilities - payout
        /\ balance' = balance - payout
        /\ UNCHANGED <<now, settings, schedule, userEpochs, burnAllocated, received, feed>>

LEMMA UnmarkedOnce ==
    ASSUME NEW n \in Nat, NEW epochs \in [1..n -> Epochs],
           \A i \in 1..n : Unmarked(epochs, i)
    PROVE  \A i, j \in 1..n : epochs[i] = epochs[j] => i = j
<1> SUFFICES ASSUME NEW i \in 1..n, NEW j \in 1..n, epochs[i] = epochs[j]
             PROVE  i = j
  OBVIOUS
<1>1. i < j => i \in 1..(j - 1)
  OBVIOUS
<1>2. j < i => j \in 1..(i - 1)
  OBVIOUS
<1>3. ~(i < j) /\ ~(j < i)
  BY <1>1, <1>2 DEF Unmarked
<1>4. QED
  BY <1>3

\* Every claim of a list is the claim of the set of its epochs.
LEMMA ClaimIsOfASet ==
    ASSUME TypeInv, NEW a \in Accounts, NEW n \in 0..MaxBatch,
           NEW epochs \in [1..n -> Epochs], Claim(a, epochs)
    PROVE  \E batch \in SUBSET Epochs : ClaimSet(a, batch)
<1> DEFINE named == {epochs[i] : i \in 1..n}
           listed == [i \in 1..n |-> Entitlement(epochs[i], a)]
           owed == [e \in named |-> Entitlement(e, a)]
<1>1. n \in Nat /\ DOMAIN epochs = 1..n /\ named \in SUBSET Epochs
  BY BoundAssumption
<1>2. /\ \A i \in 1..n : listed[i] > 0 /\ Unmarked(epochs, i)
      /\ ledger' = [e \in Epochs |->
                      IF e \in named THEN [ledger[e] EXCEPT ![a].claimed = TRUE]
                      ELSE ledger[e]]
      /\ Total(listed, 1..n) <= totalLiabilities /\ Total(listed, 1..n) <= balance
      /\ totalLiabilities' = totalLiabilities - Total(listed, 1..n)
      /\ balance' = balance - Total(listed, 1..n)
      /\ UNCHANGED <<now, settings, schedule, userEpochs, burnAllocated, received, feed>>
  BY <1>1, Zenon DEF Claim
<1>3. \A i \in 1..n : /\ epochs[i] \in named /\ epochs[i] \in Epochs
                      /\ listed[i] = Entitlement(epochs[i], a)
                      /\ owed[epochs[i]] = listed[i]
  OBVIOUS
<1>4. \A e \in named : owed[e] > 0
  BY <1>2, <1>3
<1>5. \A i \in 1..n : listed[i] \in Nat
  BY <1>3, EntitlementType DEF TypeInv
<1>6. \A i, j \in 1..n : epochs[i] = epochs[j] => i = j
  BY <1>1, <1>2, UnmarkedOnce
<1>7. IsFiniteSet(1..n)
  <2>1. n \in Int /\ 1 \in Int
    BY <1>1
  <2>2. QED
    BY <2>1, FS_Interval
<1>8. Renames(epochs, listed, 1..n, owed, named)
  <2>1. \A e \in named : \E i \in 1..n : epochs[i] = e
    OBVIOUS
  <2> HIDE DEF listed, owed, named
  <2>2. QED
    BY <1>3, <1>6, <2>1, Zenon DEF Renames
<1> HIDE DEF listed, owed, named
<1>9. Total(listed, 1..n) = Total(owed, named)
  BY <1>5, <1>7, <1>8, TotalRenamed
<1>10. ClaimSet(a, named)
  BY <1>2, <1>4, <1>9, Zenon DEF ClaimSet, owed
<1>11. QED
  BY <1>1, <1>10

LEMMA ClaimTypeInv ==
    ASSUME TypeInv, NEW a \in Accounts, NEW batch \in SUBSET Epochs, ClaimSet(a, batch)
    PROVE  TypeInv' /\ balance' - totalLiabilities' = balance - totalLiabilities
<1> DEFINE owed == [e \in batch |-> Entitlement(e, a)]
           payout == Total(owed, batch)
<1>1. TypeOK /\ RewardOK
  BY DEF TypeInv
<1>2. payout \in Nat
  <2>1. \A e \in batch : owed[e] \in Nat
    BY <1>1, EntitlementType
  <2>2. IsFiniteSet(batch)
    BY EpochFacts, FS_Subset
  <2> HIDE DEF owed
  <2>3. QED
    BY <2>1, <2>2, TotalType
<1>3. /\ payout <= totalLiabilities /\ payout <= balance
      /\ totalLiabilities' = totalLiabilities - payout
      /\ balance' = balance - payout
      /\ ledger' = [e \in Epochs |->
                      IF e \in batch THEN [ledger[e] EXCEPT ![a].claimed = TRUE]
                      ELSE ledger[e]]
      /\ UNCHANGED <<now, settings, schedule, userEpochs, burnAllocated, received, feed>>
  BY Zenon DEF ClaimSet
<1> HIDE DEF payout
<1>4. ledger' \in [Epochs -> [Accounts -> BetType]]
  <2>1. \A e \in Epochs : ledger[e] \in [Accounts -> BetType] /\ ledger[e][a] \in BetType
    BY <1>1 DEF TypeOK
  <2>2. \A bet \in BetType : [bet EXCEPT !.claimed = TRUE] \in BetType
    BY DEF BetType
  <2>3. \A e \in Epochs : [ledger[e] EXCEPT ![a].claimed = TRUE] \in [Accounts -> BetType]
    BY <2>1, <2>2
  <2>4. QED
    BY <1>3, <2>1, <2>3
<1>5. /\ totalLiabilities' \in Nat /\ balance' \in Nat
      /\ balance' - totalLiabilities' = balance - totalLiabilities
  BY <1>1, <1>2, <1>3 DEF TypeOK
<1>6. QED
  BY <1>1, <1>3, <1>4, <1>5
  DEF TypeInv, TypeOK, RewardOK, settings, schedule, ConstructorAccepts

\* Sweeping the booked fees and forcing ETH in move money only.
LEMMA MoneyTypeInv ==
    ASSUME TypeInv, SweepToBurner \/ ForceEther
    PROVE  TypeInv'
<1>1. CASE SweepToBurner
  <2>1. /\ balance \in Nat /\ burnAllocated \in Nat /\ totalLiabilities \in Nat
        /\ received \in [Burners -> Nat]
    BY DEF TypeInv, TypeOK
  <2>2. balance' \in Nat /\ burnAllocated' \in Nat
    BY <1>1, <2>1 DEF SweepToBurner
  <2>3. received' \in [Burners -> Nat]
    <3>1. config.burner \in Burners
      BY DEF TypeInv, TypeOK, ConstructorAccepts, Config
    <3>2. received[config.burner] + burnAllocated \in Nat
      BY <2>1, <3>1
    <3>3. QED
      BY <1>1, <2>1, <3>2 DEF SweepToBurner
  <2>4. QED
    BY <1>1, <2>2, <2>3
    DEF SweepToBurner, TypeInv, TypeOK, RewardOK, settings, schedule, positions,
        ConstructorAccepts
<1>2. CASE ForceEther
  BY <1>2
  DEF ForceEther, TypeInv, TypeOK, RewardOK, settings, schedule, positions,
      ConstructorAccepts
<1>3. QED
  BY <1>1, <1>2

\* Pausing, the timelocks and the bounded setters keep the settings in their limits.
LEMMA AdminTypeInv ==
    ASSUME TypeInv,
           \/ PausePrediction \/ UnpausePrediction
           \/ \E bps \in Proposals.burnFeeBps : ProposeBurnFee(bps)
           \/ CommitBurnFee \/ CancelPendingFee
           \/ \E o \in Proposals.oracle : ProposeOracle(o)
           \/ CommitOracle \/ CancelPendingOracle \/ Configure
    PROVE  TypeInv'
<1>1. /\ config \in Config
      /\ ToleranceFits(config.bufferSeconds, config.interval)
      /\ BetLimitsFit(config.minimumBet, config.maximumBet)
      /\ pendingFee \in [burnFeeBps: 0..MaxBurnFeeBps, readyAt: Nat]
      /\ pendingOracle \in [oracle: Oracles, readyAt: Nat]
      /\ paused \in BOOLEAN
  BY DEF TypeInv, TypeOK, ConstructorAccepts
<1>2. now + ConfigTimelock \in Nat /\ MaxBurnFeeBps \in Nat
  BY BoundAssumption DEF TypeInv, TypeOK, Instants
<1>3. Proposals \in
        [oracle: SUBSET Oracles, burner: SUBSET Burners, interval: SUBSET Nat,
         twapWindow: SUBSET Nat, bufferSeconds: SUBSET Nat, burnFeeBps: SUBSET Nat,
         minimumBet: SUBSET Nat, maximumBet: SUBSET Nat, maximumRoundPool: SUBSET Nat,
         paused: SUBSET BOOLEAN]
  BY DomainAssumption
<1>4. ASSUME UNCHANGED <<now, schedule, positions, money, feed>>,
             ConstructorAccepts(config'),
             pendingFee' \in [burnFeeBps: 0..MaxBurnFeeBps, readyAt: Nat],
             pendingOracle' \in [oracle: Oracles, readyAt: Nat],
             paused' \in BOOLEAN
      PROVE  TypeInv'
  BY <1>4 DEF TypeInv, TypeOK, RewardOK, schedule, positions, money
<1>5. ASSUME PausePrediction \/ UnpausePrediction
      PROVE  TypeInv'
  <2>1. /\ UNCHANGED <<now, config, pendingFee, pendingOracle, schedule, positions,
                       money, feed>>
        /\ paused' \in BOOLEAN
    BY <1>5, Zenon DEF PausePrediction, UnpausePrediction
  <2>2. QED
    BY <1>1, <1>4, <2>1 DEF ConstructorAccepts
<1>6. ASSUME NEW bps \in Proposals.burnFeeBps, ProposeBurnFee(bps)
      PROVE  TypeInv'
  <2>1. bps \in 0..MaxBurnFeeBps
    BY <1>2, <1>3, <1>6 DEF ProposeBurnFee
  <2>2. QED
    BY <1>1, <1>2, <1>4, <1>6, <2>1 DEF ProposeBurnFee, ConstructorAccepts
<1>7. ASSUME CommitBurnFee \/ CancelPendingFee
      PROVE  TypeInv'
  <2>1. /\ pendingFee' \in [burnFeeBps: 0..MaxBurnFeeBps, readyAt: Nat]
        /\ UNCHANGED <<now, pendingOracle, paused, schedule, positions, money, feed>>
    BY <1>1, <1>7 DEF CommitBurnFee, CancelPendingFee
  <2>2. ConstructorAccepts(config')
    <3>1. pendingFee.burnFeeBps \in 0..MaxBurnFeeBps
      BY <1>1
    <3>2. [config EXCEPT !.burnFeeBps = pendingFee.burnFeeBps] \in Config
      BY <1>1, <3>1 DEF Config
    <3>3. QED
      BY <1>1, <1>7, <3>2
      DEF CommitBurnFee, CancelPendingFee, ConstructorAccepts, Config
  <2>3. QED
    BY <1>1, <1>4, <2>1, <2>2
<1>8. ASSUME NEW o \in Proposals.oracle, ProposeOracle(o)
      PROVE  TypeInv'
  <2>1. o \in Oracles
    BY <1>3
  <2>2. QED
    BY <1>1, <1>2, <1>4, <1>8, <2>1 DEF ProposeOracle, ConstructorAccepts
<1>9. ASSUME CommitOracle \/ CancelPendingOracle
      PROVE  TypeInv'
  <2>1. /\ pendingOracle' \in [oracle: Oracles, readyAt: Nat]
        /\ UNCHANGED <<now, pendingFee, paused, schedule, positions, money, feed>>
    BY <1>1, <1>9 DEF CommitOracle, CancelPendingOracle
  <2>2. ConstructorAccepts(config')
    <3>1. pendingOracle.oracle \in Oracles
      BY <1>1
    <3>2. [config EXCEPT !.oracle = pendingOracle.oracle] \in Config
      BY <1>1, <3>1 DEF Config
    <3>3. QED
      BY <1>1, <1>9, <3>2
      DEF CommitOracle, CancelPendingOracle, ConstructorAccepts, Config
  <2>3. QED
    BY <1>1, <1>4, <2>1, <2>2
<1>10. ASSUME Configure
       PROVE  TypeInv'
  <2>1. UNCHANGED <<now, pendingFee, pendingOracle, paused, schedule, positions, money, feed>>
    BY <1>10 DEF Configure
  <2>2. ConstructorAccepts(config')
    <3>1. /\ Proposals.interval \subseteq Nat /\ Proposals.twapWindow \subseteq Nat
          /\ Proposals.bufferSeconds \subseteq Nat /\ Proposals.minimumBet \subseteq Nat
          /\ Proposals.maximumBet \subseteq Nat /\ Proposals.maximumRoundPool \subseteq Nat
          /\ Proposals.burner \subseteq Burners
      BY <1>3
    <3>2. ASSUME NEW v \in Proposals.interval, SetInterval(v)
          PROVE  ConstructorAccepts(config')
      BY <1>1, <3>1, <3>2 DEF SetInterval, ConstructorAccepts, Config
    <3>3. ASSUME NEW v \in Proposals.twapWindow, SetTwapWindow(v)
          PROVE  ConstructorAccepts(config')
      BY <1>1, <3>1, <3>3 DEF SetTwapWindow, ConstructorAccepts, Config
    <3>4. ASSUME NEW v \in Proposals.bufferSeconds, SetBufferSeconds(v)
          PROVE  ConstructorAccepts(config')
      BY <1>1, <3>1, <3>4 DEF SetBufferSeconds, ConstructorAccepts, Config
    <3>5. ASSUME NEW v \in Proposals.minimumBet, SetMinimumBet(v)
          PROVE  ConstructorAccepts(config')
      BY <1>1, <3>1, <3>5 DEF SetMinimumBet, ConstructorAccepts, Config
    <3>6. ASSUME NEW v \in Proposals.maximumBet, SetMaximumBet(v)
          PROVE  ConstructorAccepts(config')
      BY <1>1, <3>1, <3>6 DEF SetMaximumBet, ConstructorAccepts, Config
    <3>7. ASSUME NEW v \in Proposals.maximumRoundPool, SetMaximumRoundPool(v)
          PROVE  ConstructorAccepts(config')
      BY <1>1, <3>1, <3>7 DEF SetMaximumRoundPool, ConstructorAccepts, Config
    <3>8. ASSUME NEW b \in Proposals.burner, SetBurner(b)
          PROVE  ConstructorAccepts(config')
      BY <1>1, <3>1, <3>8 DEF SetBurner, ConstructorAccepts, Config
    <3>9. QED
      BY <1>10, <3>2, <3>3, <3>4, <3>5, <3>6, <3>7, <3>8, Zenon DEF Configure
  <2>3. QED
    BY <1>1, <1>4, <2>1, <2>2
<1>11. QED
  BY <1>5, <1>6, <1>7, <1>8, <1>9, <1>10

\* The clock and the oracles.
LEMMA WorldTypeInv ==
    ASSUME TypeInv,
           Tick \/ \E o \in Oracles, w \in WindowRange, t \in Instants : OracleAnswers(o, w, t)
    PROVE  TypeInv'
<1>1. CASE Tick
  <2>1. now' \in Instants
    BY <1>1, BoundAssumption DEF Tick, TypeInv, TypeOK, Instants
  <2>2. QED
    BY <1>1, <2>1
    DEF Tick, TypeInv, TypeOK, RewardOK, settings, schedule, positions, money,
        ConstructorAccepts
<1>2. ASSUME NEW o \in Oracles, NEW w \in WindowRange, NEW t \in Instants,
             OracleAnswers(o, w, t)
      PROVE  TypeInv'
  <2>1. PICK new \in Answer : feed' = [feed EXCEPT ![o][w][t] = new]
    BY <1>2 DEF OracleAnswers
  <2>2. feed' \in [Oracles -> [WindowRange -> [Instants -> Answer]]]
    BY <2>1 DEF TypeInv, TypeOK
  <2>3. QED
    BY <1>2, <2>2
    DEF OracleAnswers, TypeInv, TypeOK, RewardOK, settings, schedule, positions, money,
        ConstructorAccepts
<1>3. QED
  BY <1>1, <1>2

LEMMA NextTypeInv == TypeInv /\ [Next]_vars => TypeInv'
<1> SUFFICES ASSUME TypeInv, [Next]_vars PROVE TypeInv'
  OBVIOUS
<1>1. CASE UNCHANGED vars
  BY <1>1
  DEF vars, TypeInv, TypeOK, RewardOK, settings, schedule, positions, money,
      ConstructorAccepts
<1>2. CASE Next
  BY <1>2, EnterTypeInv, GenesisTypeInv, StartNextTypeInv, LockTypeInv, SettleTypeInv,
     ExecuteTypeInv, VoidTypeInv, ClaimIsOfASet, ClaimTypeInv, MoneyTypeInv, AdminTypeInv,
     WorldTypeInv, Zenon
  DEF Next
<1>3. QED
  BY <1>1, <1>2

\* Every variable keeps its type and every setting its hard limits, and the floor
\* division of _entitlement is never by zero.
THEOREM TypeCorrect == Spec => []TypeInv
<1>1. QED
  BY InitTypeInv, NextTypeInv, PTL DEF Spec

\* Every variable keeps its type, and no sequence of legal calls to the setters leaves
\* the limits the constructor imposes.
THEOREM TypesHold == Spec => []TypeOK
<1>1. TypeInv => TypeOK
  BY DEF TypeInv
<1>2. QED
  BY <1>1, TypeCorrect, PTL

(***************************************************************************)
(* Solvency: given the types, no action opens a gap.                       *)
(***************************************************************************)
\* Paying users, or sweeping the booked fees, moves both sides of Solvent alike.
LEMMA PaidAlike ==
    ASSUME NEW held \in Nat, NEW owed \in Nat, NEW booked \in Nat,
           held >= owed + booked
    PROVE  /\ \A held2, owed2 \in Nat :
                held2 - owed2 = held - owed => held2 >= owed2 + booked
           /\ held - booked >= owed
           /\ held + 1 >= owed + booked
OBVIOUS

LEMMA SolventStep == TypeInv /\ Solvent /\ [Next]_vars => Solvent'
<1> SUFFICES ASSUME TypeInv, Solvent, [Next]_vars PROVE Solvent'
  OBVIOUS
<1>1. /\ totalLiabilities \in Nat /\ burnAllocated \in Nat /\ balance \in Nat
      /\ totalLiabilities' \in Nat /\ burnAllocated' \in Nat /\ balance' \in Nat
      /\ balance >= totalLiabilities + burnAllocated
  BY NextTypeInv DEF TypeInv, TypeOK, Solvent
<1>2. ASSUME UNCHANGED money
      PROVE  Solvent'
  BY <1>1, <1>2 DEF money, Solvent
<1>3. ASSUME NEW a \in Accounts, NEW e \in Epochs, NEW p \in Positions,
             NEW v \in Stakes[e], Enter(a, e, p, v)
      PROVE  Solvent'
  <2>1. v \in Nat
    BY DomainAssumption DEF Epochs
  <2>2. QED
    BY <1>1, <1>3, <2>1 DEF Enter, Solvent
<1>4. ASSUME NEW fee \in Nat, Book(fee)
      PROVE  Solvent'
  BY <1>1, <1>4 DEF Book, Solvent
<1>5. ASSUME NEW e \in Epochs, SettleRound(e)
      PROVE  Solvent'
  <2>1. FeeBooked(e, rounds[e]) \in Nat
    BY TrySettleType DEF TypeInv, TypeOK, RewardOK, RewardFits
  <2>2. QED
    BY <1>4, <1>5, <2>1 DEF SettleRound
<1>6. ASSUME ExecuteRound
      PROVE  Solvent'
  BY <1>1, <1>6, ExecuteTypeInv DEF Solvent
<1>7. ASSUME NEW a \in Accounts, NEW batch \in SUBSET Epochs, ClaimSet(a, batch)
      PROVE  Solvent'
  <2>1. burnAllocated' = burnAllocated
    BY <1>7, Zenon DEF ClaimSet
  <2>2. balance' - totalLiabilities' = balance - totalLiabilities
    BY <1>7, ClaimTypeInv
  <2>3. QED
    BY <1>1, <2>1, <2>2, PaidAlike DEF Solvent
<1>8. ASSUME SweepToBurner \/ ForceEther
      PROVE  Solvent'
  <2>1. CASE SweepToBurner
    <3>1. /\ burnAllocated' = 0 /\ totalLiabilities' = totalLiabilities
          /\ balance' = balance - burnAllocated
      BY <2>1, Zenon DEF SweepToBurner
    <3>2. balance - burnAllocated >= totalLiabilities
      BY <1>1, PaidAlike
    <3>3. totalLiabilities + 0 = totalLiabilities
      BY <1>1
    <3>4. QED
      BY <3>1, <3>2, <3>3 DEF Solvent
  <2>2. CASE ForceEther
    <3>1. /\ burnAllocated' = burnAllocated /\ totalLiabilities' = totalLiabilities
          /\ balance' = balance + 1
      BY <2>2, Zenon DEF ForceEther
    <3>2. balance + 1 >= totalLiabilities + burnAllocated
      BY <1>1, PaidAlike
    <3>3. QED
      BY <3>1, <3>2 DEF Solvent
  <2>3. QED
    BY <1>8, <2>1, <2>2
<1>9. ASSUME \/ GenesisStartRound \/ StartNextRound
             \/ \E e \in Epochs : LockRound(e)
             \/ \E e \in Epochs : CancelRound(e) \/ EmergencyCancelRound(e)
             \/ PausePrediction \/ UnpausePrediction
             \/ \E bps \in Proposals.burnFeeBps : ProposeBurnFee(bps)
             \/ CommitBurnFee \/ CancelPendingFee
             \/ \E o \in Proposals.oracle : ProposeOracle(o)
             \/ CommitOracle \/ CancelPendingOracle \/ Configure
             \/ Tick
             \/ \E o \in Oracles, w \in WindowRange, t \in Instants : OracleAnswers(o, w, t)
      PROVE  UNCHANGED money
  BY <1>9, Zenon
  DEF GenesisStartRound, StartNextRound, LockRound, CancelRound, EmergencyCancelRound,
      PausePrediction, UnpausePrediction, ProposeBurnFee, CommitBurnFee, CancelPendingFee,
      ProposeOracle, CommitOracle, CancelPendingOracle, Configure, Tick, OracleAnswers
<1>10. CASE UNCHANGED vars
  BY <1>2, <1>10 DEF vars
<1>11. CASE Next
  BY <1>2, <1>3, <1>5, <1>6, <1>7, <1>8, <1>9, <1>11, ClaimIsOfASet, Zenon DEF Next
<1>12. QED
  BY <1>10, <1>11

\* The market always holds what it owes to users plus the fees it has booked: sweeping
\* pays out booked fees only, whatever the burner setting, the fees or the oracles do.
THEOREM AlwaysSolvent == Spec => []Solvent
<1>1. Init => Solvent
  BY DEF Init, Solvent
<1>2. QED
  BY <1>1, SolventStep, TypeCorrect, PTL DEF Spec

-----------------------------------------------------------------------------
(* Part 2: the schedule and the history of rounds *)

(***************************************************************************)
(* One step changes an existing round only along its lifecycle.            *)
(***************************************************************************)
SameInstants(r, s) ==
    /\ s.startTimestamp = r.startTimestamp
    /\ s.lockTimestamp = r.lockTimestamp
    /\ s.closeTimestamp = r.closeTimestamp

\* a price is recorded only as the round's oracle quotes it for a due instant
Recorded(e, old, new, instant) ==
    new # old => /\ now >= instant
                 /\ Quotes(e, instant)
                 /\ new = PriceAt(e, instant)

\* voiding needs an instant that is still to come or that canQuote refuses
Voidable(e, r) ==
    /\ LockDue(r) => ~Probe(e, r.lockTimestamp)
    /\ r.status = "Locked" => now >= r.closeTimestamp /\ ~Probe(e, r.closeTimestamp)

\* what a transaction may make of the round r, which is round e
Evolves(e, r, s) ==
    /\ SameInstants(r, s)
    /\ s.status = "Pending" <=> r.status = "Pending"
    /\ Recorded(e, r.lockPrice, s.lockPrice, r.lockTimestamp)
    /\ Recorded(e, r.closePrice, s.closePrice, r.closeTimestamp)
    /\ s.status = "Settled" /\ r.status # "Settled" =>
         /\ now >= r.closeTimestamp
         /\ Quotes(e, r.closeTimestamp)
         /\ s.closePrice = PriceAt(e, r.closeTimestamp)
    /\ r.status = "Locked" =>
         /\ s.status \in {"Locked", "Settled", "Cancelled"}
         /\ s.lockPrice = r.lockPrice
         /\ s.bullAmount = r.bullAmount /\ s.bearAmount = r.bearAmount
    /\ r.status \in {"Pending", "Settled", "Cancelled"} => s = r
    /\ s.totalAmount # r.totalAmount => r.status = "Open" /\ now < r.lockTimestamp
    /\ s.status = "Cancelled" /\ r.status # "Cancelled" => Voidable(e, r)

LEMMA EvolvesStill ==
    ASSUME NEW e, NEW r \in RoundType
    PROVE  Evolves(e, r, r)
BY DEF Evolves, SameInstants, Recorded

LEMMA EnteredEvolves ==
    ASSUME NEW e, NEW r \in RoundType, OpenForEntry(r), NEW position, NEW amount
    PROVE  Evolves(e, r, Entered(r, position, amount))
BY DEF Evolves, SameInstants, Recorded, OpenForEntry, Entered, RoundType

LEMMA TryLockEvolves ==
    ASSUME NEW e, NEW r \in RoundType
    PROVE  Evolves(e, r, TryLock(e, r))
BY DEF Evolves, SameInstants, Recorded, TryLock, LockDue, LockedAt, RoundType

LEMMA SettledAtEvolves ==
    ASSUME NEW e, NEW r \in RoundType, r.status = "Locked", NEW price, NEW bps,
           now >= r.closeTimestamp, Quotes(e, r.closeTimestamp),
           price = PriceAt(e, r.closeTimestamp)
    PROVE  Evolves(e, r, SettledAt(r, price, bps))
<1>1. \A outcome, winning, reward :
        Evolves(e, r, [r EXCEPT !.closePrice = price, !.status = "Settled",
                             !.outcome = outcome, !.rewardBaseAmount = winning,
                             !.rewardAmount = reward])
  BY DEF Evolves, SameInstants, Recorded, RoundType
<1>2. QED
  BY <1>1, Zenon DEF SettledAt

LEMMA TrySettleEvolves ==
    ASSUME NEW e, NEW r \in RoundType
    PROVE  Evolves(e, r, TrySettle(e, r))
<1>1. CASE Settles(e, r)
  <2>1. /\ r.status = "Locked" /\ now >= r.closeTimestamp
        /\ Quotes(e, r.closeTimestamp)
    BY <1>1 DEF Settles, CloseDue
  <2>2. QED
    BY <1>1, <2>1, SettledAtEvolves, Zenon DEF TrySettle
<1>2. CASE ~Settles(e, r)
  BY <1>2, EvolvesStill DEF TrySettle
<1>3. QED
  BY <1>1, <1>2

LEMMA CancelledEvolves ==
    ASSUME NEW e, NEW r \in RoundType, r.status \in {"Open", "Locked"},
           Voidable(e, r)
    PROVE  Evolves(e, r, [r EXCEPT !.status = "Cancelled"])
BY DEF Evolves, SameInstants, Recorded, RoundType

LEMMA EvolvesTwice ==
    ASSUME NEW e, NEW r \in RoundType, NEW s, NEW t, Evolves(e, r, s), Evolves(e, s, t),
           t.status = "Cancelled" => s.status = "Cancelled"
    PROVE  Evolves(e, r, t)
<1>1. r.status \in Statuses
  BY DEF RoundType
<1>2. QED
  BY <1>1 DEF Evolves, SameInstants, Recorded, Statuses

\* The loop body of executeRound, though it does two things at once.
LEMMA AdvanceEvolves ==
    ASSUME TypeInv, NEW e \in Epochs
    PROVE  Evolves(e, rounds[e], Advance(e, rounds[e]))
<1>1. rounds[e] \in RoundType /\ RewardFits(rounds[e])
  BY DEF TypeInv, TypeOK, RewardOK, RewardFits
<1>2. TryLock(e, rounds[e]) \in RoundType
  BY <1>1, TryLockType DEF TypeInv
<1>3. \A r \in RoundType : TrySettle(e, r).status = "Cancelled" => r.status = "Cancelled"
  BY DEF TrySettle, SettledAt, RoundType
<1>4. QED
  BY <1>1, <1>2, <1>3, TryLockEvolves, TrySettleEvolves, EvolvesTwice DEF Advance

(***************************************************************************)
(* What one step does to the whole schedule.                               *)
(***************************************************************************)
\* no round is created
ScheduleStays ==
    /\ currentEpoch' = currentEpoch
    /\ terms' = terms
    /\ \A e \in Epochs : Evolves(e, rounds[e], rounds'[e])

\* one round is created behind the last one
FirstRound == OpenRound(now, now + config.interval, now + 2 * config.interval)

ScheduleGrows ==
    /\ currentEpoch + 1 \in Epochs
    /\ currentEpoch' = currentEpoch + 1
    /\ rounds'[currentEpoch + 1] = IF currentEpoch = 0 THEN FirstRound ELSE NextRound
    /\ \A e \in Epochs \ {currentEpoch + 1} :
         terms'[e] = terms[e] /\ Evolves(e, rounds[e], rounds'[e])

LEMMA UntouchedStays ==
    ASSUME TypeInv, UNCHANGED schedule
    PROVE  ScheduleStays
<1>1. \A e \in Epochs : rounds[e] \in RoundType
  BY DEF TypeInv, TypeOK
<1>2. QED
  BY <1>1, EvolvesStill DEF ScheduleStays, schedule

LEMMA OneRoundStays ==
    ASSUME TypeInv, UNCHANGED <<currentEpoch, terms>>,
           NEW e \in Epochs, NEW r, Evolves(e, rounds[e], r),
           rounds' = [rounds EXCEPT ![e] = r]
    PROVE  ScheduleStays
<1>1. rounds \in [Epochs -> RoundType]
  BY DEF TypeInv, TypeOK
<1>2. \A f \in Epochs : rounds'[f] = IF f = e THEN r ELSE rounds[f]
  BY <1>1
<1>3. \A f \in Epochs : Evolves(f, rounds[f], rounds[f])
  BY <1>1, EvolvesStill
<1>4. QED
  BY <1>2, <1>3 DEF ScheduleStays

LEMMA EnterStays ==
    ASSUME TypeInv, NEW a \in Accounts, NEW e \in Epochs, NEW p \in Positions, NEW v,
           Enter(a, e, p, v)
    PROVE  ScheduleStays
<1>1. /\ OpenForEntry(rounds[e])
      /\ rounds' = [rounds EXCEPT ![e] = Entered(rounds[e], p, v)]
      /\ UNCHANGED <<currentEpoch, terms>>
  BY Zenon DEF Enter
<1>2. rounds[e] \in RoundType
  BY DEF TypeInv, TypeOK
<1>3. QED
  BY <1>1, <1>2, EnteredEvolves, OneRoundStays

LEMMA DecisionStays ==
    ASSUME TypeInv, NEW e \in Epochs,
           LockRound(e) \/ SettleRound(e) \/ CancelRound(e) \/ EmergencyCancelRound(e)
    PROVE  ScheduleStays
<1>1. rounds[e] \in RoundType
  BY DEF TypeInv, TypeOK
<1>2. CASE LockRound(e)
  <2>1. /\ rounds' = [rounds EXCEPT ![e] = TryLock(e, rounds[e])]
        /\ UNCHANGED <<currentEpoch, terms>>
    BY <1>2, Zenon DEF LockRound
  <2>2. QED
    BY <1>1, <2>1, TryLockEvolves, OneRoundStays
<1>3. CASE SettleRound(e)
  <2>1. /\ rounds' = [rounds EXCEPT ![e] = TrySettle(e, rounds[e])]
        /\ UNCHANGED <<currentEpoch, terms>>
    BY <1>3, Zenon DEF SettleRound
  <2>2. QED
    BY <1>1, <2>1, TrySettleEvolves, OneRoundStays
<1>4. CASE CancelRound(e) \/ EmergencyCancelRound(e)
  <2>1. /\ rounds' = [rounds EXCEPT ![e].status = "Cancelled"]
        /\ UNCHANGED <<currentEpoch, terms>>
        /\ rounds[e].status \in {"Open", "Locked"}
        /\ Voidable(e, rounds[e])
    <3>1. /\ rounds[e].lockTimestamp \in Nat /\ rounds[e].closeTimestamp \in Nat
          /\ config.bufferSeconds \in Nat /\ now \in Nat
      <4>1. config.bufferSeconds \in BufferRange
        BY DEF TypeInv, TypeOK, ConstructorAccepts, Config
      <4>2. \A b \in BufferRange : b \in Nat
        BY BoundAssumption
      <4>3. config.bufferSeconds \in Nat
        BY <4>1, <4>2, Zenon
      <4>4. rounds[e].lockTimestamp \in Nat /\ rounds[e].closeTimestamp \in Nat
        BY <1>1 DEF RoundType
      <4>5. now \in Nat
        BY BoundAssumption DEF TypeInv, TypeOK, Instants
      <4>6. QED
        BY <4>3, <4>4, <4>5
    <3>2. CASE CancelRound(e)
      BY <3>1, <3>2 DEF CancelRound, Cancellable, Voidable, LockDue
    <3>3. CASE EmergencyCancelRound(e)
      BY <3>1, <3>3 DEF EmergencyCancelRound, Voidable, LockDue
    <3>4. QED
      BY <1>4, <3>2, <3>3
  <2>2. rounds' = [rounds EXCEPT ![e] = [rounds[e] EXCEPT !.status = "Cancelled"]]
    BY <2>1
  <2>3. QED
    BY <1>1, <2>1, <2>2, CancelledEvolves, OneRoundStays
<1>5. QED
  BY <1>2, <1>3, <1>4

LEMMA GenesisGrows ==
    ASSUME TypeInv, GenesisStartRound
    PROVE  ScheduleGrows
<1>1. 1 \in Epochs /\ currentEpoch = 0 /\ currentEpoch + 1 = 1
  BY BoundAssumption DEF GenesisStartRound, Epochs
<1>2. /\ rounds \in [Epochs -> RoundType]
      /\ terms \in [Epochs -> TermsType]
  BY DEF TypeInv, TypeOK
<1>3. /\ rounds' = [rounds EXCEPT ![1] = FirstRound]
      /\ terms' = [terms EXCEPT ![1] = CurrentTerms]
      /\ currentEpoch' = 1
  BY DEF GenesisStartRound, FirstRound
<1>4. \A e \in Epochs \ {1} : rounds'[e] = rounds[e] /\ terms'[e] = terms[e]
  BY <1>2, <1>3
<1>5. \A e \in Epochs : Evolves(e, rounds[e], rounds[e])
  BY <1>2, EvolvesStill
<1>6. QED
  BY <1>1, <1>2, <1>3, <1>4, <1>5 DEF ScheduleGrows

LEMMA StartNextGrows ==
    ASSUME TypeInv, StartNextRound
    PROVE  ScheduleGrows
<1>1. currentEpoch # 0 /\ currentEpoch + 1 \in Epochs
  BY BoundAssumption DEF StartNextRound, NextStartable, TypeInv, TypeOK, Epochs
<1>2. /\ rounds \in [Epochs -> RoundType]
      /\ terms \in [Epochs -> TermsType]
  BY DEF TypeInv, TypeOK
<1>3. /\ rounds' = [rounds EXCEPT ![currentEpoch + 1] = NextRound]
      /\ terms' = [terms EXCEPT ![currentEpoch + 1] = CurrentTerms]
      /\ currentEpoch' = currentEpoch + 1
  BY Zenon DEF StartNextRound
<1>4. \A e \in Epochs \ {currentEpoch + 1} :
        rounds'[e] = rounds[e] /\ terms'[e] = terms[e]
  BY <1>2, <1>3
<1>5. \A e \in Epochs : Evolves(e, rounds[e], rounds[e])
  BY <1>2, EvolvesStill
<1>6. QED
  BY <1>1, <1>2, <1>3, <1>4, <1>5 DEF ScheduleGrows

LEMMA ExecuteSchedule ==
    ASSUME TypeInv, ExecuteRound
    PROVE  ScheduleStays \/ ScheduleGrows
<1> DEFINE scanned == OldestUnresolved..currentEpoch
           advanced == [e \in Epochs |-> IF e \in scanned THEN Advance(e, rounds[e])
                                         ELSE rounds[e]]
<1>1. /\ currentEpoch # 0
      /\ IF NextStartable
         THEN /\ rounds' = [advanced EXCEPT ![currentEpoch + 1] = NextRound]
              /\ terms' = [terms EXCEPT ![currentEpoch + 1] = CurrentTerms]
              /\ currentEpoch' = currentEpoch + 1
         ELSE rounds' = advanced /\ UNCHANGED <<terms, currentEpoch>>
  BY Zenon DEF ExecuteRound
<1>2. \A e \in Epochs : rounds[e] \in RoundType
  BY DEF TypeInv, TypeOK
<1>3. \A e \in Epochs : Evolves(e, rounds[e], advanced[e])
  BY <1>2, AdvanceEvolves, EvolvesStill
<1>4. advanced = [e \in Epochs |-> advanced[e]]
  OBVIOUS
<1> HIDE DEF advanced
<1>5. CASE NextStartable
  <2>1. currentEpoch + 1 \in Epochs
    BY <1>5, BoundAssumption DEF NextStartable, TypeInv, TypeOK, Epochs
  <2>2. terms \in [Epochs -> TermsType]
    BY DEF TypeInv, TypeOK
  <2>3. \A e \in Epochs \ {currentEpoch + 1} :
          rounds'[e] = advanced[e] /\ terms'[e] = terms[e]
    BY <1>1, <1>4, <1>5, <2>2
  <2>4. QED
    BY <1>1, <1>3, <1>4, <1>5, <2>1, <2>3 DEF ScheduleGrows
<1>6. CASE ~NextStartable
  BY <1>1, <1>3, <1>6 DEF ScheduleStays
<1>7. QED
  BY <1>5, <1>6

LEMMA ElsewhereStays ==
    ASSUME TypeInv,
           \/ Tick
           \/ \E o \in Oracles, w \in WindowRange, t \in Instants : OracleAnswers(o, w, t)
           \/ \E a \in Accounts, n \in 0..MaxBatch :
                \E epochs \in [1..n -> Epochs] : Claim(a, epochs)
           \/ SweepToBurner \/ PausePrediction \/ UnpausePrediction
           \/ \E bps \in Proposals.burnFeeBps : ProposeBurnFee(bps)
           \/ CommitBurnFee \/ CancelPendingFee
           \/ \E o \in Proposals.oracle : ProposeOracle(o)
           \/ CommitOracle \/ CancelPendingOracle \/ Configure \/ ForceEther
           \/ UNCHANGED vars
    PROVE  ScheduleStays
<1>1. UNCHANGED schedule
  BY Zenon
  DEF Tick, OracleAnswers, Claim, SweepToBurner, PausePrediction, UnpausePrediction,
      ProposeBurnFee, CommitBurnFee, CancelPendingFee, ProposeOracle, CommitOracle,
      CancelPendingOracle, Configure, ForceEther, vars
<1>2. QED
  BY <1>1, UntouchedStays

\* Every step leaves the rounds on their lifecycle and creates at most the next one.
LEMMA StepSchedule ==
    ASSUME TypeInv, [Next]_vars
    PROVE  ScheduleStays \/ ScheduleGrows
BY EnterStays, DecisionStays, GenesisGrows, StartNextGrows, ExecuteSchedule,
   ElsewhereStays, Zenon
DEF Next

(***************************************************************************)
(* The schedule.  BoundariesMeet is inductive given the types: a new round *)
(* is derived from the stored instants of the last one, which never move.  *)
(***************************************************************************)
LEMMA BoundariesStay ==
    ASSUME TypeInv, TypeInv', BoundariesMeet, ScheduleStays
    PROVE  BoundariesMeet'
<1>1. \A e \in Epochs : /\ SameInstants(rounds[e], rounds'[e])
                        /\ rounds'[e].status = "Pending" <=> rounds[e].status = "Pending"
  BY DEF ScheduleStays, Evolves
<1>2. currentEpoch' = currentEpoch /\ currentEpoch \in 0..MaxEpoch
  BY DEF ScheduleStays, TypeInv, TypeOK
<1>3. \A e \in Epochs : e < currentEpoch => e + 1 \in Epochs
  BY <1>2, BoundAssumption DEF Epochs
<1>4. QED
  BY <1>1, <1>2, <1>3 DEF BoundariesMeet, SameInstants

LEMMA BoundariesGrow ==
    ASSUME TypeInv, TypeInv', BoundariesMeet, ScheduleGrows
    PROVE  BoundariesMeet'
<1> DEFINE n == currentEpoch + 1
<1>1. /\ currentEpoch \in 0..MaxEpoch /\ n \in Epochs /\ currentEpoch' = n
      /\ currentEpoch # 0 => currentEpoch \in Epochs
      /\ \A e \in Epochs : e \in Nat /\ e # 0
  BY BoundAssumption DEF ScheduleGrows, TypeInv, TypeOK, Epochs
<1>2. \A e \in Epochs \ {n} :
        /\ SameInstants(rounds[e], rounds'[e])
        /\ rounds'[e].status = "Pending" <=> rounds[e].status = "Pending"
  BY DEF ScheduleGrows, Evolves
<1>3. now \in Nat /\ config.interval \in Nat /\ config.interval > 0
  <2>1. config.interval \in IntervalRange /\ now \in Nat
    BY BoundAssumption DEF TypeInv, TypeOK, ConstructorAccepts, Config, Instants
  <2>2. \A i \in IntervalRange : i \in Nat /\ i > 0
    BY BoundAssumption
  <2>3. QED
    BY <2>1, <2>2
<1>4. /\ rounds'[n].status # "Pending"
      /\ rounds'[n].startTimestamp < rounds'[n].lockTimestamp
      /\ rounds'[n].lockTimestamp < rounds'[n].closeTimestamp
      /\ currentEpoch # 0 =>
           /\ rounds[currentEpoch].closeTimestamp = rounds'[n].lockTimestamp
           /\ rounds[currentEpoch].lockTimestamp = rounds'[n].startTimestamp
  <2>1. CASE currentEpoch = 0
    <3>1. rounds'[n] = FirstRound
      BY <2>1 DEF ScheduleGrows
    <3>2. now < now + config.interval /\ now + config.interval < now + 2 * config.interval
      BY <1>3
    <3>3. QED
      BY <2>1, <3>1, <3>2 DEF FirstRound, OpenRound, NoRound
  <2>2. CASE currentEpoch # 0
    <3>1. /\ rounds'[n] = NextRound
          /\ rounds[currentEpoch] \in RoundType
          /\ rounds[currentEpoch].lockTimestamp < rounds[currentEpoch].closeTimestamp
      BY <1>1, <2>2 DEF ScheduleGrows, BoundariesMeet, TypeInv, TypeOK
    <3>2. \A c \in Nat : c < c + config.interval
      BY <1>3
    <3>3. rounds[currentEpoch].closeTimestamp \in Nat
      BY <3>1 DEF RoundType
    <3>4. QED
      BY <3>1, <3>2, <3>3 DEF NextRound, OpenRound, NoRound
  <2>3. QED
    BY <2>1, <2>2
<1>5. \A e \in Epochs : (e <= n <=> e = n \/ e <= currentEpoch)
                      /\ (e < n <=> e = currentEpoch \/ e < currentEpoch)
                      /\ (e < currentEpoch => e + 1 \in Epochs \ {n} /\ e # n)
                      /\ (e = currentEpoch => e + 1 = n /\ e # n)
                      /\ (e <= currentEpoch => e # n)
  <2>1. MaxEpoch \in Nat /\ currentEpoch \in 0..MaxEpoch /\ n \in 1..MaxEpoch
    BY <1>1, BoundAssumption DEF Epochs
  <2>2. QED
    BY <2>1 DEF Epochs
<1> HIDE DEF n
<1>6. ASSUME NEW e \in Epochs
      PROVE  /\ rounds'[e].status # "Pending" <=> e <= n
             /\ e <= n => /\ rounds'[e].startTimestamp < rounds'[e].lockTimestamp
                          /\ rounds'[e].lockTimestamp < rounds'[e].closeTimestamp
  BY <1>2, <1>4, <1>5 DEF BoundariesMeet, SameInstants
<1>7. ASSUME NEW e \in Epochs, e < n
      PROVE  /\ rounds'[e].closeTimestamp = rounds'[e + 1].lockTimestamp
             /\ rounds'[e].lockTimestamp = rounds'[e + 1].startTimestamp
  <2>1. CASE e = currentEpoch
    BY <1>1, <1>2, <1>4, <1>5, <2>1 DEF SameInstants
  <2>2. CASE e < currentEpoch
    BY <1>2, <1>5, <2>2 DEF BoundariesMeet, SameInstants
  <2>3. QED
    BY <1>5, <1>7, <2>1, <2>2
<1>8. QED
  BY <1>1, <1>6, <1>7 DEF BoundariesMeet

\* Round n closes at the instant round n + 1 locks, however the interval changes and
\* however late any of the transactions are.
THEOREM BoundariesAlwaysMeet == Spec => []BoundariesMeet
<1>1. Init => BoundariesMeet
  BY BoundAssumption DEF Init, BoundariesMeet, NoRound, Epochs
<1>2. TypeInv /\ TypeInv' /\ BoundariesMeet /\ [Next]_vars => BoundariesMeet'
  BY StepSchedule, BoundariesStay, BoundariesGrow
<1>3. QED
  BY <1>1, <1>2, TypeCorrect, PTL DEF Spec

(***************************************************************************)
(* History.                                                                *)
(***************************************************************************)
LEMMA HistoryStep ==
    ASSUME TypeInv, BoundariesMeet, [Next]_vars
    PROVE  HistoryKept
<1>1. ASSUME NEW e \in Epochs, Evolves(e, rounds[e], rounds'[e]), terms'[e] = terms[e]
      PROVE  LET r == rounds[e]
                 s == rounds'[e]
             IN  /\ r.status # "Pending" =>
                      /\ terms'[e] = terms[e]
                      /\ s.startTimestamp = r.startTimestamp
                      /\ s.lockTimestamp = r.lockTimestamp
                      /\ s.closeTimestamp = r.closeTimestamp
                 /\ r.status = "Locked" =>
                      /\ s.status \in {"Locked", "Settled", "Cancelled"}
                      /\ s.lockPrice = r.lockPrice
                      /\ s.bullAmount = r.bullAmount /\ s.bearAmount = r.bearAmount
                 /\ Decided(e) => s = r
  BY <1>1 DEF Evolves, SameInstants, Decided
<1>2. CASE ScheduleStays
  BY <1>1, <1>2 DEF ScheduleStays, HistoryKept
<1>3. CASE ScheduleGrows
  <2>1. rounds[currentEpoch + 1].status = "Pending"
    BY <1>3 DEF ScheduleGrows, BoundariesMeet, TypeInv, TypeOK
  <2>2. QED
    BY <1>1, <1>3, <2>1 DEF ScheduleGrows, HistoryKept, Decided
<1>4. QED
  BY <1>2, <1>3, StepSchedule

\* Nothing rewrites what is decided: instants and terms of a round that exists, lock
\* price and pools of a locked one, everything of a settled or cancelled one.
THEOREM HistoryNeverRewritten == Spec => HistoryIsFinal
<1>1. TypeInv /\ BoundariesMeet /\ [Next]_vars => [HistoryKept]_vars
  BY HistoryStep
<1>2. QED
  BY <1>1, TypeCorrect, BoundariesAlwaysMeet, PTL DEF Spec, HistoryIsFinal

(***************************************************************************)
(* Entries.  A round that does not exist yet is blank, so every change of  *)
(* its pool after that is an entry.                                        *)
(***************************************************************************)
BlankUntilCreated ==
    \A e \in Epochs : rounds[e].status = "Pending" => rounds[e] = NoRound

LEMMA NewRoundBlank ==
    ASSUME TypeInv, ScheduleGrows
    PROVE  LET s == rounds'[currentEpoch + 1]
           IN  /\ s.status = "Open" /\ s.totalAmount = 0
               /\ s.lockPrice = 0 /\ s.closePrice = 0
BY DEF ScheduleGrows, FirstRound, NextRound, OpenRound, NoRound

LEMMA BlankStep ==
    ASSUME TypeInv, BlankUntilCreated, [Next]_vars
    PROVE  BlankUntilCreated'
<1>1. \A e \in Epochs : Evolves(e, rounds[e], rounds'[e]) =>
        (rounds'[e].status = "Pending" => rounds'[e] = NoRound)
  BY DEF Evolves, BlankUntilCreated
<1>2. QED
  BY <1>1, StepSchedule, NewRoundBlank
  DEF ScheduleStays, ScheduleGrows, BlankUntilCreated

LEMMA AlwaysBlank == Spec => []BlankUntilCreated
<1>1. Init => BlankUntilCreated
  BY DEF Init, BlankUntilCreated
<1>2. QED
  BY <1>1, BlankStep, TypeCorrect, PTL DEF Spec

\* No honest oracle has answered about an instant still to come.
AnswersArePast ==
    \A o \in Oracles \ FaultyOracles, w \in WindowRange, t \in Instants :
        feed[o][w][t] # Unsealed => now >= t

LEMMA AnswersStep ==
    ASSUME TypeInv, TypeInv', AnswersArePast, [Next]_vars
    PROVE  AnswersArePast'
<1>1. now \in Nat /\ now' \in Nat
  BY BoundAssumption DEF TypeInv, TypeOK, Instants
<1>2. ASSUME feed' = feed, now' >= now
      PROVE  AnswersArePast'
  <2> SUFFICES ASSUME NEW o \in Oracles \ FaultyOracles, NEW w \in WindowRange,
                      NEW t \in Instants, feed'[o][w][t] # Unsealed
               PROVE  now' >= t
    BY DEF AnswersArePast
  <2>1. now >= t /\ t \in Nat
    BY <1>2, BoundAssumption DEF AnswersArePast, Instants
  <2>2. QED
    BY <1>1, <1>2, <2>1
<1>3. CASE Tick
  BY <1>1, <1>2, <1>3 DEF Tick
<1>4. ASSUME NEW o \in Oracles, NEW w \in WindowRange, NEW t \in Instants,
             OracleAnswers(o, w, t)
      PROVE  AnswersArePast'
  <2>1. now >= t /\ now' = now
    <3>1. PICK e \in Epochs :
            \/ LockDue(rounds[e]) /\ rounds[e].lockTimestamp = t
            \/ rounds[e].status \in {"Open", "Locked"}
               /\ now >= t /\ rounds[e].closeTimestamp = t
      BY <1>4, Zenon DEF OracleAnswers, Awaited
    <3>2. QED
      BY <1>4, <3>1 DEF LockDue, OracleAnswers
  <2>2. PICK new \in Answer : feed' = [feed EXCEPT ![o][w][t] = new]
    BY <1>4, Zenon DEF OracleAnswers
  <2>3. feed \in [Oracles -> [WindowRange -> [Instants -> Answer]]]
    BY DEF TypeInv, TypeOK
  <2>4. ASSUME NEW p \in Oracles \ FaultyOracles, NEW v \in WindowRange,
               NEW u \in Instants, feed'[p][v][u] # Unsealed
        PROVE  now' >= u
    <3>1. CASE p = o /\ v = w /\ u = t
      BY <2>1, <3>1
    <3>2. CASE ~(p = o /\ v = w /\ u = t)
      <4>1. feed'[p][v][u] = feed[p][v][u]
        BY <2>2, <2>3, <3>2
      <4>2. QED
        BY <2>1, <2>4, <4>1 DEF AnswersArePast
    <3>3. QED
      BY <3>1, <3>2
  <2>5. QED
    BY <2>4 DEF AnswersArePast
<1>5. CASE UNCHANGED vars
  BY <1>1, <1>2, <1>5 DEF vars
<1>6. ASSUME Next, ~Tick,
             ~\E o \in Oracles, w \in WindowRange, t \in Instants : OracleAnswers(o, w, t)
      PROVE  AnswersArePast'
  <2>1. UNCHANGED <<now, feed>>
    BY <1>6, Zenon
    DEF Next, Enter, GenesisStartRound, StartNextRound, ExecuteRound, LockRound,
        SettleRound, CancelRound, EmergencyCancelRound, Claim, SweepToBurner,
        PausePrediction, UnpausePrediction, ProposeBurnFee, CommitBurnFee,
        CancelPendingFee, ProposeOracle, CommitOracle, CancelPendingOracle, Configure,
        ForceEther, money
  <2>2. QED
    BY <1>1, <1>2, <2>1
<1>7. QED
  BY <1>3, <1>4, <1>5, <1>6

LEMMA AnswersAlwaysPast == Spec => []AnswersArePast
<1>1. Init => AnswersArePast
  BY DEF Init, AnswersArePast
<1>2. TypeInv /\ TypeInv' /\ AnswersArePast /\ [Next]_vars => AnswersArePast'
  BY AnswersStep
<1>3. QED
  BY <1>1, <1>2, TypeCorrect, PTL DEF Spec

LEMMA EntryStep ==
    ASSUME TypeInv, BoundariesMeet, BlankUntilCreated, AnswersArePast, [Next]_vars
    PROVE  EntriesPrecedeLockPrice
<1>1. /\ now \in Nat
      /\ \A e \in Epochs : rounds[e].lockTimestamp \in Nat
      /\ \A t \in Instants : t \in Nat
  BY BoundAssumption DEF TypeInv, TypeOK, RoundType, Instants
<1>2. ASSUME NEW e \in Epochs, Evolves(e, rounds[e], rounds'[e]),
             rounds'[e].totalAmount # rounds[e].totalAmount,
             NEW o \in Oracles \ FaultyOracles, NEW w \in WindowRange,
             NEW t \in Instants, t >= rounds[e].lockTimestamp
      PROVE  feed[o][w][t] = Unsealed
  <2>1. ~(now >= rounds[e].lockTimestamp)
    BY <1>1, <1>2 DEF Evolves
  <2>2. ~(now >= t)
    BY <1>1, <1>2, <2>1
  <2>3. QED
    BY <2>2 DEF AnswersArePast
<1>3. CASE ScheduleStays
  BY <1>2, <1>3 DEF ScheduleStays, EntriesPrecedeLockPrice
<1>4. CASE ScheduleGrows
  <2>1. rounds[currentEpoch + 1] = NoRound
    BY <1>4 DEF ScheduleGrows, BoundariesMeet, BlankUntilCreated, TypeInv, TypeOK
  <2>2. rounds'[currentEpoch + 1].totalAmount = rounds[currentEpoch + 1].totalAmount
    BY <1>4, <2>1, NewRoundBlank DEF NoRound
  <2>3. QED
    BY <1>2, <1>4, <2>2 DEF ScheduleGrows, EntriesPrecedeLockPrice
<1>5. QED
  BY <1>3, <1>4, StepSchedule

\* When anybody stakes on a round, no oracle that keeps its promises has said anything
\* yet about the round's lock instant or a later one, over any window: the entry window
\* ends, by the clock alone, before the first instant at which a price could be known.
THEOREM EntriesAreBlind == Spec => NoEntryOnceLockPriceIsKnown
<1>1. TypeInv /\ BoundariesMeet /\ BlankUntilCreated /\ AnswersArePast /\ [Next]_vars
        => [EntriesPrecedeLockPrice]_vars
  BY EntryStep
<1>2. QED
  BY <1>1, TypeCorrect, BoundariesAlwaysMeet, AlwaysBlank, AnswersAlwaysPast, PTL
  DEF Spec, NoEntryOnceLockPriceIsKnown

(***************************************************************************)
(* Prices.  SharedBoundaryAgrees is not inductive: an oracle may lose the  *)
(* price of an instant between its two readings.  What stays true is that  *)
(* an honest oracle still quotes a price that was recorded, or has lost it *)
(* for good.                                                               *)
(***************************************************************************)
HonestFeed ==
    \A o \in Oracles \ FaultyOracles, w \in WindowRange, t \in Instants :
        \/ feed[o][w][t] \in {Unsealed, Evicted}
        \/ \E p \in Prices : feed[o][w][t] = Sealed(p)

Remembers(answer, price) == answer = Evicted \/ answer = Sealed(price)

AnswerFor(e, t) == feed[terms[e].oracle][terms[e].twapWindow][t]

LEMMA AnswersDiffer ==
    /\ Unsealed # Evicted /\ ~Unsealed.ok /\ ~Evicted.ok
    /\ Unsealed.price = 0 /\ Evicted.price = 0
    /\ \A p : Sealed(p).ok /\ Sealed(p).price = p
              /\ Sealed(p) # Evicted /\ Sealed(p) # Unsealed
BY DEF Unsealed, Evicted, Sealed

\* An honest oracle adds prices and loses them; it never changes one.
LEMMA HonestStep ==
    ASSUME TypeInv, HonestFeed, [Next]_vars
    PROVE  /\ HonestFeed'
           /\ \A o \in Oracles \ FaultyOracles, w \in WindowRange, t \in Instants : \A p :
                Remembers(feed[o][w][t], p) => Remembers(feed'[o][w][t], p)
           /\ feed' = feed \/ UNCHANGED schedule
<1>1. CASE feed' = feed
  BY <1>1 DEF HonestFeed
<1>2. ASSUME NEW o \in Oracles, NEW w \in WindowRange, NEW t \in Instants,
             OracleAnswers(o, w, t)
      PROVE  /\ HonestFeed'
             /\ \A q \in Oracles \ FaultyOracles, v \in WindowRange, u \in Instants : \A p :
                  Remembers(feed[q][v][u], p) => Remembers(feed'[q][v][u], p)
             /\ UNCHANGED schedule
  <2>1. PICK new \in Answer : /\ MayAnswer(o, feed[o][w][t], new)
                             /\ feed' = [feed EXCEPT ![o][w][t] = new]
    BY <1>2, Zenon DEF OracleAnswers
  <2>2. UNCHANGED schedule
    BY <1>2, Zenon DEF OracleAnswers
  <2>3. \A q \in Oracles, v \in WindowRange, u \in Instants :
          feed'[q][v][u] = IF q = o /\ v = w /\ u = t THEN new ELSE feed[q][v][u]
    BY <2>1 DEF TypeInv, TypeOK
  <2>4. o \notin FaultyOracles =>
          /\ \/ new = Evicted
             \/ \E p \in Prices : new = Sealed(p)
          /\ \A p : Remembers(feed[o][w][t], p) => new = Evicted
    <3>1. ASSUME o \notin FaultyOracles
          PROVE  \/ feed[o][w][t] = Unsealed /\ new \in {Sealed(p) : p \in Prices}
                 \/ feed[o][w][t].ok /\ new = Evicted
      BY <2>1, <3>1 DEF MayAnswer
    <3>2. QED
      BY <3>1, AnswersDiffer, Zenon DEF Remembers
  <2>5. QED
    BY <2>2, <2>3, <2>4 DEF HonestFeed, Remembers
<1>3. CASE ~(\E o \in Oracles, w \in WindowRange, t \in Instants : OracleAnswers(o, w, t))
  <2>1. feed' = feed
    BY <1>3, Zenon
    DEF Next, vars, Tick, Enter, GenesisStartRound, StartNextRound, ExecuteRound, LockRound,
        SettleRound, CancelRound, EmergencyCancelRound, Claim, SweepToBurner,
        PausePrediction, UnpausePrediction, ProposeBurnFee, CommitBurnFee, CancelPendingFee,
        ProposeOracle, CommitOracle, CancelPendingOracle, Configure, ForceEther
  <2>2. QED
    BY <1>1, <2>1
<1>4. QED
  BY <1>2, <1>3

\* a price an honest oracle quotes is one it has sealed
LEMMA QuoteIsSealed ==
    ASSUME TypeInv, HonestFeed, NEW e \in Epochs, NEW t \in Instants,
           terms[e].oracle \notin FaultyOracles, Quotes(e, t)
    PROVE  AnswerFor(e, t) = Sealed(PriceAt(e, t))
<1>1. terms[e].oracle \in Oracles \ FaultyOracles /\ terms[e].twapWindow \in WindowRange
  BY DEF TypeInv, TypeOK, TermsType
<1>2. \/ AnswerFor(e, t) \in {Unsealed, Evicted}
      \/ \E p \in Prices : AnswerFor(e, t) = Sealed(p)
  BY <1>1 DEF HonestFeed, AnswerFor
<1>3. PriceAt(e, t) = AnswerFor(e, t).price /\ PriceAt(e, t) # 0
  BY DEF PriceAt, AnswerFor, Quotes
<1>4. QED
  BY <1>2, <1>3, AnswersDiffer

RoundPrices(e) ==
    terms[e].oracle \notin FaultyOracles =>
        /\ rounds[e].lockPrice # 0 =>
             /\ rounds[e].lockTimestamp \in Instants
             /\ Remembers(AnswerFor(e, rounds[e].lockTimestamp), rounds[e].lockPrice)
        /\ rounds[e].status = "Settled" =>
             /\ rounds[e].closeTimestamp \in Instants
             /\ Remembers(AnswerFor(e, rounds[e].closeTimestamp), rounds[e].closePrice)

\* the same of the next state
NextAnswerFor(e, t) == feed'[terms'[e].oracle][terms'[e].twapWindow][t]

NextRoundPrices(e) ==
    terms'[e].oracle \notin FaultyOracles =>
        /\ rounds'[e].lockPrice # 0 =>
             /\ rounds'[e].lockTimestamp \in Instants
             /\ Remembers(NextAnswerFor(e, rounds'[e].lockTimestamp), rounds'[e].lockPrice)
        /\ rounds'[e].status = "Settled" =>
             /\ rounds'[e].closeTimestamp \in Instants
             /\ Remembers(NextAnswerFor(e, rounds'[e].closeTimestamp), rounds'[e].closePrice)

LEMMA RoundPricesStep ==
    ASSUME TypeInv, HonestFeed, [Next]_vars, NEW e \in Epochs, RoundPrices(e),
           Evolves(e, rounds[e], rounds'[e]), terms'[e] = terms[e]
    PROVE  NextRoundPrices(e)
<1> SUFFICES ASSUME terms[e].oracle \notin FaultyOracles
             PROVE  /\ rounds'[e].lockPrice # 0 =>
                         /\ rounds[e].lockTimestamp \in Instants
                         /\ Remembers(NextAnswerFor(e, rounds[e].lockTimestamp),
                                      rounds'[e].lockPrice)
                    /\ rounds'[e].status = "Settled" =>
                         /\ rounds[e].closeTimestamp \in Instants
                         /\ Remembers(NextAnswerFor(e, rounds[e].closeTimestamp),
                                      rounds'[e].closePrice)
  BY DEF NextRoundPrices, Evolves, SameInstants
<1>1. /\ rounds[e] \in RoundType
      /\ terms[e].oracle \in Oracles \ FaultyOracles
      /\ terms[e].twapWindow \in WindowRange
      /\ now \in Instants
  BY DEF TypeInv, TypeOK, TermsType
<1>2. \A t \in Instants : \A p :
        Remembers(AnswerFor(e, t), p) => Remembers(NextAnswerFor(e, t), p)
  BY <1>1, HonestStep DEF AnswerFor, NextAnswerFor
<1>3. \A t \in Nat : now >= t => t \in Instants
  BY <1>1, BoundAssumption DEF Instants
<1>4. \A t \in Instants : Quotes(e, t) => Remembers(NextAnswerFor(e, t), PriceAt(e, t))
  BY <1>2, QuoteIsSealed DEF Remembers
<1>5. rounds[e].lockTimestamp \in Nat /\ rounds[e].closeTimestamp \in Nat
  BY <1>1 DEF RoundType
<1>6. rounds'[e].lockPrice # 0 =>
        /\ rounds[e].lockTimestamp \in Instants
        /\ Remembers(NextAnswerFor(e, rounds[e].lockTimestamp), rounds'[e].lockPrice)
  <2>1. CASE rounds'[e].lockPrice = rounds[e].lockPrice
    BY <1>2, <2>1 DEF RoundPrices
  <2>2. CASE rounds'[e].lockPrice # rounds[e].lockPrice
    BY <1>3, <1>4, <1>5, <2>2 DEF Evolves, Recorded
  <2>3. QED
    BY <2>1, <2>2
<1>7. rounds'[e].status = "Settled" =>
        /\ rounds[e].closeTimestamp \in Instants
        /\ Remembers(NextAnswerFor(e, rounds[e].closeTimestamp), rounds'[e].closePrice)
  <2>1. CASE rounds[e].status = "Settled"
    BY <1>2, <2>1 DEF RoundPrices, Evolves
  <2>2. CASE rounds[e].status # "Settled"
    BY <1>3, <1>4, <1>5, <2>2 DEF Evolves
  <2>3. QED
    BY <2>1, <2>2
<1>8. QED
  BY <1>6, <1>7

PricesKept == HonestFeed /\ \A e \in Epochs : RoundPrices(e)

LEMMA PricesKeptStep ==
    ASSUME TypeInv, PricesKept, [Next]_vars
    PROVE  PricesKept'
<1>1. HonestFeed'
  BY HonestStep DEF PricesKept
<1>2. \A e \in Epochs : NextRoundPrices(e)
  <2>1. CASE ScheduleStays
    BY <2>1, RoundPricesStep DEF ScheduleStays, PricesKept
  <2>2. CASE ScheduleGrows
    <3>1. NextRoundPrices(currentEpoch + 1)
      BY <2>2, NewRoundBlank DEF NextRoundPrices
    <3>2. \A e \in Epochs \ {currentEpoch + 1} : NextRoundPrices(e)
      BY <2>2, RoundPricesStep DEF ScheduleGrows, PricesKept
    <3>3. QED
      BY <3>1, <3>2
  <2>3. QED
    BY <2>1, <2>2, StepSchedule
<1>3. QED
  BY <1>1, <1>2 DEF PricesKept, RoundPrices, NextRoundPrices, AnswerFor, NextAnswerFor

LEMMA AlwaysPricesKept == Spec => []PricesKept
<1>1. Init => PricesKept
  BY DEF Init, PricesKept, HonestFeed, RoundPrices, NoRound
<1>2. QED
  BY <1>1, PricesKeptStep, TypeCorrect, PTL DEF Spec

LEMMA BoundaryStep ==
    ASSUME TypeInv, TypeInv', BoundariesMeet', BlankUntilCreated', PricesKept, PricesKept',
           SharedBoundaryAgrees, [Next]_vars
    PROVE  SharedBoundaryAgrees'
<1> SUFFICES ASSUME NEW e \in Epochs \ {MaxEpoch},
                    terms'[e].oracle \notin FaultyOracles,
                    rounds'[e].status = "Settled", rounds'[e + 1].lockPrice # 0,
                    terms'[e].oracle = terms'[e + 1].oracle,
                    terms'[e].twapWindow = terms'[e + 1].twapWindow
             PROVE  rounds'[e].closePrice = rounds'[e + 1].lockPrice
  BY DEF SharedBoundaryAgrees
<1> DEFINE f == e + 1
           t == rounds'[e].closeTimestamp
<1>1. e \in Epochs /\ f \in Epochs /\ currentEpoch' \in 0..MaxEpoch
  BY BoundAssumption DEF Epochs, TypeInv, TypeOK
<1>2. t = rounds'[f].lockTimestamp
  <2>1. rounds'[f].status # "Pending"
    BY <1>1 DEF BlankUntilCreated, NoRound
  <2>2. f <= currentEpoch'
    BY <1>1, <2>1 DEF BoundariesMeet
  <2>3. e < currentEpoch'
    BY <1>1, <2>2 DEF Epochs
  <2>4. QED
    BY <1>1, <2>3 DEF BoundariesMeet
<1>3. /\ t \in Instants
      /\ NextAnswerFor(e, t) = NextAnswerFor(f, t)
      /\ Remembers(NextAnswerFor(e, t), rounds'[e].closePrice)
      /\ Remembers(NextAnswerFor(e, t), rounds'[f].lockPrice)
  BY <1>1, <1>2 DEF PricesKept, RoundPrices, AnswerFor, NextAnswerFor
<1>4. /\ Evolves(e, rounds[e], rounds'[e]) /\ terms'[e] = terms[e]
      /\ Evolves(f, rounds[f], rounds'[f]) /\ terms'[f] = terms[f]
  BY <1>1, StepSchedule, NewRoundBlank DEF ScheduleStays, ScheduleGrows
<1>5. ASSUME rounds'[f].lockPrice = rounds[f].lockPrice, rounds[e].status = "Settled"
      PROVE  rounds'[e].closePrice = rounds'[f].lockPrice
  BY <1>1, <1>4, <1>5 DEF SharedBoundaryAgrees, Evolves
<1>6. CASE UNCHANGED schedule
  BY <1>5, <1>6 DEF schedule
<1>7. CASE feed' = feed /\ NextAnswerFor(e, t) = Evicted
  <2>1. ~Quotes(e, t) /\ ~Quotes(f, t)
    BY <1>3, <1>4, <1>7, AnswersDiffer DEF Quotes, PriceAt, NextAnswerFor
  <2>2. t = rounds[e].closeTimestamp /\ t = rounds[f].lockTimestamp
    BY <1>2, <1>4 DEF Evolves, SameInstants
  <2>3. QED
    BY <1>4, <1>5, <2>1, <2>2 DEF Evolves, Recorded
<1>8. CASE NextAnswerFor(e, t) # Evicted
  BY <1>3, <1>8, AnswersDiffer DEF Remembers
<1>9. QED
  BY <1>6, <1>7, <1>8, HonestStep DEF PricesKept

\* Two consecutive rounds under the same terms read the same price at the instant they
\* share, whoever locks and settles them, in whatever order, and however late.
THEOREM BoundariesAlwaysAgree == Spec => []SharedBoundaryAgrees
<1>1. Init => SharedBoundaryAgrees
  BY DEF Init, SharedBoundaryAgrees, NoRound
<1>2. QED
  BY <1>1, BoundaryStep, TypeCorrect, BoundariesAlwaysMeet, AlwaysBlank, AlwaysPricesKept, PTL
  DEF Spec

\* an honest oracle quotes nothing for an instant its canQuote refuses
LEMMA RefusedIsUnquoted ==
    ASSUME TypeInv, HonestFeed, NEW e \in Epochs, NEW t \in Instants,
           terms[e].oracle \notin FaultyOracles, ~Probe(e, t)
    PROVE  ~Quotes(e, t)
<1>1. SUFFICES ASSUME Quotes(e, t) PROVE Probe(e, t)
  OBVIOUS
<1>2. AnswerFor(e, t) = Sealed(PriceAt(e, t))
  BY <1>1, QuoteIsSealed
<1>3. QED
  BY <1>2, AnswersDiffer DEF Probe, AnswerFor

LEMMA VoidStep ==
    ASSUME TypeInv, HonestFeed, BoundariesMeet, [Next]_vars
    PROVE  VoidsAreUnpriceable
<1>1. ASSUME NEW e \in Epochs, Voidable(e, rounds[e]),
             terms[e].oracle \notin FaultyOracles
      PROVE  /\ LockDue(rounds[e]) => ~Quotes(e, rounds[e].lockTimestamp)
             /\ rounds[e].status = "Locked" => ~Quotes(e, rounds[e].closeTimestamp)
  <2>1. /\ LockDue(rounds[e]) => rounds[e].lockTimestamp \in Instants
        /\ CloseDue(rounds[e]) => rounds[e].closeTimestamp \in Instants
    BY DueInstants DEF TypeInv, TypeOK
  <2>2. QED
    BY <1>1, <2>1, RefusedIsUnquoted DEF Voidable, CloseDue
<1>2. \A e \in Epochs :
        rounds[e].status # "Cancelled" /\ rounds'[e].status = "Cancelled"
          => Voidable(e, rounds[e])
  BY StepSchedule, NewRoundBlank DEF ScheduleStays, ScheduleGrows, Evolves
<1>3. QED
  BY <1>1, <1>2 DEF VoidsAreUnpriceable

\* No transaction, emergency or not, voids a round that its own oracle can price.
THEOREM PriceableRoundsStand == Spec => NoVoidOfPriceableRound
<1>1. TypeInv /\ PricesKept /\ BoundariesMeet /\ [Next]_vars => [VoidsAreUnpriceable]_vars
  BY VoidStep DEF PricesKept
<1>2. QED
  BY <1>1, TypeCorrect, AlwaysPricesKept, BoundariesAlwaysMeet, PTL
  DEF Spec, NoVoidOfPriceableRound

(***************************************************************************)
(* Execution.  One call advances each round it scans as far as the prices  *)
(* of the moment allow.                                                    *)
(***************************************************************************)
\* what the loop body leaves undone cannot be done
LEMMA AdvanceIsFinal ==
    ASSUME TypeInv, NEW e \in Epochs, NEW r, r = Advance(e, rounds[e])
    PROVE  /\ ~(LockDue(r) /\ Quotes(e, rounds[e].lockTimestamp))
           /\ ~(CloseDue(r) /\ Quotes(e, rounds[e].closeTimestamp))
<1> DEFINE old == rounds[e]
           s == TryLock(e, old)
<1>1. old \in RoundType /\ RewardFits(old)
  BY DEF TypeInv, TypeOK, RewardOK, RewardFits
<1>2. s \in RoundType /\ Evolves(e, old, s)
  BY <1>1, TryLockType, TryLockEvolves DEF TypeInv
<1>3. ~(LockDue(s) /\ Quotes(e, old.lockTimestamp))
  <2>1. CASE LockDue(old) /\ Quotes(e, old.lockTimestamp)
    <3>1. s.status = "Locked"
      BY <1>1, <2>1 DEF TryLock, LockedAt, RoundType
    <3>2. QED
      BY <3>1 DEF LockDue
  <2>2. CASE ~(LockDue(old) /\ Quotes(e, old.lockTimestamp))
    BY <2>2 DEF TryLock
  <2>3. QED
    BY <2>1, <2>2
<1>4. s.closeTimestamp = old.closeTimestamp
  BY <1>2 DEF Evolves, SameInstants
<1> HIDE DEF s
<1>5. r = TrySettle(e, s)
  BY DEF Advance, s
<1>6. CASE Settles(e, s)
  <2>1. r.status = "Settled"
    BY <1>2, <1>5, <1>6 DEF TrySettle, SettledAt, RoundType
  <2>2. QED
    BY <2>1 DEF LockDue, CloseDue
<1>7. CASE ~Settles(e, s)
  <2>1. r = s
    BY <1>5, <1>7 DEF TrySettle
  <2>2. QED
    BY <1>3, <1>4, <1>7, <2>1 DEF Settles
<1>8. QED
  BY <1>6, <1>7

\* One executeRound leaves nothing it could still do in the window it scanned.
THEOREM ExecuteAlwaysCatchesUp == Spec => ExecuteCatchesUp
<1> DEFINE CaughtUp ==
             ExecuteRound =>
               \A e \in OldestUnresolved..currentEpoch :
                 /\ ~(LockDue(rounds'[e]) /\ Quotes(e, rounds[e].lockTimestamp))
                 /\ ~(CloseDue(rounds'[e]) /\ Quotes(e, rounds[e].closeTimestamp))
<1>1. TypeInv /\ [Next]_vars => [CaughtUp]_vars
  <2> SUFFICES ASSUME TypeInv, ExecuteRound,
                      NEW e \in OldestUnresolved..currentEpoch
               PROVE  /\ ~(LockDue(rounds'[e]) /\ Quotes(e, rounds[e].lockTimestamp))
                      /\ ~(CloseDue(rounds'[e]) /\ Quotes(e, rounds[e].closeTimestamp))
    OBVIOUS
  <2> DEFINE scanned == OldestUnresolved..currentEpoch
             advanced == [d \in Epochs |-> IF d \in scanned THEN Advance(d, rounds[d])
                                           ELSE rounds[d]]
  <2>1. IF NextStartable
        THEN rounds' = [advanced EXCEPT ![currentEpoch + 1] = NextRound]
        ELSE rounds' = advanced
    BY Zenon DEF ExecuteRound
  <2>2. e \in Epochs /\ e # currentEpoch + 1
    <3>1. TypeOK
      BY DEF TypeInv
    <3>2. OldestUnresolved \in Nat /\ OldestUnresolved..currentEpoch \subseteq Epochs
      BY <3>1, ScanFacts
    <3>3. currentEpoch \in Nat
      BY <3>1, BoundAssumption DEF TypeOK
    <3>4. QED
      BY <3>2, <3>3
  <2>3. rounds'[e] = Advance(e, rounds[e])
    BY <2>1, <2>2
  <2>4. QED
    BY <2>2, <2>3, AdvanceIsFinal
<1>2. QED
  BY <1>1, TypeCorrect, PTL DEF Spec, ExecuteCatchesUp

(***************************************************************************)
(* The scan window.  Rounds of one length or more are spaced at least that *)
(* far apart, and a round is created only once the one before it can lock, *)
(* so an old round can still be within tolerance only if the rounds after  *)
(* it were shorter than the interval the window is computed with.          *)
(***************************************************************************)
\* rounds that last k or more after their lock close k or more apart
RoundsAreSpaced ==
    \A k \in Nat, d \in Epochs : \A e \in 1..d :
        /\ d <= currentEpoch
        /\ \A f \in (e + 1)..d : Length(rounds[f]) >= k
        => rounds[e].closeTimestamp + (d - e) * k <= rounds[d].closeTimestamp

\* the last round is never created ahead of its start
LastHasStarted == currentEpoch # 0 => rounds[currentEpoch].startTimestamp <= now

SpacingInv == RoundsAreSpaced /\ LastHasStarted

LEMMA ClockStep ==
    ASSUME TypeInv, [Next]_vars
    PROVE  now \in Nat /\ now' \in Nat /\ now' >= now
<1>1. now' = now \/ now' = now + 1
  BY Zenon
  DEF Next, vars, Tick, OracleAnswers, Enter, GenesisStartRound, StartNextRound,
      ExecuteRound, LockRound, SettleRound, CancelRound, EmergencyCancelRound, Claim,
      SweepToBurner, PausePrediction, UnpausePrediction, ProposeBurnFee, CommitBurnFee,
      CancelPendingFee, ProposeOracle, CommitOracle, CancelPendingOracle, Configure,
      ForceEther
<1>2. now \in Nat
  BY BoundAssumption DEF TypeInv, TypeOK, Instants
<1>3. QED
  BY <1>1, <1>2

LEMMA CreationIsDue ==
    ASSUME [Next]_vars, currentEpoch' # currentEpoch
    PROVE  currentEpoch = 0 \/ NextStartable
BY Zenon
DEF Next, vars, schedule, Tick, OracleAnswers, Enter, GenesisStartRound, StartNextRound,
    ExecuteRound, LockRound, SettleRound, CancelRound, EmergencyCancelRound, Claim,
    SweepToBurner, PausePrediction, UnpausePrediction, ProposeBurnFee, CommitBurnFee,
    CancelPendingFee, ProposeOracle, CommitOracle, CancelPendingOracle, Configure,
    ForceEther

LEMMA RoundInstants ==
    ASSUME TypeInv, NEW e \in Epochs
    PROVE  /\ rounds[e].startTimestamp \in Nat
           /\ rounds[e].lockTimestamp \in Nat
           /\ rounds[e].closeTimestamp \in Nat
<1>1. rounds[e] \in RoundType
  BY DEF TypeInv, TypeOK
<1>2. QED
  BY <1>1 DEF RoundType

LEMMA SpacingStays ==
    ASSUME TypeInv, TypeInv', SpacingInv, ScheduleStays, [Next]_vars
    PROVE  SpacingInv'
<1>1. currentEpoch' = currentEpoch /\ currentEpoch \in 0..MaxEpoch
  BY DEF ScheduleStays, TypeInv, TypeOK
<1>2. \A e \in Epochs : SameInstants(rounds[e], rounds'[e])
  BY DEF ScheduleStays, Evolves
<1>3. LastHasStarted'
  <2>1. CASE currentEpoch = 0
    BY <1>1, <2>1 DEF LastHasStarted
  <2>2. CASE currentEpoch # 0
    <3>1. currentEpoch \in Epochs
      BY <1>1, <2>2, BoundAssumption DEF Epochs
    <3>2. /\ rounds[currentEpoch].startTimestamp \in Nat
          /\ rounds[currentEpoch].startTimestamp <= now
          /\ rounds'[currentEpoch].startTimestamp = rounds[currentEpoch].startTimestamp
      BY <1>2, <2>2, <3>1, RoundInstants DEF SpacingInv, LastHasStarted, SameInstants
    <3>3. QED
      BY <1>1, <3>2, ClockStep DEF LastHasStarted
  <2>3. QED
    BY <2>1, <2>2
<1>4. RoundsAreSpaced'
  <2> SUFFICES ASSUME NEW k \in Nat, NEW d \in Epochs, NEW e \in 1..d, d <= currentEpoch',
                      \A f \in (e + 1)..d : Length(rounds'[f]) >= k
               PROVE  rounds'[e].closeTimestamp + (d - e) * k <= rounds'[d].closeTimestamp
    BY DEF RoundsAreSpaced
  <2>1. e \in Epochs /\ \A f \in (e + 1)..d : f \in Epochs
    BY BoundAssumption DEF Epochs
  <2>2. \A f \in (e + 1)..d : Length(rounds[f]) >= k
    BY <1>2, <2>1 DEF SameInstants, Length
  <2>3. rounds[e].closeTimestamp + (d - e) * k <= rounds[d].closeTimestamp
    BY <1>1, <2>2 DEF SpacingInv, RoundsAreSpaced
  <2>4. QED
    BY <1>2, <2>1, <2>3 DEF SameInstants
<1>5. QED
  BY <1>3, <1>4 DEF SpacingInv

LEMMA SpacingGrows ==
    ASSUME TypeInv, TypeInv', BoundariesMeet, BoundariesMeet', SpacingInv, ScheduleGrows,
           [Next]_vars
    PROVE  SpacingInv'
<1> DEFINE n == currentEpoch
<1>1. /\ n \in Nat /\ n + 1 \in Epochs /\ currentEpoch' = n + 1
      /\ n # 0 => n \in Epochs
  BY BoundAssumption DEF ScheduleGrows, TypeInv, TypeOK, Epochs
<1>2. \A e \in Epochs \ {n + 1} : SameInstants(rounds[e], rounds'[e])
  BY DEF ScheduleGrows, Evolves
<1>3. n = 0 \/ now >= rounds[n].lockTimestamp
  BY <1>1, CreationIsDue DEF NextStartable
<1>4. LastHasStarted'
  <2>1. rounds'[n + 1].startTimestamp = IF n = 0 THEN now ELSE rounds[n].lockTimestamp
    BY DEF ScheduleGrows, FirstRound, NextRound, OpenRound, NoRound
  <2>2. n # 0 => rounds[n].lockTimestamp \in Nat
    BY <1>1, RoundInstants
  <2>3. QED
    BY <1>1, <1>3, <2>1, <2>2, ClockStep DEF LastHasStarted
<1>5. n # 0 => rounds'[n + 1].lockTimestamp = rounds[n].closeTimestamp
  BY DEF ScheduleGrows, NextRound, OpenRound, NoRound
<1> HIDE DEF n
<1>6. RoundsAreSpaced'
  <2> SUFFICES ASSUME NEW k \in Nat, NEW d \in Epochs, NEW e \in 1..d, d <= n + 1,
                      \A f \in (e + 1)..d : Length(rounds'[f]) >= k
               PROVE  rounds'[e].closeTimestamp + (d - e) * k <= rounds'[d].closeTimestamp
    BY <1>1 DEF RoundsAreSpaced
  <2>1. /\ d \in Nat /\ e \in Nat /\ e \in Epochs
        /\ \A f \in (e + 1)..d : f \in Epochs
    BY BoundAssumption DEF Epochs
  <2>2. rounds'[e].closeTimestamp \in Nat /\ rounds'[d].closeTimestamp \in Nat
    <3>1. rounds'[e] \in RoundType /\ rounds'[d] \in RoundType
      BY <2>1 DEF TypeInv, TypeOK
    <3>2. QED
      BY <3>1 DEF RoundType
  <2>3. CASE e = d
    BY <2>1, <2>2, <2>3
  <2>4. CASE d <= n
    <3>1. \A f \in (e + 1)..d : f # n + 1 /\ f \in Epochs
      BY <1>1, <2>1, <2>4
    <3>2. \A f \in (e + 1)..d : Length(rounds[f]) >= k
      BY <1>2, <3>1 DEF SameInstants, Length
    <3>3. rounds[e].closeTimestamp + (d - e) * k <= rounds[d].closeTimestamp
      BY <2>4, <3>2 DEF SpacingInv, RoundsAreSpaced, n
    <3>4. d # n + 1 /\ e # n + 1
      BY <1>1, <2>1, <2>4
    <3>5. QED
      BY <1>2, <2>1, <3>3, <3>4 DEF SameInstants
  <2>5. CASE d = n + 1 /\ e # d
    <3>1. /\ n # 0 /\ n \in Epochs /\ e \in 1..n /\ e # n + 1 /\ n # n + 1
          /\ d \in (e + 1)..d
          /\ \A f \in (e + 1)..n : f \in (e + 1)..d /\ f # n + 1 /\ f \in Epochs
      BY <1>1, <2>1, <2>5
    <3>2. \A f \in (e + 1)..n : Length(rounds[f]) >= k
      BY <1>2, <3>1 DEF SameInstants, Length
    <3>3. rounds[e].closeTimestamp + (n - e) * k <= rounds[n].closeTimestamp
      BY <1>1, <3>1, <3>2 DEF SpacingInv, RoundsAreSpaced, n
    <3>4. rounds'[d].closeTimestamp - rounds[n].closeTimestamp >= k
      BY <1>5, <2>5, <3>1 DEF Length
    <3>5. rounds[n].closeTimestamp \in Nat /\ rounds[e].closeTimestamp \in Nat
      BY <2>1, <3>1, RoundInstants
    <3>6. (d - e) * k = (n - e) * k + k /\ (n - e) * k \in Int
      BY <1>1, <2>1, <2>5
    <3>7. rounds'[e].closeTimestamp = rounds[e].closeTimestamp
      BY <1>2, <2>1, <3>1 DEF SameInstants
    <3> DEFINE gap == (n - e) * k
    <3> HIDE DEF gap
    <3>8. /\ gap \in Int /\ (d - e) * k = gap + k
          /\ rounds[e].closeTimestamp + gap <= rounds[n].closeTimestamp
      BY <3>3, <3>6 DEF gap
    <3>9. QED
      BY <2>2, <3>4, <3>5, <3>7, <3>8
  <2>6. QED
    BY <1>1, <2>1, <2>3, <2>4, <2>5
<1>7. QED
  BY <1>4, <1>6 DEF SpacingInv

LEMMA AlwaysSpaced == Spec => []SpacingInv
<1>1. Init => SpacingInv
  <2> SUFFICES ASSUME Init PROVE SpacingInv
    OBVIOUS
  <2>1. currentEpoch = 0
    BY DEF Init
  <2>2. \A d \in Epochs : ~(d <= 0)
    BY BoundAssumption DEF Epochs
  <2>3. QED
    BY <2>1, <2>2 DEF SpacingInv, RoundsAreSpaced, LastHasStarted
<1>2. TypeInv /\ TypeInv' /\ BoundariesMeet /\ BoundariesMeet' /\ SpacingInv /\ [Next]_vars
        => SpacingInv'
  BY StepSchedule, SpacingStays, SpacingGrows
<1>3. QED
  BY <1>1, <1>2, TypeCorrect, BoundariesAlwaysMeet, PTL DEF Spec

LEMMA SpacedIsWide ==
    ASSUME TypeInv, BoundariesMeet, SpacingInv
    PROVE  WindowIsWide
<1> SUFFICES ASSUME NEW e \in Epochs, InTolerance(e), NoShorterSince(e),
                    ~(e >= OldestUnresolved)
             PROVE  FALSE
  BY DEF WindowIsWide
<1> DEFINE n == currentEpoch
           k == config.interval
           B == config.bufferSeconds
           d == n - 2
           far == B \div k
<1>1. n \in 0..MaxEpoch /\ MaxEpoch \in Nat /\ e \in Nat /\ e >= 1
  BY BoundAssumption DEF TypeInv, TypeOK, Epochs
<1>2. k \in Nat \ {0} /\ B \in Nat
  <2>1. k \in IntervalRange /\ B \in BufferRange
    BY DEF TypeInv, TypeOK, ConstructorAccepts, Config
  <2>2. (\A i \in IntervalRange : i \in Nat \ {0}) /\ (\A b \in BufferRange : b \in Nat)
    BY BoundAssumption
  <2>3. QED
    BY <2>1, <2>2, Zenon
<1>3. far \in Nat /\ B < k * far + k
  BY <1>2, FloorBounds
<1>4. OldestUnresolved = IF n > 3 + far THEN n - (3 + far) ELSE 1
  <2>1. 3 + far <= MaxScanRounds
    BY DEF TypeInv, TypeOK, ConstructorAccepts, ToleranceFits, ScanSpan
  <2>2. MaxScanRounds \in Nat
    BY BoundAssumption
  <2>3. QED
    BY <1>3, <2>1, <2>2 DEF OldestUnresolved, ScanSpan
<1>5. now \in Nat
  BY BoundAssumption DEF TypeInv, TypeOK, Instants
<1> HIDE DEF far, k, B
<1>6. n > 3 + far /\ e < n - (3 + far)
  BY <1>1, <1>3, <1>4
<1>7. /\ n \in Epochs /\ n - 1 \in Epochs /\ d \in Epochs /\ e \in 1..d /\ d <= n
      /\ d + 1 = n - 1 /\ (n - 1) + 1 = n /\ d < n /\ n - 1 < n /\ n # 0 /\ e <= n
  BY <1>1, <1>3, <1>6 DEF Epochs
<1>8. rounds[e].closeTimestamp + (d - e) * k <= rounds[d].closeTimestamp
  <2>1. \A f \in (e + 1)..d : Length(rounds[f]) >= k
    BY DEF NoShorterSince, k
  <2>2. QED
    BY <1>2, <1>7, <2>1 DEF SpacingInv, RoundsAreSpaced
<1>9. rounds[d].closeTimestamp <= now
  <2>1. rounds[d].closeTimestamp = rounds[n - 1].lockTimestamp
    BY <1>7 DEF BoundariesMeet
  <2>2. rounds[n - 1].lockTimestamp = rounds[n].startTimestamp
    BY <1>7 DEF BoundariesMeet
  <2>3. QED
    BY <1>7, <2>1, <2>2 DEF SpacingInv, LastHasStarted
<1>10. now <= rounds[e].closeTimestamp + B
  <2>1. rounds[e].lockTimestamp < rounds[e].closeTimestamp
    BY <1>7 DEF BoundariesMeet
  <2>2. rounds[e].lockTimestamp \in Nat /\ rounds[e].closeTimestamp \in Nat
    BY RoundInstants
  <2>3. QED
    BY <1>2, <1>5, <2>1, <2>2 DEF InTolerance, B
<1>11. (d - e) * k >= k * far + k
  <2>1. d - e \in Nat /\ d - e >= far + 1
    BY <1>1, <1>3, <1>6
  <2>2. \A x, y, z \in Nat : x >= y + 1 => x * z >= z * y + z
    OBVIOUS
  <2>3. QED
    BY <1>2, <1>3, <2>1, <2>2
<1>12. /\ rounds[e].closeTimestamp \in Nat /\ rounds[d].closeTimestamp \in Nat
       /\ (d - e) * k \in Int /\ k * far \in Nat
  BY <1>1, <1>2, <1>3, <1>7, RoundInstants
<1> DEFINE gap == (d - e) * k
           reach == k * far
<1> HIDE DEF gap, reach, n, d
<1>13. /\ rounds[e].closeTimestamp + gap <= rounds[d].closeTimestamp
       /\ gap >= reach + k /\ B < reach + k /\ gap \in Int /\ reach \in Nat
  BY <1>3, <1>8, <1>11, <1>12 DEF gap, reach
<1>14. QED
  BY <1>2, <1>5, <1>9, <1>10, <1>12, <1>13

\* An unresolved round within tolerance leaves the window of executeRound only if the
\* interval has been raised since: whatever else is changed, and however late each
\* transaction is, rounds no shorter than the current interval never push it out.
THEOREM WindowAlwaysWide == Spec => []WindowIsWide
<1>1. TypeInv /\ BoundariesMeet /\ SpacingInv => WindowIsWide
  BY SpacedIsWide
<1>2. QED
  BY <1>1, TypeCorrect, BoundariesAlwaysMeet, AlwaysSpaced, PTL

\* every round that may still be resolved is in the window
ScanCoversTolerance == \A e \in Epochs : InTolerance(e) => e >= OldestUnresolved

\* no interval but the deployed one is ever used
OneLength ==
    /\ config.interval = Deployment.interval
    /\ \A e \in Epochs : e <= currentEpoch => Length(rounds[e]) = Deployment.interval

LEMMA IntervalStep ==
    ASSUME TypeInv, [Next]_vars, Proposals.interval \subseteq {config.interval}
    PROVE  config'.interval = config.interval
<1>1. config \in Config
  BY DEF TypeInv, TypeOK, ConstructorAccepts
<1>2. CASE Configure
  <2>1. \/ \E v \in Proposals.interval : config' = [config EXCEPT !.interval = v]
        \/ \E v : config' = [config EXCEPT !.twapWindow = v]
        \/ \E v : config' = [config EXCEPT !.bufferSeconds = v]
        \/ \E v : config' = [config EXCEPT !.minimumBet = v]
        \/ \E v : config' = [config EXCEPT !.maximumBet = v]
        \/ \E v : config' = [config EXCEPT !.maximumRoundPool = v]
        \/ \E v : config' = [config EXCEPT !.burner = v]
    BY <1>2, Zenon
    DEF Configure, SetInterval, SetTwapWindow, SetBufferSeconds, SetMinimumBet,
        SetMaximumBet, SetMaximumRoundPool, SetBurner
  <2>2. QED
    BY <1>1, <2>1 DEF Config
<1>3. CASE CommitBurnFee \/ CommitOracle
  <2>1. \/ \E v : config' = [config EXCEPT !.burnFeeBps = v]
        \/ \E v : config' = [config EXCEPT !.oracle = v]
    BY <1>3, Zenon DEF CommitBurnFee, CommitOracle
  <2>2. QED
    BY <1>1, <2>1 DEF Config
<1>4. CASE ~(Configure \/ CommitBurnFee \/ CommitOracle)
  <2>1. config' = config
    BY <1>4, Zenon
    DEF Next, vars, settings, Tick, OracleAnswers, Enter, GenesisStartRound, StartNextRound,
        ExecuteRound, LockRound, SettleRound, CancelRound, EmergencyCancelRound, Claim,
        SweepToBurner, PausePrediction, UnpausePrediction, ProposeBurnFee,
        CancelPendingFee, ProposeOracle, CancelPendingOracle, ForceEther
  <2>2. QED
    BY <2>1
<1>5. QED
  BY <1>2, <1>3, <1>4

LEMMA OneLengthStep ==
    ASSUME TypeInv, OneLength, [Next]_vars, Proposals.interval \subseteq {Deployment.interval}
    PROVE  OneLength'
<1>1. config'.interval = Deployment.interval
  BY IntervalStep DEF OneLength
<1>2. CASE ScheduleStays
  BY <1>1, <1>2 DEF ScheduleStays, Evolves, SameInstants, OneLength, Length
<1>3. CASE ScheduleGrows
  <2> DEFINE n == currentEpoch + 1
  <2>1. /\ n \in Epochs /\ currentEpoch' = n
        /\ \A e \in Epochs \ {n} : e <= n => e <= currentEpoch
    BY <1>3, BoundAssumption DEF ScheduleGrows, TypeInv, TypeOK, Epochs
  <2>2. Length(rounds'[n]) = config.interval
    <3>1. config.interval \in Nat /\ now \in Nat
      <4>1. config.interval \in IntervalRange /\ now \in Nat
        BY BoundAssumption DEF TypeInv, TypeOK, ConstructorAccepts, Config, Instants
      <4>2. \A i \in IntervalRange : i \in Nat
        BY BoundAssumption
      <4>3. QED
        BY <4>1, <4>2
    <3>2. currentEpoch # 0 => rounds[currentEpoch].closeTimestamp \in Nat
      <4>1. currentEpoch # 0 => currentEpoch \in Epochs
        BY BoundAssumption DEF TypeInv, TypeOK, Epochs
      <4>2. QED
        BY <4>1, RoundInstants
    <3>3. rounds'[n] = IF currentEpoch = 0 THEN FirstRound ELSE NextRound
      BY <1>3 DEF ScheduleGrows
    <3>4. QED
      BY <3>1, <3>2, <3>3 DEF FirstRound, NextRound, OpenRound, NoRound, Length
  <2>3. \A e \in Epochs \ {n} : Length(rounds'[e]) = Length(rounds[e])
    BY <1>3 DEF ScheduleGrows, Evolves, SameInstants, Length
  <2> HIDE DEF n
  <2>4. QED
    BY <1>1, <2>1, <2>2, <2>3 DEF OneLength
<1>4. QED
  BY <1>2, <1>3, StepSchedule

\* While the interval stays as deployed, _oldestUnresolved looks back far enough for
\* every round that may still be resolved, whatever becomes of the other settings.
THEOREM ScanAlwaysCovers ==
    ASSUME Proposals.interval \subseteq {Deployment.interval}
    PROVE  Spec => []ScanCoversTolerance
<1>1. Init => OneLength
  BY BoundAssumption DEF Init, OneLength, Epochs
<1>2. TypeInv /\ OneLength /\ [Next]_vars => OneLength'
  BY OneLengthStep
<1>3. TypeInv /\ OneLength /\ WindowIsWide => ScanCoversTolerance
  <2>1. SUFFICES ASSUME TypeInv, OneLength, WindowIsWide, NEW e \in Epochs
                 PROVE  NoShorterSince(e)
    BY DEF WindowIsWide, ScanCoversTolerance
  <2>2. \A f \in (e + 1)..(currentEpoch - 2) : f \in Epochs /\ f <= currentEpoch
    BY <2>1, BoundAssumption DEF TypeInv, TypeOK, Epochs
  <2>3. Deployment.interval \in Nat
    <3>1. Deployment.interval \in IntervalRange
      BY DomainAssumption DEF ConstructorAccepts, Config
    <3>2. \A i \in IntervalRange : i \in Nat
      BY BoundAssumption
    <3>3. QED
      BY <3>1, <3>2
  <2>4. QED
    BY <2>1, <2>2, <2>3 DEF OneLength, NoShorterSince
<1>4. QED
  BY <1>1, <1>2, <1>3, TypeCorrect, WindowAlwaysWide, PTL DEF Spec

(***************************************************************************)
(* Announcements.  What is pending is what was announced last, and it is   *)
(* ready one timelock after that, not earlier.                             *)
(***************************************************************************)
PendingIsAnnounced ==
    /\ pendingFee.readyAt # 0 =>
         /\ pendingFee.burnFeeBps = announced.fee.value
         /\ pendingFee.readyAt = announced.fee.at + ConfigTimelock
    /\ pendingOracle.readyAt # 0 =>
         /\ pendingOracle.oracle = announced.oracle.value
         /\ pendingOracle.readyAt = announced.oracle.at + ConfigTimelock

\* what one step does to the pending fee and to the fee in force
LEMMA FeeStep ==
    ASSUME TypeInv, [Next]_vars
    PROVE  \/ \E bps \in Proposals.burnFeeBps : ProposeBurnFee(bps)
           \/ CancelPendingFee
           \/ CommitBurnFee
           \/ pendingFee' = pendingFee /\ config'.burnFeeBps = config.burnFeeBps
<1>1. config \in Config
  BY DEF TypeInv, TypeOK, ConstructorAccepts
<1>2. CASE Configure
  <2>1. /\ \/ \E v : config' = [config EXCEPT !.interval = v]
           \/ \E v : config' = [config EXCEPT !.twapWindow = v]
           \/ \E v : config' = [config EXCEPT !.bufferSeconds = v]
           \/ \E v : config' = [config EXCEPT !.minimumBet = v]
           \/ \E v : config' = [config EXCEPT !.maximumBet = v]
           \/ \E v : config' = [config EXCEPT !.maximumRoundPool = v]
           \/ \E v : config' = [config EXCEPT !.burner = v]
        /\ pendingFee' = pendingFee
    BY <1>2, Zenon
    DEF Configure, SetInterval, SetTwapWindow, SetBufferSeconds, SetMinimumBet,
        SetMaximumBet, SetMaximumRoundPool, SetBurner
  <2>2. QED
    BY <1>1, <2>1 DEF Config
<1>3. CASE CommitOracle
  <2>1. /\ config' = [config EXCEPT !.oracle = pendingOracle.oracle]
        /\ pendingFee' = pendingFee
    BY <1>3, Zenon DEF CommitOracle
  <2>2. QED
    BY <1>1, <2>1 DEF Config
<1>4. CASE ~(Configure \/ CommitOracle)
  <2>1. \/ \E bps \in Proposals.burnFeeBps : ProposeBurnFee(bps)
        \/ CancelPendingFee
        \/ CommitBurnFee
        \/ pendingFee' = pendingFee /\ config' = config
    BY <1>4, Zenon
    DEF Next, vars, settings, Tick, OracleAnswers, Enter, GenesisStartRound, StartNextRound,
        ExecuteRound, LockRound, SettleRound, CancelRound, EmergencyCancelRound, Claim,
        SweepToBurner, PausePrediction, UnpausePrediction, ProposeOracle,
        CancelPendingOracle, ForceEther
  <2>2. QED
    BY <2>1
<1>5. QED
  BY <1>2, <1>3, <1>4

\* the same of the oracle
LEMMA OracleChangeStep ==
    ASSUME TypeInv, [Next]_vars
    PROVE  \/ \E o \in Proposals.oracle : ProposeOracle(o)
           \/ CancelPendingOracle
           \/ CommitOracle
           \/ pendingOracle' = pendingOracle /\ config'.oracle = config.oracle
<1>1. config \in Config
  BY DEF TypeInv, TypeOK, ConstructorAccepts
<1>2. CASE Configure
  <2>1. /\ \/ \E v : config' = [config EXCEPT !.interval = v]
           \/ \E v : config' = [config EXCEPT !.twapWindow = v]
           \/ \E v : config' = [config EXCEPT !.bufferSeconds = v]
           \/ \E v : config' = [config EXCEPT !.minimumBet = v]
           \/ \E v : config' = [config EXCEPT !.maximumBet = v]
           \/ \E v : config' = [config EXCEPT !.maximumRoundPool = v]
           \/ \E v : config' = [config EXCEPT !.burner = v]
        /\ pendingOracle' = pendingOracle
    BY <1>2, Zenon
    DEF Configure, SetInterval, SetTwapWindow, SetBufferSeconds, SetMinimumBet,
        SetMaximumBet, SetMaximumRoundPool, SetBurner
  <2>2. QED
    BY <1>1, <2>1 DEF Config
<1>3. CASE CommitBurnFee
  <2>1. /\ config' = [config EXCEPT !.burnFeeBps = pendingFee.burnFeeBps]
        /\ pendingOracle' = pendingOracle
    BY <1>3, Zenon DEF CommitBurnFee
  <2>2. QED
    BY <1>1, <2>1 DEF Config
<1>4. CASE ~(Configure \/ CommitBurnFee)
  <2>1. \/ \E o \in Proposals.oracle : ProposeOracle(o)
        \/ CancelPendingOracle
        \/ CommitOracle
        \/ pendingOracle' = pendingOracle /\ config' = config
    BY <1>4, Zenon
    DEF Next, vars, settings, Tick, OracleAnswers, Enter, GenesisStartRound, StartNextRound,
        ExecuteRound, LockRound, SettleRound, CancelRound, EmergencyCancelRound, Claim,
        SweepToBurner, PausePrediction, UnpausePrediction, ProposeBurnFee,
        CancelPendingFee, ForceEther
  <2>2. QED
    BY <2>1
<1>5. QED
  BY <1>2, <1>3, <1>4

LEMMA AnnouncedStep ==
    ASSUME TypeInv, PendingIsAnnounced, NextAnnounced
    PROVE  PendingIsAnnounced' /\ FeeIsAnnounced /\ OracleIsAnnounced
<1> DEFINE proposesFee == \E bps \in Proposals.burnFeeBps : ProposeBurnFee(bps)
           proposesOracle == \E o \in Proposals.oracle : ProposeOracle(o)
<1>1. /\ announced'.fee = IF proposesFee THEN [value |-> pendingFee'.burnFeeBps, at |-> now]
                          ELSE IF CancelPendingFee THEN Never(config.burnFeeBps)
                          ELSE announced.fee
      /\ announced'.oracle = IF proposesOracle
                             THEN [value |-> pendingOracle'.oracle, at |-> now]
                             ELSE IF CancelPendingOracle THEN Never(config.oracle)
                             ELSE announced.oracle
  BY DEF NextAnnounced
<1>2. /\ pendingFee \in [burnFeeBps: 0..MaxBurnFeeBps, readyAt: Nat]
      /\ pendingOracle \in [oracle: Oracles, readyAt: Nat]
      /\ config \in Config
  BY DEF TypeInv, TypeOK, ConstructorAccepts
<1>3. proposesFee => pendingFee'.readyAt = now + ConfigTimelock /\ config' = config
  BY DEF ProposeBurnFee
<1>4. proposesOracle => pendingOracle'.readyAt = now + ConfigTimelock /\ config' = config
  BY DEF ProposeOracle
<1>5. CancelPendingFee => pendingFee'.readyAt = 0 /\ config' = config
  BY <1>2 DEF CancelPendingFee
<1>6. CancelPendingOracle => pendingOracle'.readyAt = 0 /\ config' = config
  BY <1>2 DEF CancelPendingOracle
<1>7. CommitBurnFee => /\ pendingFee.readyAt # 0 /\ now >= pendingFee.readyAt
                       /\ pendingFee'.readyAt = 0
                       /\ config'.burnFeeBps = pendingFee.burnFeeBps
  BY <1>2 DEF CommitBurnFee, Config
<1>8. CommitOracle => /\ pendingOracle.readyAt # 0 /\ now >= pendingOracle.readyAt
                      /\ pendingOracle'.readyAt = 0
                      /\ config'.oracle = pendingOracle.oracle
  BY <1>2 DEF CommitOracle, Config
<1>9. /\ \/ proposesFee \/ CancelPendingFee \/ CommitBurnFee
         \/ pendingFee' = pendingFee /\ config'.burnFeeBps = config.burnFeeBps
      /\ \/ proposesOracle \/ CancelPendingOracle \/ CommitOracle
         \/ pendingOracle' = pendingOracle /\ config'.oracle = config.oracle
  BY FeeStep, OracleChangeStep DEF NextAnnounced
<1> HIDE DEF proposesFee, proposesOracle
<1>10. /\ pendingFee'.readyAt # 0 =>
            /\ pendingFee'.burnFeeBps = announced'.fee.value
            /\ pendingFee'.readyAt = announced'.fee.at + ConfigTimelock
       /\ FeeIsAnnounced
  BY <1>1, <1>3, <1>5, <1>7, <1>9 DEF PendingIsAnnounced, FeeIsAnnounced
<1>11. /\ pendingOracle'.readyAt # 0 =>
            /\ pendingOracle'.oracle = announced'.oracle.value
            /\ pendingOracle'.readyAt = announced'.oracle.at + ConfigTimelock
       /\ OracleIsAnnounced
  BY <1>1, <1>4, <1>6, <1>8, <1>9 DEF PendingIsAnnounced, OracleIsAnnounced
<1>12. QED
  BY <1>10, <1>11 DEF PendingIsAnnounced

\* Entrants who read the proposal events are never surprised: the fee and the oracle of
\* new rounds change only to what was announced last, one whole timelock later.
THEOREM ChangesAlwaysAnnounced == SpecAnnounced => ChangesAreAnnounced
<1>1. InitAnnounced => Init /\ PendingIsAnnounced
  BY DEF InitAnnounced, Init, PendingIsAnnounced
<1>2. [NextAnnounced]_<<vars, announced>> => [Next]_vars
  BY DEF NextAnnounced
<1>3. TypeInv /\ PendingIsAnnounced /\ [NextAnnounced]_<<vars, announced>>
        => PendingIsAnnounced' /\ [FeeIsAnnounced /\ OracleIsAnnounced]_<<vars, announced>>
  <2>1. UNCHANGED <<vars, announced>> /\ PendingIsAnnounced => PendingIsAnnounced'
    BY DEF vars, settings, PendingIsAnnounced
  <2>2. QED
    BY <2>1, AnnouncedStep
<1>4. SpecAnnounced => Spec
  BY <1>1, <1>2, PTL DEF SpecAnnounced, Spec
<1>5. QED
  BY <1>1, <1>3, <1>4, TypeCorrect, PTL DEF SpecAnnounced, ChangesAreAnnounced

-----------------------------------------------------------------------------
(* Part 3: the money *)

(***************************************************************************)
(* Settling.  What _trySettle records is a function of the recorded pools, *)
(* prices and fee rate, so it can be read off a settled round later.       *)
(***************************************************************************)
SamePools(r, s) ==
    /\ s.totalAmount = r.totalAmount
    /\ s.bullAmount = r.bullAmount
    /\ s.bearAmount = r.bearAmount

SideOf(r, side) == IF side = "Bull" THEN r.bullAmount ELSE r.bearAmount

\* s, settled under the rate bps, records what its own pools and prices imply
SettlesTruly(s, bps) == s = SettledAt(s, s.closePrice, bps)

\* Settling records the truth, and leaves everything else of the round alone.
LEMMA SettledAtTruly ==
    ASSUME NEW r \in RoundType, NEW price \in Nat, NEW bps
    PROVE  LET s == SettledAt(r, price, bps)
           IN  /\ SettlesTruly(s, bps) /\ SamePools(r, s)
               /\ s.status = "Settled" /\ s.closePrice = price
               /\ FeeOf(s, s.closePrice, bps) = FeeOf(r, price, bps)
<1> DEFINE s == SettledAt(r, price, bps)
           outcome == OutcomeOf(r, price)
           winning == IF Contested(outcome) THEN WinningPool(r, price) ELSE 0
           reward == IF Contested(outcome)
                     THEN r.totalAmount - FeeOf(r, price, bps) ELSE 0
<1>1. s = [r EXCEPT !.closePrice = price, !.status = "Settled",
                    !.outcome = outcome, !.rewardBaseAmount = winning,
                    !.rewardAmount = reward]
  BY DEF SettledAt
<1> HIDE DEF s, outcome, winning, reward
<1>2. /\ SamePools(r, s) /\ s.lockPrice = r.lockPrice
      /\ s.status = "Settled" /\ s.closePrice = price
      /\ s.outcome = outcome /\ s.rewardBaseAmount = winning /\ s.rewardAmount = reward
  BY <1>1 DEF SamePools, RoundType
<1>3. OutcomeOf(s, price) = OutcomeOf(r, price)
      /\ WinningPool(s, price) = WinningPool(r, price)
      /\ LosingPool(s, price) = LosingPool(r, price)
  BY <1>2, Zenon DEF SamePools, OutcomeOf, WinningPool, LosingPool
<1>4. FeeOf(s, price, bps) = FeeOf(r, price, bps)
  BY <1>2, <1>3, Zenon DEF SamePools, FeeOf
<1>5. SettledAt(s, price, bps)
        = [s EXCEPT !.closePrice = price, !.status = "Settled",
                    !.outcome = outcome, !.rewardBaseAmount = winning,
                    !.rewardAmount = reward]
  BY <1>2, <1>3, <1>4, Zenon DEF SettledAt, SamePools, outcome, winning, reward
<1>6. [s EXCEPT !.closePrice = price, !.status = "Settled",
                !.outcome = outcome, !.rewardBaseAmount = winning,
                !.rewardAmount = reward] = s
  BY <1>1 DEF RoundType
<1>7. QED
  BY <1>2, <1>4, <1>5, <1>6 DEF SettlesTruly, s

\* What a truly settled round says of its money.
LEMMA TrueSettlement ==
    ASSUME NEW s \in RoundType, NEW bps \in 0..MaxBps, SettlesTruly(s, bps)
    PROVE  LET fee == FeeOf(s, s.closePrice, bps)
           IN  /\ s.status = "Settled"
               /\ s.outcome = OutcomeOf(s, s.closePrice)
               /\ s.outcome \in Outcomes \ {"Undecided"}
               /\ s.outcome \in {"Tie", "NoContest"} => fee = 0
               /\ s.outcome = "AllLost" => fee = s.totalAmount
               /\ Contested(s.outcome) =>
                    /\ fee = (s.totalAmount * bps) \div MaxBps
                    /\ fee \in Nat /\ fee <= s.totalAmount
                    /\ s.rewardAmount = s.totalAmount - fee
                    /\ s.rewardBaseAmount = SideOf(s, s.outcome)
                    /\ s.bullAmount > 0 /\ s.bearAmount > 0
<1> DEFINE price == s.closePrice
           outcome == OutcomeOf(s, price)
           winning == IF Contested(outcome) THEN WinningPool(s, price) ELSE 0
           reward == IF Contested(outcome)
                     THEN s.totalAmount - FeeOf(s, price, bps) ELSE 0
<1>1. s = [s EXCEPT !.closePrice = price, !.status = "Settled",
                    !.outcome = outcome, !.rewardBaseAmount = winning,
                    !.rewardAmount = reward]
  BY Zenon DEF SettlesTruly, SettledAt
<1>2. /\ s.totalAmount \in Nat /\ s.bullAmount \in Nat /\ s.bearAmount \in Nat
      /\ s.lockPrice \in Nat /\ s.closePrice \in Nat
  BY DEF RoundType
<1>3. /\ outcome \in Outcomes \ {"Undecided"}
      /\ Contested(outcome) =>
           /\ s.bullAmount > 0 /\ s.bearAmount > 0
           /\ WinningPool(s, price) = SideOf(s, outcome)
  BY <1>2 DEF OutcomeOf, Outcomes, WinningPool, LosingPool, Contested, SideOf
<1>4. /\ (s.totalAmount * bps) \div MaxBps \in Nat
      /\ (s.totalAmount * bps) \div MaxBps <= s.totalAmount
  BY <1>2, FeeWithinPool
<1>5. /\ s.status = "Settled" /\ s.outcome = outcome
      /\ s.rewardBaseAmount = winning /\ s.rewardAmount = reward
  <2> DEFINE t == [s EXCEPT !.closePrice = price, !.status = "Settled",
                            !.outcome = outcome, !.rewardBaseAmount = winning,
                            !.rewardAmount = reward]
  <2> HIDE DEF outcome, winning, reward, price
  <2>1. /\ t.status = "Settled" /\ t.outcome = outcome
        /\ t.rewardBaseAmount = winning /\ t.rewardAmount = reward
    BY DEF RoundType
  <2>2. s = t
    BY <1>1, Zenon
  <2> HIDE DEF t
  <2>3. QED
    BY <2>1, <2>2, Zenon
<1>6. QED
  BY <1>3, <1>4, <1>5 DEF FeeOf, Contested

(***************************************************************************)
(* What one transaction does to the rounds and to the accumulators: it is  *)
(* an entry, a claim, a sweep, or it advances rounds and books their fees. *)
(***************************************************************************)
\* the round r, which is round e, becomes s and books fee
Advances(e, r, s, fee) ==
    /\ SamePools(r, s)
    /\ \/ s = r /\ fee = 0
       \/ /\ r.status \in {"Pending", "Open", "Locked"}
          /\ s.status \in {"Open", "Locked", "Cancelled"}
          /\ s.outcome = r.outcome /\ fee = 0
       \/ /\ r.status \in {"Open", "Locked"}
          /\ SettlesTruly(s, terms[e].burnFeeBps)
          /\ fee = FeeOf(s, s.closePrice, terms[e].burnFeeBps)

RoundsAdvance(fees) ==
    /\ \A e \in Epochs : fees[e] \in Nat /\ Advances(e, rounds[e], rounds'[e], fees[e])
    /\ \A e \in Epochs : terms'[e] = terms[e] \/ rounds[e] = NoRound
    /\ UNCHANGED positions
    /\ Total(fees, Epochs) <= totalLiabilities
    /\ totalLiabilities' = totalLiabilities - Total(fees, Epochs)
    /\ burnAllocated' = burnAllocated + Total(fees, Epochs)
    /\ received' = received

NoFees == [e \in Epochs |-> 0]

LEMMA NoFeesTotal == Total(NoFees, Epochs) = 0
<1>1. \A e \in Epochs : NoFees[e] = IF e \in {} THEN NoFees[e] ELSE 0
  BY DEF NoFees
<1>2. {} \in SUBSET Epochs
  OBVIOUS
<1>3. Total(NoFees, Epochs) = Total(NoFees, {})
  BY <1>1, <1>2, TotalRestrict
<1>4. QED
  BY <1>3, TotalEmpty

LEMMA StillAdvances ==
    ASSUME NEW e, NEW r
    PROVE  Advances(e, r, r, 0)
BY DEF Advances, SamePools

\* A step that books no fee advances the rounds if it does so one by one.
LEMMA FreeAdvance ==
    ASSUME TypeInv,
           \A e \in Epochs : Advances(e, rounds[e], rounds'[e], 0),
           \A e \in Epochs : terms'[e] = terms[e] \/ rounds[e] = NoRound,
           UNCHANGED positions, UNCHANGED <<totalLiabilities, burnAllocated, received>>
    PROVE  \E fees \in [Epochs -> Nat] : RoundsAdvance(fees)
<1>1. /\ NoFees \in [Epochs -> Nat]
      /\ \A e \in Epochs : NoFees[e] = 0
  BY DEF NoFees
<1>2. totalLiabilities \in Nat /\ burnAllocated \in Nat
  BY DEF TypeInv, TypeOK
<1>3. RoundsAdvance(NoFees)
  BY <1>1, <1>2, NoFeesTotal DEF RoundsAdvance
<1>4. QED
  BY <1>1, <1>3

LEMMA TryLockAdvances ==
    ASSUME NEW e, NEW r \in RoundType
    PROVE  /\ SamePools(r, TryLock(e, r))
           /\ TryLock(e, r).outcome = r.outcome
           /\ \/ TryLock(e, r) = r
              \/ r.status = "Open" /\ TryLock(e, r).status = "Locked"
<1>1. \A price : LET s == LockedAt(r, price)
                 IN  SamePools(r, s) /\ s.outcome = r.outcome /\ s.status = "Locked"
  BY DEF LockedAt, SamePools, RoundType
<1>2. CASE LockDue(r) /\ Quotes(e, r.lockTimestamp)
  <2>1. TryLock(e, r) = LockedAt(r, PriceAt(e, r.lockTimestamp))
    BY <1>2, Zenon DEF TryLock
  <2>2. r.status = "Open"
    BY <1>2 DEF LockDue
  <2>3. QED
    BY <1>1, <2>1, <2>2
<1>3. CASE ~(LockDue(r) /\ Quotes(e, r.lockTimestamp))
  <2>1. TryLock(e, r) = r
    BY <1>3, Zenon DEF TryLock
  <2>2. QED
    BY <2>1 DEF SamePools
<1>4. QED
  BY <1>2, <1>3

LEMMA TrySettleAdvances ==
    ASSUME TypeOK, NEW e \in Epochs, NEW r \in RoundType, RewardFits(r)
    PROVE  /\ SamePools(r, TrySettle(e, r)) /\ FeeBooked(e, r) \in Nat
           /\ \/ TrySettle(e, r) = r /\ FeeBooked(e, r) = 0
              \/ /\ r.status = "Locked"
                 /\ SettlesTruly(TrySettle(e, r), terms[e].burnFeeBps)
                 /\ FeeBooked(e, r) = FeeOf(TrySettle(e, r), TrySettle(e, r).closePrice,
                                            terms[e].burnFeeBps)
<1>0. FeeBooked(e, r) \in Nat
  BY TrySettleType
<1>1. CASE Settles(e, r)
  <2> DEFINE price == PriceAt(e, r.closeTimestamp)
             bps == terms[e].burnFeeBps
  <2>1. r.status = "Locked"
    BY <1>1 DEF Settles, CloseDue
  <2>2. price \in Nat
    BY <1>1, DueInstants, PriceType DEF Settles
  <2>3. TrySettle(e, r) = SettledAt(r, price, bps) /\ FeeBooked(e, r) = FeeOf(r, price, bps)
    BY <1>1, Zenon DEF TrySettle, FeeBooked
  <2> HIDE DEF price, bps
  <2>4. /\ SettlesTruly(SettledAt(r, price, bps), bps)
        /\ SamePools(r, SettledAt(r, price, bps))
        /\ FeeOf(SettledAt(r, price, bps), SettledAt(r, price, bps).closePrice, bps)
             = FeeOf(r, price, bps)
    BY <2>2, SettledAtTruly
  <2>5. QED
    BY <1>0, <2>1, <2>3, <2>4 DEF bps
<1>2. CASE ~Settles(e, r)
  <2>1. TrySettle(e, r) = r /\ FeeBooked(e, r) = 0
    BY <1>2, Zenon DEF TrySettle, FeeBooked
  <2>2. QED
    BY <1>0, <2>1 DEF SamePools
<1>3. QED
  BY <1>1, <1>2

\* The loop body of executeRound.
LEMMA AdvanceAdvances ==
    ASSUME TypeInv, NEW e \in Epochs
    PROVE  LET fee == FeeBooked(e, TryLock(e, rounds[e]))
           IN  fee \in Nat /\ Advances(e, rounds[e], Advance(e, rounds[e]), fee)
<1> DEFINE r == rounds[e]
           q == TryLock(e, r)
           s == TrySettle(e, q)
<1>1. TypeOK /\ r \in RoundType /\ RewardFits(r)
  BY DEF TypeInv, TypeOK, RewardOK, RewardFits
<1> HIDE DEF r
<1>2. q \in RoundType /\ RewardFits(q)
  BY <1>1, TryLockType
<1>3. /\ SamePools(r, q) /\ q.outcome = r.outcome
      /\ q = r \/ (r.status = "Open" /\ q.status = "Locked")
  BY <1>1, TryLockAdvances
<1> HIDE DEF q
<1>4. /\ SamePools(q, s) /\ FeeBooked(e, q) \in Nat
      /\ \/ s = q /\ FeeBooked(e, q) = 0
         \/ /\ q.status = "Locked"
            /\ SettlesTruly(s, terms[e].burnFeeBps)
            /\ FeeBooked(e, q) = FeeOf(s, s.closePrice, terms[e].burnFeeBps)
  BY <1>1, <1>2, TrySettleAdvances
<1> HIDE DEF s
<1>5. Advances(e, r, s, FeeBooked(e, q))
  <2>1. SamePools(r, s)
    BY <1>3, <1>4 DEF SamePools
  <2>2. QED
    BY <1>3, <1>4, <2>1 DEF Advances
<1>6. QED
  BY <1>4, <1>5 DEF Advance, r, q, s

LEMMA OneRoundAdvances ==
    ASSUME TypeInv, NEW e \in Epochs, NEW s,
           rounds' = [rounds EXCEPT ![e] = s]
    PROVE  \A f \in Epochs : rounds'[f] = IF f = e THEN s ELSE rounds[f]
BY DEF TypeInv, TypeOK

LEMMA DecisionAdvances ==
    ASSUME TypeInv, NEW e \in Epochs,
           LockRound(e) \/ CancelRound(e) \/ EmergencyCancelRound(e)
    PROVE  \E fees \in [Epochs -> Nat] : RoundsAdvance(fees)
<1> DEFINE cancelled == [rounds[e] EXCEPT !.status = "Cancelled"]
<1>1. rounds[e] \in RoundType
  BY DEF TypeInv, TypeOK
<1>2. UNCHANGED <<terms, positions, money>>
  BY Zenon DEF LockRound, CancelRound, EmergencyCancelRound
<1>3. \E s : Advances(e, rounds[e], s, 0) /\ rounds' = [rounds EXCEPT ![e] = s]
  <2>1. CASE LockRound(e)
    <3>1. rounds' = [rounds EXCEPT ![e] = TryLock(e, rounds[e])]
      BY <2>1, Zenon DEF LockRound
    <3>2. Advances(e, rounds[e], TryLock(e, rounds[e]), 0)
      BY <1>1, TryLockAdvances DEF Advances
    <3>3. QED
      BY <3>1, <3>2
  <2>2. CASE CancelRound(e) \/ EmergencyCancelRound(e)
    <3>1. rounds' = [rounds EXCEPT ![e] = cancelled]
      BY <2>2 DEF CancelRound, EmergencyCancelRound
    <3>2. rounds[e].status \in {"Open", "Locked"}
      BY <2>2 DEF CancelRound, EmergencyCancelRound, Cancellable
    <3>3. Advances(e, rounds[e], cancelled, 0)
      BY <1>1, <3>2 DEF Advances, SamePools, RoundType
    <3>4. QED
      BY <3>1, <3>3
  <2>3. QED
    BY <2>1, <2>2
<1>4. PICK s : Advances(e, rounds[e], s, 0) /\ rounds' = [rounds EXCEPT ![e] = s]
  BY <1>3
<1>5. \A f \in Epochs : Advances(f, rounds[f], rounds'[f], 0)
  BY <1>4, OneRoundAdvances, StillAdvances
<1>6. QED
  BY <1>2, <1>5, FreeAdvance DEF money

LEMMA SettleAdvances ==
    ASSUME TypeInv, NEW e \in Epochs, SettleRound(e)
    PROVE  \E fees \in [Epochs -> Nat] : RoundsAdvance(fees)
<1> DEFINE r == rounds[e]
           fees == [f \in Epochs |-> IF f = e THEN FeeBooked(e, r) ELSE 0]
<1>1. /\ Settles(e, r) /\ rounds' = [rounds EXCEPT ![e] = TrySettle(e, r)]
      /\ Book(FeeBooked(e, r)) /\ UNCHANGED <<terms, positions>>
  BY Zenon DEF SettleRound
<1>2. /\ r \in RoundType /\ RewardFits(r) /\ TypeOK
  BY DEF TypeInv, TypeOK, RewardOK, RewardFits
<1>3. /\ FeeBooked(e, r) \in Nat
      /\ Advances(e, r, TrySettle(e, r), FeeBooked(e, r))
  BY <1>2, TrySettleAdvances DEF Advances
<1>4. /\ \A f \in Epochs : rounds'[f] = IF f = e THEN TrySettle(e, r) ELSE rounds[f]
  BY <1>1, OneRoundAdvances
<1>5. /\ fees \in [Epochs -> Nat]
      /\ \A f \in Epochs : fees[f] \in Nat /\ Advances(f, rounds[f], rounds'[f], fees[f])
  BY <1>3, <1>4, StillAdvances
<1>6. Total(fees, Epochs) = FeeBooked(e, r)
  <2>1. fees[e] = FeeBooked(e, r) /\ {e} \in SUBSET Epochs
        /\ \A f \in Epochs : fees[f] = IF f \in {e} THEN fees[f] ELSE 0
    OBVIOUS
  <2> HIDE DEF fees
  <2>2. Total(fees, Epochs) = Total(fees, {e})
    BY <2>1, TotalRestrict
  <2>3. QED
    BY <1>3, <2>1, <2>2, TotalSingleton
<1> HIDE DEF fees
<1>7. RoundsAdvance(fees)
  BY <1>1, <1>5, <1>6 DEF RoundsAdvance, Book
<1>8. QED
  BY <1>5, <1>7

LEMMA NewRoundAdvances ==
    ASSUME NEW e, NEW start, NEW lock, NEW close
    PROVE  Advances(e, NoRound, OpenRound(start, lock, close), 0)
BY DEF Advances, SamePools, OpenRound, NoRound

\* The round behind the head round does not exist yet.
LEMMA NextIsBlank ==
    ASSUME TypeInv, BoundariesMeet, BlankUntilCreated, currentEpoch + 1 \in Epochs
    PROVE  rounds[currentEpoch + 1] = NoRound
<1>1. ~ (currentEpoch + 1 <= currentEpoch)
  BY BoundAssumption DEF TypeInv, TypeOK
<1>2. rounds[currentEpoch + 1].status = "Pending"
  BY <1>1, Zenon DEF BoundariesMeet
<1>3. QED
  BY <1>2, Zenon DEF BlankUntilCreated

LEMMA StartAdvances ==
    ASSUME TypeInv, BoundariesMeet, BlankUntilCreated, GenesisStartRound \/ StartNextRound
    PROVE  \E fees \in [Epochs -> Nat] : RoundsAdvance(fees)
<1> DEFINE n == currentEpoch + 1
<1>1. /\ n \in Epochs
      /\ UNCHANGED <<positions, money>>
      /\ terms' = [terms EXCEPT ![n] = CurrentTerms]
      /\ \E s : rounds' = [rounds EXCEPT ![n] = s] /\ Advances(n, NoRound, s, 0)
  <2>1. CASE GenesisStartRound
    <3>1. n \in Epochs /\ n = 1
      BY <2>1, BoundAssumption DEF GenesisStartRound, Epochs
    <3>2. QED
      BY <2>1, <3>1, NewRoundAdvances DEF GenesisStartRound
  <2>2. CASE StartNextRound
    <3>1. n \in Epochs
      BY <2>2, BoundAssumption DEF StartNextRound, NextStartable, TypeInv, TypeOK, Epochs
    <3>2. /\ UNCHANGED <<positions, money>>
          /\ terms' = [terms EXCEPT ![n] = CurrentTerms]
          /\ rounds' = [rounds EXCEPT ![n] = NextRound]
      BY <2>2, Zenon DEF StartNextRound
    <3>3. Advances(n, NoRound, NextRound, 0)
      BY NewRoundAdvances, Zenon DEF NextRound
    <3>4. QED
      BY <3>1, <3>2, <3>3
  <2>3. QED
    BY <2>1, <2>2
<1>2. rounds[n] = NoRound
  BY <1>1, NextIsBlank
<1>3. PICK s : rounds' = [rounds EXCEPT ![n] = s] /\ Advances(n, NoRound, s, 0)
  BY <1>1
<1>4. \A f \in Epochs : terms'[f] = terms[f] \/ rounds[f] = NoRound
  BY <1>1, <1>2 DEF TypeInv, TypeOK
<1> HIDE DEF n
<1>5. \A f \in Epochs : Advances(f, rounds[f], rounds'[f], 0)
  BY <1>1, <1>2, <1>3, OneRoundAdvances, StillAdvances
<1>6. QED
  BY <1>1, <1>4, <1>5, FreeAdvance DEF money

LEMMA ExecuteAdvances ==
    ASSUME TypeInv, BoundariesMeet, BlankUntilCreated, ExecuteRound
    PROVE  \E fees \in [Epochs -> Nat] : RoundsAdvance(fees)
<1> DEFINE scanned == OldestUnresolved..currentEpoch
           advanced == [e \in Epochs |-> IF e \in scanned THEN Advance(e, rounds[e])
                                         ELSE rounds[e]]
           booked == [e \in scanned |-> FeeBooked(e, TryLock(e, rounds[e]))]
           fees == [e \in Epochs |-> IF e \in scanned
                                     THEN FeeBooked(e, TryLock(e, rounds[e])) ELSE 0]
           n == currentEpoch + 1
<1>1. /\ Book(Total(booked, scanned)) /\ UNCHANGED positions
      /\ IF NextStartable
         THEN /\ rounds' = [advanced EXCEPT ![n] = NextRound]
              /\ terms' = [terms EXCEPT ![n] = CurrentTerms]
              /\ currentEpoch' = n
         ELSE rounds' = advanced /\ UNCHANGED <<terms, currentEpoch>>
  BY Zenon DEF ExecuteRound
<1>2. scanned \in SUBSET Epochs
  BY ScanFacts DEF TypeInv
<1>3. n \notin scanned
  BY BoundAssumption DEF TypeInv, TypeOK
<1> HIDE DEF scanned
<1>4. \A e \in Epochs : fees[e] \in Nat /\ Advances(e, rounds[e], advanced[e], fees[e])
  BY AdvanceAdvances, StillAdvances
<1>5. /\ fees \in [Epochs -> Nat]
      /\ \A e \in Epochs : fees[e] = IF e \in scanned THEN booked[e] ELSE 0
  BY <1>4
<1>6. advanced \in [Epochs -> {advanced[e] : e \in Epochs}]
  OBVIOUS
<1>7. n \in Epochs => fees[n] = 0
  BY <1>3
<1> HIDE DEF fees, booked, advanced
<1>8. Total(fees, Epochs) = Total(booked, scanned)
  BY <1>2, <1>5, TotalRestrict
<1>9. /\ \A e \in Epochs : Advances(e, rounds[e], rounds'[e], fees[e])
      /\ \A e \in Epochs : terms'[e] = terms[e] \/ rounds[e] = NoRound
  <2>1. CASE NextStartable
    <3>1. n \in Epochs
      BY <2>1, BoundAssumption DEF NextStartable, TypeInv, TypeOK, Epochs
    <3>2. rounds[n] = NoRound
      BY <3>1, NextIsBlank
    <3>3. Advances(n, NoRound, NextRound, 0)
      BY NewRoundAdvances, Zenon DEF NextRound
    <3>4. /\ rounds' = [advanced EXCEPT ![n] = NextRound]
          /\ terms' = [terms EXCEPT ![n] = CurrentTerms]
          /\ terms \in [Epochs -> TermsType]
      BY <1>1, <2>1 DEF TypeInv, TypeOK
    <3> HIDE DEF n
    <3>5. \A e \in Epochs : /\ rounds'[e] = IF e = n THEN NextRound ELSE advanced[e]
                            /\ e # n => terms'[e] = terms[e]
      BY <1>6, <3>4
    <3>6. QED
      BY <1>4, <1>7, <3>2, <3>3, <3>5
  <2>2. CASE ~NextStartable
    BY <1>1, <1>4, <2>2
  <2>3. QED
    BY <2>1, <2>2
<1>10. RoundsAdvance(fees)
  BY <1>1, <1>5, <1>8, <1>9 DEF RoundsAdvance, Book
<1>11. QED
  BY <1>5, <1>10

LEMMA ElsewhereAdvances ==
    ASSUME TypeInv,
           \/ Tick
           \/ \E o \in Oracles, w \in WindowRange, t \in Instants : OracleAnswers(o, w, t)
           \/ PausePrediction \/ UnpausePrediction
           \/ \E bps \in Proposals.burnFeeBps : ProposeBurnFee(bps)
           \/ CommitBurnFee \/ CancelPendingFee
           \/ \E o \in Proposals.oracle : ProposeOracle(o)
           \/ CommitOracle \/ CancelPendingOracle \/ Configure \/ ForceEther
           \/ UNCHANGED vars
    PROVE  \E fees \in [Epochs -> Nat] : RoundsAdvance(fees)
<1>1. UNCHANGED <<schedule, positions, totalLiabilities, burnAllocated, received>>
  BY Zenon
  DEF Tick, OracleAnswers, PausePrediction, UnpausePrediction,
      ProposeBurnFee, CommitBurnFee, CancelPendingFee, ProposeOracle, CommitOracle,
      CancelPendingOracle, Configure, ForceEther, vars, money
<1>2. \A e \in Epochs : Advances(e, rounds[e], rounds'[e], 0)
  BY <1>1, StillAdvances DEF schedule
<1>3. QED
  BY <1>1, <1>2, FreeAdvance DEF schedule

\* Every step enters, claims, sweeps or advances.
LEMMA StepMoney ==
    ASSUME TypeInv, BoundariesMeet, BlankUntilCreated, [Next]_vars
    PROVE  \/ \E a \in Accounts, e \in Epochs, p \in Positions :
                \E v \in Stakes[e] : Enter(a, e, p, v)
           \/ \E a \in Accounts, batch \in SUBSET Epochs : ClaimSet(a, batch)
           \/ SweepToBurner
           \/ \E fees \in [Epochs -> Nat] : RoundsAdvance(fees)
<1>1. CASE UNCHANGED vars
  BY <1>1, ElsewhereAdvances
<1>2. CASE Next
  BY <1>2, ClaimIsOfASet, DecisionAdvances, SettleAdvances, StartAdvances, ExecuteAdvances,
     ElsewhereAdvances, Zenon
  DEF Next
<1>3. QED
  BY <1>1, <1>2

(***************************************************************************)
(* One round and its bets, as values, so that what is said of them can be  *)
(* said of this state and of the next.                                     *)
(***************************************************************************)
BackersIn(bets, side) == {a \in Accounts : bets[a].position = side}
StakedIn(bets, S) == Total([a \in S |-> bets[a].amount], S)

Matches(r, bets) ==
    /\ r.bullAmount = StakedIn(bets, BackersIn(bets, "Bull"))
    /\ r.bearAmount = StakedIn(bets, BackersIn(bets, "Bear"))
    /\ r.totalAmount = StakedIn(bets, Accounts)

BySide(bets, side) ==
    [a \in Accounts |-> IF bets[a].position = side THEN bets[a].amount ELSE 0]

Amounts(bets) == [a \in Accounts |-> bets[a].amount]

LEMMA BetFields ==
    ASSUME NEW bets \in [Accounts -> BetType]
    PROVE  /\ \A a \in Accounts : /\ bets[a].amount \in Nat
                                  /\ bets[a].position \in Positions
                                  /\ Amounts(bets)[a] = bets[a].amount
           /\ \A side : \A a \in Accounts :
                /\ BySide(bets, side)[a] = IF bets[a].position = side
                                           THEN bets[a].amount ELSE 0
                /\ BySide(bets, side)[a] \in Nat
BY DEF BetType, Amounts, BySide

\* The stakes of one side, counted over everybody.
LEMMA StakedBySide ==
    ASSUME NEW bets \in [Accounts -> BetType], NEW side
    PROVE  StakedIn(bets, BackersIn(bets, side)) = Total(BySide(bets, side), Accounts)
<1> DEFINE S == BackersIn(bets, side)
           f == [a \in S |-> bets[a].amount]
<1>1. /\ S \in SUBSET Accounts
      /\ \A a \in Accounts : BySide(bets, side)[a] = IF a \in S THEN f[a] ELSE 0
  BY BetFields DEF BackersIn
<1> HIDE DEF S, f
<1>2. Total(BySide(bets, side), Accounts) = Total(f, S)
  BY <1>1, TotalRestrict
<1>3. QED
  BY <1>2 DEF StakedIn, S, f

\* Everybody is on one side or the other.
LEMMA PoolsAddUp ==
    ASSUME NEW bets \in [Accounts -> BetType], NEW r, Matches(r, bets)
    PROVE  /\ r.bullAmount \in Nat /\ r.bearAmount \in Nat
           /\ r.totalAmount = r.bullAmount + r.bearAmount
<1> DEFINE bull == BySide(bets, "Bull")
           bear == BySide(bets, "Bear")
           all == Amounts(bets)
<1>1. IsFiniteSet(Accounts)
  BY DomainAssumption
<1>2. \A a \in Accounts : bull[a] \in Nat /\ bear[a] \in Nat /\ all[a] = bull[a] + bear[a]
  <2>1. \A a \in Accounts :
          /\ bets[a].amount \in Nat /\ bets[a].position \in {"Bull", "Bear"}
          /\ all[a] = bets[a].amount
          /\ bull[a] = IF bets[a].position = "Bull" THEN bets[a].amount ELSE 0
          /\ bear[a] = IF bets[a].position = "Bear" THEN bets[a].amount ELSE 0
    BY DEF BetType, Positions, Amounts, BySide
  <2> HIDE DEF bull, bear, all
  <2>2. QED
    BY <2>1
<1>3. all = [a \in Accounts |-> bets[a].amount]
  BY DEF Amounts
<1> HIDE DEF bull, bear, all
<1>4. Total(all, Accounts) = Total(bull, Accounts) + Total(bear, Accounts)
  BY <1>1, <1>2, TotalSum
<1>5. Total(bull, Accounts) \in Nat /\ Total(bear, Accounts) \in Nat
  BY <1>1, <1>2, TotalType
<1>6. /\ r.bullAmount = Total(bull, Accounts) /\ r.bearAmount = Total(bear, Accounts)
      /\ r.totalAmount = Total(all, Accounts)
  BY <1>3, StakedBySide DEF Matches, StakedIn, bull, bear
<1>7. QED
  BY <1>4, <1>5, <1>6

\* the bet that _enter writes
Placed(bets, a, position, amount) ==
    [bets EXCEPT ![a] = [@ EXCEPT !.position = position, !.amount = amount]]

LEMMA PlacedBet ==
    ASSUME NEW bets \in [Accounts -> BetType], NEW a \in Accounts,
           NEW p \in Positions, NEW v \in Nat
    PROVE  LET new == Placed(bets, a, p, v)
           IN  /\ new \in [Accounts -> BetType]
               /\ new[a].position = p /\ new[a].amount = v
               /\ new[a].claimed = bets[a].claimed
               /\ \A b \in Accounts \ {a} : new[b] = bets[b]
BY DEF Placed, BetType

\* An entry adds to the pools of its round what it adds to the ledger.
LEMMA EnteredMatches ==
    ASSUME NEW bets \in [Accounts -> BetType], NEW r \in RoundType, Matches(r, bets),
           NEW a \in Accounts, bets[a].amount = 0, NEW p \in Positions, NEW v \in Nat
    PROVE  Matches(Entered(r, p, v), Placed(bets, a, p, v))
<1> DEFINE new == Placed(bets, a, p, v)
           s == Entered(r, p, v)
<1>1. /\ new \in [Accounts -> BetType]
      /\ new[a].position = p /\ new[a].amount = v
      /\ \A b \in Accounts \ {a} : new[b] = bets[b]
  BY PlacedBet
<1>2. IsFiniteSet(Accounts)
  BY DomainAssumption
<1>3. /\ s.totalAmount = r.totalAmount + v
      /\ s.bullAmount = IF p = "Bull" THEN r.bullAmount + v ELSE r.bullAmount
      /\ s.bearAmount = IF p = "Bear" THEN r.bearAmount + v ELSE r.bearAmount
  BY DEF Entered, RoundType
<1> HIDE DEF new, s
<1>4. ASSUME NEW side
      PROVE  /\ Total(BySide(new, side), Accounts)
                  = Total(BySide(bets, side), Accounts) + (IF p = side THEN v ELSE 0)
             /\ Total(BySide(bets, side), Accounts) \in Nat
  <2> DEFINE f == BySide(bets, side)
             g == BySide(new, side)
  <2>1. /\ \A b \in Accounts : f[b] \in Nat /\ g[b] \in Nat
        /\ \A b \in Accounts \ {a} : g[b] = f[b]
        /\ f[a] = 0 /\ g[a] = IF p = side THEN v ELSE 0
    BY <1>1, BetFields
  <2> HIDE DEF f, g
  <2>2. Total(g, Accounts) + f[a] = Total(f, Accounts) + g[a]
    BY <1>2, <2>1, TotalChange
  <2>3. Total(f, Accounts) \in Nat /\ Total(g, Accounts) \in Nat
    BY <1>2, <2>1, TotalType
  <2>4. QED
    BY <2>1, <2>2, <2>3 DEF f, g
<1>5. /\ s.bullAmount = StakedIn(new, BackersIn(new, "Bull"))
      /\ s.bearAmount = StakedIn(new, BackersIn(new, "Bear"))
  <2>1. /\ r.bullAmount = Total(BySide(bets, "Bull"), Accounts)
        /\ r.bearAmount = Total(BySide(bets, "Bear"), Accounts)
    BY StakedBySide DEF Matches
  <2>2. /\ StakedIn(new, BackersIn(new, "Bull")) = Total(BySide(new, "Bull"), Accounts)
        /\ StakedIn(new, BackersIn(new, "Bear")) = Total(BySide(new, "Bear"), Accounts)
    BY <1>1, StakedBySide
  <2>3. QED
    BY <1>3, <1>4, <2>1, <2>2
<1>6. s.totalAmount = StakedIn(new, Accounts)
  <2> DEFINE f == [b \in Accounts |-> bets[b].amount]
             g == [b \in Accounts |-> new[b].amount]
  <2>1. /\ \A b \in Accounts : f[b] \in Nat /\ g[b] \in Nat
        /\ \A b \in Accounts \ {a} : g[b] = f[b]
        /\ f[a] = 0 /\ g[a] = v
    BY <1>1, BetFields
  <2>2. r.totalAmount = Total(f, Accounts)
    BY Zenon DEF Matches, StakedIn
  <2>3. StakedIn(new, Accounts) = Total(g, Accounts)
    BY Zenon DEF StakedIn
  <2> HIDE DEF f, g
  <2>4. Total(g, Accounts) + f[a] = Total(f, Accounts) + g[a]
    BY <1>2, <2>1, TotalChange
  <2>5. Total(f, Accounts) \in Nat /\ Total(g, Accounts) \in Nat
    BY <1>2, <2>1, TotalType
  <2>6. QED
    BY <1>3, <2>1, <2>2, <2>3, <2>4, <2>5
<1>7. QED
  BY <1>5, <1>6 DEF Matches, new, s

\* A claim marks a bet and leaves its amount and side.
Marked(bets, a) == [bets EXCEPT ![a].claimed = TRUE]

LEMMA MarkedBet ==
    ASSUME NEW bets \in [Accounts -> BetType], NEW a \in Accounts
    PROVE  LET new == Marked(bets, a)
           IN  /\ new \in [Accounts -> BetType]
               /\ new[a].claimed
               /\ \A b \in Accounts : /\ new[b].amount = bets[b].amount
                                      /\ new[b].position = bets[b].position
               /\ \A b \in Accounts \ {a} : new[b] = bets[b]
<1>1. \A bet \in BetType : LET new == [bet EXCEPT !.claimed = TRUE]
                           IN  /\ new \in BetType /\ new.claimed
                               /\ new.amount = bet.amount /\ new.position = bet.position
  BY DEF BetType
<1>2. QED
  BY <1>1 DEF Marked

LEMMA MarkedMatches ==
    ASSUME NEW bets \in [Accounts -> BetType], NEW r, Matches(r, bets), NEW a \in Accounts
    PROVE  Matches(r, Marked(bets, a))
<1> DEFINE new == Marked(bets, a)
<1>1. \A b \in Accounts : new[b].amount = bets[b].amount /\ new[b].position = bets[b].position
  BY MarkedBet
<1> HIDE DEF new
<1>2. \A side : BackersIn(new, side) = BackersIn(bets, side)
  BY <1>1 DEF BackersIn
<1>3. \A S \in SUBSET Accounts : StakedIn(new, S) = StakedIn(bets, S)
  <2>1. \A S \in SUBSET Accounts : [b \in S |-> new[b].amount] = [b \in S |-> bets[b].amount]
    BY <1>1
  <2>2. QED
    BY <2>1, Zenon DEF StakedIn
<1>4. \A side : BackersIn(bets, side) \in SUBSET Accounts
  BY DEF BackersIn
<1>5. QED
  BY <1>2, <1>3, <1>4 DEF Matches, new

LEMMA SamePoolsMatch ==
    ASSUME NEW bets, NEW r, NEW s, SamePools(r, s), Matches(r, bets)
    PROVE  Matches(s, bets)
BY DEF SamePools, Matches

(***************************************************************************)
(* What a round pays.                                                      *)
(***************************************************************************)
\* what the round r pays a bet, claimed or not
PayoutOf(r, bet) ==
    IF r.status = "Cancelled" \/ r.outcome \in {"Tie", "NoContest"} THEN bet.amount
    ELSE IF Contested(r.outcome) /\ bet.position = r.outcome
         THEN (bet.amount * r.rewardAmount) \div r.rewardBaseAmount
    ELSE 0

\* _entitlement of a round and a bet
EntitlementOf(r, bet) ==
    IF bet.amount = 0 \/ bet.claimed THEN 0
    ELSE IF r.status = "Cancelled" THEN bet.amount
    ELSE IF r.status # "Settled" THEN 0
    ELSE IF r.outcome \in {"Tie", "NoContest"} THEN bet.amount
    ELSE IF Contested(r.outcome) /\ bet.position = r.outcome
         THEN (bet.amount * r.rewardAmount) \div r.rewardBaseAmount
    ELSE 0

IsDecided(r) == r.status \in {"Settled", "Cancelled"}

OwedOf(r, bet) == IF IsDecided(r) THEN EntitlementOf(r, bet) ELSE bet.amount

\* a settled round records the truth, no other round records an outcome
Told(r, bps) ==
    IF r.status = "Settled" THEN SettlesTruly(r, bps) ELSE r.outcome = "Undecided"

\* What is left to claim is the payout until it is claimed, and nothing after.
LEMMA EntitlementIsPayout ==
    ASSUME NEW r \in RoundType, NEW bps \in 0..MaxBps, Told(r, bps), NEW bet \in BetType
    PROVE  /\ PayoutOf(r, bet) \in Nat
           /\ EntitlementOf(r, bet) = IF bet.claimed THEN 0 ELSE PayoutOf(r, bet)
           /\ PayoutOf(r, bet) > 0 => IsDecided(r) /\ bet.amount > 0
<1>1. /\ bet.amount \in Nat /\ r.rewardAmount \in Nat /\ r.rewardBaseAmount \in Nat
      /\ r.bullAmount \in Nat /\ r.bearAmount \in Nat
  BY DEF BetType, RoundType
<1>2. CASE r.status = "Settled"
  <2>1. Contested(r.outcome) => r.rewardBaseAmount > 0
    <3>1. SettlesTruly(r, bps)
      BY <1>2 DEF Told
    <3>2. QED
      BY <3>1, TrueSettlement DEF Contested, SideOf
  <2>2. Contested(r.outcome) =>
          /\ (bet.amount * r.rewardAmount) \div r.rewardBaseAmount \in Nat
          /\ bet.amount = 0 => (bet.amount * r.rewardAmount) \div r.rewardBaseAmount = 0
    <3>1. bet.amount * r.rewardAmount \in Nat
      BY <1>1
    <3>2. bet.amount = 0 => bet.amount * r.rewardAmount = 0
      BY <1>1
    <3>3. \A b \in Nat \ {0} : 0 \div b = 0
      OBVIOUS
    <3>4. QED
      BY <1>1, <2>1, <3>1, <3>2, <3>3, FloorBounds
  <2>3. QED
    BY <1>1, <1>2, <2>2 DEF PayoutOf, EntitlementOf, IsDecided, Contested
<1>3. CASE r.status # "Settled"
  <2>1. r.outcome = "Undecided"
    BY <1>3 DEF Told
  <2>2. QED
    BY <1>1, <1>3, <2>1 DEF PayoutOf, EntitlementOf, IsDecided, Contested
<1>4. QED
  BY <1>2, <1>3

(***************************************************************************)
(* The winners of a contested round share the pool without the fee, and    *)
(* together lose less than one wei each to the flooring.                   *)
(***************************************************************************)
WinnersIn(r, bets) ==
    {a \in BackersIn(bets, r.outcome) : bets[a].amount > 0}

ShareIn(r, bets, a) == (bets[a].amount * r.rewardAmount) \div r.rewardBaseAmount

LEMMA WinnersTakeAll ==
    ASSUME NEW r \in RoundType, NEW bps \in 0..MaxBps, SettlesTruly(r, bps),
           NEW bets \in [Accounts -> BetType], Matches(r, bets), Contested(r.outcome)
    PROVE  LET W == WinnersIn(r, bets)
               paid == Total([a \in W |-> ShareIn(r, bets, a)], W)
           IN  /\ IsFiniteSet(W) /\ W # {}
               /\ Total([a \in W |-> bets[a].amount], W) = r.rewardBaseAmount
               /\ paid \in Nat
               /\ paid <= r.rewardAmount
               /\ r.rewardAmount < paid + Cardinality(W)
<1> DEFINE W == WinnersIn(r, bets)
           f == [a \in W |-> bets[a].amount]
           g == [a \in W |-> ShareIn(r, bets, a)]
           B == r.rewardBaseAmount
           R == r.rewardAmount
<1>1. /\ R \in Nat /\ B \in Nat \ {0} /\ B = SideOf(r, r.outcome)
  BY TrueSettlement DEF RoundType, SideOf, Contested
<1>2. W \in SUBSET Accounts /\ IsFiniteSet(W)
  BY DomainAssumption, FS_Subset DEF WinnersIn, BackersIn
<1>3. B = Total(BySide(bets, r.outcome), Accounts)
  <2>1. B = StakedIn(bets, BackersIn(bets, r.outcome))
    BY <1>1 DEF SideOf, Matches, Contested
  <2>2. QED
    BY <2>1, StakedBySide
<1>4. Total(f, W) = Total(BySide(bets, r.outcome), Accounts)
  <2>1. \A a \in Accounts : /\ BySide(bets, r.outcome)[a] = IF bets[a].position = r.outcome
                                                            THEN bets[a].amount ELSE 0
                            /\ bets[a].amount \in Nat
    BY BetFields
  <2>2. \A a \in Accounts : BySide(bets, r.outcome)[a] = IF a \in W THEN f[a] ELSE 0
    BY <2>1 DEF WinnersIn, BackersIn
  <2> HIDE DEF f, W
  <2>3. QED
    BY <1>2, <2>2, TotalRestrict
<1>5. /\ \A a \in W : f[a] \in Nat
      /\ \A a \in W : g[a] = (f[a] * R) \div B
  BY <1>2, BetFields DEF ShareIn
<1> HIDE DEF W, f, g, B, R
<1>6. /\ Total(g, W) \in Nat /\ Total(g, W) <= R /\ R < Total(g, W) + Cardinality(W)
  BY <1>1, <1>2, <1>3, <1>4, <1>5, SharesOfPool
<1>7. W # {}
  BY <1>1, <1>3, <1>4, TotalEmpty
<1>8. QED
  BY <1>2, <1>3, <1>4, <1>6, <1>7 DEF W, f, g, B, R

(***************************************************************************)
(* What a round owes to all its entrants, before and after it advances.    *)
(***************************************************************************)
RowOf(r, bets) == Total([a \in Accounts |-> OwedOf(r, bets[a])], Accounts)

LEMMA OwedType ==
    ASSUME NEW r \in RoundType, NEW bps \in 0..MaxBps, Told(r, bps), NEW bet \in BetType
    PROVE  OwedOf(r, bet) \in Nat
BY EntitlementIsPayout DEF OwedOf, BetType

LEMMA RowType ==
    ASSUME NEW r \in RoundType, NEW bps \in 0..MaxBps, Told(r, bps),
           NEW bets \in [Accounts -> BetType]
    PROVE  RowOf(r, bets) \in Nat
<1> DEFINE f == [a \in Accounts |-> OwedOf(r, bets[a])]
<1>1. \A a \in Accounts : f[a] \in Nat
  BY OwedType
<1> HIDE DEF f
<1>2. QED
  BY <1>1, DomainAssumption, TotalType DEF RowOf, f

\* Settling takes the fee out of what the round owes.
LEMMA SettlementCovers ==
    ASSUME NEW s \in RoundType, NEW bps \in 0..MaxBps, SettlesTruly(s, bps),
           NEW bets \in [Accounts -> BetType], Matches(s, bets)
    PROVE  RowOf(s, bets) + FeeOf(s, s.closePrice, bps) <= s.totalAmount
<1> DEFINE f == [a \in Accounts |-> OwedOf(s, bets[a])]
           fee == FeeOf(s, s.closePrice, bps)
<1>1. IsFiniteSet(Accounts)
  BY DomainAssumption
<1>2. \A a \in Accounts : bets[a] \in BetType /\ bets[a].amount \in Nat
                          /\ bets[a].position \in Positions
  BY DEF BetType
<1>3. s.status = "Settled" /\ Told(s, bps)
  BY TrueSettlement DEF Told
<1>4. \A a \in Accounts : f[a] \in Nat /\ f[a] <= PayoutOf(s, bets[a])
  <2>1. \A a \in Accounts : /\ PayoutOf(s, bets[a]) \in Nat
                            /\ f[a] = IF bets[a].claimed THEN 0 ELSE PayoutOf(s, bets[a])
    BY <1>2, <1>3, EntitlementIsPayout DEF OwedOf, IsDecided
  <2> HIDE DEF f
  <2>2. QED
    BY <2>1
<1>5. s.totalAmount = Total(Amounts(bets), Accounts)
  BY DEF Matches, StakedIn, Amounts
<1>6. s.totalAmount \in Nat
  BY DEF RoundType
<1> HIDE DEF f
<1>7. CASE s.outcome \in {"Tie", "NoContest"}
  <2>1. \A a \in Accounts : Amounts(bets)[a] \in Nat /\ f[a] <= Amounts(bets)[a]
    BY <1>2, <1>4, <1>7 DEF PayoutOf, Amounts
  <2>2. Total(f, Accounts) <= Total(Amounts(bets), Accounts)
    BY <1>1, <1>4, <2>1, TotalMonotone
  <2>3. fee = 0
    BY <1>7, TrueSettlement
  <2>4. Total(f, Accounts) \in Nat
    BY <1>1, <1>4, TotalType
  <2>5. QED
    BY <1>5, <1>6, <2>2, <2>3, <2>4 DEF RowOf, f
<1>8. CASE s.outcome = "AllLost"
  <2>1. \A a \in Accounts : f[a] = 0
    BY <1>3, <1>4, <1>8 DEF PayoutOf, Contested
  <2>2. Total(f, Accounts) = 0
    <3>1. \A a \in Accounts : f[a] = IF a \in {} THEN f[a] ELSE 0
      BY <2>1
    <3>2. {} \in SUBSET Accounts
      OBVIOUS
    <3>3. Total(f, Accounts) = Total(f, {})
      BY <3>1, <3>2, TotalRestrict
    <3>4. QED
      BY <3>3, TotalEmpty
  <2>3. fee = s.totalAmount
    BY <1>8, TrueSettlement
  <2>4. QED
    BY <1>6, <2>2, <2>3 DEF RowOf, f
<1>9. CASE Contested(s.outcome)
  <2> DEFINE W == WinnersIn(s, bets)
             g == [a \in W |-> ShareIn(s, bets, a)]
             h == [a \in Accounts |-> IF a \in W THEN g[a] ELSE 0]
  <2>1. Total(g, W) \in Nat /\ Total(g, W) <= s.rewardAmount
    BY <1>9, WinnersTakeAll
  <2>2. W \in SUBSET Accounts
    BY DEF WinnersIn, BackersIn
  <2>3. \A a \in Accounts : h[a] \in Nat /\ f[a] <= h[a]
    <3>1. ASSUME NEW a \in Accounts
          PROVE  h[a] = PayoutOf(s, bets[a])
      <4>1. CASE bets[a].position = s.outcome /\ bets[a].amount > 0
        <5>1. a \in W
          BY <4>1 DEF WinnersIn, BackersIn
        <5>2. h[a] = (bets[a].amount * s.rewardAmount) \div s.rewardBaseAmount
          BY <5>1 DEF ShareIn
        <5>3. QED
          BY <1>3, <1>9, <4>1, <5>2, Zenon DEF PayoutOf, Contested
      <4>2. CASE bets[a].position # s.outcome
        <5>1. a \notin W
          BY <4>2 DEF WinnersIn, BackersIn
        <5>2. h[a] = 0
          BY <5>1
        <5>3. QED
          BY <1>3, <1>9, <4>2, <5>2 DEF PayoutOf, Contested
      <4>3. CASE bets[a].amount = 0
        <5>1. a \notin W
          BY <4>3 DEF WinnersIn
        <5>2. h[a] = 0
          BY <5>1
        <5>3. PayoutOf(s, bets[a]) = 0
          BY <1>2, <1>3, <4>3, EntitlementIsPayout
        <5>4. QED
          BY <5>2, <5>3
      <4>4. QED
        BY <1>2, <4>1, <4>2, <4>3
    <3>2. \A a \in Accounts : PayoutOf(s, bets[a]) \in Nat
      BY <1>2, <1>3, EntitlementIsPayout
    <3> HIDE DEF h
    <3>3. QED
      BY <1>4, <3>1, <3>2
  <2>4. \A a \in Accounts : h[a] = IF a \in W THEN g[a] ELSE 0
    OBVIOUS
  <2> HIDE DEF W, g, h
  <2>5. Total(h, Accounts) = Total(g, W)
    BY <2>2, <2>4, TotalRestrict
  <2>6. Total(f, Accounts) <= Total(h, Accounts)
    BY <1>1, <1>4, <2>3, TotalMonotone
  <2>7. s.rewardAmount = s.totalAmount - fee /\ fee \in Nat /\ fee <= s.totalAmount
    BY <1>9, TrueSettlement
  <2>8. Total(f, Accounts) \in Nat
    BY <1>1, <1>4, TotalType
  <2> HIDE DEF fee
  <2>9. Total(f, Accounts) + fee <= s.totalAmount
    BY <1>6, <2>1, <2>5, <2>6, <2>7, <2>8
  <2>10. QED
    BY <2>9 DEF RowOf, f, fee
<1>10. s.outcome \in {"Tie", "NoContest", "AllLost", "Bull", "Bear"}
  BY TrueSettlement DEF Outcomes
<1>11. QED
  BY <1>7, <1>8, <1>9, <1>10 DEF Contested

(***************************************************************************)
(* The inductive invariant.  A round's pools are its stakes, a settled     *)
(* round records the truth, and whoever has claimed had something to claim.*)
(* The last two are what keeps the first meaningful: only a round that     *)
(* nobody has claimed from can still change.                               *)
(***************************************************************************)
InOrder(r, bps, bets) ==
    /\ Matches(r, bets)
    /\ Told(r, bps)
    /\ \A a \in Accounts : bets[a].claimed => PayoutOf(r, bets[a]) > 0

LedgerInv ==
    \A e \in Epochs : InOrder(rounds[e], terms[e].burnFeeBps, ledger[e])

\* The state's types, one round at a time.
LEMMA RoundTypes ==
    ASSUME TypeInv, NEW e \in Epochs
    PROVE  /\ rounds[e] \in RoundType
           /\ terms[e].burnFeeBps \in 0..MaxBps
           /\ ledger[e] \in [Accounts -> BetType]
BY FeeRateFits DEF TypeInv, TypeOK, TermsType

\* Nobody has claimed from a round that is not decided.
LEMMA UndecidedUnclaimed ==
    ASSUME NEW r \in RoundType, NEW bps \in 0..MaxBps, NEW bets \in [Accounts -> BetType],
           InOrder(r, bps, bets), ~IsDecided(r), NEW a \in Accounts
    PROVE  ~bets[a].claimed
BY EntitlementIsPayout DEF InOrder

LEMMA AdvanceInOrder ==
    ASSUME TypeInv, NEW e \in Epochs, NEW s \in RoundType, NEW fee, NEW bps,
           InOrder(rounds[e], terms[e].burnFeeBps, ledger[e]),
           Advances(e, rounds[e], s, fee),
           bps = terms[e].burnFeeBps \/ rounds[e] = NoRound
    PROVE  InOrder(s, bps, ledger[e])
<1> DEFINE r == rounds[e]
<1>1. /\ r \in RoundType /\ terms[e].burnFeeBps \in 0..MaxBps
      /\ ledger[e] \in [Accounts -> BetType]
  BY RoundTypes
<1>2. Matches(s, ledger[e])
  BY SamePoolsMatch DEF InOrder, Advances
<1>3. CASE s = r
  <2>1. CASE rounds[e] = NoRound
    <3>1. r.status # "Settled"
      BY <2>1 DEF NoRound
    <3>2. QED
      BY <1>3, <3>1 DEF InOrder, Told
  <2>2. QED
    BY <1>3, <2>1
<1>4. CASE s # r
  <2>1. ~IsDecided(r)
    BY <1>4 DEF Advances, IsDecided
  <2>2. \A a \in Accounts : ~ledger[e][a].claimed
    BY <1>1, <2>1, UndecidedUnclaimed
  <2>3. Told(s, bps)
    <3>1. CASE s.status \in {"Open", "Locked", "Cancelled"} /\ s.outcome = r.outcome
      BY <2>1, <3>1 DEF InOrder, Told, IsDecided
    <3>2. CASE r.status \in {"Open", "Locked"} /\ SettlesTruly(s, terms[e].burnFeeBps)
      <4>1. r # NoRound
        BY <3>2 DEF NoRound
      <4>2. s.status = "Settled"
        BY <1>1, <3>2, TrueSettlement
      <4>3. QED
        BY <3>2, <4>1, <4>2 DEF Told
    <3>3. QED
      BY <1>4, <3>1, <3>2 DEF Advances
  <2>4. QED
    BY <1>2, <2>2, <2>3 DEF InOrder
<1>5. QED
  BY <1>3, <1>4

\* An entry: the round is open, and the account has no stake in it yet.
LEMMA EnterParts ==
    ASSUME TypeInv, NEW a \in Accounts, NEW e \in Epochs, NEW p \in Positions,
           NEW v \in Stakes[e], Enter(a, e, p, v)
    PROVE  /\ v \in Nat /\ rounds[e].status = "Open" /\ ledger[e][a].amount = 0
           /\ rounds'[e] = Entered(rounds[e], p, v)
           /\ ledger'[e] = Placed(ledger[e], a, p, v)
           /\ \A f \in Epochs \ {e} : rounds'[f] = rounds[f] /\ ledger'[f] = ledger[f]
           /\ terms' = terms
           /\ totalLiabilities' = totalLiabilities + v
           /\ UNCHANGED <<burnAllocated, received>>
<1>1. v \in Nat
  BY DomainAssumption DEF Epochs
<1>2. /\ OpenForEntry(rounds[e]) /\ ledger[e][a].amount = 0
      /\ ledger' = [ledger EXCEPT ![e][a] = [@ EXCEPT !.position = p, !.amount = v]]
      /\ rounds' = [rounds EXCEPT ![e] = Entered(@, p, v)]
      /\ totalLiabilities' = totalLiabilities + v
      /\ UNCHANGED <<terms, burnAllocated, received>>
  BY Zenon DEF Enter
<1>3. rounds \in [Epochs -> RoundType] /\ ledger \in [Epochs -> [Accounts -> BetType]]
  BY DEF TypeInv, TypeOK
<1>4. /\ ledger'[e] = Placed(ledger[e], a, p, v)
      /\ \A f \in Epochs \ {e} : ledger'[f] = ledger[f]
  BY <1>2, <1>3 DEF Placed
<1>5. /\ rounds'[e] = Entered(rounds[e], p, v)
      /\ \A f \in Epochs \ {e} : rounds'[f] = rounds[f]
  BY <1>2, <1>3
<1>6. QED
  BY <1>1, <1>2, <1>4, <1>5 DEF OpenForEntry

LEMMA EnterInOrder ==
    ASSUME NEW r \in RoundType, NEW bps \in 0..MaxBps, NEW bets \in [Accounts -> BetType],
           InOrder(r, bps, bets), r.status = "Open",
           NEW a \in Accounts, bets[a].amount = 0, NEW p \in Positions, NEW v \in Nat
    PROVE  InOrder(Entered(r, p, v), bps, Placed(bets, a, p, v))
<1> DEFINE s == Entered(r, p, v)
           new == Placed(bets, a, p, v)
<1>1. Matches(s, new)
  BY EnteredMatches DEF InOrder
<1>2. s.status = "Open" /\ s.outcome = r.outcome
  BY DEF Entered, RoundType
<1>3. \A b \in Accounts : ~bets[b].claimed
  BY UndecidedUnclaimed DEF IsDecided
<1>4. \A b \in Accounts : new[b].claimed = bets[b].claimed
  <2>1. new[a].claimed = bets[a].claimed /\ \A b \in Accounts \ {a} : new[b] = bets[b]
    BY PlacedBet
  <2> HIDE DEF new
  <2>2. QED
    BY <2>1
<1> HIDE DEF s, new
<1>5. Told(s, bps)
  BY <1>2 DEF InOrder, Told
<1>6. QED
  BY <1>1, <1>3, <1>4, <1>5 DEF InOrder, s, new

\* A claim: every epoch of the batch owes the account something, and is marked.
LEMMA ClaimParts ==
    ASSUME TypeInv, NEW a \in Accounts, NEW batch \in SUBSET Epochs, ClaimSet(a, batch)
    PROVE  LET owed == [e \in batch |-> Entitlement(e, a)]
           IN  /\ \A e \in batch : Entitlement(e, a) > 0
               /\ \A e \in Epochs : ledger'[e] = IF e \in batch THEN Marked(ledger[e], a)
                                                 ELSE ledger[e]
               /\ UNCHANGED <<rounds, terms, burnAllocated, received>>
               /\ Total(owed, batch) <= totalLiabilities
               /\ totalLiabilities' = totalLiabilities - Total(owed, batch)
<1> DEFINE owed == [e \in batch |-> Entitlement(e, a)]
<1>1. /\ \A e \in batch : owed[e] > 0
      /\ ledger' = [e \in Epochs |->
                      IF e \in batch THEN [ledger[e] EXCEPT ![a].claimed = TRUE]
                      ELSE ledger[e]]
      /\ UNCHANGED <<schedule, burnAllocated, received>>
      /\ Total(owed, batch) <= totalLiabilities
      /\ totalLiabilities' = totalLiabilities - Total(owed, batch)
  BY Zenon DEF ClaimSet
<1>2. \A e \in batch : owed[e] = Entitlement(e, a)
  OBVIOUS
<1> HIDE DEF owed
<1>3. QED
  BY <1>1, <1>2, Zenon DEF Marked, schedule, owed

LEMMA MarkInOrder ==
    ASSUME NEW r \in RoundType, NEW bps \in 0..MaxBps, NEW bets \in [Accounts -> BetType],
           InOrder(r, bps, bets), NEW a \in Accounts, EntitlementOf(r, bets[a]) > 0
    PROVE  InOrder(r, bps, Marked(bets, a))
<1> DEFINE new == Marked(bets, a)
<1>1. Matches(r, new)
  BY MarkedMatches DEF InOrder
<1>2. \A b \in Accounts : /\ new[b].amount = bets[b].amount
                          /\ new[b].position = bets[b].position
                          /\ b # a => new[b] = bets[b]
  BY MarkedBet
<1>3. \A b \in Accounts : PayoutOf(r, new[b]) = PayoutOf(r, bets[b])
  <2> HIDE DEF new
  <2>1. QED
    BY <1>2, Zenon DEF PayoutOf
<1>4. PayoutOf(r, bets[a]) > 0
  BY EntitlementIsPayout DEF InOrder
<1> HIDE DEF new
<1>5. \A b \in Accounts : new[b].claimed => PayoutOf(r, new[b]) > 0
  BY <1>2, <1>3, <1>4 DEF InOrder
<1>6. QED
  BY <1>1, <1>5 DEF InOrder, new

LEMMA EntitlementHere ==
    \A e, a : Entitlement(e, a) = EntitlementOf(rounds[e], ledger[e][a])
BY DEF Entitlement, EntitlementOf

LEMMA LedgerStep ==
    ASSUME TypeInv, TypeInv', BoundariesMeet, BlankUntilCreated, LedgerInv, [Next]_vars
    PROVE  LedgerInv'
<1> SUFFICES ASSUME NEW f \in Epochs
             PROVE  InOrder(rounds'[f], terms'[f].burnFeeBps, ledger'[f])
  BY DEF LedgerInv
<1>1. /\ InOrder(rounds[f], terms[f].burnFeeBps, ledger[f])
      /\ rounds[f] \in RoundType /\ terms[f].burnFeeBps \in 0..MaxBps
      /\ ledger[f] \in [Accounts -> BetType]
  BY RoundTypes DEF LedgerInv
<1>2. rounds'[f] \in RoundType
  BY DEF TypeInv, TypeOK
<1>3. ASSUME NEW a \in Accounts, NEW e \in Epochs, NEW p \in Positions,
             NEW v \in Stakes[e], Enter(a, e, p, v)
      PROVE  InOrder(rounds'[f], terms'[f].burnFeeBps, ledger'[f])
  <2>1. /\ v \in Nat /\ rounds[e].status = "Open" /\ ledger[e][a].amount = 0
        /\ rounds'[e] = Entered(rounds[e], p, v)
        /\ ledger'[e] = Placed(ledger[e], a, p, v)
        /\ f # e => rounds'[f] = rounds[f] /\ ledger'[f] = ledger[f]
        /\ terms' = terms
    BY <1>3, EnterParts
  <2>2. CASE f = e
    BY <1>1, <2>1, <2>2, EnterInOrder
  <2>3. QED
    BY <1>1, <2>1, <2>2
<1>4. ASSUME NEW a \in Accounts, NEW batch \in SUBSET Epochs, ClaimSet(a, batch)
      PROVE  InOrder(rounds'[f], terms'[f].burnFeeBps, ledger'[f])
  <2>1. /\ f \in batch => EntitlementOf(rounds[f], ledger[f][a]) > 0
        /\ ledger'[f] = IF f \in batch THEN Marked(ledger[f], a) ELSE ledger[f]
        /\ UNCHANGED <<rounds, terms>>
    BY <1>4, ClaimParts, EntitlementHere
  <2>2. CASE f \in batch
    BY <1>1, <2>1, <2>2, MarkInOrder
  <2>3. QED
    BY <1>1, <2>1, <2>2
<1>5. ASSUME SweepToBurner
      PROVE  InOrder(rounds'[f], terms'[f].burnFeeBps, ledger'[f])
  BY <1>1, <1>5 DEF SweepToBurner, schedule, positions
<1>6. ASSUME NEW fees \in [Epochs -> Nat], RoundsAdvance(fees)
      PROVE  InOrder(rounds'[f], terms'[f].burnFeeBps, ledger'[f])
  <2>1. /\ Advances(f, rounds[f], rounds'[f], fees[f])
        /\ terms'[f].burnFeeBps = terms[f].burnFeeBps \/ rounds[f] = NoRound
        /\ ledger' = ledger
    BY <1>6 DEF RoundsAdvance, positions
  <2>2. QED
    BY <1>1, <1>2, <2>1, AdvanceInOrder
<1>7. QED
  BY <1>3, <1>4, <1>5, <1>6, StepMoney

LEMMA LedgerInit == Init => LedgerInv
<1> SUFFICES ASSUME Init, NEW e \in Epochs
             PROVE  InOrder(rounds[e], terms[e].burnFeeBps, ledger[e])
  BY DEF LedgerInv
<1> DEFINE bets == [a \in Accounts |-> NoBet]
<1>1. rounds[e] = NoRound /\ ledger[e] = bets
  BY DEF Init
<1>2. \A S \in SUBSET Accounts : StakedIn(bets, S) = 0
  <2> SUFFICES ASSUME NEW S \in SUBSET Accounts PROVE StakedIn(bets, S) = 0
    OBVIOUS
  <2> DEFINE f == [a \in S |-> bets[a].amount]
  <2>1. \A a \in S : f[a] = IF a \in {} THEN f[a] ELSE 0
    BY DEF NoBet
  <2>2. {} \in SUBSET S
    OBVIOUS
  <2> HIDE DEF f
  <2>3. Total(f, S) = Total(f, {})
    BY <2>1, <2>2, TotalRestrict
  <2>4. QED
    BY <2>3, TotalEmpty DEF StakedIn, f
<1>3. Matches(NoRound, bets)
  BY <1>2 DEF Matches, NoRound, BackersIn
<1>4. QED
  BY <1>1, <1>3 DEF InOrder, Told, NoRound, NoBet

LEMMA LedgerAlwaysInOrder == Spec => []LedgerInv
BY LedgerInit, LedgerStep, TypeCorrect, BoundariesAlwaysMeet, AlwaysBlank, PTL DEF Spec

LEMMA PoolsHere == LedgerInv => PoolsMatchLedger
BY DEF LedgerInv, InOrder, Matches, PoolsMatchLedger, Staked, StakedIn, Backers, BackersIn

\* The pools a round settles with are always the sums of the individual stakes that
\* _enter recorded, whatever entries, claims and settlements came in between.
THEOREM PoolsAlwaysMatch == Spec => []PoolsMatchLedger
BY LedgerAlwaysInOrder, PoolsHere, PTL

LEMMA DustHere ==
    ASSUME TypeInv, LedgerInv
    PROVE  OnlyDustStays
<1> SUFFICES ASSUME NEW e \in Epochs, Contested(rounds[e].outcome)
             PROVE  LET r == rounds[e]
                        winners == {a \in Backers(e, r.outcome) : ledger[e][a].amount > 0}
                        paid == Total([a \in winners |-> WinnersShare(e, a)], winners)
                        fee == (r.totalAmount * terms[e].burnFeeBps) \div MaxBps
                    IN  /\ winners # {}
                        /\ paid + fee <= r.totalAmount
                        /\ r.totalAmount < paid + fee + Cardinality(winners)
  BY Zenon DEF OnlyDustStays
<1> DEFINE r == rounds[e]
           bets == ledger[e]
           W == WinnersIn(r, bets)
           paid == Total([a \in W |-> ShareIn(r, bets, a)], W)
           fee == (r.totalAmount * terms[e].burnFeeBps) \div MaxBps
<1>1. r \in RoundType /\ terms[e].burnFeeBps \in 0..MaxBps /\ bets \in [Accounts -> BetType]
  BY RoundTypes
<1>2. Matches(r, bets) /\ Told(r, terms[e].burnFeeBps)
  BY DEF LedgerInv, InOrder
<1>3. SettlesTruly(r, terms[e].burnFeeBps)
  BY <1>2 DEF Told, Contested
<1>4. /\ IsFiniteSet(W) /\ W # {} /\ paid \in Nat
      /\ paid <= r.rewardAmount /\ r.rewardAmount < paid + Cardinality(W)
  BY <1>1, <1>2, <1>3, WinnersTakeAll
<1>5. r.rewardAmount = r.totalAmount - fee /\ fee \in Nat /\ fee <= r.totalAmount
  BY <1>1, <1>3, TrueSettlement
<1>6. r.totalAmount \in Nat /\ Cardinality(W) \in Nat
  BY <1>1, <1>4, FS_CardinalityType DEF RoundType
<1>7. /\ {a \in Backers(e, r.outcome) : ledger[e][a].amount > 0} = W
      /\ [a \in W |-> WinnersShare(e, a)] = [a \in W |-> ShareIn(r, bets, a)]
  BY DEF Backers, WinnersIn, BackersIn, WinnersShare, ShareIn
<1> HIDE DEF W, paid, fee
<1>8. paid + fee <= r.totalAmount /\ r.totalAmount < paid + fee + Cardinality(W)
  BY <1>4, <1>5, <1>6
<1>9. QED
  BY <1>4, <1>7, <1>8 DEF paid, fee

\* Whatever the stakes, the prices and the pinned fee rate, the winners of a contested
\* round are paid everything but the fee, short of one wei each at most.
THEOREM OnlyDustEverStays == Spec => []OnlyDustStays
BY LedgerAlwaysInOrder, TypeCorrect, DustHere, PTL

(***************************************************************************)
(* What is owed, round by round.                                           *)
(***************************************************************************)
\* what all the entrants of round e may still claim
RowHere(e) == RowOf(rounds[e], ledger[e])
RowTotals == [e \in Epochs |-> RowHere(e)]

\* No step of a round's life makes it owe more than before without its fee.
LEMMA AdvanceRow ==
    ASSUME TypeInv, NEW e \in Epochs, NEW s \in RoundType, NEW fee,
           InOrder(rounds[e], terms[e].burnFeeBps, ledger[e]),
           Advances(e, rounds[e], s, fee)
    PROVE  RowOf(s, ledger[e]) + fee <= RowOf(rounds[e], ledger[e])
<1> DEFINE r == rounds[e]
           bets == ledger[e]
           bps == terms[e].burnFeeBps
           f == [a \in Accounts |-> OwedOf(s, bets[a])]
           g == [a \in Accounts |-> OwedOf(r, bets[a])]
<1>1. r \in RoundType /\ bps \in 0..MaxBps /\ bets \in [Accounts -> BetType]
  BY RoundTypes
<1>2. IsFiniteSet(Accounts)
  BY DomainAssumption
<1>3. Told(r, bps) /\ Told(s, bps) /\ Matches(s, bets)
  BY AdvanceInOrder DEF InOrder
<1>4. RowOf(s, bets) \in Nat /\ RowOf(r, bets) \in Nat
  BY <1>1, <1>3, RowType
<1>5. CASE s = r /\ fee = 0
  BY <1>4, <1>5
<1>6. CASE ~IsDecided(r) /\ s.status \in {"Open", "Locked", "Cancelled"} /\ fee = 0
  <2>1. \A a \in Accounts :
          /\ f[a] \in Nat /\ g[a] \in Nat
          /\ f[a] <= g[a]
    <3> SUFFICES ASSUME NEW a \in Accounts
                 PROVE  f[a] \in Nat /\ g[a] \in Nat /\ f[a] <= g[a]
      OBVIOUS
    <3>1. OwedOf(r, bets[a]) = bets[a].amount /\ bets[a].amount \in Nat
      BY <1>1, <1>6 DEF OwedOf, BetType
    <3>2. OwedOf(s, bets[a]) \in {0, bets[a].amount}
      BY <1>6 DEF OwedOf, EntitlementOf, IsDecided
    <3>3. QED
      BY <3>1, <3>2
  <2> HIDE DEF f, g
  <2>2. Total(f, Accounts) <= Total(g, Accounts)
    BY <1>2, <2>1, TotalMonotone
  <2>3. RowOf(s, bets) = Total(f, Accounts) /\ RowOf(r, bets) = Total(g, Accounts)
    BY Zenon DEF RowOf, f, g
  <2>4. QED
    BY <1>4, <1>6, <2>2, <2>3
<1>7. CASE ~IsDecided(r) /\ SettlesTruly(s, bps) /\ fee = FeeOf(s, s.closePrice, bps)
  <2>1. RowOf(s, bets) + fee <= s.totalAmount
    BY <1>1, <1>3, <1>7, SettlementCovers
  <2>2. g = [a \in Accounts |-> bets[a].amount]
    BY <1>7 DEF OwedOf
  <2>3. s.totalAmount = RowOf(r, bets)
    BY <1>3, <2>2 DEF Matches, StakedIn, RowOf
  <2>4. QED
    BY <2>1, <2>3
<1>8. QED
  BY <1>5, <1>6, <1>7 DEF Advances, IsDecided

\* An entry adds its stake to what an open round owes.
LEMMA EnterRow ==
    ASSUME NEW r \in RoundType, r.status = "Open", NEW bets \in [Accounts -> BetType],
           NEW a \in Accounts, bets[a].amount = 0, NEW p \in Positions, NEW v \in Nat
    PROVE  RowOf(Entered(r, p, v), Placed(bets, a, p, v)) = RowOf(r, bets) + v
<1> DEFINE s == Entered(r, p, v)
           new == Placed(bets, a, p, v)
           f == [b \in Accounts |-> OwedOf(r, bets[b])]
           g == [b \in Accounts |-> OwedOf(s, new[b])]
<1>1. IsFiniteSet(Accounts)
  BY DomainAssumption
<1>2. s.status = "Open"
  BY DEF Entered, RoundType
<1>3. /\ \A b \in Accounts : bets[b].amount \in Nat
      /\ new[a].amount = v
      /\ \A b \in Accounts \ {a} : new[b] = bets[b]
  BY PlacedBet DEF BetType
<1> HIDE DEF s, new
<1>4. \A b \in Accounts : f[b] = bets[b].amount /\ g[b] = new[b].amount
  BY <1>2 DEF OwedOf, IsDecided
<1> HIDE DEF f, g
<1>5. /\ \A b \in Accounts : f[b] \in Nat
      /\ \A b \in Accounts : g[b] \in Nat
      /\ \A b \in Accounts \ {a} : g[b] = f[b]
      /\ f[a] = 0 /\ g[a] = v
  BY <1>3, <1>4
<1>6. Total(g, Accounts) + f[a] = Total(f, Accounts) + g[a]
  BY <1>1, <1>5, TotalChange
<1>7. Total(g, Accounts) \in Nat /\ Total(f, Accounts) \in Nat
  BY <1>1, <1>5, TotalType
<1>8. QED
  BY <1>5, <1>6, <1>7 DEF RowOf, f, g, s, new

\* A claim takes what it pays out of what the round owes.
LEMMA MarkRow ==
    ASSUME NEW r \in RoundType, NEW bps \in 0..MaxBps, NEW bets \in [Accounts -> BetType],
           InOrder(r, bps, bets), NEW a \in Accounts, EntitlementOf(r, bets[a]) > 0
    PROVE  /\ EntitlementOf(r, bets[a]) \in Nat
           /\ RowOf(r, Marked(bets, a)) + EntitlementOf(r, bets[a]) = RowOf(r, bets)
<1> DEFINE new == Marked(bets, a)
           f == [b \in Accounts |-> OwedOf(r, bets[b])]
           g == [b \in Accounts |-> OwedOf(r, new[b])]
<1>1. IsFiniteSet(Accounts)
  BY DomainAssumption
<1>2. /\ new \in [Accounts -> BetType] /\ new[a].claimed
      /\ \A b \in Accounts \ {a} : new[b] = bets[b]
  BY MarkedBet
<1>3. Told(r, bps)
  BY DEF InOrder
<1> HIDE DEF new
<1>4. /\ IsDecided(r) /\ EntitlementOf(r, bets[a]) \in Nat
  BY <1>3, EntitlementIsPayout
<1>5. f[a] = EntitlementOf(r, bets[a]) /\ g[a] = 0
  BY <1>2, <1>4 DEF OwedOf, EntitlementOf
<1>6. /\ \A b \in Accounts : f[b] \in Nat
      /\ \A b \in Accounts : g[b] \in Nat
      /\ \A b \in Accounts \ {a} : g[b] = f[b]
  BY <1>2, <1>3, OwedType
<1> HIDE DEF f, g
<1>7. Total(g, Accounts) + f[a] = Total(f, Accounts) + g[a]
  BY <1>1, <1>6, TotalChange
<1>8. Total(g, Accounts) \in Nat /\ Total(f, Accounts) \in Nat
  BY <1>1, <1>6, TotalType
<1>9. QED
  BY <1>4, <1>5, <1>7, <1>8 DEF RowOf, f, g, new

(***************************************************************************)
(* totalLiabilities covers every row at once.  The run's property sums one *)
(* by one what each account may still claim; the sum is the same.          *)
(***************************************************************************)
RowsCovered == Total(RowTotals, Epochs) <= totalLiabilities

LEMMA RowTotalsType ==
    ASSUME TypeInv, LedgerInv
    PROVE  /\ \A e \in Epochs : RowTotals[e] = RowOf(rounds[e], ledger[e])
           /\ \A e \in Epochs : RowTotals[e] \in Nat
           /\ Total(RowTotals, Epochs) \in Nat
<1>1. \A e \in Epochs : RowTotals[e] = RowOf(rounds[e], ledger[e])
  BY DEF RowTotals, RowHere
<1>2. ASSUME NEW e \in Epochs
      PROVE  RowTotals[e] \in Nat
  <2>1. Told(rounds[e], terms[e].burnFeeBps)
    BY DEF LedgerInv, InOrder
  <2>2. QED
    BY <1>1, <2>1, RoundTypes, RowType
<1>3. Total(RowTotals, Epochs) \in Nat
  BY <1>2, EpochFacts, TotalType
<1>4. QED
  BY <1>1, <1>2, <1>3

LEMMA RowsAddUp ==
    ASSUME TypeInv, LedgerInv
    PROVE  Total([x \in Epochs \X Accounts |-> Owed(x[1], x[2])], Epochs \X Accounts)
             = Total(RowTotals, Epochs)
<1> DEFINE f == [x \in Epochs \X Accounts |-> Owed(x[1], x[2])]
           row == [e \in Epochs |-> [a \in Accounts |-> OwedOf(rounds[e], ledger[e][a])]]
           T == Epochs \X Accounts
<1>1. IsFiniteSet(Epochs) /\ IsFiniteSet(Accounts)
  BY EpochFacts, DomainAssumption
<1>2. \A e \in Epochs, a \in Accounts : f[<<e, a>>] = OwedOf(rounds[e], ledger[e][a])
  <2>1. \A e, a : Owed(e, a) = OwedOf(rounds[e], ledger[e][a])
    BY EntitlementHere DEF Owed, OwedOf, Decided, IsDecided
  <2>2. QED
    BY <2>1
<1>3. \A e \in Epochs, a \in Accounts : f[<<e, a>>] \in Nat
  <2> SUFFICES ASSUME NEW e \in Epochs, NEW a \in Accounts
               PROVE  OwedOf(rounds[e], ledger[e][a]) \in Nat
    BY <1>2
  <2>1. Told(rounds[e], terms[e].burnFeeBps)
    BY DEF LedgerInv, InOrder
  <2>2. /\ rounds[e] \in RoundType /\ terms[e].burnFeeBps \in 0..MaxBps
        /\ ledger[e][a] \in BetType
    BY RoundTypes
  <2>3. QED
    BY <2>1, <2>2, OwedType
<1> HIDE DEF f
<1>4. \A x \in Epochs \X Accounts : f[x] \in Nat
  BY <1>3
<1>5. HasRows(f, Epochs, Accounts, row, RowTotals)
  BY <1>2 DEF HasRows, RowTotals, RowHere, RowOf
<1>6. T = Epochs \X Accounts
  OBVIOUS
<1> HIDE DEF row, T
<1>7. Total(f, T) = Total(RowTotals, Epochs)
  BY <1>1, <1>4, <1>5, <1>6, TotalRows
<1>8. QED
  BY <1>6, <1>7 DEF f

LEMMA RowsCoveredStep ==
    ASSUME TypeInv, TypeInv', BoundariesMeet, BlankUntilCreated, LedgerInv, LedgerInv',
           RowsCovered, [Next]_vars
    PROVE  RowsCovered'
<1> DEFINE old == RowTotals
           new == RowTotals'
<1>1. IsFiniteSet(Epochs)
  BY EpochFacts
<1>2. /\ \A e \in Epochs : old[e] = RowOf(rounds[e], ledger[e])
      /\ \A e \in Epochs : old[e] \in Nat
      /\ Total(old, Epochs) \in Nat
  BY RowTotalsType
<1>3. /\ \A e \in Epochs : new[e] = RowOf(rounds'[e], ledger'[e])
      /\ \A e \in Epochs : new[e] \in Nat
      /\ Total(new, Epochs) \in Nat
  <2>1. \A e \in Epochs : new[e] = RowOf(rounds'[e], ledger'[e])
    BY DEF RowTotals, RowHere
  <2>2. ASSUME NEW e \in Epochs
        PROVE  new[e] \in Nat
    <3>1. /\ Told(rounds'[e], terms'[e].burnFeeBps)
          /\ rounds'[e] \in RoundType /\ ledger'[e] \in [Accounts -> BetType]
          /\ terms'[e].burnFeeBps \in 0..MaxBps
      BY FeeRateFits DEF LedgerInv, InOrder, TypeInv, TypeOK, TermsType
    <3> HIDE DEF new
    <3>2. QED
      BY <2>1, <3>1, RowType
  <2> HIDE DEF new
  <2>3. QED
    BY <1>1, <2>1, <2>2, TotalType
<1>4. totalLiabilities \in Nat /\ totalLiabilities' \in Nat
  BY DEF TypeInv, TypeOK
<1>5. Total(old, Epochs) <= totalLiabilities
  BY DEF RowsCovered
<1> SUFFICES Total(new, Epochs) <= totalLiabilities'
  BY DEF RowsCovered
<1> HIDE DEF old, new
<1>6. ASSUME NEW a \in Accounts, NEW e \in Epochs, NEW p \in Positions,
             NEW v \in Stakes[e], Enter(a, e, p, v)
      PROVE  Total(new, Epochs) <= totalLiabilities'
  <2>1. /\ v \in Nat /\ rounds[e].status = "Open" /\ ledger[e][a].amount = 0
        /\ rounds'[e] = Entered(rounds[e], p, v)
        /\ ledger'[e] = Placed(ledger[e], a, p, v)
        /\ \A f \in Epochs \ {e} : rounds'[f] = rounds[f] /\ ledger'[f] = ledger[f]
        /\ totalLiabilities' = totalLiabilities + v
    BY <1>6, EnterParts
  <2>2. rounds[e] \in RoundType /\ ledger[e] \in [Accounts -> BetType]
    BY RoundTypes
  <2>3. new[e] = old[e] + v
    BY <1>2, <1>3, <2>1, <2>2, EnterRow
  <2>4. \A f \in Epochs \ {e} : new[f] = old[f]
    BY <1>2, <1>3, <2>1
  <2>5. Total(new, Epochs) + old[e] = Total(old, Epochs) + new[e]
    BY <1>1, <1>2, <1>3, <2>4, TotalChange
  <2>6. old[e] \in Nat
    BY <1>2
  <2>7. QED
    BY <1>2, <1>3, <1>4, <1>5, <2>1, <2>3, <2>5, <2>6
<1>7. ASSUME NEW a \in Accounts, NEW batch \in SUBSET Epochs, ClaimSet(a, batch)
      PROVE  Total(new, Epochs) <= totalLiabilities'
  <2> DEFINE owed == [e \in batch |-> Entitlement(e, a)]
             drop == [e \in Epochs |-> IF e \in batch THEN owed[e] ELSE 0]
  <2>1. /\ \A e \in batch : Entitlement(e, a) > 0
        /\ \A e \in Epochs : ledger'[e] = IF e \in batch THEN Marked(ledger[e], a)
                                          ELSE ledger[e]
        /\ rounds' = rounds
        /\ totalLiabilities' = totalLiabilities - Total(owed, batch)
    BY <1>7, ClaimParts
  <2>2. ASSUME NEW e \in Epochs
        PROVE  drop[e] \in Nat /\ new[e] + drop[e] <= old[e]
    <3>1. CASE e \in batch
      <4>1. drop[e] = EntitlementOf(rounds[e], ledger[e][a])
        BY <3>1, EntitlementHere
      <4>2. EntitlementOf(rounds[e], ledger[e][a]) > 0
        BY <2>1, <3>1, EntitlementHere
      <4>3. InOrder(rounds[e], terms[e].burnFeeBps, ledger[e])
        BY DEF LedgerInv
      <4>4. /\ EntitlementOf(rounds[e], ledger[e][a]) \in Nat
            /\ RowOf(rounds[e], Marked(ledger[e], a)) + EntitlementOf(rounds[e], ledger[e][a])
                 = RowOf(rounds[e], ledger[e])
        BY <4>2, <4>3, RoundTypes, MarkRow
      <4>5. new[e] = RowOf(rounds[e], Marked(ledger[e], a))
            /\ old[e] = RowOf(rounds[e], ledger[e])
        BY <1>2, <1>3, <2>1, <3>1
      <4> HIDE DEF drop
      <4>6. old[e] \in Nat
        BY <1>2
      <4>7. QED
        BY <4>1, <4>4, <4>5, <4>6
    <3>2. CASE e \notin batch
      BY <1>2, <1>3, <2>1, <3>2
    <3>3. QED
      BY <3>1, <3>2
  <2>3. \A e \in Epochs : drop[e] = IF e \in batch THEN owed[e] ELSE 0
    OBVIOUS
  <2> HIDE DEF owed, drop
  <2>4. Total(drop, Epochs) = Total(owed, batch)
    BY <2>3, TotalRestrict
  <2>5. \A e \in Epochs : drop[e] \in Nat
    BY <2>2
  <2>6. \A e \in Epochs : old[e] \in Nat /\ new[e] + drop[e] <= old[e]
    BY <1>2, <2>2
  <2>7. Total(new, Epochs) + Total(drop, Epochs) <= Total(old, Epochs)
    BY <1>1, <1>3, <2>5, <2>6, TotalDrop
  <2>8. Total(drop, Epochs) \in Nat
    BY <1>1, <2>5, TotalType
  <2>9. QED
    BY <1>2, <1>3, <1>4, <1>5, <2>1, <2>4, <2>7, <2>8
<1>8. ASSUME SweepToBurner
      PROVE  Total(new, Epochs) <= totalLiabilities'
  <2>1. rounds' = rounds /\ ledger' = ledger /\ totalLiabilities' = totalLiabilities
    BY <1>8 DEF SweepToBurner, schedule, positions
  <2>2. \A e \in Epochs : new[e] = old[e]
    BY <1>2, <1>3, <2>1
  <2>3. Total(new, Epochs) = Total(old, Epochs)
    BY <2>2, TotalAgree
  <2>4. QED
    BY <1>5, <2>1, <2>3
<1>9. ASSUME NEW fees \in [Epochs -> Nat], RoundsAdvance(fees)
      PROVE  Total(new, Epochs) <= totalLiabilities'
  <2>1. /\ \A e \in Epochs : fees[e] \in Nat
        /\ \A e \in Epochs : Advances(e, rounds[e], rounds'[e], fees[e])
        /\ ledger' = ledger
        /\ totalLiabilities' = totalLiabilities - Total(fees, Epochs)
    BY <1>9 DEF RoundsAdvance, positions
  <2>2. \A e \in Epochs : new[e] + fees[e] <= old[e]
    <3> SUFFICES ASSUME NEW e \in Epochs PROVE new[e] + fees[e] <= old[e]
      OBVIOUS
    <3>1. rounds'[e] \in RoundType
      BY DEF TypeInv, TypeOK
    <3>2. InOrder(rounds[e], terms[e].burnFeeBps, ledger[e])
      BY DEF LedgerInv
    <3>3. RowOf(rounds'[e], ledger[e]) + fees[e] <= RowOf(rounds[e], ledger[e])
      BY <2>1, <3>1, <3>2, AdvanceRow
    <3>4. QED
      BY <1>2, <1>3, <2>1, <3>3
  <2>3. \A e \in Epochs : old[e] \in Nat /\ new[e] + fees[e] <= old[e]
    BY <1>2, <2>2
  <2>4. Total(new, Epochs) + Total(fees, Epochs) <= Total(old, Epochs)
    BY <1>1, <1>3, <2>1, <2>3, TotalDrop
  <2>5. Total(fees, Epochs) \in Nat
    BY <1>1, <2>1, TotalType
  <2>6. QED
    BY <1>2, <1>3, <1>4, <1>5, <2>1, <2>4, <2>5
<1>10. QED
  BY <1>6, <1>7, <1>8, <1>9, StepMoney

LEMMA RowsCoveredInit == Init => RowsCovered
<1> SUFFICES ASSUME Init PROVE RowsCovered
  OBVIOUS
<1> DEFINE f == RowTotals
<1>1. ASSUME NEW e \in Epochs
      PROVE  f[e] = 0
  <2> DEFINE g == [a \in Accounts |-> OwedOf(NoRound, NoBet)]
  <2>1. rounds[e] = NoRound /\ ledger[e] = [a \in Accounts |-> NoBet]
    BY DEF Init
  <2>2. OwedOf(NoRound, NoBet) = 0
    BY DEF OwedOf, IsDecided, NoRound, NoBet
  <2>3. \A a \in Accounts : g[a] = IF a \in {} THEN g[a] ELSE 0
    BY <2>2
  <2>4. {} \in SUBSET Accounts
    OBVIOUS
  <2>5. f[e] = Total(g, Accounts)
    BY <2>1 DEF RowTotals, RowHere, RowOf
  <2> HIDE DEF f, g
  <2>6. Total(g, Accounts) = Total(g, {})
    BY <2>3, <2>4, TotalRestrict
  <2>7. QED
    BY <2>5, <2>6, TotalEmpty
<1> HIDE DEF f
<1>2. \A e \in Epochs : f[e] = IF e \in {} THEN f[e] ELSE 0
  BY <1>1
<1>3. {} \in SUBSET Epochs
  OBVIOUS
<1>4. Total(f, Epochs) = Total(f, {})
  BY <1>2, <1>3, TotalRestrict
<1>5. QED
  BY <1>4, TotalEmpty DEF Init, RowsCovered, f

LEMMA RowsAlwaysCovered == Spec => []RowsCovered
BY RowsCoveredInit, RowsCoveredStep, LedgerAlwaysInOrder, TypeCorrect,
   BoundariesAlwaysMeet, AlwaysBlank, PTL DEF Spec

LEMMA ClaimsCoveredHere ==
    ASSUME TypeInv, LedgerInv, RowsCovered
    PROVE  LiabilitiesCoverClaims
BY RowsAddUp, Zenon DEF RowsCovered, LiabilitiesCoverClaims

\* totalLiabilities is always enough for every claim still to come, in any order and of
\* any number of accounts and rounds: the checked subtraction in claim never reverts.
THEOREM ClaimsAlwaysCovered == Spec => []LiabilitiesCoverClaims
BY RowsAlwaysCovered, LedgerAlwaysInOrder, TypeCorrect, ClaimsCoveredHere, PTL

(***************************************************************************)
(* The market implements the escrow.  The escrow's operators, read through *)
(* the refinement mapping of PonsPrediction, are the market's own.         *)
(***************************************************************************)
StakersIn(bets, side) == {a \in Accounts : bets[a].amount > 0 /\ bets[a].position = side}

LEMMA EscrowCardinality ==
    \A S : Escrow!Cardinality(S) = Cardinality(S)
BY DEF Escrow!Cardinality, Cardinality

LEMMA EscrowTotal ==
    \A f, S : Escrow!Total(f, S) = Total(f, S)
BY EscrowCardinality DEF Escrow!Total, Escrow!Coins, Total, Coins

\* The pot of a round is its pool.
LEMMA EscrowPot ==
    ASSUME NEW e \in Epochs
    PROVE  Escrow!Pot(e) = StakedIn(ledger[e], Accounts)
<1> DEFINE f == [a \in Accounts |->
                   [e_1 \in Epochs |->
                      [a_1 \in Accounts |->
                         [amount |-> ledger[e_1][a_1].amount,
                          position |-> ledger[e_1][a_1].position]]][e][a].amount]
           g == [a \in Accounts |-> ledger[e][a].amount]
<1>1. f = g
  OBVIOUS
<1>2. Escrow!Pot(e) = Total(f, Accounts)
  BY EscrowTotal, Zenon DEF Escrow!Pot
<1>3. QED
  BY <1>1, <1>2, Zenon DEF StakedIn

LEMMA EscrowBackers ==
    ASSUME NEW e \in Epochs, NEW side
    PROVE  Escrow!Backers(e, side) = StakersIn(ledger[e], side)
BY DEF Escrow!Backers, StakersIn

LEMMA EscrowBacking ==
    ASSUME NEW e \in Epochs, NEW side
    PROVE  Escrow!Backing(e, side) = StakedIn(ledger[e], StakersIn(ledger[e], side))
<1> DEFINE f == [a \in Accounts |->
                   [e_1 \in Epochs |->
                      [a_1 \in Accounts |->
                         [amount |-> ledger[e_1][a_1].amount,
                          position |-> ledger[e_1][a_1].position]]][e][a].amount]
           S == StakersIn(ledger[e], side)
           g == [a \in S |-> ledger[e][a].amount]
<1>1. S \in SUBSET Accounts
  BY DEF StakersIn
<1>2. \A a \in S : f[a] = g[a]
  BY <1>1
<1>3. Escrow!Backing(e, side) = Total(f, S)
  BY EscrowTotal, EscrowBackers, Zenon DEF Escrow!Backing
<1> HIDE DEF f, g
<1>4. Total(f, S) = Total(g, S)
  BY <1>2, TotalAgree
<1>5. QED
  BY <1>3, <1>4, Zenon DEF StakedIn, g

LEMMA EscrowRake ==
    ASSUME NEW e \in Epochs, NEW v
    PROVE  Escrow!Rake(e, v) =
             IF v = "AllLost" THEN Escrow!Pot(e)
             ELSE IF v \in Positions THEN (Escrow!Pot(e) * terms[e].burnFeeBps) \div MaxBps
             ELSE 0
BY DEF Escrow!Rake, Escrow!Sides, Positions

LEMMA EscrowShare ==
    ASSUME NEW e \in Epochs, NEW v, NEW a \in Accounts
    PROVE  Escrow!Share(e, v, a) =
             IF v = "Refund" THEN ledger[e][a].amount
             ELSE IF a \in Escrow!Backers(e, v)
                  THEN (ledger[e][a].amount * (Escrow!Pot(e) - Escrow!Rake(e, v)))
                           \div Escrow!Backing(e, v)
             ELSE 0
BY DEF Escrow!Share

\* Those who backed a side hold all that was staked on it, and a side without backers
\* holds nothing.
LEMMA StakersHoldPool ==
    ASSUME NEW bets \in [Accounts -> BetType], NEW side
    PROVE  /\ StakedIn(bets, StakersIn(bets, side)) = StakedIn(bets, BackersIn(bets, side))
           /\ StakersIn(bets, side) = {} <=> StakedIn(bets, BackersIn(bets, side)) = 0
<1> DEFINE S == StakersIn(bets, side)
           f == [a \in S |-> bets[a].amount]
           all == BySide(bets, side)
<1>1. /\ IsFiniteSet(Accounts) /\ S \in SUBSET Accounts /\ IsFiniteSet(S)
  BY DomainAssumption, FS_Subset DEF StakersIn
<1>2. /\ \A a \in Accounts : all[a] \in Nat
      /\ \A a \in Accounts : all[a] = IF a \in S THEN f[a] ELSE 0
      /\ \A a \in S : f[a] \in Nat /\ f[a] > 0
  BY BetFields DEF StakersIn
<1>3. StakedIn(bets, BackersIn(bets, side)) = Total(all, Accounts)
  BY StakedBySide
<1>4. StakedIn(bets, S) = Total(f, S)
  BY Zenon DEF StakedIn
<1> HIDE DEF S, f, all
<1>5. Total(all, Accounts) = Total(f, S)
  BY <1>1, <1>2, TotalRestrict
<1>6. S = {} => Total(f, S) = 0
  BY TotalEmpty
<1>7. ASSUME NEW a \in S
      PROVE  Total(f, S) # 0
  <2>1. \A b \in S : f[b] \in Nat
    BY <1>2
  <2>2. f[a] <= Total(f, S) /\ Total(f, S) \in Nat
    BY <1>1, <2>1, TotalMember, TotalType
  <2>3. f[a] \in Nat /\ f[a] > 0
    BY <1>2
  <2>4. QED
    BY <2>2, <2>3
<1>8. QED
  BY <1>3, <1>4, <1>5, <1>6, <1>7 DEF S

\* The escrow's amounts for a round whose pools are its stakes.
LEMMA EscrowAmounts ==
    ASSUME TypeInv, LedgerInv, NEW e \in Epochs
    PROVE  /\ Escrow!Pot(e) = rounds[e].totalAmount
           /\ \A side \in Positions :
                /\ Escrow!Backing(e, side) = SideOf(rounds[e], side)
                /\ Escrow!Backers(e, side) = {} <=> SideOf(rounds[e], side) = 0
<1>1. ledger[e] \in [Accounts -> BetType] /\ Matches(rounds[e], ledger[e])
  BY RoundTypes DEF LedgerInv, InOrder
<1>2. \A side \in Positions :
        SideOf(rounds[e], side) = StakedIn(ledger[e], BackersIn(ledger[e], side))
  BY <1>1 DEF Matches, SideOf, Positions
<1>3. QED
  BY <1>1, <1>2, EscrowPot, EscrowBacking, EscrowBackers, StakersHoldPool DEF Matches

\* A decision gives an undecided round an admissible verdict, and books the escrow's
\* fee for it; any other advance leaves the verdict and books nothing.
LEMMA DecisionIsAdmissible ==
    ASSUME TypeInv, LedgerInv, NEW e \in Epochs, NEW s \in RoundType, NEW fee,
           Advances(e, rounds[e], s, fee)
    PROVE  \/ VerdictOf(s) = VerdictOf(rounds[e]) /\ fee = 0
           \/ /\ VerdictOf(rounds[e]) = "Undecided" /\ VerdictOf(s) # "Undecided"
              /\ fee = Escrow!Rake(e, VerdictOf(s))
              /\ Escrow!Admissible(e, VerdictOf(s))
<1> DEFINE r == rounds[e]
           bps == terms[e].burnFeeBps
<1>1. SamePools(r, s) /\ bps \in 0..MaxBps
  BY RoundTypes DEF Advances
<1>2. CASE s = r /\ fee = 0
  BY <1>2
<1>3. CASE /\ r.status \in {"Pending", "Open", "Locked"}
           /\ s.status \in {"Open", "Locked", "Cancelled"}
           /\ s.outcome = r.outcome /\ fee = 0
  <2>1. VerdictOf(r) = "Undecided"
    BY <1>3 DEF VerdictOf
  <2>2. CASE s.status = "Cancelled"
    <3>1. VerdictOf(s) = "Refund"
      BY <2>2 DEF VerdictOf
    <3>2. Escrow!Rake(e, "Refund") = 0
      BY EscrowRake DEF Positions
    <3>3. Escrow!Admissible(e, "Refund")
      BY DEF Escrow!Admissible
    <3>4. QED
      BY <1>3, <2>1, <3>1, <3>2, <3>3
  <2>3. CASE s.status # "Cancelled"
    <3>1. VerdictOf(s) = "Undecided"
      BY <1>3, <2>3 DEF VerdictOf
    <3>2. QED
      BY <1>3, <2>1, <3>1
  <2>4. QED
    BY <2>2, <2>3
<1>4. CASE /\ r.status \in {"Open", "Locked"} /\ SettlesTruly(s, bps)
           /\ fee = FeeOf(s, s.closePrice, bps)
  <2>1. VerdictOf(r) = "Undecided"
    BY <1>4 DEF VerdictOf
  <2>2. /\ s.status = "Settled"
        /\ s.outcome = OutcomeOf(s, s.closePrice)
        /\ s.outcome \in Outcomes \ {"Undecided"}
        /\ s.outcome \in {"Tie", "NoContest"} => fee = 0
        /\ s.outcome = "AllLost" => fee = s.totalAmount
        /\ Contested(s.outcome) =>
             /\ fee = (s.totalAmount * bps) \div MaxBps
             /\ s.bullAmount > 0 /\ s.bearAmount > 0
    BY <1>1, <1>4, TrueSettlement
  <2>3. /\ Escrow!Pot(e) = s.totalAmount
        /\ \A side \in Positions : Escrow!Backers(e, side) = {} <=> SideOf(s, side) = 0
    BY <1>1, EscrowAmounts DEF SamePools, SideOf
  <2>4. VerdictOf(s) = IF s.outcome \in {"Tie", "NoContest"} THEN "Refund" ELSE s.outcome
    BY <2>2 DEF VerdictOf
  <2>5. CASE s.outcome \in {"Tie", "NoContest"}
    <3>1. Escrow!Rake(e, "Refund") = 0
      BY EscrowRake DEF Positions
    <3>2. Escrow!Admissible(e, "Refund")
      BY DEF Escrow!Admissible
    <3>3. QED
      BY <2>1, <2>2, <2>4, <2>5, <3>1, <3>2
  <2>6. CASE Contested(s.outcome)
    <3>1. VerdictOf(s) = s.outcome /\ s.outcome \in Positions
      BY <2>4, <2>6 DEF Contested, Positions
    <3>2. Escrow!Rake(e, s.outcome) = fee
      BY <2>2, <2>3, <2>6, <3>1, EscrowRake DEF Contested
    <3>3. \A side \in Positions : Escrow!Backers(e, side) # {}
      BY <2>2, <2>3, <2>6 DEF SideOf, Positions
    <3>4. Escrow!Admissible(e, s.outcome)
      BY <3>1, <3>3 DEF Escrow!Admissible, Escrow!Sides, Positions
    <3>5. QED
      BY <2>1, <3>1, <3>2, <3>4 DEF Positions
  <2>7. CASE s.outcome = "AllLost"
    <3>1. VerdictOf(s) = "AllLost"
      BY <2>4, <2>7
    <3>2. Escrow!Rake(e, "AllLost") = fee
      BY <2>2, <2>3, <2>7, EscrowRake
    <3>3. /\ s.totalAmount # 0
          /\ WinningPool(s, s.closePrice) = 0
      BY <2>2, <2>7 DEF OutcomeOf
    <3>4. /\ s.bullAmount \in Nat /\ s.bearAmount \in Nat
          /\ s.totalAmount = s.bullAmount + s.bearAmount
      <4>1. Matches(s, ledger[e])
        BY <1>1, SamePoolsMatch DEF LedgerInv, InOrder
      <4>2. QED
        BY <4>1, RoundTypes, PoolsAddUp
    <3>5. \E p, q \in Positions : SideOf(s, p) # 0 /\ SideOf(s, q) = 0
      <4>1. CASE s.bullAmount = 0
        <5>1. SideOf(s, "Bear") # 0 /\ SideOf(s, "Bull") = 0
          BY <3>3, <3>4, <4>1 DEF SideOf
        <5>2. QED
          BY <5>1 DEF Positions
      <4>2. CASE s.bearAmount = 0
        <5>1. SideOf(s, "Bull") # 0 /\ SideOf(s, "Bear") = 0
          BY <3>3, <3>4, <4>2 DEF SideOf
        <5>2. QED
          BY <5>1 DEF Positions
      <4>3. QED
        BY <3>3, <4>1, <4>2 DEF WinningPool
    <3>6. \E p, q \in Positions : Escrow!Backers(e, p) # {} /\ Escrow!Backers(e, q) = {}
      BY <2>3, <3>5
    <3>7. Escrow!Admissible(e, "AllLost")
      BY <3>6 DEF Escrow!Admissible, Escrow!Sides, Positions
    <3>8. QED
      BY <2>1, <3>1, <3>2, <3>7
  <2>8. QED
    BY <2>2, <2>5, <2>6, <2>7 DEF Outcomes, Contested
<1>5. QED
  BY <1>2, <1>3, <1>4 DEF Advances

LEMMA EmptyRoundHasNoPot ==
    ASSUME TypeInv, LedgerInv, NEW e \in Epochs, rounds[e] = NoRound
    PROVE  Escrow!Pot(e) = 0
BY EscrowAmounts DEF NoRound

LEMMA AdvanceDecides ==
    ASSUME TypeInv, TypeInv', LedgerInv, NEW fees \in [Epochs -> Nat], RoundsAdvance(fees)
    PROVE  Escrow!NextEscrow
<1> DEFINE old == [e \in Epochs |-> VerdictOf(rounds[e])]
           new == [e \in Epochs |-> VerdictOf(rounds'[e])]
           D == {e \in Epochs : old[e] # new[e]}
           rake == [e \in D |-> Escrow!Rake(e, new[e])]
           sent == Total(received, Burners)
<1>1. /\ \A e \in Epochs : Advances(e, rounds[e], rounds'[e], fees[e])
      /\ \A e \in Epochs : fees[e] \in Nat
      /\ \A e \in Epochs : terms'[e] = terms[e] \/ rounds[e] = NoRound
      /\ ledger' = ledger
      /\ Total(fees, Epochs) <= totalLiabilities
      /\ totalLiabilities' = totalLiabilities - Total(fees, Epochs)
      /\ burnAllocated' = burnAllocated + Total(fees, Epochs)
      /\ received' = received
  BY DEF RoundsAdvance, positions
<1>2. /\ \A e \in Epochs : old[e] = VerdictOf(rounds[e])
      /\ \A e \in Epochs : new[e] = VerdictOf(rounds'[e])
  OBVIOUS
<1>3. /\ D \in SUBSET Epochs
      /\ \A e \in Epochs : e \in D <=> old[e] # new[e]
      /\ \A e \in D : rake[e] = Escrow!Rake(e, new[e])
  OBVIOUS
<1> HIDE DEF old, new, D, rake, sent
<1>4. \A e \in Epochs :
        \/ new[e] = old[e] /\ fees[e] = 0
        \/ /\ old[e] = "Undecided" /\ new[e] # "Undecided"
           /\ fees[e] = Escrow!Rake(e, new[e]) /\ Escrow!Admissible(e, new[e])
  <2> SUFFICES ASSUME NEW e \in Epochs
               PROVE  \/ new[e] = old[e] /\ fees[e] = 0
                      \/ /\ old[e] = "Undecided" /\ new[e] # "Undecided"
                         /\ fees[e] = Escrow!Rake(e, new[e])
                         /\ Escrow!Admissible(e, new[e])
    OBVIOUS
  <2>1. rounds'[e] \in RoundType
    BY DEF TypeInv, TypeOK
  <2>2. Advances(e, rounds[e], rounds'[e], fees[e])
    BY <1>1
  <2>3. \/ VerdictOf(rounds'[e]) = VerdictOf(rounds[e]) /\ fees[e] = 0
        \/ /\ VerdictOf(rounds[e]) = "Undecided" /\ VerdictOf(rounds'[e]) # "Undecided"
           /\ fees[e] = Escrow!Rake(e, VerdictOf(rounds'[e]))
           /\ Escrow!Admissible(e, VerdictOf(rounds'[e]))
    BY <2>1, <2>2, DecisionIsAdmissible
  <2>4. QED
    BY <1>2, <2>3
<1>5. Total(fees, Epochs) = Total(rake, D)
  <2>1. \A e \in Epochs : fees[e] = IF e \in D THEN rake[e] ELSE 0
    BY <1>3, <1>4
  <2>2. QED
    BY <1>3, <2>1, TotalRestrict
<1>6. /\ totalLiabilities \in Nat /\ burnAllocated \in Nat /\ sent \in Nat
      /\ Total(fees, Epochs) \in Nat
  <2>1. \A b \in Burners : received[b] \in Nat
    BY DEF TypeInv, TypeOK
  <2>2. sent \in Nat
    BY <2>1, DomainAssumption, TotalType DEF sent
  <2>3. Total(fees, Epochs) \in Nat
    BY <1>1, EpochFacts, TotalType
  <2>4. QED
    BY <2>2, <2>3 DEF TypeInv, TypeOK
<1>7. \A e \in Epochs : Escrow!Pot(e) > 0 => terms'[e] = terms[e]
  <2> SUFFICES ASSUME NEW e \in Epochs, Escrow!Pot(e) > 0
               PROVE  terms'[e] = terms[e]
    OBVIOUS
  <2>1. CASE rounds[e] = NoRound
    <3>1. Escrow!Pot(e) = 0
      BY <2>1, EmptyRoundHasNoPot
    <3>2. QED
      BY <3>1
  <2>2. QED
    BY <1>1, <2>1
<1>8. Escrow!Decide(D)
  <2>1. \A e \in D : old[e] = "Undecided" /\ Escrow!Admissible(e, new[e])
    BY <1>3, <1>4
  <2>2. \A e \in Epochs \ D : new[e] = old[e]
    BY <1>3
  <2>3. \A e \in Epochs : Escrow!Pot(e) > 0 =>
          [f \in Epochs |-> terms'[f].burnFeeBps][e] = [f \in Epochs |-> terms[f].burnFeeBps][e]
    BY <1>7
  <2>4. /\ totalLiabilities' + Total(rake, D) = totalLiabilities
        /\ burnAllocated' + sent = burnAllocated + sent + Total(rake, D)
    BY <1>1, <1>5, <1>6
  <2>5. Escrow!Total(rake, D) = Total(rake, D)
    BY EscrowTotal
  <2>6. Total(received', Burners) = sent /\ Total(received, Burners) = sent
    BY <1>1 DEF sent
  <2>7. QED
    BY <1>1, <2>1, <2>2, <2>3, <2>4, <2>5, <2>6, Zenon DEF Escrow!Decide, old, new, rake
<1>9. QED
  BY <1>8, Zenon DEF Escrow!NextEscrow, D, old, new

LEMMA EnterStakes ==
    ASSUME TypeInv, NEW a \in Accounts, NEW e \in Epochs, NEW p \in Positions,
           NEW v \in Stakes[e], Enter(a, e, p, v)
    PROVE  Escrow!NextEscrow
<1> DEFINE book == [f \in Epochs |-> [b \in Accounts |->
                      [amount |-> ledger[f][b].amount, position |-> ledger[f][b].position]]]
           next == [f \in Epochs |-> [b \in Accounts |->
                      [amount |-> ledger'[f][b].amount, position |-> ledger'[f][b].position]]]
           taken == [f \in Epochs |-> {b \in Accounts : ledger[f][b].claimed}]
           takenNext == [f \in Epochs |-> {b \in Accounts : ledger'[f][b].claimed}]
           old == [f \in Epochs |-> VerdictOf(rounds[f])]
           new == [f \in Epochs |-> VerdictOf(rounds'[f])]
<1>1. /\ v \in Nat /\ rounds[e].status = "Open" /\ ledger[e][a].amount = 0
      /\ rounds'[e] = Entered(rounds[e], p, v)
      /\ ledger'[e] = Placed(ledger[e], a, p, v)
      /\ \A f \in Epochs \ {e} : rounds'[f] = rounds[f] /\ ledger'[f] = ledger[f]
      /\ terms' = terms
      /\ totalLiabilities' = totalLiabilities + v
      /\ UNCHANGED <<burnAllocated, received>>
  BY EnterParts
<1>2. /\ ledger[e] \in [Accounts -> BetType] /\ rounds[e] \in RoundType
      /\ totalLiabilities \in Nat
  BY RoundTypes DEF TypeInv, TypeOK
<1>3. /\ ledger'[e][a].position = p /\ ledger'[e][a].amount = v
      /\ ledger'[e][a].claimed = ledger[e][a].claimed
      /\ \A b \in Accounts \ {a} : ledger'[e][b] = ledger[e][b]
  BY <1>1, <1>2, PlacedBet
<1>4. /\ totalLiabilities' >= totalLiabilities
      /\ totalLiabilities' - totalLiabilities = v
  BY <1>1, <1>2
<1>5. next = [book EXCEPT ![e][a] = [amount |-> v, position |-> p]]
  <2> DEFINE then == [book EXCEPT ![e][a] = [amount |-> v, position |-> p]]
  <2>1. ASSUME NEW f \in Epochs
        PROVE  next[f] = then[f]
    <3>1. CASE f = e
      <4>1. then[e] = [book[e] EXCEPT ![a] = [amount |-> v, position |-> p]]
        OBVIOUS
      <4>2. \A b \in Accounts : next[e][b] = IF b = a THEN [amount |-> v, position |-> p]
                                              ELSE book[e][b]
        BY <1>3
      <4>3. next[e] = [book[e] EXCEPT ![a] = [amount |-> v, position |-> p]]
        BY <4>2
      <4>4. QED
        BY <3>1, <4>1, <4>3
    <3>2. CASE f # e
      BY <1>1, <3>2
    <3>3. QED
      BY <3>1, <3>2
  <2>2. next = [f \in Epochs |-> next[f]] /\ then = [f \in Epochs |-> then[f]]
    OBVIOUS
  <2> HIDE DEF next, then
  <2>3. next = then
    BY <2>1, <2>2
  <2>4. QED
    BY <2>3 DEF then
<1>6. takenNext = taken
  <2>1. \A f \in Epochs : \A b \in Accounts : ledger'[f][b].claimed = ledger[f][b].claimed
    BY <1>1, <1>3
  <2>2. QED
    BY <2>1
<1>7. new = old /\ old[e] = "Undecided"
  <2>1. rounds'[e].status = "Open"
    BY <1>1, <1>2 DEF Entered, RoundType
  <2>2. VerdictOf(rounds'[e]) = "Undecided" /\ VerdictOf(rounds[e]) = "Undecided"
    BY <1>1, <2>1 DEF VerdictOf
  <2>3. \A f \in Epochs : VerdictOf(rounds'[f]) = VerdictOf(rounds[f])
    BY <1>1, <2>2
  <2>4. QED
    BY <2>2, <2>3
<1>8. book[e][a].amount = 0 /\ p \in Escrow!Sides
  BY <1>1 DEF Escrow!Sides, Positions
<1> HIDE DEF book, next, taken, takenNext, old, new
<1>9. Escrow!Stake(a, e)
  <2>1. \E s \in Escrow!Sides :
          next = [book EXCEPT ![e][a] = [amount |-> totalLiabilities' - totalLiabilities,
                                         position |-> s]]
    BY <1>4, <1>5, <1>8
  <2>2. QED
    BY <1>1, <1>4, <1>6, <1>7, <1>8, <2>1, Zenon
    DEF Escrow!Stake, book, next, taken, takenNext, old, new
<1>10. QED
  BY <1>9, Zenon DEF Escrow!NextEscrow

\* What the contract still owes an account is the escrow's share of its stake.
LEMMA EntitlementIsShare ==
    ASSUME TypeInv, LedgerInv, NEW e \in Epochs, NEW a \in Accounts, Entitlement(e, a) > 0
    PROVE  /\ Entitlement(e, a) = Escrow!Share(e, VerdictOf(rounds[e]), a)
           /\ VerdictOf(rounds[e]) # "Undecided"
           /\ ~ledger[e][a].claimed
<1> DEFINE r == rounds[e]
           bet == ledger[e][a]
           bps == terms[e].burnFeeBps
<1>1. /\ r \in RoundType /\ bps \in 0..MaxBps /\ bet \in BetType
  BY RoundTypes
<1>2. Entitlement(e, a) = EntitlementOf(r, bet)
  BY EntitlementHere
<1>3. /\ bet.amount # 0 /\ ~bet.claimed /\ bet.amount \in Nat
  BY <1>1, <1>2 DEF EntitlementOf, BetType
<1>4. CASE r.status = "Cancelled" \/ (r.status = "Settled" /\ r.outcome \in {"Tie", "NoContest"})
  <2>1. Entitlement(e, a) = bet.amount
    BY <1>2, <1>3, <1>4 DEF EntitlementOf
  <2>2. VerdictOf(r) = "Refund"
    BY <1>4 DEF VerdictOf
  <2>3. QED
    BY <1>3, <2>1, <2>2, EscrowShare
<1>5. CASE r.status = "Settled" /\ Contested(r.outcome) /\ bet.position = r.outcome
  <2>1. Entitlement(e, a) = (bet.amount * r.rewardAmount) \div r.rewardBaseAmount
    BY <1>2, <1>3, <1>5, Zenon DEF EntitlementOf, Contested
  <2>2. VerdictOf(r) = r.outcome /\ r.outcome \in Positions
    BY <1>5 DEF VerdictOf, Contested, Positions
  <2>3. SettlesTruly(r, bps)
    BY <1>5 DEF LedgerInv, InOrder, Told
  <2>4. /\ r.rewardAmount = r.totalAmount - (r.totalAmount * bps) \div MaxBps
        /\ r.rewardBaseAmount = SideOf(r, r.outcome)
    BY <1>1, <1>5, <2>3, TrueSettlement
  <2>5. /\ Escrow!Pot(e) = r.totalAmount
        /\ Escrow!Backing(e, r.outcome) = r.rewardBaseAmount
    BY <2>2, <2>4, EscrowAmounts
  <2>6. Escrow!Rake(e, r.outcome) = (r.totalAmount * bps) \div MaxBps
    BY <2>2, <2>5, EscrowRake DEF Positions
  <2>7. a \in Escrow!Backers(e, r.outcome)
    BY <1>3, <1>5, EscrowBackers DEF StakersIn
  <2>8. r.outcome # "Refund" /\ r.outcome # "Undecided"
    BY <2>2 DEF Positions
  <2>9. Escrow!Share(e, r.outcome, a) = (bet.amount * r.rewardAmount) \div r.rewardBaseAmount
    BY <2>4, <2>5, <2>6, <2>7, <2>8, EscrowShare, Zenon
  <2>10. QED
    BY <1>3, <2>1, <2>2, <2>8, <2>9
<1>6. QED
  BY <1>2, <1>3, <1>4, <1>5 DEF EntitlementOf

LEMMA ClaimCollects ==
    ASSUME TypeInv, LedgerInv, NEW a \in Accounts, NEW batch \in SUBSET Epochs,
           ClaimSet(a, batch)
    PROVE  Escrow!NextEscrow
<1> DEFINE book == [f \in Epochs |-> [b \in Accounts |->
                      [amount |-> ledger[f][b].amount, position |-> ledger[f][b].position]]]
           next == [f \in Epochs |-> [b \in Accounts |->
                      [amount |-> ledger'[f][b].amount, position |-> ledger'[f][b].position]]]
           taken == [f \in Epochs |-> {b \in Accounts : ledger[f][b].claimed}]
           takenNext == [f \in Epochs |-> {b \in Accounts : ledger'[f][b].claimed}]
           verdict == [f \in Epochs |-> VerdictOf(rounds[f])]
           owed == [e \in batch |-> Entitlement(e, a)]
           shares == [e \in batch |-> Escrow!Share(e, verdict[e], a)]
<1>1. /\ \A e \in batch : Entitlement(e, a) > 0
      /\ \A e \in Epochs : ledger'[e] = IF e \in batch THEN Marked(ledger[e], a)
                                        ELSE ledger[e]
      /\ UNCHANGED <<rounds, terms, burnAllocated, received>>
      /\ Total(owed, batch) <= totalLiabilities
      /\ totalLiabilities' = totalLiabilities - Total(owed, batch)
  BY ClaimParts
<1>2. \A e \in Epochs : ledger[e] \in [Accounts -> BetType]
  BY RoundTypes
<1>3. \A e \in Epochs : \A b \in Accounts :
        /\ ledger'[e][b].amount = ledger[e][b].amount
        /\ ledger'[e][b].position = ledger[e][b].position
        /\ ledger'[e][b].claimed <=> ledger[e][b].claimed \/ (e \in batch /\ b = a)
  <2> SUFFICES ASSUME NEW e \in Epochs, NEW b \in Accounts
               PROVE  /\ ledger'[e][b].amount = ledger[e][b].amount
                      /\ ledger'[e][b].position = ledger[e][b].position
                      /\ ledger'[e][b].claimed
                           <=> ledger[e][b].claimed \/ (e \in batch /\ b = a)
    OBVIOUS
  <2>1. CASE e \in batch
    <3>1. ledger'[e] = Marked(ledger[e], a)
      BY <1>1, <2>1
    <3>2. /\ Marked(ledger[e], a)[a].claimed
          /\ Marked(ledger[e], a)[b].amount = ledger[e][b].amount
          /\ Marked(ledger[e], a)[b].position = ledger[e][b].position
          /\ b # a => Marked(ledger[e], a)[b] = ledger[e][b]
      BY <1>2, MarkedBet
    <3>3. QED
      BY <2>1, <3>1, <3>2
  <2>2. QED
    BY <1>1, <2>1
<1>4. next = book
  BY <1>3
<1>5. takenNext = [e \in Epochs |-> IF e \in batch THEN taken[e] \cup {a} ELSE taken[e]]
  BY <1>3
<1>6. \A e \in batch : /\ owed[e] = Entitlement(e, a)
                       /\ shares[e] = Escrow!Share(e, VerdictOf(rounds[e]), a)
                       /\ verdict[e] = VerdictOf(rounds[e])
                       /\ a \in taken[e] <=> ledger[e][a].claimed
  OBVIOUS
<1> HIDE DEF book, next, taken, takenNext, verdict, owed, shares
<1>7. \A e \in batch : /\ shares[e] = owed[e] /\ shares[e] > 0
                       /\ a \notin taken[e] /\ verdict[e] # "Undecided"
  BY <1>1, <1>6, EntitlementIsShare
<1>8. totalLiabilities' + Total(shares, batch) = totalLiabilities
  <2>1. Total(shares, batch) = Total(owed, batch)
    BY <1>7, TotalAgree
  <2>2. \A e \in batch : owed[e] \in Nat
    BY <1>6, EntitlementType DEF TypeInv
  <2>3. Total(owed, batch) \in Nat
    BY <2>2, EpochFacts, FS_Subset, TotalType
  <2>4. totalLiabilities \in Nat
    BY DEF TypeInv, TypeOK
  <2>5. QED
    BY <1>1, <2>1, <2>3, <2>4
<1>9. Escrow!Collect(a, batch)
  <2>1. Escrow!Total(shares, batch) = Total(shares, batch)
    BY EscrowTotal
  <2>2. QED
    BY <1>1, <1>4, <1>5, <1>7, <1>8, <2>1, Zenon
    DEF Escrow!Collect, book, next, taken, takenNext, verdict, shares
<1>10. QED
  BY <1>9, Zenon DEF Escrow!NextEscrow

\* Sweeping moves the fees on and keeps their count.
LEMMA SweepStutters ==
    ASSUME TypeInv, SweepToBurner
    PROVE  UNCHANGED Escrow!escrow
<1>1. /\ UNCHANGED <<rounds, terms, ledger, totalLiabilities>>
      /\ burnAllocated' = 0
      /\ received' = [received EXCEPT ![config.burner] = @ + burnAllocated]
  BY Zenon DEF SweepToBurner, schedule, positions
<1>2. /\ config.burner \in Burners /\ received \in [Burners -> Nat] /\ burnAllocated \in Nat
  BY DEF TypeInv, TypeOK, ConstructorAccepts, Config
<1>3. /\ received'[config.burner] = received[config.burner] + burnAllocated
      /\ \A b \in Burners \ {config.burner} : received'[b] = received[b]
      /\ \A b \in Burners : received[b] \in Nat /\ received'[b] \in Nat
  BY <1>1, <1>2
<1>4. Total(received', Burners) + received[config.burner]
        = Total(received, Burners) + received'[config.burner]
  <2>1. IsFiniteSet(Burners)
    BY DomainAssumption
  <2>2. /\ \A b \in Burners : received[b] \in Nat
        /\ \A b \in Burners : received'[b] \in Nat
    BY <1>3
  <2>3. QED
    BY <1>2, <1>3, <2>1, <2>2, TotalChange
<1>5. Total(received', Burners) \in Nat /\ Total(received, Burners) \in Nat
  BY <1>3, DomainAssumption, TotalType
<1>6. received[config.burner] \in Nat
  BY <1>2, <1>3
<1>7. burnAllocated' + Total(received', Burners) = burnAllocated + Total(received, Burners)
  BY <1>1, <1>2, <1>3, <1>4, <1>5, <1>6
<1>8. QED
  BY <1>1, <1>7 DEF Escrow!escrow

LEMMA EscrowInit == Init => Escrow!InitEscrow
<1> SUFFICES ASSUME Init PROVE Escrow!InitEscrow
  OBVIOUS
<1>1. /\ totalLiabilities = 0 /\ burnAllocated = 0
      /\ received = [b \in Burners |-> 0]
      /\ \A e \in Epochs : rounds[e] = NoRound
      /\ \A e \in Epochs : \A a \in Accounts : ledger[e][a] = NoBet
      /\ terms \in [Epochs -> TermsType]
  BY InitTypeInv DEF Init, TypeInv, TypeOK
<1>2. Total(received, Burners) = 0
  <2>1. \A b \in Burners : received[b] = IF b \in {} THEN received[b] ELSE 0
    BY <1>1
  <2>2. {} \in SUBSET Burners
    OBVIOUS
  <2>3. Total(received, Burners) = Total(received, {})
    BY <2>1, <2>2, TotalRestrict
  <2>4. QED
    BY <2>3, TotalEmpty
<1>3. [e \in Epochs |-> [a \in Accounts |->
          [amount |-> ledger[e][a].amount, position |-> ledger[e][a].position]]]
        = [e \in Epochs |-> [a \in Accounts |-> Escrow!NoStake]]
  BY <1>1 DEF Escrow!NoStake, NoBet
<1>4. [e \in Epochs |-> VerdictOf(rounds[e])] = [e \in Epochs |-> "Undecided"]
  <2>1. VerdictOf(NoRound) = "Undecided"
    BY DEF VerdictOf, NoRound
  <2>2. QED
    BY <1>1, <2>1
<1>5. [e \in Epochs |-> terms[e].burnFeeBps] \in [Epochs -> 0..MaxBurnFeeBps]
  BY <1>1 DEF TermsType
<1>6. [e \in Epochs |-> {a \in Accounts : ledger[e][a].claimed}] = [e \in Epochs |-> {}]
  <2>1. ~NoBet.claimed
    BY DEF NoBet
  <2>2. QED
    BY <1>1, <2>1
<1>7. burnAllocated + Total(received, Burners) = 0
  BY <1>1, <1>2
<1>8. QED
  BY <1>1, <1>3, <1>4, <1>5, <1>6, <1>7, Zenon DEF Escrow!InitEscrow

LEMMA EscrowStep ==
    ASSUME TypeInv, TypeInv', BoundariesMeet, BlankUntilCreated, LedgerInv, [Next]_vars
    PROVE  [Escrow!NextEscrow]_(Escrow!escrow)
BY StepMoney, EnterStakes, ClaimCollects, SweepStutters, AdvanceDecides

\* The market implements the escrow, whatever the schedule, the oracles, the settings
\* and the batching of its calls: every transaction stakes once, decides rounds for good
\* with an admissible verdict and its exact fee, or lets one account collect its shares.
THEOREM MarketImplementsEscrow == Spec => ImplementsEscrow
BY EscrowInit, EscrowStep, LedgerAlwaysInOrder, TypeCorrect, BoundariesAlwaysMeet,
   AlwaysBlank, PTL DEF Spec, ImplementsEscrow, Escrow!SpecEscrow

(***************************************************************************)
(* Clients.  What the SDK computes again agrees with the ledger.           *)
(***************************************************************************)
\* A round shows as stuck only if anybody may cancel it now.
LEMMA StuckPhase ==
    ASSUME TypeInv, NEW e \in Epochs
    PROVE  /\ PhaseOf(e) = "Cancellable" =>
                Cancellable(e) /\ rounds[e].status \in {"Open", "Locked"}
           /\ rounds[e].status \notin {"Open", "Locked"} => PhaseOf(e) = rounds[e].status
<1>0. rounds[e].status \in Statuses
  BY DEF TypeInv, TypeOK, RoundType
<1>1. rounds[e].status \notin {"Open", "Locked"} => PhaseOf(e) = rounds[e].status
  BY DEF PhaseOf
<1>2. CASE rounds[e].status \in {"Open", "Locked"} /\ ~Cancellable(e)
  BY <1>2 DEF PhaseOf
<1>3. CASE rounds[e].status \notin {"Open", "Locked"}
  BY <1>0, <1>1, <1>3 DEF Statuses
<1>4. QED
  BY <1>1, <1>2, <1>3

\* The states an entry can be in: what is paid and what is left to claim of it.
LEMMA EntryCases ==
    ASSUME TypeInv, LedgerInv, NEW e \in Epochs, NEW a \in Accounts
    PROVE  LET r == rounds[e]
               bet == ledger[e][a]
               left == Entitlement(e, a)
               paid == (bet.amount * r.rewardAmount) \div r.rewardBaseAmount
           IN  /\ bet.amount \in Nat /\ bet.claimed \in BOOLEAN /\ left \in Nat
               /\ bet.claimed => bet.amount # 0 /\ left = 0
               /\ bet.amount = 0 => left = 0
               /\ \/ /\ IsRefundShaped(r, r.outcome) /\ ~Contested(r.outcome)
                     /\ r.status \in {"Settled", "Cancelled"}
                     /\ ~bet.claimed => left = bet.amount
                  \/ /\ r.status = "Settled" /\ r.outcome = "AllLost"
                     /\ ~bet.claimed /\ left = 0
                  \/ /\ r.status = "Settled" /\ Contested(r.outcome)
                     /\ bet.position # r.outcome /\ ~bet.claimed /\ left = 0
                  \/ /\ r.status = "Settled" /\ Contested(r.outcome)
                     /\ bet.position = r.outcome /\ r.rewardBaseAmount > 0
                     /\ paid \in Nat
                     /\ bet.claimed => paid > 0
                     /\ ~bet.claimed => left = paid
                  \/ /\ r.status \notin {"Settled", "Cancelled"} /\ r.outcome = "Undecided"
                     /\ ~bet.claimed /\ left = 0
<1> DEFINE r == rounds[e]
           bet == ledger[e][a]
           bps == terms[e].burnFeeBps
           paid == (bet.amount * r.rewardAmount) \div r.rewardBaseAmount
<1>1. /\ r \in RoundType /\ bps \in 0..MaxBps /\ bet \in BetType
  BY RoundTypes
<1>2. /\ Told(r, bps)
      /\ bet.claimed => PayoutOf(r, bet) > 0
  BY DEF LedgerInv, InOrder
<1>3. /\ PayoutOf(r, bet) \in Nat
      /\ Entitlement(e, a) = IF bet.claimed THEN 0 ELSE PayoutOf(r, bet)
      /\ PayoutOf(r, bet) > 0 => IsDecided(r) /\ bet.amount > 0
  BY <1>1, <1>2, EntitlementIsPayout, EntitlementHere
<1>4. bet.amount \in Nat /\ bet.claimed \in BOOLEAN
  BY <1>1 DEF BetType
<1>5. r.status \in Statuses
  BY <1>1 DEF RoundType
<1>6. CASE r.status = "Settled"
  <2>1. /\ r.outcome \in Outcomes \ {"Undecided"}
        /\ Contested(r.outcome) => /\ r.rewardBaseAmount = SideOf(r, r.outcome)
                                   /\ r.bullAmount > 0 /\ r.bearAmount > 0
    BY <1>1, <1>2, <1>6, TrueSettlement DEF Told
  <2>2. CASE r.outcome \in {"Tie", "NoContest"}
    <3>1. PayoutOf(r, bet) = bet.amount
      BY <2>2 DEF PayoutOf
    <3>2. QED
      BY <1>2, <1>3, <1>4, <1>6, <2>2, <3>1 DEF IsRefundShaped, Contested
  <2>3. CASE r.outcome = "AllLost"
    <3>1. PayoutOf(r, bet) = 0
      BY <1>6, <2>3 DEF PayoutOf, Contested
    <3>2. QED
      BY <1>2, <1>3, <1>4, <1>6, <2>3, <3>1
  <2>4. CASE Contested(r.outcome) /\ bet.position # r.outcome
    <3>1. PayoutOf(r, bet) = 0
      BY <1>6, <2>4 DEF PayoutOf, Contested
    <3>2. QED
      BY <1>2, <1>3, <1>4, <1>6, <2>4, <3>1
  <2>5. CASE Contested(r.outcome) /\ bet.position = r.outcome
    <3>1. PayoutOf(r, bet) = paid
      BY <1>6, <2>5, Zenon DEF PayoutOf, Contested
    <3>2. r.rewardBaseAmount > 0
      BY <2>1, <2>5 DEF SideOf
    <3> HIDE DEF paid
    <3>3. QED
      BY <1>2, <1>3, <1>4, <1>6, <2>5, <3>1, <3>2 DEF paid
  <2>6. QED
    BY <2>1, <2>2, <2>3, <2>4, <2>5 DEF Outcomes, Contested
<1>7. CASE r.status = "Cancelled"
  <2>1. r.outcome = "Undecided"
    BY <1>2, <1>7 DEF Told
  <2>2. PayoutOf(r, bet) = bet.amount
    BY <1>7 DEF PayoutOf
  <2>3. QED
    BY <1>2, <1>3, <1>4, <1>7, <2>1, <2>2 DEF IsRefundShaped, Contested
<1>8. CASE r.status \notin {"Settled", "Cancelled"}
  <2>1. r.outcome = "Undecided"
    BY <1>2, <1>8 DEF Told
  <2>2. PayoutOf(r, bet) = 0
    BY <1>8, <2>1 DEF PayoutOf, Contested
  <2>3. QED
    BY <1>2, <1>3, <1>4, <1>8, <2>1, <2>2
<1>9. QED
  BY <1>6, <1>7, <1>8

LEMMA LabelsHere ==
    ASSUME TypeInv, LedgerInv
    PROVE  LabelsMatchClaims
<1> SUFFICES ASSUME NEW e \in Epochs, NEW a \in Accounts
             PROVE  /\ Claimable(e, a) > 0 <=> Label(e, a) = "CLAIMABLE"
                    /\ Refundable(e, a) > 0 => Label(e, a) = "REFUNDABLE"
                    /\ Label(e, a) = "REFUNDABLE" => Refundable(e, a) > 0 \/ Cancellable(e)
                    /\ Label(e, a) \in {"CLAIMED", "REFUNDED"} <=> ledger[e][a].claimed
  BY Zenon DEF LabelsMatchClaims
<1> DEFINE r == rounds[e]
           bet == ledger[e][a]
           left == Entitlement(e, a)
           paid == (bet.amount * r.rewardAmount) \div r.rewardBaseAmount
           phase == PhaseOf(e)
<1>1. /\ bet.amount \in Nat /\ bet.claimed \in BOOLEAN /\ left \in Nat
      /\ bet.claimed => bet.amount # 0 /\ left = 0
      /\ bet.amount = 0 => left = 0
      /\ \/ /\ IsRefundShaped(r, r.outcome) /\ ~Contested(r.outcome)
            /\ r.status \in {"Settled", "Cancelled"}
            /\ ~bet.claimed => left = bet.amount
         \/ /\ r.status = "Settled" /\ r.outcome = "AllLost"
            /\ ~bet.claimed /\ left = 0
         \/ /\ r.status = "Settled" /\ Contested(r.outcome)
            /\ bet.position # r.outcome /\ ~bet.claimed /\ left = 0
         \/ /\ r.status = "Settled" /\ Contested(r.outcome)
            /\ bet.position = r.outcome /\ r.rewardBaseAmount > 0
            /\ paid \in Nat
            /\ bet.claimed => paid > 0
            /\ ~bet.claimed => left = paid
         \/ /\ r.status \notin {"Settled", "Cancelled"} /\ r.outcome = "Undecided"
            /\ ~bet.claimed /\ left = 0
  BY EntryCases, Zenon
<1>2. /\ phase = "Cancellable" => Cancellable(e) /\ r.status \in {"Open", "Locked"}
      /\ r.status \notin {"Open", "Locked"} => phase = r.status
  BY StuckPhase
<1>3. Label(e, a) = UserRoundStatus(r, bet, r.outcome, phase)
  BY DEF Label
<1>4. /\ Claimable(e, a) = IF Contested(r.outcome) THEN left ELSE 0
      /\ Refundable(e, a) = IF Contested(r.outcome) THEN 0 ELSE left
  BY DEF Claimable, Refundable
<1> HIDE DEF left, phase
<1>5. CASE bet.amount = 0
  <2>1. Label(e, a) = "PENDING"
    BY <1>3, <1>5 DEF UserRoundStatus
  <2>2. Claimable(e, a) = 0 /\ Refundable(e, a) = 0
    BY <1>1, <1>4, <1>5
  <2>3. QED
    BY <1>1, <1>5, <2>1, <2>2
<1>6. CASE /\ bet.amount # 0 /\ IsRefundShaped(r, r.outcome) /\ ~Contested(r.outcome)
           /\ r.status \in {"Settled", "Cancelled"}
           /\ ~bet.claimed => left = bet.amount
  <2>1. phase # "Cancellable"
    BY <1>2, <1>6
  <2>2. Label(e, a) = IF bet.claimed THEN "REFUNDED" ELSE "REFUNDABLE"
    BY <1>3, <1>6, <2>1 DEF UserRoundStatus
  <2>3. Claimable(e, a) = 0 /\ Refundable(e, a) = left
    BY <1>4, <1>6
  <2>4. QED
    BY <1>1, <1>6, <2>2, <2>3
<1>7. CASE /\ bet.amount # 0 /\ r.status = "Settled" /\ ~bet.claimed /\ left = 0
           /\ \/ r.outcome = "AllLost"
              \/ Contested(r.outcome) /\ bet.position # r.outcome
  <2>1. phase # "Cancellable"
    BY <1>2, <1>7
  <2>2. SettledPayout(r, bet, r.outcome) = 0
    BY <1>7 DEF SettledPayout, Positions
  <2>3. ~IsRefundShaped(r, r.outcome)
    BY <1>7 DEF IsRefundShaped, Contested
  <2>4. Label(e, a) = "LOST"
    BY <1>3, <1>7, <2>1, <2>2, <2>3 DEF UserRoundStatus
  <2>5. Claimable(e, a) = 0 /\ Refundable(e, a) = 0
    BY <1>4, <1>7
  <2>6. QED
    BY <1>7, <2>4, <2>5
<1>8. CASE /\ bet.amount # 0 /\ r.status = "Settled" /\ Contested(r.outcome)
           /\ bet.position = r.outcome /\ r.rewardBaseAmount > 0
           /\ paid \in Nat
           /\ bet.claimed => paid > 0
           /\ ~bet.claimed => left = paid
  <2>1. phase # "Cancellable"
    BY <1>2, <1>8
  <2>2. SettledPayout(r, bet, r.outcome) = paid
    <3>1. r.rewardBaseAmount # 0 /\ r.outcome \in Positions
      BY <1>8 DEF Contested, Positions
    <3>2. QED
      BY <1>8, <3>1, Zenon DEF SettledPayout
  <2>3. ~IsRefundShaped(r, r.outcome)
    BY <1>8 DEF IsRefundShaped, Contested
  <2> HIDE DEF paid
  <2>4. Label(e, a) = IF paid = 0 THEN "LOST" ELSE IF bet.claimed THEN "CLAIMED" ELSE "CLAIMABLE"
    BY <1>3, <1>8, <2>1, <2>2, <2>3 DEF UserRoundStatus
  <2>5. Claimable(e, a) = left /\ Refundable(e, a) = 0
    BY <1>4, <1>8
  <2>6. QED
    BY <1>1, <1>8, <2>4, <2>5
<1>9. CASE /\ bet.amount # 0 /\ r.status \notin {"Settled", "Cancelled"}
           /\ r.outcome = "Undecided" /\ ~bet.claimed /\ left = 0
  <2>1. ~IsRefundShaped(r, r.outcome)
    BY <1>9 DEF IsRefundShaped
  <2>2. Label(e, a) = IF phase = "Cancellable" THEN "REFUNDABLE" ELSE "LIVE"
    BY <1>3, <1>9, <2>1 DEF UserRoundStatus
  <2>3. Claimable(e, a) = 0 /\ Refundable(e, a) = 0
    BY <1>4, <1>9 DEF Contested
  <2>4. QED
    BY <1>2, <1>9, <2>2, <2>3
<1>10. QED
  <2> HIDE DEF paid, r, bet
  <2>1. QED
    BY <1>1, <1>5, <1>6, <1>7, <1>8, <1>9, Zenon

\* Whatever the order of settlements, cancellations and claims, the label of an entry
\* says that there is something to collect exactly when the contract would pay it.
THEOREM LabelsAlwaysMatchClaims == Spec => []LabelsMatchClaims
BY LedgerAlwaysInOrder, TypeCorrect, LabelsHere, PTL


LEMMA DerivedOutcome ==
    ASSUME NEW r
    PROVE  DeriveOutcome(r) = OutcomeOf(r, r.closePrice)
BY DEF DeriveOutcome, OutcomeOf, WinningPool, LosingPool

LEMMA CardsHere ==
    ASSUME TypeInv, LedgerInv
    PROVE  CardsTellTheVerdict
<1> SUFFICES ASSUME NEW e \in Epochs, Decided(e)
             PROVE  LET told == DescribeOutcome(CardOutcome(e))
                    IN  /\ rounds[e].status = "Settled" => CardOutcome(e) = rounds[e].outcome
                        /\ \A a \in Accounts :
                             ledger[e][a].amount > 0 /\ ~ledger[e][a].claimed =>
                               /\ told.refunded <=> Refundable(e, a) = ledger[e][a].amount
                               /\ told.burnedWholePot => Entitlement(e, a) = 0
  BY DEF CardsTellTheVerdict
<1> DEFINE r == rounds[e]
           told == DescribeOutcome(CardOutcome(e))
<1>1. r.status \in {"Settled", "Cancelled"} /\ PhaseOf(e) = r.status
  BY StuckPhase DEF Decided, IsDecided
<1>2. /\ told.refunded = (CardOutcome(e) \in {"Tie", "NoContest", "Cancelled"})
      /\ told.burnedWholePot = (CardOutcome(e) = "AllLost")
  BY DEF DescribeOutcome
<1>3. CASE r.status = "Cancelled"
  <2>1. CardOutcome(e) = "Cancelled"
    BY <1>1, <1>3 DEF CardOutcome
  <2>2. ASSUME NEW a \in Accounts, ~ledger[e][a].claimed
        PROVE  Refundable(e, a) = ledger[e][a].amount
    BY <1>3, <2>2, EntryCases DEF Refundable
  <2>3. told.refunded /\ ~told.burnedWholePot
    BY <1>2, <2>1
  <2>4. QED
    BY <1>3, <2>2, <2>3
<1>4. CASE r.status = "Settled"
  <2>1. Told(r, terms[e].burnFeeBps) /\ r \in RoundType /\ terms[e].burnFeeBps \in 0..MaxBps
    BY RoundTypes DEF LedgerInv, InOrder
  <2>2. r.outcome = OutcomeOf(r, r.closePrice) /\ r.outcome \in Outcomes \ {"Undecided"}
    BY <1>4, <2>1, TrueSettlement DEF Told
  <2>3. CardOutcome(e) = r.outcome
    BY <1>1, <1>4, <2>2, DerivedOutcome DEF CardOutcome
  <2>4. /\ told.refunded <=> r.outcome \in {"Tie", "NoContest"}
        /\ told.burnedWholePot <=> r.outcome = "AllLost"
    BY <1>2, <2>2, <2>3 DEF Outcomes
  <2>5. ASSUME NEW a \in Accounts, ledger[e][a].amount > 0, ~ledger[e][a].claimed
        PROVE  /\ r.outcome \in {"Tie", "NoContest"} <=> Refundable(e, a) = ledger[e][a].amount
               /\ r.outcome = "AllLost" => Entitlement(e, a) = 0
    <3> DEFINE bet == ledger[e][a]
               left == Entitlement(e, a)
    <3>1. /\ bet.amount \in Nat /\ bet.amount # 0 /\ ~bet.claimed
          /\ Refundable(e, a) = IF Contested(r.outcome) THEN 0 ELSE left
      BY <2>5, EntryCases DEF Refundable
    <3>2. \/ IsRefundShaped(r, r.outcome) /\ left = bet.amount /\ ~Contested(r.outcome)
          \/ r.outcome = "AllLost" /\ left = 0
          \/ Contested(r.outcome)
      BY <1>4, <2>5, EntryCases
    <3> HIDE DEF left, bet
    <3>3. QED
      BY <1>4, <3>1, <3>2 DEF IsRefundShaped, Contested, left, bet
  <2>6. QED
    BY <2>3, <2>4, <2>5
<1>5. QED
  BY <1>1, <1>3, <1>4

\* The result card of every decided round, in every order of events, tells the verdict
\* the contract recorded and what it does with the stakes.
THEOREM CardsAlwaysTellTheVerdict == Spec => []CardsTellTheVerdict
BY LedgerAlwaysInOrder, TypeCorrect, CardsHere, PTL


\* The cap on the fee leaves something of every pool.
LEMMA SomethingIsLeft ==
    ASSUME NEW total \in Nat \ {0}, NEW bps \in 0..MaxBurnFeeBps
    PROVE  /\ (total * bps) \div MaxBps \in Nat
           /\ (total * bps) \div MaxBps < total
<1>1. /\ MaxBps \in Nat \ {0} /\ MaxBurnFeeBps \in Nat /\ bps \in Nat
      /\ bps <= MaxBps - 1
  BY BoundAssumption, FeeCapAssumption
<1>2. total * bps \in Nat /\ total * bps <= total * (MaxBps - 1)
  BY <1>1
<1>3. total * (MaxBps - 1) = MaxBps * total - total
  BY <1>1
<1> DEFINE x == total * bps
           q == x \div MaxBps
<1>4. q \in Nat /\ MaxBps * q <= x
  BY <1>1, <1>2, FloorBounds
<1> HIDE DEF x
<1>5. x < MaxBps * total
  BY <1>1, <1>2, <1>3 DEF x
<1> HIDE DEF q
<1>6. MaxBps * q < MaxBps * total
  BY <1>1, <1>4, <1>5, <1>2 DEF x
<1>7. q < total
  BY <1>1, <1>4, <1>6
<1>8. QED
  BY <1>4, <1>7 DEF q, x

\* A floor division grows with what is divided.
LEMMA FloorGrows ==
    ASSUME NEW x \in Nat, NEW y \in Nat, x <= y, NEW B \in Nat \ {0}
    PROVE  x \div B <= y \div B
<1> DEFINE p == x \div B
           q == y \div B
<1>1. p \in Nat /\ q \in Nat /\ B * p <= x /\ y < B * q + B
  BY FloorBounds
<1> HIDE DEF p, q
<1>2. B * p < B * (q + 1)
  <2>1. B * (q + 1) = B * q + B /\ B * q \in Nat /\ B * p \in Nat
    BY <1>1
  <2>2. QED
    BY <1>1, <2>1
<1>3. p < q + 1
  <2>1. \A m, n \in Nat : m >= n => B * m >= B * n
    OBVIOUS
  <2>2. QED
    BY <1>1, <1>2, <2>1
<1>4. QED
  BY <1>1, <1>3 DEF p, q

\* what a stake gets from the pools it joins if its side wins
Winnings(stake, mine, other, bps) ==
    LET total == mine + stake + other
    IN  IF other = 0 THEN stake
        ELSE (stake * (total - (total * bps) \div MaxBps)) \div (mine + stake)

LEMMA EstimateIsWinnings ==
    ASSUME NEW stake \in Nat \ {0}, NEW mine \in Nat, NEW other \in Nat,
           NEW bps \in 0..MaxBurnFeeBps
    PROVE  EstimatePayout(stake, mine, other, bps) = Winnings(stake, mine, other, bps)
<1> DEFINE side == mine + stake
           total == side + other
           fee == (total * bps) \div MaxBps
<1>1. side \in Nat \ {0} /\ total \in Nat \ {0}
  OBVIOUS
<1>2. fee \in Nat /\ fee < total
  BY <1>1, SomethingIsLeft
<1>3. EstimatePayout(stake, mine, other, bps) =
        IF RewardPool(side, other, bps) = 0 \/ side = 0 THEN stake
        ELSE (stake * RewardPool(side, other, bps)) \div side
  BY DEF EstimatePayout
<1>4. RewardPool(side, other, bps) = IF side = 0 \/ other = 0 THEN 0 ELSE total - fee
  BY DEF RewardPool, BurnFee
<1>5. Winnings(stake, mine, other, bps) =
        IF other = 0 THEN stake ELSE (stake * (total - fee)) \div side
  BY DEF Winnings
<1> HIDE DEF fee, side
<1>6. total - fee # 0
  BY <1>1, <1>2
<1>7. CASE other = 0
  BY <1>3, <1>4, <1>5, <1>7
<1>8. CASE other # 0
  BY <1>1, <1>3, <1>4, <1>5, <1>6, <1>8
<1>9. QED
  BY <1>7, <1>8

\* Higher fees never raise what a stake gets.
LEMMA FeesLowerWinnings ==
    ASSUME NEW stake \in Nat \ {0}, NEW mine \in Nat, NEW other \in Nat,
           NEW low \in 0..MaxBurnFeeBps, NEW high \in 0..MaxBurnFeeBps, low <= high
    PROVE  Winnings(stake, mine, other, high) <= Winnings(stake, mine, other, low)
<1> DEFINE side == mine + stake
           total == side + other
           feeLow == (total * low) \div MaxBps
           feeHigh == (total * high) \div MaxBps
<1>1. /\ side \in Nat \ {0} /\ total \in Nat \ {0}
      /\ MaxBps \in Nat \ {0} /\ low \in Nat /\ high \in Nat
  BY BoundAssumption
<1>2. /\ feeLow \in Nat /\ feeLow < total
      /\ feeHigh \in Nat /\ feeHigh < total
  BY <1>1, SomethingIsLeft
<1> HIDE DEF side
<1>3. total * low \in Nat /\ total * high \in Nat /\ total * low <= total * high
  <2>1. \A m, n, k \in Nat : m <= n => k * m \in Nat /\ k * n \in Nat /\ k * m <= k * n
    OBVIOUS
  <2>2. QED
    BY <1>1, <2>1
<1> HIDE DEF total
<1>4. feeLow <= feeHigh
  BY <1>1, <1>3, FloorGrows
<1> HIDE DEF feeLow, feeHigh
<1>5. /\ stake * (total - feeHigh) \in Nat /\ stake * (total - feeLow) \in Nat
      /\ stake * (total - feeHigh) <= stake * (total - feeLow)
  <2>1. total - feeHigh \in Nat /\ total - feeLow \in Nat
        /\ total - feeHigh <= total - feeLow
    BY <1>1, <1>2, <1>4
  <2>2. \A m, n, k \in Nat : m <= n => k * m \in Nat /\ k * n \in Nat /\ k * m <= k * n
    OBVIOUS
  <2>3. QED
    BY <2>1, <2>2
<1>6. (stake * (total - feeHigh)) \div side <= (stake * (total - feeLow)) \div side
  BY <1>1, <1>5, FloorGrows
<1>7. QED
  BY <1>6 DEF Winnings, side, total, feeLow, feeHigh

\* What the contract pays is the same, with the fee the round pinned.
LEMMA PaidIsWinnings ==
    ASSUME NEW e \in Epochs, rounds[e] \in RoundType,
           rounds[e].totalAmount = rounds[e].bullAmount + rounds[e].bearAmount,
           terms[e].burnFeeBps \in 0..MaxBurnFeeBps,
           NEW position \in Positions, NEW amount \in Nat \ {0}
    PROVE  PaidOnWin(e, position, amount) =
             IF position = "Bull"
             THEN Winnings(amount, rounds[e].bullAmount, rounds[e].bearAmount,
                           terms[e].burnFeeBps)
             ELSE Winnings(amount, rounds[e].bearAmount, rounds[e].bullAmount,
                           terms[e].burnFeeBps)
<1> DEFINE old == rounds[e]
           mine == IF position = "Bull" THEN old.bullAmount ELSE old.bearAmount
           other == IF position = "Bull" THEN old.bearAmount ELSE old.bullAmount
           price == IF position = "Bull" THEN 3 ELSE 1
           locked == LockedAt(Entered(old, position, amount), 2)
           bps == terms[e].burnFeeBps
           r == SettledAt(locked, price, bps)
<1>1. mine \in Nat /\ other \in Nat /\ old.totalAmount = mine + other
  BY DEF RoundType
<1>2. /\ locked.lockPrice = 2
      /\ locked.totalAmount = mine + amount + other
      /\ WinningPool(locked, price) = mine + amount
      /\ LosingPool(locked, price) = other
  BY <1>1 DEF LockedAt, Entered, WinningPool, LosingPool, RoundType, Positions
<1>3. locked.totalAmount # 0 /\ mine + amount # 0 /\ price # 2
  BY <1>1, <1>2
<1>4. OutcomeOf(locked, price) = IF other = 0 THEN "NoContest" ELSE position
  BY <1>2, <1>3 DEF OutcomeOf, Positions
<1>5. /\ r.outcome = OutcomeOf(locked, price)
      /\ Contested(r.outcome) =>
           /\ r.rewardBaseAmount = WinningPool(locked, price)
           /\ r.rewardAmount = locked.totalAmount - FeeOf(locked, price, bps)
  <2>1. /\ locked = [locked EXCEPT !.lockPrice = 2]
        /\ DOMAIN locked = DOMAIN old
    BY DEF LockedAt, Entered, RoundType
  <2>2. DOMAIN old = {"startTimestamp", "lockTimestamp", "closeTimestamp", "lockPrice",
                      "closePrice", "totalAmount", "bullAmount", "bearAmount",
                      "rewardBaseAmount", "rewardAmount", "status", "outcome"}
    BY DEF RoundType
  <2> HIDE DEF locked, price
  <2>3. QED
    BY <2>1, <2>2 DEF SettledAt
<1>6. PaidOnWin(e, position, amount) =
        IF r.outcome = "NoContest" THEN amount
        ELSE (amount * r.rewardAmount) \div r.rewardBaseAmount
  BY DEF PaidOnWin
<1> HIDE DEF locked, price, r
<1>7. CASE other = 0
  BY <1>4, <1>5, <1>6, <1>7 DEF Winnings
<1>8. CASE other # 0
  <2>1. r.outcome = position /\ Contested(r.outcome) /\ r.outcome # "NoContest"
    BY <1>4, <1>5, <1>8 DEF Positions, Contested
  <2>2. FeeOf(locked, price, bps) = (locked.totalAmount * bps) \div MaxBps
    BY <1>5, <2>1 DEF FeeOf, Contested
  <2>3. PaidOnWin(e, position, amount)
          = (amount * ((mine + amount + other)
                         - ((mine + amount + other) * bps) \div MaxBps)) \div (mine + amount)
    BY <1>2, <1>5, <1>6, <2>1, <2>2
  <2>4. PaidOnWin(e, position, amount) = Winnings(amount, mine, other, bps)
    BY <1>8, <2>3 DEF Winnings
  <2>5. QED
    BY <2>4
<1>9. QED
  BY <1>7, <1>8

LEMMA EstimatesHere ==
    ASSUME TypeInv, LedgerInv
    PROVE  EstimatesFollowTheLiveFee
<1> SUFFICES ASSUME NEW e \in Epochs, NEW position \in Positions,
                    NEW amount \in FormStakes \ {0}
             PROVE  LET shown == ShownOnWin(e, position, amount)
                        paid == PaidOnWin(e, position, amount)
                    IN  /\ config.burnFeeBps >= terms[e].burnFeeBps => shown <= paid
                        /\ config.burnFeeBps <= terms[e].burnFeeBps => shown >= paid
  BY Zenon DEF EstimatesFollowTheLiveFee
<1> DEFINE r == rounds[e]
           live == config.burnFeeBps
           pinned == terms[e].burnFeeBps
           mine == IF position = "Bull" THEN r.bullAmount ELSE r.bearAmount
           other == IF position = "Bull" THEN r.bearAmount ELSE r.bullAmount
<1>1. /\ r \in RoundType /\ live \in 0..MaxBurnFeeBps /\ pinned \in 0..MaxBurnFeeBps
      /\ amount \in Nat \ {0}
  BY FormAssumption DEF TypeInv, TypeOK, TermsType, ConstructorAccepts, Config
<1>2. /\ r.bullAmount \in Nat /\ r.bearAmount \in Nat
      /\ r.totalAmount = r.bullAmount + r.bearAmount
  <2>1. ledger[e] \in [Accounts -> BetType] /\ Matches(r, ledger[e])
    BY RoundTypes DEF LedgerInv, InOrder
  <2>2. QED
    BY <1>1, <2>1, PoolsAddUp DEF RoundType
<1>3. mine \in Nat /\ other \in Nat
  BY <1>2
<1>4. ShownOnWin(e, position, amount) = Winnings(amount, mine, other, live)
  <2>1. ShownOnWin(e, position, amount) = EstimatePayout(amount, mine, other, live)
    BY DEF ShownOnWin
  <2>2. QED
    BY <1>1, <1>3, <2>1, EstimateIsWinnings
<1>5. PaidOnWin(e, position, amount) = Winnings(amount, mine, other, pinned)
  BY <1>1, <1>2, PaidIsWinnings
<1> HIDE DEF mine, other, live, pinned
<1>6. live >= pinned => Winnings(amount, mine, other, live)
                          <= Winnings(amount, mine, other, pinned)
  BY <1>1, <1>3, FeesLowerWinnings DEF live, pinned
<1>7. live <= pinned => Winnings(amount, mine, other, pinned)
                          <= Winnings(amount, mine, other, live)
  BY <1>1, <1>3, FeesLowerWinnings
<1>8. QED
  BY <1>4, <1>5, <1>6, <1>7 DEF live, pinned

\* Whatever was entered, in whatever order, and whatever became of the fee, the entry
\* form shows what a stake will be paid, to the wei, while the fee in force is the one
\* the round pinned; after a change it shows too little if the fee was raised and too
\* much if it was lowered, never the other way round.
THEOREM EstimatesAlwaysFollowTheLiveFee == Spec => []EstimatesFollowTheLiveFee
BY LedgerAlwaysInOrder, TypeCorrect, EstimatesHere, PTL
===============================================================================
