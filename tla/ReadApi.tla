------------------------------- MODULE ReadApi -------------------------------
(***************************************************************************)
(* The routes of the read API, as queries over the indexer's tables and    *)
(* calls to the market at the head of the chain. They change nothing, so   *)
(* they are state functions of the indexer's specification. The market's   *)
(* getters answer from the logs of the whole chain, of which the tables    *)
(* hold those up to the cursor.                                            *)
(*                                                                         *)
(* Columns that are passed through (prices, times, hashes, amounts of      *)
(* single rows) are left out; a list stands for the set of its rows where  *)
(* its order is a sort by a key.                                           *)
(***************************************************************************)
EXTENDS Indexer

CONSTANTS Accounts, Epochs

\* Epochs has every round that anybody may enter
ASSUME EpochAssumption ==
    /\ Epochs \subseteq Nat
    /\ \A h \in Histories : \A b \in BetsOf(h) : b.epoch \in Epochs

\* Number(q) || fallback, between 1 and max; None when there is no number
LimitOf(q, fallback, max) ==
    Min({max, Max({1, IF q \in {None, 0} THEN fallback ELSE q})})

\* ORDER BY epoch DESC LIMIT n
Newest(rows, n) ==
    {r \in rows : Cardinality({s \in rows : s.epoch > r.epoch}) < n}

-----------------------------------------------------------------------------
(* The market's getters *)

DecidedOn(c, e) == Happened(c, e, "RoundSettled") \/ Happened(c, e, "RoundCancelled")

OutcomeOn(c, e) ==
    IF Happened(c, e, "RoundSettled")
    THEN (CHOOSE l \in Named(c, {"RoundSettled"}) : l.epoch = e).outcome ELSE None

CollectedOn(c, e, a) == \E r \in ClaimsOf(c) : r.epoch = e /\ r.account = a

\* claimable or refundable is more than zero
Entitled(c, e, a) ==
    /\ DecidedOn(c, e)
    /\ ~CollectedOn(c, e, a)
    /\ \E b \in BetsOf(c) :
         /\ b.epoch = e /\ b.account = a
         /\ OutcomeOn(c, e) \in {None, "TIE", "NO_CONTEST", b.position}

CurrentEpochOn(c) == Cardinality(Named(c, {"RoundStarted"}))

-----------------------------------------------------------------------------
(* The routes *)

HealthOf(lastBlock, headBlock) ==
    LET indexed == IF lastBlock = None THEN 0 ELSE lastBlock
        ahead == headBlock # None /\ headBlock < indexed
    IN  [ok |-> headBlock # None /\ ~ahead, cursorAheadOfHead |-> ahead,
         lag |-> IF headBlock = None THEN None ELSE headBlock - indexed]

\* before: None for the first page
RoundsPage(before, limit) ==
    LET page == Newest({r \in db.rounds : before # None => r.epoch < before}, limit)
    IN  [rounds |-> page,
         nextBefore |-> IF page = {} THEN None ELSE Min({r.epoch : r \in page})]

HistoryOf(limit) == Newest({r \in db.rounds : r.status \in {"SETTLED", "CANCELLED"}}, limit)

\* FROM bets JOIN rounds LEFT JOIN claims
Positions ==
    UNION {{[epoch |-> b.epoch, account |-> b.account, position |-> b.position,
             amount |-> b.amount, status |-> r.status, outcome |-> r.outcome,
             kind |-> c.kind, collected |-> c.amount]
              : r \in {x \in db.rounds : x.epoch = b.epoch},
                c \in LET mine == {x \in db.claims : x.epoch = b.epoch /\ x.account = b.account}
                      IN  IF mine = {} THEN {[kind |-> None, amount |-> 0]} ELSE mine}
           : b \in db.bets}

PredictionsOf(a, limit) ==
    [summary |-> {u \in db.users : u.account = a},
     predictions |-> Newest({p \in Positions : p.account = a}, limit)]

OnlySettledEpochs(a) ==
    {p.epoch : p \in {q \in Positions : /\ q.account = a /\ q.kind = None
                                       /\ q.status = "SETTLED"
                                       /\ Entitled(chain, q.epoch, a)}}

\* the index proposes the epochs, the chain says what they are worth
ClaimableEpochs(a) ==
    LET proposed == {p \in Positions :
            p.account = a /\ p.kind = None /\ p.status \in {"SETTLED", "CANCELLED"}}
    IN  {p.epoch : p \in {q \in Newest(proposed, 200) : Entitled(chain, q.epoch, a)}}

Count(rows, Test(_)) == Cardinality({r \in rows : Test(r)})

Stats ==
    LET Volume(side) == Total({b \in db.bets : b.position \in side})
        Paid(kind) == Total({c \in db.claims : c.kind = kind})
        Fees(rounds) == MapThenSumSet(LAMBDA r : r.fee, rounds)
        Ended(o) == Count(db.rounds, LAMBDA r : r.outcome = o)
    IN  [rounds |-> Cardinality(db.rounds),
         settled |-> Count(db.rounds, LAMBDA r : r.status = "SETTLED"),
         cancelled |-> Count(db.rounds, LAMBDA r : r.status = "CANCELLED"),
         predictions |-> Cardinality(db.bets),
         wallets |-> Cardinality({b.account : b \in db.bets}),
         volume |-> Volume({"BULL", "BEAR"}),
         bull |-> Volume({"BULL"}), bear |-> Volume({"BEAR"}),
         paid |-> Paid("CLAIM"), refunded |-> Paid("REFUND"),
         fees |-> Fees(db.rounds),
         lostFees |-> Fees({r \in db.rounds : r.outcome = "ALL_LOST"}),
         wins |-> Ended("BULL") + Ended("BEAR"),
         others |-> Ended("TIE") + Ended("NO_CONTEST") + Ended("ALL_LOST"),
         current |-> MapThenSumSet(LAMBDA r : r.bull + r.bear,
                        {r \in db.rounds : r.epoch = CurrentEpochOn(chain)})]

\* the "all" window; the order is by net profit
LeaderboardEntry(a) ==
    LET mine == {p \in Positions : p.account = a}
    IN  [account |-> a,
         played |-> Cardinality(mine),
         won |-> Count(mine, LAMBDA p : p.outcome \in {"BULL", "BEAR"} /\ p.outcome = p.position),
         decided |-> Count(mine, LAMBDA p : p.status = "SETTLED" /\ p.outcome \in {"BULL", "BEAR"}),
         staked |-> Total(mine),
         collected |-> MapThenSumSet(LAMBDA p : p.collected, mine)]

Leaderboard == {LeaderboardEntry(a) : a \in {p.account : p \in Positions}}

BurnTotals ==
    [burns |-> Cardinality(db.burns), spent |-> Total(db.burns)]

-----------------------------------------------------------------------------
(* Properties *)

\* A wallet is offered exactly what it can collect: every entry the index has
\* seen decided and the market still pays, and nothing it already collected,
\* although the index is behind the chain and is built again after crashes
\* (apps/api/src/index.ts:266-272).
NothingCollectableIsHidden ==
    HasTip /\ ~reorged =>
        \A a \in Accounts :
            ClaimableEpochs(a) =
                {e \in Epochs : Entitled(chain, e, a) /\ DecidedOn(db.state.hash, e)}

SumOver(rows, F(_)) == MapThenSumSet(F, rows)

\* Figures that different routes derive from different tables agree, at every
\* point between two batches: the volume from entries, rounds, users and the
\* leaderboard; what was paid; the fees and burns from tables and from logs; the
\* pages, the history and the positions of a wallet have as many rows as are
\* counted; nobody has called more rounds right than were decided.
RoutesAgree ==
    ~reorged /\ db.market # OtherMarket =>
        /\ Stats.volume = SumOver(db.rounds, LAMBDA r : r.bull + r.bear)
        /\ Stats.volume = SumOver(Leaderboard, LAMBDA e : e.staked)
        /\ Stats.volume = SumOver(db.users, LAMBDA u : u.staked)
        /\ Stats.paid + Stats.refunded = SumOver(Leaderboard, LAMBDA e : e.collected)
        /\ Stats.fees = Total({v \in db.burnEvents : v.kind = "FEE_ACCRUED"})
        /\ BurnTotals.burns = Count(db.events, LAMBDA v : v.name = "BoughtAndBurned")
        /\ Stats.settled = Stats.wins + Stats.others
        /\ Stats.predictions = SumOver(Leaderboard, LAMBDA e : e.played)
        /\ \A e \in Leaderboard : e.won <= e.decided
        /\ \A u \in db.users : u.won <= LeaderboardEntry(u.account).won
        /\ \A a \in Accounts : LET mine == PredictionsOf(a, LimitOf(None, 50, 200))
                              IN  \A u \in mine.summary : u.entered = Cardinality(mine.predictions)
        /\ Stats.settled + Stats.cancelled = Cardinality(HistoryOf(LimitOf(None, 50, 200)))
        /\ LET two == LimitOf(2, 50, 200)
               first == RoundsPage(None, two)
               second == RoundsPage(first.nextBefore, two)
           IN  first.nextBefore # None =>
                   Stats.rounds = Cardinality(first.rounds) + Cardinality(second.rounds)
        /\ HealthOf(db.state.last, Len(chain)).ok
=============================================================================
