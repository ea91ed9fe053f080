------------------------------ MODULE ReadModel ------------------------------
(***************************************************************************)
(* The indexer's tables and what one log of the market or of the burner    *)
(* does to them. A table is a set of rows, a statement is an operator that *)
(* returns the tables after it.                                            *)
(*                                                                         *)
(* A log is [name, tx, index, epoch, account, amount, outcome]; the fields *)
(* its event does not have hold arbitrary values. Scheduled times, prices, *)
(* ticks, payloads and block times are left out; a settlement's amount is  *)
(* the fee it booked. The schema's chain_id is the same everywhere.        *)
(***************************************************************************)
EXTENDS Naturals, Sequences, SequencesExt, FiniteSets, FiniteSetsExt

CONSTANT None      \* a NULL column, an absent row

NoState == [last |-> None, hash |-> None, anchor |-> None]

EmptyTables ==
    [events |-> {}, bets |-> {}, claims |-> {}, executions |-> {}, burnEvents |-> {},
     burns |-> {}, observations |-> {}, rounds |-> {}, users |-> {},
     market |-> None, state |-> NoState]

EventKey(r)       == <<r.block, r.tx, r.index>>
LogKey(r)         == <<r.tx, r.index>>
RoundKey(r)       == r.epoch
BetKey(r)         == <<r.epoch, r.account>>
ClaimKey(r)       == <<r.epoch, r.account, r.kind>>
ObservationKey(r) == <<r.epoch, r.kind>>
ExecutionKey(r)   == <<r.tx, r.action, r.epoch>>
UserKey(r)        == r.account

\* INSERT ... ON CONFLICT (key) DO UPDATE, and ... DO NOTHING
Upsert(rows, Key(_), row) == {r \in rows : Key(r) # Key(row)} \union {row}

InsertNew(rows, Key(_), row) ==
    IF \E r \in rows : Key(r) = Key(row) THEN rows ELSE rows \union {row}

Total(rows) == MapThenSumSet(LAMBDA r : r.amount, rows)

-----------------------------------------------------------------------------
(* One operator for each statement: the rows of its table after it *)

WithEvent(rows, l, b, h) ==
    InsertNew(rows, EventKey,
        [block |-> b, tx |-> l.tx, index |-> l.index, name |-> l.name, hash |-> h])

RecordExecution(rows, l, b, act) ==
    InsertNew(rows, ExecutionKey,
        [tx |-> l.tx, action |-> act, epoch |-> l.epoch, block |-> b])

WithBurnEvent(rows, l, b, kind) ==
    InsertNew(rows, LogKey,
        [tx |-> l.tx, index |-> l.index, kind |-> kind, amount |-> l.amount, block |-> b])

WithObservation(rows, l, kind) ==
    Upsert(rows, ObservationKey, [epoch |-> l.epoch, kind |-> kind, tx |-> l.tx])

\* UPDATE rounds SET ... WHERE epoch = e
UpdateRound(rows, e, Changed(_)) == {IF r.epoch = e THEN Changed(r) ELSE r : r \in rows}

IncrementRoundTotals(rows, bets, e) ==
    LET bet == CHOOSE b \in bets : b.epoch = e /\ \A x \in bets : x.epoch = e => x.block <= b.block
    IN  UpdateRound(rows, e, LAMBDA r :
            IF bet.position = "BULL" THEN [r EXCEPT !.bull = @ + bet.amount]
            ELSE [r EXCEPT !.bear = @ + bet.amount])

RecomputeRoundTotals(rows, bets, e) ==
    LET Side(p) == Total({b \in bets : b.epoch = e /\ b.position = p})
    IN  UpdateRound(rows, e, LAMBDA r : [r EXCEPT !.bull = Side("BULL"), !.bear = Side("BEAR")])

RecomputeUser(rows, bets, claims, a) ==
    LET entered == {b \in bets : b.account = a}
        Took(kind) == {c \in claims : c.account = a /\ c.kind = kind}
    IN  Upsert(rows, UserKey,
            [account |-> a, entered |-> Cardinality(entered), staked |-> Total(entered),
             won |-> Cardinality(Took("CLAIM")), claimed |-> Total(Took("CLAIM")),
             refunded |-> Total(Took("REFUND"))])

\* rounds_won of everybody who entered the round, from the claims
MarkWinners(t, l) ==
    IF l.outcome \notin {"BULL", "BEAR"} THEN t.users
    ELSE {IF \E b \in t.bets : b.epoch = l.epoch /\ b.account = u.account
          THEN [u EXCEPT !.won = Cardinality({c \in t.claims :
                    c.account = u.account /\ c.kind = "CLAIM"})]
          ELSE u : u \in t.users}

-----------------------------------------------------------------------------
(* One operator for each event *)

NewRound(e) ==
    [epoch |-> e, status |-> "OPEN", outcome |-> None, bull |-> 0, bear |-> 0, fee |-> 0]

\* on conflict only the scheduled times change
RoundStarted(t, l) == [t EXCEPT !.rounds = InsertNew(@, RoundKey, NewRound(l.epoch))]

RoundLocked(t, l, b) ==
    [t EXCEPT !.rounds = UpdateRound(@, l.epoch, LAMBDA r : [r EXCEPT !.status = "LOCKED"]),
              !.observations = WithObservation(@, l, "LOCK"),
              !.executions = RecordExecution(@, l, b, "lock")]

SettledWithoutFeeEvent(t, l, b) ==
    [t EXCEPT !.rounds = UpdateRound(@, l.epoch, LAMBDA r :
                  [r EXCEPT !.status = "SETTLED", !.outcome = l.outcome, !.fee = l.amount]),
              !.users = MarkWinners(t, l),
              !.executions = RecordExecution(@, l, b, "settle")]

\* the observation needs the round's close time, the burn event a fee
RoundSettled(t, l, b) ==
    [t EXCEPT !.rounds = UpdateRound(@, l.epoch, LAMBDA r :
                  [r EXCEPT !.status = "SETTLED", !.outcome = l.outcome, !.fee = l.amount]),
              !.observations = IF \E r \in t.rounds : r.epoch = l.epoch
                               THEN WithObservation(@, l, "CLOSE") ELSE @,
              !.burnEvents = IF l.amount > 0 THEN WithBurnEvent(@, l, b, "FEE_ACCRUED") ELSE @,
              !.users = MarkWinners(t, l),
              !.executions = RecordExecution(@, l, b, "settle")]

RoundCancelled(t, l, b) ==
    [t EXCEPT !.rounds = UpdateRound(@, l.epoch, LAMBDA r :
                  [r EXCEPT !.status = "CANCELLED", !.outcome = "CANCELLED"]),
              !.executions = RecordExecution(@, l, b, "cancel")]

BetRow(l, b) ==
    [epoch |-> l.epoch, account |-> l.account, amount |-> l.amount,
     position |-> IF l.name = "BetBull" THEN "BULL" ELSE "BEAR",
     tx |-> l.tx, index |-> l.index, block |-> b]

Bet(t, l, b) ==
    LET bets == Upsert(t.bets, BetKey, BetRow(l, b))
    IN  [t EXCEPT !.bets = bets,
                  !.rounds = RecomputeRoundTotals(@, bets, l.epoch),
                  !.users = RecomputeUser(@, bets, t.claims, l.account)]

ClaimRow(l, b) ==
    [epoch |-> l.epoch, account |-> l.account, amount |-> l.amount,
     kind |-> IF l.name = "Claim" THEN "CLAIM" ELSE "REFUND",
     tx |-> l.tx, index |-> l.index, block |-> b]

\* on conflict the log index stays as it was
Collected(t, l, b) ==
    LET before == {c \in t.claims : ClaimKey(c) = ClaimKey(ClaimRow(l, b))}
        row == IF before = {} THEN ClaimRow(l, b)
               ELSE [ClaimRow(l, b) EXCEPT !.index = (CHOOSE c \in before : TRUE).index]
        claims == (t.claims \ before) \union {row}
    IN  [t EXCEPT !.claims = claims,
                  !.users = RecomputeUser(@, t.bets, claims, l.account)]

Burned(t, l, b) ==
    [t EXCEPT !.burns = InsertNew(@, LogKey,
        [tx |-> l.tx, index |-> l.index, amount |-> l.amount, block |-> b])]

\* FeeUpdated stands for the configuration and role events, all kept alike
ApplyEvent(t, l, b) ==
    CASE l.name = "RoundStarted"           -> RoundStarted(t, l)
      [] l.name = "RoundLocked"            -> RoundLocked(t, l, b)
      [] l.name = "RoundSettled"           -> RoundSettled(t, l, b)
      [] l.name = "RoundCancelled"         -> RoundCancelled(t, l, b)
      [] l.name \in {"BetBull", "BetBear"} -> Bet(t, l, b)
      [] l.name \in {"Claim", "Refund"}    -> Collected(t, l, b)
      [] l.name = "BurnSwept"              ->
            [t EXCEPT !.burnEvents = WithBurnEvent(@, l, b, "SWEPT_TO_BURNER")]
      [] l.name = "BoughtAndBurned"        -> Burned(t, l, b)
      [] l.name = "FeeUpdated"             ->
            [t EXCEPT !.burnEvents = WithBurnEvent(@, l, b, "CONFIG")]
      [] OTHER                             -> t

\* the log first, so that every row can be traced back to it
ApplyLog(t, l, b, h) == [ApplyEvent(t, l, b) EXCEPT !.events = WithEvent(@, l, b, h)]

ApplyBlock(t, logs, b, h) ==
    LET after[n \in 0 .. Len(logs)] ==
            IF n = 0 THEN t ELSE ApplyLog(after[n - 1], logs[n], b, h)
    IN  after[Len(logs)]

RollbackLeavesClaims(t, b) ==
    LET Below(rows) == {r \in rows : r.block < b}
    IN  [t EXCEPT !.events = Below(@), !.bets = Below(@), !.executions = Below(@),
                  !.burnEvents = Below(@)]

RollbackFrom(t, b) ==
    LET Below(rows) == {r \in rows : r.block < b}
    IN  [t EXCEPT !.events = Below(@), !.bets = Below(@), !.claims = Below(@),
                  !.executions = Below(@), !.burnEvents = Below(@)]

WipeLeavesBets(t) == [EmptyTables EXCEPT !.bets = t.bets]

\* every table the chain is derived into, the cursor and the market
WipeChain(t) == EmptyTables
=============================================================================
