------------------------------- MODULE Indexer -------------------------------
(***************************************************************************)
(* The log indexer against a chain, a sequence of blocks, that grows and   *)
(* reorganises. The hash of a block is the chain up to it, as a hash       *)
(* commits to every ancestor. One step is one transaction of the database, *)
(* with the reads of tables that only this process writes before it, or    *)
(* one request to the node.                                                *)
(*                                                                         *)
(* chain   the canonical chain                                             *)
(* db      the tables of ReadModel                                         *)
(* pc      where start() or tick() is, which begins at idle; down: no      *)
(*         process yet, or a new one soon; refused: exited with 78, so that *)
(*         the supervisor starts none                                      *)
(* last, head, safe, error   this.lastBlock, this.headBlock, safeHead and  *)
(*         whether this.lastError is set                                   *)
(* batch   the range being indexed and the chain its logs were read from   *)
(* trouble   how many faults have happened                                 *)
(* reorged, blind   history: see the properties                            *)
(* cut     history: the tables are rolled back and the stored tip is not   *)
(*                                                                         *)
(* Block times, transaction senders and price samples are left out.        *)
(***************************************************************************)
EXTENDS ReadModel, Integers

CONSTANTS
    Contents,        \* the logs of every block there is
    Histories,       \* the chains that may come to be, as long as they get
    Lengths,         \* bound: the lengths of the chain that anybody looks at
    StartBlock, Confirmations, BatchSize, MaxLag,
    Market, OtherMarket,
    OtherTables,     \* what indexing another market left in the database
    MaxTrouble       \* bound on faults: reorgs, failed requests, crashes

ASSUME IndexerAssumption ==
    /\ StartBlock \in Nat \ {0} /\ Confirmations \in Nat /\ BatchSize \in Nat \ {0}
    /\ MaxLag \in Nat /\ MaxTrouble \in Nat
    /\ Market # OtherMarket /\ None \notin {Market, OtherMarket}
    /\ OtherTables.market = OtherMarket

\* NULL is no value, a chain is a sequence of blocks, a block's logs are a
\* sequence, and every log has the fields of ReadModel and room for its block
ASSUME LogAssumption ==
    /\ None \notin Int /\ None \notin {"CLAIM", "REFUND"}
    /\ Histories \subseteq Seq(DOMAIN Contents)
    /\ \A b \in DOMAIN Contents :
          /\ Contents[b] \in Seq(Range(Contents[b]))
          /\ \A l \in Range(Contents[b]) :
                DOMAIN l = {"name", "tx", "index", "epoch", "account", "amount",
                            "outcome", "block"}

VARIABLES
    chain, db, pc, last, head, safe, anchor, error, batch, trouble, reorged, blind, cut

locals == <<last, head, safe, anchor, error, batch>>
history == <<reorged, blind, cut>>
vars == <<chain, db, pc, locals, trouble, history>>

Prefix(c, n) == SubSeq(c, 1, Min({n, Len(c)}))

Hash(n) == Prefix(chain, n)

NoBatch == [from |-> 0, to |-> 0, view |-> <<>>]

Init ==
    /\ \E h \in Histories : chain = Prefix(h, StartBlock)
    /\ db \in {EmptyTables, OtherTables}
    /\ pc = "down" /\ last = 0 /\ head = 0 /\ safe = 0 /\ anchor = None
    /\ error = FALSE
    /\ batch = NoBatch
    /\ trouble = 0 /\ reorged = FALSE /\ blind = FALSE /\ cut = FALSE

Disturbs == trouble < MaxTrouble /\ trouble' = trouble + 1

-----------------------------------------------------------------------------
(* The chain *)

Extend(h, n) ==
    /\ n \in Len(chain) + 1 .. Len(h)
    /\ IsPrefix(chain, h)
    /\ chain' = Prefix(h, n)
    /\ UNCHANGED <<db, pc, locals, trouble, history>>

RewindTo(height) ==
    IF height > Confirmations * 4 THEN height - Confirmations * 4 ELSE 0

\* the height a rollback leaves
Rewound == RewindTo(db.state.last) - 1

InsideTick == pc \in {"rollback", "cursor", "fetch", "commit"}

\* the blocks the tables hold, or are being rolled back to, when no hash is
\* stored to check them with
Unverified ==
    IF pc = "rollback" \/ (cut /\ InsideTick) THEN Rewound
    ELSE IF db.state.last # None /\ db.state.hash = None THEN db.state.last
    ELSE 0

Reorg(h, n) ==
    /\ Disturbs
    /\ ~IsPrefix(chain, h)
    /\ n \in StartBlock .. Len(h)
    /\ chain' = Prefix(h, n)
    /\ reorged' = TRUE
    /\ blind' = \/ blind
                \/ InsideTick /\ Prefix(chain, safe) # Prefix(chain', safe)
                \/ pc \in {"reset", "check"} /\ n < safe
                \/ Prefix(chain, Unverified) # Prefix(chain', Unverified)
    /\ UNCHANGED <<db, pc, locals, cut>>

-----------------------------------------------------------------------------
(* The process starts and stops *)

\* the process ends, and forgets
Exit(label) ==
    /\ pc' = label
    /\ last' = 0 /\ head' = 0 /\ safe' = 0 /\ anchor' = None
    /\ error' = FALSE /\ batch' = NoBatch

Crash ==
    /\ Disturbs
    /\ pc \notin {"down", "refused"}
    /\ Exit("down")
    /\ UNCHANGED <<chain, db, history>>

\* another market's tables, and INDEXER_RESET not set
Refuse ==
    /\ pc = "down"
    /\ db.market = OtherMarket
    /\ Exit("refused")
    /\ UNCHANGED <<chain, db, trouble, history>>

\* an operator starts it again, with INDEXER_RESET or without
Relaunch ==
    /\ pc = "refused"
    /\ pc' = "down"
    /\ UNCHANGED <<chain, db, locals, trouble, history>>

Registered(t) == [t EXCEPT !.market = Market]

\* one transaction, which leaves nothing to be certified
Wipe == db' = WipeChain(db) /\ blind' = FALSE /\ cut' = FALSE

KeepTables == UNCHANGED <<db, blind, cut>>

Connect ==
    /\ pc = "down"
    /\ IF db.market = OtherMarket THEN Wipe ELSE KeepTables
    /\ pc' = "register"
    /\ UNCHANGED <<chain, locals, trouble, reorged>>

Register ==
    /\ pc = "register"
    /\ db' = Registered(db)
    /\ pc' = "resume"
    /\ UNCHANGED <<chain, locals, trouble, history>>

\* the deployment block is not the one the tables were started from
Replaced(deployed) == deployed # None /\ db.state.anchor \notin {None, deployed}

Resume ==
    /\ pc = "resume"
    /\ \/ anchor' = Hash(StartBlock) /\ UNCHANGED trouble
       \/ anchor' = None /\ Disturbs        \* the node does not serve that block
    /\ \/ Replaced(anchor') /\ Wipe /\ pc' = "reregister" /\ UNCHANGED last
       \/ /\ ~Replaced(anchor')
          /\ last' = IF db.state.last = None THEN StartBlock - 1 ELSE db.state.last
          /\ pc' = "idle"
          /\ KeepTables
    /\ UNCHANGED <<chain, head, safe, error, batch, reorged>>

Reregister ==
    /\ pc = "reregister"
    /\ db' = Registered(db)
    /\ last' = StartBlock - 1
    /\ pc' = "idle"
    /\ UNCHANGED <<chain, head, safe, anchor, error, batch, trouble, history>>

\* any exception before the loop ends the process with 78; the statement that
\* failed had no effect, or only its answer was lost
StartFails ==
    /\ pc \in {"down", "register", "resume", "reregister"}
    /\ Disturbs
    /\ \/ KeepTables
       \/ pc = "down" /\ db.market = OtherMarket /\ Wipe
       \/ pc = "resume" /\ Replaced(Hash(StartBlock)) /\ Wipe
       \/ pc \in {"register", "reregister"} /\ db' = Registered(db) /\ UNCHANGED <<blind, cut>>
    /\ Exit("refused")
    /\ UNCHANGED <<chain, reorged>>

-----------------------------------------------------------------------------
(* tick() *)

\* an exception leaves the tick, which is run again after the poll interval
Fail ==
    /\ pc' = "idle"
    /\ error' = TRUE
    /\ batch' = NoBatch
    /\ UNCHANGED <<last, safe, anchor>>

Done ==
    /\ pc' = "idle"
    /\ error' = FALSE
    /\ batch' = NoBatch

\* to the reorg check, if there is anything to index
GoOn == IF safe' <= last' THEN Done ELSE pc' = "check" /\ UNCHANGED <<error, batch>>

SafeHead == IF Len(chain) > Confirmations THEN Len(chain) - Confirmations ELSE 0

ReadHeadAndWait ==
    /\ pc = "idle"
    /\ head' = Len(chain)
    /\ safe' = SafeHead
    /\ UNCHANGED <<chain, db, last, anchor, trouble, history>>
    /\ GoOn

\* a cursor that is ahead of the head: the tables are wiped first
ReadHead ==
    /\ pc = "idle"
    /\ head' = Len(chain)
    /\ safe' = SafeHead
    /\ UNCHANGED <<chain, last, anchor, trouble, reorged>>
    /\ \/ last > head' /\ Wipe /\ pc' = "reset" /\ UNCHANGED <<error, batch>>
       \/ last <= head' /\ KeepTables /\ GoOn

ReadHeadFails ==
    /\ pc = "idle"
    /\ Disturbs
    /\ \/ KeepTables /\ UNCHANGED head
       \/ head' = Len(chain) /\ last > head' /\ (KeepTables \/ Wipe)
    /\ Fail
    /\ UNCHANGED <<chain, reorged>>

\* only now the market is registered again, and only then the cursor goes back
Reset ==
    /\ pc = "reset"
    /\ db' = Registered(db)
    /\ last' = StartBlock - 1
    /\ UNCHANGED <<chain, head, safe, anchor, trouble, history>>
    /\ GoOn

ResetFails ==
    /\ pc = "reset"
    /\ Disturbs
    /\ db' \in {db, Registered(db)}
    /\ Fail
    /\ UNCHANGED <<chain, head, history>>

Diverged == db.state.hash # None /\ db.state.hash # Hash(db.state.last)

GoTo(label) == pc' = label /\ UNCHANGED locals

\* every exception of the check is logged and the tick goes on; a tip whose rows
\* are cut off passes if the chain is back at it
CheckForReorg ==
    /\ pc = "check"
    /\ \/ /\ ~Diverged
          /\ blind' = (blind \/ (cut /\ last # Rewound))
          /\ GoTo("fetch") /\ UNCHANGED trouble
       \/ /\ Diverged
          /\ db.state.last <= Len(chain)
          /\ blind' = (blind \/ Prefix(db.state.hash, Rewound) # Hash(Rewound))
          /\ GoTo("rollback") /\ UNCHANGED trouble
       \/ /\ Diverged
          /\ \/ db.state.last > Len(chain) /\ UNCHANGED trouble
             \/ Disturbs
          /\ blind' = TRUE
          /\ GoTo("fetch")
    /\ UNCHANGED <<chain, db, reorged, cut>>

RollBack ==
    /\ pc = "rollback"
    /\ db' = RollbackFrom(db, RewindTo(db.state.last))
    /\ cut' = TRUE
    /\ last' = Rewound
    /\ pc' = "cursor"
    /\ UNCHANGED <<chain, head, safe, anchor, error, batch, trouble, reorged, blind>>

RollBackFails ==
    /\ pc = "rollback"
    /\ Disturbs
    /\ db' \in {db, RollbackFrom(db, RewindTo(db.state.last))}
    /\ blind' = TRUE
    /\ GoTo("fetch")
    /\ UNCHANGED <<chain, reorged, cut>>

\* when it fails the tip stays, and the tick goes on from the rewound cursor
RewindCursor ==
    /\ pc = "cursor"
    /\ \/ /\ db' = [db EXCEPT !.state.last = last, !.state.hash = None]
          /\ cut' = FALSE
          /\ UNCHANGED trouble
       \/ Disturbs /\ UNCHANGED <<db, cut>>
    /\ GoTo("fetch")
    /\ UNCHANGED <<chain, reorged, blind>>

\* the range goes on from where the check left the cursor; blocks that are no
\* longer there have no logs
FetchLogs ==
    /\ pc = "fetch"
    /\ LET to == Min({last + BatchSize, safe})
       IN  batch' = [from |-> last + 1, to |-> to, view |-> Hash(to)]
    /\ pc' = "commit"
    /\ UNCHANGED <<chain, db, last, head, safe, anchor, error, trouble, history>>

FetchFails ==
    /\ pc \in {"fetch", "commit"}
    /\ \/ Disturbs
       \/ pc = "commit" /\ batch.to > Len(chain) /\ UNCHANGED trouble
    /\ Fail
    /\ UNCHANGED <<chain, db, head, history>>

Indexed(t, from, view) ==
    LET first == Max({StartBlock, from})
        after[b \in first - 1 .. Len(view)] ==
            IF b < first THEN t ELSE ApplyBlock(after[b - 1], Contents[view[b]], b, Prefix(view, b))
    IN  IF first > Len(view) THEN t ELSE after[Len(view)]

CursorAfter ==
    [last |-> batch.to, hash |-> Hash(batch.to),
     anchor |-> IF anchor = None THEN db.state.anchor ELSE anchor]

\* below what the tables hold already, or above more than they hold
GoesBack == db.state.last # None /\ batch.to < IF cut THEN Rewound ELSE db.state.last

SkipsAhead == db.state.last = None /\ batch.from > StartBlock

\* one transaction: the rows, then the cursor with the hash the tip has by now
CommitBatch ==
    /\ pc = "commit"
    /\ batch.to <= Len(chain)
    /\ \E t \in {Indexed(db, batch.from, batch.view)} :
         db' = [t EXCEPT !.state = CursorAfter]
    /\ \/ last' = batch.to /\ Done /\ UNCHANGED <<safe, anchor, trouble>>
       \/ Disturbs /\ Fail                  \* the answer to COMMIT is lost
    /\ blind' = (blind \/ GoesBack \/ SkipsAhead)
    /\ cut' = FALSE
    /\ UNCHANGED <<chain, head, reorged>>

StartUp == Connect \/ Register \/ Resume \/ Reregister

Tick == ReadHead \/ Reset \/ CheckForReorg \/ RollBack \/ RewindCursor \/ FetchLogs

\* the transaction of a batch ends, one way or the other
BatchEnds == pc = "commit" /\ pc' = "idle"

Next ==
    \/ \E h \in Histories : \E n \in Lengths : Extend(h, n) \/ Reorg(h, n)
    \/ Crash \/ Refuse \/ Relaunch
    \/ Connect \/ Register \/ Resume \/ Reregister \/ StartFails
    \/ ReadHead \/ ReadHeadFails \/ Reset \/ ResetFails
    \/ CheckForReorg \/ RollBack \/ RollBackFails
    \/ RewindCursor \/ FetchLogs \/ FetchFails \/ CommitBatch

Spec == Init /\ [][Next]_vars

\* a process that died is started again, and its loop polls for ever; one that
\* exited with 78 is not
FairSpec == Spec /\ WF_vars(StartUp) /\ WF_vars(Tick) /\ WF_pc(BatchEnds)

\* the answer of the health endpoint
Ready == ~error /\ 0 <= head - last /\ head - last < MaxLag

-----------------------------------------------------------------------------
(* What the tables hold when they are those of a chain *)

\* the logs of a chain, each with its block
LogsOf(c) ==
    UNION {{[Contents[c[b]][i] EXCEPT !.block = b] : i \in DOMAIN Contents[c[b]]}
           : b \in StartBlock .. Len(c)}

Named(c, names) == {l \in LogsOf(c) : l.name \in names}

EventsOf(c) ==
    {[block |-> l.block, tx |-> l.tx, index |-> l.index, name |-> l.name,
      hash |-> Prefix(c, l.block)] : l \in LogsOf(c)}

BetsOf(c) ==
    {[epoch |-> l.epoch, account |-> l.account, amount |-> l.amount,
      position |-> IF l.name = "BetBull" THEN "BULL" ELSE "BEAR",
      tx |-> l.tx, index |-> l.index, block |-> l.block]
        : l \in Named(c, {"BetBull", "BetBear"})}

ClaimsOf(c) ==
    {[epoch |-> l.epoch, account |-> l.account, amount |-> l.amount,
      kind |-> IF l.name = "Claim" THEN "CLAIM" ELSE "REFUND",
      tx |-> l.tx, index |-> l.index, block |-> l.block]
        : l \in Named(c, {"Claim", "Refund"})}

ExecutionsOf(c) ==
    {[tx |-> l.tx, epoch |-> l.epoch, block |-> l.block,
      action |-> CASE l.name = "RoundLocked"  -> "lock"
                   [] l.name = "RoundSettled" -> "settle"
                   [] OTHER                   -> "cancel"]
        : l \in Named(c, {"RoundLocked", "RoundSettled", "RoundCancelled"})}

BurnEventsOf(c) ==
    {[tx |-> l.tx, index |-> l.index, amount |-> l.amount, block |-> l.block,
      kind |-> CASE l.name = "RoundSettled" -> "FEE_ACCRUED"
                 [] l.name = "BurnSwept"    -> "SWEPT_TO_BURNER"
                 [] OTHER                   -> "CONFIG"]
        : l \in {k \in Named(c, {"RoundSettled", "BurnSwept", "FeeUpdated"}) :
                    k.name = "RoundSettled" => k.amount > 0}}

BurnsOf(c) ==
    {[tx |-> l.tx, index |-> l.index, amount |-> l.amount, block |-> l.block]
        : l \in Named(c, {"BoughtAndBurned"})}

\* No two logs of one chain make the same row: a block, a transaction and an
\* index name one log, and the market takes one entry (PonsPrediction.sol:305)
\* and pays one claim or refund (:611) of an account in a round, and locks and
\* decides a round once, which is what RoundEscrow promises of it.
ASSUME KeyAssumption ==
    \A h \in Histories :
        /\ \A r, s \in EventsOf(h) : EventKey(r) = EventKey(s) => r = s
        /\ \A r, s \in BetsOf(h) : BetKey(r) = BetKey(s) => r = s
        /\ \A r, s \in ClaimsOf(h) : ClaimKey(r) = ClaimKey(s) => r = s
        /\ \A r, s \in ExecutionsOf(h) : ExecutionKey(r) = ExecutionKey(s) => r = s
        /\ \A r, s \in BurnEventsOf(h) : LogKey(r) = LogKey(s) => r = s
        /\ \A r, s \in BurnsOf(h) : LogKey(r) = LogKey(s) => r = s

Places(c) == UNION {{b} \X DOMAIN Contents[c[b]] : b \in StartBlock .. Len(c)}

LogAt(c, p) == Contents[c[p[1]]][p[2]]

Before(p, q) == p[1] < q[1] \/ (p[1] = q[1] /\ p[2] < q[2])

\* The life of a round in the logs, which is what RoundEscrow promises of it: it is
\* started before anything else, entered before it is locked, never locked once decided,
\* decided once (PonsPrediction.sol:291-292, :352-355, :416, :584-589), and pays only who
\* entered (:610).
ASSUME LifeAssumption ==
    \A h \in Histories : \A q \in Places(h) :
        LET l == LogAt(h, q)
            Earlier(names) == {k \in {LogAt(h, p) : p \in {o \in Places(h) : Before(o, q)}} :
                                  k.epoch = l.epoch /\ k.name \in names}
        IN  /\ l.name \in {"BetBull", "BetBear", "RoundLocked", "RoundSettled", "RoundCancelled"} =>
                  Earlier({"RoundStarted"}) # {}
            /\ l.name \in {"BetBull", "BetBear"} =>
                  Earlier({"RoundLocked", "RoundSettled", "RoundCancelled"}) = {}
            /\ l.name \in {"RoundLocked", "RoundSettled", "RoundCancelled"} =>
                  Earlier({"RoundSettled", "RoundCancelled"}) = {}
            /\ l.name \in {"Claim", "Refund"} =>
                  \E k \in Earlier({"BetBull", "BetBear"}) : k.account = l.account

Happened(c, e, name) == \E l \in Named(c, {name}) : l.epoch = e

RoundsOf(c) ==
    LET Decision(e) == CHOOSE l \in Named(c, {"RoundSettled"}) : l.epoch = e
        Side(e, p) == Total({r \in BetsOf(c) : r.epoch = e /\ r.position = p})
    IN  {[epoch |-> e, bull |-> Side(e, "BULL"), bear |-> Side(e, "BEAR"),
          status |-> IF Happened(c, e, "RoundCancelled") THEN "CANCELLED"
                     ELSE IF Happened(c, e, "RoundSettled") THEN "SETTLED"
                     ELSE IF Happened(c, e, "RoundLocked") THEN "LOCKED" ELSE "OPEN",
          outcome |-> IF Happened(c, e, "RoundCancelled") THEN "CANCELLED"
                      ELSE IF Happened(c, e, "RoundSettled") THEN Decision(e).outcome
                      ELSE None,
          fee |-> IF Happened(c, e, "RoundSettled") THEN Decision(e).amount ELSE 0]
            : e \in {l.epoch : l \in Named(c, {"RoundStarted"})}}

UsersOf(c) ==
    LET Of(rows, a) == {r \in rows : r.account = a}
        Took(a, kind) == {r \in Of(ClaimsOf(c), a) : r.kind = kind}
    IN  {[account |-> a, entered |-> Cardinality(Of(BetsOf(c), a)),
          staked |-> Total(Of(BetsOf(c), a)),
          won |-> Cardinality(Took(a, "CLAIM")), claimed |-> Total(Took(a, "CLAIM")),
          refunded |-> Total(Took(a, "REFUND"))]
            : a \in {r.account : r \in BetsOf(c)}}

-----------------------------------------------------------------------------
(* Properties *)

HasTip == db.market # OtherMarket /\ db.state.hash # None

\* the chain whose rows the tables should hold
Covered == IF cut THEN Prefix(db.state.hash, Rewound) ELSE db.state.hash

\* A stored tip hash certifies the tables keyed by log identity: they hold
\* exactly the logs of the chain that ends in it (or, between a rollback and
\* the rewind of the cursor, whatever happens in between, those the rollback
\* leaves), whatever was replayed after crashes, lost commits and reorgs
\* (indexer.ts:17-24). Unless, which is every case of blind:
\*   - the chain changed below the safe head inside one tick, further down than
\*     the rewind, or below a rewound cursor, which has no hash;
\*   - the check or the rollback failed, which the code logs and goes on;
\*   - a batch that was committed without the process knowing is repeated up to
\*     a lower safe head;
\*   - the tables were wiped and the cursor was not, as the wipe or the
\*     registration after it failed, and the chain grows back to the cursor;
\*   - a rollback was not followed by the rewind of the cursor, and the process
\*     starts again after the chain went back to the old tip.
TipCertifiesRows ==
    HasTip /\ ~blind =>
        /\ db.events = EventsOf(Covered)
        /\ db.bets = BetsOf(Covered)
        /\ db.claims = ClaimsOf(Covered)
        /\ db.executions = ExecutionsOf(Covered)
        /\ db.burnEvents = BurnEventsOf(Covered)

\* Every bet, claim, execution and burn event traces back to a raw log in the
\* same block of the same database, also in all those exceptions
\* (handlers.ts:33); once wiped none is another market's.
RowsAreTraceable ==
    db.market # OtherMarket =>
        /\ \A r \in db.bets \union db.claims \union db.executions \union db.burnEvents :
              \E v \in db.events : v.block = r.block /\ v.tx = r.tx
        /\ \A v \in db.events : \E h \in Histories : IsPrefix(v.hash, h)

\* Without a reorg, crashes, lost commits and replays leave the rolled-up
\* tables as the chain has them: the rounds with their statuses and totals,
\* the users and the burns.
ReplayIsHarmless ==
    HasTip /\ ~reorged =>
        /\ db.rounds = RoundsOf(db.state.hash)
        /\ db.users = UsersOf(db.state.hash)
        /\ db.burns = BurnsOf(db.state.hash)

\* Once faults end, and unless the supervisor was told to leave it stopped again
\* and again, the indexer gets to the safe head and reports itself ready, for good.
CatchesUp == <>[](pc # "refused") => <>[](Ready /\ last >= SafeHead)

\* "Removes everything at or above `fromBlock`, so a reorg can be re-indexed
\* cleanly" (handlers.ts:301): after a reorg that was noticed in time the
\* rounds are those of the chain, too.
RollbackIsClean ==
    HasTip /\ ~blind /\ ~cut /\ pc = "idle" => db.rounds = RoundsOf(db.state.hash)
=============================================================================
