# Verification of the PONSHOT prediction market

TLA+ models of the programs in this repository, TLC configurations that check
them on small instances, and theorems that TLAPS proves for every instance.
Paths are relative to `src/`; `PP` is `packages/contracts/src/PonsPrediction.sol`.

`PROJECT.json` lists the components, the runs, one mutant of the code for each
property, the source lines of every definition, the hazards, the findings and
the theorems. This file says how the pieces fit together.

## 1. The system

A prediction market on one asset. Rounds overlap on a fixed schedule: round *n*
takes stakes on *Bull* or *Bear* from its start to its lock instant, its lock
price is the asset's time-weighted price at the lock instant, its close price
the one at the close instant, which is the lock instant of round *n*+1. Winners
share the pool less a fee; the fee is swept to a burner contract that buys and
burns tokens. Off chain, a keeper sends the transactions that move rounds along
and an indexer mirrors the events into SQL for a read API and a web client.

| component | state it keeps | operations | talks to |
|---|---|---|---|
| **Market** `PP` | rounds and pinned terms, ledger of stakes, totals owed and booked for burning, settings, two timelocked proposals, pause | `betBull/betBear`, `genesisStartRound`, `startNextRound`, `executeRound`, `lockRound`, `settleRound`, `cancelRound`, `emergencyCancelRound`, `claim`, `sweepToBurner`, `pause…`, 7 setters, propose/commit/cancel of fee and oracle | oracle (view calls), burner (ETH), wallets (ETH) |
| **Oracle interface** `IPredictionOracle` | none | `canQuote`, `getPriceAt`, `getPrice` | called by market |
| **Single-pool adapter** `oracle/UniswapV3PonsOracle.sol` | immutable pool, fixed parameters | seal rule over the pool's observations, earliest priceable instant, price of an instant, pool growth | Uniswap v3 pool |
| **Composite oracle** `oracle/CompositePonsOracle.sol` | list of sources, divergence limit | all-sealed gate, spread gate, median | adapters |
| **Pool observations** (Uniswap v3, external) | ring buffer of observations | write on swap, grow, observe | read by adapter |
| **Burner** `PonsBuybackBurner.sol` | allocation per target, shares, rate-limit window | `receive` (split), `buyAndBurn`, `setTarget`, `setRateLimit`, … | market, router |
| **Keeper** `apps/keeper/src/keeper.ts` with `state.ts`, `lock.ts` | durable "handled" marks, single-holder lock | tick: execute, then lock, settle, cancel; sweep; buybacks | market, burner, sender |
| **Sender** `apps/keeper/src/tx.ts` | next nonce, transactions in flight | simulate, send, wait, replace with a higher fee, resynchronise | RPC node |
| **Indexer** `apps/indexer/src` | cursor, block hashes, event rows, derived rows | batches, reorg detection, rollback, wipe | RPC node, SQL |
| **SDK** `packages/sdk` | none | payout, status and countdown arithmetic mirrored from the contract | web, API |
| **Read API** `apps/api` | none | SQL and RPC reads | indexer's tables |
| **Web client** `apps/web` | UI state | rendering, wallet prompts | API, market |
| **Config, deployment, scripts** | address books | one-shot deployment | chain |

### What is hard here, and what makes each component correct

* **Market.** Many actors (entrants, keepers, administrators, oracles) act in any
  order on one ledger. It is correct if money is conserved and owed money always
  payable in any order of claims and sweeps; if the schedule never drifts; if
  prices and outcomes do not depend on who acts or when; if a decision is final;
  if no stake can be locked in for ever; and if settings touch only rounds
  created later, fees and oracles only after their announcement period.
* **Oracle adapter and composite.** An answer for an instant may only be given
  once it can no longer change, and must then stay the same until evicted; the
  ring buffer wraps and grows. Correct: priced implies sealed, price is a
  function of the instant and the window, eviction is permanent, what `canQuote`
  accepts `getPriceAt` prices.
* **Burner.** Whatever is bought, retargeted or limited, each target gets its share
  of what was ever received; no window spends more than its cap; ETH that can be
  spent is spent.
* **Keeper and sender.** Transactions time out, are replaced, are mined late; the
  process restarts; two processes overlap. Correct: work that stays possible is
  eventually done, one intent is not applied twice where that matters, a nonce
  gap is never left behind.
* **Indexer.** The chain reorganises under a reader that crashes, whose requests
  fail and whose commits are lost. Correct: a stored tip hash certifies the tables
  as those of the chain it ends; the cursor reaches the safe head.
* **Read API.** It answers from an index that is behind the chain. Correct: what it
  offers for collection can be collected; figures derived from different tables
  agree.
* **SDK and web client.** They compute again what the contract computes. Correct:
  an estimate is what is paid as long as the fee stays, a label says whether there is
  something to collect, a result card tells the recorded verdict, and what a page
  offers to sign is what the market accepts.

## 2. Modules

| module | what it is |
|---|---|
| `Totals` | the sum of a function over a finite set, as a cardinality |
| `TotalsProofs` | lemmas about it: empty sum, one point added or changed, bounds, equality, tables by rows; induction over finite sets; floors |
| `PonsPrediction` | the market, one action per transaction, with the oracle and the wallets as its environment |
| `RoundEscrow` | abstract specification: what entrants are promised, without clock, oracle, schedule or accumulators |
| `Announcements` | the market with an observer of its proposal events |
| `MarketProofs` | theorems about the market: types, solvency; the schedule, the prices, the finality of decisions, the scan window, the announcements; pools, payouts, what is owed, the escrow refinement, and what clients recompute |
| `ClientViews` | the market's views and what the SDK and the web client make of a round |
| `WebPages` | what the web pages let a user enter and collect |
| `MCPayouts`, `MCSchedule`, `MCScan`, `MCSettings`, `MCProgress` | instances of the market for TLC |
| `ObservationRing` | a Uniswap pool's observations: write on swap, growth, `observe`, as operators on a pool |
| `TickPriceMath` | the mean tick of a window |
| `PonsOracle` | the single-pool adapter over a pool that trades, ages and grows |
| `OracleProofs` | theorems about the ring and the single-pool adapter: prices are true, losses only from a full ring, the feed refinement |
| `CompositeOracle` | the adapter over several pools: all must answer, divergence gate, median |
| `CompositeProofs` | theorems about the composite adapter: medians and spreads, every source agrees, the feed refinement; a source's ring by the lemmas of `OracleProofs` |
| `QuoteFeed` | abstract specification: what `IPredictionOracle` promises about prices |
| `MCOracle`, `MCComposite` | instances of the adapters for TLC |
| `TxSender` | the keeper's `send()`, one step per await, with the node, its mempool, the chain and other users of the account |
| `SenderProofs` | theorem about the sender: its nonces have no gaps |
| `MCSender` | an instance of the sender for TLC |
| `Keeper` | replicas of the keeper: tick, lock in Redis, handled marks, crash and restart, over an abstract market |
| `KeeperProofs` | theorem about the keeper: the lock excludes |
| `MCKeeper` | an instance of the keeper for TLC |
| `BuybackBurner` | the burner, and the keeper's loop that spends it |
| `BurnerProofs` | theorems about the burner: shares follow funding, spending is capped |
| `MCBurner` | an instance of the burner for TLC |
| `ReadModel` | the indexer's tables, and what each log does to them |
| `Indexer` | cursor, batches, reorg check, rollback and wipe over a chain that reorganises |
| `ReadApi` | the read API's routes as queries over those tables |
| `IndexerProofs` | theorems about the indexer and what the API offers: traceable rows, certified tables, harmless replays |
| `MCIndexer` | an instance of indexer and routes for TLC |

`PonsPrediction` `INSTANCE`s `RoundEscrow` with a refinement mapping. Both
adapters `INSTANCE` `QuoteFeed`, whose steps (pending, then priced once, then
lost for good) are those the market assumes of an honest oracle in
`OracleAnswers`/`MayAnswer`: the market is checked against the promise, the
adapters are checked to keep it. The one promise they do not keep is that
`canQuote` implies a price: where the quote rounds to zero they disagree with
themselves, and `QuotableIsPriced` says that this is the only place.
`ClientViews` extends `PonsPrediction` and is checked in every state of
`market_payouts` and `market_settings`, `WebPages` extends it and is checked in every state of
`market_progress`; `ReadApi` extends `Indexer`, which extends `ReadModel`. The
keeper meets the sender through the outcomes `TxSender` shows `send()` to have,
the market through `pendingWork` and the effects of its five calls, and the
burner through `runBuybacks`, which is in the burner's module.

### The market: correspondence with the code

*Atomicity.* One action is one transaction. EVM transactions are serialised, a
reverted one changes nothing, and every function that sends ETH out is
`nonReentrant` and writes its effects before the transfer, so nobody observes a
state in between. Interleaving is between transactions, and between transactions
and the clock, the oracle and forced ETH.

*State.* `rounds` is `_rounds` with the `outcome` of `_terms`; `terms` is what
`_createRound` pins (oracle, window, fee); `ledger` is `_ledger`; `config` holds
the settings new rounds are created with (and `burner`, `bufferSeconds` and the
bet limits, which are read when used). `feed` is what each oracle answers for
each window and instant: `ok` for `canQuote`, `price` for `getPriceAt`, 0 for a
revert. `received` is the ETH the burners were sent.

*Actions.* `Enter` is `betBull`/`betBear`; `LockRound`, `SettleRound`,
`CancelRound`, `EmergencyCancelRound`, `Claim` (a list of epochs, all or nothing,
where `Unmarked` is the mark a repeated epoch of the list meets) and
`SweepToBurner` are the functions of these names. `ExecuteRound` is the whole
of `executeRound`: every round of the scan window is advanced by `TryLock` and
then `TrySettle`, as in the loop body, the fees are booked and one new round is
opened. The seven setters that act at once are the disjuncts of `Configure`.

*Environment.* `Tick` advances the clock by one. `OracleAnswers` lets an oracle
change its answer for an instant some round waits for: one that keeps the
promises of `IPredictionOracle` answers once the instant has passed, never
changes a price and may lose it for good; a member of `FaultyOracles` may answer
anything, its two answers contradicting each other included. The second oracle
of `market_schedule` is such a one: boundaries, finality and progress do not
depend on it, only the properties that speak of prices except it. `ForceEther` is ETH that reaches the contract without `receive`.

*Abstracted.* Roles (an administrator may act at any time), the provenance
fields (tick and observation time) of a reading, the leaderboard
views, pagination, events, reentrancy guards, and the recipient's ability to
refuse ETH (the claim then reverts and only its sender is affected).

### The oracle adapters: correspondence with the code

*State.* The adapters keep none. `pool` is the Uniswap pool as the vendored
`Oracle.sol` and the mock pool make it: slots, `index`, `cardinality`,
`cardinalityNext`, the current `tick`. `area` is a history variable: the true
accumulated tick at every second, whether or not an observation was written
then; properties compare the adapter's answers with it. `observedAt` is the
full time of the newest observation, whose stored stamp has 32 bits only.

*Actions.* `Swap` is `swapToTick`: it writes an observation with the tick before
the swap, once a second, and then moves the tick. `IncreasePoolCardinality` is
the adapter's own pass-through to `grow`. `Tick` passes a second. `CanQuote`
and `GetPriceAt` are view calls, so they are operators that the properties
evaluate in every state, for every target and window, the ill-formed ones
included.

*Width.* Stamps are taken modulo `TimestampModulus` (2^32 in the code, 9 in the
run) and compared as `lte` does, by their age; targets have full width. The runs
let the stamps wrap. `MaxTime - Genesis < TimestampModulus` says that the pool is
less than 136 years old; past that the pool's own comparison is ambiguous.

*Abstracted.* The price is a constant function `Quote` of the mean tick, with a
zero where the quote rounds to zero; the binary search is the set of neighbours
that enclose the target; liquidity, the constructors' token checks, `getPrice`
and the display views are left out. Growth is left to `PonsOracle`: in
`CompositeOracle` every ring starts grown.

The seal rule does not protect the value in this pool: a swap writes its
observation before it moves the tick, so `PricedIsTrue` would hold without it.
What it buys is `LiveTickIsIgnored`: no answer is computed from the current tick
at all, whatever the pool does between observations.

### The transaction sender: correspondence with the code

*Atomicity.* `send()` is sequential, so one action is what it does between two
awaits: `Simulate`, `ReadNonce`, `EstimateGas`, `Submit`, then `Receipt` or
`Timeout`; `Resync` is the second read of the nonce. `pc` says which await it is
in, `call` holds its locals, `cached` is `this.nonce`. Between two steps the
chain may mine, the node may forget a transaction (`Evict`), another replica or
an operator may use the account (`ForeignTransaction`), somebody else may do the
work (`DoneByAnother`), an await may fail, and the process may restart.

*Transactions.* `sent` is every transaction a node ever accepted, `pool` what the
node holds now: one that was replaced or forgotten may still be mined, as long as
its nonce is the next one. A lost response (`Submit`'s last disjunct) leaves a
transaction the sender knows nothing of. A receipt is that of whichever
transaction took the nonce, as viem reports replacements.

*Errors.* They fall into the three classes `send()` tells apart: a conflict
(nonce too low, already known, replacement underpriced), a benign revert
(`Benign`: somebody else did it), anything else (`Retries`). An exception that
leaves `send()` reaches the handler of `run()`, which drops the nonce (`Throws`).

*Abstracted.* Fees are levels: an estimate is level 0, `bumpFees` adds one, and a
replacement needs more than what it replaces. The balance floor, dry runs,
statistics and the transaction record are left out.

### Clients: correspondence with the code

`ClientViews` translates `phaseOf`, `claimable` and `refundable` of the contract,
`payout.ts` and `tokenomics.ts` of the SDK, and the decision the result card and
the wallet's page take from them. Nothing there is shared with the contract's own
arithmetic in `PonsPrediction`, so the comparison is one of two programs. A view
has no step of its own: a page shows a function of one state. Formatting of
multipliers and prices is left out.

The estimate is given the fee in force (`ShownOnWin`), because the form takes it from
the market's settings, while the round pays with the fee it pinned (`PaidOnWin`).

`WebPages` translates what the pages offer to sign. `Visible`, `MarketParams`,
`PositionRows` and `LegacyRows` are what the hooks of `useMarket.ts` return, each
entry of the settings multicall failing on its own; `PanelOffers`, `Problem`,
`MaxStake` and `Submits` are the guards of the prediction panel and of the entry
form; `CollectableRows` and `LegacyRows` are the batches that one `claim` collects.
The panel decides only whether the form opens. Once open, the form stays open and
follows the round taking entries, so `Submits` asks nothing of the panel: what is
submitted was offered at some earlier time, by the panel or by the quick-stake row,
before any number of pauses, entries and cancellations. `OffersAreAccepted` compares
both with the transactions of `PonsPrediction` themselves, through `ENABLED`:

* `AcceptedIsOffered`: what `betBull` and `betBear` accept now and the wallet can
  pay, the panel offers and the form submits, also when a setting could not be read
  (its default is "no limit");
* `OfferedIsAccepted`: what the form submits is refused in three cases only, a pause,
  an entry of the same account, and a round that was cancelled while it took
  entries, none of which the form looks at;
* `ClaimAllIsPaid`: a batch over several rounds is paid.

It speaks of reads that are current. Between two polls a page may offer what the
market no longer takes, which then reverts; after an entry or a claim the rows are
stale until the next poll.

### The keeper: correspondence with the code

*State.* Per replica: `pc`, the await its tick is in; `holdsLock`, what it believes
of the lock; `todo`, the epochs `pendingWork` returned; `handled`, the cancellations
marked in the state file, the only thing besides the key in Redis that outlives the
process. `lock` is the token under that key: every process has a token of its own,
so a dead one's is `Departed`. `market` holds what `pendingWork` and the calls
depend on; `quote` is what the oracle says of the price a round waits for.

*Actions.* `Begin` is renewing or acquiring the lock and reading `pendingWork`,
`StandBy` the refusal; then `SendExecuteRound`, `CancelNext`, `ReadRest`,
`LockNext`, `SettleNext` and `Sweep` in the order of the code. `Throws` is an
exception anywhere, which ends the tick; `Crash`, `Stop` and `Start` are the
process. `Expire` is the key's time to live. `SomebodyCalls` is any other caller
of the permissionless functions, and also a transaction of the keeper's own that it
gave up on and that is mined later. The `Begin` disjunct that counts as a
disturbance is Redis failing open.

*History and bounds.* `unlocked` names the replicas whose tick goes on without the
key because Redis failed or the key expired under them; `LockExcludes` excepts
them and so says that nothing else breaks exclusion. `MaxTrouble` bounds
disturbances, `MaxEpoch` the rounds told apart.

*Abstracted.* Balances, health figures, and the pruning of old marks.

### The burner: correspondence with the code

A transaction is one step. Of a target only its share matters and whether it has a
token and a pool. Of a pool, `room` is how much it takes in one swap before the
output of that very amount, its own price impact included, is below the floor that
`_twapFloor` derives from the mean. A swap uses some of it up, other trades move it
(`PoolMoves`), and arbitrage or time brings it back to `Depth`. The keeper asks for
the whole allocation, which may exceed `Depth` for good. Instead of timestamps, `age` is the time
since the window began, and `recent`, a history variable, what was spent in each
of the last units of time, which `SpendIsCapped` sums over any window, not only
those the code anchors. `RunBuybacks` is one turn of the keeper's loop over the
two targets, between which anybody may buy, fund or reconfigure. Token amounts,
the swap callback and the pool's checks are left out.

### Indexer and read API: correspondence with the code

*Chain.* A sequence of blocks; the hash of a block is the chain up to it, as a
block hash commits to all its ancestors. `Contents` gives the logs of each block.
`Extend` and `Reorg` may come between any two requests.

*Tables.* `ReadModel` has one operator for each statement of `handlers.ts`, with its
key and its conflict clause, and one for each event. A batch is applied log by
log, rounds and users included, as the code does, and not derived from the rows.

*Steps.* One for each request to the node or transaction of the database, and a
failure of each. `start()` is `Connect` (the wipe of another market's tables),
`Register`, `Resume` (the wipe of a replaced chain's) and `Reregister`; any exception
before the loop is `StartFails` and ends the process with exit code 78, like `Refuse`,
after which only an operator starts it again (`Relaunch`). `tick()` is `ReadHead`
(with the wipe when the cursor is ahead of the head), `Reset` (the registration after
that wipe, and only then the cursor), `CheckForReorg`, `RollBack`, `RewindCursor`,
`FetchLogs`, `CommitBatch`. Rollback and cursor update are two transactions, and the
check, the rollback and the update are in a `try` whose exceptions are logged only:
the tick goes on to fetch. A transaction that fails may have been committed, its
answer lost. `Crash` comes between any two steps.

*History.* `reorged` says that the chain ever changed; `cut` that the tables were
rolled back and the stored tip was not yet, in which state a crash, a failed update or
the next tick may find them. `blind` is set where the code can not notice, or notices
and goes on, and is spelled out in the comment of `TipCertifiesRows`: a reorg below the
safe head inside one tick, one deeper than the rewind, one below a rewound cursor that
has no hash yet; a check or rollback that failed; a repeated batch that ends lower; a
wipe that the cursor did not follow, because the wipe or the registration after it
failed, on a chain that then grows back to the cursor; a rollback that the cursor did not
follow, when the process starts again with the chain back at the old tip. Each of these
is a way in which the tables really come to differ from the chain; they are listed as
hazards. Outside them the tables keyed by logs are exact, crashes between rollback and
rewind included, and `RowsAreTraceable` holds in all of them.

*Routes.* Queries are operators on the tables; the market's getters, which some
routes also call, answer from the whole chain, of which the tables hold a prefix.
Price samples, block times, transaction senders, candles, the trades feed and
routes that pass a contract's answer through are left out.

### Runs

| run | instance | bounds and why they suffice | what it shows |
|---|---|---|---|
| `market_payouts` | 1 round, 3 accounts, stakes 1 or 2, 25% fee that may become 0, timelock 2, prices {1,2}, claims naming up to 2 epochs | three entrants are the least that give two winners and a remainder; the fee may change before the round that pinned the old one is settled, and while it is paid; two prices give up, down and tie; one round, because rounds share only the totals, whose sharing `market_progress` checks | `Solvent`, `LiabilitiesCoverClaims`, `PoolsMatchLedger`, `OnlyDustStays`, `NoEntryOnceLockPriceIsKnown`, `ImplementsEscrow`; `LabelsMatchClaims`, `CardsTellTheVerdict` of the clients |
| `market_schedule` | 3 rounds, no stakes, interval 1→2, oracle `o1`→`o2`, of which `o2` answers anything | a round's boundary is shared with its two neighbours only, so three rounds show both sides | `BoundariesMeet`, `SharedBoundaryAgrees`, `HistoryIsFinal`, `ExecuteCatchesUp`, `NoVoidOfPriceableRound` |
| `market_scan` | 5 rounds, nobody stakes, interval 1 or 3 raised and lowered, tolerance raised from 0 to 2, at most 5 rounds scanned | the window spans three rounds back and up to five with the longer tolerance, so that the limit is met and each term counts; the fifth round pushes the first out; rounds of both lengths are open together | `WindowIsWide` |
| `market_settings` | 1 round, 2 accounts with a stake of 1, a second value of the settings that are checked against each other, fees 0, 1 and 2 of 4, timelock 2, amounts of 1 to 3 typed into the form | the checks relate settings to each other, not to stakes; the clock allows two announcements of one change to overlap, and a fee to be committed while the round that pinned another takes entries | `TypeOK` (with the hard limits), `EstimatesFollowTheLiveFee`, `ChangesAreAnnounced` |
| `market_progress` | 2 rounds, 2 accounts, pause, late, silent or evicting oracle, `FairSpec` | the second round starts while the first is undecided; the stakes typed and wallet balances meet every limit of the form from both sides; the replaced market's panel reads one entry of two | `EveryRoundIsDecided`; `OffersAreAccepted` of the web pages |
| `oracle_adapter` | 1 pool, 2 ticks of both signs, 9 seconds, rings of 1 to 3 slots, windows of 1 and 2 s | a ring of 3 can wrap, then grow, then wrap again; the stamps wrap in the middle; a window of 2 over ticks -2 and 1 has a negative mean to round; tick 1 has quote zero | `PricedIsTrue`, `LiveTickIsIgnored`, `QuotableIsPriced`, `LostOnlyWhenFull`, `ImplementsFeed` |
| `oracle_composite` | 3 pools, one of them in the other order, 3 instants, ring of 2, limit of 1 tick | three is the least that has a median distinct from both ends and can do without one source; pools agree, diverge, lag and forget independently | `EverySourceAgrees`, `QuotableIsPriced`, `ImplementsFeed` |
| `keeper_sender` | 2 kinds of call (one whose revert is benign, one whose is not), work that comes due twice in all, 3 attempts, 2 disturbances, `FairSpec` | two disturbances are the least that combine a timeout with a loss, a foreign transaction or a restart; two pieces of work let the second meet what the first left in the mempool | `NeverSkipsANonce`, `DueWorkIsDone` |
| `keeper` | 2 replicas, 2 overlapping rounds, 2 disturbances, `FairSpec` | two replicas are the least that can overlap; two rounds give a tick with work of each kind; two disturbances let a lost key or a crash meet a failed send | `LockExcludes`, `RoundsAreFinished` |
| `burner` | shares 3 to 1, deposits of 1 and 3 up to 6, windows of 1 and 2, caps of 1 to 3, pools that take 2 and 6, 2 disturbances, `FairSpec` | no deposit divides; a cap below one allocation, below what a window has spent, and above all of it; a pool that never takes the whole allocation and one that always does; a window made shorter and longer while it runs | `SharesFollowFunding`, `SpendIsCapped`, `AllThatFitsIsSpent` |
| `indexer` | 4 histories of up to 8 blocks with three rounds and every event that has a statement of its own, seen at lengths 1, 3, 6 and 8, 1 confirmation, batches of 3, 3 faults, a database that is empty or another market's, `FairSpec` | the histories fork in the first, second and third block: within the rewind of four confirmations, deeper than it, and another instance of the chain; the same transaction is in different blocks of two; a batch can be cut by every fork; three faults combine a reorg with a crash or failure before and after it, or fail a wipe, a registration and a start | `TipCertifiesRows`, `RowsAreTraceable`, `ReplayIsHarmless`, `NothingCollectableIsHidden`, `RoutesAgree`, `CatchesUp` |
| `indexer_rounds_after_reorg` | as `indexer` | | violates `RollbackIsClean`, see Findings |

Named bounds are constants: `MaxEpoch`, `MaxTime` and `MaxForced` stop round
creation, the clock and forced ETH; `Stakes` says which values are sent per
round; `Proposals` which settings administrators try. The market may stop when
the clock does, so deadlock is not an error in these runs. Accounts and burners
are interchangeable (`Symmetry`) in the safety runs; `market_progress`, which
checks a liveness property, uses no symmetry. In the oracle runs `MaxTime` and
`MaxCardinality` are the bounds, and the pools may stop trading. In the other
runs `MaxTrouble` bounds disturbances, `MaxArrivals` new work for the sender,
`MaxFunded` the ETH the burner receives and `Horizon` the ages it tells apart.
Sender, keeper, burner and indexer may stop when nothing is due.

### Fairness

`FairSpec` adds weak fairness of the clock and of `lockRound`, `settleRound` and
`cancelRound` for each round. Locking and settling are permissionless, not gated
by the pause, and retried by the keeper at every tick for as long as `pendingWork`
names the round. Cancelling is permissionless too; the keeper sends it once and
marks even a skipped attempt as handled, so what justifies its fairness is an
entrant who wants the refund. Nothing is assumed of oracles, administrators,
new rounds or claims. Weak fairness is enough because each action, once enabled,
stays enabled until its round changes or the oracle's answer does.

`TxSender`'s `FairSpec`: weak fairness of mining the next transaction the node
holds, weak fairness of the steps of `send()` (every await ends, by an answer, an
error or the timeout), and strong fairness of starting to send each kind of work,
since every tick goes through all that is due but other sends come in between.
Cancellations are the exception: one that was skipped is marked as handled and
never sent again, so `DueWorkIsDone` is about the other calls. Nothing is
assumed of other callers, and disturbances are finitely many.

`Keeper`'s `FairSpec`: rounds become due, a dead process's key expires, and each
replica's process is started again and its loop goes on. Nothing is assumed of
the outcome of any send, of prices, of the other replica or of other callers;
weak fairness of a replica is enough because its loop is sequential. `BuybackBurner`'s:
time passes, a pool returns to its mean, and the keeper's ticks go on; without
the second no buyback need ever meet its floor. `Indexer`'s: a process that died is
started again and its steps up to the loop are taken, the loop polls for ever, and the
transaction of a batch ends. Nothing is assumed of a process that exited with 78, which
is what any exception before the loop leads to and what `ecosystem.config.cjs:33` tells
the supervisor not to restart: `CatchesUp` is about runs that are not left stopped that
way, `<>[](pc # "refused")`. Crashes are bounded by `MaxTrouble`, as PM2 gives up after 20.

### The escrow refinement

`RoundEscrow` computes pots, sides and shares from the individual stakes at the
moment of use, where the contract keeps running totals (`bullAmount`,
`rewardAmount`, …) and a single `totalLiabilities`. `ImplementsEscrow` checks
that every step of the market is a step of the escrow: stakes enter only before
the verdict, the verdict is one that the stakes admit and is final, each entrant
collects once and exactly the share, and what is held for users changes by these
amounts only. This is where a wrong accumulator, a double payment or a fee taken
from a refund shows.

## 3. Theorems

Of the market (`MarketProofs`):

| theorem | statement | argument |
|---|---|---|
| `TypeCorrect`, `TypesHold` | `Spec => []TypeInv`, `Spec => []TypeOK` | `TypeInv == TypeOK /\ RewardOK` is inductive |
| `AlwaysSolvent` | `Spec => []Solvent` | `PaidAlike` and `SolventStep` over `TypeInv` |
| `BoundariesAlwaysMeet` | `Spec => []BoundariesMeet` | inductive over `TypeInv`, from `StepSchedule` |
| `HistoryNeverRewritten` | `Spec => HistoryIsFinal` | `Evolves`, see below |
| `EntriesAreBlind` | `Spec => NoEntryOnceLockPriceIsKnown`: at an entry every honest answer about the lock instant or later is still to come | answers about an instant come after it, an inductive fact about `feed` (`AnswersArePast`); entries end before it |
| `BoundariesAlwaysAgree` | `Spec => []SharedBoundaryAgrees` | through a strengthening, see below |
| `PriceableRoundsStand` | `Spec => NoVoidOfPriceableRound` | the two actions that void, against `canQuote` |
| `ExecuteAlwaysCatchesUp` | `Spec => ExecuteCatchesUp` | locking does not move the close instant, so the settling that follows in the loop body finds all it can (`AdvanceIsFinal`) |
| `WindowAlwaysWide` | `Spec => []WindowIsWide`: a round in tolerance is in the scan window unless a later one is shorter than today's interval | spacing of the rounds, see below |
| `ScanAlwaysCovers` | `Spec => []ScanCoversTolerance`, if no interval but the deployed one is ever proposed | from `WindowAlwaysWide`, as all rounds are then of one length |
| `ChangesAlwaysAnnounced` | `SpecAnnounced => ChangesAreAnnounced` | what is pending is what was announced last, ready one timelock later |
| `PoolsAlwaysMatch` | `Spec => []PoolsMatchLedger` | `LedgerInv`, see below |
| `OnlyDustEverStays` | `Spec => []OnlyDustStays` | a true settlement's shares, floored, against the exact ones |
| `ClaimsAlwaysCovered` | `Spec => []LiabilitiesCoverClaims` | what is owed, round by round, see below |
| `MarketImplementsEscrow` | `Spec => ImplementsEscrow` | step by step, see below |
| `LabelsAlwaysMatchClaims`, `CardsAlwaysTellTheVerdict`, `EstimatesAlwaysFollowTheLiveFee` | `Spec => []LabelsMatchClaims`, `[]CardsTellTheVerdict`, `[]EstimatesFollowTheLiveFee` | the clients' arithmetic on a round of which `LedgerInv` holds; a floored fee, and with it the estimate, is monotonic in the rate |

Of the other components:

| theorem | statement | argument |
|---|---|---|
| `OracleAlwaysInOrder` | `PonsOracle!Spec => []OracleInv` | the ring tells what it was written for, see below |
| `PricedAlwaysTrue`, `QuotableAlwaysPriced`, `LiveTickAlwaysIgnored` | `Spec => []PricedIsTrue`, `[]QuotableIsPriced`, `[]LiveTickIsIgnored` | `AnswerIs`: an answer is the quote at the true mean tick |
| `LossesAlwaysFromFull` | `Spec => LostOnlyWhenFull` | only a write into the next slot of a ring filled to its cardinality overwrites |
| `AdapterImplementsFeed` | `PonsOracle!Spec => ImplementsFeed` | step by step, see below |
| `SourcesAlwaysInOrder` | `CompositeOracle!Spec => []CompositeInv` | the ring of each source, by `OracleProofs`, see below |
| `EverySourceAlwaysAgrees`, `QuotableAlwaysPriced` of `CompositeProofs` | `Spec => []EverySourceAgrees`, `[]QuotableIsPriced` | the median lies between the true means, and within the spread of each, see below |
| `CompositeImplementsFeed` | `CompositeOracle!Spec => ImplementsFeed` | step by step, see below |
| `RowsAlwaysTraceable` | `Indexer!Spec => []RowsAreTraceable` | `RowsInv`, see below |
| `TipAlwaysCertifies` | `Indexer!Spec => []TipCertifiesRows` | `Certified`, see below |
| `ReplayAlwaysHarmless` | `Indexer!Spec => []ReplayIsHarmless` | `Straight`, see below |
| `CollectableIsOffered` | `Spec => [](NothingCollectableIsHidden` if every wallet's list fits the page`)` | from `Straight`, see below |
| `LockAlwaysExcludes` | `Keeper!Spec => []LockExcludes` | types and exclusion together are inductive, see below |
| `SharesAlwaysFollow` | `BuybackBurner!Spec => []SharesFollowFunding` | the types, with the constructor's shares unchanged, are inductive; a deposit's floor is off by less than a wei |
| `SpendAlwaysCapped` | `BuybackBurner!Spec => []SpendIsCapped` | `CapInv`, see below |
| `NoncesHaveNoGaps` | `TxSender!Spec => []NeverSkipsANonce` | through a strengthening, see below |

They hold for every value of the constants under the named assumptions of the
modules, which TLC evaluates on the runs of those modules:

* `BoundAssumption` and `DomainAssumption` of `PonsPrediction`: the constants are the
  numbers the code makes them; accounts and burners are finitely many, prices
  positive, the deployment's parameters are some the constructor accepts.
* `FeeCapAssumption` of `ClientViews`: the fee cap is below 100 %, as
  `MAX_BURN_FEE_BPS` (1000 of 10000) is. `payout.ts` takes an empty reward pool to mean
  an empty side, which a fee of 100 % would break; only the theorems about clients use it.
* `RingAssumption` and `OracleAssumption`: sizes are positive, a pool's life is shorter
  than the modulus of its stamps. `QuoteAssumption`: every mean that the ticks a pool
  trades at can have is a tick with a quote, as in Uniswap, where every tick of the
  range has a price. `OrientedQuoteAssumption` says the same of the composite, with the
  sign of a source that holds the pair in the other order.
* `IndexerAssumption` and `LogAssumption`: sizes are positive, chains are made of blocks
  that have logs, a log has the fields of `ReadModel`, `NULL` is no value.
* `KeyAssumption`: no two logs of one chain make the same row. A block, a transaction and
  an index name one log; the market takes one entry and pays one claim or refund of an
  account in a round, and locks and decides a round once.
* `LifeAssumption`: what the logs of a round may look like: started first, entered before
  it is locked or decided, not locked once decided, decided once, paid to whom entered.
  The market's own guards give both, and the refinement of `RoundEscrow` promises them; a
  chain with logs in another order could not have been made by the contract.
* `EpochAssumption` of `ReadApi`: the numbers of rounds are naturals, and the property
  looks at all of them.

`ScanAlwaysCovers` has a hypothesis of its own, and needs it: after `setInterval` to a
longer one, rounds made at the shorter one do fall out of the window (see Findings).
`WindowAlwaysWide`, without hypotheses, says that this is the only way.
`CollectableIsOffered` has one too: the route asks for the newest 200 decided entries of a
wallet without a payment (`apps/api/src/index.ts:281`), lost ones among them, and a wallet
that has more is not offered what lies behind them.

*Why `RewardOK`.* `TypeOK` alone is not inductive: that `Claim` leaves naturals
behind needs the quotient of `_entitlement` to be a natural number, hence a
positive divisor: a round decided for a side has a non-empty winning pool. The
strengthening says just that, and `SettledAt` establishes it through the
`AllLost` branch of `OutcomeOf`.

*Structure.* One lemma per action of `Next`, under it one step per conjunct the
action can disturb; fees and payouts are totals, which `TotalsProofs` shows to be
naturals; `ExecuteRound` needs `ScanFacts`: the scan window lies within the
rounds that exist. For `Solvent`, every action moves `balance` and
`totalLiabilities + burnAllocated` alike.

*The schedule and the decisions.* `MarketProofs` first proves what any step
may do to any round: `Evolves(e, r, s)` relates round *e* before and after, and
`StepSchedule` says that a step either leaves the schedule alone or opens exactly
one round whose lock is its predecessor's close. The theorems then argue about
this relation and never about sixteen actions again. A round not yet created is
blank (`BlankUntilCreated`).

*Why `SharedBoundaryAgrees` needs more.* By itself it is not inductive: one round
may have recorded a price the oracle no longer knows when the next round asks.
The strengthening says that an honest oracle, for an instant whose price was
recorded, still quotes that price or has lost it for good, so a later reading of
the same instant records the same price or none.

*Why the scan window is wide enough.* `SpacingInv` says, for every *k*, that rounds
which last *k* or more after their lock close *k* or more apart, and that the last
round is never created before its start. So the clock has passed the close of the
last round but two, and a round in tolerance is at most `bufferSeconds` older than
that, which at `interval` or more a round is within
3 + `bufferSeconds / interval` rounds of the last. The limits of `_checkTolerance`
make sure that `MAX_SCAN_ROUNDS` cuts nothing off.

*Money.* `LedgerInv` says of every round that its pools are the sums of its stakes,
that a settled round is what `SettledAt` makes of its own pools, prices and fee rate,
and that whoever has claimed had something to claim, so that a round which can still
change has no claimed stake. It is inductive with the types: `StepMoney` reduces every
transaction to rounds that advance, one stake that enters, or one account that
collects. `RowsCovered` adds that the sum over rounds of what a round still owes is
within `totalLiabilities`. A settlement replaces what was owed, the whole pool, by the
winners' floored shares, which with the fee are no more than the pool; a claim takes
exactly its own share off both sides. `RowsAddUp` exchanges rows and cells. The sums
are over finite sets of any size: `SubsetInduction` in `TotalsProofs` is the induction
over finite sets, stated with the set of good subsets in place of a predicate, which
the library's induction theorem would need.

*The escrow.* An action of the market maps to one step of `RoundEscrow`: an entry to
`Stake`, a claim of a batch to `Collect`, a sweep to a stutter, since what leaves
`burnAllocated` arrives at a burner, and whatever advances rounds to `Decide` of all
of them at once, `executeRound` with its total of fees included, or to a stutter
if it decides none. `LedgerInv` makes the escrow's pots and shares, computed from the
stakes, equal to the contract's accumulators.

*The ring.* A stored stamp has 32 bits, so the pool does not say when a slot was
written. `OracleInv` says that there is a function `at` from slots to full times such
that every written slot records the stamp and the accumulated tick of `at`, that times
increase from a slot to its follower, and that between the two, and from the newest
slot to now, the pool traded at one tick. The invariant is proved with the witness
updated by each write. As a pool is younger than the modulus, comparing stamps by
their age is comparing times (`OracleAssumption`); so the neighbours that the search finds
enclose the instant, interpolation between them is exact, and an answer is the quote at
the true mean. An answer does not depend on the live tick, because the instants it reads
are never after the newest observation.

*The feed.* `RangeInv` bounds the true accumulated tick between any two instants by the
least and the greatest tick of the pool, so that a true mean has a quote. Every step of
the adapter is then a step of `QuoteFeed` for all instants and windows at once: an answer
appears when an observation is written after its instant, it stays because it is a
function of what was accumulated, and it is lost with the oldest slot, which is never
older again.

*The composite.* `Lone == INSTANCE OracleProofs` takes over the lemmas
about a ring. They are stated of any ring and any true ticks, so they hold of the ring of
every source; which pool the instance puts in the place of the adapter's variables is of no
consequence. `SameMean` and its
neighbours say that both sides mean the same operators. `CompositeInv` is `OracleInv` of
every source. The median is taken by rank, so sorting is counting: in place *k* stands a
value that has fewer than *k* below it and at least *k* at or below it. `TicksAreMeans` says
that, when every source answers, the ticks compared are true means; `MedianIs` that the
median then has a quote and is no further from any of them than the spread. For the feed, an
instant is sealed when all sources have sealed it and lost when one has lost it: what a
later state answers was already answered when the last source sealed it.

*The indexer.* Three invariants follow one another. The first asks nothing of the
indexer but its statements: `RowsInv` says that the tables are either untouched tables of
another market, which no running process sees, or this market's, in which every row has
its raw log. It survives reorgs of any depth and every failure, because a batch writes a
log's rows with the log and a rollback deletes by height alone.

`Certified` says, as long as `blind` is not set, that the tables are `Blank`, `Tipped`
(those of the chain the stored hash ends, or, while `cut`, what a rollback left of them)
or `Untipped` (those of the canonical chain up to a rewound cursor, whose hash is not
known), and that a batch was read right above what is known. While `cut`, either the next
check finds the stored hash orphaned and rolls back again, which changes nothing, or the
rest of the tick goes on from the rewound cursor, below the stored tip. Wiped tables are
`Blank` whatever the cursor is; a batch that starts above the first block of empty tables
(`SkipsAhead`) is the one way in which the missing reset does harm. The step that matters is `CheckForReorg`: the hash at the tip commits to all
below it, so that an equal hash certifies the tables and a different one is rolled back
far enough. The proof found a gap in the model here: a reorg between the check and the
rollback, of blocks that the rollback keeps and that lie above the safe head of the tick,
was not counted as `blind`. `Unverified` now names the blocks that nothing checks any more.

`Straight` is about the chain that only grows. Rounds and users are not functions of the
log identities but are recomputed by the handlers from tables that may be ahead of the
log they apply, when a batch whose commit was lost is applied again. `RolledUp(t, c, G, R)`
says what the tables are when the logs at the places `G` of chain `c` have been read and
those at `R` are still to be read again: entries, claims and burns are those of `G`, users
are sums over them, and so are rounds, but for a status that `RoundLocked` may have set back
to `LOCKED` as long as the round's decision is in `R`. A log read once more leaves the rest alone
(`LifeAssumption` gives the order that makes it so), and at the end of the batch `R` is empty.
Rows are built log by log as recursive functions on places, over which the proof
goes by induction on naturals, which is `NatInduct`, stated with a set in place of a predicate.

*What a wallet is offered.* With `Straight` the tables are those of a prefix of the chain. An
entry of the whole chain into a round the prefix decided is in the prefix, since nobody
enters a decided round (`EnteredBefore`); a claim in the tables is one on the chain; so what
the index proposes (`Proposed`) and the chain still pays is what the property names.

*The burner's cap.* The code counts what a window has spent and forgets it when the
window is over; `SpendIsCapped` speaks of any stretch as long as a window. `CapInv` says
that what was spent since the window opened is within the counter and the cap, and that
what a stretch still sees of the time before is within the cap by itself.

*The keeper's lock.* A replica's tick runs with its token under the key or with its
name in `unlocked`. Every step that changes the key is by its holder (`Begin`
under `Locks`, `Released`), by its death (`Crash`), or by `Expire`, which puts a
holder that is inside a tick into `unlocked`. So no step of one replica touches the
key of another, for any number of replicas and disturbances.

*The sender's nonces.* `NeverSkipsANonce` speaks of the moment of submission, and is
not inductive. The strengthening says that the nonce a call holds and the
cached one are within reach: every nonce below them has been used, on the chain or
by a transaction the sender or another user has sent. `PendingNonceInReach` gives
it for a nonce read from the node, whose pending count is the end of an interval
that starts at the chain's count (`PrefixIsInterval`); it survives mining,
eviction and foreign transactions because none of them forgets that a nonce was
used.

*Left to TLC.*

* Liveness, all of it: `EveryRoundIsDecided`, `DueWorkIsDone`, `RoundsAreFinished`,
  `AllThatFitsIsSpent`, `CatchesUp`. TLAPS does not reason about fairness here.
* `OffersAreAccepted`: its conclusion is that a call is `ENABLED`.
* `RoutesAgree`: sums over the rows of one table against sums over another, through the
  community modules' folds, which take an operator as a parameter; and its paging is a
  bound of the instance (two pages).
* `NothingCollectableIsHidden` beyond 200 candidates of one wallet, where it is false.

## 4. Findings

| run | what the repository says | what the code does |
|---|---|---|
| `indexer_rounds_after_reorg` | `apps/indexer/src/handlers.ts:301`: "Removes everything at or above `fromBlock`, so a reorg can be re-indexed cleanly"; lines 312-314: rounds and users "are rebuilt by replaying the surviving events" | nothing is replayed but the logs of the new chain, and `RoundStarted` leaves the status of a round that exists alone: a round that was locked on the orphaned chain and not yet on the new one stays `LOCKED`, and fees, outcomes, observations and burns of orphaned logs stay as well |

Other places where the text and the code differ, which need no run to show:

* `docs/ACCOUNTING.md:27`: "Where either side attracted no stake the round resolves
  `NoContest`". PP:517 resolves `AllLost` when the *winning* side is the empty one
  and books the whole pool as a fee.
* `apps/keeper/src/tx.ts:13-15`: a transaction that does not confirm in time is
  replaced at the same nonce, not re-sent at a new one. When the replacement meets a
  nonce conflict (`tx.ts:213`) the pending count is read again and the same action is
  submitted there. The market refuses work already done; a second `buyAndBurn`
  spends again.
* PP:571: the scan window is the widest in which an unresolved round can sit. It is
  counted in rounds of today's interval: after the interval grows, rounds made at the
  shorter one fall out of it. `lockRound`, `settleRound` and `cancelRound` still
  reach them.
* PP:547: a broken or hostile oracle degrades a round to unpriced and eventually
  refundable. Cancelling asks `canQuote`, settling asks `getPriceAt`; an oracle for
  which they disagree leaves the round undecidable, by `emergencyCancelRound` too.
* `docs/KEEPER.md:26`: "Cancel any round the contract reports as stuck". One whose
  cancellation was skipped is marked in the state file (`keeper.ts:194`) and never
  sent again by that replica, though the contract reports it again.
* `packages/sdk/src/tokenomics.ts:76` and the comment at
  `PonsBuybackBurner.sol:148` give the remainder of a split to the first target; the
  code gives it to the second.
* `PredictionModal.tsx:75`: "Every reason the transaction would fail, checked before the
  wallet opens, so the user is never asked to sign something that cannot succeed". The
  form checks neither a pause, nor an existing entry, nor that the round was not cancelled
  since it opened; the panel does, but only when it opens the form, and the quick-stake
  row (`page.tsx:125`) opens it for an account that is already in. `OffersAreAccepted`
  says that these three are all.
* `PredictionModal.tsx:67` estimates with `params.burnFeeBps`, the fee in force, the round
  pays with the fee it pinned (PP:457). After `commitBurnFee` the figure shown for the
  round that takes entries is another than what is paid: `EstimatesFollowTheLiveFee`.
* `apps/indexer/src/index.ts:44`: "A configuration refusal (wrong market for this
  database, unreachable deployment file) cannot be fixed by restarting, so exit with
  EX_CONFIG", and `ecosystem.config.cjs:30`: "not because of a transient fault". Every
  exception of `start()` before its loop goes there, a database that does not answer for a
  moment included, and `stop_exit_codes` keeps the indexer down after it: hence the
  premise of `CatchesUp`.
* `apps/indexer/src/indexer.ts:321`: "The cursor moves in the same transaction as the rows
  it accounts for, so a crash can never leave the cursor ahead of the data". It does so in
  a batch. When a cursor ahead of the head makes the tables be wiped (`:205-207`), the
  cursor in memory goes back only after a second transaction; if that fails, or only the
  answer to the first is lost, the process goes on with the old cursor over empty tables,
  and once the chain is past it indexes from there: the gap below is never filled.
* `apps/indexer/src/indexer.ts:397`: a health answer of "not ready" is for data that is
  stale. Before the first tick head and, in a start that takes long, cursor are zero, the
  lag is zero and the answer is "ready".
* `RoundRail.tsx:95` derives an outcome of previous rounds that are not settled,
  which `tokenomics.ts:93` leaves to its caller.

`docs/ROUND_LIFECYCLE.md:18` says that consecutive rounds cannot disagree about
the instant they share. `SharedBoundaryAgrees` says when that is so: each round
reads the instant over its own pinned window and oracle, so they agree under
equal terms, and may differ across `commitOracle` or `setTwapWindow`.

## 5. Plan

Every component that keeps protocol state has its model. What remains, in order of
importance:

1. The keeper composed with the sender, so that `send()`'s outcomes are derived and
   not assumed, for one replica and one round.
2. The chain of `Indexer` composed with the market, so that `LifeAssumption` and
   `KeyAssumption` are theorems about the logs its actions emit.
3. The sums of `RoutesAgree` with `Totals` in place of the folds, which would put them
   within reach of a proof.

## 6. Not modelled, and why

* Deployment, configuration and operations scripts: one-shot I/O and address
  constants. The constructors' checks are in the contracts' modules.
* The keeper's health figures and RPC selection: reporting and transport. A read that
  fails over is a read that succeeds or fails, which the steps of keeper and sender
  already allow. `health.ts` reports a replica as ready while its ticks throw.
* `price.ts`, `compat.ts` and the ABIs of the SDK: formatting, fallbacks for an older
  market, and generated data.
* Rendering, wallet prompts, receipts and the staleness between polls of the web client; the API's routes that pass
  the chain's or the oracle's answer through, its candles and its trades feed: they
  keep no state and decide nothing.
* Token transfers, Uniswap's tick mathematics and its curve are external and enter
  only as prices and as whether a swap meets its floor.
