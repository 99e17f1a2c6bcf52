# A verification project for charli3perp

charli3perp is a demo venue for private perpetuals. A trader's limit order goes to a Hono API
(`perps-web/server`), is matched against a resting book kept in a JSON file, and every match is settled by a
*pipeline*: a Midnight CLI run that proves and binds the order on Midnight, a Charli3 oracle pull on Cardano, and a
settlement anchor on Cardano. Around it stand libraries (`book/`, `clearing/`, `vault/`, `circuits/`, `core/`), Compact
contracts, Aiken validators, a CLI, a React client and scripts.

This directory holds TLA+ models of these parts, the TLC configurations that check them, and theorems about them that
TLAPS checks. `PROJECT.json` maps every definition to the lines it models, and lists for each hazard of the code the
properties that would catch it. Paths below are relative to the repository's root.

## 1. Inventory

| Component | State | Operations | Interacts with |
|---|---|---|---|
| Resting book (`server/restingBook.ts`) | `.perps-resting-book.json` | match a taker, add, match one resting cross, snapshot, restore | API handlers, each read and write an `await` apart, no lock |
| Trade API (`server/index.ts`) | `tradePipelineInFlight`, handlers' locals | submit, rest-only, run-all, sweep, user-l1-complete | book, pipelines, index |
| Trade pipeline (`server/tradeOrchestrator.ts`) | promises, CLI children, `midnightWorkerRoundRobin` | run Midnight with retries, pull, anchor | CLI, Cardano node, index |
| Anchor gate (same file) | `settlementAnchorGate`, a promise chain | `runExclusiveSettlementAnchor` | pipelines of a parallel sweep |
| Trade index (`server/orderIndex.ts`) | `.perps-order-index.json` | append, update, list | pipelines, user-l1-complete, read-only routes |
| Midnight jobs (`server/midnightSetup.ts`) | job table of 30, children | start, poll, prune | admin routes, CLI |
| Midnight CLI (`charli3perp-local-cli`) | wallets and their files, private states, child processes | run-all, run-pipeline, the split and its slots, parallel-cli, fund, sync, deploy | Midnight node, indexer |
| Midnight contracts (`contract/src/*.compact`) | five small ledgers | constructors and circuits | CLI |
| Margin pool (`src/cardano/margin_pool_flow.ts`, `cardano/margin-pool`) | UTxOs at two scripts: deposits, and a pool with a total and a count | bootstrap, deposit, merge, lock, demo; merges, refunds and withdrawals by hand | pipelines (optional), routes, Cardano node |
| Order book and matcher (`book/`) | bid and ask lists, active commitments, counters | submit (awaits a proof check), match, cancel, expire, shutdown | event emitter |
| Matching events (`book/matching_events.ts`) | lists of handlers | on, off, clear, emit with an await per handler | matcher |
| Clearing (`clearing/`) | margin accounts, positions, insurance, batches | deposit, lock, release, liquidate, scan, fund, settle with retries, shut down | Cardano connector |
| Vault (`vault/`) | sealed states, notes, nullifiers, permissions | encrypt, query, update; spend, disclose | Midnight connector |
| Web client (`perps-web/src`) | a queue of submits answered 429, completions that wait for the ledger | submit, flush, complete | API, browser wallet |
| Bots (`perps-web/scripts`) | a counter, a plan | read the book, post | API |
| Order terminal (`scripts/`) | `.local-orderbook.json`, a draft, environment | post, clear, full run | CLI, Cardano |
| Pure code | none | commitments, witnesses, codecs, oracle reads, circuit helpers | all |

What is hard here, and therefore what the models are about:

* **One event loop, many handlers.** What runs between two `await`s is atomic; everything else interleaves. The book and
  index files are read, changed and written as a whole, without a lock, and `fs.writeFile` truncates before it writes.
* **Settlement on two ledgers cannot be undone,** while the book is rolled back by rewriting a snapshot.
* **Parallel sweeps** run a chunk of pipelines under `Promise.all`: they share the snapshot, the Cardano wallet, the
  trade index and possibly the Midnight wallets.
* **Time-outs and retries:** the CLI is retried and killed, but its children and its retries may outlive the request.
* **Processes over shared wallets and stores:** the CLI's programs save wallets to files and private states to a common
  directory; a call may be lost, included late, or refused for coins that are spent; a process may die between two calls.
* **A ledger of outputs.** The margin-pool flows and the browser build transactions from outputs they have read some
  awaits ago; the node refuses those whose inputs are gone, and may drop those it has accepted.
* **Clients that act on what they have read:** the tab's queue, the bot's plan, the seeder's price.
* **Collections that change while they are walked:** listeners during an emit, positions during a scan.
* **Crashes** lose the flag, the handlers and the job table, and keep whatever the files hold.

What makes each component correct: one pipeline at a time and a flag that is freed on every path; executions within
both limits; quantity neither lost nor created; an exact rollback; an uncrossed book after success; one anchor at a time
in the order of the calls; the anchor last; success only with both ledgers; wallets not shared; an index that may forget
but does not lie; a margin pool whose lovelace cover its total, and collateral that only its owner moves; contracts that hold the values of the run that deployed
them; jobs that are called completed only if all is sealed; price-time priority; margin accounts that add up; batches
with a true answer for each match; no lost update of a sealed state; orders the API takes once; anchors on the order
that was sealed.

## 2. Modules

| Module | Models | Shape |
|---|---|---|
| `RestingBook` | the rules of `restingBook.ts` | operators on one version of the book, a sequence in array order |
| `TradeApi` | submit, rest-only, run-all over the book file | one action per stretch between two awaits; `pc` says where each handler awaits |
| `FifoService` | what the anchor gate promises | abstract specification: calls, the one being served, those served |
| `AnchorGate` | `runExclusiveSettlementAnchor` | the promise chain: who calls, after which promise, how it ended |
| `TradePipeline` | `runFullPipelineTrade`, extends `AnchorGate` | per trade: mode, step, CLI, pull, worker, and what is on the two ledgers |
| `TradeIndex` | `orderIndex.ts`, its writers in the pipelines, user-l1-complete | each update is read / open / land |
| `MarginPool` | `margin_pool_flow.ts`, its routes, `margin_pool.ak`, `margin_vault.ak` | unspent outputs, mempool, and per flow the stage it has reached |
| `MidnightContracts` | the five contracts as compiled | a constructor and an operator per circuit: the states it proves |
| `MidnightRuns` | the programs of the CLI | processes with a program of instructions over wallets, a mempool, contracts and private states |
| `MidnightJobs` | `midnightSetup.ts`, `midnight-parallel-cli.ts`, `run-pipeline-split-all.ts`; extends `MidnightRuns` | parents, the table, a restart of the API |
| `OrderMatcher` | `order_book.ts`, `order_matcher.ts` | submits with their await, books as sequences of ids |
| `MatchingEvents` | `matching_events.ts` | emits that walk lists which others change |
| `MarginManager` | `margin_manager.ts` | accounts and locks |
| `LiquidationEngine` | `liquidation_engine.ts`, `funding_rate.ts`, `risk_oracle.ts` | positions, scans, insurance, funding epochs |
| `SettlementEngine` | `settlement_engine.ts`, `cardano_connector.ts` | batches match by match, beside initialize and shutdown, over a mempool that may drop what it accepted |
| `SealedVault` | `encrypted_state.ts` | one sealed state, clients with copies and queries |
| `BrowserQueue` | `App.tsx`, `userPaidCardano.ts` | one tab: queue, fetches, completions, the wallet's coins |
| `QuoteBots` | `mm-bot.ts`, `seed-liquidity.ts` | the book as the API shows it, with takers' pipelines, sweeps and restores; instance of `RestingBook` |
| `OrderTerminal` | `local_orderbook.ts`, `c3perp-order-terminal.ts`, `trade-adausd-network.ts`, `trade-pipeline-orchestrator.ts` | terminals over one file, and the runs they start |
| `MCTradeApi`, `MCStores`, `MCMidnight`, `MCLibraries`, `MCClients` | | payload sets, symmetry, and which components a run puts together |
| `ListsAndSums` | | lemmas about lists, sums and orders that the proofs share |
| `TradeApiProofs` | | theorems about `RestingBook` and `TradeApi` |
| `TradePipelineProofs` | | theorems about `AnchorGate` and `TradePipeline` |
| `StoresProofs` | | theorems about `TradeIndex` and `MarginPool` |
| `LibraryProofs` | | theorems about `MatchingEvents`, `MarginManager`, `LiquidationEngine`, `SettlementEngine`, `SealedVault` |
| `MatcherProofs` | | theorems about `OrderMatcher` |
| `ClientsProofs` | | theorems about `BrowserQueue`, `OrderTerminal` and `QuoteBots` |
| `MidnightProofs` | | theorems about `MidnightContracts`, `MidnightRuns`, `MidnightJobs` |

How they fit: `TradeApi` treats a pipeline as something that succeeds or fails; `TradePipeline` opens it and takes from
`TradeApi` that pipelines come one at a time or as one chunk of a batch (its action `Admit`; that is the theorem
`PipelinesExclude`); `TradeIndex` takes the same admission and keeps of a pipeline only the order of its updates and the
hashes it has obtained. What a CLI run of a pipeline does is opened in `MidnightRuns`. `MarginPool` stands beside them: a
pipeline with `CARDANO_COLLATERAL_VIA_MARGIN_POOL=1` runs `lockCollateralForTrade` before anything else and fails if it
fails; the other flows come from routes that no flag guards, so any number of flows may run at once. `MidnightJobs`
extends `MidnightRuns` with who starts the processes and who waits for them. `BrowserQueue`, `QuoteBots` and
`OrderTerminal` are the clients; each keeps of the API what it can tell. The libraries of `book/`, `clearing/` and
`vault/` do not call one another. `MCStores`, `MCLibraries` and `MCClients` put parts that do not interact into one
run: a behaviour is one of a single part, chosen at the start.

Correspondence worth knowing:

* A handler's `pc` in `TradeApi` is `"snap"`, `"match"`, `"stamp"`, `"add"`, `"sweep"`, `"cross"`, `"pull"`, `"pipe"`,
  `"join"` before the code of that name runs, and `"open"`, `"land"` inside `writeStore`. A reply is final. `Goto` is the
  only way to move on; when it replies for a handler that owns the flag it runs the `finally` block.
* A write is two steps: `OpenFile` (the file is truncated; a read finds no JSON and `readStore` returns an empty store)
  and `FileWritten`. If two writes overlap, the later bytes may land over the earlier with a tail left: the file is
  `"garbled"` and reads as empty, too. In a run without overlap `Land` has one outcome.
* An order's id stands for its UUID and for the request that brought it. `settled[r]` is what pipelines that reported
  success have executed of request `r`. It, `reconcile` and `crashes` are history variables.
* `Grain` says how many units of size make the 1e-8 that `sizeStr` can write. With `Grain = 1` sizes have at most 8
  decimals and `SizeStr` changes nothing; with a coarser grain a remainder is rounded, possibly to `"0"`.
* `chain[k]` of `AnchorGate` is the k-th call of `runExclusiveSettlementAnchor`; `after` is the promise it was chained to;
  0 is `Promise.resolved()` at start.
* In `TradePipeline`, `bound` and `anchored` count transactions on the ledgers: a CLI run may bind and then fail, be
  retried and bind again, or time out and leave an orphan that binds; an anchor submit may be rejected by the node and
  be on the ledger all the same.
* In `MarginPool` an output is named by the call and the step that made it, which stands for its transaction hash. The
  flows are data: `Stages` lists, for each, the code between two awaits in order, and each stage has an action. A
  transaction is refused if the validators say so, if an input is spent or about to be, or for the wallet's part, which
  is a free choice and noted in `refused`. `Validated` has both validators: the vault asks for its owner among the
  required signers (`margin_vault.ak:14-15`), and the pool reads the datum of its input as a `PoolDatum`, but that of the
  new output as an `Option` of one (`margin_pool.ak:60`, `:81`). An output therefore has a `form`, `"bare"` or
  `"wrapped"`, and a transaction says whether it is `signed`. The flows of `Server` write bare datums and list no signer;
  those of `ByHand` (`handmerge`, `withdraw`, `refund`) are any transaction of the owner and admin, of either form.
* A pipeline with `C3PERP_CHARLI3_PULL_TX_HASH` has mode `"reused"` in `TradePipeline`: like a pipeline of a batch it skips the
  pull (`tradeOrchestrator.ts:543`, `:558-572`), and like all but `"userpays"` it goes on to the anchor (`:643`).
* In `MidnightRuns` a `main()` is a sequence of instructions (`RunAll`, `RunPipeline`, `SplitSlot`, `FundDerived`, ...).
  A wallet's state is the number of its transactions that have been included; a transaction built on an older one is
  refused. The slots of the split, and the children of parallel-cli, have store names that end in the index of their
  wallet (`Suffixed`); other programs use the default ones. `scoped` leaves open whether the private-state provider keeps two deployments apart. Hashes are injective: a
  `Digest` tells what was hashed and of whose inputs. `over` and `rivals` are history.
* In `MidnightJobs` a job is `whole` if its parent has been able to start every child. If not, the child's `"error"` event
  rejects the `Promise.all` (`midnight-parallel-cli.ts:44`, `:80`) and the parent ends while the others go on.
* In `SettlementEngine` a match is `"confirmed"` when the node has accepted its transaction, as in the code
  (`settlement_engine.ts:95`); the transaction is then in `mempool`, and `Included` or `Dropped` later.
* In `QuoteBots` prices are multiples of 1e-8; `PriceStr` is `toFixed(6)` from `One` upwards, where it rounds to multiples of
  `Coarse`. A taker's remainder rests before the sweep takes its snapshot (`index.ts:847`, `:720`), and `PipelineFails` restores
  the snapshot of the pipeline that fails: the book before the taker, or the book before the sweep.
* The promises that several `submitOrder` calls await in `OrderMatcher` resume in the order of the calls.
* In `MarginManager`, `LockSum` counts the locks of a trader in units, as elements of a set, so that it can be reasoned
  about; `banked`, `relocked` and `losses` are history.
* In `BrowserQueue` a fetch is `"running"` when the API has taken the order; `taken` is the API's view, in order.
* An operator whose comment starts with "Defective" is a plausible mistake in the definition that follows it. No
  specification uses it; replacing the definition by it must break the property that `PROJECT.json` names.

## 3. Runs

All passing runs end with every state explored. Deadlock checking is off everywhere, because a finite number of
requests, trades, jobs or calls is all answered in the end and the system then rightly stops.

| Run | Instance | Shows |
|---|---|---|
| `TradeSeq` | 4 requests, submit and run-all, several prices and sizes, sequential sweep, 1 crash | `TypeOK`, `FlagIsALock`, `NeverOverfilled`, `AllOrNothing`, `UntouchedIsFifo` |
| `TradePar` | 5 submits, one price, parallel sweep, chunks of 2 | `AllOrNothing`, `FailureRestoresBook`, `SuccessUncrosses` |
| `TradeRest` | 3 requests, submit and rest-only, 2 prices, sizes with more than 8 decimals, parallel sweep | `FillsWithinLimits` under overlapping handlers, torn files and stale restores |
| `TradeLive` | 4 submits, parallel sweep, fair | `EveryRequestAnswered` |
| `Pipelines` | 2 trades, one after the other or in a chunk, of any of the five modes; `run-pipeline`, 2 attempts, 2 submits, time limit, fair | `WalletsApart`, `SettledOnBothLedgers`, `AnchoredLast`, `FirstComeFirstServed`, `PipelinesEnd` |
| `Stores` | the index with 2 trades of all four kinds and 2 completions; or the pool with 3 calls of any of the eight flows | `IndexIsTrue`; `PoolIsBacked`, `AccountsAreTrue`, `CustodyHolds` |
| `Midnight` | 2 processes of the CLI over 3 wallets and 2 environments, on one wallet, alone, or as workers of jobs; a table of 1 job, 1 restart; fair | `RefusedTakesAnOverlap`, `OnChainIsAPrefix`, `OnlyIntrudersMislead`, `TableTellsTheTruth`, `EverythingEnds` |
| `Libraries` | one library at a time: 3 submits of 4 commitments, 2 rounds; 2 handlers on 1 emit; 2 positions of 1 trader; 2 positions of 1 scan and 1 liquidation; 2 batches of 2 with a shutdown; 2 clients of a sealed state | ten properties, below |
| `Clients` | one client at a time: 3 orders of a tab, 2 of them user-paid; bot and seeder beside 2 users, prices that round and that do not, 1 fault; 2 terminals with 3 posts and 1 lost or torn write | `TakenOnce`, `QueueIsServed`, `PaymentsHold`; `QuotesServe`; `BookSurvives`, `AnchoredIsSealed` |

`Libraries` checks, of the matcher, `PriceTimePriority`, `MatchesAreSound` and `CommitmentsAreKept`; of the emitter,
`ServedOnce`; of margin accounts, `AccountsHold`; of liquidations, scans and funding, `ScansAreFair` and `FundsAddUp`; of
batches, `AnswersAreTrue` and `StopIsClean`; of sealed states, `NoUpdateLost`. A property of that kind is a conjunction
of named parts, each with a comment of its own at its place in the module; where a module is composed of several parts,
its type invariant is one of the conjuncts.

Why these bounds are enough to be interesting. A sweep with two crosses after a partial fill needs three makers and a
taker, and a book with history needs one more: five submits (`TradePar`). Two prices give better, equal and worse
makers; two sizes give whole and partial fills on both sides; four requests let a third order meet what the first two
left while a fourth, or a run-all, meets the flag. Chunks of two out of three crosses give a second chunk after a first
that settled. Two rest-only calls and a submit are enough for a stale write over a stale write. Two writers suffice for
a lost update. Two pipelines give a chunk whose anchors wait for each other, fail or are retried, and a pipeline that
starts while something of another is left over; two attempts and two submits give one retry. Three flows give a lock
beside a merge by hand of another's deposit on one pool, two bootstraps and a merge that finds two pools, or a demo, a
withdrawal and a refund in any order. Two processes give one that spends,
replaces a private state or fails while the other is between any two of its transactions, a worker that fails while the
other goes on, and a job that pushes another out of a table of one. Three submits give two of one commitment across
their awaits and a third after a cancel. Two handlers and a clear give removals before, at and after the place an emit
has reached. A match between two batches and one after a shutdown need two batches of two. Two clients, and a third
update on top, give a stale copy written over a newer one. Three orders of a tab give a queue of two while a third is
posted directly. A bot with a cap below the size of what rests, a long and a short give alternating sides, partial
takes and remainders that a sweep takes; two users give a race with the bot and one with the seeder; with `One = 6` and
`Coarse = 3` the prices 4 and 5 are exact, 6 stays, and 7 is moved. Two terminals give overwritten files.

Some properties say when they claim nothing, because the code then promises nothing:

* `AllOrNothing` speaks of histories without a crash: a crash loses the rollback. `NeverOverfilled` holds in spite of it.
* `AllOrNothing`, `FailureRestoresBook` and `SuccessUncrosses` are checked without rest-only requests, which overwrite
  the book at any time (`TradeRestLost`); `FillsWithinLimits` is checked with them.
* `WalletsApart` names what the code lets go on after a reply (`LeftOversAreKnown`): children of a run that hit its time
  limit, and the one of an overlapped pair whose other one failed. The next pipeline may share a wallet with these, and the
  pipelines of a chunk of the split script share theirs. Nothing else shares one. The run has `run-pipeline`; the theorem
  has both.
* `IndexTellsAll` speaks of pipelines alone at the index: no chunks, no accepted completion. `NeverLies` holds with both.
* `CustodyHolds`: "Singleton pool UTxO" (`margin_types.ak:23`) is kept by a check in the server alone, and two bootstraps
  that overlap, or of which the first is still in the mempool, leave two pools (`SecondPoolTakesARace`). Collateral leaves
  the vault by its owner's own transaction only (`DepositsLeaveByHand`). A pool takes one merge, built by hand with a
  wrapped datum, which nobody can spend after that (`PoolsTakeOneMerge`): `WithdrawClose` never gets through.
* `UntouchedIsFifo` speaks of makers nothing has been filled of.
* `RefusedTakesAnOverlap` and `OnlyIntrudersMislead` say that a program of the CLI that runs alone is not refused and
  finds its own private state; two on one wallet, or on one store name, may get in each other's way.
* `EverythingEnds` claims an end only for programs that do not wait for ever for their wallet: to be synchronised
  (`wait_wallet_sync.ts:109-110` has no limit by default; `dust.ts:19`, `:23`), to have DUST (`dust.ts:65`,
  `fund-local-undeployed.ts:113`) or coins (`midnight-fund-derived-wallets.ts:307`).
* `TableTellsTheTruth` says that a job which ended leaves nobody at work only of jobs that are `whole`, and not of the
  split. A parallel-cli parent ends at the error event of a child (`midnight-parallel-cli.ts:44`), the split at the first
  slot that fails (`run-pipeline-split-all.ts:51`), and the other workers go on.
* `AnswersAreTrue`: a match that is called confirmed was accepted by the node, and no more; one that failed at its submit may
  have been accepted all the same. Of one that is open, or was thrown before, the node has nothing.
* `DoubleBookingTakesARace`: two submits of one commitment that overlap at the await (`order_matcher.ts:89`) are both
  booked; and cancelling one of them frees the commitment while the other rests.
* `ServedUnlessShifted` and `ScanSeesWhatStayed`: a removal in front of the place an emit or a scan has reached makes it
  skip the next handler or position.
* `LockedIsReleasable`: a position locked a second time leaves margin locked that nothing releases (`margin_manager.ts:164`).
* `OneLateConfirmation`: a match that was under way at the shutdown may still be confirmed.
* `NoUpdateLost` holds as long as nobody calls `encryptState` twice for one state, which starts its version anew.
* `RefusedTakesAnotherTrade`: two user-paid completions of one tab may run at once and compete for the wallet's coins.
* `SelfTradeTakesTrouble`: the bot may trade with its own remainder if the book changed after it had read it; after a sweep
  that failed, whose snapshot leaves the remainder crossed with its maker; and at a price that `priceStr` moved.
* `SeedRefusalTakesTrouble`: a rung is refused if a best changed after it was read, or if rounding took away the distance
  `SEED_REST_EPS` (from 1 upwards `toFixed(6)` does, `seed-liquidity.ts:46`).
* `BookDrains` makes no claim while an order rests at a price that `priceStr` moves: the bot may not reach it.
* `FileTellsTheBook` speaks of terminals that are not `behind`: a write that fails (`local_orderbook.ts:129` ignores it) is
  made good by the next one that goes through, and is lost if the terminal quits before; a file that was torn counts as
  empty (`:118`), so that all orders in it are lost; and two terminals overwrite each other's file.
* `QueueIsServed`: its part `LeavesAnswered` excepts orders that were queued beside a flush, which `QueueLost` shows lost.

Runs that end in a violation, each a place where a comment says one thing and the code does another:

| Run | Comment | What happens |
|---|---|---|
| `TradeRestLost` | `index.ts:878` no wait on the flag, for use "when a full pipeline may be running" | submit (line 857) and rest-only (line 917) each read the book, add an order and write the whole file; the writes overlap, and the order that rest-only acknowledged is gone, without any pipeline |
| `QueueLost` | `App.tsx:102` "FIFO client queue when API returns 429" | an order refused while a flush is in flight is queued, and the flush then sets the queue to what it was before (line 439) |
| `LockStuck` | `margin_pool_flow.ts:340` "Deposit → confirm → merge the new margin UTxO into the pool"; `margin_types.ak:19` "owner must co-sign" | `mergeMarginUtxoIntoPool` adds no signer and writes a bare datum: neither validator accepts its merge, every lock, merge and demo fails, and the deposit stays at the vault |

In `TradeRestLost` the trace is the shortest one. Longer ones lose the order to a pipeline that fails and restores the
snapshot it took before (line 671), or to a sweep that does.

Others were met while modelling and have no run of their own:

* `index.ts:695` "distinct `midnightDeriveKeyIndex`": with the default split script all pipelines of a chunk use the
  wallets from `PERPS_MIDNIGHT_SPLIT_BASE` (`tradeOrchestrator.ts:450`). `WorkersApart` names them as an exception.
* `index.ts:59` "One pipeline at a time": when an overlapped pull fails, `Promise.all` (`tradeOrchestrator.ts:585`) rejects,
  the flag is freed, and the Midnight run goes on beside that of the next pipeline.
* `index.ts:440` "Confirmed fills": two pipelines of a chunk that update the index at once (`orderIndex.ts:65`) lose one
  of the updates; a confirmed trade may be missing, or listed as it was earlier.
* `index.ts:392` "record hashes and confirm the trade": the status is tested at line 393-412, before the wait for the
  ledger. With `PERPS_REQUIRE_CARDANO_TX_VISIBILITY=1`, of two completions the later one, that did not see the
  transactions, sets a confirmed trade back to pending. A completion that sets pending is never accepted again (line 424).
* `restingBook.ts:162` promises "FIFO on tie"; a resting order that is partially filled by a resting cross is pushed to
  the end of the array (line 360) and so goes behind younger orders of its price. `UntouchedIsFifo` is what is left.
* `index.ts:693` sweeps "until the book is uncrossed"; line 711 only matches ADA-USD, while orders of any pair rest.
* It also says so of a book in which a remainder below 5e-9 rests: `sizeStr` (`restingBook.ts:118`) writes it as `"0"`,
  it is the best of its side, and every match comes out as `no_match`. `SuccessUncrosses` is checked at `Grain = 1`,
  where sizes have at most 8 decimals; with `Grain = 10` and a size of 11 it fails.
* A failed sweep answers 500 although the new order rests and its first match has settled (`index.ts:851`).
* Collateral locked in the margin pool before a pipeline is not released when the pipeline fails (`tradeOrchestrator.ts:417`).
* `margin_pool.ak:17` says "Exactly one output paying to `pool_hash`"; the code takes the first of any number.
* `core/types.ts:59` says of `CONFIRMED` "Transaction has been confirmed on-chain"; `settlement_engine.ts:95` sets it when the
  node has accepted the transaction. `requiredConfirmations` (line 14) and `waitForConfirmation`
  (`cardano_connector.ts:168`) are used by nobody, and a mempool may drop what it accepted.
* A batch that "asks to reconcile" (`index.ts:771-774`) has put orders back on the book that are settled on chain.
* `midnight-parallel-cli.ts` reads its offset with `|| 1`, so that the offset 0 cannot be asked for.
* `pruneJobs` (`midnightSetup.ts:45`) drops the oldest jobs, running ones too.
* A direct submit of the tab overtakes its queue (`App.tsx:500`).
* The terminal's `full` passes on its draft's commitment (`c3perp-order-terminal.ts:5-6`); in the default mode
  `trade-adausd-network.ts:161-162` replaces it by that of `C3PERP_BID_ORDER_JSON`. `AnchoredIsSealed` holds all the same:
  the anchor follows what was sealed.

## 4. Fairness

`TradeApi!Fairness` is weak fairness of each handler, `TradePipeline!Fairness` of each step the server decides or waits
for with a limit of its own. The code justifies this: file operations complete, a CLI run is killed after
`PERPS_MIDNIGHT_CLI_MAX_MS` (60 minutes by default; 0 switches the limit off, and with `TimeLimit = FALSE` no liveness is
claimed), retries are counted, network calls and polls end or have deadlines. The CLI itself is not fair in
`TradePipeline`: `Bind`, `CliSucceeds`, `CliFails` and `OrphanEnds` may never happen.

`MidnightRuns!RunsFairness` is of what has a time limit in the code (`Timed`): balancing a call (`providers.ts:115-124`) and
watching for it (`:164-168`). Nothing is assumed of the synchronisation of wallets, of DUST, of coins, or of the network. `MidnightJobs!JobsFairness` lets a parent notice that
it may end. `SettlementEngine!SettlementFairness` is of each batch and of calls that await the node, `TabFairness` of the
tab's timer, its fetches and the API's answers (the pipelines have the limit above), `BotsFairness` of the bot's loop, of
the seeder's posts, of sweeps and of the end of pipelines; in `MCClients` it binds the behaviours of the bots only, since in the others their steps are
never taken and to ask for them would leave no fair behaviour. No fairness is assumed of users, of jobs that are started, or of crashes, deaths and restarts.

## 5. Proofs

Every safety invariant that a run checks is a theorem, and so are the refinement of `FifoService` and the action properties
`FailureRestoresBook`, `SuccessUncrosses` and `CommitmentsAreKept`: TLAPS proves them for every value of the constants that
satisfies the named assumptions. The proofs lie beside the models, one module per group of models. Each has the same
shape: an invariant that is inductive, one lemma per action or per kind of action, and the property from the invariant.
What follows says, for each, why the property alone is not inductive and what had to be added.

**`ListsAndSums`** has what the others share. Removing, inserting and appending in a list (`RemoveAtIs`, `RemoveFirstIs`,
`InsertAtIs`), how often an element occurs behind a place (`OftenRemove`, `OftenStep`), sums over finite sets (`SumWithout`,
`SumMore`, `SumIs`) and minimal elements of a strict order (`MinimalOf`). The prover has no induction over data; facts that
need one go by the least counterexample, a set of numbers that is not empty having a least one (`LeastOf`, `UpTo`). For
`SumFunction` a function is shown to exist that takes out one element after the other (`SumExists`), and the order shown
not to matter (`SumAnyOrder`); sums over lists follow appends, removals and changes (`SumLast`, `SumRemoved`, `SumChanged`).

**`TradeApiProofs`**, of `RestingBook` and `TradeApi`. Five layers, each on those before:

* `IInv` is `TypeOK` and `HandlersFit`: what each place of a handler says of its request and its locals (only a submit or
  rest-only awaits the book; a write is followed by one of seven places; chunks lie within the executions). Types alone
  are not inductive: that the rest of a taker is not negative depends on the place. `Inductive`, `TypeCorrect`.
* `OneHolder`: whose code is between taking and freeing the flag, and that the flag says so. `FlagLocks`.
* `TrueTerms`: every order anywhere - in the book, a snapshot, a store being written - carries the side, pair and price of
  its request, and every execution recorded respects both. Torn files and stale restores put back only what was true
  once, so that it holds for all traffic. `ExecutionsWithinLimits`.
* `VenueInv`: what each order has in the venue. A book changes in two writes while its executions are settled later or not
  at all, so that the book on its own says nothing. The invariant speaks of each thing that may become the next book (the
  file, the store being written, the snapshot), paired with what will have been settled once it is: what is settled now,
  and of the executions that run or wait for their pipeline those that it lacks (`Pending`, `About`, `Due`). In such a
  book each order rests at most once and with what is missing to its size (`Good`, `Within`), answered orders are whole or
  untouched (`AllCorrect`), an untouched order stands in front of younger ones (`Fifo`). A match or a sweep turns one such
  pair into another by a `Cut`: places are kept, lost or moved behind with a smaller size, and what an order loses in the
  book it gains in what is executed. `CutSound` is the argument; `Stage` says which pairs are sound at which place.
  With parallel sweeps the pipelines of a chunk end in any order, and one that fails writes the snapshot over what its
  siblings still settle. Such a batch is divided, its handler logs that the book must be reconciled, and nothing can be
  promised from then on. `Trusted` is the condition under which `VenueInv` speaks: nothing to reconcile, and with parallel
  sweeps no crash and every batch `Undivided` (nothing of it has failed, or nothing of it was settled). `TrustedBefore`
  shows that it holds before a step if it holds after it, so that `VenueInv` may assume it at each step.
  `VenueInductive` and `SubmitsAllOrNothing` hold under `Plain`, in both sweep modes: no rest-only calls, and sizes of at
  most 8 decimals (`Grain = 1`). Both conditions are the code's: with a coarser grain `sizeStr` loses quantity, and
  rest-only writes over a restore (the run `TradeRestLost`). `OrdersNeverOverfilled` and `UntouchedStaysFifo` need
  `Sequential`, that is, sweeps one cross at a time as well: they say nothing of reconciling, and a divided chunk breaks both.
* `Duties`: where a handler is, what it has still to do to the book before it answers. In both sweep modes and without
  rest-only calls: a pipeline on its own has put the snapshot back once it has failed; those of a chunk do so in any order,
  torn by each other, but their handler writes it once more; `Clean` says that no pair of bests crosses once a sweep has
  stopped.
  `AnswerIs` turns that into the action properties `FailuresRestore` and `SuccessesUncross`. The second needs that a
  sweep that finds no pair of *bests* leaves no pair at all that crosses: `BestIs` (price, then age, then place is a
  strict order, so each side has a best) and `CleanIsUncrossed`; and that nothing rests with size 0, for which `Grain = 1`
  is needed and `TrueTerms` is used.

**`TradePipelineProofs`**, of `AnchorGate` and `TradePipeline`. `ChainInv`: each call is chained to the call before it, the
gate is the last, and a call that has started has only ended calls before it. It gives `SubmitsExclude` and the refinement
`GateIsFifo`: each step of the chain is a step of `FifoService` or stutters. A step of a pipeline is a step of the gate or
leaves it alone (`StepsOfGate`), so both carry over (`AnchorsExclude`, `AnchorsInOrder`). `PInv` says what each step of a
trade implies about its CLI run, its pull and its calls in the chain: `PipelineTypeCorrect`, `CardanoComesLast`,
`SuccessIsSettled`. `ApartInv` adds that all that runs for a pipeline is waited for by it, and that pipelines which run
beside each other are of one chunk, with workers of their own or all of them with the split script. It gives
`CardanoWalletExclusive` and `WalletsStayApart`, both in every configuration. What the code does share is in the
properties by name (section 3): the pull or the CLI run that a pipeline leaves over, and the split script of a chunk.

**`StoresProofs`**, of `TradeIndex` and `MarginPool`.

* `IndexInv`: every store anywhere - in the file, read by a writer, about to be written - is a `TrueStore`: its entries show
  only what their pipelines have obtained. A stale store that is put back was true, so the index never lies
  (`IndexNeverLies`), whatever the interleaving. `CalmInv` adds, for histories in which updates come one at a time, that
  the store under way `Tells` all that its pipeline has done: `IndexTruthful`.
* `PoolInv` says of every pool output anywhere - on the ledger, made by a transaction of the mempool, or read by a flow
  some time ago - that its lovelace cover its total: `PoolTypeCorrect`, `PoolAlwaysBacked`.
  What is on the ledger alone is not inductive: a stale read is merged later.
* `BooksInv` says what a transaction of each stage takes and makes, that each call makes one per stage, and that the
  transactions of the mempool do not conflict. With sums over sets of outputs: `AccountsStayTrue`.
* `RaceInv`: calls that run beside each other know of each other (`Mutual`), and a bootstrap in the mempool was there to be
  noticed: `SecondPoolIsARace`. `CustodyInv` adds what the two validators let leave the vault: whatever the mempool holds was
  accepted by them, so that only a merge or a refund by hand can have taken a deposit, and no flow of the server gets past
  its merge: `ServerMergesFail`, `CustodyAlwaysHolds`.

**`LibraryProofs`**, of `MatchingEvents`, `MarginManager`, `LiquidationEngine`, `SettlementEngine` and `SealedVault`.

* `EmitterInv`: how often an emit has called a handler, and how often the list still holds it behind the place that is
  reached, are together at most its subscriptions, and at least one if no removal has shifted the list:
  `HandlersServedOnce`. `ScanInv` says the same of scans over positions (`EveryScanIsFair`); `FundInv` and `HistoryInv`
  keep the fund and the funding history equal to sums over what was liquidated and who was registered (`MoneyAddsUp`).
* `MarginInv`: that `total = available + locked` survives a release needs that `Math.max(0, locked - lock)` never cuts
  anything off, that is, that the *sum* of a trader's locks is covered by what is locked. The sum is the cardinality of a
  set with one element per unit (`Units`). `AccountsAddUp`, `LocksReleasable`, `OnlyLossesOverdraw`, `AccountsSound`.
* `SettlementInv` adds to the properties what calls of initialize and shutdown that have yet to resume will leave
  (`EndsConnected`: the last of them decides), that a batch with a late confirmation is between two matches
  (`LateIsBetween`), that a batch has an answer for each match when it ends and not before (`AnswersInTime`), and that the
  mempool and the ledger hold only what was accepted (`NodeIsHonest`). `BatchesAnswer`, `RunningIsConnected`, `AtMostOneLate`.
* `VaultInv`: every copy and every answer on its way is of a version that is not newer than the store's, and of the same
  version only if it has the same content. `VersionsNameContents`, `UpdatesKept`.

**`MatcherProofs`**, of `OrderMatcher`. `MatcherInv` holds the open orders, both lists of each pair, the matches, the counters,
the calls that wait, the commitments and the eras together: each open order is in the one list that is its own, once, none
behind a worse one (`ListOK`); what an order has left and what was matched of it make its size (`TradesOK`); two open
orders of one commitment have overlapped at the await (`RaceOK`). Matching is a loop inside one action; `LoopOK` is its
invariant, between any two rounds, and `RoundsFrom` takes it through by `UpTo`. `PriorityIsKept`, `MatchesSound`, and the
action property `CommitmentsKept`.

**`ClientsProofs`**, of `BrowserQueue`, `OrderTerminal` and `QuoteBots`. `TabInv`: no order is in the queue
twice, what is in the queue waits but for the head of a flush, the API has taken no order that waits, and the stage of a completion tells which of its
transactions are spent, seen and on chain. `OrdersTakenOnce`, `QueueLeftAnswered` (an action property), `ReportsOnChain`,
`RefusalsExplained`, `PaymentsInOrder`. `TerminalInv`: each terminal remembers all that is in its book; one that is open and
not `behind` has the book that a restart would read; between Midnight and Cardano a run carries the commitment that was
sealed. `BooksSurvive`, `AnchorsAreSealed`. `QuoteInv` has a part that holds in all histories and a part, `Settled`, that
holds until something upsets the bot (a taker or a failed pipeline between its read and its post, a sweep that fails, a
price that `priceStr` moves). Until then the book is `Calm` between submits: no order of the bot rests and no two orders cross. While a sweep
is under way it is `Swept`: one order of the bot may rest, the remainder that the sweep is about to take. What the book `Offers` within
the limit of the bot's order, summed over all that rests, covers what it is about to post and what is left of what it has
posted. A cross takes as much from the sum as from the order (`OffersConsume`, `CrossIs`), whatever else comes to rest only
adds to it (`OffersAppend`), and as long as something is offered somebody else is found (`MatchesOffered`, `BestStands`); so
the order is taken whole and the sweep ends calm (`SweptIsCalm`). `SelfTradesTakeTrouble`, and the action property
`RefusedRungsExplained`, which needs that `Best` is the best (`BestIsBest`) and that a rung is put strictly inside it
(`AdjustedIs`).

**`MidnightProofs`**, of `MidnightContracts`, `MidnightRuns` and `MidnightJobs`. The invariant says of each process, separately:
`PlaceOK`, where it is in its program and which of its transactions are out; `OverlapOK`, that the coins it holds for its own
can only have been taken by processes that were not over when it began; `ContractsOK`, that its contracts and private states
are of its own inputs unless another writes the same store. A step moves one process; for all others `Beside` gives what they
need to know of it. `JobsInv` says of a job that it is completed only if it is `whole` (each of its children was started) and its
members are done, that a `whole` job has ended only if nobody is at work for it, and that a job which is no longer listed has `MaxJobs` newer ones above it; a table that was within its limit loses
at most its oldest job when one is added, which keeps that true. `RefusalsTakeAnOverlap`, `LedgerHoldsAPrefix`,
`OthersMisleadThroughTheStore`, `JobTableIsTrue`. `Programs` is what the proof knows of programs: a wallet is opened before
it is used, and the circuits of a contract come in order after its deployment.

*Assumptions.* They are those named in the modules, as weak as what the code validates: `PayloadsAssumption` and
`RequestsAssumption` (a known side; numbers that are not negative, or positive where the handler asks for it),
`KindsAssumption`, `ModesAssumption` and the like (the kinds that exist), `MinSizeAssumption`, `ContractsAssumption` (finitely
many, with a positive size), `MarksAssumption`, `FundingAssumption`, `DraftsAssumption` (a draft is not the mark of a torn
file), `JobsAssumption`, `KeysAssumption`, `UserOrdersAssumption`, `RestingCapAssumption`,
`SeedAssumption`, `PriceAssumption` (the steps of a price), `LadderAssumption` (the lowest rung is above 0), and bounds that
are numbers. Each is evaluated by the runs. Hypotheses beyond them are stated in the theorem and named above: `Plain`,
`Sequential`, `"rest" \notin Kinds`, `Grain = 1`.

*Only model-checked.* Liveness, since fairness and ENABLED are beyond the prover: `EveryRequestAnswered`, `PipelinesEnd`,
`EverythingEnds`, and of `StopIsClean` and `QueueIsServed` what must eventually happen (what they forbid is
`RunningIsConnected` and `AtMostOneLate`, and `QueueLeftAnswered`), and of `QuotesServe` that the bot takes all that rests
(what the scripts must not do is `SelfTradesTakeTrouble` and `RefusedRungsExplained`). `AllOrNothing` after a crash or a request
to reconcile is not claimed by any run or theorem.

## 6. What the models leave out

* Prices are integers and sizes integer multiples of 1e-8/`Grain`; margin, leverage, nonces and commitments take no part
  in control. All runs of `TradeApi` but `TradeRest` have `Grain = 1` (orders with at most 8 decimals).
* A file write that fails (full disk), and a body that changes while a request is processed.
* In `TradeApi` a user-pays pipeline counts as a success when Midnight is done, as the handler treats it; that its Cardano
  part may never come is visible in `TradePipeline` (`userpays`), `TradeIndex` and `BrowserQueue`.
* `TradePipeline` and `TradeIndex` have no crash of the API; after one, whatever runs is an orphan and the index stays
  as it is.
* The margin-pool lock is not a step of `TradePipeline`; `MarginPool` has it as a flow. The worker settings that come with
  it are not modelled.
* In `MarginPool`: fees, the minimum of lovelace in an output, market ids, nonces and order commitments; an indexer that
  shows the ledger late; a confirmed block that is rolled back; a withdrawal in a transaction with two pool outputs;
  transactions of other wallets.
* In `MidnightRuns`: amounts and fees of DUST and NIGHT, the proof server, reorganisations of the chain, logs.
* In the libraries: what makes a proof valid, depth views and statistics over time, signed oracle prices, disputes, the
  tracker of funding payments. The shielded pool and selective disclosure (`vault/`) change one map in one synchronous
  step each, so that no order of steps can make a difference.
* In `BrowserQueue`: polls of tracked orders, and a reload of the tab, which forgets the queue. In `QuoteBots`: the oracle
  quotes of the bot (off by default), its fallback and dry run. In `OrderTerminal`: dashboards, prompts and parsing.
* `clearRestingBook` and `clearTradeIndex`, which a maintenance script calls.
* A call of user-l1-complete may confirm or not: with `PERPS_REQUIRE_CARDANO_TX_VISIBILITY=1` it depends on the ledger;
  without it, valid hashes and a bind hash always confirm.
* Read-only views, encodings, hashing, explorer links and HTTP reads. Components with no module are listed in
  `PROJECT.json` with the reason.

## 7. Plan

Done: the venue's core (`RestingBook`, `TradeApi`), the pipelines (`AnchorGate`, `TradePipeline`), the index, the margin
pool, the Midnight contracts, programs and jobs, the libraries, the clients; and the theorems above, which leave no safety
invariant of a run unproved. Next, the most important first:

| # | What | Of | Properties |
|---|---|---|---|
| 1 | `Venue` | abstract specification of `TradeApi` without rest-only | submits are answered one at a time, each executes whole or leaves the book alone; refinement from the book file, along `VenueInv` |
| 2 | `MarginPool` with `TradePipeline` | `tradeOrchestrator.ts:404-423` | a lock is made for each pipeline that runs and is never undone by its failure |
