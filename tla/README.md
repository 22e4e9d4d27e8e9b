# A verification project for the Hyperbridge SDK

This directory holds TLA+ modules for the parts of the repository whose
correctness depends on the order in which things happen, the TLC
configurations that check them on small instances, and proofs that TLAPS
checks for every value of the constants. `PROJECT.json` lists every component,
run, mutant, hazard and theorem, and the source lines each definition stands
for. All paths below are relative to `src/packages/`.

Contents: 1 inventory, 2 modules and code, 3 runs, 4 bounds and fairness,
5 disagreements found, 6 proofs, 7 what is not modelled, 8 what could follow.

## 1. Inventory

The repository is a monorepo of four programs.

| Part | State it keeps | Operations | Talks to |
|------|----------------|------------|----------|
| **Filler pipeline** `simplex/src/core/filler.ts`, `strategies/` | global queue, one queue per destination chain, retraction queue, `pendingRetractions` | detect, analyse (confirm and evaluate in parallel), execute, retract, sweep, stop | event monitor (events), bid storage (calls), intents coprocessor (calls), chains |
| **Event monitor** `simplex/src/core/event-monitor.ts` | last scanned block, timer and mutex of each chain | start, scan, stop | chain RPC; emits `newOrder` and `orderFilledOnChain` |
| **Bid storage** `simplex/src/services/BidStorageService.ts` | the SQLite table `bids` | store, mark retracted, queries by commitment, age and date | filler |
| **Extrinsic submission** `sdk/src/chains/intentsCoprocessor.ts` | nothing but the account's nonce on chain | sign, send, watch, time out, retry with a higher tip | Hyperbridge node; called by the chain queues and the retraction queue at once |
| **Cache** `simplex/src/services/CacheService.ts` | entries with a time stamp | get, set, expire after a minute | strategies |
| **Rebalancing** `simplex/src/services/RebalancingService.ts`, `rebalancers/` | nothing but the checks under way | check balances, match deficits with surpluses, transfer | Binance, CCTP, USDT0; the filler's timer starts it |
| **Contract interaction, delegation** | gas and fee caches | reads, estimates, EntryPoint deposits | chains |
| **Request status streams** `sdk/src/client.ts` | the status reached by each stream | post request, GET request, timeout and order streams | indexer, chains, Hyperbridge |
| **Order execution** `sdk/src/protocols/intentsV2/{OrderPlacer,OrderExecutor,BidManager}.ts` | the session key and `usedUserOps`, persisted; the amount filled, not | place, poll bids, submit one, add up fills | coprocessor, bundler, chains, storage |
| **Order cancellation** `sdk/src/protocols/intentsV2/OrderCanceller.ts` | proofs and request of the cancellation, persisted | prove, dispatch, follow, finish, from source or destination | storage, chains, request streams |
| **Chain clients, storage, MMR** `sdk/src/chains`, `storage`, `utils` | key-value storage | proofs, encodings, position arithmetic | nodes |
| **Indexer** `indexer/src/services`, `handlers` | requests, responses, orders, statistics | one handler per event of each chain | SubQuery store |

How the filler's parts interact:

    chains --logs--> EventMonitor --newOrder--> globalQueue --> chainQueue[dest]
                          |                                         | submitBid
                          +--orderFilledOnChain--+                  v
                                                 v        signAndSendExtrinsic --> Hyperbridge
                         bids table <--> retractionQueue ---------^ retractBid
                              ^--- sweepExpiredBids (every 5 minutes)

And how a client follows a request:

    chains --host events--> one indexer process per chain --> one database
                                                                  |  polled
    application <--statuses and call data-- postRequestStatusStream,
                                            postRequestTimeoutStream

And how its user drives an intent order:

    placeOrder --> executeIntentOrder --bids--> Hyperbridge
                        |  selectBid --operation--> bundler --> destination
                        v after the deadline
                   cancelOrder --GET request--> source, Hyperbridge (proofs)

Every bid placed on Hyperbridge reserves a deposit, and the filler's only
memory of it is a row of `bids`. What is hard:

* **concurrency**: the monitor's timers, two kinds of queues and the sweep
  run between each other's awaits; the chain queues and the retraction queue
  sign with one account and so share a nonce;
* **failure**: an attempt that times out after 30 seconds leaves its extrinsic
  in the pool; fetching a range of logs fails; the process crashes between the
  block that holds a bid and the row that records it;
* **ordering**: a fill may be seen before the bid is stored, a retraction may
  be queued twice, and a restart may detect and bid for an order again; three
  indexers write one request's record at their own pace, and clients read its
  statuses by position;
* **resumption**: executions and cancellations are generators that an
  application may abandon anywhere and enter again with what was persisted;
* **time**: ages are decided by comparing text in two timestamp formats; the
  rebalancing timer does not wait for the check before.

What makes each modelled part correct:

* pipeline: no deposit is forgotten except one whose outcome could not be
  known; a deferred retraction is woken; only recorded bids are retracted;
  a watched chain is left alone; every recorded bid is retracted in the end.
  That only confirmed orders are executed would belong here, and does not hold;
* submission: success is only reported for an included extrinsic, nothing of
  the call can be included after that, and a call answers, though not every one;
* bid storage: no stale bid escapes the sweep, and retraction is final;
* monitor: no log is skipped or emitted twice, and each is emitted in the end;
* indexer: a recorded status is true, whichever process was first;
* status stream: it reports what has happened, with the block where it
  happened, and ends when the request does;
* timeout stream: the proof it hands out is one the source accepts, and it
  comes to it;
* execution: what is reported as filled is on the chain, recorded operations
  are not tried again, and every execution ends;
* cancellation: nobody signs twice without need, a stored proof is used for
  its own request, nothing is forgotten too early, and an expired order is
  cancelled in the end;
* rebalancing: a plan meets every deficit and no check that is alone takes a
  chain below its base, and what triggered is refilled.

## 2. Modules and code

| Module | Models | Notes |
|--------|--------|-------|
| `IntentFiller` | `filler.ts`, what `strategies/{basic,fx}.ts` return from `executeOrder` | composes with the next module through its promise |
| `ExtrinsicSubmission` | the abstract promise of `submitBid` and `retractBid` | three actions |
| `SignAndSend` | `signAndSendExtrinsic`, `sendWithTimeout` | implements `ExtrinsicSubmission` (`KeepsPromise`) |
| `BidStorage` | the writes and queries of `BidStorageService.ts` over a clock | |
| `EventMonitor` | `event-monitor.ts` | |
| `RequestRecord` | the chains a request crosses, their indexers (`indexer/src/handlers`, `request.service.ts`), the record | the chains are external |
| `RequestStatusStream` | `postRequestStatusStreamInternal` of `sdk/src/client.ts` | extends `RequestRecord` |
| `RequestTimeoutStream` | `postRequestTimeoutStreamInternal` of `sdk/src/client.ts` | extends `RequestRecord` |
| `OrderReport` | the abstract promise of the statuses of an execution | two actions |
| `OrderExecution` | `OrderPlacer.ts`, `OrderExecutor.ts`, `BidManager.selectBid` | implements `OrderReport` (`ReportsAreTrue`) |
| `OrderCancellation` | `OrderCanceller.ts`, `cancelOrder` of `protocols/intents.ts`, the keys of `createCancellationStorage` | |
| `Rebalancing` | `RebalancingService.ts`, `rebalancers/*.ts`, the rebalancing timer | |
| `IntentFillerProofs`, `SignAndSendProofs`, `BidStorageProofs`, `EventMonitorProofs`, `OrderExecutionProofs`, `OrderCancellationProofs`, `RebalancingProofs` | theorems about the module they are named for | proofs only |
| `RequestStreamProofs` | theorems about `RequestRecord`, `RequestStatusStream` and `RequestTimeoutStream` | proofs only |
| `MCIntentFiller`, `MCOrderExecution`, `MCRebalancing` | instances | values of constants |
| `MCFillerSituations` | two situations of the filler in one instance | restricts what the environment does |

Definitions whose comment starts with "Fault" are mutated forms of the
definition that follows them. No specification uses them; substituting one
for its original must break the property it is listed with. (`Fault` of
`Rebalancing` is no such form, but the failures it lets happen.)

**IntentFiller.** `globalQueue` is the p-queue's waiting list, and an order
whose `conf` is not `"none"` holds one of its `MaxConcurrentOrders` slots.
`conf` and `eval` are the two halves of the `Promise.all` in
`handleNewOrder`: the confirmation loop, which the abort signal may end, and
`evaluateOrder`. How long the loop waits is decided in `StartAnalysis`: the
policies that are asked are those of the strategies the order was matched with,
and the code matches only strategies that have `getOrderUsdValue`. `Strategies`,
`Pricing` and `Policies` say which strategies are configured and which of the two
optional members each has. Without a policy to ask, the loop reads one count and
is through (`"counting"`); with one, it waits until `SourceConfirms` has made the
order as deep as the policies want (`"waiting"`). `FinishAnalysis` is the
continuation of that `Promise.all`;
`DropOrder` is every early return and caught error. The head of
`chainQueues[c]` and of `retractions` is the task in progress (concurrency 1).
A call of the strategy is split at its awaits: `Submit` when it has prepared
the bid or fill, `BidSucceeds`, `BidFails`, `FillReturns` or `PrepareFails`
when `executeOrder` returns. Code between two awaits is one action, so
`StoreOutcome` is `storeBid`, the look at `pendingRetractions`,
`enqueueRetraction` and the end of the task together.

An extrinsic is in `sending` while its call waits and nothing is known of it,
in `landed` once it is in a block whose status has not yet been delivered, and
in `pool` when nobody waits for it any more but it may still be included.
`MissInclusion` is the timeout that fires although the extrinsic is included,
after which the next attempt sends it again. `deposit`, `published` and `fill`
are the ledgers; they and `rows` are all that survives `Crash`. `lostTrack` is
a history variable: the orders that have had a placement whose outcome the
filler could not know.

Each extrinsic's call is a pair of its kind and its order. One call of a kind
per order can be outstanding, since a queue runs one task at a time.

**SignAndSend.** `pool` is the slot of the account's next nonce: all callers
sign with the nonce on chain, so one extrinsic replaces the other if its
priority is higher and is refused otherwise. The tip is `2^attempt` in the
code and its exponent in the model. `Verdict` is the callback of
`signAndSend`. In the model a result has a dispatch error only once it is in a
block, as the node's results do; the branch of the code that reports
"Dispatch error" is therefore never taken. `Finalize` makes `Finalized` the first
status of a call; its callback then leaves the call `"hung"`. For
`ExtrinsicSubmission` that call is pending for ever, which the promise allows, and
in `IntentFiller` it is one of `sending` that nothing reports.

**BidStorage.** `TextBefore` is SQLite's text comparison of
`"YYYY-MM-DD HH:MM:SS"` with `"YYYY-MM-DDTHH:MM:SS.mmmZ"`: the dates decide,
and on one date the blank sorts before the `T`.

**EventMonitor.** A step of a scan is the code between two awaits:
`StartScan` (read the height, cut the range), `LogsFetched`, `EmitPlaced` for
each log whose call data has to be fetched, `FinishScan`. `StartListening`
and `SetUpChain` are the loop of `startListening`, which awaits each chain's
height; `StopListening` and `StopCompletes` are the two sides of the await in
`stopListening`, and `waiting` are the mutexes it has not yet acquired.

**RequestRecord.** A route says whether Hyperbridge is the source, the
destination or neither. `blocks[c]` has the request's host event in each block
of a chain, and `known[c, m]` the height of `m` that `c` has verified; both
follow what ISMP lets happen, which is not code of this repository. An indexer
step reads the request (`ReadRequest`) and another commits its block
(`SaveRequest`, `SaveStatus`, `SkipEvent`): the processes share one schema
(`indexer/scripts/templates/partials/docker-command.hbs`, `--multi-chain`) and
nothing locks the record in between, so a placeholder may be saved over
details. Handlers of EVM chains save a status for a request they do not find;
those of Substrate chains skip the event.

**RequestStatusStream.** `at` is the loop's `status`, `request` the snapshot,
`yielded` what the application has been given. One action is one turn of the
loop. A wait (`waitOrAbort`) is the action's guard: it polls until the guard
holds. A stream opened at `HYPERBRIDGE_TIMED_OUT` or `TIMED_OUT` has no action,
as the `switch` has no case.

**RequestTimeoutStream.** `stage` is the loop's `status` and `delivered` all
it uses of its one snapshot, whether `HYPERBRIDGE_DELIVERED` was recorded.
Receipts are read from Hyperbridge (`Receipt`), statuses from the record.
A stream opened on a placeholder is `"astray"`: its empty details make another
commitment, which no chain knows of, and it polls for updates of a source without
a name. `Refused` is what Hyperbridge does with the unsigned timeout it is sent.
`proofHeight` is the height of the proof that is yielded, and `before` a
history variable: the heights at which the request expired. The destination is
an EVM chain here, which is where the timeout of a delivered request differs.

**OrderExecution.** `pc` stands for the awaits of `executeIntentOrder`:
`polling` (the loop over `getBidsForOrder`), `selecting` and `receipt` (inside
`selectBid`). Bids are sorted by value in the code; as a simulation may fail
for reasons of the node, any fresh bid may be the first that passes, so
`Submit` takes any. `Fillable` is what the simulation sees, `executed` what the
mined operation did. `stored` is `usedUserOpsStorage` and survives `Crash`, as
the session key does; `total` does not. `lives` counts executions. The public
`execute` always places a new order first; that one order is executed again is
what the class documents for its storage, and is modelled as such.

**OrderCancellation.** `pc` is where the generator is between two awaits, and
`destProof`, `getRequest`, `sourceProof` are the three entries of
`cancellationStorage`. `stage[r]` is how far request `r` has come on the chains
and stands for the statuses of its stream; others may advance it while the
generator is away. `Enter` is a call of `cancelOrder`, again and again;
`Interrupt` a crash or an application that stops asking. `unsaved`,
`uncleaned` and `cleaned` are histories: what a crash between broadcast and
write left, that one hit the clean-up, and the clean-ups that were made.
`Encodable` are the keys `createCancellationStorage` has a codec for. From the
destination the code after line 414, which writes a key that is none of these,
is never reached, and is not modelled. A response that was handled while the generator was away
gives a stream that yields nothing, so the generator returns without a word
(`"silent"`).

**Rebalancing.** A chain is its place in the configuration, `ChainIds`. `Match`
is the greedy double loop as a recursive function: what a deficit gets from a
surplus depends on what greater deficits and greater surpluses were given
(`Greater`, in the order of the stable sort). `ToCents` is `toFixed(2)`. A check is
a record of its stage, the chain it reads `next`, what it found and its transfers;
it lives in a slot, as the timer of `filler.ts` starts one without waiting for the
last. `Look` adds what one chain lacks (`LowAt`); `LookAgain` reads the balances a
second time, as `planPortfolioRebalancing` does, for what can be spared
(`SpareAt`), and plans with the last chain.
A transfer is `planned`, `sent` (burnt, sent or deposited) and, on the
exchange, `withdrawing`; `late` is money somebody else will deliver, and
`stranded` money no step of the program moves again.

## 3. Runs

| Run | Instance | Shows |
|-----|----------|-------|
| `filler` | either one order to bid for, two crashes, two rows, two queued retractions; or an order to fill and one on a watched chain, under analysis at once and waiting for confirmations, a crash, a stop; fair | the three deposit invariants, `WatchOnlyNeverFilled`, `BidsEventuallyRetracted` |
| `filler_confirm` | one order, the strategy `BasicFiller` | violation of `QueuedOrdersConfirmed` |
| `filler_stop` | two orders on one chain, and a stop | violation of `StoppedMeansDrained` |
| `send` | three concurrent calls of three attempts | `NothingPooledAfterSuccess`, the refinement `KeepsPromise`, `AnswersUnlessOvertaken` |
| `bids` | two commitments, three rows, two days | `StaleBidsAreFound`, `RetractedReportedOnce`, `RetractionIsFinal` |
| `monitor` | a chain that grows from 2 to 4 blocks, all kinds of logs, one stop | `ScannedLogsEmitted`, `EmittedOnce`, `LogsEventuallyEmitted` |
| `status` | every route, both kinds of destination, indexers punctual or not, two blocks per chain | `StatusesAreTrue`, `YieldedBlocksMatch`, `HandledRequestsEnd` |
| `timeout` | every route, indexers punctual or not, three blocks per chain | `TimeoutsProvable`, `TimeoutsAreProved` |
| `execution` | an order of three, operations that fill one, two and three, two lives | `RecordedOpsNotRetried`, `TotalsComplete`, the refinement `ReportsAreTrue`, `ExecutionEnds` |
| `cancellation` | all four ways to cancel, two interruptions, three requests | `RequestsAccountedFor`, `ProofsBelong`, `CompleteMeansRefundable`, `CancellationEnds` |
| `cancellation_dest` | from the destination, no interruption | violation of `NotResubmitted` |
| `rebalancing` | three chains, two assets, two checks that may overlap, an order, a fault | `GreedyIsExact`, `UndisturbedKeepsBase`, `Refilled` |

Each passing run also checks its module's `TypeOK`
(`TimeoutTypeOK` in `timeout`).

`DepositsAccountedFor` is the property the filler's others serve: every deposit
of the filler on Hyperbridge is still being placed, or has a successful
unretracted row, or is one of the known losses in `lostTrack`. It takes an
interleaving of an execution, a fill or a sweep, a retraction and often a
restart to violate.

`ReportsAreTrue` is the same for the user of an order: an execution that
crashes, loses a receipt, or starts from zero again must not report more than
the chain has. The other direction, that it reports all there is, holds in the
first life only (`TotalsComplete`), since the amount is not persisted.

`RequestsAccountedFor` and `ProofsBelong` are what the class comment of
`OrderCanceller.ts` promises of re-entry. Both have their exceptions in the
formula, and each exception is real: a crash in the gap between broadcast and
write, and a crash within the clean-up, which leaves a proof of the old request
that a later cancellation takes for its own and submits in vain.

`GreedyIsExact` is no statement about behaviours: for every set of deficits and
surpluses of up to three units on up to five chains it says of the plan that it
exists if the surpluses suffice, meets the deficits, spares the bases and needs
fewer transfers than there are chains. The theorem `PlansMeet` is the same of any
plan. It is less than `simplex/src/services/rebalancers/Rules.md` asks for, see
number 7 of section 5.

## 4. Bounds and fairness

* `MaxCrashes` = 2 lets a crash hit the placement of a bid, and another one
  the retraction of what the second life placed. `MaxRows` = 2 gives one
  commitment two rows, of which an old one may be retracted and a new one not;
  `Submit` is the only action it limits. `MaxRetractions` = 2 lets the sweep
  queue a commitment behind itself; fills and sweeps beyond the bound wait.
  Several orders on several chains are covered by the proofs, which bound none
  of this.
* `filler` tries two situations (`MCFillerSituations`), which restrict only what
  the environment does. In one, nothing waits for confirmations, as with the
  strategies of the repository. The other has an order that would be bid for,
  if its chain were not watched, beside one that is filled, and a strategy that
  prices orders and has a policy, as one of an application may, so that the
  waiting half of the analysis is taken as well. `filler_confirm` and
  `filler_stop` have what the repository has: `BasicFiller` with a policy,
  `FXFiller` without, and neither with `getOrderUsdValue`.
* Three calls are the fewest in which an extrinsic is replaced by one that is
  replaced itself; three is the code's `maxRetries`.
* Days of four ticks and an age of two make rows and limits fall on the same
  day, on neighbouring days and on different sides of midnight.
* `MaxBlockRange` = 1 makes ranges of two blocks; the four blocks then take
  two ranges or more, and the ends meet in either.
* Two blocks per chain let the events of a route fall into blocks of equal or
  different numbers on different chains, with an empty block before them, and
  let Hyperbridge deliver and time out the same request. `timeout` needs a
  third: a state of Hyperbridge after the timeout that still has the receipt.
  Empty blocks and consensus updates are limited there to those that can
  matter (`Waiting`, `World`): before the expiry the updates deliveries need,
  after it those of the timeout.
* Offers of one, two and three for a target of three give partial fills, a
  full fill after a part, and a full fill at once; with two lives each can be
  lost by the first and met again by the second. `Deadline` = 1 is a block
  before and one after it.
* Two interruptions let one leave an unsaved request and another a clean-up
  half done; three requests are one for each and a last one.
* In `rebalancing` the chains are Ethereum, BNB Chain, which only the exchange
  reaches, and Polygon, so that all three routes are taken. Two units of
  account to a cent make amounts that are rounded either way. One start has
  USDC missing on two chains, the other USDC and USDT on one each.
  `MaxDisturbances` = 1 limits checks and orders that begin while another
  check is under way: checks that always overlap can move the same money to and
  fro for ever, each on balances the other is about to change, and `Refilled`
  then fails.

Deadlock is not checked: every one of these systems may stop (a bounded
environment, a filler that was stopped, calls that have all answered).

Fairness is weak for what the event loop runs when it is enabled (tasks,
timers, restarts by the operator's supervisor). It is strong for the steps
that are enabled again and again but may be disabled between: the sweep, which
waits for room in the bounded queue; the inclusion of a retraction that is
retried for ever, and the report of it before its timeout; the report of a
placement; the fetch of a range by a node that fails at times; the acceptance
of a cancellation's proof, which the application tries again. Without them a
node that never answers refutes every liveness property. Indexers and the
streams are weakly fair (the application keeps asking for the next status and
nodes answer). Of the chains, nothing is assumed in `status`; in `timeout` they
make the blocks and updates they wait for, in `cancellation` the destination is
finalized and requests are answered, as both generators wait for exactly that.
In `execution` only timers are fair: polls end by their timeout and a receipt
that does not come ends the selection, so `ExecutionEnds` needs nothing of
solvers, bundler or chain.

`punctual` is an assumption on
the deployment, not on the code: every block is indexed before another one is
made. Without it `HandledRequestsEnd`, `YieldedBlocksMatch` and
`TimeoutsAreProved` fail, since an
indexer of Hyperbridge that is ahead of the source's never records the
delivery; `StatusesAreTrue` and `TimeoutsProvable` need no such assumption. No fairness is
assumed of fills, users, other fillers, other relayers, `Stop`, `Crash` or
`Interrupt`; `BidsEventuallyRetracted`
is checked without a stop, since nothing sweeps afterwards.

Status reports of one account are delivered in block order (`landed` is a
sequence reported at its head). `BidsEventuallyRetracted` assumes by its fairness
that no call is overtaken by the finality of its block: one that is never answers
(number 4 below), and the queue whose head it is stands still until a restart.
The safety properties of `IntentFiller` need no such assumption: in them such a
call is one that `MissInclusion` passes over and that stays in `sending`. In
`send` all of it may happen to the other calls, and `AnswersUnlessOvertaken` is
about those to which it does not.

## 5. Disagreements found

Three have a run that finds them:

1. `strategies/base.ts:24` says of `confirmationPolicy` "If absent, no
   confirmation waiting is required", and the configuration has "Confirmation
   policies for each chain" (`simplex/README.md:39`). `handleNewOrder` asks only
   the strategies it has kept in `canFillCache`, and `filler.ts:291` keeps those
   without `getOrderUsdValue` out. `BasicFiller`, the only strategy with a policy,
   has no such method, and no other strategy of the repository has it. So
   nothing is required, the loop at `:354` never turns, and an order is executed
   however shallow it is in its source chain. `filler_confirm` shows it.
2. `stop()` says "Wait for all queues to complete" and logs "All orders
   processed, filler stopped". It does not await `stopListening()`, and takes
   one `onIdle()` promise of each queue. A chain queue that is idle at that
   moment is not waited for again, although the global queue may still hand
   it an order. `filler_stop` shows a state in which `stop()` has returned and
   an order is queued.
3. A cancellation stores its results "so the generator can be re-entered after
   a crash without re-submitting transactions" (`OrderCanceller.ts:42`). From
   the destination the key it writes after its broadcast (`:414`) is one
   `createCancellationStorage` cannot encode: `setItem` throws
   (`storage/index.ts:95`), with or without a crash, and the next call, which
   finds nothing under the key, broadcasts again. `cancellation_dest` shows it.

Others shaped the models, and the properties exclude or allow exactly them:

4. `sendWithTimeout` "Sends an extrinsic with a timeout"
   (`intentsCoprocessor.ts:231`). Its callback accepts `isFinalized` beside
   `isInBlock`, sets `resolved`, clears the timer, and then reads `asInBlock`,
   which throws for the other status (`:261-266`). A call that is told of the
   finality first never answers. `Verdict` makes it `"hung"`, and
   `AnswersUnlessOvertaken` says that every other call answers.
5. `signAndSendExtrinsic` says "Return immediately on success or dispatch
   errors" (`intentsCoprocessor.ts:212`). `sendWithTimeout` asks for `isInBlock`
   first, so an extrinsic whose dispatch failed, a bid without its deposit, is
   a success (`:261`, `Verdict`). `IntentFiller` follows: the effect of
   an included placement may be nothing, and the row is successful all the same.
6. `Rules.md:40` wants every source at its base or above after the transfers.
   Checks that overlap, and orders filled meanwhile, work on balances that
   were read earlier, so sources may fall below it: `UndisturbedKeepsBase` is
   about a check that nothing disturbs, and to within `toFixed(2)`; so read, the
   rule is proved.
7. `Rules.md:94` has every transfer of the greedy matching "Take the current
   largest remaining surplus", for the "fewest number of transfers" (`:79`).
   `planTransfersForAsset` sorts the surpluses once (`RebalancingService.ts:332`)
   and goes through them in that order for every deficit. Deficits 2, 2 against
   surpluses 3, 2 take three transfers, where the rule makes two: the second
   deficit is begun with the 1 that is left of the 3. `GreedyIsExact` holds of
   both plans. (The rule does not always find the fewest either: deficits 4, 3, 3
   against surpluses 6, 4 take four, and three would do.)
8. `getExpiredUnretractedBids` is documented to return bids "older than the
   given age". It returns every bid of the UTC day the limit falls on, for the
   comparison of the two formats ignores the time of day
   (`BidStorageService.ts:187`). With the sweep's hour, a bid may be retracted
   minutes after it was placed. `StaleBidsAreFound` shows, and
   `NoStaleBidEscapes` proves, that the error is on this side only.
9. A chain on which the monitor starts at block one is never scanned:
   `lastScanned` is `0n` and `if (!lastScanned) return` takes it for absent
   (`event-monitor.ts:120`), though the start was logged.
10. The status stream waits "for the request to be delivered on Hyperbridge" by
   waiting for two statuses (`client.ts:1013`). A request that timed out
   undelivered has two, `SOURCE` and `TIMED_OUT`, and is reported as delivered,
   with the block of the timeout. If Hyperbridge is the destination it is
   reported as having reached it. `YieldedBlocksMatch` excludes exactly these
   requests.
11. `OrderExecutor.ts:55` lists "`FAILED` (fatal, no fills)". A fill may have
   been made by an earlier life, or by the submitted operation after its
   receipt was given up; a selection that throws after partial fills is FAILED
   as well. `OrderReport` promises nothing of FAILED.

Seen while reading, without a property of their own: a monitor started again
after a stop has no mutexes and does nothing (`event-monitor.ts:277`); a chain set
up while `stopListening` runs gets a timer nobody clears
(`event-monitor.ts:87`); a date range query misses its first day, for the
reason of number 8 with the sides changed (`BidStorageService.ts:213`); the
promise of `chainQueue.add` is not handled, so an error that is thrown again
at `filler.ts:506` ends the process, which the model has as `Crash`. A status stream opened on a
request that has timed out turns in its loop without an await
(`client.ts:980`); the substrate handlers say "must succeed for data integrity"
of a status they drop when the source's indexer is behind
(`handlePostRequestHandledEvent.handler.ts:39`); the timeout stream waits for
`HYPERBRIDGE_TIMED_OUT` as the last status and never sees it once `TIMED_OUT`
is recorded (`client.ts:1607`); opened before a delivery on Hyperbridge was
recorded, it hands out a proof that still shows the receipt (`client.ts:1580`),
which is why `TimeoutsProvable` asks for a complete snapshot; the query for a
state machine update says it returns the closest one after a time and sorts in
descending order, so it returns the latest. A shortage of one asset throws for the plan of all
(`RebalancingService.ts:323`); results with the state "error" of CCTP, or
without success of USDT0, count as executed, and `retrySendCctp` is called by
nothing; a withdrawal that fails after its deposit leaves the money on the
exchange.

## 6. Proofs

TLAPS proves the following for every value of the constants that meets the
module's named assumption (`FillerAssumption`, `SendAssumption`,
`StorageAssumption`, `MonitorAssumption`, `ExecutionAssumption`,
`CancellationAssumption`, `RecordAssumption`, `RebalancingAssumption`), which TLC evaluates in every
run. They say no more than the types of the constants: naturals, finite sets,
functions with their domains, and for `Rebalancing` that a percentage is one and
that a unit of account is a part of a cent.

| Module | Theorem | States |
|--------|---------|--------|
| `IntentFillerProofs` | `TypeCorrect` | `Spec => []TypeOK` |
| | `InvariantCorrect` | `Spec => []IInv` |
| | `DepositsSafe` | `Spec => []DepositsAccountedFor` |
| | `DeferredRetractionsWake` | `Spec => []PendingHasExecution` |
| | `RetractionsRecorded` | `Spec => []QueuedRetractionsRecorded` |
| | `PipelineCorrect` | `Spec => []PipelineInv` |
| | `WatchedChainsLeftAlone` | `Spec => []WatchOnlyNeverFilled` |
| `SignAndSendProofs` | `InvariantHolds`, `TypeCorrect` | `Spec => []IInv`, `Spec => []TypeOK` |
| | `SuccessLeavesNothing` | `Spec => []NothingPooledAfterSuccess` |
| | `RetriesKeepPromise` | `Spec => KeepsPromise`, the refinement of `ExtrinsicSubmission` |
| `BidStorageProofs` | `InvariantHolds`, `TypeCorrect` | `Spec => []IInv`, `Spec => []TypeOK` |
| | `NoStaleBidEscapes` | `Spec => []StaleBidsAreFound` |
| | `RetractionsAreComplete` | `Spec => []RetractedReportedOnce` |
| | `RetractionsAreFinal` | `Spec => RetractionIsFinal`, an action property |
| `EventMonitorProofs` | `InvariantHolds`, `TypeCorrect` | `Spec => []IInv`, `Spec => []TypeOK` |
| | `NothingSkipped` | `Spec => []ScannedLogsEmitted` |
| | `NothingTwice` | `Spec => []EmittedOnce` |
| `OrderExecutionProofs` | `InvariantHolds`, `TypeCorrect` | `Spec => []IInv`, `Spec => []TypeOK` |
| | `RecordedOpsStayUsed` | `Spec => []RecordedOpsNotRetried` |
| | `FirstLifeKnowsFills` | `Spec => []TotalsComplete` |
| | `ReportsAreBacked` | `Spec => ReportsAreTrue`, the refinement of `OrderReport` |
| `OrderCancellationProofs` | `InvariantHolds`, `TypeCorrect` | `Spec => []IInv`, `Spec => []TypeOK` |
| | `NoRequestForgotten` | `Spec => []RequestsAccountedFor` |
| | `ProofsAreOwn` | `Spec => []ProofsBelong` |
| | `CompletionIsEarned` | `Spec => []CompleteMeansRefundable` |
| `RequestStreamProofs` | `StreamInvariantHolds`, `TypeCorrect` | `Spec => []StreamInv`, `Spec => []TypeOK`, of the status stream |
| | `StatusesHold` | `Spec => []StatusesAreTrue` |
| | `YieldedBlocksHold` | `Spec => []YieldedBlocksMatch` |
| | `TimeoutInvariantHolds`, `TimeoutTypeCorrect` | `TimeoutSpec => []TimeoutInv`, `TimeoutSpec => []TimeoutTypeOK` |
| | `ProofsHold` | `TimeoutSpec => []TimeoutsProvable` |
| `RebalancingProofs` | `TypeCorrect` | `Spec => []TypeOK` |
| | `PlansMeet` | `PlanMeets(lack, spare)` for all finite sets of amounts on distinct chains |
| | `GreedyIsExactHolds` | `Spec => []GreedyIsExact` |
| | `UndisturbedChecksKeepBase` | `Spec => UndisturbedKeepsBase`, an action property |

Why the invariants are what they are:

* **IntentFiller, deposits (`IInv`).** When a retraction is reported, its
  rows are marked, which would lose a deposit that is still there; so the
  invariant adds `RetractionTookDeposit`: a retraction that is in a block and
  not yet reported has taken the deposit, or a later placement of the same order
  is in flight, or the order is already lost. When an extrinsic nobody waits for
  is included it creates a deposit without a row: `PooledPlacementsLost` says
  such an order is in `lostTrack`. A fill that arrives without a row is deferred;
  that somebody will wake it needs `PublishedAccountedFor` (a published bid is in
  flight, recorded or lost) and `FillsHaveSource` (a fill of ours comes from a
  published bid or from a chain without solver selection).
* **IntentFiller, pipeline (`PipelineInv`).** That a watched chain is left alone
  must be known of a verdict that waits for the other half of its analysis
  (`AnalysisSound`), of the queues and of every call under way (`QueuesSound`,
  `CallsSound`).
* **SignAndSend.** A call can report success only of what is included, and then
  has nothing in the pool: this is kept because a notice comes for an attempt
  that is watched, and the extrinsic of an earlier attempt was replaced by it in
  the one slot of the nonce. The refinement maps a call to what it has answered;
  timeouts, refusals and replacements map to stutters.
* **BidStorage.** Ids grow with time stamps, and of a commitment the marked
  rows are the older ones. The first needs the cardinality of the table, the
  second is what marking keeps. That days are monotone (`DayIsMonotone`)
  carries `NoStaleBidEscapes`.
* **EventMonitor.** What is emitted is described exactly: everything of ours
  below the range of a scan, what was taken off its list within it, nothing
  above (`NotBehind`, `Pending`, `NotAhead`). These hold of a chain while its
  mutex exists, and ranges meet because a chain is set up once in that time
  (`SetUpOnce`).
* **OrderExecution.** `AmountsBacked` relates the amount credited to the amount
  filled, counting the operation that is mined and not yet credited;
  `FirstLife` makes the two equal while there was no other life;
  `UsedKnown` relates the persisted operations to those in memory.
* **OrderCancellation.** `RequestOfRun` says where the request in hand is the
  stored one; `ProofOfStored` that a stored proof of the source is of the stored
  request, but in the gap of the clean-up between the two removals.
* **RequestRecord (`RInv`).** The events of a request are unique, on the chains
  where the route has them, and a timeout on Hyperbridge excludes a delivery
  to the destination. A
  placeholder, in the record or in the hands of a handler, means that an EVM
  destination has handled the request (`RecordsExplained`). From this
  `DecidedStatus` follows, the lemma the theorem turns on: the label a handler
  chooses by the details it finds, or by their absence, names the chain and the
  block of its event.
* **RequestStatusStream (`StreamInv`).** The stream reads statuses by position,
  which is right only while the indexers keep up: then one block at most of all
  chains is unindexed (`IndexedInStep`), nothing is passed over or written over
  (`EventsRecorded`), and the request is indexed before its delivery, its
  delivery before its end (`RequestFirst`, `DeliveryFirst`). So at two statuses
  the second is the delivery, or the request timed out undelivered; at three the
  third is the destination's. `StreamPunctual` adds that the loop is where the
  route goes. Without `punctual` only `RInv` and the types remain.
* **RequestTimeoutStream (`TimeoutInv`).** `before` divides each chain's blocks:
  deliveries are up to it, timeouts on Hyperbridge after it (`DividedByExpiry`).
  A request timed out on Hyperbridge is not delivered there again, so a state
  after the timeout stays without a receipt; `StagesExplained` has what the stream has waited
  for when it decides.
* **Rebalancing, plans.** Sums are folds, about which the library has no facts
  one could use here: that the sum over a set is that over the set without an
  element, plus the element, is proved from the fold's defining equations, with
  induction on finite sets as a minimal counterexample among subsets (the
  library's induction theorems cannot be instantiated). `Match` is a recursive
  function: `MatchRecursion` shows it well defined, since the order of amounts
  is total and every finite set of pairs with all greater ones has a last.
  `MatchShort`: if a deficit is not met every surplus is used up, so the total of
  the surpluses is less than that of the deficits. `FewTransfers`: every
  transfer meets its deficit or uses up its surplus, no two of them do so with
  the same, and the last surplus is used up only where a deficit is met as well.
* **Rebalancing, checks (`Inv`, `Undisturbed`).** `Inv` has the types and that
  one reading at most is kept of each chain and asset, which makes the plan's
  sums those of distinct chains. `Undisturbed` holds while there was no
  disturbance: there is one check (`OneCheck`), what it has read is still so
  (`StillRead`), and the transfers it still has to make leave a source at its
  base and bring a deficit no further than it, together with what is late, to
  within the rounding (`Bounded`). A crash or an exchange that is slow moves what is
  under way from the check to `late`, which `Bounded` counts alike.

Every invariance proof has a lemma per action (or group that changes the same
state), and under it a step per conjunct the action can disturb. The facts about
queues (at the head of `IntentFillerProofs`) are stated as the set of a sequence's elements, so
that no leaf has to reason about indices; `RetractionTookDeposit`, the only
conjunct about positions, has its own steps.

Every invariant and every action property of the passing runs is a theorem, and so
are both refinements. Only model-checked: the liveness properties
`BidsEventuallyRetracted`, `AnswersUnlessOvertaken`, `LogsEventuallyEmitted`,
`HandledRequestsEnd`, `TimeoutsAreProved`, `ExecutionEnds`, `CancellationEnds` and
`Refilled`, as temporal reasoning with fairness and `ENABLED` is beyond the
prover. The three violated properties have counterexamples instead.

## 7. What is not modelled

* Of the filler: running without Hyperbridge or without the table (nothing is
  then bid or stored), delegation set-up, EntryPoint deposits, prices and
  profitability (a verdict), and the number of confirmations: an order is as deep
  as the policies ask or not, and whether they are asked is modelled. The verdicts
  of several strategies are one choice. The expiry of the
  cache between evaluation and execution is one cause of `PrepareFails`.
* Of the coprocessor: reading bids, encodings, and the connection.
* Of the table: the statistics query and the text columns.
* Of the monitor: decoding call data (a log is readable or not) and
  reorganisations, of which the code has no notion.
* Of the streams: `mergeRace`, which interleaves the timeout stream with the
  status stream of one request without shared state; what proofs and call data
  contain (a proof is found if the request is in the state it is asked of); the
  streams of orders and teleports, which poll one record; the stream of GET
  requests, which is modelled by its consumer, the cancellation.
* Of the indexer: the records of orders (`intentGatewayV2.service.ts`), of GET
  requests and of responses, and all statistics. The order records have the
  race of the request records; where a fill is indexed before the placement,
  points are not awarded (`:249`), which is listed as a hazard without a property.
* Of execution: which bid is worth most (`validateAndSortBids`), gas
  estimates, and the encodings of operations. Of cancellation: quotes.
* Of rebalancing: fees, the travel-rule forms of the exchange, the amounts an
  exchange rounds. Reads of the two assets of one chain are one step.
* Curves (`interpolated-curve.ts`) are pure functions of decimal fractions that
  the repository's tests reach; MMR positions, chain clients, ABIs, XCM, swaps
  and the token gateway are encodings, arithmetic over data or calls to nodes.
* All components with status `not_modelled` in `PROJECT.json`, with reasons.

## 8. What could follow

1. The order records of the indexer, over a model of two indexers like
   `RequestRecord`, with `IntentGatewayV2Service`'s placeholders and awards.
2. The streams of GET requests and of orders, and the teleport stream that
   starts from a commitment.
3. The liveness properties by hand: each rests on a few leads-to steps whose
   safety part is in the invariants proved here.
