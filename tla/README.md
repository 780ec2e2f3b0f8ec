# Kryon: a TLA+ verification project

Kryon is a perpetual-futures venue. Orders are signed off chain, collected and
matched by services that share a Postgres database, and settled on Stellar by a
set of Soroban contracts that keep positions, collateral and an insurance fund.
Around them run keepers (oracle, funding, liquidation, refill, TTL), a monitor
and an indexer; operator scripts deploy the contracts and hand them over to a
timelock; a web client shows it all to traders. This directory models that
system in TLA+, checks the models with TLC on small instances, and proves some
of their invariants with TLAPS for every instance.

Paths below are relative to the repository (`kryon-protocol/`, `client/`).
`PROJECT.json` lists the components, the runs, the map from definitions to
source lines, the hazards, the findings and the theorems.

## 1. The system

### On chain (`kryon-protocol/contracts`, `kryon-protocol/crates`)

| Component | State | Operations | What makes it correct |
|---|---|---|---|
| order gateway | per (owner, nonce): filled amount, cancel tombstone, each with an expiry; pause | `settle_fill(_signed)`, `cancel_order`, `reclaim_order_state`, pause | no order is filled beyond its size, nor after its cancel |
| engine | positions, open interest (total, per side), funding indexes, mark, fees, caps | `open/increase/reduce_position`, `charge_trade_fee`, `liquidate_reduce`, `update_funding`, migration, configuration | counters equal the book; exits stay open; funding is zero-sum |
| vault | collateral balances, mirror of positions and funding indexes, deposit totals, pause | `deposit`, `withdraw`, `apply_pnl`, `sync_positions`, `absorb_bad_debt`, `seize_for_deficit`, `settle_deficit`, pause | balances are backed by tokens; margin is judged from the engine's positions; a shortfall takes the account's own collateral first |
| liquidation | none of its own | `liquidate`, `adl` | only an unhealthy account is liquidated, to its benefit; ADL pays no more than the recorded debt |
| insurance | operating pool, staked pool, shares by epoch, unstake requests, bad debt | `deposit`, `pay_liquidator`, `cover_deficit`, `record/reduce_bad_debt`, `stake`, `request_unstake`, `withdraw_unstaked`, `sweep_to_operating` | pools are backed; shares and capital appear and vanish together |
| oracle adapter | feed configuration, last price | single-source and quorum writes, guarded reads | a price is sound, fresh, monotonic and from the configured path |
| governance | proposals, delay, guardian's pause | `queue`, `execute`, `cancel`, pause, admin handover | nothing executes early, twice, or after a veto |
| risk-engine, protocol-core | none | margin, pnl, funding rate, fixed-point arithmetic | the arithmetic the others rely on |

Calls are synchronous and atomic: gateway -> engine -> vault -> oracle;
liquidation -> engine, vault, insurance; vault -> insurance. An error anywhere
reverts the whole invocation. Concurrency on chain is therefore the order in
which invocations by different parties happen, and the clock.

### Services (`client/scripts`, `client/app/api`, `client/lib`)

| Component | State | Operations | What makes it correct |
|---|---|---|---|
| orders API | `Order` rows | place, cancel, cancel all, list | one order per (owner, nonce), expiry within seven days |
| matcher | its tick; `Fill`, `Order.filledSize`, `TxJob` | match, persist, settle, roll back | the database agrees with the chain |
| sign route | `TxJob` | merge an auth entry, claim, broadcast | a fill is submitted once |
| reconciler | `TxJob`, `Fill`, `Order` | confirm, resubmit, expire | every job is resolved |
| oracle keeper | last published price per asset, cached activity | fetch, cross-check, halt, publish, confirm | prices are sound, and fresh whenever somebody needs them |
| liquidation keeper | retry state per account | scan, settle deficits, liquidate by a ladder of sizes | a short account becomes healthy, or its loss is recorded |
| funding keeper, monitor | alert states | poke each market; check, alert, remind, recover | funding accrues, and staleness is reported |
| refill, TTL keeper | none | buy XLM, pay keepers; extend entries | wallets stay funded within bounds, no entry is archived |
| state indexer, stats aggregator | `Market`, `TraderStat`, `AccountAnalytics` rows | read chain, upsert; count fills | what others read catches up with the truth |
| websocket server | subscriptions, sockets | subscribe, broadcast | clients see the latest book |

Here concurrency is real: processes and requests interleave between SQL
statements and RPC calls, ticks overlap themselves, processes crash, RPC answers
are lost, transactions that were given up on land late, and what was read at the
start of a tick is stale when it is used.

### Operator scripts (`client/scripts`)

| Component | State | Operations | What makes it correct |
|---|---|---|---|
| `mainnet-deploy`, `testnet-deploy`, `redeploy-*`, `rewire-liquidation`, USDT0 scripts | state files, secrets files, environment file; the wiring on chain | upload, deploy, initialize, wire, list | a run that died is resumed to completion; no key is lost, nothing is listed unpriced |
| `governance-handover`, `transfer-admin-to-governance`, `add-market`, `upgrade-contracts`, `set-risk-params`, `verify-decentralization` | checkpoints; proposals on chain | nominate, queue, execute, cancel, drill | every handover completes; after it, nothing changes without the delay |

### Web client (`client/features`, `client/stores`, `client/lib`)

| Component | State | Operations | What makes it correct |
|---|---|---|---|
| orders | the list in the browser's storage, in several tabs | build, sign, post, cancel, reconcile | what is shown of an order is what the chain did |
| order book | sockets, subscription, polls | connect, switch market, fall back to polling | the screen recovers from every socket failure |
| mark prices | one store, several polls | oracle, Binance, ticker | the ticker never replaces the mark of the market shown |
| collateral | reads, one dialog each | deposit, withdraw, trustline, retry | pressing again while the first is undecided pays once |

### What is hard

The hazard list in `PROJECT.json` places each of these at its line. On chain:
pruning against late fills, request and epoch lifetimes and rounding, mirrored
and duplicated state, lazily settled funding, exits under a shrinking fund, a
feed whose source is switched. Off chain: lost confirmations and transactions
that land after their sender gave up, claims with a gap between claim and effect,
alerts recorded before they are delivered, ticks that overlap, retries built
from stale balances, scripts that die between two transactions or between a
transaction and its checkpoint, tabs that overwrite one another's storage,
callbacks of a socket that was replaced.

## 2. Modules

| Module | Models | Run |
|---|---|---|
| `OrderGateway` | gateway contract behind the API's intake | `MCContracts` |
| `InsuranceFund` | insurance contract, one asset | `MCContracts` |
| `ClearingHouse` | engine, vault and liquidation composed, with the gateway's settlement and the fund's operating pool | `MCClearingHouse` |
| `SettlementPipeline` | matcher, sign route, reconciler, database and chain composed, statement by statement | `MCSettlementPipeline` |
| `OracleFeed` | oracle keeper, activity check, feed scripts, oracle adapter | `MCKeepers` |
| `KeeperUpkeep` | refill and TTL keeper | `MCKeepers` |
| `LiquidationKeeper` | liquidation keeper with the liquidation, seizure and deficit code it calls | `MCLiquidationKeeper` |
| `FundingWatch` | funding keeper, monitor and the operator they alert | `MCBackgroundJobs` |
| `ReadModels` | state indexer and stats aggregator | `MCBackgroundJobs` |
| `Timelock` | abstract: what a timelock promises | refined by `Governance` |
| `Governance` | governance contract, the scripts that use it, the guardian | `MCGovernance` |
| `Deployment` | deployment, redeployment and USDT0 scripts, their files, the operator | `MCDeployment` |
| `TradingClient` | orders in the web client, the intake API, the chain | `MCTerminal` |
| `MarketStream` | order book on screen: sockets, server, polling | `MCTerminal` |
| `MarketPrices` | mark prices on screen | `MCTerminal` |
| `CollateralDesk` | deposits and withdrawals from the web client | `MCTerminal` |
| `ClearingHouseProofs`, `SettlementPipelineProofs`, `GovernanceProofs`, `LiquidationProofs` | the theorems of the module they are named for | TLAPS |
| `FundAndDeploymentProofs` | the theorems of `InsuranceFund` and `Deployment`, which share no state | TLAPS |
| `KeepersProofs` | the theorems of `OracleFeed` and `KeeperUpkeep` | TLAPS |
| `TraderProofs` | the theorems of `OrderGateway`, `TradingClient`, `CollateralDesk` and `MarketPrices` | TLAPS |
| `SetTheorems` | facts on finite sets: minima and maxima, sums, proof element by element; on the concatenation of a sequence of sequences | TLAPS |

`MCContracts`, `MCKeepers`, `MCBackgroundJobs` and `MCTerminal` put modules side by side that
share no variable. Their product would multiply states without adding a
behaviour of either, so a variable `focus` that never changes names the one that
moves while the others rest; every initial `focus` is explored. The fairness of the modules is
restated there under `focus`, since an action that never moves again must not be
required to. The invariants of a resting part hold in its resting state.

### OrderGateway

`filled` and `cancelled` are the contract's `Filled` and `Cancelled` entries by
(owner, nonce), absent entries being `NoEntry` and `NoTombstone`; `pos` is what
the engine holds for an owner and a market, enough for reduce-only. `book` holds
the orders whose signatures exist; `executed` and `revoked` are history. Orders
enter `book` by `PlaceOrder`, under the intake's rules (a fresh nonce, expiry
within `MaxOrderTtl`, `client/lib/validation.ts`), or, in `DirectSpec`, by
`HandOverSigned`, under none. `SettleFill` is `settle_fill_signed` with
`validate_fill`, `validate_order`, `settle_user_side` and `add_filled`;
`ReclaimOrderState` is the permissionless pruning.

### InsuranceFund

One asset. `balance` and `staked` are the pools, `tokens` the contract's token
balance, `shares` and `pending` carry the epoch they were written in, as in the
code; `SharesOf` filters by epoch. `WithdrawStale` is the early return of
`withdraw_unstaked`.

### ClearingHouse

One market, the settlement asset, cross margin (the gateway opens nothing else).
`price` and `quote` are what the oracle serves for the market and for the
settlement asset; either feed may go stale, and a health snapshot that needs the
stale one errs. As in the vault, a balance counts at `quote` times the haircut,
and only for the accounts whose asset list names it (`depositors`); an account
without the asset is valued without the feed (`Priced`).
Because an invocation is atomic, a nested contract call is an operator from a
ledger to the set of ledgers it can return, empty when the call errs; `AndThen`
chains calls as the code's `?` does. `ledger.positions` is the engine's,
`ledger.synced` the vault's mirror, written only where the code calls
`sync_positions`; the margin operators read the mirror, as the vault does.
`PRECISION` is one: amounts are whole units, and the roundings of basis points,
average entry price and ADL sizes are kept. `house` and `rounding` are history:
what liquidations took over, and what averaging entry prices rounded away.
Whoever liquidates is not trusted with anything: any account, size and price may
be tried at any time.

### SettlementPipeline

Every SQL statement and every RPC call is a step. `fill[j]` is the set of rows a
fill has (under the payload hash, or under a transaction hash), `job[j]` its
`TxJob` row. The matcher, the reconciler and one request per party have a program
counter and the values they read; `tx` are the transactions ever broadcast. A
poll that gives up and a poll that throws are the same step, enabled at any time.
The client that signs a queued fill is the module's too: it signs only what it
finds `AWAITING_AUTH`. Takers have size one, so a fill is named by its taker. The
ages in the reconciler's WHERE clauses (30 seconds, 15 minutes) are abstracted to
"at any time". The pseudo hash of a pending fill has 31 bits in the code, and the
rollback deletes every row that carries it; here a fill's hash is its own, so
collisions of hashes are left out.

### OracleFeed

Time is counted in keeper fetches; the ledger's clock trails by at most `MaxLag`.
`truth` is what an asset is worth, which no program sees. A keeper tick is
`StartTick` (the activity check), then per asset `SkipAsset`, `SendPrice` or
`SendFails` over what the venues, Reflector and the depeg halt can decide
(`Decisions`), then the poll's end; inclusion on chain is a step of its own, and
a transaction given up on stays in `pool`. Crashes, administrators' scripts and
moves of the market count against `MaxUpsets`. `price` is the adapter's stored
price, `config` its feed.

### KeeperUpkeep

A refill reads all balances, plans, swaps and then pays wallet by wallet; a
payment may time out and land afterwards (`PaymentLands`); the payment that
follows has its sequence number and takes its place. The TTL keeper names every
entry below the threshold in one transaction, unless that costs more than the
ceiling (`TtlSubmit`); the run may fail (`TtlFails`), at most `MaxMissed` days in
a row. The contracts' code entries, which the keeper leaves out when the manifest is
missing or the network is not mainnet, are among the entries here: the model is
the run with a manifest on mainnet. Both use wallets only this component fills.

### LiquidationKeeper

The keeper (`pc`, the `queue` of its scan and what it read of the account at its
head) is one process; its transactions are in `pool`, those it stopped waiting
for among them, and all carry one account's sequence number, so including one
kills the others. `Executes` is the contract call of a transaction:
`liquidate` through the vault's health snapshot, seizure and bad-debt coverage,
or `settle_deficit`. An account's `assets` are the vault's `UserAssets`, kept
apart from the balances as in the vault: they decide which balances a snapshot
values. What is left to try on an account is a set, ordered by size where the
code sorts, markets breaking ties as the code's stable sort does. Left out are the vault's pause,
the operator check of `settle_deficit` (the keeper's key is that operator) and a
collateral feed that does not answer.

### FundingWatch, ReadModels

`FundingWatch` has the keeper's loop over markets, the wallet it pays from, the
monitor's rounds (which overlap: a timer starts them) and the operator, who
fills the wallet only when an alert about it arrived. `ReadModels` has ticks that
overlap, each with what it read, the `Market` row they upsert and the statistics
the sixth tick (or a separate process) rewrites.

### Timelock, Governance

`Timelock` has contracts, notices and a veto: a contract that was handed over
changes only by an action announced at least `Delay` before and not withdrawn,
while no veto stands, and is never taken back. `Governance` has proposals, each
target's admin and pending admin, the scripts' program counter and checkpoints,
the one transaction that may still be included, and the guardian. It implements
`Timelock` with `notice <- prop`, `veto <- paused` and `governed` the targets whose
admin is the timelock (`TL`); the run checks `TL!Spec` as `TimelockHolds`.

`engine.set_market` also calls the vault's `set_market_config`, which asks for the
vault's admin. `Reach` says so: the call, sent by the key or executed by the
timelock, is accepted only if every contract it reaches accepts it, and writes all
of them (`Written`). The timelock authorises the call it makes itself; what the
engine calls in turn is authorised by the key that signs the execution, so the
proposal is refused once the vault is handed over too (section 6).

### Deployment

A script is a list of steps (`Plan`), each a checkpoint, a kind and what it
writes on chain; `facts` is what the chain holds. State file, secrets file and
environment file are separate. A crash may tear the state file while it is
written, and may fall between two files; the other two are written whole.
Two runs of any other script may be started between the runs of the deployment.

### TradingClient, MarketStream, MarketPrices, CollateralDesk

`TradingClient`: each tab has its list in memory, `disk` is the browser's storage, a
write replaces all of it and reaches the other tabs later (`Rehydrate`). A press is
split where the code awaits: build, sign, post, answer. The nonce's two variables
are the page's: `Reload` starts them anew, and no tab knows another's.
`filledEntry` and `cancelledEntry` are the gateway's entries, which `Reclaim`
prunes once they lapse, while `settled` and `tombstone` are history; what a tab
learns of an order (`Verdict`) it reads from the entries alone.

`MarketStream`: sockets have states and callbacks that fire after they were
replaced; `ws` is the one the code's module variable holds. `MarketPrices`: polls
that answer after a switch.

`CollateralDesk`: two dialogs of one account, each a transaction on a sequence
number. A dialog may report a failure in any state of its transaction: a poll
breaks, or thirty polls pass, while the transaction is alive or already included.
A page load (`PageLoads`) kills every dialog and no transaction that was sent, and a
node may serve the account's sequence number of before the last inclusion.
`rivals` records, for each transaction, which were undecided when it was built.

## 3. Runs

Each run asks one question. The bounds that are constants of the model
(`MaxTime`, `MaxEvents`, `MaxFaults`, `MaxOthers` and the like) are named in the
modules; they sit in guards and stand for nothing in the code.

| Run | Question | Bounds, and why they are enough |
|---|---|---|
| `contracts` | Is an order placed through the API overfilled, or filled after its cancel? Are the fund's pools backed, shares and capital consistent, requests covered, prices monotone? | four orders of two owners that cross twice, with sizes of two fills; the clock runs past expiry, tombstone and grace. Two stakers (symmetric), amounts 1 and 3 (shares and prices round), two epochs, one cooldown |
| `clearing_house` | Do book, mirror and money agree; are exits open; can own actions break margin; does ADL pay exactly what it clears; does a pause freeze balances? | two traders, a price that doubles or halves (one move makes an account liquidatable), an off-oracle execution price (insolvency), sizes 1 and 2 (partial closes, flips), three fills; a settlement asset worth two units whose feed, like the market's, goes stale and comes back; deposits of 4 up to a cap of 8, a fund of at most 4; fee, reward and the cap tied to the fund all active |
| `pipeline_signed` | Does the matcher alone invent no settlement and resolve every fill? | two takers and one that cannot verify, one maker of size two, two transactions |
| `pipeline_fallback` | Do matcher, sign route and reconciler together submit a fill by one request, report only what settled, and never leave a signed job queued? | one fill, two parties, two transactions, one crash anywhere |
| `pipeline_rollback` (violation) | Is the rollback safe to run more than once? | two takers of one maker of size two, two transactions, reconciler and sign route, no crash |
| `keepers` | Are prices sound, fresh while somebody needs them, and never replaced by older ones, whatever venues, crashes and administrators do? Do refills keep their bounds, and does no entry expire? | one market or one stablecoin, two prices inside Reflector's band and past the peg's, a transaction that outlives its poll, one upset, time for two heartbeats; two wallets, two refills, two entries over five days |
| `liquidation_keeper` | Does a short account become healthy, is a debit settled, does the account's collateral pay before insurance, is every loss recorded? | two accounts, two markets of which the keeper tracks one, prices that shorten, bankrupt and refuse, a fund that cannot pay the reward of a full close, two polls that end undecided |
| `liquidation_usdt0_only` (violation) | Is a loss recorded for an account that only ever held USDT0? | as above, with that account |
| `background_jobs` | Does funding keep accruing and is its staleness reported? Do the tables catch up with what they copy? | two markets of which one always refuses, two rounds of the monitor that overlap, one fault; two ticks that overlap, two accounts, two changes, one failure |
| `governance` | Do contract and scripts implement the timelock, does the handover complete, and is no market live without its feed and the vault's copy? | four targets (the pausable vault, the frozen liquidation contract, oracle, engine), the vault in the transfer ceremony too, a delay of one, two runs of other scripts, one fault (cancelling one of the handover's own proposals among them) |
| `deployment` | Is a deployment that dies resumed, with no key lost and nothing listed unpriced? | all eight contracts, either network, two state files, two runs of other scripts, three generations of contracts, one fault |
| `trading_terminal` | Is what is shown true, does every tab catch up, does the book recover, does the ticker yield to the oracle, is a payment pressed again made once? | two tabs, one of which trades and may be reloaded, two orders, clocks of two values that step back, room for one order in a list and in a poll (both caps bite), one fault; three sockets, two markets; two dialogs, two transactions, two mishaps (page loads, delistings, other deposits), a cap and a purse the second press can exceed |

Every action fires in some passing run. Deadlock is checked for the contracts; elsewhere
the system may stop (everything filled, deployed, handed over, or a bound
reached), which the configurations say.

`TypeOK` of the modules that have theorems is proved and not repeated in a run;
elsewhere it is a conjunct of the invariant that needs it (`BooksAgree`,
`OneRequestSubmits`, `PriceIsSound`, `RefillStaysInBounds`, `LossIsRecorded`,
`MarketHasFeed`, `DeploymentIsSafe`).

### What the properties say where it is not obvious

* `SolventTraderCanExit`: the whole of what the gateway does for a closing side,
  the reduction and then the fee with the margin it asks again, succeeds for a
  trader whose collateral covers the loss, the funding and the fee, while the vault
  is open and both feeds are fresh. With a stale feed nobody exits, which the code
  intends.
* `ConfirmedIsSettled`: in `pipeline_fallback` with crashes, the sign route and the
  reconciler. What the database says the other way round, that what settled is
  recorded and counted, does not hold (`pipeline_rollback` and section 6).
* `PriceIsSound`: no two venues are wrong together unless Reflector is right;
  then what the keeper publishes is within Reflector's band of the truth. A price served
  for a quorum feed was attested by all its sources, or written by the admin, even
  after the feed was switched from single source. A lost peg silences its feed
  once the last price has aged.
* `FreshWhenNeeded`: promised only from `Settle` after the last upset, since a
  crash may cost a whole heartbeat, only for feeds the keeper publishes, and only
  for the reasons the activity check looks for (`Signals`; a vault that holds only
  USDT0 is none of them, see section 6).
* `EventuallyHealthy`: for accounts with a position the keeper tracks whose
  reward the fund can pay. The keeper retries with smaller sizes when the fund
  cannot pay for a full close; a market without an oracle symbol is passed over.
* `CollateralPaysFirst`: a seizure credits no more than the haircut value of what
  it took; and insurance is asked for more than the reward and one unit of
  collateral are worth only when the account has nothing left worth seizing. The
  one unit is real: `seize_for_deficit_inner` rounds what it takes and what it
  credits.
* `TimelockHolds`: the refinement of `Timelock`, a property of steps of the whole
  system. It says nothing of what happens before a contract is handed over.
* `HandoverCompletes`: unless the transfer ceremony left a pausable contract
  without a guardian, which nobody can then repair through the key (`Stranded`), or one of the
  handover's own proposals was cancelled, whose id can never be queued again
  (`Withdrawn`).
* `DeployResumes`: unless the state is one the scripts cannot get past
  (`Stuck`), see the list in section 6.
* `ShownIsTrue`: an order is shown filled or cancelled only if it was, and no page
  gives two of its orders one nonce. Across tabs and page loads nonces do repeat
  (section 6).
* `TabsCatchUp`: infinitely often no connected tab is behind what the gateway holds
  of an order it polls. Of an order whose entry was pruned before the tab looked,
  the tab never hears, and shows it as open; no other source tells it.
* `RetryPaysOnce`: of two transactions of which one was undecided when the other
  was built, at most one is ever included: neither carries a number beyond the account's next
  one, which the first inclusion uses up. It holds for
  timeouts over live transactions and for page loads. It says nothing of a
  transaction that was included before the second press, reported as failed all the
  same: the client does not look for it, and the second is paid beside it.

### Fairness

* `SettlementPipeline`: matcher and reconciler are `while (true)` loops whose
  statements return or throw (weak fairness of their steps); a reconciler tick
  visits every row it selects (strong fairness of each selection); a request that
  is being served runs to its end; a transaction carries a 60-second time bound,
  so it is included or expires. Nothing is assumed of clients, who may never
  sign.
* `LiquidationKeeper`: weak fairness of the keeper's loop and of the inclusion of
  the transaction it waits for. Nothing is assumed of traders, prices or of
  transactions it gave up on.
* `FundingWatch`: weak fairness of the keeper's loop, of inclusion, of each
  monitor round, and of the operator's top-up once told.
* `ReadModels`: weak fairness of each tick's steps; strong fairness of the upsert
  that is followed by an aggregation, since every sixth tick aggregates and the
  model does not count to six.
* `Governance`: the operator repeats the handover (`StartHandover`), scripts run
  on, transactions are included, time passes, and a guardian who paused lifts the
  pause and accepts his appointment. `Deployment`: the operator resumes, scripts
  run on, transactions are included.
* `TradingClient`: a connected tab's reconciliation runs on its interval.
  `MarketStream`: polls, reconnect timer and callbacks run; strong fairness of the
  poll's answer, as a request may fail but not always; the server broadcasts.

Crashes, lost reads and messages are not fair and are finite in number because
each consumes a budget: after the last one the system must recover.

## 4. Proofs

Seven modules prove theorems with TLAPS, over facts kept in `SetTheorems`. They
hold for every value of the constants that satisfies the module's named
assumptions: any number of accounts, orders, wallets, assets, jobs or
transactions, any prices and amounts, and any value of the bounds (`MaxFills`,
`MaxCrashes`, ...) that keep TLC's instances finite.

| Module | Theorems | Property of a run |
|---|---|---|
| `TraderProofs` | `TypeCorrect`, `NoOverfill`, `CancelFinal`; `ShownIsAlwaysTrue`; `RetryAlwaysPaysOnce`; `TickerAlwaysYields` | `NeverOverfilled`, `CancelIsFinal`; `ShownIsTrue`; `RetryPaysOnce`; `TickerYieldsToOracle` |
| `FundAndDeploymentProofs` | `TypeCorrect`, `PoolsBacked`, `CapitalAndShares`, `RequestsCovered`, `PriceFallsOnlyBySweep`; `DeploymentStaysSafe` | `PoolsAreBacked`, `CapitalHasShares`, `RequestsAreCovered`, `SharePriceOnlyFallsBySweep`; `DeploymentIsSafe` |
| `ClearingHouseProofs` | `BooksAlwaysBalance`, `BooksAlwaysAgree`, `ValueIsAlwaysConserved`, `PauseAlwaysFreezesBalances`, `AdlAlwaysPaysItsDebt`, `OwnActionsAlwaysKeepMargin`, `SolventTradersCanAlwaysExit` | all three invariants and three action properties |
| `SettlementPipelineProofs` | `NobodyIsWrongAboutTheChain`, `ConfirmedIsAlwaysSettled`, `OneRequestAlwaysSubmits` | `ConfirmedIsSettled`, `OneRequestSubmits` |
| `KeepersProofs` | `UpkeepIsSound`, `RefillKeepsBounds`, `EntriesStayLive`; `OracleIsWellFormed`, `QuorumIsKept`, `NewerAlwaysWins`, `PricesAreAlwaysSound`, `PricesStayFresh` | `RefillStaysInBounds`, `NothingArchived`, `OlderNeverWins`, `PriceIsSound`, `FreshWhenNeeded` |
| `LiquidationProofs` | `KeeperIsWellFormed`, `LossIsAlwaysRecorded`, `CollateralAlwaysPaysFirst` | `LossIsRecorded`, `CollateralPaysFirst` |
| `GovernanceProofs` | `ScriptsAndChainAgree`, `MarketAlwaysHasFeed`, `GovernanceImplementsTimelock` | `MarketHasFeed`, `TimelockHolds` |

### The arguments

**Gateway.** Neither `NeverOverfilled` nor `CancelIsFinal` is inductive. `IInv` adds
what pruning needs: an entry carries the expiry of the one order placed under
its key (`OneOrderPerKey`, `EntryCarriesExpiry`), so it is pruned only when that
order has expired, and then either the entry still counts everything executed or
the order is dead (`FilledIsExecutedOrExpired`); a tombstone lasts as long as the
order it kills (`TombstoneOutlivesOrder`), because the intake bounds every expiry
by `now + MaxOrderTtl` (`ExpiryInWindow`). Without the intake both fail: the
configuration `MCContracts_farexpiry` shows it for the cancel, and two orders
signed under one nonce with different expiries do it for the overfill (pruning
the entry they share at the shorter expiry).

**Insurance fund.** `FundInv` adds `RequestsNotAhead`: no request is ahead of the
current epoch, so a wipe makes every request stale and none can meet the new
epoch's shares. The price argument rests on lemmas about truncating division:
minting `a*total \div nav` and paying `r*nav \div total` both round against the
one who moves.

**Clearing house.** `BooksBalance` says of the ledger that each open-interest
counter is the sum over all accounts, that the vault's mirror equals the
engine's book, that the house holds the other side of the skew, and that the
tokens in custody with the house's cash are what accounts hold, are owed in
funding and have paid for their positions, up to what averaging entry prices
dropped. A nested contract call is a set of ledgers, so the work is one lemma per
call, stating what every ledger it returns has in common with the one it was
given (`Shift`: the accounts bought a quantity for cash), and lemmas that chain
calls. The action properties use the same lemmas. `OwnActionsAlwaysKeepMargin`
also needs that an invocation leaves accounts it does not name as they were, and
that closing at the oracle price or below the initial margin never lowers a
healthy account. `SolventTradersCanAlwaysExit` is the opposite kind of statement:
the code path of a full close is followed through every check it could stop at,
those of `charge_trade_fee` after the reduction among them. Without positions there
is no margin to ask for, and what the trader's cash must cover is exactly the fee.

**Settlement pipeline.** Nobody is wrong about the chain: a row, a request, the
matcher and the reconciler name only transactions that were sent for their own
job, and say settled only of what is settled (`TrueRow`, `TrueRequest`,
`MatcherPart`, `ReconcilerPart`). The chain only grows, which is what keeps a
value read long ago true when it is written (`ChainGrows`). `ClaimsPart` adds
that a request past its claim took the row out of `QUEUED` and that no statement
moves one back.

`FilledCountsFills` is not an invariant of the pipeline: a second rollback makes
`filledSize` disagree with the fills even without a crash, which is the run
`pipeline_rollback`. Nothing is proved of it.

**Refill and TTL keeper.** A payment is planned long before it is sent, may land
after it was given up, and is then replaced or not. The invariant counts, for
each wallet, what it holds, what may still land in it and what the running refill
will still send, and bounds that by the target; and bounds the sum of the last two
by what the funding account has above its reserve. For the TTL keeper, an entry's
remaining days and the failures in a row so far add up to at least the threshold.

**Oracle.** `get_price` of a quorum feed serves only what its sources or the admin
wrote because a quorum feed's publisher is the admin, whatever the feed was, and
because a price carries the source it was written under. `NewerAlwaysWins` is
`validate_monotonic_publish_time` on every path that writes.

`PricesAreAlwaysSound` has two halves. `AggregatePrice` is a matter of ranks: of
answers one of which is wrong, every right one has the same value, so the k-th
smallest lies between the extremes, the median of three or more is the right
value, and that of two is the rounded average of the right value and one within
the spread limit of it (`RankExists`, `RankOfMost`, `OneWrongVenue`). If more are
wrong, Reflector is right and its band decides (`MarketNearTruth`); a stablecoin
has no Reflector, and its peg test decides (`StableNearPeg`). The other half is
time: a decision is about what the asset is worth when it is taken, and stays
about that, in the transaction and in the ledger, or becomes one from before the
last move (`Vouched`, `SoundPart`), so that it has aged out of `get_price` when
the move is older than `MAX_AGE`. Assumed of the configuration: at least two
sources, a spread limit within Reflector's band, and a peg band below 100 %
(`OracleConstants`; the defaults are 2, 200 within 300, and 100 bps). A median
is stated as the value of a rank, not as the middle of a sorted sequence: a sort is
a choice among permutations that none of the provers can handle.

The attempt corrected the model and the property. The keeper's spread test and the
contract's quorum test are exact, not in truncated basis points, and the average
is rounded; and Reflector's band is in the basis points of `divergenceBps`, which
truncates, so a price may be up to one basis point further from the truth than
the limit says.

`PricesStayFresh` is about the sum of the delays, which `DelaysFit` states and TLC
evaluates: a heartbeat and the backdate fit into the guard's age, the activity
check comes round within the idle grace, and `Settle`, from when on the property
promises anything, is no shorter than a heartbeat. With the defaults (60 or 90 s,
15 s, and the 8 s of a fetch within 120 s; 30 s within 900 s) all hold. No bound on
how long a poll takes is needed: a tick whose poll outlives its unit of time is
late, and resets `quiet`. The argument goes from the activity check to the chain.
A check made since prices are needed has seen it (`CheckPart`), so the tick was not
skipped; what a healthy tick has visited was published less than a heartbeat ago
(`TickPart`, with `QueuePart` for what it has still to visit), hence after it no
publication is older than that (`PublishedPart`); and what the keeper remembers
since the last fault is on chain, no older than what it remembers less the backdate
(`OnChainPart`), because no later write replaces it by an older one and no
reconfiguration came between. `FreshInv` joins these to `OracleInv`.

**Liquidation.** `DebtPart` says of an account without positions that its debit is
at most what its other collateral is worth plus the recorded bad debt, and of
every account that its balances are among the assets a snapshot values. The
second fails for accounts that only ever held USDT0, so both theorems assume
`SoundStart`, which the initial portfolios of the passing run satisfy and those of
`liquidation_usdt0_only` do not: the assumption is exactly what that run's finding
is about. The rest is arithmetic: the haircut value of collateral is
subadditive, and rounding leaves at most one unit of it. The attempt at
`CollateralPaysFirst` corrected that property: insurance may be asked for exactly
one unit's worth while a unit is left.

**Governance.** `IInv` follows a registration through the scripts: what a script
is about to send, what may still be included, what its checkpoint file says and
what is registered agree, so that a market's call never comes before its feed's.
`GovernanceImplementsTimelock` maps the initial states and every step to
`Timelock`: proposals are its notices, the pause its veto, the targets whose admin
is the timelock its governed contracts, and what an action writes is what it
reaches (`Writes`), so that the vault's copy of a market, too, changes only under
the timelock's terms once the vault is governed. Any proposal may be cancelled,
the handover's own among them. A step of a script, a lost transaction, a crash or a
vain proposal is a stutter.

**Deployment.** A deployment is safe because of the order in which its steps can
have happened, whoever was interrupted in between. `DeployInv` says so of each
place that remembers a step. On chain, what the clients rely on is never taken
back: a reference between core contracts, once set to a contract, and the cap of a
collateral stay, and no field becomes empty (`Grows`); `initialize` writes the
admin as the vault's engine only before the contract is ready, and every call
that overwrites it comes after. A transaction still pending from a run that is over
is harmless whenever it lands: it writes references of its own generation and keys
that are kept, and a listing only if the cap and a price are already there
(`LivePart`). A checkpoint in a state file stands for steps whose writes are on
chain (`FilePart`), because it is written after the last call under its key; so
does the position of the running script (`BehindPart`), whether it got there by
doing steps, by recognising them on chain or by skipping checkpointed ones. The
keys: a script is past its first step only with the keys whose secrets are on file
(`DeployPart`), and secrets are written once (`WrittenPart`). About forty lemmas
say what the plans consist of, for any generation: a step of any script writes no
role key but `FromFile` and `FromEnv`, and no reference to another generation's
core; then one lemma per action shows that the parts survive it.

**Web client.** `ShownIsTrue` needs more than true lists. A tab writes its own,
possibly old list over the shared storage, so every list and the storage are said
to hold only entries that are true of what the chain did (`ListsPart`). The gateway
prunes its entries, so truth is measured by history: an entry says only what
happened (`EntriesPart`), and what happened stays so. A cancel is marked on a
screen steps after it landed (`CancelPart`), with tabs overwriting one another in
between. That a page repeats no nonce follows from the clamp in `nextOrderNonce`
(`IntentsPart`: what a page has drawn lies at or below its last nonce); the theorem
claims it of no two pages.

`RetryPaysOnce` is inductive only with `SequencePart` and `RivalPart`: no
transaction is ahead of the account's next sequence number, and what is included
uses up the numbers of all that were undecided beside it, whether those were built
before, on the same number, or after, on a number read from a node that lags.
`TickerYieldsToOracle` needs that a ticker which counts was started for the market
on screen (`PollPart`).

**Induction.** The library's induction theorems take an operator and cannot be
used, so `SetTheorems` derives what is needed from minimal counterexamples: a set
of naturals that holds zero and is closed under successor is all of them
(`LeastNatural`), a family of finite sets that holds the empty set and is closed
under adding an element holds every finite set (`ElementByElement`). From these
come the minimum and maximum of a finite set and the laws of `SumFunction`
(`SumPick`, `SumSplit`, `SumCombine`, `SumUpdate`, `SumOfNaturals`).

### Only model-checked

* Liveness (every `~>` and `<>` property) and what needs `ENABLED`: out of the
  prover's reach.

## 5. Not modelled

* i128 overflow: the code uses checked arithmetic throughout and reverts; the
  models use integers and values far below the bounds.
* Authentication, signature bytes, XDR and rate limits: reduced to who may take
  which action.
* In `ClearingHouse`: several markets, isolated margin, the mark TWAP and the
  funding rate (the delta is an input), migration, configuration and admin
  operations. Other collateral and its seizure are in `LiquidationKeeper`, which
  leaves funding out.
* The order of matches across a whole book (`matchAll`), market orders, the
  matcher's oracle band and `Market.volume`.
* The trade tape, the 24-hour figures and the statistics on screen, which follow
  the same two paths as the book; layout, charts and formatting.
* Read-only API routes (queries without state), drills and gates that leave no
  state, `clear-stale-jobs` (a manual form of the reconciler's expiry), the
  `perp-risk` contract (a stateless wrapper around the risk-engine crate).
* `PnlEvent` and `BalanceChange`: no code writes them (`client/lib/stats.ts:7`).

Two hazards have no property. A batch re-imported before the migration's seal
adds its size to open interest again (`perp-engine/src/lib.rs:481`): migration is
not modelled. A transaction that expired unseen leaves its job `SUBMITTED`
(`settlement-reconciler.ts:163`): the natural property does not hold, see below.
A third limit of the models: the storage-rent model assumes that the TTL keeper's
fee ceiling covers the rent of every entry (`UpkeepAssumption`).

## 6. Where the code and its own words differ

### Two runs and their findings

`liquidation_usdt0_only`: the vault's snapshot values only the assets an account
deposited or imported. An account that holds only USDT0 and is liquidated at a
loss beyond it ends with a debit of the settlement asset that no snapshot sees:
insurance is not asked and no bad debt is recorded, contrary to the comment at
`perp-vault/src/lib.rs:958`.

`pipeline_rollback`: `settlement-reconciler.ts:77` calls the rollback of a fill
"safe to run more than once". Its decrements are not tied to the row it deletes.
The reconciler rolls back a job it selected as expired while that job is signed and
submitted, and rolls it back again when its transaction fails: the second time
takes another fill's size off the shared maker order.

### Configurations kept beside the runs

Each is checked by hand (`tlc -config X.cfg M`) and ends in a counterexample.

| Configuration | Module | What happens |
|---|---|---|
| `MCContracts_farexpiry` | `MCContracts` | an order that expires after its tombstone is filled once the tombstone is pruned (only without the intake) |
| `InsuranceFund_stale` | `InsuranceFund` | clearing a stale request deletes shares of the new epoch |
| `MCClearingHouse_baddebt` | `MCClearingHouse` | two partial liquidations record the same shortfall twice |
| `MCSettlementPipeline_lostpoll` | `MCSettlementPipeline` | a fill is rolled back and then settles |
| `MCSettlementPipeline_stuck` | `MCSettlementPipeline` | an expired transaction leaves its job `SUBMITTED` for ever |
| `MCSettlementPipeline_failed` | `MCSettlementPipeline` | a failed submission leaves the fill in place |
| `MCGovernance_market` | `MCGovernance` | a matured `set_market` of a governed engine is refused by the vault, whose admin is the timelock too, although `execute` is said to satisfy the target's `require_admin` |
| `MCTerminal_nonces` | `MCTerminal` | after a page load and a clock that steps back, two orders get one nonce, although `order-intent.ts:18-32` says uniqueness holds unconditionally |

### Met while modelling

The models contain each of these as the code has it, unless it says otherwise;
where a property would be false because of one, the property says so.

Settlement
* Between the sign route's claim and its stored hash the reconciler's claim
  succeeds too, so two transactions of one fill can be live; the gateway refuses
  the second.

Oracle and liquidation
* A vault that holds only USDT0 does not count as activity, so publication may
  idle although `client/lib/oracle-activity.ts:10` promises exits.
* Switching a feed from quorum to single source waits up to a heartbeat for its
  first price; the admin may write a price into a quorum feed;
  `update-oracle-publisher` changes only the source's publisher.
* `setup-usdc-feed` seeds with the local clock, which the adapter refuses when the
  ledger trails it.
* `settle_deficit` is sent again every tick while a debit remains; the ladder
  also goes down after a time-out, not only after a refusal; the smallest size,
  said to restore health, does not always do so.

Keepers
* The refill does not know the funding keeper's wallet; run again within the
  60 seconds of a payment's time bound it can pay twice.
* The monitor records a recovery before it posts it, and never repeats a lost one.
* The TTL keeper refuses a bill above its ceiling; the next day's bill is larger.

Governance and deployment
* Once engine and vault are both handed over, no proposal can list or change a
  market: the engine's nested call needs the vault's admin, which is the timelock,
  and nothing authorises the timelock below the call it makes itself.
* A proposal that failed to apply stays executable (the revert undoes the mark);
  a cancelled handover or market proposal can never be queued again under its id.
* `add-market` tolerates errors #1 and #2 where the contract answers #12 and #11:
  a queue that was interrupted is not completed by the script, and one that is
  repeated pushes the recorded eta back.
* A crash of the verification drill leaves governance paused, one of
  `set-risk-params` leaves the ceiling cleared, and the transfer ceremony can
  strand a pausable contract without a guardian.
* The deployment tolerates #3 where a second initialisation answers #12: an
  initialisation that landed unrecorded stops every later run. Versioned state
  files share one secrets file and one salt, so a second file adopts the first's
  contracts. Operator accounts are recorded as created when their transaction
  never landed.
* `redeploy-core` and `redeploy-oracle` patch files that do not exist, and fall
  back on the admin as the gateway's operator; `rewire-liquidation` takes a failed
  initialisation for a repeated one and repeats its deposit.

Web client and read models
* Reconciliation asks for the order rows with a request the route does not answer,
  so only the chain tells a tab what became of an order.
* An order whose answer was lost rests untracked; a close order that was rejected
  is tracked; a tab that writes its whole list erases what another just added;
  expired orders stay pending, and twenty of them keep older ones unchecked.
* The nonce's counters start anew with every page load and are unknown to other
  tabs, so two tabs in one millisecond, or a page load and a clock that steps back,
  draw one nonce twice; the intake answers that both were stored. A cancel of one
  is a cancel of the other.
* An order whose gateway entry was pruned before a tab looked stays open in that
  tab for ever.
* The late close of a replaced socket clears its successor's variable and leaks
  the connection. Trades between the last poll and the subscription are not shown.
* Polls that throw or run out report a transaction as failed that is included
  already or will be. Pressed again before it is included, it is paid once
  (`RetryPaysOnce`); pressed again after, twice.
* An account whose fills left the period keeps its last statistics row.

## 7. Plan

Every invariant of the runs is proved. To model:
the mark's TWAP window and the same-ledger poke, `matchAll` against a reference
allocation, migration against the open-interest counters.
