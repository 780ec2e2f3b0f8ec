------------------------- MODULE LiquidationKeeper -------------------------
(***************************************************************************)
(* The liquidation keeper (client/scripts/liquidation-keeper.ts), the      *)
(* close sizes it tries (client/lib/market/liquidation-sizing.ts), and     *)
(* what its transactions do on chain: perp-liquidation.liquidate with the  *)
(* vault's health, seizure and bad-debt coverage, and settle_deficit.      *)
(*                                                                         *)
(* The keeper reads an account in several calls and acts later.  A         *)
(* transaction it stopped polling for may still land; all of them share    *)
(* one account whose sequence number only one of them can use.  Positions  *)
(* are long, entered at Entry; the settlement asset is worth one and has   *)
(* no haircut; `other` stands for the one further collateral (USDT0).      *)
(* Funding is left out: ClearingHouse has it.  So is the vault's pause,    *)
(* which would refuse every call below, the operator the vault lets settle *)
(* another's deficit (the keeper's key is taken to be that one), and the   *)
(* collateral assets' feeds, which are taken to answer.                    *)
(***************************************************************************)
EXTENDS Integers, Sequences, FiniteSets, SequencesExt, FiniteSetsExt

CONSTANTS
    Users,
    Markets,            \* numbers: markets a position may be in
    ActiveMarkets,      \* the markets the keeper knows an oracle symbol for
    Prices,             \* oracle prices; NoPrice when get_price refuses
    Entry,
    MaintenanceBps, RewardBps, BandBps,
    OtherPrice, HaircutBps,
    MAX_ACCOUNTS_PER_TICK,
    SETTLE_DEFICITS,
    Portfolios,         \* what the accounts may hold at first, per user
    InitialPrices, InitialFund,
    TopUp,              \* what a trader adds in one deposit
    MaxEvents,          \* bound on price moves, deposits, days and failed reads
    MaxTimeouts         \* bound on polls that end undecided

NoPrice == 0

Account == [size: [Markets -> Nat], cash: Int, other: Nat,
            assets: SUBSET {"USDC", "USDT0"}]

ASSUME LiquidationConstants ==
    /\ {MaintenanceBps, RewardBps, BandBps, HaircutBps} \subseteq 0 .. 10000
    /\ ActiveMarkets \subseteq Markets /\ Markets \subseteq Nat
    /\ IsFiniteSet(Users) /\ IsFiniteSet(Markets) /\ IsFiniteSet(Prices)
    /\ Prices \subseteq Nat /\ InitialPrices \subseteq Prices
    /\ Entry \in Nat \ {0} /\ OtherPrice \in Nat \ {0}
    /\ SETTLE_DEFICITS \in BOOLEAN
    /\ {MAX_ACCOUNTS_PER_TICK, InitialFund, TopUp, MaxEvents, MaxTimeouts} \subseteq Nat
    /\ Portfolios \subseteq [Users -> Account]

VARIABLES
    price,      \* oracle price per market
    account,    \* per user: size per market, cash, other, recorded assets
    fund,       \* insurance fund in the settlement asset
    badDebt,    \* debt the insurance contract recorded
    recent,     \* "Account" rows, most recently updated first
    pool,       \* the keeper's transactions that may still land
    pc,         \* keeper: where the loop is
    queue,      \* keeper: accounts this scan has still to visit
    health,     \* keeper: account_health as it was read
    plan,       \* keeper: positions still to try, the largest first
    ladder,     \* keeper: closes of one of them still to try, the smallest first
    sent,       \* keeper: the transaction being polled for
    outcome,    \* what getTransaction answers for it
    bumpDue,    \* keeper: instances whose daily TTL bump has still to be sent
    events,     \* how much the world did so far
    timeouts    \* how many polls ended undecided so far

chainVars == <<account, fund, badDebt, recent>>
keeperVars == <<pc, queue, health, plan, ladder, sent, bumpDue>>
txVars == <<pool, outcome, timeouts>>
vars == <<price, chainVars, keeperVars, txVars, events>>

Event == events < MaxEvents /\ events' = events + 1

Instances == <<"gateway", "engine", "vault", "oracle">>
ApplyBps(amount, bps) == (amount * bps) \div 10000

-----------------------------------------------------------------------------
(* The chain: health, liquidation, seizure *)

NetValue(n) == n * OtherPrice - ApplyBps(n * OtherPrice, HaircutBps)

\* account_snapshot_all_assets: only assets the account ever deposited count;
\* an account without any is valued by its settlement balance.
Collateral(a) ==
    (IF "USDC" \in a.assets \/ a.assets = {} THEN a.cash ELSE 0)
    + (IF "USDT0" \in a.assets THEN NetValue(a.other) ELSE 0)

UnrealizedPnl(a) == SumFunction([m \in Markets |-> a.size[m] * (price[m] - Entry)])
Equity(a) == Collateral(a) + UnrealizedPnl(a)
Maintenance(a) ==
    SumFunction([m \in Markets |-> ApplyBps(a.size[m] * price[m], MaintenanceBps)])

\* Every market the account is in must have a price, or health is an error.
Priced(a) == \A m \in Markets : a.size[m] > 0 => price[m] # NoPrice
Liquidatable(a) == Priced(a) /\ Maintenance(a) > 0 /\ Equity(a) < Maintenance(a)

\* A liquidation has improved an account.  Ratios are compared by cross
\* multiplication; nothing left to maintain is the best ratio there is.
Improved(before, after) ==
    IF Equity(before) > 0 /\ Equity(after) > 0
    THEN Maintenance(after) = 0
         \/ Equity(after) * Maintenance(before) > Equity(before) * Maintenance(after)
    ELSE Maintenance(after) < Maintenance(before)

\* The credit is derived from the rounded amount.
Credited(taken) == NetValue(taken)

\* seize_for_deficit_inner: as much of the other collateral as the debt needs,
\* rounded down.
Seized(a) ==
    IF a.cash >= 0 \/ NetValue(a.other) <= 0 \/ "USDT0" \notin a.assets THEN a
    ELSE LET debt == -a.cash
             net == NetValue(a.other)
             taken == IF net <= debt THEN a.other ELSE (a.other * debt) \div net
         IN  IF Credited(taken) <= 0 THEN a
             ELSE [a EXCEPT !.other = @ - taken, !.cash = @ + Credited(taken)]

\* Closing n at a price realises the loss or gain in the settlement asset.
Reduced(a, m, n, at) ==
    [a EXCEPT !.size[m] = @ - n, !.cash = @ + n * (at - Entry)]

Reward(n, at) == ApplyBps(n * at, RewardBps)
InBand(m, at) ==
    /\ price[m] # NoPrice
    /\ at - price[m] \in -ApplyBps(price[m], BandBps) .. ApplyBps(price[m], BandBps)

Closable(a, m, n) == n <= a.size[m]

\* liquidate() would succeed now.
Accepts(u, m, n, at) ==
    LET a == account[u]
    IN  /\ Liquidatable(a)
        /\ Closable(a, m, n) /\ InBand(m, at)
        /\ Improved(a, Reduced(a, m, n, at))
        /\ Reward(n, at) <= fund

\* Mutant: the fund pays before the account's other collateral is taken.
MutantOwnCollateralFirst(a) == a

\* vault_seize_for_deficit comes before vault_absorb_bad_debt.
OwnCollateralFirst(a) == Seized(a)

\* Mutant: a partly covered deficit counts as covered.
MutantRemaining(deficit, covered) == IF covered > 0 THEN 0 ELSE deficit

\* absorb_bad_debt records what the fund did not cover.
Remaining(deficit, covered) == deficit - covered

\* What insurance is asked for: only for an account under water after the close.
Uncovered(reduced, settled) ==
    IF Equity(reduced) < 0 /\ settled.cash < 0 THEN -settled.cash ELSE 0

\* Everything liquidate() changes; debt the fund cannot cover is recorded.
Liquidate(u, m, n, at) ==
    LET reduced == Reduced(account[u], m, n, at)
        settled == OwnCollateralFirst(reduced)
        deficit == Uncovered(reduced, settled)
        covered == Min({deficit, fund - Reward(n, at)})
    IN  /\ account' = [account EXCEPT ![u] = [settled EXCEPT !.cash = @ + covered]]
        /\ fund' = fund - Reward(n, at) - covered
        /\ badDebt' = badDebt + Remaining(deficit, covered)

-----------------------------------------------------------------------------
(* The keeper *)

\* Candidate close sizes, tried smallest first: the one the shortfall suggests
\* plus a quarter, half, and all.
CloseSizeLadder(size, at, h) ==
    LET shortfall == h.maintenance - h.equity
        minSize == (((size * shortfall) \div (size * at)) * 125) \div 100
        candidates == {size \div 2, size}
                      \cup (IF shortfall > 0 /\ minSize < size THEN {minSize} ELSE {})
    IN  {n \in candidates : n > 0}

\* Positions come by notional at entry, largest first; equal ones in their order.
Before(p, q) == p.size > q.size \/ (p.size = q.size /\ p.market <= q.market)

Positions(a) ==
    {[market |-> m, size |-> a.size[m]] : m \in {k \in Markets : a.size[k] > 0}}

NoTx == [call |-> "none", late |-> FALSE]
NoHealth == [equity |-> 0, maintenance |-> 0]
User == Head(queue)

\* The candidate query: the most recently updated accounts, up to a limit.
StartScan ==
    /\ pc = "idle"
    /\ queue' = SubSeq(recent, 1, Min({Len(recent), MAX_ACCOUNTS_PER_TICK}))
    /\ pc' = IF queue' = <<>> THEN "bump" ELSE "account"
    /\ UNCHANGED <<price, chainVars, health, plan, ladder, sent, bumpDue, txVars, events>>

\* On to the next account, for whatever reason this one is done with.
NextAccount ==
    /\ queue' = Tail(queue)
    /\ pc' = IF Tail(queue) = <<>> THEN "bump" ELSE "account"
    /\ health' = NoHealth /\ plan' = {} /\ ladder' = {}

\* Every pending transaction carries the next sequence number of the keeper's
\* account, which getAccount answers until one of them lands.  A second one the
\* network refuses or that evicts the first is one of them expiring.  A poll
\* lasts 30 seconds and a transaction is valid for 60: of those that timed out
\* only the last can still land once the next is sent.
Submit(tx) ==
    /\ pool' = {tx} \cup {[t EXCEPT !.late = TRUE] : t \in {p \in pool : ~p.late}}
    /\ sent' = tx /\ outcome' = "pending" /\ pc' = "poll"

\* Mutant: only accounts that are to be liquidated have their deficit settled.
MutantOwesVault(a) == a.cash < 0 /\ Liquidatable(a)

OwesVault(a) == a.cash < 0

\* settlementBalance and settleDeficit, for healthy accounts too.
CheckDeficit ==
    /\ pc = "account" /\ queue # <<>>
    /\ IF SETTLE_DEFICITS /\ OwesVault(account[User])
       THEN /\ Submit([call |-> "settle", user |-> User, late |-> FALSE])
            /\ UNCHANGED <<queue, health, plan, ladder>>
       ELSE /\ pc' = "health"
            /\ UNCHANGED <<pool, sent, outcome, queue, health, plan, ladder>>
    /\ UNCHANGED <<price, chainVars, timeouts, bumpDue, events>>

\* accountHealth: an unreadable account is passed over like a healthy one.
ReadHealth ==
    /\ pc = "health"
    /\ LET a == account[User]
       IN  IF Liquidatable(a)
           THEN /\ health' = [equity |-> Equity(a), maintenance |-> Maintenance(a)]
                /\ pc' = "positions"
                /\ UNCHANGED <<queue, plan, ladder>>
           ELSE NextAccount
    /\ UNCHANGED <<price, chainVars, sent, bumpDue, txVars, events>>

\* positionsOf, a later read than the health the sizes are computed from.
ReadPositions ==
    /\ pc = "positions"
    /\ plan' = Positions(account[User]) /\ pc' = "price"
    /\ UNCHANGED <<price, chainVars, queue, health, ladder, sent, bumpDue, txVars, events>>

\* Mutant: a position that cannot be liquidated ends the account's turn.
MutantPassOver(p) == NextAccount

\* A position in a market the keeper does not know, or without a price.
PassOver(p) == plan' = plan \ {p} /\ UNCHANGED <<pc, queue, health, ladder>>

\* oraclePrice of the next position and the close sizes to try on it.
ReadPrice ==
    /\ pc = "price"
    /\ \/ plan = {} /\ NextAccount
       \/ \E p \in plan :
             /\ \A q \in plan : Before(p, q)
             /\ IF p.market \in ActiveMarkets /\ price[p.market] # NoPrice
                THEN /\ plan' = plan \ {p}
                     /\ ladder' = {[market |-> p.market, size |-> n, at |-> price[p.market]] :
                                      n \in CloseSizeLadder(p.size, price[p.market], health)}
                     /\ pc' = "rung"
                     /\ UNCHANGED <<queue, health>>
                ELSE PassOver(p)
    /\ UNCHANGED <<price, chainVars, pool, sent, bumpDue, outcome, timeouts, events>>

\* submitLiquidate on the next size.  A refused simulation and a transaction
\* that was sent are both followed by the next size; the last one by the next
\* position.
TryRung ==
    /\ pc = "rung"
    /\ \/ ladder = {} /\ pc' = "price" /\ UNCHANGED <<ladder, pool, sent, outcome>>
       \/ \E r \in ladder :
             /\ \A s \in ladder : r.size <= s.size
             /\ ladder' = ladder \ {r}
             /\ IF Accepts(User, r.market, r.size, r.at)
                THEN Submit([call |-> "liquidate", user |-> User, market |-> r.market,
                             size |-> r.size, at |-> r.at, late |-> FALSE])
                ELSE UNCHANGED <<pc, pool, sent, outcome>>
    /\ UNCHANGED <<price, chainVars, queue, health, plan, timeouts, bumpDue, events>>

\* The poll ends: a confirmed liquidation ends the account's turn, a failed
\* one and one that is still undecided after 30 seconds lead to the next size.
\* After settle_deficit, whatever became of it, comes the health check.
PollEnds ==
    /\ pc = "poll"
    /\ \/ outcome # "pending" /\ UNCHANGED timeouts
       \/ outcome = "pending" /\ timeouts < MaxTimeouts /\ timeouts' = timeouts + 1
    /\ sent' = NoTx /\ outcome' = "none"
    /\ IF sent.call = "settle"
       THEN pc' = "health" /\ UNCHANGED <<queue, health, plan, ladder>>
       ELSE IF outcome = "success" THEN NextAccount
       ELSE pc' = "rung" /\ UNCHANGED <<queue, health, plan, ladder>>
    /\ UNCHANGED <<price, chainVars, pool, bumpDue, events>>

\* An RPC call throws: the account's try block ends, the scan goes on.
AccountFails ==
    /\ pc \in {"account", "health", "positions", "price", "rung", "poll"} /\ queue # <<>>
    /\ Event
    /\ NextAccount
    /\ sent' = NoTx /\ outcome' = "none"
    /\ UNCHANGED <<price, chainVars, pool, timeouts, bumpDue>>

\* bumpInstanceTtls at the end of a scan: one transaction per instance, none
\* of them waited for.
BumpTtls ==
    /\ pc = "bump"
    /\ IF bumpDue = <<>> THEN pc' = "idle" /\ UNCHANGED <<pool, bumpDue>>
       ELSE /\ bumpDue' = Tail(bumpDue)
            /\ pool' = pool \cup {[call |-> "bump", late |-> FALSE]}
            /\ UNCHANGED pc
    /\ UNCHANGED <<price, chainVars, queue, health, plan, ladder, sent, outcome, timeouts, events>>

-----------------------------------------------------------------------------
(* The network, prices and traders *)

\* What a transaction does when a ledger includes it.
Executes(tx) ==
    CASE tx.call = "liquidate" /\ Accepts(tx.user, tx.market, tx.size, tx.at) ->
            /\ Liquidate(tx.user, tx.market, tx.size, tx.at)
      [] tx.call = "settle" ->
            /\ account' = [account EXCEPT ![tx.user] = Seized(@)]
            /\ UNCHANGED <<fund, badDebt>>
      [] OTHER -> UNCHANGED <<account, fund, badDebt>>

\* The sequence number is used up whether the call succeeds or not.
Survivors(tx) == {}

\* A ledger includes a transaction.
Include(tx) ==
    /\ pool' = Survivors(tx)
    /\ Executes(tx)
    /\ outcome' = IF tx = sent
                  THEN IF tx.call # "liquidate" \/ Accepts(tx.user, tx.market, tx.size, tx.at)
                       THEN "success" ELSE "failed"
                  ELSE IF sent \in pool /\ sent \notin Survivors(tx) THEN "failed" ELSE outcome
    /\ UNCHANGED <<price, recent, keeperVars, timeouts, events>>

\* Nobody included a transaction the keeper stopped polling for.
Expire(tx) ==
    /\ tx # sent
    /\ pool' = pool \ {tx}
    /\ UNCHANGED <<price, chainVars, keeperVars, outcome, timeouts, events>>

MovePrice(m, p) ==
    /\ Event
    /\ price[m] # p
    /\ price' = [price EXCEPT ![m] = p]
    /\ UNCHANGED <<chainVars, keeperVars, txVars>>

\* The rows with u's in front.
Touched(u) ==
    LET at == CHOOSE i \in DOMAIN recent : recent[i] = u
    IN  [i \in DOMAIN recent |-> IF i = 1 THEN u
                                 ELSE IF i <= at THEN recent[i - 1] ELSE recent[i]]

\* A deposit also touches the trader's row.
Deposit(u) ==
    /\ Event
    /\ account' = [account EXCEPT ![u].cash = @ + TopUp, ![u].assets = @ \cup {"USDC"}]
    /\ recent' = Touched(u)
    /\ UNCHANGED <<price, fund, badDebt, keeperVars, txVars>>

\* A day has passed since the last bump of instance TTLs.
DayPasses ==
    /\ Event
    /\ bumpDue' = Instances
    /\ UNCHANGED <<price, chainVars, pc, queue, health, plan, ladder, sent, txVars>>

Init ==
    /\ price \in [Markets -> InitialPrices]
    /\ account \in Portfolios
    /\ fund = InitialFund /\ badDebt = 0
    /\ recent = SetToSeq(Users)
    /\ pool = {} /\ outcome = "none"
    /\ pc = "idle" /\ queue = <<>> /\ health = NoHealth /\ plan = {} /\ ladder = {}
    /\ sent = NoTx /\ bumpDue = <<>> /\ events = 0 /\ timeouts = 0

Keeper == \/ StartScan \/ CheckDeficit \/ ReadHealth \/ ReadPositions \/ ReadPrice
          \/ TryRung \/ PollEnds \/ BumpTtls

Next ==
    \/ Keeper \/ AccountFails
    \/ \E tx \in pool : Include(tx) \/ Expire(tx)
    \/ \E m \in Markets, p \in Prices : MovePrice(m, p)
    \/ \E u \in Users : Deposit(u)
    \/ DayPasses

\* The keeper keeps looping and ledgers keep closing: beyond MaxTimeouts, what
\* it polls for is included.
Fairness ==
    /\ WF_vars(Keeper)
    /\ WF_vars(sent \in pool /\ Include(sent))

Spec == Init /\ [][Next]_vars /\ Fairness

-----------------------------------------------------------------------------
(* Properties *)

TypeOK ==
    /\ price \in [Markets -> Prices]
    /\ account \in [Users -> Account]
    /\ fund \in Nat /\ badDebt \in Nat
    /\ pc \in {"idle", "account", "health", "positions", "price", "rung", "poll", "bump"}
    /\ pc \notin {"idle", "bump"} => queue # <<>>
    /\ outcome \in {"none", "pending", "success", "failed"}

\* An account within the scan's reach that is short of maintenance margin does
\* not stay so: it is liquidated until it is healthy, whatever happens to
\* single transactions, other accounts or positions the keeper cannot price,
\* unless no position it tracks has a requirement of its own (rounded down) or
\* the fund cannot pay the reward for closing one.
Short ==
    {u \in Users : /\ Liquidatable(account[u])
                   /\ \E m \in ActiveMarkets :
                         /\ ApplyBps(account[u].size[m] * price[m], MaintenanceBps) > 0
                         /\ Reward(account[u].size[m], price[m]) <= fund}
EventuallyHealthy == \A u \in Users : u \in Short ~> u \notin Short

\* A debit of the settlement asset is not left outstanding while the account
\* has other collateral worth more than one unit of it, healthy or not.
Owing == {u \in Users : account[u].cash <= -NetValue(1) /\ NetValue(account[u].other) > 0}
DeficitsAreSettled == \A u \in Users : u \in Owing ~> u \notin Owing

\* The account's own collateral pays first and at its value: a seizure credits
\* no more than the haircut value of what it took and never leaves a surplus,
\* and insurance neither covers nor records more of a debt than one unit of the
\* collateral is worth while the account keeps any worth seizing.
CollateralPaysFirst ==
    [][\A u \in Users :
          LET taken == account[u].other - account'[u].other
              closed == SumFunction([m \in Markets |-> account[u].size[m] - account'[u].size[m]])
              asked == (badDebt' - badDebt) + (fund - fund')
          IN  /\ (taken > 0 /\ closed = 0) =>
                    /\ account'[u].cash <= 0
                    /\ account'[u].cash - account[u].cash <= NetValue(taken)
              /\ (closed > 0 /\ asked > NetValue(1) + Reward(closed, Max(Prices))) =>
                    NetValue(account'[u].other) = 0]_vars

Flat(a) == \A m \in Markets : a.size[m] = 0

\* The state is well formed, and a loss nobody pays is on the books: a debit left
\* after the last position was closed is backed by collateral or recorded as bad
\* debt.
LossIsRecorded ==
    /\ TypeOK
    /\ \A u \in Users :
        Flat(account[u]) => -account[u].cash <= NetValue(account[u].other) + badDebt
=============================================================================
