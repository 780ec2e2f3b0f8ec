--------------------------- MODULE ClearingHouse ----------------------------
(***************************************************************************)
(* The engine, the vault and the liquidation contract together, for one    *)
(* market and the settlement asset: positions and open interest in the     *)
(* engine, balances and a mirror of the positions in the vault, margin     *)
(* checks the vault computes from its mirror, and the insurance fund's     *)
(* operating pool and bad debt as liquidation moves them.                  *)
(*                                                                         *)
(* An invocation is atomic, and an error in any nested call reverts all of *)
(* it.  A contract call is therefore an operator from a ledger to the set  *)
(* of ledgers it can return: one when it succeeds, none when it errs.      *)
(* Amounts are whole units (PRECISION = 1).                                *)
(***************************************************************************)
EXTENDS Integers, Sequences, FiniteSets, FiniteSetsExt

CONSTANTS
    Users,
    FeeRecipient, Insurance,    \* vault accounts that never trade
    Prices,             \* prices the oracle may publish for the market
    Quotes,             \* and for the settlement asset
    ExecutionPrices,    \* prices a fill or a liquidation may name
    Sizes,              \* sizes a fill or a liquidation may name
    Amounts,            \* amounts deposited or withdrawn
    FundingDeltas,      \* moves of the long funding index
    InitialBps, MaintenanceBps, HaircutBps, DeviationBps,
    MakerFeeBps, TakerFeeBps, RewardBps,
    OiPolicyBps,        \* set_oi_policy, or NoPolicy
    MaxOpenInterest, MaxPositions, DepositCap,
    RatioPrecision,     \* fixed-point scale of margin_ratio
    MaxFund,            \* bound on the insurance fund
    MaxIndex,           \* bound on the funding indexes
    MaxFills            \* bound on the number of fills

NoPolicy == -1
Stale == 0              \* no price that passes the oracle's guards
Accounts == Users \cup {FeeRecipient, Insurance}

ASSUME ClearingHouseConstants ==
    /\ IsFiniteSet(Users) /\ FeeRecipient \notin Users /\ Insurance \notin Users
    /\ Prices \cup Quotes \cup ExecutionPrices \cup Sizes \cup Amounts \subseteq Nat \ {0}
    /\ FundingDeltas \subseteq Int
    /\ {InitialBps, MaintenanceBps, DeviationBps, MakerFeeBps, TakerFeeBps, RewardBps} \subseteq Nat
    /\ 0 < MaintenanceBps /\ MaintenanceBps <= InitialBps
    /\ HaircutBps \in 0..10000      \* set_collateral refuses more
    /\ MaxFills \in Nat

VARIABLES
    ledger,     \* what the engine and the vault store about accounts
    depositors, \* accounts whose DataKey::UserAssets names the settlement asset
    price,      \* the oracle's price of the market's asset, or Stale
    quote,      \* the oracle's price of the settlement asset, or Stale
    paused,     \* the vault's emergency pause
    custody,    \* tokens the vault holds
    deposited,  \* DataKey::TotalDeposited
    fund,       \* the insurance contract's operating pool
    badDebt,    \* the insurance contract's recorded bad debt
    house,      \* history: the uncovered side of liquidations and ADL
    fills       \* history: number of fills

vars == <<ledger, depositors, price, quote, paused, custody, deposited, fund, badDebt, house, fills>>

ApplyBps(amount, bps) == (amount * bps) \div 10000
Lesser(a, b) == IF a <= b THEN a ELSE b
Larger(a, b) == IF a >= b THEN a ELSE b
Sign(p) == IF p.is_long THEN 1 ELSE -1
Succeed(l, condition) == IF condition THEN {l} ELSE {}
AndThen(results, Call(_)) == UNION {Call(l) : l \in results}

-----------------------------------------------------------------------------
(* The vault: balances, the mirror, and the health it derives from them.   *)

AfterHaircut(value) == IF value < 0 THEN value ELSE value - ApplyBps(value, HaircutBps)

PositionPnl(p, at) == Sign(p) * p.size * (at - p.entry_price)
FundingPnl(p, index) == -(p.size * (index[p.is_long] - p.last_funding_index))

\* Sum of a quantity over the positions of one account.
OverPositions(positions, Quantity(_)) ==
    SumFunction([i \in DOMAIN positions |-> Quantity(positions[i])])

Equity(l, u) ==
    AfterHaircut(l.balance[u] * quote)
        + OverPositions(l.synced[u],
              LAMBDA p : PositionPnl(p, price) + FundingPnl(p, l.synced_index))
Required(l, u, bps) == OverPositions(l.synced[u], LAMBDA p : ApplyBps(p.size * price, bps))
InitialMargin(l, u) == Required(l, u, InitialBps)
MaintenanceMargin(l, u) == Required(l, u, MaintenanceBps)

\* account_health errs when a position's market has no acceptable price, or the
\* settlement asset has none; a depositor's empty balance is skipped unread.
Priced(l, u) ==
    /\ l.synced[u] = <<>> \/ price # Stale
    /\ (l.balance[u] = 0 /\ u \in depositors) \/ quote # Stale
AboveInitialMargin(l, u) == Priced(l, u) /\ Equity(l, u) >= InitialMargin(l, u)

\* A margin ratio with nothing to maintain is i128::MAX: better than any other.
RatioImproved(before, after, u) ==
    LET ratio(l) == (Equity(l, u) * RatioPrecision) \div MaintenanceMargin(l, u)
    IN  IF MaintenanceMargin(after, u) = 0
        THEN MaintenanceMargin(before, u) > 0
        ELSE MaintenanceMargin(before, u) > 0 /\ ratio(after) > ratio(before)

Liquidatable(l, u) ==
    /\ Priced(l, u)
    /\ MaintenanceMargin(l, u) > 0
    /\ Equity(l, u) < MaintenanceMargin(l, u)

Credit(l, account, amount) == [l EXCEPT !.balance[account] = @ + amount]
\* Mutant: a paused vault still moves balances for the engine.
MutantApplyPnl(l, account, pnl) == {Credit(l, account, pnl)}

ApplyPnl(l, account, pnl) == Succeed(Credit(l, account, pnl), ~paused)
SyncPositions(l, u) == [l EXCEPT !.synced[u] = l.positions[u]]

-----------------------------------------------------------------------------
(* The engine.                                                             *)

HasHeadroom(oi, at) ==
    OiPolicyBps # NoPolicy =>
        oi * at <= (Larger(0, fund - badDebt) * OiPolicyBps) \div 10000

\* Mutant: every trade, an exit too, needs the insurance headroom.
MutantInBand(at) ==
    /\ price # Stale
    /\ HasHeadroom(ledger.open_interest, at)
    /\ at >= price - ApplyBps(price, DeviationBps)
    /\ at <= price + ApplyBps(price, DeviationBps)

InBand(at) ==
    /\ price # Stale
    /\ at >= price - ApplyBps(price, DeviationBps)
    /\ at <= price + ApplyBps(price, DeviationBps)

AddInterest(l, is_long, delta) ==
    [l EXCEPT !.open_interest = @ + delta, !.side_interest[is_long] = @ + delta]

SettleFunding(l, u, i) ==
    LET p == l.positions[u][i]
        pnl == FundingPnl(p, l.index)
        paid == IF pnl = 0 THEN {l} ELSE ApplyPnl(l, u, pnl)
    IN  {[m EXCEPT !.positions[u][i].last_funding_index = l.index[p.is_long]] : m \in paid}

SyncAndRequireMargin(l, u) ==
    Succeed(SyncPositions(l, u), AboveInitialMargin(SyncPositions(l, u), u))

OpenPosition(l, u, size, is_long, at) ==
    LET position == [is_long |-> is_long, size |-> size, entry_price |-> at,
                     last_funding_index |-> l.index[is_long]]
        opened == AddInterest([l EXCEPT !.positions[u] = Append(@, position)], is_long, size)
    IN  IF /\ InBand(at)
           /\ opened.open_interest <= MaxOpenInterest
           /\ HasHeadroom(opened.open_interest, at)
           /\ Len(l.positions[u]) < MaxPositions
        THEN SyncAndRequireMargin(opened, u)
        ELSE {}

IncreasePosition(l, u, i, size, at) ==
    LET increased(m) ==
            LET p == m.positions[u][i]
                cost == p.size * p.entry_price + size * at
                grown == [p EXCEPT !.size = @ + size, !.entry_price = cost \div (p.size + size)]
            IN  AddInterest([m EXCEPT !.positions[u][i] = grown,
                                      !.rounding = @ + Sign(p) * (cost % (p.size + size))],
                            p.is_long, size)
        next_oi == l.open_interest + size
    IN  IF /\ InBand(at)
           /\ next_oi <= MaxOpenInterest
           /\ HasHeadroom(next_oi, at)
        THEN AndThen(SettleFunding(l, u, i),
                     LAMBDA m : SyncAndRequireMargin(increased(m), u))
        ELSE {}

WithoutIndex(s, i) == SubSeq(s, 1, i - 1) \o SubSeq(s, i + 1, Len(s))

ReducePosition(l, u, i, size, at, require_initial_margin) ==
    LET reduced(m) ==
            LET p == m.positions[u][i]
                left == IF p.size = size THEN WithoutIndex(m.positions[u], i)
                        ELSE [m.positions[u] EXCEPT ![i].size = @ - size]
            IN  AddInterest([m EXCEPT !.positions[u] = left], p.is_long, -size)
        pnl == Sign(l.positions[u][i]) * size * (at - l.positions[u][i].entry_price)
        synced(m) == IF require_initial_margin
                     THEN SyncAndRequireMargin(m, u)
                     ELSE Succeed(SyncPositions(m, u), Priced(SyncPositions(m, u), u))
    IN  IF size <= l.positions[u][i].size /\ InBand(at)
        THEN AndThen(SettleFunding(l, u, i),
                     LAMBDA m : AndThen(ApplyPnl(reduced(m), u, pnl), synced))
        ELSE {}

ChargeTradeFee(l, u, size, at, bps) ==
    LET fee == ApplyBps(size * at, bps)
        charged == {m \in ApplyPnl(l, u, -fee) : AboveInitialMargin(m, u)}
    IN  IF bps = 0 THEN {l} ELSE AndThen(charged, LAMBDA m : ApplyPnl(m, FeeRecipient, fee))

-----------------------------------------------------------------------------
(* The gateway's settlement of a matched fill.                             *)

OnSide(l, u, is_long) == {i \in DOMAIN l.positions[u] : l.positions[u][i].is_long = is_long}

\* Mutant: a fill larger than the position it closes drops the residual.
MutantDropsResidual(l, u, is_long, reduce_only, size, at) ==
    LET opposite == OnSide(l, u, ~is_long)
        closing == Lesser(l.positions[u][Max(opposite)].size, size)
    IN  IF opposite # {}
        THEN ReducePosition(l, u, Max(opposite), closing, at, TRUE)
        ELSE IF OnSide(l, u, is_long) # {} THEN {}
        ELSE OpenPosition(l, u, size, is_long, at)

SettleUserSide(l, u, is_long, reduce_only, size, at) ==
    LET same == OnSide(l, u, is_long)
        opposite == OnSide(l, u, ~is_long)
        closing == Lesser(l.positions[u][Max(opposite)].size, size)
    IN  IF opposite # {}
        THEN AndThen(ReducePosition(l, u, Max(opposite), closing, at, TRUE),
                     LAMBDA m : IF closing = size THEN {m}
                                ELSE IF reduce_only THEN {}
                                ELSE OpenPosition(m, u, size - closing, is_long, at))
        ELSE IF reduce_only THEN {}
        ELSE IF same # {} THEN IncreasePosition(l, u, Max(same), size, at)
        ELSE OpenPosition(l, u, size, is_long, at)

\* The maker's side and fee, then the taker's, all or nothing.
ExecuteFill(l, maker, taker, maker_long, maker_ro, taker_ro, size, at) ==
    LET makerSide == AndThen(SettleUserSide(l, maker, maker_long, maker_ro, size, at),
                             LAMBDA m : ChargeTradeFee(m, maker, size, at, MakerFeeBps))
        takerSide == AndThen(makerSide,
                             LAMBDA m : SettleUserSide(m, taker, ~maker_long, taker_ro, size, at))
    IN  AndThen(takerSide, LAMBDA m : ChargeTradeFee(m, taker, size, at, TakerFeeBps))

-----------------------------------------------------------------------------
Init ==
    /\ ledger = [balance |-> [a \in Accounts |-> 0],
                 positions |-> [u \in Users |-> <<>>],
                 synced |-> [u \in Users |-> <<>>],
                 index |-> [is_long \in BOOLEAN |-> 0],
                 synced_index |-> [is_long \in BOOLEAN |-> 0],
                 open_interest |-> 0,
                 side_interest |-> [is_long \in BOOLEAN |-> 0],
                 rounding |-> 0]
    /\ depositors = {}
    /\ price \in Prices /\ quote \in Quotes
    /\ paused = FALSE
    /\ custody = 0 /\ deposited = 0 /\ fund = 0 /\ badDebt = 0
    /\ house = [quantity |-> 0, cash |-> 0]
    /\ fills = 0

Deposit(u, amount) ==
    /\ ~paused
    /\ deposited + amount <= DepositCap
    /\ deposited' = deposited + amount
    /\ custody' = custody + amount
    /\ ledger' = Credit(ledger, u, amount)
    /\ depositors' = depositors \cup {u}
    /\ UNCHANGED <<price, quote, paused, fund, badDebt, house, fills>>

\* Mutant: the margin left after the withdrawal is not looked at.
MutantMayWithdraw(u, amount) == amount <= ledger.balance[u]

MayWithdraw(u, amount) ==
    /\ amount <= ledger.balance[u]
    /\ Priced(ledger, u) /\ quote # Stale
    /\ Equity(ledger, u) - amount * quote >= InitialMargin(ledger, u)

Withdraw(u, amount) ==
    /\ ~paused
    /\ MayWithdraw(u, amount)
    /\ custody >= amount            \* or the token transfer fails
    /\ custody' = custody - amount
    /\ deposited' = Larger(0, deposited - amount)
    /\ ledger' = Credit(ledger, u, -amount)
    /\ UNCHANGED <<depositors, price, quote, paused, fund, badDebt, house, fills>>

SettleFill(maker, taker, maker_long, maker_ro, taker_ro, size, at) ==
    /\ fills < MaxFills
    /\ maker # taker
    /\ ledger' \in ExecuteFill(ledger, maker, taker, maker_long, maker_ro, taker_ro, size, at)
    /\ fills' = fills + 1
    /\ UNCHANGED <<depositors, price, quote, paused, custody, deposited, fund, badDebt, house>>

\* The house takes the other side of what a liquidation or an ADL closes.
HouseTakes(p, size, at) ==
    house' = [quantity |-> house.quantity + Sign(p) * size,
              cash |-> house.cash - Sign(p) * size * at]

Improved(before, after, u) ==
    IF Equity(before, u) > 0 /\ Equity(after, u) > 0
    THEN RatioImproved(before, after, u)
    ELSE MaintenanceMargin(after, u) < MaintenanceMargin(before, u)

Deficit(l, u) == IF Equity(l, u) < 0 THEN Larger(0, -l.balance[u]) ELSE 0

Reward(size, at) == ApplyBps(size * at, RewardBps)

Covered(available, deficit) == Lesser(available, deficit)

Liquidate(u, i, size, at) ==
    /\ Liquidatable(ledger, u)
    /\ \E l \in ReducePosition(ledger, u, i, size, at, FALSE) :
          LET covered == Covered(fund - Reward(size, at), Deficit(l, u))
          IN  /\ Improved(ledger, l, u)
              /\ Reward(size, at) <= fund
              /\ ledger' = Credit(l, u, covered)
              /\ fund' = fund - Reward(size, at) - covered
              /\ custody' = custody + covered
              /\ badDebt' = badDebt + Deficit(l, u) - covered
    /\ HouseTakes(ledger.positions[u][i], size, at)
    /\ UNCHANGED <<depositors, price, quote, paused, deposited, fills>>

\* Mutant: the close is not capped by the debt it pays off.
MutantAdlSize(p, size, at) == Lesser(size, p.size)

\* The close is capped so that its gain stays within the recorded debt.
AdlSize(p, size, at) ==
    Lesser(Lesser(size, p.size), (badDebt * p.size) \div PositionPnl(p, at))

Adl(u, i, size, at) ==
    LET p == ledger.positions[u][i]
        closing == AdlSize(p, size, at)
        gain == closing * Sign(p) * (at - p.entry_price)
    IN  /\ badDebt > 0
        /\ PositionPnl(p, at) > 0
        /\ closing > 0
        /\ ledger' \in ReducePosition(ledger, u, i, closing, at, FALSE)
        /\ badDebt' = Larger(0, badDebt - Lesser(gain, badDebt))
        /\ HouseTakes(p, closing, at)
        /\ UNCHANGED <<depositors, price, quote, paused, custody, deposited, fund, fills>>

\* Mutant: the imbalance between the sides is not routed to the insurance account.
MutantFundingSurplus(l, delta) == 0

FundingSurplus(l, delta) == delta * (l.side_interest[TRUE] - l.side_interest[FALSE])

\* update_funding, with the premium's rate abstracted to the move it makes.
UpdateFunding(delta) ==
    LET index == [ledger.index EXCEPT ![TRUE] = @ + delta, ![FALSE] = @ - delta]
        moved == [ledger EXCEPT !.index = index, !.synced_index = index]
        surplus == FundingSurplus(ledger, delta)
    IN  /\ price # Stale
        /\ index[TRUE] \in -MaxIndex..MaxIndex
        /\ ledger' \in IF surplus = 0 THEN {moved} ELSE ApplyPnl(moved, Insurance, surplus)
        /\ UNCHANGED <<depositors, price, quote, paused, custody, deposited, fund, badDebt, house, fills>>

FundInsurance(amount) ==
    /\ fund + amount <= MaxFund
    /\ fund' = fund + amount
    /\ UNCHANGED <<ledger, depositors, price, quote, paused, custody, deposited, badDebt, house, fills>>

OracleMoves ==
    /\ \/ price' \in (Prices \cup {Stale}) \ {price} /\ UNCHANGED quote
       \/ quote' \in (Quotes \cup {Stale}) \ {quote} /\ UNCHANGED price
    /\ UNCHANGED <<ledger, depositors, paused, custody, deposited, fund, badDebt, house, fills>>

EmergencyPause ==
    /\ paused' = TRUE
    /\ UNCHANGED <<ledger, depositors, price, quote, custody, deposited, fund, badDebt, house, fills>>

Unpause ==
    /\ paused' = FALSE
    /\ UNCHANGED <<ledger, depositors, price, quote, custody, deposited, fund, badDebt, house, fills>>

Next ==
    \/ \E u \in Users, amount \in Amounts : Deposit(u, amount) \/ Withdraw(u, amount)
    \/ \E maker, taker \in Users, maker_long, maker_ro, taker_ro \in BOOLEAN,
          size \in Sizes, at \in ExecutionPrices :
          SettleFill(maker, taker, maker_long, maker_ro, taker_ro, size, at)
    \/ \E u \in Users : \E i \in DOMAIN ledger.positions[u] :
          \E size \in Sizes, at \in ExecutionPrices :
             \/ Liquidate(u, i, size, at)
             \/ Adl(u, i, size, at)
    \/ \E delta \in FundingDeltas : UpdateFunding(delta)
    \/ \E amount \in Amounts : FundInsurance(amount)
    \/ OracleMoves
    \/ EmergencyPause
    \/ Unpause

Spec == Init /\ [][Next]_vars

-----------------------------------------------------------------------------
Position == [is_long: BOOLEAN, size: Nat \ {0}, entry_price: Nat \ {0}, last_funding_index: Int]
Index == [BOOLEAN -> Int]

TypeOK ==
    /\ ledger \in [balance: [Accounts -> Int],
                   positions: [Users -> Seq(Position)],
                   synced: [Users -> Seq(Position)],
                   index: Index,
                   synced_index: Index,
                   open_interest: Nat,
                   side_interest: [BOOLEAN -> Nat],
                   rounding: Int]
    /\ depositors \subseteq Users
    /\ price \in Prices \cup {Stale} /\ quote \in Quotes \cup {Stale}
    /\ paused \in BOOLEAN
    /\ custody \in Nat /\ deposited \in Nat /\ fund \in Nat /\ badDebt \in Nat
    /\ house \in [quantity: Int, cash: Int]
    /\ fills \in 0..MaxFills

OverUsers(Quantity(_)) ==
    SumFunction([u \in Users |-> OverPositions(ledger.positions[u], Quantity)])

\* The engine's open interest counters, each updated on its own by every trade,
\* liquidation and ADL, are the sums of the position sizes they stand for: the
\* caps and the funding surplus that read them see the book as it is.
OpenInterestIsTheBook ==
    /\ ledger.open_interest = OverUsers(LAMBDA p : p.size)
    /\ \A side \in BOOLEAN :
          ledger.side_interest[side] = OverUsers(LAMBDA p : IF p.is_long = side THEN p.size ELSE 0)

\* Between invocations the vault judges margin from the positions and funding
\* indexes the engine holds: no path through the engine leaves the mirror stale.
MirrorInSync ==
    /\ ledger.synced = ledger.positions
    /\ ledger.synced_index = ledger.index

\* settle_user_side picks "the" position of a side; the gateway never leaves an
\* account with two positions in the market, so there is no other to miss.
OnePositionPerMarket == \A u \in Users : Len(ledger.positions[u]) <= 1

\* Every long is matched by a short or by what the house took over in
\* liquidations and ADL: fills never create one-sided interest.
BookBalancesWithHouse ==
    ledger.side_interest[TRUE] + house.quantity = ledger.side_interest[FALSE]

\* The four books the contracts keep of the same trades agree: well-formed
\* state, counters, mirror, one position per account and market, two sides.
BooksAgree ==
    /\ TypeOK
    /\ OpenInterestIsTheBook
    /\ MirrorInSync
    /\ OnePositionPerMarket
    /\ BookBalancesWithHouse

\* What accounts hold in the vault and are owed in funding.
Settled == SumFunction(ledger.balance) + OverUsers(LAMBDA p : FundingPnl(p, ledger.index))

\* What the vault owes (balances, and positions and funding at their cost)
\* is what it holds in tokens, up to the house's cash from liquidations and the
\* rounding of averaged entry prices: fills, fees, funding, withdrawals and
\* deficit cover neither create nor destroy value.
ValueIsConserved ==
    Settled - OverUsers(LAMBDA p : Sign(p) * p.size * p.entry_price) + house.cash
        = custody + ledger.rounding

\* What closing a position at the oracle's price leaves in the account.
Cash(u, p) == ledger.balance[u] + PositionPnl(p, price) + FundingPnl(p, ledger.index)

\* A trader whose collateral, after the position's profit or loss, its funding and
\* the fill's fee, is not negative can close all of it, fee included, while the vault
\* is open and both feeds are fresh: neither the insurance headroom, nor the interest
\* cap, nor unpaid funding, nor the margin asked again after the fee blocks the exit
\* (require_insurance_headroom's promise).
SolventTraderCanExit ==
    ~paused /\ price # Stale /\ quote # Stale =>
        \A u \in Users, bps \in {MakerFeeBps, TakerFeeBps} : \A i \in DOMAIN ledger.positions[u] :
            LET p == ledger.positions[u][i]
            IN  Cash(u, p) >= ApplyBps(p.size * price, bps) =>
                    AndThen(SettleUserSide(ledger, u, ~p.is_long, TRUE, p.size, price),
                            LAMBDA m : ChargeTradeFee(m, u, p.size, price, bps)) # {}

\* An account at or above its initial margin can be taken below it by the
\* oracle, by funding and by ADL, never by its own trades, fees and withdrawals.
OwnActionsKeepInitialMargin ==
    [][(price' = price /\ quote' = quote /\ quote # Stale /\ ledger'.index = ledger.index /\ badDebt' >= badDebt) =>
         \A u \in Users :
            AboveInitialMargin(ledger, u) => AboveInitialMargin(ledger, u)']_vars

\* An ADL pays the closed position exactly the debt it strikes off: what accounts
\* hold and are owed in funding rises by the fall in recorded debt.
AdlPaysTheDebtItClears ==
    [][badDebt' < badDebt => Settled' - Settled = badDebt - badDebt']_vars

\* While the vault is paused no balance moves, whichever contract asks: trades,
\* funding, liquidations and ADL reach balances through apply_pnl.
PauseFreezesBalances ==
    [][paused /\ paused' => UNCHANGED <<ledger.balance, custody>>]_vars

\* Recorded bad debt is a loss some account still owes: recording more never
\* takes it past the sum of the negative balances (absorb_bad_debt).
BadDebtIsOwed ==
    [][badDebt' > badDebt =>
         badDebt' <= SumFunction([u \in Users |-> Larger(0, -ledger'.balance[u])])]_vars
=============================================================================
