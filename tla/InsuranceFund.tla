--------------------------- MODULE InsuranceFund ----------------------------
(***************************************************************************)
(* The insurance contract (perp-insurance) for one asset: an operating     *)
(* pool that pays liquidators and covers deficits, a staked pool whose     *)
(* shares are priced against it alone, the recorded bad debt, and share    *)
(* epochs, which retire every share at once when a loss wipes the staked   *)
(* pool.  The liquidation contract, the vault and the admin are callers    *)
(* with any argument; ClearingHouse composes them.                         *)
(***************************************************************************)
EXTENDS Integers, FiniteSetsExt

CONSTANTS
    Stakers,
    Amounts,        \* amounts a caller may pass
    Cooldown,       \* UNSTAKE_COOLDOWN_SECS
    MaxClock,       \* bound on the clock
    MaxTokens,      \* bound on the tokens the contract may hold
    MaxDebt,        \* bound on the recorded bad debt
    MaxShares,      \* bound on the shares outstanding
    MaxEpoch        \* the largest epoch the counter can hold

ASSUME InsuranceConstants ==
    /\ Amounts \subseteq Nat \ {0}
    /\ Cooldown \in Nat
    /\ MaxClock \in Nat
    /\ MaxTokens \in Nat
    /\ MaxDebt \in Nat
    /\ MaxShares \in Nat
    /\ MaxEpoch \in Nat

VARIABLES
    clock,      \* ledger timestamp
    tokens,     \* what the token contract says this contract holds
    balance,    \* DataKey::Balance: the operating pool
    staked,     \* DataKey::StakedBalance: the staked pool's NAV
    badDebt,    \* DataKey::BadDebt
    total,      \* DataKey::TotalShares
    epoch,      \* DataKey::Epoch
    shares,     \* DataKey::Shares: [epoch, shares] per staker
    pending     \* DataKey::PendingUnstake per staker, or NoRequest

poolVars == <<tokens, balance, staked>>
shareVars == <<total, epoch, shares, pending>>
fundVars == <<clock, poolVars, badDebt, shareVars>>

NoShares == [epoch |-> 0, shares |-> 0]
NoRequest == [shares |-> 0, unlock_time |-> 0, epoch |-> 0]

SharesOf(s) == IF shares[s].epoch = epoch THEN shares[s].shares ELSE 0

Lesser(a, b) == IF a <= b THEN a ELSE b
OrZero(n) == IF n >= 0 THEN n ELSE 0

\* Mutant: rounds in favour of the caller.
MutantMulDiv(a, b, d) == (a * b + d - 1) \div d

\* mul_div on non-negative operands: truncation.
MulDiv(a, b, d) == (a * b) \div d

-----------------------------------------------------------------------------
FundInit ==
    /\ clock = 0
    /\ tokens = 0 /\ balance = 0 /\ staked = 0
    /\ badDebt = 0
    /\ total = 0 /\ epoch = 0
    /\ shares = [s \in Stakers |-> NoShares]
    /\ pending = [s \in Stakers |-> NoRequest]

Deposit(amount) ==
    /\ tokens + amount <= MaxTokens
    /\ tokens' = tokens + amount
    /\ balance' = balance + amount
    /\ UNCHANGED <<clock, staked, badDebt, shareVars>>

PayLiquidator(amount) ==
    /\ balance >= amount
    /\ balance' = balance - amount
    /\ tokens' = tokens - amount
    /\ UNCHANGED <<clock, staked, badDebt, shareVars>>

Covered(amount) == Lesser(balance, amount)

CoverDeficit(amount) ==
    /\ Covered(amount) > 0
    /\ balance' = balance - Covered(amount)
    /\ tokens' = tokens - Covered(amount)
    /\ UNCHANGED <<clock, staked, badDebt, shareVars>>

RecordBadDebt(amount) ==
    /\ badDebt + amount <= MaxDebt
    /\ badDebt' = badDebt + amount
    /\ UNCHANGED <<clock, poolVars, shareVars>>

ReducedDebt(amount) == OrZero(badDebt - amount)

ReduceBadDebt(amount) ==
    /\ badDebt' = ReducedDebt(amount)
    /\ UNCHANGED <<clock, poolVars, shareVars>>

Minted(amount) ==
    IF total <= 0 \/ staked <= 0 THEN amount ELSE MulDiv(amount, total, staked)

Stake(s, amount) ==
    /\ tokens + amount <= MaxTokens
    /\ total + Minted(amount) <= MaxShares
    /\ tokens' = tokens + amount
    /\ staked' = staked + amount
    /\ shares' = [shares EXCEPT
            ![s] = [epoch |-> epoch, shares |-> SharesOf(s) + Minted(amount)]]
    /\ total' = total + Minted(amount)
    /\ UNCHANGED <<clock, balance, badDebt, epoch, pending>>

\* Mutant: a second request may replace the outstanding one.
MutantMayRequest(s, amount) == TRUE

MayRequest(s, amount) == amount <= SharesOf(s) /\ pending[s] = NoRequest

RequestUnstake(s, amount) ==
    /\ MayRequest(s, amount)
    /\ pending' = [pending EXCEPT
            ![s] = [shares |-> amount, unlock_time |-> clock + Cooldown, epoch |-> epoch]]
    /\ UNCHANGED <<clock, poolVars, badDebt, total, epoch, shares>>

Matured(s) == pending[s] # NoRequest /\ clock >= pending[s].unlock_time

\* A request that outlived its epoch is cleared with the staker's Shares entry,
\* and pays nothing.
WithdrawStale(s) ==
    /\ Matured(s)
    /\ pending[s].epoch # epoch
    /\ shares' = [shares EXCEPT ![s] = NoShares]
    /\ pending' = [pending EXCEPT ![s] = NoRequest]
    /\ UNCHANGED <<clock, poolVars, badDebt, total, epoch>>

Payout(s) ==
    IF total <= 0 THEN 0
    ELSE Lesser(MulDiv(pending[s].shares, staked, total), staked)

WithdrawUnstaked(s) ==
    /\ Matured(s)
    /\ pending[s].epoch = epoch
    /\ staked' = staked - Payout(s)
    /\ tokens' = tokens - Payout(s)
    /\ LET left == SharesOf(s) - pending[s].shares
       IN  shares' = [shares EXCEPT ![s] =
               IF left <= 0 THEN NoShares ELSE [epoch |-> pending[s].epoch, shares |-> left]]
    /\ total' = OrZero(total - pending[s].shares)
    /\ pending' = [pending EXCEPT ![s] = NoRequest]
    /\ UNCHANGED <<clock, balance, badDebt, epoch>>

\* Mutant: a wiped pool keeps its shares alive.
MutantWiped(nav) == FALSE

Wiped(nav) == nav <= 0 /\ total > 0

\* Mutant: the operating pool is credited, the staked pool is not debited.
MutantSweepToOperating(amount) ==
    /\ Lesser(staked, amount) > 0
    /\ balance' = balance + Lesser(staked, amount)
    /\ UNCHANGED <<clock, tokens, staked, badDebt, shareVars>>

SweepToOperating(amount) ==
    LET swept == Lesser(staked, amount)
    IN  /\ swept > 0
        /\ staked' = staked - swept
        /\ balance' = balance + swept
        /\ IF Wiped(staked - swept)
           THEN epoch < MaxEpoch /\ epoch' = epoch + 1 /\ total' = 0
           ELSE UNCHANGED <<epoch, total>>
        /\ UNCHANGED <<clock, tokens, badDebt, shares, pending>>

FundTick ==
    /\ clock < MaxClock
    /\ clock' = clock + 1
    /\ UNCHANGED <<poolVars, badDebt, shareVars>>

FundStep(amount) ==
    \/ Deposit(amount)
    \/ PayLiquidator(amount)
    \/ CoverDeficit(amount)
    \/ RecordBadDebt(amount)
    \/ ReduceBadDebt(amount)
    \/ SweepToOperating(amount)

StakerStep(s) ==
    \/ \E amount \in Amounts : Stake(s, amount) \/ RequestUnstake(s, amount)
    \/ WithdrawUnstaked(s)
    \/ WithdrawStale(s)

FundNext ==
    \/ \E amount \in Amounts : FundStep(amount)
    \/ \E s \in Stakers : StakerStep(s)
    \/ FundTick

FundSpec == FundInit /\ [][FundNext]_fundVars

-----------------------------------------------------------------------------
ShareBalance == [epoch: 0..MaxEpoch, shares: Nat]
UnstakeRequest == [shares: Nat, unlock_time: Nat, epoch: 0..MaxEpoch]

FundTypeOK ==
    /\ clock \in 0..MaxClock
    /\ tokens \in Nat /\ balance \in Nat /\ staked \in Nat /\ badDebt \in Nat
    /\ total \in Nat
    /\ epoch \in 0..MaxEpoch
    /\ shares \in [Stakers -> ShareBalance]
    /\ pending \in [Stakers -> UnstakeRequest]

\* Every token the contract holds belongs to exactly one of the two pools: a
\* payout of one never draws on the other (cover_deficit, pay_liquidator,
\* withdraw_unstaked, sweep_to_operating).
PoolsAreBacked == tokens = balance + staked

\* The staked pool holds capital exactly when shares are outstanding, so nobody
\* is minted shares against a pool with dead shares in it, and no capital is
\* left without a claimant in the share count (retire_shares_if_wiped).
CapitalHasShares == (total = 0) <=> (staked = 0)

\* A matured request of this epoch always finds the shares it asks to burn: it
\* cannot burn another staker's part of the total.
RequestsAreCovered ==
    \A s \in Stakers : pending[s] # NoRequest /\ pending[s].epoch = epoch =>
        pending[s].shares <= SharesOf(s)

\* Nothing but a sweep lowers the price of a share: rounding in stake and
\* withdraw_unstaked always favours the stakers who stay.
SharePriceOnlyFallsBySweep ==
    [][(total > 0 /\ total' > 0 /\ balance' <= balance)
          => staked' * total >= staked * total']_fundVars

\* A staker's live shares fall only by redeeming them or by a wipe: clearing a
\* request of a retired epoch leaves the capital staked since untouched
\* (withdraw_unstaked: the new epoch's capital "belongs to whoever recapitalised").
StaleRequestKeepsNewShares ==
    [][\A s \in Stakers :
          (epoch' = epoch /\ pending[s].epoch # epoch) => SharesOf(s)' >= SharesOf(s)]_fundVars

(***************************************************************************)
(* The inductive invariant: no request is ahead of the current epoch, so a *)
(* wipe makes every outstanding request stale at once.                     *)
(***************************************************************************)
RequestsNotAhead == \A s \in Stakers : pending[s].epoch <= epoch

FundInv ==
    /\ FundTypeOK
    /\ PoolsAreBacked
    /\ CapitalHasShares
    /\ RequestsAreCovered
    /\ RequestsNotAhead
=============================================================================
