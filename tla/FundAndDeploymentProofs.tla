---------------------- MODULE FundAndDeploymentProofs -----------------------
(***************************************************************************)
(* Two components that share no state, proved side by side.                *)
(*                                                                         *)
(* The insurance fund, for any stakers and amounts: the two pools stay     *)
(* backed by tokens, a pool with capital has shares and a pool with shares *)
(* has capital, and no stake or redemption ever lowers the price of a      *)
(* share.                                                                  *)
(*                                                                         *)
(* The deployment scripts, for any number of generations, faults and runs: *)
(* DeploymentStaysSafe.  Its invariant, DeployInv, says in what order      *)
(* things can have happened: what clients rely on is never taken back      *)
(* (Grows), a pending transaction is harmless whenever it lands            *)
(* (LivePart), a checkpoint stands for steps that were made (FilePart),    *)
(* and so does the position of the running script (BehindPart).            *)
(***************************************************************************)
EXTENDS InsuranceFund, Deployment, SetTheorems, SequenceTheorems, TLAPS

-----------------------------------------------------------------------------
(* The insurance fund *)

\* What truncating division guarantees (mul_div on non-negative operands).
LEMMA MulDivBounds ==
  ASSUME NEW a \in Nat, NEW b \in Nat, NEW d \in Nat, d > 0
  PROVE  /\ MulDiv(a, b, d) \in Nat
         /\ MulDiv(a, b, d) * d <= a * b
         /\ a * b < (MulDiv(a, b, d) + 1) * d
  <1> DEFINE x == a * b
  <1>1. x \in Nat
    OBVIOUS
  <1> HIDE DEF x
  <1>2. (x \div d) \in Nat
    BY <1>1
  <1>3. (x \div d) * d <= x
    BY <1>1
  <1>4. x < (x \div d + 1) * d
    BY <1>1
  <1>5. QED
    BY <1>2, <1>3, <1>4 DEF x, MulDiv

\* Redeeming some but not all shares leaves some of the pool.
LEMMA PartialRedemption ==
  ASSUME NEW q \in Nat, NEW p \in Nat, NEW n \in Nat, NEW t \in Nat,
         n > 0, p < t, q * t <= p * n
  PROVE  q < n
  <1> SUFFICES ASSUME q >= n PROVE FALSE
    OBVIOUS
  <1>1. q * t >= n * t
    OBVIOUS
  <1>2. n * t > n * p
    OBVIOUS
  <1>3. QED
    BY <1>1, <1>2

\* Redeeming every share takes the whole pool.
LEMMA FullRedemption ==
  ASSUME NEW q \in Nat, NEW p \in Nat, NEW n \in Nat, NEW t \in Nat,
         t > 0, p >= t, p * n < (q + 1) * t
  PROVE  q >= n
  <1> SUFFICES ASSUME q + 1 <= n PROVE FALSE
    OBVIOUS
  <1>1. (q + 1) * t <= n * t
    OBVIOUS
  <1>2. n * t <= n * p
    OBVIOUS
  <1>3. QED
    BY <1>1, <1>2

\* The contract starts with empty pools.
LEMMA InitFundInv == FundInit => FundInv
  BY InsuranceConstants DEF FundInit, FundInv, FundTypeOK, PoolsAreBacked, CapitalHasShares,
     RequestsAreCovered, RequestsNotAhead, NoShares, NoRequest, ShareBalance,
     UnstakeRequest, SharesOf

\* Calls that move only the operating pool, the bad debt or the clock.
LEMMA OperatingFundInv ==
  ASSUME FundInv, NEW amount \in Amounts,
         \/ Deposit(amount) \/ PayLiquidator(amount) \/ CoverDeficit(amount)
         \/ RecordBadDebt(amount) \/ ReduceBadDebt(amount) \/ FundTick
  PROVE  FundInv'
  <1>a. amount \in Nat /\ amount > 0
    BY InsuranceConstants
  <1>s. UNCHANGED <<staked, shareVars>>
    BY DEF Deposit, PayLiquidator, CoverDeficit, RecordBadDebt, ReduceBadDebt,
       FundTick, poolVars
  <1>1. FundTypeOK'
    BY <1>a, <1>s, InsuranceConstants DEF FundInv, FundTypeOK, PoolsAreBacked, Deposit,
       PayLiquidator, CoverDeficit, RecordBadDebt, ReduceBadDebt, FundTick, poolVars,
       shareVars, Covered, Lesser, OrZero, ReducedDebt
  <1>2. PoolsAreBacked'
    BY <1>a, <1>s DEF FundInv, FundTypeOK, PoolsAreBacked, Deposit, PayLiquidator,
       CoverDeficit, RecordBadDebt, ReduceBadDebt, FundTick, poolVars, Covered, Lesser
  <1>3. QED
    BY <1>s, <1>1, <1>2 DEF FundInv, CapitalHasShares, RequestsAreCovered,
       RequestsNotAhead, SharesOf, shareVars

\* What a stake mints, when shares exist and when none do.
LEMMA MintedBounds ==
  ASSUME FundInv, NEW amount \in Amounts
  PROVE  /\ Minted(amount) \in Nat
         /\ total = 0 => Minted(amount) > 0
         /\ total > 0 => Minted(amount) * staked <= amount * total
  <1>1. amount \in Nat /\ amount > 0 /\ total \in Nat /\ staked \in Nat
        /\ (total = 0 <=> staked = 0)
    BY InsuranceConstants DEF FundInv, FundTypeOK, CapitalHasShares
  <1>2. CASE total = 0
    <2>1. Minted(amount) = amount
      BY <1>2 DEF Minted
    <2>2. QED
      BY <1>1, <1>2, <2>1
  <1>3. CASE total > 0
    <2>1. Minted(amount) = MulDiv(amount, total, staked)
      BY <1>1, <1>3 DEF Minted
    <2>2. QED
      BY <1>1, <1>3, <2>1, MulDivBounds
  <1>4. QED
    BY <1>1, <1>2, <1>3

\* stake: capital and shares rise together at the price before the step.
LEMMA StakeFundInv ==
  ASSUME FundInv, NEW s \in Stakers, NEW amount \in Amounts, Stake(s, amount)
  PROVE  FundInv'
  <1>a. amount \in Nat /\ amount > 0 /\ Minted(amount) \in Nat
        /\ (total = 0 => Minted(amount) > 0)
    BY InsuranceConstants, MintedBounds
  <1>b. SharesOf(s) \in Nat
    BY DEF FundInv, FundTypeOK, ShareBalance, SharesOf
  <1>1. FundTypeOK'
    BY <1>a, <1>b DEF FundInv, FundTypeOK, Stake, ShareBalance
  <1>2. PoolsAreBacked'
    BY <1>a DEF FundInv, FundTypeOK, PoolsAreBacked, Stake
  <1>3. CapitalHasShares'
    BY <1>a DEF FundInv, FundTypeOK, CapitalHasShares, Stake
  <1>4. RequestsAreCovered'
    <2> SUFFICES ASSUME NEW r \in Stakers, pending[r] # NoRequest, pending[r].epoch = epoch
                 PROVE  pending[r].shares <= SharesOf(r)'
      BY DEF RequestsAreCovered, Stake
    <2>1. pending[r].shares <= SharesOf(r) /\ pending[r].shares \in Nat
      BY DEF FundInv, RequestsAreCovered, FundTypeOK, UnstakeRequest
    <2>2. CASE r = s
      BY <1>a, <1>b, <2>1, <2>2 DEF Stake, SharesOf, FundInv, FundTypeOK
    <2>3. CASE r # s
      BY <2>1, <2>3 DEF Stake, SharesOf, FundInv, FundTypeOK
    <2>4. QED
      BY <2>2, <2>3
  <1>5. QED
    BY <1>1, <1>2, <1>3, <1>4 DEF FundInv, RequestsNotAhead, Stake

\* request_unstake: the request is covered by the shares the staker has.
LEMMA RequestFundInv ==
  ASSUME FundInv, NEW s \in Stakers, NEW amount \in Amounts, RequestUnstake(s, amount)
  PROVE  FundInv'
  <1>a. amount \in Nat /\ clock + Cooldown \in Nat
    BY InsuranceConstants DEF FundInv, FundTypeOK
  <1>1. FundTypeOK'
    BY <1>a DEF FundInv, FundTypeOK, RequestUnstake, UnstakeRequest, poolVars
  <1>2. PoolsAreBacked' /\ CapitalHasShares'
    BY DEF FundInv, PoolsAreBacked, CapitalHasShares, RequestUnstake, poolVars
  <1>3. RequestsAreCovered'
    BY <1>a DEF FundInv, RequestsAreCovered, RequestUnstake, MayRequest, SharesOf, FundTypeOK
  <1>4. RequestsNotAhead'
    BY <1>a DEF FundInv, RequestsNotAhead, RequestUnstake, FundTypeOK
  <1>5. QED
    BY <1>1, <1>2, <1>3, <1>4 DEF FundInv

\* A withdrawal after a wipe: the request of an old epoch is cleared and pays nothing.
LEMMA WithdrawStaleFundInv ==
  ASSUME FundInv, NEW s \in Stakers, WithdrawStale(s)
  PROVE  FundInv'
  <1>1. FundTypeOK'
    BY InsuranceConstants DEF FundInv, FundTypeOK, WithdrawStale, UnstakeRequest,
       ShareBalance, poolVars, NoShares, NoRequest
  <1>2. PoolsAreBacked' /\ CapitalHasShares'
    BY DEF FundInv, PoolsAreBacked, CapitalHasShares, WithdrawStale, poolVars
  <1>3. RequestsAreCovered'
    BY DEF FundInv, RequestsAreCovered, WithdrawStale, SharesOf, FundTypeOK
  <1>4. RequestsNotAhead'
    BY InsuranceConstants DEF FundInv, RequestsNotAhead, WithdrawStale, FundTypeOK, NoRequest
  <1>5. QED
    BY <1>1, <1>2, <1>3, <1>4 DEF FundInv

\* A redemption pays at most the redeemed part of the pool, and all of it only
\* when all the shares go.
LEMMA PayoutBounds ==
  ASSUME FundInv, NEW s \in Stakers
  PROVE  /\ Payout(s) \in Nat /\ Payout(s) <= staked
         /\ pending[s].shares \in Nat
         /\ total > 0 => Payout(s) * total <= pending[s].shares * staked
         /\ total > 0 => (Payout(s) = staked <=> pending[s].shares >= total)
  <1>1. total \in Nat /\ staked \in Nat /\ (total = 0 <=> staked = 0)
        /\ pending[s].shares \in Nat
    BY DEF FundInv, FundTypeOK, CapitalHasShares, UnstakeRequest
  <1>2. CASE total = 0
    BY <1>1, <1>2 DEF Payout
  <1>3. CASE total > 0
    <2> DEFINE p == pending[s].shares
               q == MulDiv(p, staked, total)
    <2>1. q \in Nat /\ q * total <= p * staked /\ p * staked < (q + 1) * total
      BY <1>1, <1>3, MulDivBounds
    <2>2. Payout(s) = Lesser(q, staked)
      BY <1>1, <1>3 DEF Payout
    <2>3. Payout(s) \in Nat /\ Payout(s) <= staked /\ Payout(s) <= q
      BY <1>1, <2>1, <2>2 DEF Lesser
    <2>4. Payout(s) * total <= p * staked
      <3>1. Payout(s) * total <= q * total
        BY <1>1, <2>1, <2>3
      <3>2. p * staked \in Nat /\ q * total \in Nat /\ Payout(s) * total \in Nat
        BY <1>1, <2>1, <2>3
      <3>3. QED
        BY <2>1, <3>1, <3>2
    <2>5. p >= total => Payout(s) = staked
      <3>1. p >= total => q >= staked
        BY <1>1, <1>3, <2>1, FullRedemption
      <3>2. QED
        BY <1>1, <2>1, <2>2, <3>1 DEF Lesser
    <2>6. p < total => Payout(s) < staked
      BY <1>1, <1>3, <2>3, <2>4, PartialRedemption
    <2>7. QED
      BY <1>1, <2>3, <2>4, <2>5, <2>6
  <1>4. QED
    BY <1>1, <1>2, <1>3

\* A withdrawal: shares are burned for their part of the capital.
LEMMA WithdrawUnstakedFundInv ==
  ASSUME FundInv, NEW s \in Stakers, WithdrawUnstaked(s)
  PROVE  FundInv'
  <1>p. /\ Payout(s) \in Nat /\ Payout(s) <= staked /\ pending[s].shares \in Nat
        /\ total > 0 => (Payout(s) = staked <=> pending[s].shares >= total)
    BY PayoutBounds
  <1>t. total \in Nat /\ staked \in Nat /\ tokens \in Nat /\ balance \in Nat
        /\ tokens = balance + staked /\ (total = 0 <=> staked = 0)
        /\ SharesOf(s) \in Nat /\ pending[s].epoch \in 0..MaxEpoch
    BY DEF FundInv, FundTypeOK, PoolsAreBacked, CapitalHasShares, UnstakeRequest,
       ShareBalance, SharesOf
  <1>d. /\ staked' = staked - Payout(s) /\ tokens' = tokens - Payout(s)
        /\ total' = OrZero(total - pending[s].shares)
        /\ balance' = balance
    BY DEF WithdrawUnstaked
  <1>1. FundTypeOK'
    <2>1. tokens' \in Nat /\ staked' \in Nat /\ total' \in Nat
      BY <1>p, <1>t, <1>d DEF OrZero
    <2>2. shares' \in [Stakers -> ShareBalance]
      BY <1>p, <1>t, InsuranceConstants
         DEF WithdrawUnstaked, FundInv, FundTypeOK, ShareBalance, NoShares
    <2>3. pending' \in [Stakers -> UnstakeRequest]
      BY InsuranceConstants DEF WithdrawUnstaked, FundInv, FundTypeOK, UnstakeRequest, NoRequest
    <2>4. QED
      BY <2>1, <2>2, <2>3 DEF WithdrawUnstaked, FundInv, FundTypeOK
  <1>2. PoolsAreBacked'
    BY <1>p, <1>t, <1>d DEF PoolsAreBacked
  <1>3. CapitalHasShares'
    BY <1>p, <1>t, <1>d DEF CapitalHasShares, OrZero
  <1>4. RequestsAreCovered'
    BY DEF FundInv, RequestsAreCovered, WithdrawUnstaked, SharesOf, FundTypeOK
  <1>5. RequestsNotAhead'
    BY InsuranceConstants DEF FundInv, RequestsNotAhead, WithdrawUnstaked, FundTypeOK, NoRequest
  <1>6. QED
    BY <1>1, <1>2, <1>3, <1>4, <1>5 DEF FundInv

\* A sweep into the operating pool: one of the whole capital retires every share.
LEMMA SweepFundInv ==
  ASSUME FundInv, NEW amount \in Amounts, SweepToOperating(amount)
  PROVE  FundInv'
  <1> DEFINE swept == Lesser(staked, amount)
  <1>t. total \in Nat /\ staked \in Nat /\ tokens \in Nat /\ balance \in Nat
        /\ tokens = balance + staked /\ (total = 0 <=> staked = 0)
        /\ epoch \in 0..MaxEpoch
    BY DEF FundInv, FundTypeOK, PoolsAreBacked, CapitalHasShares
  <1>s. swept \in Nat /\ swept > 0 /\ swept <= staked
    BY <1>t, InsuranceConstants DEF SweepToOperating, Lesser
  <1>d. /\ staked' = staked - swept /\ balance' = balance + swept
        /\ UNCHANGED <<clock, tokens, badDebt, shares, pending>>
        /\ \/ staked - swept = 0 /\ total > 0 /\ epoch < MaxEpoch
              /\ epoch' = epoch + 1 /\ total' = 0
           \/ ~(staked - swept <= 0 /\ total > 0) /\ epoch' = epoch /\ total' = total
    BY <1>t, <1>s DEF SweepToOperating, Wiped
  <1> HIDE DEF swept
  <1>1. FundTypeOK'
    <2>1. staked' \in Nat /\ balance' \in Nat /\ total' \in Nat
      BY <1>t, <1>s, <1>d
    <2>2. epoch' \in 0..MaxEpoch
      BY <1>t, <1>d, InsuranceConstants
    <2>3. QED
      BY <1>d, <2>1, <2>2 DEF FundInv, FundTypeOK
  <1>2. PoolsAreBacked'
    BY <1>t, <1>s, <1>d DEF PoolsAreBacked
  <1>3. CapitalHasShares'
    BY <1>t, <1>s, <1>d DEF CapitalHasShares
  <1>4. RequestsNotAhead'
    BY <1>t, <1>d DEF FundInv, RequestsNotAhead, FundTypeOK, UnstakeRequest
  <1>5. RequestsAreCovered'
    <2>1. CASE epoch' = epoch
      BY <1>d, <2>1 DEF FundInv, RequestsAreCovered, SharesOf
    <2>2. CASE epoch' = epoch + 1
      BY <1>t, <1>d, <2>2 DEF FundInv, RequestsAreCovered, RequestsNotAhead, FundTypeOK, UnstakeRequest
    <2>3. QED
      BY <1>d, <2>1, <2>2
  <1>6. QED
    BY <1>1, <1>2, <1>3, <1>4, <1>5 DEF FundInv

\* Every operation of the insurance contract keeps the inductive invariant.
LEMMA NextFundInv == FundInv /\ [FundNext]_fundVars => FundInv'
  <1> SUFFICES ASSUME FundInv, [FundNext]_fundVars PROVE FundInv'
    OBVIOUS
  <1>1. CASE \E amount \in Amounts : FundStep(amount)
    BY <1>1, OperatingFundInv, SweepFundInv DEF FundStep
  <1>2. CASE \E s \in Stakers : StakerStep(s)
    BY <1>2, StakeFundInv, RequestFundInv, WithdrawUnstakedFundInv, WithdrawStaleFundInv DEF StakerStep
  <1>3. CASE FundTick
    <2>1. UNCHANGED <<poolVars, badDebt, shareVars>> /\ clock' \in 0..MaxClock
      BY <1>3, InsuranceConstants DEF FundTick, FundInv, FundTypeOK
    <2>2. QED
      BY <2>1 DEF FundInv, FundTypeOK, PoolsAreBacked, CapitalHasShares, RequestsAreCovered,
         RequestsNotAhead, SharesOf, poolVars, shareVars
  <1>4. CASE UNCHANGED fundVars
    BY <1>4 DEF FundInv, FundTypeOK, PoolsAreBacked, CapitalHasShares, RequestsAreCovered,
       RequestsNotAhead, SharesOf, fundVars, poolVars, shareVars
  <1>5. QED
    BY <1>1, <1>2, <1>3, <1>4 DEF FundNext

-----------------------------------------------------------------------------
\* Every reachable state satisfies the inductive invariant.
THEOREM Invariance == FundSpec => []FundInv
  BY InitFundInv, NextFundInv, PTL DEF FundSpec

\* Pools, debt, shares and requests keep their types; in particular no pool and
\* no share count ever goes negative.
THEOREM TypeCorrect == FundSpec => []FundTypeOK
  <1>1. FundInv => FundTypeOK
    BY DEF FundInv
  <1>2. QED
    BY <1>1, Invariance, PTL

\* The token balance is always exactly the sum of the two pools.
THEOREM PoolsBacked == FundSpec => []PoolsAreBacked
  <1>1. FundInv => PoolsAreBacked
    BY DEF FundInv
  <1>2. QED
    BY <1>1, Invariance, PTL

\* Capital is in the staked pool exactly when shares are outstanding, whatever
\* rounding, sweeps and wipes did before.
THEOREM CapitalAndShares == FundSpec => []CapitalHasShares
  <1>1. FundInv => CapitalHasShares
    BY DEF FundInv
  <1>2. QED
    BY <1>1, Invariance, PTL

\* A live unstake request never asks for more shares than its staker has.
THEOREM RequestsCovered == FundSpec => []RequestsAreCovered
  <1>1. FundInv => RequestsAreCovered
    BY DEF FundInv
  <1>2. QED
    BY <1>1, Invariance, PTL

\* No stake and no redemption, whatever it rounds, lowers the share price.
THEOREM PriceFallsOnlyBySweep == FundSpec => SharePriceOnlyFallsBySweep
  <1> DEFINE Fair == (total > 0 /\ total' > 0 /\ balance' <= balance)
                        => staked' * total >= staked * total'
  <1>1. FundInv /\ [FundNext]_fundVars => [Fair]_fundVars
    <2> SUFFICES ASSUME FundInv, FundNext, total > 0, total' > 0, balance' <= balance
                 PROVE  staked' * total >= staked * total'
      BY DEF Fair
    <2>t. total \in Nat /\ staked \in Nat /\ balance \in Nat /\ staked > 0
      BY DEF FundInv, FundTypeOK, CapitalHasShares
    <2>1. CASE total' = total /\ staked' = staked
      BY <2>1, <2>t
    <2>2. ASSUME NEW s \in Stakers, NEW amount \in Amounts, Stake(s, amount)
          PROVE  staked' * total >= staked * total'
      <3>1. amount \in Nat /\ Minted(amount) \in Nat
            /\ Minted(amount) * staked <= amount * total
        BY <2>t, InsuranceConstants, MintedBounds
      <3>2. staked' = staked + amount /\ total' = total + Minted(amount)
        BY <2>2 DEF Stake
      <3>3. (staked + amount) * total = staked * total + amount * total
        BY <2>t, <3>1
      <3>4. staked * (total + Minted(amount)) = staked * total + Minted(amount) * staked
        BY <2>t, <3>1
      <3>5. staked * total \in Nat /\ amount * total \in Nat /\ Minted(amount) * staked \in Nat
        BY <2>t, <3>1
      <3>6. QED
        BY <3>1, <3>2, <3>3, <3>4, <3>5
    <2>3. ASSUME NEW s \in Stakers, WithdrawUnstaked(s)
          PROVE  staked' * total >= staked * total'
      <3>1. Payout(s) \in Nat /\ Payout(s) <= staked /\ pending[s].shares \in Nat
            /\ Payout(s) * total <= pending[s].shares * staked
        BY <2>t, PayoutBounds
      <3>2. staked' = staked - Payout(s) /\ total' = total - pending[s].shares
        BY <2>3, <2>t, <3>1 DEF WithdrawUnstaked, OrZero
      <3>3. (staked - Payout(s)) * total = staked * total - Payout(s) * total
        BY <2>t, <3>1
      <3>4. staked * (total - pending[s].shares) = staked * total - pending[s].shares * staked
        BY <2>t, <3>1
      <3>5. /\ staked * total \in Nat /\ Payout(s) * total \in Nat
            /\ pending[s].shares * staked \in Nat
        BY <2>t, <3>1
      <3>6. QED
        BY <3>1, <3>2, <3>3, <3>4, <3>5
    <2>4. ASSUME NEW amount \in Amounts, SweepToOperating(amount)
          PROVE  FALSE
      <3>1. amount \in Nat /\ Lesser(staked, amount) \in Nat /\ Lesser(staked, amount) > 0
            /\ balance' = balance + Lesser(staked, amount)
        BY <2>4, <2>t, InsuranceConstants DEF SweepToOperating, Lesser
      <3>2. QED
        BY <3>1, <2>t
    <2>5. QED
      BY <2>1, <2>2, <2>3, <2>4 DEF FundNext, FundStep, StakerStep, Deposit, PayLiquidator,
         CoverDeficit, RecordBadDebt, ReduceBadDebt, RequestUnstake, WithdrawStale, FundTick,
         poolVars, shareVars
  <1>2. QED
    BY <1>1, Invariance, PTL DEF FundSpec, SharePriceOnlyFallsBySweep

-----------------------------------------------------------------------------
(* The deployment scripts: what their invariant speaks of *)

IsId(x) == x = <<x[1], x[2]>> /\ x[2] \in Nat
IsTriple(p) == p = <<p[1], p[2], p[3]>> /\ IsId(p[2]) /\ IsId(p[3])
Sents == {"no", "sent", "ok", "failed", "refused", "rejected", "timeout", "written"}
Scripts == {"off", "deploy", "core", "oracle", "rewire", "issue", "list"}

\* p is one of the references between the contracts that clients use.
Wiring(p) ==
    \/ p[2][1] = "vault" /\ p[1] = "engine"
    \/ p[2][1] = "engine" /\ p[1] \in {"vault", "gateway"}
    \/ p[2][1] = "gateway" /\ p[1] = "engine"
IsWire(p) == Wiring(p) /\ p[3] # Admin
VaultsEngine(p) == p[1] = "engine" /\ p[2][1] = "vault"
IsRole(p) == p[1] \in {"operator", "guardian", "publisher XLM", "publisher USDC"} /\ p[2][2] = 1
Counted == {"operator", "market"}

First == <<"oracle", 1>>

\* What every write of every script respects, whoever sends it.
Respects(kind, id, p) ==
    /\ Wiring(p) => p[3] = <<p[1], p[2][2]>> \/ (VaultsEngine(p) /\ p[3] = Admin)
    /\ VaultsEngine(p) => id = p[2] /\ kind = IF p[3] = Admin THEN "init" ELSE "call"
    /\ p[1] = "USDT0 price" => kind = "seed price" /\ id = p[2] /\ id = First

\* The same for a set of facts fs: a field has been written, a step's writes that
\* matter to the clients have been made, a listed collateral may be listed.
HasIn(fs, field, id) == \E v \in fs : v[1] = field /\ v[2] = id
SettledIn(fs, s) ==
    \A p \in s.puts : (IsWire(p) => p \in fs) /\ (p[1] \in Counted => HasIn(fs, p[1], p[2]))
CapOfListing(p) == <<"USDT0 cap", p[2], p[3]>>
ListedIn(fs, p) == CapOfListing(p) \in fs /\ HasIn(fs, "USDT0 price", First)

\* What the chain holds, whichever keys the roles may be given.
GoodFacts(fs, keys) ==
    \A p \in fs :
        /\ IsTriple(p)
        /\ Wiring(p) => p[3] = <<p[1], p[2][2]>> \/ (VaultsEngine(p) /\ p[3] = Admin)
        /\ VaultsEngine(p) /\ p[3] # Admin => HasIn(fs, "ready", p[2])
        /\ IsRole(p) => p[3] \in keys
        /\ p[1] = "USDT0 price" => p[2] = First /\ HasIn(fs, "USDT0", First)
        /\ p[1] = "USDT0 listed" => ListedIn(fs, p)

\* What a pending transaction may write.
GoodTx(tx, fs, keys) ==
    \A p \in tx.puts :
        /\ IsTriple(p) /\ Respects(tx.kind, tx.id, p)
        /\ IsRole(p) => p[3] \in keys
        /\ p[1] = "USDT0 listed" => ListedIn(fs, p)

\* Nothing that has been written is lost, and references and caps are not changed.
Grows(fs, hs) ==
    \A p \in fs : HasIn(hs, p[1], p[2]) /\ (IsWire(p) \/ p[1] = "USDT0 cap" => p \in hs)

SafeKeys == ((IF secrets = 0 THEN {} ELSE {Key(secrets)}) \cup {env}) \ {Admin}

NetPart ==
    /\ net \in {"mainnet", "testnet"} /\ env \in {FromEnv, Admin}
    /\ net = "mainnet" => env = FromEnv

CountersPart ==
    /\ minted \in Nat /\ secrets \in 0..minted
    /\ gen \in Gens /\ served \in 0..gen /\ asset \in 0..gen
    /\ others \in 0..MaxOthers /\ faults \in 0..MaxFaults

\* A file names no keys, or those whose secrets are kept; a checkpoint stands for
\* every step under it.
FilePart ==
    /\ DOMAIN file = Files
    /\ \A f \in Files :
        /\ file[f] = [done |-> file[f].done, ops |-> file[f].ops]
        /\ file[f].ops \in {0, secrets}
        /\ OpsAccounts.key \in file[f].done => file[f].ops # 0
        /\ \A i \in DOMAIN DeployPlan[net] :
            DeployPlan[net][i].key \in file[f].done => SettledIn(facts, DeployPlan[net][i])

FactsPart == GoodFacts(facts, SafeKeys)
LivePart == GoodTx(live, facts, SafeKeys)

\* The transaction tx carries the writes of s, roles resolved.
Carries(s, tx) ==
    \A p \in s.puts : \E q \in tx.puts :
        q[1] = p[1] /\ q[2] = p[2] /\ (p[3] \notin {FromFile, FromEnv} => q = p)

RunType ==
    /\ run = [script |-> run.script, file |-> run.file, g |-> run.g, core |-> run.core,
              at |-> run.at, tries |-> run.tries, sent |-> run.sent]
    /\ run.script \in Scripts /\ run.file \in Files
    /\ run.g \in Nat /\ run.core \in Nat /\ run.tries \in Nat /\ run.sent \in Sents
    /\ run.script \in {"core", "oracle", "issue"} => run.g \in 2..gen
    /\ run.script \in {"rewire", "list"} => run.g \in 1..gen /\ run.core \in 1..gen
    /\ IF run.script = "off" THEN run.at = 1 ELSE run.at \in 1..Len(Plan) + 1
    /\ run.sent # "no" => Working

DeployPart ==
    run.script = "deploy" =>
        /\ env # Admin
        /\ run.at > 1 => file[run.file].ops = secrets /\ secrets # 0
        /\ run.at = 1 /\ run.sent # "no" => run.g \in 1..minted
WrittenPart == run.sent = "written" => run.script = "deploy" /\ run.at = 1 /\ secrets = run.g
BehindPart ==
    run.script \in {"deploy", "core"} => \A i \in DOMAIN Plan : i < run.at => SettledIn(facts, Plan[i])
SentPart ==
    /\ run.sent = "ok" => SettledIn(facts, Now)
    /\ run.sent = "sent" /\ live # NoTx => Carries(Now, live)

\* Listing passes the gate, then sets the cap.
CapFor(core, g) == <<"USDT0 cap", <<"vault", core>>, <<"usdt0", g>>>>
ListingFor(core, g) == <<"USDT0 listed", <<"vault", core>>, <<"usdt0", g>>>>
CapOf == CapFor(run.core, run.g)
ListingNow == ListingFor(run.core, run.g)
ListPart ==
    run.script = "list" =>
        /\ run.at > 3 => HasIn(facts, "USDT0 price", First)
        /\ run.at = 3 => run.sent \in {"no", "rejected"}
        /\ run.at > 4 \/ (run.at = 4 /\ run.sent = "ok") => CapOf \in facts

RunPart == RunType /\ DeployPart /\ WrittenPart /\ BehindPart /\ SentPart /\ ListPart

DeployInv == NetPart /\ CountersPart /\ FilePart /\ FactsPart /\ LivePart /\ RunPart /\ ServedIsWired

-----------------------------------------------------------------------------
(* Sequences of steps *)

Proper(s) == s \in Seq(ToSet(s))

\* A concatenation has the elements of both sequences.
LEMMA Concatenation ==
  ASSUME NEW a, NEW b, Proper(a), Proper(b)
  PROVE  /\ Proper(a \o b) /\ Len(a \o b) = Len(a) + Len(b)
         /\ ToSet(a \o b) = ToSet(a) \cup ToSet(b)
         /\ Len(a) > 0 => (a \o b)[1] = a[1]
  <1> DEFINE S == ToSet(a) \cup ToSet(b)
  <1>1. a \in Seq(S) /\ b \in Seq(S)
    BY DEF Proper
  <1>2. /\ Len(a) \in Nat /\ Len(b) \in Nat
        /\ DOMAIN a = 1..Len(a) /\ DOMAIN b = 1..Len(b)
    BY <1>1, LenProperties
  <1>3. /\ a \o b \in Seq(S) /\ Len(a \o b) = Len(a) + Len(b)
        /\ \A i \in 1..Len(a) + Len(b) : (a \o b)[i] = IF i <= Len(a) THEN a[i] ELSE b[i - Len(a)]
    BY <1>1, ConcatProperties
  <1>4. DOMAIN (a \o b) = 1..Len(a) + Len(b)
    BY <1>3, LenProperties
  <1>5. ToSet(a \o b) = S
    <2>1. ASSUME NEW x \in ToSet(a \o b) PROVE x \in S
      BY <2>1, <1>1, <1>2, <1>3, <1>4 DEF ToSet
    <2>2. ASSUME NEW i \in DOMAIN a PROVE a[i] \in ToSet(a \o b)
      <3>1. i \in 1..Len(a) + Len(b) /\ (a \o b)[i] = a[i]
        BY <1>2, <1>3
      <3>2. QED BY <3>1, <1>4 DEF ToSet
    <2>3. ASSUME NEW i \in DOMAIN b PROVE b[i] \in ToSet(a \o b)
      <3>1. i + Len(a) \in 1..Len(a) + Len(b) /\ (a \o b)[i + Len(a)] = b[i]
        BY <1>2, <1>3
      <3>2. QED BY <3>1, <1>4 DEF ToSet
    <2>4. QED BY <2>1, <2>2, <2>3 DEF ToSet
  <1>6. Len(a) > 0 => (a \o b)[1] = a[1]
    BY <1>2, <1>3
  <1>7. QED BY <1>3, <1>5, <1>6 DEF Proper

\* The domain of a sequence, and where its elements are.
LEMMA ProperDomain ==
  ASSUME NEW s, Proper(s)
  PROVE  /\ Len(s) \in Nat /\ DOMAIN s = 1..Len(s)
         /\ \A x \in ToSet(s) : \E i \in 1..Len(s) : s[i] = x
         /\ \A i \in 1..Len(s) : s[i] \in ToSet(s)
  BY LenProperties DEF Proper, ToSet

\* Joining a non-empty sequence with another keeps its first element.
LEMMA Joined ==
  ASSUME NEW a, NEW b, Proper(a), Proper(b), Len(a) > 0
  PROVE  /\ Proper(a \o b) /\ ToSet(a \o b) = ToSet(a) \cup ToSet(b)
         /\ Len(a \o b) > 0 /\ (a \o b)[1] = a[1]
  <1>1. Len(a) \in Nat /\ Len(b) \in Nat
    BY ProperDomain
  <1>2. QED BY <1>1, Concatenation

\* A function on the positions of a sequence of names is a sequence.
LEMMA Mapped ==
  ASSUME NEW n, NEW f, NEW k \in Nat, DOMAIN n = 1..k, f = [i \in DOMAIN n |-> f[i]]
  PROVE  Proper(f) /\ Len(f) = k
  <1>1. f \in [1..k -> ToSet(f)]
    BY DEF ToSet
  <1>2. f \in Seq(ToSet(f))
    BY <1>1
  <1>3. QED BY <1>1, <1>2 DEF Proper

-----------------------------------------------------------------------------
(* What the plans are made of *)

Names == {"oracle", "vault", "risk", "engine", "gateway", "insurance", "liquidation", "governance"}

\* A step all scripts may take.
Fine(s) ==
    /\ IsId(s.id) /\ \A p \in s.puts : IsTriple(p)
    /\ \A p \in s.puts :
        /\ Respects(s.kind, s.id, p)
        /\ p[1] # "USDT0 listed"
        /\ IsRole(p) => p[3] \in {FromFile, FromEnv}
    /\ s.kind \in {"db", "gate", "seed price", "accounts"} =>
        \A p \in s.puts : ~Wiring(p) /\ ~IsRole(p) /\ p[1] \notin Counted

Safe(s) == Fine(s) /\ s.kind # "accounts" /\ s.key # OpsAccounts.key
Quiet(s) == Safe(s) /\ \A p \in s.puts : ~IsRole(p)

\* What a fact is made of.
LEMMA Parts ==
  ASSUME NEW f, NEW n, NEW g \in Nat, NEW v, IsId(v), NEW p, p = <<f, <<n, g>>, v>>
  PROVE  IsTriple(p) /\ p[1] = f /\ p[2] = <<n, g>> /\ p[2][1] = n /\ p[2][2] = g /\ p[3] = v
  BY DEF IsTriple, IsId

\* The values of facts are told apart.
LEMMA Values ==
  /\ \A n : \A g \in Nat :
        IsId(<<n, g>>) /\ (n \notin {"admin", "file", "env"} => <<n, g>> \notin {Admin, FromFile, FromEnv})
  /\ IsId(Yes) /\ IsId(Admin) /\ IsId(FromEnv) /\ IsId(FromFile)
  /\ Admin \notin {FromFile, FromEnv, Yes}
  /\ \A g \in Nat : IsId(Key(g)) /\ Key(g) # Admin
  <1>1. ASSUME NEW n, NEW g \in Nat
        PROVE  IsId(<<n, g>>) /\ (n \notin {"admin", "file", "env"} => <<n, g>> \notin {Admin, FromFile, FromEnv})
    BY DEF Admin, FromFile, FromEnv, IsId
  <1>2. IsId(Yes) /\ IsId(Admin) /\ IsId(FromEnv) /\ IsId(FromFile)
    BY DEF IsId, Admin, FromFile, FromEnv, Yes
  <1>3. Admin # FromFile /\ Admin # FromEnv /\ Admin # Yes
    BY DEF Admin, FromFile, FromEnv, Yes
  <1>4. ASSUME NEW g \in Nat PROVE IsId(Key(g)) /\ Key(g) # Admin
    BY DEF IsId, Admin, Key
  <1>5. QED BY <1>1, <1>2, <1>3, <1>4

\* A step that writes one fact, of no role and no wire.
LEMMA PlainStep ==
  ASSUME NEW s, NEW p, IsTriple(p), s.puts = {p}, IsId(s.id),
         p[1] \notin {"engine", "vault", "gateway", "USDT0 price", "USDT0 listed"},
         p[1] \in {"operator", "guardian", "publisher XLM", "publisher USDC"} => p[2][2] # 1,
         p[1] \in Counted => s.kind \notin {"db", "gate", "seed price", "accounts"}
  PROVE  Fine(s) /\ \A q \in s.puts : ~IsRole(q)
  <1>1. ~Wiring(p) /\ ~VaultsEngine(p) /\ ~IsRole(p)
    BY DEF Wiring, VaultsEngine, IsRole
  <1>2. Respects(s.kind, s.id, p)
    BY <1>1 DEF Respects
  <1>3. QED BY <1>1, <1>2 DEF Fine

\* Code is uploaded.
LEMMA UploadIsQuiet == ASSUME NEW n \in Names PROVE Quiet(Upload(n))
  <1> DEFINE s == Upload(n)
  <1> PICK p : p = <<"code", <<n, 0>>, Yes>>
    OBVIOUS
  <1>1. /\ s.puts = {p} /\ s.id = <<n, 0>>
        /\ s.kind = "upload" /\ s.key = <<"wasm", n>>
    BY DEF Upload, Step
  <1> HIDE DEF s
  <1>2. Fine(s) /\ \A q \in s.puts : ~IsRole(q)
    <2>1. IsTriple(p) /\ p[1] = "code" /\ IsId(s.id)
      BY <1>1, Values, Parts
    <2>2. QED BY <2>1, <1>1, PlainStep DEF Counted
  <1>3. QED BY <1>1, <1>2 DEF Quiet, Safe, OpsAccounts, Step, s

\* A contract is deployed.
LEMMA DeployIsQuiet == ASSUME NEW n \in Names, NEW g \in Nat PROVE Quiet(Deploy(n, g))
  <1> DEFINE s == Deploy(n, g)
  <1> PICK p : p = <<"instance", <<n, g>>, Yes>>
    OBVIOUS
  <1>1. /\ s.puts = {p} /\ s.id = <<n, g>>
        /\ s.kind = "deploy" /\ s.key = <<"contract", n>>
    BY DEF Deploy, Step
  <1> HIDE DEF s
  <1>2. Fine(s) /\ \A q \in s.puts : ~IsRole(q)
    <2>1. IsTriple(p) /\ p[1] = "instance" /\ IsId(s.id)
      BY <1>1, Values, Parts
    <2>2. QED BY <2>1, <1>1, PlainStep DEF Counted
  <1>3. QED BY <1>1, <1>2 DEF Quiet, Safe, OpsAccounts, Step, s

\* What initializing a contract writes.
LEMMA InitializeIs ==
  ASSUME NEW n \in Names, NEW g \in Nat
  PROVE  /\ Initialize(n, g).puts = {<<"ready", <<n, g>>, Yes>>} \cup References(n, g)
         /\ Initialize(n, g).id = <<n, g>> /\ Initialize(n, g).kind = "init"
         /\ Initialize(n, g).key = <<"init", n>>
  BY DEF Initialize, Step

\* The references are typed; only the vault's engine is the admin at first, and
\* only governance has a role.
LEMMA ReferencesAre ==
  ASSUME NEW n \in Names, NEW g \in Nat, NEW p \in References(n, g)
  PROVE  /\ IsTriple(p) /\ p[2] = <<n, g>>
         /\ p[1] \in {"oracle", "engine", "vault", "liquidation", "insurance", "guardian"}
         /\ Wiring(p) => p[3] = <<p[1], g>> \/ (VaultsEngine(p) /\ p[3] = Admin)
         /\ VaultsEngine(p) => p[3] = Admin
         /\ p[1] = "guardian" => n = "governance" /\ p[3] = FromFile
  <1> USE DEF Admin, FromFile, Wiring, VaultsEngine
  <1>1. CASE n = "vault"
    <2>1. p = <<"oracle", <<"vault", g>>, <<"oracle", 1>>>> \/ p = <<"engine", <<"vault", g>>, Admin>>
      BY <1>1 DEF References
    <2>2. QED BY <2>1, <1>1, Parts, Values
  <1>2. CASE n = "engine"
    <2>1. p = <<"oracle", <<"engine", g>>, <<"oracle", 1>>>> \/ p = <<"vault", <<"engine", g>>, <<"vault", g>>>>
      BY <1>2 DEF References
    <2>2. QED BY <2>1, <1>2, Parts, Values
  <1>3. CASE n = "gateway"
    <2>1. p = <<"engine", <<"gateway", g>>, <<"engine", g>>>>
      BY <1>3 DEF References
    <2>2. QED BY <2>1, <1>3, Parts, Values
  <1>4. CASE n = "insurance"
    <2>1. p = <<"liquidation", <<"insurance", g>>, <<"liquidation", g>>>>
      BY <1>4 DEF References
    <2>2. QED BY <2>1, <1>4, Parts, Values
  <1>5. CASE n = "liquidation"
    <2>1. \/ p = <<"engine", <<"liquidation", g>>, <<"engine", g>>>>
          \/ p = <<"vault", <<"liquidation", g>>, <<"vault", g>>>>
          \/ p = <<"insurance", <<"liquidation", g>>, <<"insurance", g>>>>
      BY <1>5 DEF References
    <2>2. QED BY <2>1, <1>5, Parts, Values
  <1>6. CASE n = "governance"
    <2>1. p = <<"guardian", <<"governance", g>>, FromFile>>
      BY <1>6 DEF References
    <2>2. QED BY <2>1, <1>6, Parts, Values
  <1>7. CASE n \in {"oracle", "risk"}
    BY <1>7 DEF References
  <1>8. QED BY <1>1, <1>2, <1>3, <1>4, <1>5, <1>6, <1>7 DEF Names

\* Initializing a contract gives no role, but for governance its guardian.
LEMMA InitializeIsSafe ==
  ASSUME NEW n \in Names, NEW g \in Nat
  PROVE  Safe(Initialize(n, g)) /\ (n # "governance" => Quiet(Initialize(n, g)))
  <1> DEFINE s == Initialize(n, g)
  <1>1. /\ s.puts = {<<"ready", <<n, g>>, Yes>>} \cup References(n, g)
        /\ s.id = <<n, g>> /\ s.kind = "init" /\ s.key = <<"init", n>>
    BY InitializeIs
  <1> HIDE DEF s
  <1>2. IsId(s.id) /\ s.kind # "accounts" /\ s.key # OpsAccounts.key
    BY <1>1 DEF IsId, Names, OpsAccounts, Step
  <1>3. ASSUME NEW p \in s.puts
        PROVE  /\ IsTriple(p) /\ Respects(s.kind, s.id, p) /\ p[1] # "USDT0 listed"
               /\ IsRole(p) => p[3] \in {FromFile, FromEnv}
               /\ n # "governance" => ~IsRole(p)
    <2>1. CASE p = <<"ready", <<n, g>>, Yes>>
      BY <2>1 DEF Respects, Wiring, VaultsEngine, IsRole, IsTriple, IsId, Yes, Names
    <2>2. CASE p \in References(n, g)
      <3>1. /\ IsTriple(p) /\ p[2] = <<n, g>>
            /\ p[1] \in {"oracle", "engine", "vault", "liquidation", "insurance", "guardian"}
            /\ Wiring(p) => p[3] = <<p[1], g>> \/ (VaultsEngine(p) /\ p[3] = Admin)
            /\ VaultsEngine(p) => p[3] = Admin
            /\ p[1] = "guardian" => n = "governance" /\ p[3] = FromFile
        BY <2>2, ReferencesAre
      <3>2. p[2][2] = g /\ s.id = p[2]
        BY <3>1, <1>1
      <3>3. Respects(s.kind, s.id, p)
        BY <3>1, <3>2, <1>1 DEF Respects
      <3>4. IsRole(p) => n = "governance" /\ p[3] = FromFile
        BY <3>1 DEF IsRole
      <3>5. QED BY <3>1, <3>3, <3>4
    <2>3. QED BY <1>1, <2>1, <2>2
  <1>4. Safe(s)
    BY <1>1, <1>2, <1>3 DEF Safe, Fine
  <1>5. QED BY <1>3, <1>4 DEF Quiet, s

\* A step that writes one of the references.
LEMMA WireStep ==
  ASSUME NEW s, NEW p, IsTriple(p), s.puts = {p}, s.id = p[2],
         p[1] \in {"engine", "vault", "gateway"}, p[3] = <<p[1], p[2][2]>>, s.kind = "call"
  PROVE  Fine(s) /\ \A q \in s.puts : ~IsRole(q)
  <1>1. IsId(s.id)
    BY DEF IsTriple
  <1>2. p[3] # Admin /\ ~IsRole(p)
    <2>1. p[3][1] = p[1]
      OBVIOUS
    <2>2. p[3] # Admin
      BY <2>1 DEF Admin
    <2>3. QED BY <2>2 DEF IsRole
  <1>3. Respects(s.kind, s.id, p)
    BY <1>2 DEF Respects
  <1>4. QED BY <1>1, <1>2, <1>3 DEF Fine

\* Calls that write something else than references, roles and prices are quiet.
LEMMA PlainCall ==
  ASSUME NEW key, NEW f, NEW id, IsId(id), NEW v, IsId(v), key # <<"ops", "accounts">>,
         f \notin {"engine", "vault", "gateway", "USDT0 price", "USDT0 listed"},
         f \in {"operator", "guardian", "publisher XLM", "publisher USDC"} => id[2] # 1
  PROVE  Quiet(Call(key, f, id, v))
  <1> PICK s : s = Call(key, f, id, v)
    OBVIOUS
  <1> PICK p : p = <<f, id, v>>
    OBVIOUS
  <1>0. IsTriple(p) /\ p[1] = f /\ p[2] = id /\ p[3] = v
    BY DEF IsTriple
  <1>1. s.puts = {p} /\ s.id = p[2] /\ s.kind = "call" /\ s.key = key
    BY <1>0 DEF Call, Step
  <1>2. Fine(s) /\ \A q \in s.puts : ~IsRole(q)
    BY <1>0, <1>1, PlainStep DEF Counted
  <1>3. QED BY <1>1, <1>2 DEF Quiet, Safe, OpsAccounts, Step

\* A call that gives a role to a key of the operator is safe.
LEMMA RoleCall ==
  ASSUME NEW key, NEW f, NEW id, IsId(id), NEW v \in {FromFile, FromEnv}, key # <<"ops", "accounts">>,
         f \in {"operator", "guardian"}
  PROVE  Safe(Call(key, f, id, v))
  <1> PICK s : s = Call(key, f, id, v)
    OBVIOUS
  <1>a. IsId(v)
    BY Values
  <1> PICK p : p = <<f, id, v>>
    OBVIOUS
  <1>0. IsTriple(p) /\ p[1] = f /\ p[2] = id /\ p[3] = v
    BY <1>a DEF IsTriple
  <1>1. s.puts = {p} /\ s.id = p[2] /\ s.kind = "call" /\ s.key = key
    BY <1>0 DEF Call, Step
  <1>2. ~Wiring(p) /\ ~VaultsEngine(p) /\ IsId(s.id)
    BY <1>0, <1>1 DEF Wiring, VaultsEngine, IsTriple
  <1>3. Respects(s.kind, s.id, p)
    BY <1>0, <1>1, <1>2 DEF Respects
  <1>4. Fine(s)
    BY <1>0, <1>1, <1>2, <1>3 DEF Fine
  <1>5. QED BY <1>1, <1>4 DEF Safe, OpsAccounts, Step

-----------------------------------------------------------------------------
(* Tuples *)

\* Literal sequences are proper.
LEMMA One == ASSUME NEW a PROVE Proper(<<a>>) /\ Len(<<a>>) = 1 /\ ToSet(<<a>>) = {a}
  BY DEF Proper, ToSet

\* A sequence of two.
LEMMA Two == ASSUME NEW a, NEW b PROVE Proper(<<a, b>>) /\ Len(<<a, b>>) = 2 /\ ToSet(<<a, b>>) = {a, b}
  <1> PICK s : s = <<a, b>>
    OBVIOUS
  <1>1. DOMAIN s = 1..2 /\ s[1] = a /\ s[2] = b /\ Len(s) = 2
    OBVIOUS
  <1>2. ToSet(s) = {a, b}
    BY <1>1 DEF ToSet
  <1>3. QED BY <1>2 DEF Proper

\* A sequence of three.
LEMMA Three ==
  ASSUME NEW a, NEW b, NEW c
  PROVE  Proper(<<a, b, c>>) /\ Len(<<a, b, c>>) = 3 /\ ToSet(<<a, b, c>>) = {a, b, c}
  <1> PICK s : s = <<a, b, c>>
    OBVIOUS
  <1>1. DOMAIN s = 1..3 /\ s[1] = a /\ s[2] = b /\ s[3] = c /\ Len(s) = 3
    OBVIOUS
  <1>2. ToSet(s) = {a, b, c}
    BY <1>1 DEF ToSet
  <1>3. QED BY <1>2 DEF Proper

\* A sequence of four.
LEMMA Four ==
  ASSUME NEW a, NEW b, NEW c, NEW d
  PROVE  /\ Proper(<<a, b, c, d>>) /\ Len(<<a, b, c, d>>) = 4
         /\ DOMAIN <<a, b, c, d>> = 1..4
         /\ ToSet(<<a, b, c, d>>) = {a, b, c, d}
  <1> PICK s : s = <<a, b, c, d>>
    OBVIOUS
  <1>1. DOMAIN s = 1..4 /\ s[1] = a /\ s[2] = b /\ s[3] = c /\ s[4] = d /\ Len(s) = 4
    OBVIOUS
  <1>2. ToSet(s) = {a, b, c, d}
    BY <1>1 DEF ToSet
  <1>3. QED BY <1>1, <1>2 DEF Proper

\* A sequence of six.
LEMMA Six ==
  ASSUME NEW a, NEW b, NEW c, NEW d, NEW e, NEW f
  PROVE  /\ Proper(<<a, b, c, d, e, f>>) /\ Len(<<a, b, c, d, e, f>>) = 6
         /\ ToSet(<<a, b, c, d, e, f>>) = {a, b, c, d, e, f}
  <1> PICK s : s = <<a, b, c, d, e, f>>
    OBVIOUS
  <1>1. /\ DOMAIN s = 1..6 /\ s[1] = a /\ s[2] = b /\ s[3] = c /\ s[4] = d /\ s[5] = e /\ s[6] = f
        /\ Len(s) = 6
    OBVIOUS
  <1>2. ToSet(s) = {a, b, c, d, e, f}
    BY <1>1 DEF ToSet
  <1>3. QED BY <1>1, <1>2 DEF Proper

\* Every contract is in the order of the deployment.
LEMMA OrderIs ==
  /\ DOMAIN Order = 1..8 /\ \A i \in 1..8 : Order[i] \in Names
  /\ \A n \in Names : \E i \in 1..8 : Order[i] = n
  <1>1. /\ DOMAIN Order = 1..8 /\ Order[1] = "oracle" /\ Order[2] = "vault" /\ Order[3] = "risk"
        /\ Order[4] = "engine" /\ Order[5] = "gateway" /\ Order[6] = "insurance" /\ Order[7] = "liquidation"
        /\ Order[8] = "governance"
    BY DEF Order
  <1>2. QED BY <1>1 DEF Names

\* A core has no governance contract.
LEMMA CoreIs ==
  /\ DOMAIN Core = 1..4 /\ \A i \in 1..4 : Core[i] \in Names \ {"governance"}
  /\ \A n \in {"vault", "risk", "engine", "gateway"} : \E i \in 1..4 : Core[i] = n
  <1>1. DOMAIN Core = 1..4 /\ Core[1] = "vault" /\ Core[2] = "risk" /\ Core[3] = "engine" /\ Core[4] = "gateway"
    BY DEF Core
  <1>2. QED BY <1>1 DEF Names

-----------------------------------------------------------------------------
(* The calls of the plans *)

\* A wire leads to the contract of the same generation.
LEMMA WireIsQuiet ==
  ASSUME NEW n, NEW f \in {"engine", "vault", "gateway", "liquidation", "insurance"}, NEW g \in Nat
  PROVE  Quiet(Wire(n, f, g))
  <1> DEFINE w == "wire " \o n
  <1> HIDE DEF w
  <1> PICK s : s = Call(<<w, f>>, f, <<n, g>>, <<f, g>>)
    OBVIOUS
  <1>1. s = Wire(n, f, g)
    BY DEF Wire, w
  <1>2. <<w, f>> # <<"ops", "accounts">> /\ IsId(<<n, g>>) /\ IsId(<<f, g>>)
    BY Values
  <1>3. CASE f \in {"liquidation", "insurance"}
    BY <1>1, <1>2, <1>3, PlainCall
  <1>4. CASE f \in {"engine", "vault", "gateway"}
    <2> PICK p : p = <<f, <<n, g>>, <<f, g>>>>
      OBVIOUS
    <2>1. IsTriple(p) /\ p[1] = f /\ p[2] = <<n, g>> /\ p[2][2] = g /\ p[3] = <<f, g>>
      BY <1>2, Parts
    <2>2. s.puts = {p} /\ s.id = p[2] /\ s.kind = "call" /\ s.key = <<w, f>>
      BY <2>1 DEF Call, Step
    <2>3. Fine(s) /\ \A q \in s.puts : ~IsRole(q)
      BY <1>4, <2>1, <2>2, WireStep
    <2>4. QED BY <1>1, <1>2, <2>2, <2>3 DEF Quiet, Safe, OpsAccounts, Step
  <1>5. QED BY <1>3, <1>4

\* A market is registered.
LEMMA MarketIsQuiet == ASSUME NEW n, NEW g \in Nat PROVE Quiet(Market(n, g))
  <1>1. IsId(<<n, g>>) /\ IsId(Yes) /\ <<"market", n>> # <<"ops", "accounts">>
    BY Values
  <1>2. QED BY <1>1, PlainCall DEF Market

\* The publisher of a feed is a kept key, or the feed is not the deployment's.
LEMMA SetFeedIsSafe ==
  ASSUME NEW key, NEW a \in {"XLM", "USDC", "USDT0"}, NEW v, IsId(v), NEW g \in Nat, key # <<"ops", "accounts">>,
         v \in {FromFile, FromEnv} \/ a = "USDT0" \/ g # 1
  PROVE  Safe(SetFeed(key, a, v, g)) /\ (a = "USDT0" \/ g # 1 => Quiet(SetFeed(key, a, v, g)))
  <1> PICK s : s = SetFeed(key, a, v, g)
    OBVIOUS
  <1> PICK p : p = <<a, <<"oracle", g>>, Yes>>
    OBVIOUS
  <1> PICK f : f = PublisherOf[a]
    OBVIOUS
  <1> PICK q : q = <<f, <<"oracle", g>>, v>>
    OBVIOUS
  <1>1. IsTriple(p) /\ p[1] = a /\ p[2] = <<"oracle", g>> /\ p[2][1] = "oracle" /\ p[2][2] = g
    BY Parts, Values
  <1>2. IsTriple(q) /\ q[1] = f /\ q[2] = <<"oracle", g>> /\ q[2][1] = "oracle" /\ q[2][2] = g /\ q[3] = v
    BY Parts
  <1>3. s.puts = {p, q} /\ s.id = <<"oracle", g>> /\ s.kind = "call" /\ s.key = key
    BY DEF SetFeed, Step
  <1>4. f \in {"publisher XLM", "publisher USDC", "publisher USDT0"} /\ (a = "USDT0" => f = "publisher USDT0")
    <2>1. /\ PublisherOf["XLM"] = "publisher XLM" /\ PublisherOf["USDC"] = "publisher USDC"
          /\ PublisherOf["USDT0"] = "publisher USDT0"
      BY DEF PublisherOf
    <2>2. a = "XLM" \/ a = "USDC" \/ a = "USDT0"
      OBVIOUS
    <2>3. QED BY <2>1, <2>2
  <1>5. ASSUME NEW r \in s.puts
        PROVE  /\ IsTriple(r) /\ ~Wiring(r) /\ ~VaultsEngine(r)
               /\ r[1] \notin {"USDT0 listed", "USDT0 price"}
               /\ IsRole(r) => g = 1 /\ a # "USDT0" /\ r[3] = v
    BY <1>1, <1>2, <1>3, <1>4 DEF Wiring, VaultsEngine, IsRole
  <1>6. Fine(s)
    <2>1. IsId(s.id) /\ s.kind \notin {"db", "gate", "seed price", "accounts"}
      BY <1>3, Values
    <2>2. ASSUME NEW r \in s.puts PROVE Respects(s.kind, s.id, r)
      BY <1>5 DEF Respects
    <2>3. ASSUME NEW r \in s.puts, IsRole(r) PROVE r[3] \in {FromFile, FromEnv}
      BY <1>5, <2>3
    <2>4. QED BY <1>5, <2>1, <2>2, <2>3 DEF Fine
  <1>7. QED BY <1>3, <1>5, <1>6 DEF Safe, Quiet, OpsAccounts, Step

\* The remaining steps of a deployment; minting keys writes nothing.
LEMMA OthersAreSafe ==
  /\ Fine(OpsAccounts) /\ OpsAccounts.puts = {} /\ OpsAccounts.kind = "accounts"
  /\ \A n : Quiet(Ttl(n))
  /\ Quiet(Cap) /\ Quiet(SeedMarkets)
  /\ \A n : Safe(Guardian(n))
  <1>1. Fine(OpsAccounts) /\ OpsAccounts.puts = {} /\ OpsAccounts.kind = "accounts"
    BY Values DEF OpsAccounts, Step, Fine
  <1>2. ASSUME NEW n PROVE Quiet(Ttl(n))
    <2> PICK s : s = Ttl(n)
      OBVIOUS
    <2>1. s.puts = {} /\ s.id = <<n, 1>> /\ s.kind = "call" /\ s.key = <<"ttl", n>>
      BY DEF Ttl, Step
    <2>2. IsId(s.id)
      BY <2>1, Values
    <2>3. QED BY <2>1, <2>2 DEF Quiet, Safe, Fine, OpsAccounts, Step
  <1>3. Quiet(Cap)
    <2>1. IsId(<<"vault", 1>>) /\ IsId(Yes) /\ <<"cap", "usdc">> # <<"ops", "accounts">>
      BY Values
    <2>2. QED BY <2>1, PlainCall DEF Cap
  <1>4. Quiet(SeedMarkets)
    <2> PICK s : s = SeedMarkets
      OBVIOUS
    <2> PICK p : p = <<"market rows", Yes, Yes>>
      OBVIOUS
    <2>1. s.puts = {p} /\ s.id = Yes /\ s.kind = "db" /\ s.key = <<"seed", "markets">>
      BY DEF SeedMarkets, Step
    <2>2. IsTriple(p) /\ p[1] = "market rows" /\ IsId(s.id)
      BY <2>1, Values DEF IsTriple
    <2>3. Fine(s) /\ \A q \in s.puts : ~IsRole(q)
      BY <2>1, <2>2, PlainStep DEF Counted
    <2>4. s.kind # "accounts" /\ s.key # OpsAccounts.key
      <3>1. OpsAccounts.key = <<"ops", "accounts">>
        BY DEF OpsAccounts, Step
      <3>2. <<"seed", "markets">> # <<"ops", "accounts">>
        OBVIOUS
      <3>4. s.key # <<"ops", "accounts">>
        BY <2>1, <3>2
      <3>3. QED BY <2>1, <3>1, <3>4
    <2>5. QED BY <2>3, <2>4 DEF Quiet, Safe
  <1>5. ASSUME NEW n PROVE Safe(Guardian(n))
    <2>1. IsId(<<n, 1>>) /\ <<"guardian", n>> # <<"ops", "accounts">>
      BY Values
    <2>2. QED BY <2>1, RoleCall DEF Guardian
  <1>6. QED BY <1>1, <1>2, <1>3, <1>4, <1>5

\* The wiring of a core.
LEMMA WireCoreIs ==
  ASSUME NEW g \in Nat, NEW v \in {FromFile, FromEnv, Admin}
  PROVE  /\ Proper(WireCore(g, v))
         /\ Wire("vault", "engine", g) \in ToSet(WireCore(g, v))
         /\ Wire("engine", "gateway", g) \in ToSet(WireCore(g, v))
         /\ Call(<<"wire gateway", "operator">>, "operator", <<"gateway", g>>, v) \in ToSet(WireCore(g, v))
         /\ v # Admin => \A s \in ToSet(WireCore(g, v)) : Safe(s)
         /\ g # 1 => \A s \in ToSet(WireCore(g, v)) : Quiet(s)
  <1> DEFINE c == Call(<<"wire gateway", "operator">>, "operator", <<"gateway", g>>, v)
             d == Call(<<"wire gateway", "domain">>, "domain", <<"gateway", g>>, Yes)
             e == Call(<<"wire vault", "collateral">>, "usdc", <<"vault", g>>, Yes)
             f == Call(<<"wire engine", "insurance">>, "insurance", <<"engine", g>>, <<"insurance", 1>>)
             a == Wire("vault", "engine", g)
             b == Wire("engine", "gateway", g)
  <1>1. WireCore(g, v) = <<a, b, c, d, e, f>>
    BY DEF WireCore
  <1>2. /\ IsId(<<"gateway", g>>) /\ IsId(<<"vault", g>>) /\ IsId(<<"engine", g>>) /\ IsId(Yes) /\ IsId(v)
        /\ IsId(<<"insurance", 1>>)
    BY Values
  <1>3. Quiet(a) /\ Quiet(b)
    BY WireIsQuiet
  <1>4. Quiet(d) /\ Quiet(e) /\ Quiet(f)
    BY <1>2, PlainCall
  <1>5. v # Admin => Safe(c)
    BY <1>2, RoleCall
  <1>6. g # 1 => Quiet(c)
    BY <1>2, PlainCall
  <1> HIDE DEF a, b, c, d, e, f
  <1>7. Proper(WireCore(g, v)) /\ ToSet(WireCore(g, v)) = {a, b, c, d, e, f}
    BY <1>1, Six
  <1>8. QED BY <1>3, <1>4, <1>5, <1>6, <1>7 DEF Quiet, a, b, c

-----------------------------------------------------------------------------
(* The plans *)

\* The steps that connect the core g.
Connects(S, g) ==
    /\ Wire("vault", "engine", g) \in S /\ Wire("engine", "gateway", g) \in S
    /\ \E v : Call(<<"wire gateway", "operator">>, "operator", <<"gateway", g>>, v) \in S /\ IsId(v)
    /\ Initialize("engine", g) \in S /\ Initialize("gateway", g) \in S
    /\ Market("engine", g) \in S

\* Deploying and initializing every contract.
LEMMA ContractsIs ==
  /\ Proper(Contracts) /\ \A s \in ToSet(Contracts) : Safe(s)
  /\ Initialize("engine", 1) \in ToSet(Contracts) /\ Initialize("gateway", 1) \in ToSet(Contracts)
  <1> DEFINE a == [i \in DOMAIN Order |-> Upload(Order[i])]
             b == [i \in DOMAIN Order |-> Deploy(Order[i], 1)]
             c == [i \in DOMAIN Order |-> Initialize(Order[i], 1)]
  <1>1. Contracts = a \o b \o c
    BY DEF Contracts, ForEach
  <1>2. /\ DOMAIN a = 1..8 /\ \A i \in 1..8 : a[i] = Upload(Order[i])
        /\ DOMAIN b = 1..8 /\ \A i \in 1..8 : b[i] = Deploy(Order[i], 1)
        /\ DOMAIN c = 1..8 /\ \A i \in 1..8 : c[i] = Initialize(Order[i], 1)
    BY OrderIs
  <1>3. Proper(a) /\ Proper(b) /\ Proper(c)
    <2>1. a = [i \in DOMAIN Order |-> a[i]] /\ b = [i \in DOMAIN Order |-> b[i]] /\ c = [i \in DOMAIN Order |-> c[i]]
      OBVIOUS
    <2> HIDE DEF a, b, c
    <2>2. QED BY <2>1, OrderIs, Mapped
  <1> HIDE DEF a, b, c
  <1>4. Proper(Contracts) /\ ToSet(Contracts) = ToSet(a) \cup ToSet(b) \cup ToSet(c)
    <2>1. Proper(a \o b) /\ ToSet(a \o b) = ToSet(a) \cup ToSet(b)
      BY <1>3, Concatenation
    <2>2. QED BY <1>1, <1>3, <2>1, Concatenation
  <1>5. \A s \in ToSet(a) : Safe(s)
    BY <1>2, OrderIs, UploadIsQuiet DEF ToSet, Quiet
  <1>6. \A s \in ToSet(b) : Safe(s)
    BY <1>2, OrderIs, DeployIsQuiet DEF ToSet, Quiet
  <1>7. \A s \in ToSet(c) : Safe(s)
    BY <1>2, OrderIs, InitializeIsSafe DEF ToSet
  <1>8. \A n \in Names : Initialize(n, 1) \in ToSet(c)
    BY <1>2, OrderIs DEF ToSet
  <1>9. QED BY <1>4, <1>5, <1>6, <1>7, <1>8 DEF Names

\* Wiring the liquidation and insurance contracts.
LEMMA WireRiskIs == Proper(WireRisk) /\ \A s \in ToSet(WireRisk) : Safe(s)
  <1> DEFINE a == Wire("engine", "liquidation", 1)
             b == Wire("vault", "insurance", 1)
             c == Wire("vault", "liquidation", 1)
             d == Wire("insurance", "vault", 1)
  <1>1. Safe(a) /\ Safe(b) /\ Safe(c) /\ Safe(d)
    BY WireIsQuiet DEF Quiet
  <1>2. WireRisk = <<a, b, c, d>>
    BY DEF WireRisk
  <1> HIDE DEF a, b, c, d
  <1>3. QED BY <1>1, <1>2, Four

\* Guardians, the cap and the extensions of entries.
LEMMA PostureIs == Proper(Posture) /\ \A s \in ToSet(Posture) : Safe(s)
  <1> DEFINE n == <<"oracle", "vault", "engine", "gateway">>
             a == <<Guardian("vault"), Guardian("gateway"), Cap>>
             b == [i \in DOMAIN n |-> Ttl(n[i])]
  <1>1. Posture = a \o b
    BY DEF Posture, ForEach
  <1>2. Proper(a) /\ \A s \in ToSet(a) : Safe(s)
    BY Three, OthersAreSafe DEF Quiet
  <1>3. DOMAIN n = 1..4 /\ b = [i \in DOMAIN n |-> b[i]] /\ \A i \in DOMAIN n : b[i] = Ttl(n[i])
    BY Four
  <1> HIDE DEF a, b, n
  <1>4. Proper(b)
    BY <1>3, Mapped
  <1>5. \A s \in ToSet(b) : Safe(s)
    <2>1. DOMAIN b = DOMAIN n
      BY <1>3
    <2>2. QED BY <1>3, <2>1, OthersAreSafe DEF ToSet, Quiet
  <1>6. QED BY <1>1, <1>2, <1>4, <1>5, Concatenation

\* Both networks' deployments begin with the operator accounts, take only safe
\* steps after it and connect the first core.
LEMMA MainnetPlanIs ==
  /\ Proper(MainnetPlan) /\ Len(MainnetPlan) > 0 /\ MainnetPlan[1] = OpsAccounts
  /\ \A s \in ToSet(MainnetPlan) : s = OpsAccounts \/ Safe(s)
  /\ Connects(ToSet(MainnetPlan), 1)
  <1> DEFINE z == <<OpsAccounts>>
             e == <<SetFeed(<<"oracle", "feed">>, "XLM", FromFile, 1), Market("engine", 1), Market("vault", 1)>>
             h == <<SeedMarkets>>
             a == z \o Contracts
             b == a \o WireCore(1, FromFile)
             c == b \o WireRisk
             d == c \o e
             f == d \o Posture
  <1>1. MainnetPlan = f \o h
    BY DEF MainnetPlan
  <1>2. /\ Proper(e) /\ Market("engine", 1) \in ToSet(e) /\ \A s \in ToSet(e) : Safe(s)
    <2>1. Safe(SetFeed(<<"oracle", "feed">>, "XLM", FromFile, 1))
      <3>1. <<"oracle", "feed">> # <<"ops", "accounts">> /\ IsId(FromFile)
        BY Values
      <3>2. QED BY <3>1, SetFeedIsSafe
    <2>2. Safe(Market("engine", 1)) /\ Safe(Market("vault", 1))
      BY MarketIsQuiet DEF Quiet
    <2>3. QED BY <2>1, <2>2, Three
  <1>3. Proper(z) /\ ToSet(z) = {OpsAccounts} /\ Len(z) = 1 /\ z[1] = OpsAccounts
    BY One
  <1>4. Proper(h) /\ \A s \in ToSet(h) : Safe(s)
    BY One, OthersAreSafe DEF Quiet
  <1>w. /\ Proper(WireCore(1, FromFile)) /\ \A s \in ToSet(WireCore(1, FromFile)) : Safe(s)
        /\ Wire("vault", "engine", 1) \in ToSet(WireCore(1, FromFile))
        /\ Wire("engine", "gateway", 1) \in ToSet(WireCore(1, FromFile))
        /\ Call(<<"wire gateway", "operator">>, "operator", <<"gateway", 1>>, FromFile) \in ToSet(WireCore(1, FromFile))
    BY WireCoreIs, Values
  <1> HIDE DEF e, h, z
  <1>5. Proper(a) /\ ToSet(a) = {OpsAccounts} \cup ToSet(Contracts) /\ Len(a) > 0 /\ a[1] = OpsAccounts
    <2>1. Proper(z) /\ Proper(Contracts) /\ Len(z) > 0
      BY <1>3, ContractsIs
    <2>2. Proper(a) /\ ToSet(a) = ToSet(z) \cup ToSet(Contracts) /\ Len(a) > 0 /\ a[1] = z[1]
      BY <2>1, Joined
    <2>3. QED BY <2>2, <1>3
  <1> HIDE DEF a
  <1>6. Proper(b) /\ ToSet(b) = ToSet(a) \cup ToSet(WireCore(1, FromFile)) /\ Len(b) > 0 /\ b[1] = OpsAccounts
    <2>1. Proper(WireCore(1, FromFile))
      BY <1>w
    <2>2. QED BY <2>1, <1>5, Joined
  <1> HIDE DEF b
  <1>7. Proper(c) /\ ToSet(c) = ToSet(b) \cup ToSet(WireRisk) /\ Len(c) > 0 /\ c[1] = OpsAccounts
    BY <1>6, WireRiskIs, Joined
  <1> HIDE DEF c
  <1>8. Proper(d) /\ ToSet(d) = ToSet(c) \cup ToSet(e) /\ Len(d) > 0 /\ d[1] = OpsAccounts
    BY <1>7, <1>2, Joined
  <1> HIDE DEF d
  <1>9. Proper(f) /\ ToSet(f) = ToSet(d) \cup ToSet(Posture) /\ Len(f) > 0 /\ f[1] = OpsAccounts
    BY <1>8, PostureIs, Joined
  <1> HIDE DEF f
  <1>10. /\ Proper(MainnetPlan) /\ ToSet(MainnetPlan) = ToSet(f) \cup ToSet(h)
         /\ Len(MainnetPlan) > 0 /\ MainnetPlan[1] = OpsAccounts
    BY <1>1, <1>9, <1>4, Joined
  <1>11. ToSet(MainnetPlan) = {OpsAccounts} \cup ToSet(Contracts) \cup ToSet(WireCore(1, FromFile))
                              \cup ToSet(WireRisk) \cup ToSet(e) \cup ToSet(Posture) \cup ToSet(h)
    BY <1>5, <1>6, <1>7, <1>8, <1>9, <1>10
  <1>12. Connects(ToSet(MainnetPlan), 1)
    BY <1>2, <1>w, <1>11, ContractsIs, Values DEF Connects
  <1>13. \A s \in ToSet(MainnetPlan) : s = OpsAccounts \/ Safe(s)
    BY <1>2, <1>4, <1>w, <1>11, ContractsIs, WireRiskIs, PostureIs
  <1>14. QED BY <1>10, <1>12, <1>13

\* The deployment to testnet connects the core, after minting keys.
LEMMA TestnetPlanIs ==
  /\ Proper(TestnetPlan) /\ Len(TestnetPlan) > 0 /\ TestnetPlan[1] = OpsAccounts
  /\ \A s \in ToSet(TestnetPlan) : s = OpsAccounts \/ Safe(s)
  /\ Connects(ToSet(TestnetPlan), 1)
  <1> DEFINE z == <<OpsAccounts>>
             k == Call(<<"wire vault", "operator">>, "operator", <<"vault", 1>>, FromEnv)
             m == SetFeed(<<"oracle", "feed">>, "XLM", FromEnv, 1)
             n == SetFeed(<<"oracle", "feed">>, "USDC", FromEnv, 1)
             e == <<k, m, n, Market("engine", 1)>>
             a == z \o Contracts
             b == a \o WireCore(1, FromEnv)
             c == b \o WireRisk
             d == c \o e
  <1>1. TestnetPlan = d \o Posture
    BY DEF TestnetPlan
  <1>2. /\ Proper(e) /\ Market("engine", 1) \in ToSet(e) /\ \A s \in ToSet(e) : Safe(s)
    <2>1. Safe(m) /\ Safe(n)
      <3>1. <<"oracle", "feed">> # <<"ops", "accounts">> /\ IsId(FromEnv)
        BY Values
      <3>2. QED BY <3>1, SetFeedIsSafe
    <2>2. Safe(k)
      <3>1. <<"wire vault", "operator">> # <<"ops", "accounts">> /\ IsId(<<"vault", 1>>)
        BY Values
      <3>2. QED BY <3>1, RoleCall
    <2>3. Safe(Market("engine", 1))
      BY MarketIsQuiet DEF Quiet
    <2> HIDE DEF k, m, n
    <2>4. QED BY <2>1, <2>2, <2>3, Four
  <1>3. Proper(z) /\ ToSet(z) = {OpsAccounts} /\ Len(z) = 1 /\ z[1] = OpsAccounts
    BY One
  <1>w. /\ Proper(WireCore(1, FromEnv)) /\ \A s \in ToSet(WireCore(1, FromEnv)) : Safe(s)
        /\ Wire("vault", "engine", 1) \in ToSet(WireCore(1, FromEnv))
        /\ Wire("engine", "gateway", 1) \in ToSet(WireCore(1, FromEnv))
        /\ Call(<<"wire gateway", "operator">>, "operator", <<"gateway", 1>>, FromEnv) \in ToSet(WireCore(1, FromEnv))
    BY WireCoreIs, Values
  <1> HIDE DEF e, z
  <1>5. Proper(a) /\ ToSet(a) = {OpsAccounts} \cup ToSet(Contracts) /\ Len(a) > 0 /\ a[1] = OpsAccounts
    <2>1. Proper(z) /\ Proper(Contracts) /\ Len(z) > 0
      BY <1>3, ContractsIs
    <2>2. Proper(a) /\ ToSet(a) = ToSet(z) \cup ToSet(Contracts) /\ Len(a) > 0 /\ a[1] = z[1]
      BY <2>1, Joined
    <2>3. QED BY <2>2, <1>3
  <1> HIDE DEF a
  <1>6. Proper(b) /\ ToSet(b) = ToSet(a) \cup ToSet(WireCore(1, FromEnv)) /\ Len(b) > 0 /\ b[1] = OpsAccounts
    <2>1. Proper(WireCore(1, FromEnv))
      BY <1>w
    <2>2. QED BY <2>1, <1>5, Joined
  <1> HIDE DEF b
  <1>7. Proper(c) /\ ToSet(c) = ToSet(b) \cup ToSet(WireRisk) /\ Len(c) > 0 /\ c[1] = OpsAccounts
    BY <1>6, WireRiskIs, Joined
  <1> HIDE DEF c
  <1>8. Proper(d) /\ ToSet(d) = ToSet(c) \cup ToSet(e) /\ Len(d) > 0 /\ d[1] = OpsAccounts
    BY <1>7, <1>2, Joined
  <1> HIDE DEF d
  <1>9. /\ Proper(TestnetPlan) /\ ToSet(TestnetPlan) = ToSet(d) \cup ToSet(Posture)
        /\ Len(TestnetPlan) > 0 /\ TestnetPlan[1] = OpsAccounts
    BY <1>1, <1>8, PostureIs, Joined
  <1>10. ToSet(TestnetPlan) = {OpsAccounts} \cup ToSet(Contracts) \cup ToSet(WireCore(1, FromEnv))
                              \cup ToSet(WireRisk) \cup ToSet(e) \cup ToSet(Posture)
    BY <1>5, <1>6, <1>7, <1>8, <1>9
  <1>11. Connects(ToSet(TestnetPlan), 1)
    BY <1>2, <1>w, <1>10, ContractsIs, Values DEF Connects
  <1>12. \A s \in ToSet(TestnetPlan) : s = OpsAccounts \/ Safe(s)
    BY <1>2, <1>w, <1>10, ContractsIs, WireRiskIs, PostureIs
  <1>13. QED BY <1>9, <1>11, <1>12

\* A step of any kind that writes one fact, of no reference and no role.
LEMMA PlainWrite ==
  ASSUME NEW key, NEW kind, NEW f, NEW id, IsId(id), NEW of, IsId(of), NEW v, IsId(v), key # <<"ops", "accounts">>,
         kind \notin {"accounts", "db", "gate", "seed price"},
         f \notin {"engine", "vault", "gateway", "USDT0 price", "USDT0 listed"},
         f \notin {"operator", "guardian", "publisher XLM", "publisher USDC"}
  PROVE  Quiet(Step(key, kind, id, {<<f, of, v>>}))
  <1> PICK s : s = Step(key, kind, id, {<<f, of, v>>})
    OBVIOUS
  <1> PICK p : p = <<f, of, v>>
    OBVIOUS
  <1>1. IsTriple(p) /\ p[1] = f
    BY DEF IsTriple
  <1>2. s.puts = {p} /\ s.id = id /\ s.kind = kind /\ s.key = key
    BY DEF Step
  <1>3. Fine(s) /\ \A q \in s.puts : ~IsRole(q)
    BY <1>1, <1>2, PlainStep
  <1>4. OpsAccounts.key = <<"ops", "accounts">>
    BY DEF OpsAccounts, Step
  <1>5. QED BY <1>2, <1>3, <1>4 DEF Quiet, Safe

\* A redeployed core is connected too, and takes no role of the first.
LEMMA CorePlanIs ==
  ASSUME NEW g \in Gens, g # 1
  PROVE  /\ Proper(CorePlan[g]) /\ \A s \in ToSet(CorePlan[g]) : Quiet(s)
         /\ Connects(ToSet(CorePlan[g]), g)
  <1> DEFINE a == [i \in DOMAIN Core |-> Deploy(Core[i], g)]
             b == [i \in DOMAIN Core |-> Initialize(Core[i], g)]
             w == WireCore(g, Admin)
             e == <<Market("engine", g), Market("vault", g)>>
             c == a \o b
             d == c \o w
  <1>0. g \in Nat
    BY DEF Gens
  <1>1. CorePlan[g] = d \o e
    BY DEF CorePlan, ForEach
  <1>2. /\ DOMAIN a = 1..4 /\ \A i \in 1..4 : a[i] = Deploy(Core[i], g)
        /\ DOMAIN b = 1..4 /\ \A i \in 1..4 : b[i] = Initialize(Core[i], g)
    BY CoreIs
  <1>3. Proper(a) /\ Proper(b)
    <2>1. a = [i \in DOMAIN Core |-> a[i]] /\ b = [i \in DOMAIN Core |-> b[i]]
      OBVIOUS
    <2> HIDE DEF a, b
    <2>2. QED BY <2>1, CoreIs, Mapped
  <1>4. /\ Proper(e) /\ Market("engine", g) \in ToSet(e) /\ \A s \in ToSet(e) : Quiet(s)
    <2>1. Quiet(Market("engine", g)) /\ Quiet(Market("vault", g))
      BY <1>0, MarketIsQuiet
    <2>2. QED BY <2>1, Two
  <1>5. /\ Proper(w) /\ \A s \in ToSet(w) : Quiet(s)
        /\ Wire("vault", "engine", g) \in ToSet(w) /\ Wire("engine", "gateway", g) \in ToSet(w)
        /\ Call(<<"wire gateway", "operator">>, "operator", <<"gateway", g>>, Admin) \in ToSet(w)
    BY <1>0, WireCoreIs
  <1> HIDE DEF a, b, w, e
  <1>6. \A s \in ToSet(a) : Quiet(s)
    BY <1>0, <1>2, CoreIs, DeployIsQuiet DEF ToSet
  <1>7. \A s \in ToSet(b) : Quiet(s)
    BY <1>0, <1>2, CoreIs, InitializeIsSafe DEF ToSet
  <1>8. Initialize("engine", g) \in ToSet(b) /\ Initialize("gateway", g) \in ToSet(b)
    BY <1>2, CoreIs DEF ToSet
  <1>9. Proper(c) /\ ToSet(c) = ToSet(a) \cup ToSet(b)
    BY <1>3, Concatenation
  <1> HIDE DEF c
  <1>w. Proper(w)
    BY <1>5
  <1>10. Proper(d) /\ ToSet(d) = ToSet(c) \cup ToSet(w)
    BY <1>9, <1>w, Concatenation
  <1> HIDE DEF d
  <1>e. Proper(e)
    BY <1>4
  <1>11. Proper(CorePlan[g]) /\ ToSet(CorePlan[g]) = ToSet(d) \cup ToSet(e)
    BY <1>1, <1>10, <1>e, Concatenation
  <1>12. ToSet(CorePlan[g]) = ToSet(a) \cup ToSet(b) \cup ToSet(w) \cup ToSet(e)
    BY <1>9, <1>10, <1>11
  <1>13. Connects(ToSet(CorePlan[g]), g)
    BY <1>4, <1>5, <1>8, <1>12, Values DEF Connects
  <1>14. \A s \in ToSet(CorePlan[g]) : Quiet(s)
    BY <1>4, <1>5, <1>6, <1>7, <1>12
  <1>15. QED BY <1>11, <1>13, <1>14

\* A redeployed oracle takes no role of the first.
LEMMA OraclePlanIs ==
  ASSUME NEW g \in Gens, g # 1
  PROVE  Proper(OraclePlan[g]) /\ \A s \in ToSet(OraclePlan[g]) : Quiet(s)
  <1> DEFINE a == Deploy("oracle", g)
             b == Initialize("oracle", g)
             c == SetFeed(<<"feed", "XLM">>, "XLM", Admin, g)
             d == PatchFiles
  <1>0. g \in Nat
    BY DEF Gens
  <1>1. OraclePlan[g] = <<a, b, c, d>>
    BY DEF OraclePlan
  <1>2. Quiet(a) /\ Quiet(b)
    BY <1>0, DeployIsQuiet, InitializeIsSafe DEF Names
  <1>3. Quiet(c)
    <2>1. <<"feed", "XLM">> # <<"ops", "accounts">> /\ IsId(Admin)
      BY Values
    <2>2. QED BY <1>0, <2>1, SetFeedIsSafe
  <1>4. Quiet(d)
    <2>1. d.puts = {} /\ d.id = Yes /\ d.kind = "no such file" /\ d.key = <<"patch", "files">>
      BY DEF PatchFiles, Step
    <2>2. OpsAccounts.key = <<"ops", "accounts">> /\ <<"patch", "files">> # <<"ops", "accounts">>
      BY DEF OpsAccounts, Step
    <2>3. QED BY <2>1, <2>2, Values DEF Quiet, Safe, Fine
  <1> HIDE DEF a, b, c, d
  <1>5. QED BY <1>1, <1>2, <1>3, <1>4, Four

\* Issuing an asset touches no contract.
LEMMA IssuePlanIs ==
  ASSUME NEW g \in Gens
  PROVE  Proper(IssuePlan[g]) /\ \A s \in ToSet(IssuePlan[g]) : Quiet(s)
  <1> DEFINE id == <<"usdt0", g>>
             a == Step(<<"usdt0", "trustline">>, "classic", id, {<<"trustline", id, Yes>>})
             b == Step(<<"usdt0", "supply">>, "classic", id, {<<"supply", id, Yes>>})
             c == Step(<<"usdt0", "sac">>, "classic", id, {<<"instance", id, Yes>>})
  <1>0. g \in Nat
    BY DEF Gens
  <1>1. IssuePlan[g] = <<a, b, c>>
    BY DEF IssuePlan
  <1>2. IsId(id) /\ IsId(Yes)
    BY <1>0, Values
  <1> HIDE DEF id
  <1>3. Quiet(a) /\ Quiet(b) /\ Quiet(c)
    BY <1>2, PlainWrite
  <1> HIDE DEF a, b, c
  <1>4. QED BY <1>1, <1>3, Three

\* Rewiring the liquidation changes no reference that clients use.
LEMMA RewirePlanIs ==
  ASSUME NEW g \in Gens, NEW c \in Gens
  PROVE  Proper(RewirePlan[g][c]) /\ \A s \in ToSet(RewirePlan[g][c]) : Quiet(s)
  <1> DEFINE i == <<"insurance", g>>
             l == <<"liquidation", g>>
             v == <<"vault", c>>
             e == <<"engine", c>>
             q == <<"governance", 1>>
             s1 == Initialize("insurance", g)
             s2 == Call(<<"set", "vault">>, "vault", i, v)
             s3 == Step(<<"init", "liquidation">>, "init", l, {<<"ready", l, Yes>>, <<"engine", l, e>>})
             s4 == Call(<<"engine", "liquidation">>, "liquidation", e, l)
             s5 == Call(<<"engine", "insurance">>, "insurance", e, i)
             s6 == Call(<<"vault", "liquidation">>, "liquidation", v, l)
             s7 == Call(<<"vault", "insurance">>, "insurance", v, i)
             s8 == Call(<<"seed", "fund">>, "seeded", i, Yes)
             s9 == Call(<<"nominate", "liquidation">>, "nominated", l, Yes)
             s10 == Step(<<"queue", "liquidation">>, "call", q, {<<"queued", l, Yes>>})
             s11 == Call(<<"nominate", "insurance">>, "nominated", i, Yes)
             s12 == Step(<<"queue", "insurance">>, "call", q, {<<"queued", i, Yes>>})
             a == <<s1, s2, s3, s4, s5, s6>>
             b == <<s7, s8, s9, s10, s11, s12>>
  <1>0. g \in Nat /\ c \in Nat
    BY DEF Gens
  <1>1. RewirePlan[g][c] = <<s1, s2, s3, s4, s5, s6, s7, s8, s9, s10, s11, s12>>
    BY DEF RewirePlan
  <1>2. IsId(i) /\ IsId(l) /\ IsId(v) /\ IsId(e) /\ IsId(q) /\ IsId(Yes)
    BY <1>0, Values
  <1>3. Quiet(s1)
    BY <1>0, InitializeIsSafe DEF Names
  <1>4. Quiet(s2)
    <2> PICK s : s = s2
      OBVIOUS
    <2> PICK p : p = <<"vault", i, v>>
      OBVIOUS
    <2>1. IsTriple(p) /\ p[1] = "vault" /\ p[2] = i /\ p[3] = v
      BY <1>2 DEF IsTriple
    <2>2. s.puts = {p} /\ s.id = i /\ s.kind = "call" /\ s.key = <<"set", "vault">>
      BY DEF Call, Step
    <2>3. p[2][1] = "insurance"
      BY <2>1
    <2>4. ~Wiring(p) /\ ~VaultsEngine(p) /\ ~IsRole(p)
      BY <2>1, <2>3 DEF Wiring, VaultsEngine, IsRole
    <2>5. Fine(s) /\ \A r \in s.puts : ~IsRole(r)
      BY <1>2, <2>1, <2>2, <2>4 DEF Fine, Respects
    <2>6. s.key # OpsAccounts.key
      <3>1. OpsAccounts.key = <<"ops", "accounts">> /\ <<"set", "vault">> # <<"ops", "accounts">>
        BY DEF OpsAccounts, Step
      <3>2. QED BY <3>1, <2>2
    <2>7. QED BY <2>2, <2>5, <2>6 DEF Quiet, Safe
  <1>5. Quiet(s3)
    <2> PICK s : s = s3
      OBVIOUS
    <2> PICK p : p = <<"ready", l, Yes>>
      OBVIOUS
    <2> PICK r : r = <<"engine", l, e>>
      OBVIOUS
    <2>1. /\ IsTriple(p) /\ p[1] = "ready" /\ p[2] = l
          /\ IsTriple(r) /\ r[1] = "engine" /\ r[2] = l /\ r[3] = e
      BY <1>2 DEF IsTriple
    <2>2. s.puts = {p, r} /\ s.id = l /\ s.kind = "init" /\ s.key = <<"init", "liquidation">>
      BY DEF Step
    <2>3. p[2][1] = "liquidation" /\ r[2][1] = "liquidation"
      BY <2>1
    <2>4. ~Wiring(p) /\ ~VaultsEngine(p) /\ ~IsRole(p) /\ ~Wiring(r) /\ ~VaultsEngine(r) /\ ~IsRole(r)
      BY <2>1, <2>3 DEF Wiring, VaultsEngine, IsRole
    <2>5. Fine(s) /\ \A t \in s.puts : ~IsRole(t)
      BY <1>2, <2>1, <2>2, <2>4 DEF Fine, Respects
    <2>6. s.key # OpsAccounts.key
      <3>1. OpsAccounts.key = <<"ops", "accounts">> /\ <<"init", "liquidation">> # <<"ops", "accounts">>
        BY DEF OpsAccounts, Step
      <3>2. QED BY <3>1, <2>2
    <2>7. QED BY <2>2, <2>5, <2>6 DEF Quiet, Safe
  <1> HIDE DEF i, l, v, e, q
  <1>6. Quiet(s4) /\ Quiet(s5) /\ Quiet(s6) /\ Quiet(s7) /\ Quiet(s8) /\ Quiet(s9) /\ Quiet(s11)
    BY <1>2, PlainCall
  <1>7. Quiet(s10) /\ Quiet(s12)
    BY <1>2, PlainWrite
  <1> HIDE DEF s1, s2, s3, s4, s5, s6, s7, s8, s9, s10, s11, s12
  <1>8. RewirePlan[g][c] = a \o b
    BY <1>1
  <1>9. Proper(a) /\ ToSet(a) = {s1, s2, s3, s4, s5, s6} /\ Proper(b) /\ ToSet(b) = {s7, s8, s9, s10, s11, s12}
    BY Six
  <1> HIDE DEF a, b
  <1>10. QED BY <1>3, <1>4, <1>5, <1>6, <1>7, <1>8, <1>9, Concatenation

\* Listing: the gate is third, the cap fourth and the listing last.
LEMMA ListPlanIs ==
  ASSUME NEW c \in Gens, NEW a \in Gens
  PROVE  /\ DOMAIN ListPlan[c][a] = 1..5 /\ Len(ListPlan[c][a]) = 5
         /\ \A i \in 1..4 : Quiet(ListPlan[c][a][i])
         /\ ListPlan[c][a][3].kind = "gate" /\ ListPlan[c][a][3].id = First
         /\ ListPlan[c][a][4].kind = "call"
         /\ ListPlan[c][a][4].puts = {<<"USDT0 cap", <<"vault", c>>, <<"usdt0", a>>>>}
         /\ ListPlan[c][a][5].puts = {<<"USDT0 listed", <<"vault", c>>, <<"usdt0", a>>>>}
         /\ ListPlan[c][a][5].id = <<"vault", c>> /\ ListPlan[c][a][5].kind = "call"
         /\ \A p \in ListPlan[c][a][5].puts : p[1] = "USDT0 listed"
  <1> DEFINE v == <<"vault", c>>
             u == <<"usdt0", a>>
             s1 == SetFeed(<<"usdt0", "feed">>, "USDT0", FromEnv, 1)
             s2 == Step(<<"usdt0", "seed">>, "seed price", First, {<<"USDT0 price", First, <<"fresh", 0>>>>})
             s3 == Step(<<"usdt0", "gate">>, "gate", First, {})
             s4 == Step(<<"usdt0", "cap">>, "call", v, {<<"USDT0 cap", v, u>>})
             s5 == Step(<<"usdt0", "list">>, "call", v, {<<"USDT0 listed", v, u>>})
             L == ListPlan[c][a]
  <1>0. c \in Nat /\ a \in Nat
    BY DEF Gens
  <1>1. L = <<s1, s2, s3, s4, s5>>
    BY DEF ListPlan, First
  <1>2. IsId(v) /\ IsId(u) /\ IsId(First) /\ IsId(<<"fresh", 0>>)
    BY <1>0, Values DEF First
  <1>3. OpsAccounts.key = <<"ops", "accounts">>
    BY DEF OpsAccounts, Step
  <1>4. Quiet(s1)
    <2>1. <<"usdt0", "feed">> # <<"ops", "accounts">> /\ IsId(FromEnv)
      BY Values
    <2>2. QED BY <2>1, SetFeedIsSafe
  <1>5. Quiet(s2)
    <2> PICK s : s = s2
      OBVIOUS
    <2> PICK p : p = <<"USDT0 price", First, <<"fresh", 0>>>>
      OBVIOUS
    <2>1. IsTriple(p) /\ p[1] = "USDT0 price" /\ p[2] = First
      BY <1>2 DEF IsTriple
    <2>2. s.puts = {p} /\ s.id = First /\ s.kind = "seed price" /\ s.key = <<"usdt0", "seed">>
      BY DEF Step
    <2>3. p[2][1] = "oracle"
      BY <2>1 DEF First
    <2>4. ~Wiring(p) /\ ~VaultsEngine(p) /\ ~IsRole(p) /\ p[1] \notin Counted
      BY <2>1, <2>3 DEF Wiring, VaultsEngine, IsRole, Counted
    <2>5. Fine(s) /\ \A t \in s.puts : ~IsRole(t)
      BY <1>2, <2>1, <2>2, <2>4 DEF Fine, Respects
    <2>6. <<"usdt0", "seed">> # <<"ops", "accounts">>
      OBVIOUS
    <2>7. QED BY <1>3, <2>2, <2>5, <2>6 DEF Quiet, Safe
  <1>6. s3.kind = "gate" /\ s3.id = First /\ Quiet(s3)
    <2>1. s3.puts = {} /\ s3.id = First /\ s3.kind = "gate" /\ s3.key = <<"usdt0", "gate">>
      BY DEF Step
    <2>2. <<"usdt0", "gate">> # <<"ops", "accounts">>
      OBVIOUS
    <2>3. QED BY <1>2, <1>3, <2>1, <2>2 DEF Quiet, Safe, Fine
  <1>7. /\ s4.kind = "call" /\ s4.puts = {<<"USDT0 cap", v, u>>}
        /\ s5.kind = "call" /\ s5.puts = {<<"USDT0 listed", v, u>>} /\ s5.id = v
    BY DEF Step
  <1>p. \A p \in s5.puts : p[1] = "USDT0 listed"
    <2> PICK t : t = <<"USDT0 listed", v, u>>
      OBVIOUS
    <2>1. s5.puts = {t} /\ t[1] = "USDT0 listed"
      BY <1>7
    <2>2. QED BY <2>1
  <1>8. Quiet(s4)
    <2> HIDE DEF v, u
    <2>1. QED BY <1>2, PlainWrite
  <1> HIDE DEF s1, s2, s3, s4, s5
  <1>9. DOMAIN L = 1..5 /\ Len(L) = 5 /\ L[1] = s1 /\ L[2] = s2 /\ L[3] = s3 /\ L[4] = s4 /\ L[5] = s5
    BY <1>1
  <1>10. \A i \in 1..4 : Quiet(L[i])
    BY <1>4, <1>5, <1>6, <1>8, <1>9
  <1>11. QED BY <1>6, <1>7, <1>p, <1>9, <1>10

-----------------------------------------------------------------------------
(* Sets of facts that grow *)

\* What has been written, settled or listed stays so while facts grow.
LEMMA GrowsKeeps ==
  ASSUME NEW fs, NEW hs, Grows(fs, hs)
  PROVE  /\ \A f, id : HasIn(fs, f, id) => HasIn(hs, f, id)
         /\ \A s : SettledIn(fs, s) => SettledIn(hs, s)
         /\ \A p : ListedIn(fs, p) => ListedIn(hs, p)
  <1>1. ASSUME NEW f, NEW id, HasIn(fs, f, id) PROVE HasIn(hs, f, id)
    BY <1>1 DEF HasIn, Grows
  <1>2. ASSUME NEW s, SettledIn(fs, s) PROVE SettledIn(hs, s)
    BY <1>1, <1>2 DEF SettledIn, Grows
  <1>3. ASSUME NEW p, ListedIn(fs, p) PROVE ListedIn(hs, p)
    <2> PICK c : c = CapOfListing(p)
      OBVIOUS
    <2>1. c \in fs /\ c[1] = "USDT0 cap"
      BY <1>3 DEF ListedIn, CapOfListing
    <2>2. c \in hs
      BY <2>1 DEF Grows
    <2>3. QED BY <1>1, <1>3, <2>2 DEF ListedIn
  <1>4. QED BY <1>1, <1>2, <1>3

\* Facts that stay the same grow.
LEMMA Unchanged ==
  ASSUME NEW fs, \A p \in fs : IsTriple(p)
  PROVE  Grows(fs, fs)
  BY DEF Grows, HasIn

\* A pending transaction stays as harmless as it was.
LEMMA TxStaysGood ==
  ASSUME NEW fs, NEW hs, Grows(fs, hs), NEW tx, NEW keys, NEW more, GoodTx(tx, fs, keys), keys \subseteq more
  PROVE  GoodTx(tx, hs, more)
  BY GrowsKeeps DEF GoodTx

\* Two facts that share contract and field and are typed alike.
LEMMA SameFact ==
  ASSUME NEW p, NEW q, IsTriple(p), IsTriple(q), p[1] = q[1], p[2] = q[2], p[3] = q[3]
  PROVE  p = q
  BY DEF IsTriple

\* A transaction that passes the contracts' checks leaves the ledger in order.
LEMMA WriteIsGood ==
  ASSUME NEW fs, NEW keys, NEW tx, GoodFacts(fs, keys), GoodTx(tx, fs, keys),
         tx.kind = "init" => ~HasIn(fs, "ready", tx.id),
         tx.kind = "call" => HasIn(fs, "ready", tx.id),
         tx.kind = "seed price" => HasIn(fs, "USDT0", tx.id)
  PROVE  Grows(fs, Write(fs, tx.puts)) /\ GoodFacts(Write(fs, tx.puts), keys)
  <1> DEFINE hs == Write(fs, tx.puts)
  <1>1. /\ \A p \in tx.puts : p \in hs
        /\ \A p \in hs : p \in fs \/ p \in tx.puts
        /\ \A p \in fs : p[1] \in {"USDT0 cap", "USDT0 listed"} => p \in hs
        /\ \A p \in fs : p \in hs \/ \E q \in tx.puts : <<q[1], q[2]>> = <<p[1], p[2]>>
    BY DEF Write
  <1> HIDE DEF hs
  <1>2. ASSUME NEW p \in fs PROVE HasIn(hs, p[1], p[2])
    <2>1. CASE p \in hs
      BY <2>1 DEF HasIn
    <2>2. CASE \E q \in tx.puts : <<q[1], q[2]>> = <<p[1], p[2]>>
      <3>1. PICK q \in tx.puts : q[1] = p[1] /\ q[2] = p[2]
        BY <2>2
      <3>2. QED BY <1>1, <3>1 DEF HasIn
    <2>3. QED BY <1>1, <2>1, <2>2
  <1>3. ASSUME NEW p \in fs, IsWire(p) PROVE p \in hs
    <2>1. SUFFICES ASSUME NEW q \in tx.puts, q[1] = p[1], q[2] = p[2] PROVE p = q
      BY <1>1
    <2>2. /\ IsTriple(p) /\ Wiring(p) /\ p[3] # Admin /\ p[3] = <<p[1], p[2][2]>>
          /\ VaultsEngine(p) => HasIn(fs, "ready", p[2])
      BY <1>3 DEF IsWire, GoodFacts
    <2>3. IsTriple(q) /\ Respects(tx.kind, tx.id, q)
      BY DEF GoodTx
    <2>4. Wiring(q) /\ (VaultsEngine(q) => VaultsEngine(p))
      BY <2>1, <2>2 DEF Wiring, VaultsEngine
    <2>5. CASE q[3] = <<q[1], q[2][2]>>
      BY <2>1, <2>2, <2>3, <2>5, SameFact
    <2>6. CASE VaultsEngine(q) /\ q[3] = Admin
      <3>1. tx.id = q[2] /\ tx.kind = "init"
        BY <2>3, <2>6 DEF Respects
      <3>2. HasIn(fs, "ready", q[2])
        BY <2>1, <2>2, <2>4, <2>6
      <3>3. QED BY <3>1, <3>2
    <2>7. QED BY <2>3, <2>4, <2>5, <2>6 DEF Respects
  <1>4. Grows(fs, hs)
    BY <1>1, <1>2, <1>3 DEF Grows
  <1>5. ASSUME NEW p \in hs
        PROVE  /\ IsTriple(p)
               /\ Wiring(p) => p[3] = <<p[1], p[2][2]>> \/ (VaultsEngine(p) /\ p[3] = Admin)
               /\ VaultsEngine(p) /\ p[3] # Admin => HasIn(hs, "ready", p[2])
               /\ IsRole(p) => p[3] \in keys
               /\ p[1] = "USDT0 price" => p[2] = First /\ HasIn(hs, "USDT0", First)
               /\ p[1] = "USDT0 listed" => ListedIn(hs, p)
    <2>0. /\ \A f, id : HasIn(fs, f, id) => HasIn(hs, f, id)
          /\ \A q : ListedIn(fs, q) => ListedIn(hs, q)
      BY <1>4, GrowsKeeps
    <2>1. CASE p \in fs
      BY <2>0, <2>1 DEF GoodFacts
    <2>2. CASE p \in tx.puts
      <3>1. /\ IsTriple(p) /\ Respects(tx.kind, tx.id, p) /\ (IsRole(p) => p[3] \in keys)
            /\ p[1] = "USDT0 listed" => ListedIn(fs, p)
        BY <2>2 DEF GoodTx
      <3>2. VaultsEngine(p) /\ p[3] # Admin => HasIn(fs, "ready", p[2])
        BY <3>1 DEF Respects
      <3>3. p[1] = "USDT0 price" => p[2] = First /\ HasIn(fs, "USDT0", First)
        BY <3>1 DEF Respects
      <3>4. Wiring(p) => p[3] = <<p[1], p[2][2]>> \/ (VaultsEngine(p) /\ p[3] = Admin)
        BY <3>1 DEF Respects
      <3>5. QED BY <2>0, <3>1, <3>2, <3>3, <3>4
    <2>3. QED BY <1>1, <2>1, <2>2
  <1>6. GoodFacts(hs, keys)
    BY <1>5 DEF GoodFacts
  <1>7. QED BY <1>4, <1>6 DEF hs

\* Facts of no reference, role, price or listing may be added.
LEMMA UnionIsGood ==
  ASSUME NEW fs, NEW keys, NEW puts, GoodFacts(fs, keys),
         \A p \in puts : /\ IsTriple(p) /\ ~Wiring(p) /\ ~IsRole(p)
                         /\ p[1] \notin {"USDT0 price", "USDT0 listed"}
  PROVE  Grows(fs, fs \cup puts) /\ GoodFacts(fs \cup puts, keys)
  <1>1. Grows(fs, fs \cup puts)
    BY DEF Grows, HasIn
  <1>2. /\ \A f, id : HasIn(fs, f, id) => HasIn(fs \cup puts, f, id)
        /\ \A q : ListedIn(fs, q) => ListedIn(fs \cup puts, q)
    BY <1>1, GrowsKeeps
  <1>3. \A p : VaultsEngine(p) => Wiring(p)
    BY DEF Wiring, VaultsEngine
  <1>4. QED BY <1>1, <1>2, <1>3 DEF GoodFacts

\* The admin's environment or the keys on file: more keys, the same facts.
LEMMA MoreKeys ==
  ASSUME NEW fs, NEW keys, NEW more, GoodFacts(fs, keys), keys \subseteq more
  PROVE  GoodFacts(fs, more)
  BY DEF GoodFacts

-----------------------------------------------------------------------------
(* The plan of the running script *)

PlanOf(script, g, core, n) ==
    CASE script = "deploy" -> DeployPlan[n]
      [] script = "core" -> CorePlan[g]
      [] script = "oracle" -> OraclePlan[g]
      [] script = "rewire" -> RewirePlan[g][core]
      [] script = "issue" -> IssuePlan[g]
      [] script = "list" -> ListPlan[core][g]

\* What the steps of a plan may be.
StepAllowed(script, i, s) ==
    /\ ~(script = "list" /\ i = 5) => Fine(s)
    /\ script # "deploy" => s.kind # "accounts" /\ \A p \in s.puts : ~IsRole(p)
    /\ s.kind = "accounts" \/ s.key = OpsAccounts.key => s = OpsAccounts \/ script # "deploy"

\* What all plans have in common.
LEMMA PlanOfIs ==
  ASSUME NEW script \in Scripts \ {"off"}, NEW g, NEW core, NEW n \in {"mainnet", "testnet"},
         script \in {"core", "oracle", "issue"} => g \in Gens /\ g # 1,
         script \in {"rewire", "list"} => g \in Gens /\ core \in Gens,
         NEW P, P = PlanOf(script, g, core, n)
  PROVE  /\ Len(P) \in Nat /\ DOMAIN P = 1..Len(P)
         /\ \A i \in 1..Len(P) : StepAllowed(script, i, P[i])
         /\ script = "deploy" => Len(P) > 0 /\ P[1] = OpsAccounts
         /\ script = "list" => Len(P) = 5
         /\ script = "deploy" => Connects(ToSet(P), 1)
         /\ script = "core" => Connects(ToSet(P), g)
  <1>0. ASSUME NEW s, s = OpsAccounts \/ Safe(s), script = "deploy", NEW i PROVE StepAllowed(script, i, s)
    BY <1>0, OthersAreSafe DEF StepAllowed, Safe
  <1>1. ASSUME NEW s, Quiet(s), script # "deploy", NEW i PROVE StepAllowed(script, i, s)
    BY <1>1 DEF StepAllowed, Quiet, Safe
  <1>2. CASE script = "deploy"
    <2>1. P = MainnetPlan \/ P = TestnetPlan
      BY <1>2 DEF PlanOf, DeployPlan
    <2>2. /\ Proper(P) /\ Len(P) > 0 /\ P[1] = OpsAccounts
          /\ \A s \in ToSet(P) : s = OpsAccounts \/ Safe(s)
          /\ Connects(ToSet(P), 1)
      BY <2>1, MainnetPlanIs, TestnetPlanIs
    <2>3. QED BY <1>0, <1>2, <2>2, ProperDomain
  <1>3. CASE script = "core"
    <2>1. P = CorePlan[g]
      BY <1>3 DEF PlanOf
    <2>2. Proper(P) /\ (\A s \in ToSet(P) : Quiet(s)) /\ Connects(ToSet(P), g)
      BY <1>3, <2>1, CorePlanIs
    <2>3. QED BY <1>1, <1>3, <2>2, ProperDomain
  <1>4. CASE script = "oracle"
    <2>1. P = OraclePlan[g]
      BY <1>4 DEF PlanOf
    <2>2. Proper(P) /\ \A s \in ToSet(P) : Quiet(s)
      BY <1>4, <2>1, OraclePlanIs
    <2>3. QED BY <1>1, <1>4, <2>2, ProperDomain
  <1>5. CASE script = "issue"
    <2>1. P = IssuePlan[g]
      BY <1>5 DEF PlanOf
    <2>2. Proper(P) /\ \A s \in ToSet(P) : Quiet(s)
      BY <1>5, <2>1, IssuePlanIs
    <2>3. QED BY <1>1, <1>5, <2>2, ProperDomain
  <1>6. CASE script = "rewire"
    <2>1. P = RewirePlan[g][core]
      BY <1>6 DEF PlanOf
    <2>2. Proper(P) /\ \A s \in ToSet(P) : Quiet(s)
      BY <1>6, <2>1, RewirePlanIs
    <2>3. QED BY <1>1, <1>6, <2>2, ProperDomain
  <1>7. CASE script = "list"
    <2>1. P = ListPlan[core][g]
      BY <1>7 DEF PlanOf
    <2>0. core \in Gens /\ g \in Gens
      BY <1>7
    <2>2. /\ DOMAIN P = 1..5 /\ Len(P) = 5 /\ \A i \in 1..4 : Quiet(P[i])
          /\ P[5].kind = "call" /\ \A p \in P[5].puts : p[1] = "USDT0 listed"
      <3>1. /\ DOMAIN ListPlan[core][g] = 1..5 /\ Len(ListPlan[core][g]) = 5
            /\ \A i \in 1..4 : Quiet(ListPlan[core][g][i])
        BY <2>0, ListPlanIs, Zenon
      <3>2. ListPlan[core][g][5].kind = "call" /\ \A p \in ListPlan[core][g][5].puts : p[1] = "USDT0 listed"
        BY <2>0, ListPlanIs, Zenon
      <3>3. QED BY <2>1, <3>1, <3>2
    <2>3. \A p \in P[5].puts : ~IsRole(p)
      BY <2>2 DEF IsRole
    <2>4. StepAllowed(script, 5, P[5])
      BY <1>7, <2>2, <2>3 DEF StepAllowed
    <2>5. \A i \in 1..4 : StepAllowed(script, i, P[i])
      BY <1>1, <1>7, <2>2
    <2>6. \A i \in 1..5 : StepAllowed(script, i, P[i])
      BY <2>4, <2>5
    <2>7. Len(P) = 5 /\ DOMAIN P = 1..5
      BY <2>2
    <2>8. QED BY <1>7, <2>7, <2>6
  <1>8. QED BY <1>2, <1>3, <1>4, <1>5, <1>6, <1>7 DEF Scripts

\* The plan of the running script.
LEMMA PlanIsPlanOf == run.script # "off" => Plan = PlanOf(run.script, run.g, run.core, net)
  BY DEF Plan, PlanOf

\* The plan of a running script, in a state of the invariant.
LEMMA PlanIs ==
  ASSUME NetPart, CountersPart, RunType, run.script # "off"
  PROVE  /\ Len(Plan) \in Nat /\ DOMAIN Plan = 1..Len(Plan)
         /\ \A i \in 1..Len(Plan) : StepAllowed(run.script, i, Plan[i])
         /\ run.script = "deploy" => Plan = DeployPlan[net] /\ Len(Plan) > 0 /\ Plan[1] = OpsAccounts
         /\ run.script = "list" => Len(Plan) = 5 /\ Plan = ListPlan[run.core][run.g]
         /\ run.script = "deploy" => Connects(ToSet(Plan), 1)
         /\ run.script = "core" => Connects(ToSet(Plan), run.g)
  <1> USE DeploymentAssumption
  <1>1. gen \in 1..MaxGen
    BY DEF CountersPart, Gens
  <1>2. run.script \in {"core", "oracle", "issue"} => run.g \in Gens /\ run.g # 1
    BY <1>1 DEF RunType, Gens
  <1>3. run.script \in {"rewire", "list"} => run.g \in Gens /\ run.core \in Gens
    BY <1>1 DEF RunType, Gens
  <1>4. run.script \in Scripts \ {"off"} /\ net \in {"mainnet", "testnet"}
    BY DEF RunType, NetPart
  <1>5. Plan = PlanOf(run.script, run.g, run.core, net)
    BY PlanIsPlanOf
  <1>6. /\ run.script = "deploy" => Plan = DeployPlan[net]
        /\ run.script = "list" => Plan = ListPlan[run.core][run.g]
    BY DEF Plan
  <1>7. QED BY <1>2, <1>3, <1>4, <1>5, <1>6, PlanOfIs

-----------------------------------------------------------------------------
(* The chain and the pending transaction *)

\* Holds is about the facts on chain.
LEMMA HoldsIsHasIn == \A f, id : Holds(f, id) <=> HasIn(facts, f, id)
  BY DEF Holds, HasIn

\* The step a running script is at.
LEMMA NowIs ==
  ASSUME NetPart, CountersPart, RunType, Working
  PROVE  run.at \in 1..Len(Plan) /\ run.at \in DOMAIN Plan /\ StepAllowed(run.script, run.at, Now)
  <1>1. /\ Len(Plan) \in Nat /\ DOMAIN Plan = 1..Len(Plan)
        /\ \A i \in 1..Len(Plan) : StepAllowed(run.script, i, Plan[i])
    BY PlanIs DEF Working
  <1>2. run.at \in 1..Len(Plan)
    BY <1>1 DEF Working, RunType
  <1>3. QED BY <1>1, <1>2 DEF Now

\* A write as it is sent.
LEMMA ResolvedIs ==
  ASSUME NetPart, CountersPart, FilePart, RunType, NEW puts, \A p \in puts : IsTriple(p)
  PROVE  /\ \A q \in Resolved(puts) : \E p \in puts :
              /\ IsTriple(q) /\ q[1] = p[1] /\ q[2] = p[2]
              /\ p[3] = FromFile => q[3] = Key(file[run.file].ops)
              /\ p[3] = FromEnv => q[3] = env
              /\ p[3] \notin {FromFile, FromEnv} => q = p
         /\ \A p \in puts : \E q \in Resolved(puts) :
              q[1] = p[1] /\ q[2] = p[2] /\ (p[3] \notin {FromFile, FromEnv} => q = p)
  <1> DEFINE k == Key(file[run.file].ops)
             V(p) == CASE p[3] = FromFile -> k [] p[3] = FromEnv -> env [] OTHER -> p[3]
             R(p) == <<p[1], p[2], V(p)>>
  <1>1. Resolved(puts) = {R(p) : p \in puts}
    BY DEF Resolved
  <1>2. IsId(k) /\ IsId(env) /\ FromFile # FromEnv
    <2>1. file[run.file].ops \in Nat
      BY DEF FilePart, RunType, CountersPart
    <2>2. QED BY <2>1, Values DEF NetPart, FromFile, FromEnv
  <1> HIDE DEF k
  <1>3. ASSUME NEW p \in puts
        PROVE  /\ IsTriple(R(p)) /\ R(p)[1] = p[1] /\ R(p)[2] = p[2]
               /\ p[3] = FromFile => R(p)[3] = k
               /\ p[3] = FromEnv => R(p)[3] = env
               /\ p[3] \notin {FromFile, FromEnv} => R(p) = p
    <2> DEFINE v == V(p)
    <2>1. /\ p[3] = FromFile => v = k
          /\ p[3] = FromEnv => v = env
          /\ p[3] \notin {FromFile, FromEnv} => v = p[3]
      BY <1>2
    <2>2. IsId(v)
      BY <1>2, <2>1 DEF IsTriple
    <2> HIDE DEF v
    <2> PICK r : r = <<p[1], p[2], v>>
      OBVIOUS
    <2>3. IsTriple(r) /\ r[1] = p[1] /\ r[2] = p[2] /\ r[3] = v
      BY <2>2 DEF IsTriple
    <2>4. p[3] \notin {FromFile, FromEnv} => r = p
      BY <2>1, <2>3, SameFact
    <2>5. r = R(p)
      BY DEF v
    <2>6. QED BY <2>1, <2>3, <2>4, <2>5
  <1> HIDE DEF R, V
  <1>4. \A q \in Resolved(puts) : \E p \in puts : q = R(p)
    BY <1>1
  <1>5. \A p \in puts : R(p) \in Resolved(puts)
    BY <1>1
  <1>6. QED BY <1>3, <1>4, <1>5 DEF k

\* Keys are only added, since secrets are written once.
LEMMA KeysGrow ==
  ASSUME CountersPart, env' = env, secrets' = secrets \/ secrets = 0
  PROVE  SafeKeys \subseteq SafeKeys'
  BY DEF SafeKeys, CountersPart

\* A reference is not a key of the operator.
LEMMA KeysAreNoReferences ==
  ASSUME NEW kind, NEW id, NEW p, Respects(kind, id, p), p[3] \in {FromFile, FromEnv}
  PROVE  ~Wiring(p) /\ ~VaultsEngine(p)
  <1>1. ASSUME Wiring(p), p[3] = <<p[1], p[2][2]>> PROVE FALSE
    <2>1. p[1] \in {"engine", "vault", "gateway"}
      BY <1>1 DEF Wiring
    <2>2. p[3][1] = p[1]
      BY <1>1
    <2>3. p[3][1] \in {"file", "env"}
      BY DEF FromFile, FromEnv
    <2>4. QED BY <2>1, <2>2, <2>3
  <1>2. p[3] # Admin
    BY Values
  <1>3. VaultsEngine(p) => Wiring(p)
    BY DEF VaultsEngine, Wiring
  <1>4. QED BY <1>1, <1>2, <1>3 DEF Respects

Lists(p) == p[1] = "USDT0 listed" /\ p[2][1] = "vault"
Literal(p) == p[3] \notin {FromFile, FromEnv}

\* The last three steps of a listing plan: gate, cap, listing.
LEMMA ListEnds ==
  ASSUME NEW c \in Gens, NEW a \in Gens, NEW P, P = ListPlan[c][a]
  PROVE  /\ P[3].kind = "gate" /\ P[3].id = First /\ P[4].kind = "call" /\ P[5].kind = "call"
         /\ P[4].puts = {CapFor(c, a)} /\ IsTriple(CapFor(c, a)) /\ Literal(CapFor(c, a))
         /\ P[5].puts = {ListingFor(c, a)} /\ IsTriple(ListingFor(c, a)) /\ Lists(ListingFor(c, a))
         /\ Literal(ListingFor(c, a)) /\ CapFor(c, a) = CapOfListing(ListingFor(c, a))
  <1>1. P[3].kind = "gate" /\ P[3].id = First /\ P[4].kind = "call" /\ P[5].kind = "call"
    BY ListPlanIs
  <1>2. P[4].puts = {<<"USDT0 cap", <<"vault", c>>, <<"usdt0", a>>>>}
    BY ListPlanIs
  <1>3. P[5].puts = {<<"USDT0 listed", <<"vault", c>>, <<"usdt0", a>>>>}
    BY ListPlanIs
  <1>4. c \in Nat /\ a \in Nat
    BY DEF Gens
  <1> PICK v : v = <<"vault", c>>
    OBVIOUS
  <1> PICK u : u = <<"usdt0", a>>
    OBVIOUS
  <1> PICK t : t = <<"USDT0 listed", v, u>>
    OBVIOUS
  <1> PICK k : k = <<"USDT0 cap", v, u>>
    OBVIOUS
  <1>5. P[4].puts = {k} /\ P[5].puts = {t} /\ k = CapFor(c, a) /\ t = ListingFor(c, a)
    BY <1>2, <1>3 DEF CapFor, ListingFor
  <1>6. v[1] = "vault" /\ u[1] = "usdt0"
    OBVIOUS
  <1>7. IsId(v) /\ IsId(u)
    BY <1>4 DEF IsId
  <1>8. u \notin {FromFile, FromEnv}
    BY <1>6 DEF FromFile, FromEnv
  <1>9. IsTriple(t) /\ t[1] = "USDT0 listed" /\ t[2] = v /\ t[3] = u
    BY <1>7 DEF IsTriple
  <1>10. IsTriple(k) /\ Literal(k)
    BY <1>7, <1>8 DEF IsTriple, Literal
  <1>11. k = CapOfListing(t)
    BY <1>9 DEF CapOfListing
  <1>12. Lists(t) /\ Literal(t)
    BY <1>6, <1>8, <1>9 DEF Lists, Literal
  <1>13. QED BY <1>1, <1>5, <1>8, <1>9, <1>10, <1>11, <1>12

\* The last steps of a listing.
LEMMA ListingIs ==
  ASSUME DeployInv, run.script = "list"
  PROVE  /\ Plan[3].kind = "gate" /\ Plan[3].id = First /\ Plan[4].kind = "call" /\ Plan[5].kind = "call"
         /\ Plan[4].puts = {CapOf} /\ IsTriple(CapOf) /\ Literal(CapOf)
         /\ Plan[5].puts = {ListingNow} /\ IsTriple(ListingNow) /\ Lists(ListingNow)
         /\ Literal(ListingNow) /\ CapOf = CapOfListing(ListingNow)
  <1>1. Plan = ListPlan[run.core][run.g]
    BY PlanIs DEF DeployInv, RunPart
  <1>2. run.core \in Gens /\ run.g \in Gens
    BY DeploymentAssumption DEF DeployInv, RunPart, RunType, CountersPart, Gens
  <1> DEFINE P == Plan
             c == run.core
             a == run.g
  <1>3. P = ListPlan[c][a] /\ c \in Gens /\ a \in Gens
    BY <1>1, <1>2
  <1> HIDE DEF P, c, a
  <1>4. P[3].kind = "gate" /\ P[3].id = First /\ P[4].kind = "call" /\ P[5].kind = "call"
    BY <1>3, ListEnds
  <1>5. P[4].puts = {CapFor(c, a)} /\ IsTriple(CapFor(c, a)) /\ Literal(CapFor(c, a))
    BY <1>3, ListEnds
  <1>6. /\ P[5].puts = {ListingFor(c, a)} /\ IsTriple(ListingFor(c, a)) /\ Lists(ListingFor(c, a))
        /\ Literal(ListingFor(c, a)) /\ CapFor(c, a) = CapOfListing(ListingFor(c, a))
    BY <1>3, ListEnds
  <1>7. QED BY <1>4, <1>5, <1>6, Zenon DEF CapOf, ListingNow, P, c, a

\* What a script sends is harmless.
LEMMA SentIsGood ==
  ASSUME DeployInv, Working, Now.kind # "accounts", NEW tx,
         tx.kind = Now.kind, tx.id = Now.id, tx.puts = Resolved(Now.puts)
  PROVE  GoodTx(tx, facts, SafeKeys) /\ Carries(Now, tx)
  <1>1. StepAllowed(run.script, run.at, Now)
    BY NowIs DEF DeployInv, RunPart
  <1>2. \A p \in Now.puts : IsTriple(p)
    <2>1. CASE ~(run.script = "list" /\ run.at = 5)
      BY <1>1, <2>1 DEF StepAllowed, Fine
    <2>2. CASE run.script = "list" /\ run.at = 5
      BY <2>2, ListingIs DEF Now
    <2>3. QED BY <2>1, <2>2
  <1>3. /\ \A q \in tx.puts : \E p \in Now.puts :
              /\ IsTriple(q) /\ q[1] = p[1] /\ q[2] = p[2]
              /\ p[3] = FromFile => q[3] = Key(file[run.file].ops)
              /\ p[3] = FromEnv => q[3] = env
              /\ p[3] \notin {FromFile, FromEnv} => q = p
        /\ \A p \in Now.puts : \E q \in tx.puts :
              q[1] = p[1] /\ q[2] = p[2] /\ (p[3] \notin {FromFile, FromEnv} => q = p)
    BY <1>2, ResolvedIs DEF DeployInv, RunPart
  <1>4. Carries(Now, tx)
    BY <1>3 DEF Carries
  <1>5. ASSUME NEW q \in tx.puts
        PROVE  /\ IsTriple(q) /\ Respects(tx.kind, tx.id, q)
               /\ IsRole(q) => q[3] \in SafeKeys
               /\ q[1] = "USDT0 listed" => ListedIn(facts, q)
    <2>1. PICK p \in Now.puts :
              /\ IsTriple(q) /\ q[1] = p[1] /\ q[2] = p[2]
              /\ p[3] = FromFile => q[3] = Key(file[run.file].ops)
              /\ p[3] = FromEnv => q[3] = env
              /\ p[3] \notin {FromFile, FromEnv} => q = p
      BY <1>3
    <2>2. CASE ~(run.script = "list" /\ run.at = 5)
      <3>1. /\ Respects(Now.kind, Now.id, p) /\ p[1] # "USDT0 listed"
            /\ IsRole(p) => p[3] \in {FromFile, FromEnv} /\ run.script = "deploy"
        BY <1>1, <2>2 DEF StepAllowed, Fine
      <3>2. Respects(tx.kind, tx.id, q)
        <4>1. CASE p[3] \in {FromFile, FromEnv}
          <5>1. ~Wiring(p) /\ ~VaultsEngine(p)
            BY <3>1, <4>1, KeysAreNoReferences
          <5>2. ~Wiring(q) /\ ~VaultsEngine(q)
            BY <2>1, <5>1 DEF Wiring, VaultsEngine
          <5>3. QED BY <2>1, <3>1, <5>2 DEF Respects
        <4>2. CASE p[3] \notin {FromFile, FromEnv}
          BY <2>1, <3>1, <4>2
        <4>3. QED BY <4>1, <4>2
      <3>3. ASSUME IsRole(q) PROVE q[3] \in SafeKeys
        <4>1. p[3] \in {FromFile, FromEnv} /\ run.script = "deploy"
          BY <2>1, <3>1, <3>3 DEF IsRole
        <4>2. run.at # 1
          <5>1. Plan[1] = OpsAccounts
            BY <4>1, PlanIs DEF DeployInv, RunPart
          <5>2. QED BY <5>1, OthersAreSafe DEF Now
        <4>3. env # Admin /\ file[run.file].ops = secrets /\ secrets # 0
          BY <4>1, <4>2 DEF DeployInv, RunPart, RunType, DeployPart
        <4>4. Key(secrets) # Admin
          BY Values DEF DeployInv, CountersPart
        <4>5. QED BY <2>1, <4>1, <4>3, <4>4 DEF SafeKeys
      <3>4. QED BY <2>1, <3>1, <3>2, <3>3
    <2>3. CASE run.script = "list" /\ run.at = 5
      <3> PICK t : t = ListingNow
        OBVIOUS
      <3>1. Now.puts = {t} /\ Lists(t) /\ Literal(t) /\ CapOf = CapOfListing(t)
        BY <2>3, ListingIs DEF Now
      <3>2. p = t /\ q = t
        BY <2>1, <3>1 DEF Literal
      <3>3. ~Wiring(q) /\ ~VaultsEngine(q) /\ ~IsRole(q)
        BY <3>1, <3>2 DEF Wiring, VaultsEngine, IsRole, Lists
      <3>4. HasIn(facts, "USDT0 price", First) /\ CapOf \in facts
        <4>1. ListPart
          BY DEF DeployInv, RunPart
        <4>2. run.at > 3 /\ run.at > 4
          BY <2>3
        <4>3. QED BY <2>3, <4>1, <4>2 DEF ListPart
      <3>5. ListedIn(facts, q)
        BY <3>1, <3>2, <3>4 DEF ListedIn
      <3>6. Respects(tx.kind, tx.id, q)
        BY <3>1, <3>2, <3>3 DEF Respects, Lists
      <3>7. QED BY <2>1, <3>3, <3>5, <3>6
    <2>4. QED BY <2>2, <2>3
  <1>6. QED BY <1>4, <1>5 DEF GoodTx

\* What is pending passes the contracts' checks before it writes.
LEMMA IncludeIsGood ==
  ASSUME DeployInv, Applies(live)
  PROVE  Grows(facts, Write(facts, live.puts)) /\ GoodFacts(Write(facts, live.puts), SafeKeys)
  <1>1. /\ live.kind = "init" => ~HasIn(facts, "ready", live.id)
        /\ live.kind = "call" => HasIn(facts, "ready", live.id)
        /\ live.kind = "seed price" => HasIn(facts, "USDT0", live.id)
    BY HoldsIsHasIn DEF Applies
  <1>2. GoodFacts(facts, SafeKeys) /\ GoodTx(live, facts, SafeKeys)
    BY DEF DeployInv, FactsPart, LivePart
  <1>3. QED BY <1>1, <1>2, WriteIsGood

\* The price the oracle keeper sets.
LEMMA PriceIsGood ==
  ASSUME GoodFacts(facts, SafeKeys), NEW v, IsId(v), HasIn(facts, "USDT0", First),
         NEW puts, puts = {<<"USDT0 price", First, v>>}
  PROVE  Grows(facts, Write(facts, puts)) /\ GoodFacts(Write(facts, puts), SafeKeys)
  <1> PICK p : p = <<"USDT0 price", First, v>>
    OBVIOUS
  <1> PICK tx : tx = [kind |-> "seed price", id |-> First, puts |-> puts]
    OBVIOUS
  <1>1. tx.kind = "seed price" /\ tx.id = First /\ tx.puts = puts /\ puts = {p}
    OBVIOUS
  <1>2. IsTriple(p) /\ p[1] = "USDT0 price" /\ p[2] = First /\ p[2][1] = "oracle"
    BY Values DEF IsTriple, First
  <1>3. ~Wiring(p) /\ ~VaultsEngine(p) /\ ~IsRole(p)
    BY <1>2 DEF Wiring, VaultsEngine, IsRole
  <1>4. Respects(tx.kind, tx.id, p)
    BY <1>1, <1>2, <1>3 DEF Respects
  <1>5. GoodTx(tx, facts, SafeKeys)
    BY <1>1, <1>2, <1>3, <1>4 DEF GoodTx
  <1>6. QED BY <1>1, <1>5, WriteIsGood

\* Every step keeps what is written, and keeps the ledger and the pending
\* transaction in order.
LEMMA ChainStep ==
  ASSUME DeployInv, DeployNext
  PROVE  /\ net' = net /\ env' = env
         /\ secrets' = secrets \/ secrets = 0
         /\ Grows(facts, facts') /\ FactsPart' /\ LivePart'
  <1>0. /\ GoodFacts(facts, SafeKeys) /\ GoodTx(live, facts, SafeKeys) /\ CountersPart
        /\ Grows(facts, facts)
    BY Unchanged DEF DeployInv, FactsPart, LivePart, GoodFacts
  <1>n. GoodTx(NoTx, facts', SafeKeys')
    BY DEF GoodTx, NoTx
  <1>k. ASSUME UNCHANGED <<env, secrets>> PROVE SafeKeys' = SafeKeys
    BY <1>k DEF SafeKeys
  <1>a. ASSUME UNCHANGED <<net, env, facts, live, secrets>>
        PROVE  /\ net' = net /\ env' = env /\ (secrets' = secrets \/ secrets = 0)
               /\ Grows(facts, facts') /\ FactsPart' /\ LivePart'
    BY <1>0, <1>a, <1>k DEF FactsPart, LivePart
  <1>b. ASSUME UNCHANGED <<net, env, facts, secrets>>, live' = NoTx
        PROVE  /\ net' = net /\ env' = env /\ (secrets' = secrets \/ secrets = 0)
               /\ Grows(facts, facts') /\ FactsPart' /\ LivePart'
    BY <1>0, <1>b, <1>k, <1>n DEF FactsPart, LivePart
  <1>f. ASSUME UNCHANGED <<net, env, live, secrets>>, Grows(facts, facts'), GoodFacts(facts', SafeKeys)
        PROVE  /\ net' = net /\ env' = env /\ (secrets' = secrets \/ secrets = 0)
               /\ Grows(facts, facts') /\ FactsPart' /\ LivePart'
    <2>1. GoodTx(live, facts', SafeKeys)
      BY <1>0, <1>f, TxStaysGood
    <2>2. QED BY <1>f, <1>k, <2>1 DEF FactsPart, LivePart
  <1>1. CASE Resume \/ StartList \/ (\E f \in Files : StartDeploy(f)) \/ \E s \in {"core", "oracle", "issue"} : StartFresh(s)
    BY <1>1, <1>a DEF Resume, StartList, StartDeploy, StartFresh, Start
  <1>2. CASE StartRewire
    <2>1. PICK g \in Gens : facts' = facts \cup {<<"instance", <<n, g>>, Yes>> : n \in {"liquidation", "insurance"}}
      BY <1>2 DEF StartRewire
    <2> DEFINE puts == {<<"instance", <<n, g>>, Yes>> : n \in {"liquidation", "insurance"}}
    <2>2. g \in Nat
      BY DEF Gens
    <2>3. ASSUME NEW p \in puts
          PROVE  IsTriple(p) /\ ~Wiring(p) /\ ~IsRole(p) /\ p[1] \notin {"USDT0 price", "USDT0 listed"}
      <3>1. PICK n \in {"liquidation", "insurance"} : p = <<"instance", <<n, g>>, Yes>>
        OBVIOUS
      <3>2. IsTriple(p) /\ p[1] = "instance"
        BY <2>2, <3>1, Parts, Values
      <3>3. QED BY <3>2 DEF Wiring, IsRole
    <2>4. facts' = facts \cup puts
      BY <2>1
    <2> HIDE DEF puts
    <2>5. Grows(facts, facts') /\ GoodFacts(facts', SafeKeys)
      BY <1>0, <2>3, <2>4, UnionIsGood
    <2>6. UNCHANGED <<net, env, live, secrets>>
      BY <1>2 DEF StartRewire
    <2>7. QED BY <1>f, <2>5, <2>6
  <1>3. CASE Skip \/ Recognize \/ SimulationFails \/ Confirmed \/ NotConfirmed \/ RecordOps \/ AccountsFail \/ Finish
    BY <1>3, <1>a DEF Skip, Recognize, SimulationFails, Confirmed, NotConfirmed, RecordOps, AccountsFail, Finish
  <1>4. CASE Send
    <2>1. CASE UNCHANGED live
      BY <1>4, <1>a, <2>1 DEF Send
    <2>2. CASE live' = [kind |-> Now.kind, id |-> Now.id, puts |-> Resolved(Now.puts)]
      <3>1. Working /\ Now.kind # "accounts"
        BY <1>4 DEF Send, Due
      <3>2. live'.kind = Now.kind /\ live'.id = Now.id /\ live'.puts = Resolved(Now.puts)
        BY <2>2
      <3>3. GoodTx(live', facts, SafeKeys)
        BY <3>1, <3>2, SentIsGood
      <3>4. UNCHANGED <<net, env, facts, secrets>>
        BY <1>4 DEF Send
      <3>5. QED BY <1>0, <1>k, <3>3, <3>4 DEF FactsPart, LivePart
    <2>3. QED BY <1>4, <2>1, <2>2 DEF Send
  <1>5. CASE MintKeys
    <2>1. CASE UNCHANGED live
      BY <1>5, <1>a, <2>1 DEF MintKeys
    <2>2. CASE live' = [kind |-> "accounts", id |-> Key(minted'), puts |-> {<<"account", Key(minted'), Yes>>}]
      <3> PICK p : p = <<"account", Key(minted'), Yes>>
        OBVIOUS
      <3>1. minted' \in Nat
        BY <1>0, <1>5 DEF MintKeys, CountersPart
      <3>2. IsTriple(p) /\ p[1] = "account"
        BY <3>1, Values DEF IsTriple
      <3>3. ~Wiring(p) /\ ~VaultsEngine(p) /\ ~IsRole(p)
        BY <3>2 DEF Wiring, VaultsEngine, IsRole
      <3>4. live'.puts = {p} /\ Respects(live'.kind, live'.id, p)
        BY <2>2, <3>2, <3>3 DEF Respects
      <3>5. GoodTx(live', facts, SafeKeys)
        BY <3>2, <3>3, <3>4 DEF GoodTx
      <3>6. UNCHANGED <<net, env, facts, secrets>>
        BY <1>5 DEF MintKeys
      <3>7. QED BY <1>0, <1>k, <3>5, <3>6 DEF FactsPart, LivePart
    <2>3. QED BY <1>5, <2>1, <2>2 DEF MintKeys
  <1>6. CASE WriteSecretsOrRefuse
    <2>1. UNCHANGED <<net, env, facts, live>> /\ (secrets' = secrets \/ secrets = 0)
      BY <1>6 DEF WriteSecretsOrRefuse
    <2>2. SafeKeys \subseteq SafeKeys'
      BY <1>0, <2>1, KeysGrow
    <2>3. GoodFacts(facts, SafeKeys') /\ GoodTx(live, facts, SafeKeys')
      BY <1>0, <2>2, MoreKeys, TxStaysGood
    <2>4. QED BY <1>0, <2>1, <2>3 DEF FactsPart, LivePart
  <1>7. CASE WithoutSending
    <2>1. UNCHANGED <<net, env, live, secrets>>
      BY <1>7 DEF WithoutSending
    <2>2. CASE UNCHANGED facts
      BY <1>a, <2>1, <2>2
    <2>3. CASE Now.kind = "db" /\ facts' = facts \cup Now.puts
      <3>1. Fine(Now)
        <4>1. StepAllowed(run.script, run.at, Now)
          BY <1>7, NowIs DEF WithoutSending, Due, DeployInv, RunPart
        <4>2. ~(run.script = "list" /\ run.at = 5)
          <5>1. SUFFICES ASSUME run.script = "list", run.at = 5 PROVE FALSE
            OBVIOUS
          <5>2. Plan[5].kind = "call"
            BY <5>1, ListingIs
          <5>3. QED BY <2>3, <5>1, <5>2 DEF Now
        <4>3. QED BY <4>1, <4>2 DEF StepAllowed
      <3>2. \A p \in Now.puts : /\ IsTriple(p) /\ ~Wiring(p) /\ ~IsRole(p)
                                /\ p[1] \notin {"USDT0 price", "USDT0 listed"}
        BY <2>3, <3>1 DEF Fine, Respects
      <3>3. Grows(facts, facts') /\ GoodFacts(facts', SafeKeys)
        BY <1>0, <2>3, <3>2, UnionIsGood
      <3>4. QED BY <1>f, <2>1, <3>3
    <2>4. QED BY <1>7, <2>2, <2>3 DEF WithoutSending
  <1>8. CASE Include
    <2>1. CASE Applies(live)
      <3>1. facts' = Write(facts, live.puts) /\ live' = NoTx /\ UNCHANGED <<net, env, secrets>>
        BY <1>8, <2>1 DEF Include
      <3>2. Grows(facts, facts') /\ GoodFacts(facts', SafeKeys)
        BY <2>1, <3>1, IncludeIsGood
      <3>3. QED BY <1>k, <1>n, <3>1, <3>2 DEF FactsPart, LivePart
    <2>2. CASE ~Applies(live)
      BY <1>8, <1>b, <2>2 DEF Include
    <2>3. QED BY <2>1, <2>2
  <1>9. CASE \E v \in {<<"fresh", 0>>, <<"stale", 0>>} : Price(v)
    <2>1. PICK v \in {<<"fresh", 0>>, <<"stale", 0>>} : Price(v)
      BY <1>9
    <2>2. /\ HasIn(facts, "USDT0", First) /\ UNCHANGED <<net, env, live, secrets>>
          /\ facts' = Write(facts, {<<"USDT0 price", First, v>>})
      BY <2>1, HoldsIsHasIn DEF Price, First
    <2>3. IsId(v)
      BY Values
    <2>4. Grows(facts, facts') /\ GoodFacts(facts', SafeKeys)
      BY <1>0, <2>2, <2>3, PriceIsGood
    <2>5. QED BY <1>f, <2>2, <2>4
  <1>10. CASE Fault
    <2>1. UNCHANGED <<net, env, facts, secrets>> /\ (UNCHANGED live \/ live' = NoTx)
      BY <1>10 DEF Fault
    <2>2. QED BY <1>a, <1>b, <2>1
  <1>11. QED
    BY <1>1, <1>2, <1>3, <1>4, <1>5, <1>6, <1>7, <1>8, <1>9, <1>10 DEF DeployNext, ScriptStep

-----------------------------------------------------------------------------
(* The state files *)

\* A file that is not written.
LEMMA SameFile ==
  ASSUME FilePart, file' = file, net' = net, secrets' = secrets \/ secrets = 0, Grows(facts, facts')
  PROVE  FilePart'
  <1>1. \A s : SettledIn(facts, s) => SettledIn(facts', s)
    BY GrowsKeeps
  <1>2. QED BY <1>1 DEF FilePart

\* A file that is written whole.
LEMMA NewFile ==
  ASSUME FilePart, net' = net, secrets' = secrets, Grows(facts, facts'),
         NEW f \in Files, NEW done, NEW ops \in {0, secrets},
         file' = [file EXCEPT ![f] = [done |-> done, ops |-> ops]],
         OpsAccounts.key \in done => ops # 0,
         \A i \in DOMAIN DeployPlan[net] : DeployPlan[net][i].key \in done => SettledIn(facts, DeployPlan[net][i])
  PROVE  FilePart'
  <1>1. \A s : SettledIn(facts, s) => SettledIn(facts', s)
    BY GrowsKeeps
  <1>2. DOMAIN file' = Files
    BY DEF FilePart
  <1>3. ASSUME NEW h \in Files
        PROVE  /\ file'[h] = [done |-> file'[h].done, ops |-> file'[h].ops]
               /\ file'[h].ops \in {0, secrets}
               /\ OpsAccounts.key \in file'[h].done => file'[h].ops # 0
               /\ \A i \in DOMAIN DeployPlan[net] :
                     DeployPlan[net][i].key \in file'[h].done => SettledIn(facts, DeployPlan[net][i])
    <2>1. CASE h = f
      <3>1. file'[h] = [done |-> done, ops |-> ops]
        BY <2>1 DEF FilePart
      <3>2. file'[h].done = done /\ file'[h].ops = ops
        BY <3>1
      <3>3. QED BY <3>1, <3>2
    <2>2. CASE h # f
      <3>1. file'[h] = file[h]
        BY <2>2 DEF FilePart
      <3>2. QED BY <3>1 DEF FilePart
    <2>3. QED BY <2>1, <2>2
  <1>4. QED BY <1>1, <1>2, <1>3 DEF FilePart

\* A checkpoint is added to the file a script resumes from.
LEMMA Checkpoint ==
  ASSUME FilePart, NEW f \in Files, NEW key
  PROVE  [file EXCEPT ![f].done = @ \cup {key}]
             = [file EXCEPT ![f] = [done |-> file[f].done \cup {key}, ops |-> file[f].ops]]
  <1>1. file[f] = [done |-> file[f].done, ops |-> file[f].ops]
    BY DEF FilePart
  <1>2. [file[f] EXCEPT !.done = @ \cup {key}] = [done |-> file[f].done \cup {key}, ops |-> file[f].ops]
    BY <1>1
  <1>3. QED BY <1>2

\* When the last step under a checkpoint is done, all of them are.
LEMMA MarkKeepsFiles ==
  ASSUME DeployInv, Working, Now.kind # "accounts", Mark, SettledIn(facts, Now),
         net' = net, secrets' = secrets, Grows(facts, facts')
  PROVE  FilePart'
  <1>0. FilePart /\ NetPart /\ CountersPart /\ RunType /\ BehindPart
    BY DEF DeployInv, RunPart
  <1>1. CASE ~(Resumes /\ LastOfKey)
    <2>1. file' = file
      BY <1>1 DEF Mark
    <2>2. QED BY <1>0, <2>1, SameFile
  <1>2. CASE Resumes /\ LastOfKey
    <2>1. run.script = "deploy" /\ run.file \in Files
      BY <1>0, <1>2 DEF Resumes, RunType
    <2>2. Plan = DeployPlan[net] /\ Len(Plan) \in Nat /\ DOMAIN Plan = 1..Len(Plan)
      BY <1>0, <2>1, PlanIs
    <2>3. run.at \in 1..Len(Plan) /\ StepAllowed(run.script, run.at, Now)
      BY <1>0, NowIs
    <2>4. Now.key # OpsAccounts.key
      BY <2>1, <2>3, OthersAreSafe DEF StepAllowed
    <2>5. ASSUME NEW i \in DOMAIN Plan, Plan[i].key = Now.key PROVE SettledIn(facts, Plan[i])
      <3>1. ~(i \in run.at + 1..Len(Plan))
        BY <1>2, <2>5 DEF LastOfKey
      <3>2. i \in 1..Len(Plan) /\ i <= run.at
        BY <2>2, <2>3, <3>1
      <3>3. CASE i = run.at
        BY <3>3 DEF Now
      <3>4. CASE i < run.at
        BY <1>0, <2>1, <3>4 DEF BehindPart
      <3>5. QED BY <2>3, <3>2, <3>3, <3>4
    <2> DEFINE done == file[run.file].done \cup {Now.key}
               ops == file[run.file].ops
    <2>6. file' = [file EXCEPT ![run.file] = [done |-> done, ops |-> ops]]
      BY <1>0, <1>2, <2>1, Checkpoint DEF Mark
    <2>7. ops \in {0, secrets} /\ (OpsAccounts.key \in done => ops # 0)
      BY <1>0, <2>1, <2>4 DEF FilePart
    <2>8. \A i \in DOMAIN DeployPlan[net] : DeployPlan[net][i].key \in done => SettledIn(facts, DeployPlan[net][i])
      BY <1>0, <2>1, <2>2, <2>5 DEF FilePart
    <2> HIDE DEF done, ops
    <2>9. QED BY <1>0, <2>1, <2>6, <2>7, <2>8, NewFile
  <1>3. QED BY <1>1, <1>2

\* A step found on chain is done.
LEMMA OnChainIsSettled ==
  ASSUME NEW s, OnChain(s)
  PROVE  SettledIn(facts, s) /\ FromCli /\ Resumes
  BY DEF OnChain, SettledIn, HasIn

\* A step that sends nothing and one that passes over a price have nothing to settle.
LEMMA NothingToSettle ==
  ASSUME DeployInv, Working, Now.kind \in {"db", "gate", "seed price", "accounts"}
  PROVE  SettledIn(facts, Now)
  <1>1. StepAllowed(run.script, run.at, Now)
    BY NowIs DEF DeployInv, RunPart
  <1>2. ~(run.script = "list" /\ run.at = 5)
    <2>1. SUFFICES ASSUME run.script = "list", run.at = 5 PROVE FALSE
      OBVIOUS
    <2>2. Plan[5].kind = "call"
      BY <2>1, ListingIs
    <2>3. QED BY <2>1, <2>2 DEF Now
  <1>3. Fine(Now)
    BY <1>1, <1>2 DEF StepAllowed
  <1>4. QED BY <1>3 DEF Fine, SettledIn, IsWire

\* A script writes the keys it minted, once their secrets are kept.
LEMMA RecordOpsKeepsFiles ==
  ASSUME DeployInv, RecordOps, Grows(facts, facts')
  PROVE  FilePart'
  <1>0. FilePart /\ NetPart /\ CountersPart /\ RunType /\ DeployPart /\ WrittenPart
    BY DEF DeployInv, RunPart
  <1>1. Working /\ run.sent = "written" /\ Now.kind = "accounts" /\ net' = net /\ secrets' = secrets
    BY DEF RecordOps
  <1>2. run.script = "deploy" /\ run.at = 1 /\ secrets = run.g
    BY <1>0, <1>1 DEF WrittenPart
  <1>3. run.g # 0 /\ run.file \in Files
    BY <1>0, <1>1, <1>2 DEF DeployPart, CountersPart, RunType
  <1>4. Plan = DeployPlan[net] /\ DOMAIN Plan = 1..Len(Plan) /\ Now = OpsAccounts
    BY <1>0, <1>2, PlanIs DEF Now
  <1> DEFINE done == file[run.file].done \cup {Now.key}
  <1>5. file' = [file EXCEPT ![run.file] = [done |-> done, ops |-> run.g]]
    BY DEF RecordOps
  <1>6. ASSUME NEW i \in DOMAIN DeployPlan[net], DeployPlan[net][i].key \in done
        PROVE  SettledIn(facts, DeployPlan[net][i])
    <2>1. CASE DeployPlan[net][i].key \in file[run.file].done
      BY <1>0, <1>3, <1>6, <2>1 DEF FilePart
    <2>2. CASE DeployPlan[net][i].key = OpsAccounts.key
      <3>1. StepAllowed(run.script, i, Plan[i])
        BY <1>0, <1>2, <1>4, <1>6, PlanIs
      <3>2. DeployPlan[net][i] = OpsAccounts
        BY <1>2, <1>4, <2>2, <3>1 DEF StepAllowed
      <3>3. QED BY <3>2, OthersAreSafe DEF SettledIn
    <2>3. QED BY <1>4, <1>6, <2>1, <2>2
  <1> HIDE DEF done
  <1>7. QED BY <1>0, <1>1, <1>2, <1>3, <1>5, <1>6, NewFile

\* No step spoils a state file: a torn one is empty.
LEMMA FileStep ==
  ASSUME DeployInv, DeployNext
  PROVE  FilePart'
  <1>0. /\ FilePart /\ RunType /\ SentPart
        /\ net' = net /\ (secrets' = secrets \/ secrets = 0) /\ Grows(facts, facts')
    BY ChainStep DEF DeployInv, RunPart
  <1>a. ASSUME file' = file PROVE FilePart'
    BY <1>0, <1>a, SameFile
  <1>m. ASSUME Working, Now.kind # "accounts", Mark, SettledIn(facts, Now), secrets' = secrets PROVE FilePart'
    BY <1>0, <1>m, MarkKeepsFiles
  <1>1. CASE Resume \/ StartList \/ StartRewire \/ (\E f \in Files : StartDeploy(f))
             \/ (\E s \in {"core", "oracle", "issue"} : StartFresh(s))
    <2>1. file' = file
      BY <1>1 DEF Resume, StartList, StartRewire, StartDeploy, StartFresh, Start
    <2>2. QED BY <1>a, <2>1
  <1>2. CASE Skip \/ Send \/ SimulationFails \/ MintKeys \/ WriteSecretsOrRefuse \/ AccountsFail \/ Finish
    <2>1. file' = file
      BY <1>2 DEF Skip, Send, SimulationFails, MintKeys, WriteSecretsOrRefuse, AccountsFail, Finish
    <2>2. QED BY <1>a, <2>1
  <1>3. CASE Include \/ \E v \in {<<"fresh", 0>>, <<"stale", 0>>} : Price(v)
    BY <1>3, <1>a DEF Include, Price
  <1>4. CASE Recognize
    <2>1. Working /\ OnChain(Now) /\ Mark /\ secrets' = secrets
      BY <1>4 DEF Recognize, Due
    <2>2. SettledIn(facts, Now) /\ Now.kind # "accounts"
      BY <2>1, OnChainIsSettled DEF FromCli
    <2>3. QED BY <1>m, <2>1, <2>2
  <1>5. CASE Confirmed
    <2>1. Now.kind # "accounts" /\ Mark /\ run.sent = "ok" /\ secrets' = secrets
      BY <1>5 DEF Confirmed
    <2>2. Working /\ SettledIn(facts, Now)
      BY <1>0, <2>1 DEF RunType, SentPart
    <2>3. QED BY <1>m, <2>1, <2>2
  <1>6. CASE NotConfirmed
    <2>1. CASE file' = file
      BY <1>a, <2>1
    <2>2. CASE OnChain(Now) /\ Mark
      <3>1. Outcome \in {"refused", "rejected", "failed", "timeout"} /\ Now.kind # "accounts" /\ secrets' = secrets
        BY <1>6 DEF NotConfirmed
      <3>2. Working /\ SettledIn(facts, Now)
        BY <1>0, <2>2, <3>1, OnChainIsSettled DEF Outcome, RunType
      <3>3. QED BY <1>m, <2>2, <3>1, <3>2
    <2>3. QED BY <1>6, <2>1, <2>2 DEF NotConfirmed
  <1>7. CASE RecordOps
    BY <1>0, <1>7, RecordOpsKeepsFiles
  <1>8. CASE WithoutSending
    <2>1. CASE file' = file
      BY <1>a, <2>1
    <2>2. CASE Now.kind = "db" /\ Mark
      <3>1. Due /\ secrets' = secrets
        BY <1>8 DEF WithoutSending
      <3>2. Working
        BY <3>1 DEF Due
      <3>3. SettledIn(facts, Now)
        BY <2>2, <3>2, NothingToSettle
      <3>4. QED BY <1>m, <2>2, <3>1, <3>2, <3>3
    <2>3. QED BY <1>8, <2>1, <2>2 DEF WithoutSending
  <1>9. CASE Fault
    <2>1. CASE file' = file
      BY <1>a, <2>1
    <2>2. CASE file' = [file EXCEPT ![run.file] = [done |-> {}, ops |-> 0]]
      <3>1. secrets' = secrets /\ run.file \in Files
        BY <1>0, <1>9 DEF Fault, RunType
      <3> DEFINE done == {}
                 ops == 0
      <3>2. /\ file' = [file EXCEPT ![run.file] = [done |-> done, ops |-> ops]]
            /\ ops \in {0, secrets} /\ (OpsAccounts.key \in done => ops # 0)
            /\ \A i \in DOMAIN DeployPlan[net] : DeployPlan[net][i].key \in done => SettledIn(facts, DeployPlan[net][i])
        BY <2>2
      <3> HIDE DEF done, ops
      <3>3. QED BY <1>0, <3>1, <3>2, NewFile
    <2>3. file' = file \/ file' = [file EXCEPT ![run.file] = [done |-> {}, ops |-> 0]]
      BY <1>9 DEF Fault
    <2>4. QED BY <2>1, <2>2, <2>3
  <1>10. QED
    BY <1>1, <1>2, <1>3, <1>4, <1>5, <1>6, <1>7, <1>8, <1>9 DEF DeployNext, ScriptStep

-----------------------------------------------------------------------------
(* Counters *)

\* The keys whose secrets are written are the ones last minted.
LEMMA SecretsAreMinted ==
  ASSUME DeployInv, WriteSecretsOrRefuse, secrets = 0
  PROVE  run.script = "deploy" /\ run.at = 1 /\ run.g \in 1..minted
  <1>1. Working /\ Now.kind = "accounts" /\ run.sent # "no"
    BY DEF WriteSecretsOrRefuse, Outcome
  <1>2. NetPart /\ CountersPart /\ RunType /\ DeployPart
    BY DEF DeployInv, RunPart
  <1>3. StepAllowed(run.script, run.at, Now) /\ run.at \in 1..Len(Plan)
    BY <1>1, <1>2, NowIs
  <1>4. run.script = "deploy"
    BY <1>1, <1>3 DEF StepAllowed
  <1>5. Len(Plan) \in Nat
    BY <1>2, <1>4, PlanIs
  <1>6. QED BY <1>1, <1>2, <1>3, <1>4, <1>5 DEF DeployPart

\* Every step keeps the counters within their bounds.
LEMMA CountersStep ==
  ASSUME DeployInv, DeployNext
  PROVE  NetPart' /\ CountersPart'
  <1>0. NetPart /\ CountersPart /\ RunType /\ net' = net /\ env' = env
    BY ChainStep DEF DeployInv, RunPart
  <1> USE DeploymentAssumption DEF CountersPart, Gens
  <1>n. NetPart'
    BY <1>0 DEF NetPart
  <1>s. SUFFICES CountersPart'
    BY <1>n
  <1>a. ASSUME UNCHANGED <<secrets, minted, gen, served, asset, others, faults>> PROVE CountersPart'
    BY <1>0, <1>a
  <1>1. CASE Resume \/ Include \/ \E v \in {<<"fresh", 0>>, <<"stale", 0>>} : Price(v)
    <2>1. UNCHANGED <<secrets, minted, gen, served, asset, others, faults>>
      BY <1>1 DEF Resume, Start, Include, Price
    <2>2. QED BY <1>a, <2>1
  <1>2. CASE Skip \/ Recognize \/ Send \/ SimulationFails \/ Confirmed \/ NotConfirmed \/ RecordOps \/ AccountsFail \/ WithoutSending
    <2>1. UNCHANGED <<secrets, minted, gen, served, asset, others, faults>>
      BY <1>2 DEF Skip, Recognize, Send, SimulationFails, Confirmed, NotConfirmed, RecordOps, AccountsFail, WithoutSending
    <2>2. QED BY <1>a, <2>1
  <1>3. CASE StartList \/ \E f \in Files : StartDeploy(f)
    <2>1. others < MaxOthers /\ others' = others + 1 /\ UNCHANGED <<secrets, minted, gen, served, asset, faults>>
      BY <1>3 DEF StartList, StartDeploy, Start
    <2>2. QED BY <1>0, <2>1
  <1>4. CASE \E s \in {"core", "oracle", "issue"} : StartFresh(s)
    <2>1. /\ others < MaxOthers /\ others' = others + 1 /\ UNCHANGED <<secrets, minted, served, asset, faults>>
          /\ gen < MaxGen /\ gen' = gen + 1
      BY <1>4 DEF StartFresh, Start
    <2>2. QED BY <1>0, <2>1
  <1>5. CASE StartRewire
    <2>1. PICK g \in {1, gen + 1} \cap Gens : gen' = IF g > gen THEN g ELSE gen
      BY <1>5 DEF StartRewire
    <2>2. others < MaxOthers /\ others' = others + 1 /\ UNCHANGED <<secrets, minted, served, asset, faults>>
      BY <1>5 DEF StartRewire
    <2>3. gen' \in Gens /\ gen <= gen'
      BY <1>0, <2>1
    <2>4. QED BY <1>0, <2>2, <2>3
  <1>6. CASE MintKeys
    <2>1. minted' = minted + 1 /\ UNCHANGED <<secrets, gen, served, asset, others, faults>>
      BY <1>6 DEF MintKeys
    <2>2. QED BY <1>0, <2>1
  <1>7. CASE WriteSecretsOrRefuse
    <2>1. UNCHANGED <<minted, gen, served, asset, others, faults>> /\ (secrets' = secrets \/ (secrets = 0 /\ secrets' = run.g))
      BY <1>7 DEF WriteSecretsOrRefuse
    <2>2. CASE secrets' = secrets
      BY <1>a, <2>1, <2>2
    <2>3. CASE secrets = 0 /\ secrets' = run.g
      <3>1. run.g \in 1..minted
        BY <1>7, <2>3, SecretsAreMinted
      <3>2. QED BY <1>0, <2>1, <2>3, <3>1
    <2>4. QED BY <2>1, <2>2, <2>3
  <1>8. CASE Finish
    <2>1. /\ UNCHANGED <<secrets, minted, gen, others, faults>>
          /\ (served' = run.g /\ run.script = "core") \/ served' \in {1, served}
          /\ asset' = IF run.script = "issue" THEN run.g ELSE asset
      BY <1>8 DEF Finish, Resumes
    <2>2. run.script \in {"core", "issue"} => run.g \in 2..gen
      BY <1>0 DEF RunType
    <2>3. served' \in 0..gen /\ asset' \in 0..gen
      BY <1>0, <2>1, <2>2
    <2>4. QED BY <1>0, <2>1, <2>3
  <1>9. CASE Fault
    <2>1. UNCHANGED <<secrets, minted, gen, served, asset, others>> /\ faults < MaxFaults /\ faults' = faults + 1
      BY <1>9 DEF Fault
    <2>2. QED BY <1>0, <2>1
  <1>10. QED
    BY <1>1, <1>2, <1>3, <1>4, <1>5, <1>6, <1>7, <1>8, <1>9 DEF DeployNext, ScriptStep

-----------------------------------------------------------------------------
(* The running script *)

\* A run is over.
LEMMA RunEnds ==
  ASSUME run' = Off
  PROVE  RunPart'
  <1>1. /\ run'.script = "off" /\ run'.file = "v1" /\ run'.g = 0 /\ run'.core = 0
        /\ run'.at = 1 /\ run'.tries = 1 /\ run'.sent = "no"
    BY DEF Off
  <1>2. run' = [script |-> run'.script, file |-> run'.file, g |-> run'.g, core |-> run'.core,
                at |-> run'.at, tries |-> run'.tries, sent |-> run'.sent]
    BY DEF Off
  <1>3. RunType'
    BY <1>1, <1>2 DEF RunType, Scripts, Files, Sents
  <1>4. DeployPart' /\ WrittenPart' /\ BehindPart' /\ SentPart' /\ ListPart'
    BY <1>1 DEF DeployPart, WrittenPart, BehindPart, SentPart, ListPart
  <1>5. QED BY <1>3, <1>4 DEF RunPart

\* A run starts.
LEMMA RunStarts ==
  ASSUME NetPart', CountersPart', NEW s \in Scripts \ {"off"}, NEW f \in Files, NEW g \in Nat, NEW c \in Nat,
         s = "deploy" => env' # Admin,
         s \in {"core", "oracle", "issue"} => g \in 2..gen',
         s \in {"rewire", "list"} => g \in 1..gen' /\ c \in 1..gen',
         run' = [script |-> s, file |-> f, g |-> g, core |-> c, at |-> 1, tries |-> 1, sent |-> "no"]
  PROVE  RunPart'
  <1>1. /\ run'.script = s /\ run'.file = f /\ run'.g = g /\ run'.core = c
        /\ run'.at = 1 /\ run'.tries = 1 /\ run'.sent = "no"
    OBVIOUS
  <1>2. run' = [script |-> run'.script, file |-> run'.file, g |-> run'.g, core |-> run'.core,
                at |-> run'.at, tries |-> run'.tries, sent |-> run'.sent]
    OBVIOUS
  <1>3. Plan' = PlanOf(s, g, c, net')
    BY <1>1 DEF Plan, PlanOf
  <1>4. Len(Plan') \in Nat /\ DOMAIN Plan' = 1..Len(Plan')
    <2>1. net' \in {"mainnet", "testnet"} /\ gen' \in Gens
      BY DEF NetPart, CountersPart
    <2>2. /\ s \in {"core", "oracle", "issue"} => g \in Gens /\ g # 1
          /\ s \in {"rewire", "list"} => g \in Gens /\ c \in Gens
      BY <2>1, DeploymentAssumption DEF Gens
    <2>3. QED BY <1>3, <2>1, <2>2, PlanOfIs
  <1>5. RunType'
    <2>1. s # "off" /\ 1 \in 1..Len(Plan') + 1
      BY <1>4
    <2>2. QED BY <1>1, <1>2, <2>1 DEF RunType, Sents
  <1>6. DeployPart' /\ WrittenPart' /\ SentPart' /\ ListPart'
    BY <1>1 DEF DeployPart, WrittenPart, SentPart, ListPart
  <1>7. BehindPart'
    BY <1>1, <1>4 DEF BehindPart
  <1>8. QED BY <1>5, <1>6, <1>7 DEF RunPart

\* A run goes on with the same plan.
LEMMA RunGoesOn ==
  ASSUME DeployInv, run.script # "off", net' = net, gen' = gen,
         NEW g \in Nat, NEW at \in 1..Len(Plan) + 1, NEW tries \in Nat, NEW sent \in Sents,
         g = run.g \/ run.script = "deploy", sent # "no" => at <= Len(Plan),
         run' = [script |-> run.script, file |-> run.file, g |-> g, core |-> run.core,
                 at |-> at, tries |-> tries, sent |-> sent]
  PROVE  /\ RunType' /\ Plan' = Plan
         /\ run'.script = run.script /\ run'.file = run.file /\ run'.g = g /\ run'.core = run.core
         /\ run'.at = at /\ run'.sent = sent
  <1>1. /\ run'.script = run.script /\ run'.file = run.file /\ run'.g = g /\ run'.core = run.core
        /\ run'.at = at /\ run'.tries = tries /\ run'.sent = sent
    OBVIOUS
  <1>2. run' = [script |-> run'.script, file |-> run'.file, g |-> run'.g, core |-> run'.core,
                at |-> run'.at, tries |-> run'.tries, sent |-> run'.sent]
    OBVIOUS
  <1>3. RunType
    BY DEF DeployInv, RunPart
  <1>4. Plan' = Plan
    <2>1. CASE run.script = "deploy"
      BY <1>1, <2>1 DEF Plan
    <2>2. CASE run.script # "deploy"
      BY <1>1, <2>2 DEF Plan
    <2>3. QED BY <2>1, <2>2
  <1>5. sent # "no" => Working'
    BY <1>1, <1>4 DEF Working
  <1>6. RunType'
    BY <1>1, <1>2, <1>3, <1>4, <1>5 DEF RunType
  <1>7. QED BY <1>1, <1>4, <1>6

\* A run stays at a step.
LEMMA RunStays ==
  ASSUME DeployInv, DeployNext, run.script # "off", gen' = gen, file' = file,
         NEW g \in Nat, NEW tries \in Nat, NEW sent \in Sents,
         g = run.g \/ run.script = "deploy", sent # "no" => Working,
         run' = [script |-> run.script, file |-> run.file, g |-> g, core |-> run.core,
                 at |-> run.at, tries |-> tries, sent |-> sent],
         run.script = "deploy" /\ run.at = 1 /\ sent # "no" => g \in 1..minted',
         sent = "written" => run.script = "deploy" /\ run.at = 1 /\ secrets' = g,
         sent = "ok" => SettledIn(facts', Now),
         sent = "sent" /\ live' # NoTx => Carries(Now, live'),
         run.script = "list" /\ run.at = 3 => sent \in {"no", "rejected"},
         run.script = "list" /\ run.at = 4 /\ sent = "ok" => CapOf \in facts'
  PROVE  RunPart'
  <1>0. RunPart /\ RunType /\ Grows(facts, facts') /\ net' = net /\ env' = env /\ (secrets' = secrets \/ secrets = 0)
    BY ChainStep DEF DeployInv, RunPart
  <1>1. run.at \in 1..Len(Plan) + 1 /\ (sent # "no" => run.at <= Len(Plan))
    BY <1>0 DEF RunType, Working
  <1>2. /\ RunType' /\ Plan' = Plan
        /\ run'.script = run.script /\ run'.file = run.file /\ run'.g = g /\ run'.core = run.core
        /\ run'.at = run.at /\ run'.sent = sent
    BY <1>0, <1>1, RunGoesOn
  <1>3. Now' = Now
    BY <1>2 DEF Now
  <1>4. DeployPart'
    BY <1>0, <1>2 DEF RunPart, DeployPart
  <1>5. WrittenPart'
    BY <1>2 DEF WrittenPart
  <1>6. BehindPart'
    BY <1>0, <1>2, GrowsKeeps DEF RunPart, BehindPart
  <1>7. SentPart'
    BY <1>2, <1>3 DEF SentPart
  <1>8. ListPart'
    <2>1. SUFFICES ASSUME run.script = "list" PROVE ListPart'
      BY <1>2 DEF ListPart
    <2>2. CapOf' = CapOf
      BY <1>2, <2>1 DEF CapOf
    <2>3. HasIn(facts, "USDT0 price", First) => HasIn(facts', "USDT0 price", First)
      BY <1>0, GrowsKeeps
    <2>4. CapOf \in facts => CapOf \in facts'
      <3>1. CapOf[1] = "USDT0 cap"
        BY DEF CapOf, CapFor
      <3>2. QED BY <1>0, <3>1 DEF Grows
    <2>5. run.at > 4 \/ (run.at = 4 /\ sent = "ok") => CapOf \in facts'
      BY <1>0, <2>1, <2>4 DEF RunPart, ListPart
    <2>6. QED BY <1>0, <1>2, <2>1, <2>2, <2>3, <2>5 DEF RunPart, ListPart
  <1>9. QED BY <1>2, <1>4, <1>5, <1>6, <1>7, <1>8 DEF RunPart

\* The position after a step.
LEMMA NextPosition ==
  ASSUME NEW n \in Nat, NEW at \in 1..n
  PROVE  /\ at + 1 \in 1..n + 1 /\ at + 1 > 1
         /\ \A i \in 1..n : i < at + 1 => i < at \/ i = at
         /\ at + 1 > 4 => at > 4 \/ at = 4
         /\ at + 1 > 3 => at > 3 \/ at = 3
  OBVIOUS

\* A run goes on to the next step.
LEMMA RunAdvances ==
  ASSUME DeployInv, DeployNext, Working, Advance, gen' = gen,
         run.script = "deploy" => file'[run.file].ops = secrets' /\ secrets' # 0,
         run.script \in {"deploy", "core"} => SettledIn(facts', Now),
         run.script = "list" /\ run.at = 3 => HasIn(facts', "USDT0 price", First),
         run.script = "list" /\ run.at = 4 => CapOf \in facts'
  PROVE  RunPart'
  <1>0. NetPart /\ CountersPart /\ RunType /\ RunPart /\ Grows(facts, facts') /\ net' = net /\ env' = env
    BY ChainStep DEF DeployInv, RunPart
  <1>1. run.script # "off" /\ run.at \in 1..Len(Plan) /\ Len(Plan) \in Nat
    BY <1>0, NowIs, PlanIs DEF Working
  <1> DEFINE at == run.at + 1
  <1>p. /\ at \in 1..Len(Plan) + 1 /\ at > 1
        /\ \A i \in 1..Len(Plan) : i < at => i < run.at \/ i = run.at
        /\ at > 4 => run.at > 4 \/ run.at = 4
        /\ at > 3 => run.at > 3 \/ run.at = 3
    BY <1>1, NextPosition
  <1>2. at \in 1..Len(Plan) + 1 /\ run.g \in Nat /\ "no" \in Sents /\ at > 1
    <2>1. run.g \in Nat
      BY <1>0 DEF RunType
    <2>2. QED BY <1>p, <2>1 DEF Sents
  <1>3. run' = [script |-> run.script, file |-> run.file, g |-> run.g, core |-> run.core,
                at |-> at, tries |-> 1, sent |-> "no"]
    BY <1>0 DEF Advance, RunType
  <1> HIDE DEF at
  <1>4. /\ RunType' /\ Plan' = Plan
        /\ run'.script = run.script /\ run'.file = run.file /\ run'.g = run.g /\ run'.core = run.core
        /\ run'.at = at /\ run'.sent = "no"
    BY <1>0, <1>1, <1>2, <1>3, RunGoesOn
  <1>5. DeployPart' /\ WrittenPart' /\ SentPart'
    BY <1>0, <1>4 DEF RunPart, DeployPart, WrittenPart, SentPart
  <1>6. BehindPart'
    <2>1. SUFFICES ASSUME run.script \in {"deploy", "core"}, NEW i \in DOMAIN Plan, i < at
                   PROVE  SettledIn(facts', Plan[i])
      BY <1>4 DEF BehindPart
    <2>2. i \in 1..Len(Plan)
      BY <1>0, <1>1, PlanIs
    <2>3. CASE i = run.at
      BY <2>1, <2>3 DEF Now
    <2>4. CASE i < run.at
      <3>1. BehindPart
        BY <1>0 DEF RunPart
      <3>2. SettledIn(facts, Plan[i])
        <4>1. run.script \in {"deploy", "core"} /\ i \in DOMAIN Plan /\ i < run.at
          BY <2>1, <2>4
        <4>2. QED BY <3>1, <4>1 DEF BehindPart
      <3>3. QED BY <1>0, <3>2, GrowsKeeps
    <2>5. QED BY <1>p, <2>1, <2>2, <2>3, <2>4
  <1>7. ListPart'
    <2>1. SUFFICES ASSUME run.script = "list" PROVE ListPart'
      BY <1>4 DEF ListPart
    <2>2. CapOf' = CapOf
      BY <1>4 DEF CapOf
    <2>3. HasIn(facts, "USDT0 price", First) => HasIn(facts', "USDT0 price", First)
      BY <1>0, GrowsKeeps
    <2>4. CapOf \in facts => CapOf \in facts'
      <3>1. CapOf[1] = "USDT0 cap"
        BY DEF CapOf, CapFor
      <3>2. QED BY <1>0, <3>1 DEF Grows
    <2>5. ListPart
      BY <1>0 DEF RunPart
    <2>6. ASSUME at > 4 PROVE CapOf \in facts'
      <3>1. run.at > 4 \/ run.at = 4
        BY <1>p, <2>6
      <3>2. CASE run.at > 4
        BY <2>1, <2>4, <2>5, <3>2 DEF ListPart
      <3>3. CASE run.at = 4
        BY <2>1, <3>3
      <3>4. QED BY <3>1, <3>2, <3>3
    <2>7. ASSUME at > 3 PROVE HasIn(facts', "USDT0 price", First)
      <3>1. run.at > 3 \/ run.at = 3
        BY <1>p, <2>7
      <3>2. CASE run.at > 3
        BY <2>1, <2>3, <2>5, <3>2 DEF ListPart
      <3>3. CASE run.at = 3
        BY <2>1, <3>3
      <3>4. QED BY <3>1, <3>2, <3>3
    <2>8. QED BY <1>4, <2>1, <2>2, <2>6, <2>7 DEF ListPart
  <1>8. QED BY <1>4, <1>5, <1>6, <1>7 DEF RunPart

\* A run passes over the steps whose checkpoints its file has.
LEMMA SkipKeepsRun ==
  ASSUME DeployInv, DeployNext, Skip
  PROVE  RunPart'
  <1>0. NetPart /\ CountersPart /\ FilePart /\ RunType /\ RunPart /\ Grows(facts, facts') /\ net' = net
    BY ChainStep DEF DeployInv, RunPart
  <1>1. run.script = "deploy" /\ UNCHANGED <<env, file, secrets, gen>>
    BY DEF Skip, Resumes
  <1>2. /\ Plan = DeployPlan[net] /\ Len(Plan) \in Nat /\ Len(Plan) > 0 /\ DOMAIN Plan = 1..Len(Plan)
        /\ Plan[1] = OpsAccounts
    BY <1>0, <1>1, PlanIs
  <1> DEFINE behind == {i \in DOMAIN Plan : Plan[i].key \notin Done(run.file)}
             ahead == {Len(Plan) + 1} \cup behind
             at == Min(ahead)
  <1>3. at \in ahead /\ \A i \in ahead : at <= i
    <2>1. ahead \subseteq Nat /\ ahead # {}
      BY <1>2
    <2> HIDE DEF ahead
    <2>2. QED BY <2>1, MinOfNaturals
  <1>4. at \in 1..Len(Plan) + 1
    BY <1>2, <1>3
  <1>5. \A i \in DOMAIN Plan : i < at => Plan[i].key \in Done(run.file)
    BY <1>2, <1>3, <1>4
  <1>6. run.g \in Nat /\ run.tries \in Nat /\ run.sent = "no" /\ run.sent \in Sents /\ run.file \in Files
    BY <1>0 DEF Skip, RunType
  <1>7. run' = [script |-> run.script, file |-> run.file, g |-> run.g, core |-> run.core,
                at |-> at, tries |-> run.tries, sent |-> run.sent]
    BY <1>0 DEF Skip, RunType
  <1> HIDE DEF at, ahead, behind
  <1>8. /\ RunType' /\ Plan' = Plan
        /\ run'.script = run.script /\ run'.file = run.file /\ run'.g = run.g /\ run'.core = run.core
        /\ run'.at = at /\ run'.sent = "no"
    <2>1. run.script # "off"
      BY <1>1
    <2>2. QED BY <1>0, <1>1, <1>4, <1>6, <1>7, <2>1, RunGoesOn
  <1>9. DeployPart'
    <2>1. env' # Admin
      BY <1>0, <1>1 DEF RunPart, DeployPart
    <2>2. ASSUME at > 1 PROVE file'[run.file].ops = secrets' /\ secrets' # 0
      <3>1. OpsAccounts.key \in file[run.file].done
        BY <1>2, <1>5, <2>2 DEF Done
      <3>2. QED BY <1>0, <1>1, <1>6, <3>1 DEF FilePart
    <2>3. QED BY <1>8, <2>1, <2>2 DEF DeployPart
  <1>10. WrittenPart' /\ SentPart'
    BY <1>8 DEF WrittenPart, SentPart
  <1>11. BehindPart'
    <2>1. SUFFICES ASSUME NEW i \in DOMAIN Plan, i < at PROVE SettledIn(facts', Plan[i])
      BY <1>8 DEF BehindPart
    <2>2. Plan[i].key \in file[run.file].done
      BY <1>5, <2>1 DEF Done
    <2>3. SettledIn(facts, Plan[i])
      BY <1>0, <1>2, <1>6, <2>1, <2>2 DEF FilePart
    <2>4. QED BY <1>0, <2>3, GrowsKeeps
  <1>12. ListPart'
    BY <1>1, <1>8 DEF ListPart
  <1>13. QED BY <1>8, <1>9, <1>10, <1>11, <1>12 DEF RunPart

\* Scripts start at their first step.
LEMMA StartKeepsRun ==
  ASSUME DeployInv, DeployNext,
         \/ Resume \/ StartRewire \/ StartList
         \/ (\E f \in Files : StartDeploy(f)) \/ (\E s \in {"core", "oracle", "issue"} : StartFresh(s))
  PROVE  RunPart'
  <1>0. NetPart /\ CountersPart /\ NetPart' /\ CountersPart' /\ env' = env
    BY ChainStep, CountersStep DEF DeployInv
  <1>1. gen \in Nat \ {0} /\ served \in 0..gen /\ asset \in 0..gen
    BY <1>0, DeploymentAssumption DEF CountersPart, Gens
  <1>2. "v1" \in Files /\ FromEnv # Admin
    BY DEF Files, FromEnv, Admin
  <1>3. CASE Resume
    <2>1. run' = [script |-> "deploy", file |-> "v1", g |-> 0, core |-> 0, at |-> 1, tries |-> 1, sent |-> "no"]
      BY <1>3 DEF Resume, Start, Off
    <2>2. env' # Admin
      BY <1>0, <1>2, <1>3 DEF Resume, Stuck, NetPart
    <2>3. "deploy" \in Scripts \ {"off"}
      BY DEF Scripts
    <2> DEFINE s == "deploy"
    <2>4. s \in Scripts \ {"off"} /\ s \notin {"core", "oracle", "issue", "rewire", "list"}
      BY <2>3
    <2> HIDE DEF s
    <2>5. run' = [script |-> s, file |-> "v1", g |-> 0, core |-> 0, at |-> 1, tries |-> 1, sent |-> "no"]
      BY <2>1 DEF s
    <2>6. QED BY <1>0, <1>2, <2>2, <2>4, <2>5, RunStarts
  <1>4. ASSUME NEW f \in Files, StartDeploy(f) PROVE RunPart'
    <2>1. run' = [script |-> "deploy", file |-> f, g |-> 0, core |-> 0, at |-> 1, tries |-> 1, sent |-> "no"]
      BY <1>4 DEF StartDeploy, Start, Off
    <2>2. env' # Admin
      BY <1>0, <1>2, <1>4 DEF StartDeploy, Separated, NetPart
    <2> DEFINE s == "deploy"
    <2>4. s \in Scripts \ {"off"} /\ s \notin {"core", "oracle", "issue", "rewire", "list"}
      BY DEF Scripts
    <2>5. run' = [script |-> s, file |-> f, g |-> 0, core |-> 0, at |-> 1, tries |-> 1, sent |-> "no"]
      BY <2>1
    <2> HIDE DEF s
    <2>6. QED BY <1>0, <2>2, <2>4, <2>5, RunStarts
  <1>5. ASSUME NEW s \in {"core", "oracle", "issue"}, StartFresh(s) PROVE RunPart'
    <2>1. run' = [script |-> s, file |-> "v1", g |-> gen', core |-> 0, at |-> 1, tries |-> 1, sent |-> "no"]
      BY <1>5 DEF StartFresh, Start, Off
    <2>2. gen' \in 2..gen' /\ gen' \in Nat
      BY <1>1, <1>5 DEF StartFresh
    <2>3. s \in Scripts \ {"off"} /\ s # "deploy" /\ s \notin {"rewire", "list"}
      BY DEF Scripts
    <2>4. QED BY <1>0, <1>2, <2>1, <2>2, <2>3, RunStarts
  <1>6. CASE StartRewire
    <2>1. PICK g \in {1, gen + 1} \cap Gens :
            /\ gen' = IF g > gen THEN g ELSE gen
            /\ run' = [Off EXCEPT !.script = "rewire", !.g = g, !.core = served]
      BY <1>6 DEF StartRewire
    <2>2. g \in 1..gen' /\ served \in 1..gen' /\ g \in Nat /\ served \in Nat
      <3>1. served # 0 /\ (g = 1 \/ g = gen + 1)
        BY <1>6, <2>1 DEF StartRewire
      <3>2. gen' \in Nat /\ gen <= gen' /\ g <= gen' /\ g \in Nat \ {0}
        BY <1>1, <2>1, <3>1
      <3>3. QED BY <1>1, <3>1, <3>2
    <2> DEFINE s == "rewire"
    <2>3. s \in Scripts \ {"off"} /\ s \notin {"core", "oracle", "issue", "deploy"}
      BY DEF Scripts
    <2>4. run' = [script |-> s, file |-> "v1", g |-> g, core |-> served, at |-> 1, tries |-> 1, sent |-> "no"]
      BY <2>1 DEF Off
    <2> HIDE DEF s
    <2>5. QED BY <1>0, <1>2, <2>2, <2>3, <2>4, RunStarts
  <1>7. CASE StartList
    <2>1. asset \in 1..gen' /\ served \in 1..gen' /\ asset \in Nat /\ served \in Nat
      BY <1>1, <1>7 DEF StartList
    <2> DEFINE s == "list"
    <2>3. s \in Scripts \ {"off"} /\ s \notin {"core", "oracle", "issue", "deploy"}
      BY DEF Scripts
    <2>4. run' = [script |-> s, file |-> "v1", g |-> asset, core |-> served, at |-> 1, tries |-> 1, sent |-> "no"]
      BY <1>7 DEF StartList, Start, Off
    <2> HIDE DEF s
    <2>5. QED BY <1>0, <1>2, <2>1, <2>3, <2>4, RunStarts
  <1>8. QED BY <1>3, <1>4, <1>5, <1>6, <1>7

\* Nothing happens to the run.
LEMMA SameRunStays ==
  ASSUME DeployInv, DeployNext, run' = run, gen' = gen, file' = file, minted' = minted, secrets' = secrets,
         run.sent = "sent" => live' \in {live, NoTx}
  PROVE  RunPart'
  <1>0. RunPart /\ RunType /\ Grows(facts, facts')
    BY ChainStep DEF DeployInv, RunPart
  <1>1. CASE run.script = "off"
    <2>1. run.sent = "no"
      BY <1>0, <1>1 DEF RunType, Working
    <2>2. RunType'
      BY <1>0, <1>1, <2>1 DEF RunType
    <2>3. DeployPart' /\ WrittenPart' /\ BehindPart' /\ SentPart' /\ ListPart'
      BY <1>1, <2>1 DEF DeployPart, WrittenPart, BehindPart, SentPart, ListPart
    <2>4. QED BY <2>2, <2>3 DEF RunPart
  <1>2. CASE run.script # "off"
    <2>1. run' = [script |-> run.script, file |-> run.file, g |-> run.g, core |-> run.core,
                  at |-> run.at, tries |-> run.tries, sent |-> run.sent]
      BY <1>0 DEF RunType
    <2>2. run.g \in Nat /\ run.tries \in Nat /\ run.sent \in Sents /\ (run.sent # "no" => Working)
      BY <1>0 DEF RunType
    <2>3. /\ run.script = "deploy" /\ run.at = 1 /\ run.sent # "no" => run.g \in 1..minted'
          /\ run.sent = "written" => run.script = "deploy" /\ run.at = 1 /\ secrets' = run.g
      BY <1>0 DEF RunPart, DeployPart, WrittenPart
    <2>4. /\ run.sent = "ok" => SettledIn(facts', Now)
          /\ run.sent = "sent" /\ live' # NoTx => Carries(Now, live')
      BY <1>0, GrowsKeeps DEF RunPart, SentPart
    <2>5. run.script = "list" /\ run.at = 3 => run.sent \in {"no", "rejected"}
      BY <1>0 DEF RunPart, ListPart
    <2>6. run.script = "list" /\ run.at = 4 /\ run.sent = "ok" => CapOf \in facts'
      <3>1. CapOf[1] = "USDT0 cap"
        BY DEF CapOf, CapFor
      <3>2. QED BY <1>0, <3>1 DEF RunPart, ListPart, Grows
    <2>7. QED BY <1>2, <2>1, <2>2, <2>3, <2>4, <2>5, <2>6, RunStays
  <1>3. QED BY <1>1, <1>2

\* Past the first step, a deployment's keys are kept and in its file.
LEMMA PastTheKeys ==
  ASSUME DeployInv, Working, run.script = "deploy", Now.kind # "accounts"
  PROVE  run.at > 1 /\ file[run.file].ops = secrets /\ secrets # 0
  <1>0. NetPart /\ CountersPart /\ RunType /\ DeployPart
    BY DEF DeployInv, RunPart
  <1>1. Len(Plan) \in Nat /\ Plan[1] = OpsAccounts
    BY <1>0, PlanIs
  <1>2. run.at # 1
    BY <1>1, OthersAreSafe DEF Now
  <1>3. run.at > 1
    <2>1. run.at \in 1..Len(Plan)
      BY <1>0, NowIs
    <2>2. QED BY <1>1, <1>2, <2>1
  <1>4. QED BY <1>0, <1>3 DEF DeployPart

\* A step is done, checkpointed or not.
LEMMA StepDone ==
  ASSUME DeployInv, DeployNext, Working, Now.kind # "accounts", Mark \/ (Advance /\ file' = file),
         gen' = gen, secrets' = secrets,
         run.script \in {"deploy", "core"} => SettledIn(facts', Now),
         run.script = "list" /\ run.at = 3 => HasIn(facts', "USDT0 price", First),
         run.script = "list" /\ run.at = 4 => CapOf \in facts'
  PROVE  RunPart'
  <1>1. Advance
    BY DEF Mark
  <1>2. ASSUME run.script = "deploy" PROVE file'[run.file].ops = secrets' /\ secrets' # 0
    <2>1. file[run.file].ops = secrets /\ secrets # 0
      BY <1>2, PastTheKeys
    <2>2. run.file \in Files /\ DOMAIN file = Files
      BY DEF DeployInv, RunPart, RunType, FilePart
    <2>3. CASE file' = file
      BY <2>1, <2>3
    <2>4. CASE file' = [file EXCEPT ![run.file].done = @ \cup {Now.key}]
      <3>1. FilePart
        BY DEF DeployInv
      <3>2. file' = [file EXCEPT ![run.file] = [done |-> file[run.file].done \cup {Now.key}, ops |-> file[run.file].ops]]
        BY <2>2, <2>4, <3>1, Checkpoint
      <3>3. file'[run.file].ops = file[run.file].ops
        BY <2>2, <3>2
      <3>4. QED BY <2>1, <3>3
    <2>5. QED BY <2>3, <2>4 DEF Mark
  <1>3. QED BY <1>1, <1>2, RunAdvances

\* A confirmed step has been made; for a listing it is the one that matters.
LEMMA ConfirmedKeepsRun ==
  ASSUME DeployInv, DeployNext, Confirmed
  PROVE  RunPart'
  <1>0. RunType /\ SentPart /\ ListPart
    BY DEF DeployInv, RunPart
  <1>1. run.sent = "ok" /\ Now.kind # "accounts" /\ Mark /\ UNCHANGED <<gen, secrets, facts>>
    BY DEF Confirmed
  <1>2. Working /\ SettledIn(facts', Now)
    <2>1. Working /\ SettledIn(facts, Now)
      BY <1>0, <1>1 DEF RunType, SentPart
    <2>2. Grows(facts, facts')
      BY ChainStep
    <2>3. QED BY <2>1, <2>2, GrowsKeeps
  <1>3. ~(run.script = "list" /\ run.at = 3)
    BY <1>0, <1>1 DEF ListPart
  <1>4. run.script = "list" /\ run.at = 4 => CapOf \in facts'
    BY <1>0, <1>1 DEF ListPart
  <1>5. QED BY <1>1, <1>2, <1>3, <1>4, StepDone

\* So has a step found on chain.
LEMMA OnChainKeepsRun ==
  ASSUME DeployInv, DeployNext, Working, OnChain(Now), Mark, UNCHANGED <<gen, secrets, facts>>
  PROVE  RunPart'
  <1>1. SettledIn(facts, Now) /\ FromCli /\ Resumes
    BY OnChainIsSettled
  <1>2. Now.kind # "accounts" /\ run.script # "list"
    BY <1>1 DEF FromCli, Resumes
  <1>3. SettledIn(facts', Now)
    BY <1>1, ChainStep, GrowsKeeps
  <1>4. QED BY <1>2, <1>3, StepDone

\* Steps that send nothing: the gate lets a listing through only at a price.
LEMMA WithoutSendingKeepsRun ==
  ASSUME DeployInv, DeployNext, WithoutSending
  PROVE  RunPart'
  <1>1. Due /\ Now.kind \in {"db", "gate", "seed price"} /\ UNCHANGED <<gen, secrets>>
    BY DEF WithoutSending
  <1>2. Working /\ Now.kind # "accounts"
    BY <1>1 DEF Due
  <1>3. Mark \/ (Advance /\ file' = file)
    BY DEF WithoutSending
  <1>4. SettledIn(facts', Now)
    <2>1. SettledIn(facts, Now)
      BY <1>1, <1>2, NothingToSettle
    <2>2. QED BY <2>1, ChainStep, GrowsKeeps
  <1>5. ASSUME run.script = "list", run.at = 3 PROVE HasIn(facts', "USDT0 price", First)
    <2>1. Now.kind = "gate" /\ Now.id = First
      BY <1>5, ListingIs DEF Now
    <2>2. Applies(Now)
      BY <2>1 DEF WithoutSending
    <2>3. \E v \in facts : v = <<"USDT0 price", Now.id, <<"fresh", 0>>>>
      BY <2>1, <2>2 DEF Applies
    <2>4. HasIn(facts, "USDT0 price", First)
      <3>1. PICK v \in facts : v = <<"USDT0 price", Now.id, <<"fresh", 0>>>>
        BY <2>3
      <3>2. v[1] = "USDT0 price" /\ v[2] = Now.id
        BY <3>1
      <3>3. QED BY <2>1, <3>2 DEF HasIn
    <2>5. QED BY <2>4, ChainStep, GrowsKeeps
  <1>6. ~(run.script = "list" /\ run.at = 4)
    <2>1. SUFFICES ASSUME run.script = "list", run.at = 4 PROVE FALSE
      OBVIOUS
    <2>2. Plan[4].kind = "call"
      BY <2>1, ListingIs
    <2>3. QED BY <1>1, <2>1, <2>2 DEF Now
  <1>7. QED BY <1>1, <1>2, <1>3, <1>4, <1>5, <1>6, StepDone

\* A call is sent, or refused because of a pending one.
LEMMA SendKeepsRun ==
  ASSUME DeployInv, DeployNext, Send
  PROVE  RunPart'
  <1>0. NetPart /\ CountersPart /\ RunType
    BY DEF DeployInv, RunPart
  <1>1. Due /\ Now.kind \notin {"accounts", "db", "gate"} /\ UNCHANGED <<gen, file>>
    BY DEF Send
  <1>2. Working /\ run.script # "off"
    BY <1>1 DEF Due, Working
  <1>3. PICK sent \in {"sent", "refused"} :
          /\ run' = [run EXCEPT !.sent = sent]
          /\ sent = "sent" => live' = [kind |-> Now.kind, id |-> Now.id, puts |-> Resolved(Now.puts)]
    BY DEF Send
  <1>4. run' = [script |-> run.script, file |-> run.file, g |-> run.g, core |-> run.core,
                at |-> run.at, tries |-> run.tries, sent |-> sent]
    BY <1>0, <1>3 DEF RunType
  <1>5. run.g \in Nat /\ run.tries \in Nat /\ sent \in Sents
    BY <1>0 DEF RunType, Sents
  <1>6. sent = "sent" => Carries(Now, live')
    <2>1. SUFFICES ASSUME sent = "sent" PROVE Carries(Now, live')
      OBVIOUS
    <2>2. live'.kind = Now.kind /\ live'.id = Now.id /\ live'.puts = Resolved(Now.puts)
      BY <1>3, <2>1
    <2>3. QED BY <1>1, <1>2, <2>2, SentIsGood
  <1>7. ~(run.script = "deploy" /\ run.at = 1)
    <2>1. SUFFICES ASSUME run.script = "deploy" PROVE run.at # 1
      OBVIOUS
    <2>2. run.at > 1
      BY <1>1, <1>2, <2>1, PastTheKeys
    <2>3. QED BY <2>2
  <1>8. ~(run.script = "list" /\ run.at = 3)
    <2>1. SUFFICES ASSUME run.script = "list", run.at = 3 PROVE FALSE
      OBVIOUS
    <2>2. Plan[3].kind = "gate"
      BY <2>1, ListingIs
    <2>3. QED BY <1>1, <2>1, <2>2 DEF Now
  <1>9. sent \notin {"ok", "written"}
    OBVIOUS
  <1>10. QED BY <1>1, <1>2, <1>4, <1>5, <1>6, <1>7, <1>8, <1>9, RunStays

\* Operator keys do not go through simulation.
LEMMA SimulationKeepsRun ==
  ASSUME DeployInv, DeployNext, SimulationFails
  PROVE  RunPart'
  <1>0. NetPart /\ CountersPart /\ RunType
    BY DEF DeployInv, RunPart
  <1>1. Due /\ ~Accepted /\ UNCHANGED <<gen, file>>
    BY DEF SimulationFails
  <1>2. Working /\ run.script # "off"
    BY <1>1 DEF Due, Working
  <1> DEFINE sent == "rejected"
  <1>3. run' = [script |-> run.script, file |-> run.file, g |-> run.g, core |-> run.core,
                at |-> run.at, tries |-> run.tries, sent |-> sent]
    BY <1>0 DEF RunType, SimulationFails
  <1>4. run.g \in Nat /\ run.tries \in Nat /\ sent \in Sents
    BY <1>0 DEF RunType, Sents
  <1>5. sent = "rejected"
    OBVIOUS
  <1> HIDE DEF sent
  <1>6. ~(run.script = "deploy" /\ run.at = 1)
    <2>1. SUFFICES ASSUME run.script = "deploy", run.at = 1 PROVE FALSE
      OBVIOUS
    <2>2. Now = OpsAccounts
      BY <1>0, <2>1, PlanIs DEF Now
    <2>3. OpsAccounts.kind = "accounts" /\ OpsAccounts.key[1] # "wire vault"
      BY DEF OpsAccounts, Step
    <2>4. Applies(Now)
      BY <2>2, <2>3 DEF Applies
    <2>5. QED BY <1>1, <2>2, <2>3, <2>4 DEF Accepted
  <1>7. sent \notin {"ok", "written", "sent"}
    BY <1>5
  <1>8. QED BY <1>1, <1>2, <1>3, <1>4, <1>5, <1>6, <1>7, RunStays

\* Keys are minted for the first step of a deployment, which writes nothing.
LEMMA MintKeepsRun ==
  ASSUME DeployInv, DeployNext, MintKeys
  PROVE  RunPart'
  <1>0. NetPart /\ CountersPart /\ RunType
    BY DEF DeployInv, RunPart
  <1>1. Due /\ Now.kind = "accounts" /\ UNCHANGED <<gen, file>> /\ minted' = minted + 1
    BY DEF MintKeys
  <1>2. Working /\ run.script # "off"
    BY <1>1 DEF Due, Working
  <1>3. minted' \in Nat /\ minted' \in 1..minted'
    BY <1>0, <1>1 DEF CountersPart
  <1>4. PICK sent \in {"sent", "refused"} : run' = [run EXCEPT !.sent = sent, !.g = minted']
    BY DEF MintKeys
  <1>5. run' = [script |-> run.script, file |-> run.file, g |-> minted', core |-> run.core,
                at |-> run.at, tries |-> run.tries, sent |-> sent]
    BY <1>0, <1>4 DEF RunType
  <1>6. run.tries \in Nat /\ sent \in Sents
    BY <1>0 DEF RunType, Sents
  <1>7. run.script = "deploy" /\ Carries(Now, live')
    <2>1. StepAllowed(run.script, run.at, Now)
      BY <1>0, <1>2, NowIs
    <2>2. run.script = "deploy" /\ Now = OpsAccounts
      BY <1>1, <2>1 DEF StepAllowed
    <2>3. QED BY <2>2, OthersAreSafe DEF Carries
  <1>8. run.script # "list" /\ sent \notin {"ok", "written"}
    BY <1>7
  <1>9. QED BY <1>1, <1>2, <1>3, <1>5, <1>6, <1>7, <1>8, RunStays

\* Secrets are written once, by a run that has just minted them.
LEMMA SecretsKeepRun ==
  ASSUME DeployInv, DeployNext, WriteSecretsOrRefuse
  PROVE  RunPart'
  <1>0. NetPart /\ CountersPart /\ RunType
    BY DEF DeployInv, RunPart
  <1>1. Working /\ run.script # "off" /\ UNCHANGED <<gen, file, minted>>
    BY DEF WriteSecretsOrRefuse, Working
  <1>2. CASE secrets # 0
    BY <1>2, RunEnds DEF WriteSecretsOrRefuse, Throw
  <1>3. CASE secrets = 0
    <2>1. run.script = "deploy" /\ run.at = 1 /\ run.g \in 1..minted'
      BY <1>1, <1>3, SecretsAreMinted
    <2> DEFINE sent == "written"
    <2>2. secrets' = run.g
      BY <1>3 DEF WriteSecretsOrRefuse
    <2>3. run' = [script |-> run.script, file |-> run.file, g |-> run.g, core |-> run.core,
                  at |-> run.at, tries |-> run.tries, sent |-> sent]
      BY <1>0, <1>3 DEF RunType, WriteSecretsOrRefuse
    <2>4. run.g \in Nat /\ run.tries \in Nat /\ sent \in Sents
      BY <1>0 DEF RunType, Sents
    <2>5. sent \notin {"ok", "sent"} /\ run.script # "list"
      BY <2>1
    <2> HIDE DEF sent
    <2>6. QED BY <1>1, <2>1, <2>2, <2>3, <2>4, <2>5, RunStays
  <1>4. QED BY <1>2, <1>3

\* The file names the keys whose secrets are kept.
LEMMA RecordKeepsRun ==
  ASSUME DeployInv, DeployNext, RecordOps
  PROVE  RunPart'
  <1>0. NetPart /\ CountersPart /\ FilePart /\ RunType /\ DeployPart /\ WrittenPart
    BY DEF DeployInv, RunPart
  <1>1. Working /\ run.sent = "written" /\ Now.kind = "accounts" /\ Advance /\ UNCHANGED <<gen, secrets, facts>>
    BY DEF RecordOps
  <1>2. run.script = "deploy" /\ run.at = 1 /\ secrets = run.g /\ secrets # 0
    BY <1>0, <1>1 DEF WrittenPart, DeployPart
  <1>3. file'[run.file].ops = secrets' /\ secrets' # 0
    <2>1. run.file \in Files /\ DOMAIN file = Files
      BY <1>0 DEF RunType, FilePart
    <2>2. file' = [file EXCEPT ![run.file] = [done |-> file[run.file].done \cup {Now.key}, ops |-> run.g]]
      BY DEF RecordOps
    <2>3. file'[run.file].ops = run.g
      BY <2>1, <2>2
    <2>4. QED BY <1>1, <1>2, <2>3
  <1>4. SettledIn(facts', Now)
    <2>1. SettledIn(facts, Now)
      BY <1>1, NothingToSettle
    <2>2. QED BY <2>1, ChainStep, GrowsKeeps
  <1>5. run.script # "list"
    BY <1>2
  <1>6. QED BY <1>1, <1>3, <1>4, <1>5, RunAdvances

\* A step that was not confirmed is found on chain, tried again or given up.
LEMMA NotConfirmedKeepsRun ==
  ASSUME DeployInv, DeployNext, NotConfirmed
  PROVE  RunPart'
  <1>0. NetPart /\ CountersPart /\ RunType
    BY DEF DeployInv, RunPart
  <1>1. run.sent # "no" /\ Now.kind # "accounts" /\ UNCHANGED <<gen, secrets, facts>>
    BY DEF NotConfirmed, Outcome
  <1>2. Working /\ run.script # "off"
    BY <1>0, <1>1 DEF RunType, Working
  <1>3. CASE OnChain(Now)
    <2>1. Mark
      BY <1>3 DEF NotConfirmed
    <2>2. QED BY <1>1, <1>2, <1>3, <2>1, OnChainKeepsRun
  <1>4. CASE ~OnChain(Now) /\ run' = [run EXCEPT !.tries = @ + 1, !.sent = "no"]
    <2> DEFINE sent == "no"
               tries == run.tries + 1
    <2>1. run' = [script |-> run.script, file |-> run.file, g |-> run.g, core |-> run.core,
                  at |-> run.at, tries |-> tries, sent |-> sent]
      BY <1>0, <1>4 DEF RunType
    <2>2. run.g \in Nat /\ tries \in Nat /\ sent \in Sents /\ sent = "no"
      BY <1>0 DEF RunType, Sents
    <2>3. file' = file
      BY <1>4 DEF NotConfirmed
    <2>4. sent \notin {"ok", "sent", "written"} /\ sent \in {"no", "rejected"}
      OBVIOUS
    <2> HIDE DEF sent, tries
    <2>5. QED BY <1>1, <1>2, <2>1, <2>2, <2>3, <2>4, RunStays
  <1>5. CASE ~OnChain(Now) /\ AllowFail(Now) /\ Advance
    <2>1. run.script = "rewire" /\ file' = file
      BY <1>5 DEF NotConfirmed, AllowFail
    <2>2. run.script \notin {"deploy", "core", "list"}
      BY <2>1
    <2>3. QED BY <1>1, <1>2, <1>5, <2>1, <2>2, StepDone
  <1>6. CASE run' = Off
    BY <1>6, RunEnds
  <1>7. QED BY <1>3, <1>4, <1>5, <1>6 DEF NotConfirmed, Throw

\* What a transaction carries is written when it applies.
LEMMA CarriedIsSettled ==
  ASSUME DeployInv, Working, NEW tx, Carries(Now, tx), NEW fs, tx.puts \subseteq fs
  PROVE  SettledIn(fs, Now)
  <1>1. StepAllowed(run.script, run.at, Now)
    BY NowIs DEF DeployInv, RunPart
  <1>2. ASSUME NEW p \in Now.puts
        PROVE  (IsWire(p) => p \in fs) /\ (p[1] \in Counted => HasIn(fs, p[1], p[2]))
    <2>1. PICK q \in tx.puts : q[1] = p[1] /\ q[2] = p[2] /\ (p[3] \notin {FromFile, FromEnv} => q = p)
      BY <1>2 DEF Carries
    <2>2. HasIn(fs, p[1], p[2])
      BY <2>1 DEF HasIn
    <2>3. ASSUME IsWire(p) PROVE p[3] \notin {FromFile, FromEnv}
      <3>1. CASE run.script = "list" /\ run.at = 5
        <4>1. p = ListingNow /\ Lists(ListingNow)
          BY <1>2, <3>1, ListingIs DEF Now
        <4>2. QED BY <2>3, <4>1 DEF IsWire, Wiring, Lists
      <3>2. CASE ~(run.script = "list" /\ run.at = 5)
        <4>1. Respects(Now.kind, Now.id, p)
          BY <1>1, <1>2, <3>2 DEF StepAllowed, Fine
        <4>2. QED BY <2>3, <4>1, KeysAreNoReferences DEF IsWire
      <3>3. QED BY <3>1, <3>2
    <2>4. QED BY <2>1, <2>2, <2>3
  <1>3. QED BY <1>2 DEF SettledIn

\* The pending transaction is included: what it carries is on chain.
LEMMA IncludeKeepsRun ==
  ASSUME DeployInv, DeployNext, Include
  PROVE  RunPart'
  <1>0. RunPart /\ NetPart /\ CountersPart /\ RunType
    BY DEF DeployInv, RunPart
  <1>1. live # NoTx /\ live' = NoTx /\ UNCHANGED <<gen, file, minted, secrets>>
    BY DEF Include
  <1>2. CASE run.sent # "sent"
    <2>1. run' = run
      BY <1>2 DEF Include
    <2>2. QED BY <1>1, <1>2, <2>1, SameRunStays
  <1>3. CASE run.sent = "sent"
    <2>1. Working /\ run.script # "off"
      BY <1>0, <1>3 DEF RunType, Working
    <2> DEFINE sent == IF Applies(live) THEN "ok" ELSE "failed"
    <2>2. run' = [script |-> run.script, file |-> run.file, g |-> run.g, core |-> run.core,
                  at |-> run.at, tries |-> run.tries, sent |-> sent]
      BY <1>0, <1>3 DEF RunType, Include
    <2>3. run.g \in Nat /\ run.tries \in Nat /\ sent \in Sents /\ sent \notin {"sent", "written"}
      BY <1>0 DEF RunType, Sents
    <2>4. sent = "ok" => Applies(live)
      OBVIOUS
    <2> HIDE DEF sent
    <2>5. sent = "ok" => live.puts \subseteq facts'
      BY <2>4 DEF Include, Write
    <2>6. Carries(Now, live)
      BY <1>0, <1>1, <1>3 DEF RunPart, SentPart
    <2>7. sent = "ok" => SettledIn(facts', Now)
      BY <2>1, <2>5, <2>6, CarriedIsSettled
    <2>8. run.script = "deploy" /\ run.at = 1 => run.g \in 1..minted'
      BY <1>0, <1>1, <1>3 DEF RunPart, DeployPart
    <2>9. ~(run.script = "list" /\ run.at = 3)
      BY <1>0, <1>3 DEF RunPart, ListPart
    <2>10. ASSUME run.script = "list", run.at = 4, sent = "ok" PROVE CapOf \in facts'
      <3>1. Now.puts = {CapOf} /\ Literal(CapOf)
        BY <2>10, ListingIs DEF Now
      <3>2. CapOf \in live.puts
        BY <2>6, <3>1 DEF Carries, Literal
      <3>3. QED BY <2>5, <2>10, <3>2
    <2>11. QED BY <1>1, <2>1, <2>2, <2>3, <2>7, <2>8, <2>9, <2>10, RunStays
  <1>4. QED BY <1>2, <1>3

\* Crashes, polls that run out, transactions that are dropped or fail.
LEMMA FaultKeepsRun ==
  ASSUME DeployInv, DeployNext, Fault
  PROVE  RunPart'
  <1>0. RunPart /\ NetPart /\ CountersPart /\ RunType
    BY DEF DeployInv, RunPart
  <1>1. UNCHANGED <<gen, secrets, minted>>
    BY DEF Fault
  <1>2. CASE run' = Off
    BY <1>2, RunEnds
  <1>3. CASE run' = run /\ live' = NoTx /\ file' = file
    BY <1>1, <1>3, SameRunStays
  <1>4. ASSUME NEW sent \in {"refused", "timeout", "failed"}, run.sent = "sent", file' = file,
               run' = [run EXCEPT !.sent = sent]
        PROVE  RunPart'
    <2>1. Working /\ run.script # "off"
      BY <1>0, <1>4 DEF RunType, Working
    <2>2. run' = [script |-> run.script, file |-> run.file, g |-> run.g, core |-> run.core,
                  at |-> run.at, tries |-> run.tries, sent |-> sent]
      BY <1>0, <1>4 DEF RunType
    <2>3. run.g \in Nat /\ run.tries \in Nat /\ sent \in Sents /\ sent \notin {"sent", "written", "ok"}
      BY <1>0 DEF RunType, Sents
    <2>4. run.script = "deploy" /\ run.at = 1 => run.g \in 1..minted'
      BY <1>0, <1>1, <1>4 DEF RunPart, DeployPart
    <2>5. ~(run.script = "list" /\ run.at = 3)
      BY <1>0, <1>4 DEF RunPart, ListPart
    <2>6. QED BY <1>1, <1>4, <2>1, <2>2, <2>3, <2>4, <2>5, RunStays
  <1>5. \/ run' = Off
        \/ run' = run /\ live' = NoTx /\ file' = file
        \/ \E sent \in {"refused", "timeout", "failed"} :
              run.sent = "sent" /\ file' = file /\ run' = [run EXCEPT !.sent = sent]
    BY DEF Fault
  <1>6. QED BY <1>2, <1>3, <1>4, <1>5

\* Every step leaves the run where its facts and files allow it.
LEMMA RunStep ==
  ASSUME DeployInv, DeployNext
  PROVE  RunPart'
  <1>1. CASE \/ Resume \/ StartRewire \/ StartList
             \/ (\E f \in Files : StartDeploy(f)) \/ (\E s \in {"core", "oracle", "issue"} : StartFresh(s))
    BY <1>1, StartKeepsRun
  <1>2. CASE Include
    BY <1>2, IncludeKeepsRun
  <1>3. CASE Fault
    BY <1>3, FaultKeepsRun
  <1>4. CASE \E v \in {<<"fresh", 0>>, <<"stale", 0>>} : Price(v)
    <2>1. run' = run /\ UNCHANGED <<gen, file, minted, secrets, live>>
      BY <1>4 DEF Price
    <2>2. QED BY <2>1, SameRunStays
  <1>5. CASE Recognize
    <2>1. Due /\ OnChain(Now) /\ Mark /\ UNCHANGED <<gen, secrets, facts>>
      BY <1>5 DEF Recognize
    <2>2. QED BY <2>1, OnChainKeepsRun DEF Due
  <1>6. CASE Skip \/ Send \/ SimulationFails \/ Confirmed \/ NotConfirmed
    BY <1>6, SkipKeepsRun, SendKeepsRun, SimulationKeepsRun, ConfirmedKeepsRun, NotConfirmedKeepsRun
  <1>7. CASE MintKeys \/ WriteSecretsOrRefuse \/ RecordOps \/ WithoutSending
    BY <1>7, MintKeepsRun, SecretsKeepRun, RecordKeepsRun, WithoutSendingKeepsRun
  <1>8. CASE AccountsFail \/ Finish
    BY <1>8, RunEnds DEF AccountsFail, Finish, Throw
  <1>9. QED
    BY <1>1, <1>2, <1>3, <1>4, <1>5, <1>6, <1>7, <1>8 DEF DeployNext, ScriptStep

-----------------------------------------------------------------------------
(* What the clients are pointed at *)

\* Contract <n, g> knows contract <m, g>.
Reference(n, m, g) == <<m, <<n, g>>, <<m, g>>>>
Wired(fs, g) ==
    /\ Reference("vault", "engine", g) \in fs /\ Reference("engine", "vault", g) \in fs
    /\ Reference("engine", "gateway", g) \in fs /\ Reference("gateway", "engine", g) \in fs
    /\ HasIn(fs, "operator", <<"gateway", g>>) /\ HasIn(fs, "market", <<"engine", g>>)

\* The clients' core is wired.
LEMMA ServedIsWiredIs == ServedIsWired <=> (served # 0 => Wired(facts, served))
  <1> DEFINE Knows(r) == <<r[2], <<r[1], served>>, <<r[2], served>>>> \in facts
  <1>1. \A n, m : Knows(<<n, m>>) <=> Reference(n, m, served) \in facts
    BY DEF Reference
  <1>2. ServedIsWired <=>
          (served # 0 =>
            /\ \A r \in {<<"vault", "engine">>, <<"engine", "vault">>, <<"engine", "gateway">>, <<"gateway", "engine">>} : Knows(r)
            /\ HasIn(facts, "operator", <<"gateway", served>>) /\ HasIn(facts, "market", <<"engine", served>>))
    BY DEF ServedIsWired, Holds, HasIn
  <1> HIDE DEF Knows
  <1>3. (\A r \in {<<"vault", "engine">>, <<"engine", "vault">>, <<"engine", "gateway">>, <<"gateway", "engine">>} : Knows(r))
        <=> /\ Knows(<<"vault", "engine">>) /\ Knows(<<"engine", "vault">>)
            /\ Knows(<<"engine", "gateway">>) /\ Knows(<<"gateway", "engine">>)
    BY Zenon
  <1>4. QED BY <1>1, <1>2, <1>3 DEF Wired

\* References between the contracts that clients use are wires.
LEMMA ReferenceIsWire ==
  ASSUME NEW n, NEW m, NEW g \in Nat,
         \/ n = "vault" /\ m = "engine"
         \/ n = "engine" /\ m \in {"vault", "gateway"}
         \/ n = "gateway" /\ m = "engine"
  PROVE  IsWire(Reference(n, m, g))
  <1> PICK v : v = <<m, g>>
    OBVIOUS
  <1>1. IsId(v) /\ v # Admin
    BY Values
  <1> PICK p : p = <<m, <<n, g>>, v>>
    OBVIOUS
  <1>2. p[1] = m /\ p[2][1] = n /\ p[3] = v
    BY <1>1, Parts
  <1>3. IsWire(p)
    BY <1>1, <1>2 DEF IsWire, Wiring
  <1>4. QED BY <1>3 DEF Reference

\* What is wired stays wired.
LEMMA WiredStays ==
  ASSUME NEW fs, NEW hs, Grows(fs, hs), NEW g \in Nat, Wired(fs, g)
  PROVE  Wired(hs, g)
  <1>1. ASSUME NEW p \in fs, IsWire(p) PROVE p \in hs
    BY <1>1 DEF Grows
  <1>2. /\ IsWire(Reference("vault", "engine", g)) /\ IsWire(Reference("engine", "vault", g))
        /\ IsWire(Reference("engine", "gateway", g)) /\ IsWire(Reference("gateway", "engine", g))
    BY ReferenceIsWire
  <1>3. /\ HasIn(hs, "operator", <<"gateway", g>>) /\ HasIn(hs, "market", <<"engine", g>>)
    BY GrowsKeeps DEF Wired
  <1>4. QED BY <1>1, <1>2, <1>3 DEF Wired

\* A finished deployment of a core has wired it.
LEMMA ConnectsWires ==
  ASSUME NEW S, NEW g \in Nat, Connects(S, g), NEW fs, \A s \in S : SettledIn(fs, s)
  PROVE  Wired(fs, g)
  <1>1. ASSUME NEW s \in S, NEW p \in s.puts
        PROVE  (IsWire(p) => p \in fs) /\ (p[1] \in Counted => HasIn(fs, p[1], p[2]))
    BY <1>1 DEF SettledIn
  <1>2. Reference("vault", "engine", g) \in fs
    <2>1. Reference("vault", "engine", g) \in Wire("vault", "engine", g).puts
      BY DEF Wire, Call, Step, Reference
    <2>2. QED BY <1>1, <2>1, ReferenceIsWire DEF Connects
  <1>3. Reference("engine", "gateway", g) \in fs
    <2>1. Reference("engine", "gateway", g) \in Wire("engine", "gateway", g).puts
      BY DEF Wire, Call, Step, Reference
    <2>2. QED BY <1>1, <2>1, ReferenceIsWire DEF Connects
  <1>4. Reference("engine", "vault", g) \in fs
    <2>1. Reference("engine", "vault", g) \in References("engine", g)
      BY DEF References, Reference
    <2>2. Reference("engine", "vault", g) \in Initialize("engine", g).puts
      BY <2>1, InitializeIs DEF Names
    <2>3. QED BY <1>1, <2>2, ReferenceIsWire DEF Connects
  <1>5. Reference("gateway", "engine", g) \in fs
    <2>1. Reference("gateway", "engine", g) \in References("gateway", g)
      BY DEF References, Reference
    <2>2. Reference("gateway", "engine", g) \in Initialize("gateway", g).puts
      BY <2>1, InitializeIs DEF Names
    <2>3. QED BY <1>1, <2>2, ReferenceIsWire DEF Connects
  <1>6. HasIn(fs, "operator", <<"gateway", g>>)
    <2>1. PICK v : Call(<<"wire gateway", "operator">>, "operator", <<"gateway", g>>, v) \in S /\ IsId(v)
      BY DEF Connects
    <2> PICK p : p = <<"operator", <<"gateway", g>>, v>>
      OBVIOUS
    <2>2. p \in Call(<<"wire gateway", "operator">>, "operator", <<"gateway", g>>, v).puts
      BY DEF Call, Step
    <2>3. p[1] = "operator" /\ p[2] = <<"gateway", g>>
      BY <2>1, Parts
    <2>4. p[1] \in Counted
      BY <2>3 DEF Counted
    <2>5. HasIn(fs, p[1], p[2])
      BY <1>1, <2>1, <2>2, <2>4
    <2>6. QED BY <2>3, <2>5
  <1>7. HasIn(fs, "market", <<"engine", g>>)
    <2> PICK p : p = <<"market", <<"engine", g>>, Yes>>
      OBVIOUS
    <2>1. p \in Market("engine", g).puts
      BY DEF Market, Call, Step
    <2>2. p[1] = "market" /\ p[2] = <<"engine", g>>
      BY Values, Parts
    <2>3. p[1] \in Counted
      BY <2>2 DEF Counted
    <2>4. Market("engine", g) \in S
      BY DEF Connects
    <2>5. HasIn(fs, p[1], p[2])
      BY <1>1, <2>1, <2>3, <2>4
    <2>6. QED BY <2>2, <2>5
  <1>8. QED BY <1>2, <1>3, <1>4, <1>5, <1>6, <1>7 DEF Wired

\* A script that is past its plan has settled all of it.
LEMMA FinishedIsWired ==
  ASSUME DeployInv, run.script \in {"deploy", "core"}, ~Working, NEW g \in Nat,
         g = IF run.script = "core" THEN run.g ELSE 1
  PROVE  Wired(facts, g)
  <1>0. NetPart /\ CountersPart /\ RunType /\ BehindPart
    BY DEF DeployInv, RunPart
  <1>1. run.script # "off"
    OBVIOUS
  <1>2. Len(Plan) \in Nat /\ DOMAIN Plan = 1..Len(Plan) /\ Connects(ToSet(Plan), g)
    BY <1>0, <1>1, PlanIs
  <1>3. run.at = Len(Plan) + 1
    <2>1. run.at \in 1..Len(Plan) + 1 /\ ~(run.at <= Len(Plan))
      BY <1>0, <1>1 DEF RunType, Working
    <2>2. QED BY <1>2, <2>1
  <1>4. ASSUME NEW s \in ToSet(Plan) PROVE SettledIn(facts, s)
    <2>1. PICK i \in DOMAIN Plan : s = Plan[i]
      BY <1>4 DEF ToSet
    <2>2. i < run.at
      BY <1>2, <1>3, <2>1
    <2>3. QED BY <1>0, <2>1, <2>2 DEF BehindPart
  <1>5. QED BY <1>2, <1>4, ConnectsWires

\* The clients are only pointed at a core that a script has finished.
LEMMA ServedStep ==
  ASSUME DeployInv, DeployNext
  PROVE  ServedIsWired'
  <1>0. CountersPart /\ RunType /\ Grows(facts, facts') /\ ServedIsWired /\ CountersPart'
    BY ChainStep, CountersStep DEF DeployInv, RunPart
  <1>1. (served # 0 => Wired(facts, served)) /\ served \in Nat /\ served' \in Nat
    BY <1>0, ServedIsWiredIs DEF CountersPart
  <1>2. SUFFICES served' # 0 => Wired(facts', served')
    <2>1. (ServedIsWired <=> (served # 0 => Wired(facts, served)))'
      BY ServedIsWiredIs, PTL
    <2>2. QED BY <2>1
  <1>3. CASE served' = served
    BY <1>0, <1>1, <1>3, WiredStays
  <1>4. CASE served' # served
    <2>1. Finish
      BY <1>4 DEF DeployNext, ScriptStep, Resume, StartDeploy, StartFresh, StartRewire, StartList, Start, Include, Price,
                  Fault, Skip, Recognize, Send, SimulationFails, Confirmed, NotConfirmed, MintKeys,
                  WriteSecretsOrRefuse, RecordOps, AccountsFail, WithoutSending
    <2>2. /\ run.script \in {"deploy", "core"} /\ ~Working
          /\ served' = IF run.script = "core" THEN run.g ELSE 1
      BY <1>4, <2>1 DEF Finish, Resumes
    <2>3. Wired(facts, served')
      BY <1>1, <2>2, FinishedIsWired
    <2>4. QED BY <1>0, <1>1, <2>3, WiredStays
  <1>5. QED BY <1>3, <1>4

-----------------------------------------------------------------------------
(* The invariant *)

\* Nothing is deployed at first.
LEMMA DeployInitInv == DeployInit => DeployInv
  <1> SUFFICES ASSUME DeployInit PROVE DeployInv
    OBVIOUS
  <1>1. NetPart
    BY DEF DeployInit, NetPart
  <1>2. CountersPart
    BY DeploymentAssumption DEF DeployInit, CountersPart, Gens
  <1>3. /\ DOMAIN file = Files
        /\ \A f \in Files : file[f] = [done |-> {}, ops |-> 0]
    BY DEF DeployInit
  <1>4. ASSUME NEW f \in Files
        PROVE  /\ file[f] = [done |-> file[f].done, ops |-> file[f].ops]
               /\ file[f].done = {} /\ file[f].ops = 0
    BY <1>3
  <1>5. FilePart
    BY <1>3, <1>4 DEF FilePart
  <1>6. FactsPart
    BY DEF DeployInit, FactsPart, GoodFacts
  <1>7. LivePart
    BY DEF DeployInit, LivePart, GoodTx, NoTx
  <1>8. RunPart
    <2>1. /\ run.script = "off" /\ run.file = "v1" /\ run.g = 0 /\ run.core = 0
          /\ run.at = 1 /\ run.tries = 1 /\ run.sent = "no"
      BY DEF Off, DeployInit
    <2>2. run = [script |-> run.script, file |-> run.file, g |-> run.g, core |-> run.core,
                 at |-> run.at, tries |-> run.tries, sent |-> run.sent]
      BY DEF Off, DeployInit
    <2>3. RunType
      BY <2>1, <2>2 DEF RunType, Scripts, Files, Sents
    <2>4. DeployPart /\ WrittenPart /\ BehindPart /\ SentPart /\ ListPart
      BY <2>1 DEF DeployPart, WrittenPart, BehindPart, SentPart, ListPart
    <2>5. QED BY <2>3, <2>4 DEF RunPart
  <1>9. ServedIsWired
    BY DEF DeployInit, ServedIsWired
  <1>10. QED BY <1>1, <1>2, <1>5, <1>6, <1>7, <1>8, <1>9 DEF DeployInv

\* Every step keeps the invariant.
LEMMA DeployNextInv == DeployInv /\ [DeployNext]_deployVars => DeployInv'
  <1> SUFFICES ASSUME DeployInv, [DeployNext]_deployVars PROVE DeployInv'
    OBVIOUS
  <1>1. CASE DeployNext
    BY <1>1, ChainStep, FileStep, CountersStep, RunStep, ServedStep DEF DeployInv
  <1>2. CASE UNCHANGED deployVars
    <2> USE <1>2 DEF deployVars
    <2>1. NetPart' /\ CountersPart'
      BY DEF DeployInv, NetPart, CountersPart
    <2>2. FilePart'
      BY DEF DeployInv, FilePart
    <2>3. SafeKeys' = SafeKeys
      BY DEF SafeKeys
    <2>4. FactsPart' /\ LivePart'
      BY <2>3 DEF DeployInv, FactsPart, LivePart
    <2>5. Plan' = Plan /\ Now' = Now /\ Working' = Working /\ CapOf' = CapOf
      BY DEF Plan, Now, Working, CapOf
    <2>6. RunPart'
      <3>1. RunPart
        BY DEF DeployInv
      <3>2. RunType'
        BY <2>5, <3>1 DEF RunPart, RunType
      <3>3. DeployPart' /\ WrittenPart'
        BY <3>1 DEF RunPart, DeployPart, WrittenPart
      <3>4. BehindPart' /\ SentPart' /\ ListPart'
        BY <2>5, <3>1 DEF RunPart, BehindPart, SentPart, ListPart
      <3>5. QED BY <3>2, <3>3, <3>4 DEF RunPart
    <2>7. ServedIsWired'
      <3>1. ServedIsWired
        BY DEF DeployInv
      <3>2. (ServedIsWired <=> (served # 0 => Wired(facts, served)))'
        BY ServedIsWiredIs, PTL
      <3>3. QED BY <3>1, <3>2, ServedIsWiredIs
    <2>8. QED BY <2>1, <2>2, <2>4, <2>6, <2>7 DEF DeployInv
  <1>3. QED BY <1>1, <1>2

\* The invariant implies what DeploymentIsSafe promises.
LEMMA DeployInvIsSafe == DeployInv => DeploymentIsSafe
  <1> SUFFICES ASSUME DeployInv PROVE DeploymentIsSafe
    OBVIOUS
  <1>0. NetPart /\ CountersPart /\ RunType /\ GoodFacts(facts, SafeKeys) /\ ServedIsWired
    BY DEF DeployInv, FactsPart, RunPart
  <1>1. DeployTypeOK
    <2>1. ASSUME NEW v \in facts PROVE v[2][2] \in Nat /\ v[3][2] \in Nat
      BY <1>0 DEF GoodFacts, IsTriple, IsId
    <2>2. net \in {"mainnet", "testnet"} /\ env \in {FromEnv, Admin}
      BY <1>0 DEF NetPart
    <2>3. /\ secrets \in 0..minted /\ gen \in Gens /\ served \in 0..gen
          /\ others \in 0..MaxOthers /\ faults \in 0..MaxFaults
      BY <1>0 DEF CountersPart
    <2>4. run.script = "off" \/ run.at \in 1..Len(Plan) + 1
      BY <1>0 DEF RunType
    <2>5. run.sent \in {"no", "sent", "ok", "failed", "refused", "rejected", "timeout", "written"}
      BY <1>0 DEF RunType, Sents
    <2>6. QED BY <2>1, <2>2, <2>3, <2>4, <2>5 DEF DeployTypeOK
  <1>2. KeysAreKept
    <2>1. SafeKeys \subseteq {Key(secrets), env} \ {Admin}
      BY DEF SafeKeys
    <2>2. ASSUME NEW v \in facts, v[1] \in {"operator", "guardian", "publisher XLM", "publisher USDC"}, v[2][2] = 1
          PROVE  v[3] \in {Key(secrets), env} \ {Admin}
      BY <1>0, <2>1, <2>2 DEF GoodFacts, IsRole
    <2>3. QED BY <2>2 DEF KeysAreKept
  <1>3. ListedIsPriced
    <2>1. ASSUME NEW v \in facts, v[1] = "USDT0 listed"
          PROVE  /\ <<"USDT0 cap", v[2], v[3]>> \in facts
                 /\ Holds("USDT0", <<"oracle", 1>>) /\ Holds("USDT0 price", <<"oracle", 1>>)
      <3>1. ListedIn(facts, v)
        BY <1>0, <2>1 DEF GoodFacts
      <3>2. HasIn(facts, "USDT0 price", First)
        BY <3>1 DEF ListedIn
      <3>3. HasIn(facts, "USDT0", First)
        <4>1. PICK p \in facts : p[1] = "USDT0 price" /\ p[2] = First
          BY <3>2 DEF HasIn
        <4>2. QED BY <1>0, <4>1 DEF GoodFacts
      <3>4. <<"USDT0 cap", v[2], v[3]>> \in facts
        BY <3>1 DEF ListedIn, CapOfListing
      <3>5. QED BY <3>2, <3>3, <3>4, HoldsIsHasIn DEF First
    <2>2. QED BY <2>1 DEF ListedIsPriced
  <1>4. QED BY <1>0, <1>1, <1>2, <1>3 DEF DeploymentIsSafe

\* Whatever is interrupted, torn, replaced or run twice, in any order: no wired
\* operator, guardian or publisher key is lost or the admin's, no collateral is
\* listed unpriced or uncapped, and the clients are only pointed at contracts that
\* know each other (mainnet-deploy.ts, testnet-deploy.ts, redeploy-core.ts,
\* redeploy-oracle.ts, rewire-liquidation.ts, list-usdt0.ts).
THEOREM DeploymentStaysSafe == DeploySpec => []DeploymentIsSafe
  BY DeployInitInv, DeployNextInv, DeployInvIsSafe, PTL DEF DeploySpec
=============================================================================
