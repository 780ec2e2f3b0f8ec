---------------------------- MODULE KeepersProofs ----------------------------
(***************************************************************************)
(* For any wallets, amounts, limits and number of refills: the refill      *)
(* keeps the funding account's reserve and fills no wallet beyond its      *)
(* target, and the TTL keeper lets no entry be archived.  For any assets   *)
(* and clocks: a stored price is never replaced by an older one, a price   *)
(* served for a quorum feed is one its sources or the admin wrote, what    *)
(* the keeper publishes is within Reflector's band of what the asset was   *)
(* worth, a stablecoin that lost its peg is no longer served once the last *)
(* price has aged, and while the protocol needs prices and the keeper's    *)
(* ticks are healthy every feed of the keeper can be read.                 *)
(*                                                                         *)
(* What the refill has still to pay was read long before it is paid, so    *)
(* the invariant counts, for every wallet, what it holds, what may still   *)
(* land in it and what this refill will still send; and, against the       *)
(* reserve, the sum of the last two.                                       *)
(***************************************************************************)
EXTENDS OracleFeed, KeeperUpkeep, SetTheorems, SequenceTheorems, TLAPS

RefillSteps == {"off", "read", "plan", "swap", "swapping", "pay", "paying", "paid"}

\* The wallets this refill may still send a payment to.
Unpaid == {k \in Keepers : \/ refill.pc \in {"read", "plan", "swap", "swapping"}
                           \/ refill.pc = "pay" /\ k >= refill.at
                           \/ refill.pc \in {"paying", "paid"} /\ k > refill.at}

\* What may still land in a wallet, and in any.
OnItsWayTo(k) == IF pending.kind = "pay" /\ pending.to = k THEN pending.amount ELSE 0
OnItsWay == IF pending.kind = "pay" THEN pending.amount ELSE 0

UnpaidNeed == SumFunctionOnSet(refill.need, Unpaid)
Least == Min({Reserve, SourceXlm})

RefillPart ==
    /\ refill \in [pc: RefillSteps, at: Nat, need: [Keepers -> 0..Target], buy: Nat, max: Nat, execute: BOOLEAN]
    /\ refill.pc \in {"read", "pay", "paying", "paid"} => refill.at \in Keepers

PendingPart ==
    /\ pending \in [kind: {"none", "swap", "pay"}, to: Nat, amount: Nat, max: Nat]
    /\ pending.kind = "none" => pending = NoPayment
    /\ pending.kind = "pay" => pending.to \in Keepers \ Unpaid
    /\ pending.kind = "swap" => refill.pc \in {"swapping", "off"}
    /\ (pending.kind = "swap" /\ refill.pc = "swapping") => pending.amount = refill.buy
    /\ refill.pc \in {"read", "plan", "swap"} => pending = NoPayment

WalletPart ==
    /\ xlm \in [Keepers -> Nat]
    /\ \A k \in Keepers : xlm[k] + OnItsWayTo(k) + (IF k \in Unpaid THEN refill.need[k] ELSE 0) <= Target

FundPart ==
    /\ source \in Nat /\ usdc \in Nat /\ source >= Least
    /\ (refill.pc = "swap" \/ (refill.pc = "swapping" /\ pending # NoPayment)) =>
           source + refill.buy >= Least + UnpaidNeed
    /\ (refill.pc \in {"pay", "paying", "paid", "off"} \/ (refill.pc = "swapping" /\ pending = NoPayment)) =>
           source >= Least + OnItsWay + UnpaidNeed

TtlPart ==
    /\ ttl \in [Entries -> 1..ExtendTo] /\ due \subseteq Entries
    /\ ttlRun \in {"due", "sent", "over"} /\ missed \in 0..MaxMissed
    /\ \A e \in Entries : ttl[e] + missed + (IF ttlRun = "over" THEN 0 ELSE 1) >= Threshold
    /\ ttlRun = "sent" => due = NeedsExtension

RefillInv == RefillPart /\ PendingPart /\ WalletPart /\ FundPart
UpkeepInv == RefillInv /\ TtlPart

-----------------------------------------------------------------------------
(* The constants, the wallets in order, and sums of needs.                 *)

\* The constants of the refill and the TTL keeper.
LEMMA UpkeepBasics ==
  /\ Keepers \subseteq Nat /\ IsFiniteSet(Keepers) /\ TtlWallet \in Keepers /\ Quotes \subseteq Nat
  /\ Floor \in Nat /\ Target \in Nat /\ Reserve \in Nat /\ Slip \in Nat /\ SourceXlm \in Nat /\ SourceUsdc \in Nat
  /\ Threshold \in Nat /\ ExtendTo \in Nat /\ MaxMissed \in Nat
  /\ 0 < Floor /\ Floor <= Target /\ MaxMissed + 2 <= Threshold /\ Threshold < ExtendTo
  /\ Least \in Nat /\ Least <= Reserve /\ Least <= SourceXlm
  <1>1. Least = IF Reserve <= SourceXlm THEN Reserve ELSE SourceXlm
    BY UpkeepAssumption, MinOfTwo DEF Least
  <1>2. QED
    BY <1>1, UpkeepAssumption

\* The loops over the wallets visit every wallet once, in order.
LEMMA Visits ==
  /\ Min(Keepers) \in Keepers /\ \A k \in Keepers : Min(Keepers) <= k
  /\ \A k \in Keepers :
        IF NextKeeper(k) = 0 THEN {j \in Keepers : j > k} = {}
        ELSE /\ NextKeeper(k) \in Keepers
             /\ {j \in Keepers : j >= NextKeeper(k)} = {j \in Keepers : j > k}
  <1>1. Min(Keepers) \in Keepers /\ \A k \in Keepers : Min(Keepers) <= k
    <2>1. Keepers # {}
      BY UpkeepBasics
    <2>2. QED
      BY <2>1, UpkeepBasics, MinOfNaturals
  <1>2. ASSUME NEW k \in Keepers
        PROVE  IF NextKeeper(k) = 0 THEN {j \in Keepers : j > k} = {}
               ELSE /\ NextKeeper(k) \in Keepers
                    /\ {j \in Keepers : j >= NextKeeper(k)} = {j \in Keepers : j > k}
    <2> DEFINE Later == {j \in Keepers : j > k}
    <2>1. CASE Later = {}
      BY <2>1 DEF NextKeeper
    <2>2. CASE Later # {}
      <3>1. Later \subseteq Nat
        BY UpkeepBasics
      <3>2. Min(Later) \in Later /\ \A j \in Later : Min(Later) <= j
        BY <2>2, <3>1, MinOfNaturals
      <3>3. NextKeeper(k) = Min(Later)
        BY <2>2 DEF NextKeeper
      <3>4. k \in Nat /\ Min(Later) \in Nat /\ Min(Later) > k /\ \A j \in Keepers : j \in Nat
        BY <3>1, <3>2, UpkeepBasics
      <3>5. {j \in Keepers : j >= Min(Later)} = Later
        <4>1. \A j \in Keepers : j >= Min(Later) => j > k
          BY <3>4
        <4>2. \A j \in Keepers : j > k => j >= Min(Later)
          <5>1. \A j \in Later : j \in Nat
            BY <3>1
          <5>2. QED
            BY <3>2, <3>4
        <4>3. QED
          BY <4>1, <4>2
      <3>6. QED
        BY <3>2, <3>3, <3>4, <3>5
    <2>3. QED
      BY <2>1, <2>2
  <1>3. QED
    BY <1>1, <1>2

\* Sums of needs over sets of wallets.
LEMMA NeedSums ==
  ASSUME NEW need \in [Keepers -> 0..Target]
  PROVE  /\ \A S \in SUBSET Keepers : SumFunctionOnSet(need, S) \in Nat
         /\ SumFunctionOnSet(need, {}) = 0
         /\ TotalNeed(need) = SumFunctionOnSet(need, Keepers)
         /\ \A k \in Keepers : SumFunctionOnSet(need, {j \in Keepers : j >= k})
                                  = need[k] + SumFunctionOnSet(need, {j \in Keepers : j > k})
  <1>1. ASSUME NEW S \in SUBSET Keepers PROVE SumFunctionOnSet(need, S) \in Nat
    <2>1. IsFiniteSet(S)
      BY UpkeepBasics, FS_Subset
    <2>2. \A x \in S : need[x] \in Nat
      BY UpkeepBasics
    <2>3. QED
      BY <2>1, <2>2, SumOfNaturals
  <1>2. TotalNeed(need) = SumFunctionOnSet(need, Keepers)
    BY DEF TotalNeed, SumFunction
  <1>3. ASSUME NEW k \in Keepers
        PROVE  SumFunctionOnSet(need, {j \in Keepers : j >= k})
                 = need[k] + SumFunctionOnSet(need, {j \in Keepers : j > k})
    <2> DEFINE A == {j \in Keepers : j >= k}
    <2>1. IsFiniteSet(A) /\ k \in A /\ \A x \in A : need[x] \in Int
      BY UpkeepBasics, FS_Subset
    <2>2. A \ {k} = {j \in Keepers : j > k}
      <3>1. \A j \in Keepers : j \in Nat
        BY UpkeepBasics
      <3>2. \A j \in Keepers : (j >= k /\ j # k) <=> j > k
        BY <3>1
      <3>3. QED
        BY <3>2
    <2>3. SumFunctionOnSet(need, A) = need[k] + SumFunctionOnSet(need, A \ {k})
      BY <2>1, SumSplit
    <2>4. QED
      BY <2>2, <2>3
  <1>4. QED
    BY <1>1, <1>2, <1>3, SumEmpty

-----------------------------------------------------------------------------
(* The refill.                                                             *)

\* Wallets full, the account untouched, nothing on its way, entries fresh.
LEMMA UpkeepInitInv == UpkeepInit => UpkeepInv
  <1> SUFFICES ASSUME UpkeepInit PROVE UpkeepInv
    OBVIOUS
  <1>1. /\ refill.pc = "off" /\ refill.need = NoPlan
        /\ refill \in [pc: RefillSteps, at: Nat, need: [Keepers -> 0..Target], buy: Nat, max: Nat, execute: BOOLEAN]
    <2>1. NoPlan \in [Keepers -> 0..Target]
      BY UpkeepBasics DEF NoPlan
    <2>2. QED
      BY <2>1 DEF UpkeepInit, Off, RefillSteps
  <1>2. Unpaid = {}
    BY <1>1 DEF Unpaid
  <1>3. pending = NoPayment /\ pending.kind = "none"
        /\ pending \in [kind: {"none", "swap", "pay"}, to: Nat, amount: Nat, max: Nat]
    BY DEF UpkeepInit, NoPayment
  <1>4. OnItsWay = 0 /\ UnpaidNeed = 0 /\ \A k \in Keepers : OnItsWayTo(k) = 0
    BY <1>2, <1>3, SumEmpty DEF OnItsWay, OnItsWayTo, UnpaidNeed
  <1>5. RefillPart
    BY <1>1 DEF RefillPart
  <1>6. PendingPart
    BY <1>3 DEF PendingPart
  <1>7. WalletPart
    <2>1. xlm \in [Keepers -> 0..Target]
      BY DEF UpkeepInit
    <2>2. QED
      BY <1>2, <1>4, <2>1, UpkeepBasics DEF WalletPart
  <1>8. FundPart
    BY <1>1, <1>4, UpkeepBasics DEF UpkeepInit, FundPart
  <1>9. TtlPart
    BY UpkeepBasics DEF UpkeepInit, TtlPart
  <1>10. QED
    BY <1>5, <1>6, <1>7, <1>8, <1>9 DEF UpkeepInv, RefillInv

\* A refill starts with nothing on its way and nothing planned.
LEMMA StartRefillInv == ASSUME RefillInv, StartRefill PROVE RefillInv'
  <1>1. PICK execute \in BOOLEAN : refill' = [Off EXCEPT !.pc = "read", !.at = Min(Keepers), !.execute = execute]
    BY DEF StartRefill
  <1>2. NoPlan \in [Keepers -> 0..Target] /\ Min(Keepers) \in Keepers /\ Min(Keepers) \in Nat
    <2>1. NoPlan \in [Keepers -> 0..Target]
      BY UpkeepBasics DEF NoPlan
    <2>2. Min(Keepers) \in Keepers
      BY Visits
    <2>3. QED
      BY <2>1, <2>2, UpkeepBasics
  <1>3. /\ refill'.pc = "read" /\ refill'.at = Min(Keepers) /\ refill'.need = NoPlan
        /\ refill' \in [pc: RefillSteps, at: Nat, need: [Keepers -> 0..Target], buy: Nat, max: Nat, execute: BOOLEAN]
    BY <1>1, <1>2 DEF Off, RefillSteps
  <1>4. pending' = pending /\ pending = NoPayment /\ pending.kind = "none" /\ UNCHANGED <<xlm, source, usdc>>
    BY DEF StartRefill, NoPayment
  <1>5. RefillPart'
    BY <1>2, <1>3 DEF RefillPart
  <1>6. PendingPart'
    BY <1>3, <1>4 DEF PendingPart, RefillInv
  <1>7. WalletPart'
    <2>1. \A k \in Keepers : OnItsWayTo(k)' = 0 /\ NoPlan[k] = 0
      BY <1>4 DEF OnItsWayTo, NoPlan
    <2>2. \A k \in Keepers : xlm[k] \in Nat /\ xlm[k] <= Target
      <3> TAKE k \in Keepers
      <3>1. /\ xlm[k] \in Nat /\ OnItsWayTo(k) = 0
            /\ xlm[k] + OnItsWayTo(k) + (IF k \in Unpaid THEN refill.need[k] ELSE 0) <= Target
        BY <1>4 DEF RefillInv, WalletPart, OnItsWayTo
      <3>2. refill.need[k] \in Nat
        BY DEF RefillInv, RefillPart
      <3>3. QED
        BY <3>1, <3>2, UpkeepBasics
    <2>3. QED
      BY <1>3, <1>4, <2>1, <2>2, UpkeepBasics DEF WalletPart, RefillInv
  <1>8. FundPart'
    BY <1>3, <1>4 DEF FundPart, RefillInv
  <1>9. QED
    BY <1>5, <1>6, <1>7, <1>8 DEF RefillInv

\* A read wallet is planned up to its target, with nothing on its way to it.
LEMMA ReadKeeperInv == ASSUME RefillInv, ReadKeeper PROVE RefillInv'
  <1>1. PICK k \in Keepers : k = refill.at
    BY DEF RefillInv, RefillPart, ReadKeeper
  <1>2. xlm[k] \in Nat /\ OnItsWayTo(k) = 0 /\ refill.need[k] \in Nat /\ xlm[k] <= Target
    <2>1. /\ xlm[k] \in Nat /\ OnItsWayTo(k) = 0 /\ refill.need[k] \in Nat
          /\ xlm[k] + OnItsWayTo(k) + (IF k \in Unpaid THEN refill.need[k] ELSE 0) <= Target
      BY DEF RefillInv, WalletPart, PendingPart, RefillPart, ReadKeeper, OnItsWayTo, NoPayment
    <2>2. QED
      BY <2>1, UpkeepBasics
  <1>3. PICK need \in 0..Target : need = IF xlm[k] >= Floor THEN 0 ELSE Target - xlm[k]
    BY <1>2, UpkeepBasics
  <1>4. PICK next : next = NextKeeper(k)
    OBVIOUS
  <1>5. PICK step \in {"plan", "read"} : step = IF next = 0 THEN "plan" ELSE "read"
    OBVIOUS
  <1>6. refill' = [refill EXCEPT !.need[k] = need, !.at = next, !.pc = step]
    BY <1>1, <1>3, <1>4, <1>5 DEF ReadKeeper
  <1>7. next \in Nat /\ (step = "read" => next \in Keepers)
    <2>1. next = 0 \/ next \in Keepers
      BY <1>4, Visits
    <2>2. \A j \in Keepers : j \in Nat
      BY UpkeepBasics
    <2>3. step = "read" => next # 0
      BY <1>5
    <2>4. QED
      BY <2>1, <2>2, <2>3
  <1>8. /\ refill'.pc = step /\ refill'.at = next /\ refill'.need = [refill.need EXCEPT ![k] = need]
        /\ refill' \in [pc: RefillSteps, at: Nat, need: [Keepers -> 0..Target], buy: Nat, max: Nat, execute: BOOLEAN]
    <2>1. refill \in [pc: RefillSteps, at: Nat, need: [Keepers -> 0..Target], buy: Nat, max: Nat, execute: BOOLEAN]
      BY DEF RefillInv, RefillPart
    <2>2. [refill.need EXCEPT ![k] = need] \in [Keepers -> 0..Target]
      BY <2>1
    <2>3. "plan" \in RefillSteps /\ "read" \in RefillSteps
      BY DEF RefillSteps
    <2>4. QED
      BY <1>6, <1>7, <2>1, <2>2, <2>3
  <1>9. pending' = pending /\ pending = NoPayment /\ pending.kind = "none" /\ UNCHANGED <<xlm, source, usdc>>
    BY DEF ReadKeeper, NoPayment, RefillInv, PendingPart
  <1>10. RefillPart'
    BY <1>7, <1>8 DEF RefillPart
  <1>11. PendingPart'
    BY <1>8, <1>9 DEF PendingPart, RefillInv
  <1>12. WalletPart'
    <2>1. Unpaid = Keepers /\ Unpaid' = Keepers
      BY <1>8 DEF Unpaid, ReadKeeper
    <2>2. \A j \in Keepers : OnItsWayTo(j)' = OnItsWayTo(j)
      BY <1>9 DEF OnItsWayTo
    <2>3. ASSUME NEW j \in Keepers
          PROVE xlm'[j] + OnItsWayTo(j)' + (IF j \in Unpaid' THEN refill'.need[j] ELSE 0) <= Target
      <3>1. xlm'[j] = xlm[j] /\ OnItsWayTo(j)' = OnItsWayTo(j) /\ j \in Unpaid'
        BY <1>9, <2>1, <2>2
      <3>2. CASE j = k
        <4>1. refill'.need[j] = need
          BY <1>8, <3>2 DEF RefillInv, RefillPart
        <4>2. xlm[k] + need <= Target
          BY <1>2, <1>3, UpkeepBasics
        <4>3. QED
          BY <1>2, <3>1, <3>2, <4>1, <4>2
      <3>3. CASE j # k
        <4>1. refill'.need[j] = refill.need[j]
          BY <1>8, <3>3 DEF RefillInv, RefillPart
        <4>2. xlm[j] + OnItsWayTo(j) + (IF j \in Unpaid THEN refill.need[j] ELSE 0) <= Target
          BY DEF RefillInv, WalletPart
        <4>3. QED
          BY <2>1, <3>1, <4>1, <4>2
      <3>4. QED
        BY <3>2, <3>3
    <2>4. QED
      BY <1>9, <2>3 DEF WalletPart, RefillInv
  <1>13. FundPart'
    BY <1>8, <1>9 DEF FundPart, RefillInv
  <1>14. QED
    BY <1>10, <1>11, <1>12, <1>13 DEF RefillInv

\* What is on its way is at most the needs it was taken from.
LEMMA Amounts ==
  ASSUME RefillInv
  PROVE  /\ UnpaidNeed \in Nat /\ OnItsWay \in Nat /\ source \in Nat /\ Least \in Nat
         /\ \A k \in Keepers : /\ OnItsWayTo(k) \in Nat /\ refill.need[k] \in Nat /\ xlm[k] \in Nat
                               /\ xlm[k] + OnItsWayTo(k) + (IF k \in Unpaid THEN refill.need[k] ELSE 0) <= Target
         /\ source >= Least
         /\ pending.kind = "pay" => /\ refill.pc \in {"pay", "paying", "paid", "off"}
                                    /\ pending.to \in Keepers
  <1>1. UnpaidNeed \in Nat
    <2>1. refill.need \in [Keepers -> 0..Target] /\ Unpaid \in SUBSET Keepers
      BY DEF RefillInv, RefillPart, Unpaid
    <2>2. QED
      BY <2>1, NeedSums DEF UnpaidNeed
  <1>2. pending.amount \in Nat /\ pending.to \in Nat
    BY DEF RefillInv, PendingPart
  <1>3. \A k \in Keepers : OnItsWayTo(k) \in Nat /\ refill.need[k] \in Nat
    BY <1>2 DEF OnItsWayTo, RefillInv, RefillPart
  <1>4. ASSUME pending.kind = "pay"
        PROVE  refill.pc \in {"pay", "paying", "paid", "off"} /\ pending.to \in Keepers
    <2>1. pending.to \in Keepers \ Unpaid
      BY <1>4 DEF RefillInv, PendingPart
    <2>2. refill.pc \notin {"read", "plan", "swap", "swapping"}
      BY <2>1 DEF Unpaid
    <2>3. QED
      BY <2>1, <2>2 DEF RefillInv, RefillPart, RefillSteps
  <1>5. OnItsWay \in Nat /\ source \in Nat /\ source >= Least /\ Least \in Nat
    BY <1>2, UpkeepBasics DEF OnItsWay, RefillInv, FundPart
  <1>6. QED
    BY <1>1, <1>3, <1>4, <1>5 DEF RefillInv, WalletPart

\* A refill that ends leaves at most a transaction behind.
LEMMA StopRefill ==
  ASSUME RefillInv, refill' = Off, UNCHANGED <<xlm, source, usdc>>, pending' \in {pending, NoPayment}
  PROVE  RefillInv'
  <1>1. NoPlan \in [Keepers -> 0..Target]
    BY UpkeepBasics DEF NoPlan
  <1>2. /\ refill'.pc = "off"
        /\ refill' \in [pc: RefillSteps, at: Nat, need: [Keepers -> 0..Target], buy: Nat, max: Nat, execute: BOOLEAN]
    BY <1>1 DEF Off, RefillSteps
  <1>3. Unpaid' = {}
    BY <1>2 DEF Unpaid
  <1>4. RefillPart'
    BY <1>2 DEF RefillPart
  <1>5. NoPayment.kind = "none" /\ NoPayment \in [kind: {"none", "swap", "pay"}, to: Nat, amount: Nat, max: Nat]
    BY DEF NoPayment
  <1>6. PendingPart'
    BY <1>2, <1>3, <1>5 DEF RefillInv, PendingPart
  <1>7. WalletPart'
    <2>1. ASSUME NEW k \in Keepers
          PROVE  xlm'[k] + OnItsWayTo(k)' + (IF k \in Unpaid' THEN refill'.need[k] ELSE 0) <= Target
      <3>1. /\ xlm[k] \in Nat /\ OnItsWayTo(k) \in Nat /\ refill.need[k] \in Nat
            /\ xlm[k] + OnItsWayTo(k) + (IF k \in Unpaid THEN refill.need[k] ELSE 0) <= Target
        BY Amounts
      <3>2. OnItsWayTo(k)' \in {OnItsWayTo(k), 0} /\ xlm'[k] = xlm[k]
        BY <1>5 DEF OnItsWayTo
      <3>3. QED
        BY <1>3, <3>1, <3>2, UpkeepBasics
    <2>2. QED
      BY <2>1 DEF WalletPart, RefillInv
  <1>8. FundPart'
    <2>1. UnpaidNeed' = 0
      BY <1>3, SumEmpty DEF UnpaidNeed
    <2>2. /\ UnpaidNeed \in Nat /\ OnItsWay \in Nat /\ source \in Nat /\ Least \in Nat /\ source >= Least
          /\ pending.kind = "pay" => refill.pc \in {"pay", "paying", "paid", "off"}
      BY Amounts
    <2>3. source >= Least + OnItsWay
      <3>1. CASE pending.kind = "pay"
        <4>1. source >= Least + OnItsWay + UnpaidNeed
          BY <2>2, <3>1 DEF RefillInv, FundPart
        <4>2. QED
          BY <2>2, <4>1
      <3>2. CASE pending.kind # "pay"
        BY <2>2, <3>2 DEF OnItsWay
      <3>3. QED
        BY <3>1, <3>2
    <2>4. OnItsWay' \in {OnItsWay, 0} /\ source' = source /\ usdc' = usdc
      BY <1>5 DEF OnItsWay
    <2>5. source' >= Least + OnItsWay' + UnpaidNeed'
      <3>1. CASE OnItsWay' = OnItsWay
        BY <2>1, <2>2, <2>3, <2>4, <3>1
      <3>2. CASE OnItsWay' = 0
        BY <2>1, <2>2, <2>4, <3>2
      <3>3. QED
        BY <2>4, <3>1, <3>2
    <2>6. QED
      BY <1>2, <2>2, <2>4, <2>5 DEF RefillInv, FundPart
  <1>9. QED
    BY <1>4, <1>6, <1>7, <1>8 DEF RefillInv

\* A plan is either within what the account can spend, or buys the shortfall.
LEMMA PlanInv == ASSUME RefillInv, Plan PROVE RefillInv'
  <1>1. /\ refill.pc = "plan" /\ pending' = pending /\ UNCHANGED <<xlm, source, usdc>>
        /\ pending = NoPayment /\ pending.kind = "none"
    <2>1. refill.pc = "plan" /\ pending' = pending /\ UNCHANGED <<xlm, source, usdc>>
      BY DEF Plan
    <2>2. pending = NoPayment
      BY <2>1 DEF RefillInv, PendingPart
    <2>3. QED
      BY <2>1, <2>2 DEF NoPayment
  <1>2. CASE refill' = Off
    BY <1>1, <1>2, StopRefill
  <1>r. refill \in [pc: RefillSteps, at: Nat, need: [Keepers -> 0..Target], buy: Nat, max: Nat, execute: BOOLEAN]
    BY DEF RefillInv, RefillPart
  <1>n. PICK need \in [Keepers -> 0..Target] : need = refill.need
    BY <1>r
  <1>t. PICK total \in Nat : total = TotalNeed(need) /\ total = SumFunctionOnSet(need, Keepers)
    <2>1. Keepers \in SUBSET Keepers
      OBVIOUS
    <2>2. QED
      BY <2>1, NeedSums
  <1>u. Unpaid = Keepers /\ UnpaidNeed = total
    BY <1>1, <1>n, <1>t DEF Unpaid, UnpaidNeed
  <1>s. PICK spendable \in Nat : /\ spendable = Spendable
                                 /\ spendable = IF source - Reserve >= 0 THEN source - Reserve ELSE 0
    <2>1. source \in Nat /\ Reserve \in Nat
      BY Amounts, UpkeepBasics
    <2>2. Max({0, source - Reserve}) = IF 0 >= source - Reserve THEN 0 ELSE source - Reserve
      BY <2>1, MaxOfTwo
    <2>3. QED
      BY <2>1, <2>2 DEF Spendable
  <1>f. PICK short \in Nat : /\ short = Shortfall
                             /\ short = IF total - spendable >= 0 THEN total - spendable ELSE 0
    <2>1. Max({0, total - spendable}) = IF 0 >= total - spendable THEN 0 ELSE total - spendable
      BY MaxOfTwo
    <2>2. QED
      BY <1>n, <1>t, <1>s, <2>1 DEF Shortfall
  <1>p. ASSUME NEW step \in {"pay", "swap"}, refill'.pc = step, refill'.need = refill.need,
               refill' \in [pc: RefillSteps, at: Nat, need: [Keepers -> 0..Target], buy: Nat, max: Nat, execute: BOOLEAN],
               step = "pay" => refill'.at = Min(Keepers)
        PROVE  RefillPart' /\ PendingPart' /\ WalletPart' /\ UnpaidNeed' = total
    <2>1. Unpaid' = Keepers
      BY <1>p, Visits DEF Unpaid
    <2>2. UnpaidNeed' = total
      BY <1>p, <1>n, <1>t, <2>1 DEF UnpaidNeed
    <2>3. RefillPart'
      BY <1>p, Visits DEF RefillPart
    <2>4. PendingPart'
      BY <1>1 DEF RefillInv, PendingPart
    <2>5. WalletPart'
      <3>1. \A k \in Keepers : OnItsWayTo(k)' = OnItsWayTo(k)
        BY <1>1 DEF OnItsWayTo
      <3>2. QED
        BY <1>1, <1>p, <1>u, <2>1, <3>1 DEF RefillInv, WalletPart
    <2>6. QED
      BY <2>2, <2>3, <2>4, <2>5
  <1>3. CASE total > 0 /\ short = 0 /\ refill' = [refill EXCEPT !.pc = "pay", !.at = Min(Keepers)]
    <2>1. /\ refill'.pc = "pay" /\ refill'.at = Min(Keepers) /\ refill'.need = refill.need
          /\ refill' \in [pc: RefillSteps, at: Nat, need: [Keepers -> 0..Target], buy: Nat, max: Nat, execute: BOOLEAN]
      <3>1. Min(Keepers) \in Nat /\ "pay" \in RefillSteps
        BY Visits, UpkeepBasics DEF RefillSteps
      <3>2. QED
        BY <1>r, <1>3, <3>1
    <2>2. RefillPart' /\ PendingPart' /\ WalletPart' /\ UnpaidNeed' = total
      BY <1>p, <2>1
    <2>3. source >= Least + total
      BY <1>3, <1>f, <1>s, Amounts, UpkeepBasics
    <2>4. OnItsWay' = 0
      BY <1>1 DEF OnItsWay
    <2>5. source' >= Least + OnItsWay' + UnpaidNeed'
      BY <1>1, <2>2, <2>3, <2>4, Amounts
    <2>6. FundPart'
      BY <1>1, <2>1, <2>5 DEF RefillInv, FundPart
    <2>7. QED
      BY <2>2, <2>6 DEF RefillInv
  <1>4. ASSUME NEW max \in Nat, short > 0,
               refill' = [refill EXCEPT !.pc = "swap", !.buy = short, !.max = max]
        PROVE  RefillInv'
    <2>1. /\ refill'.pc = "swap" /\ refill'.need = refill.need /\ refill'.buy = short
          /\ refill' \in [pc: RefillSteps, at: Nat, need: [Keepers -> 0..Target], buy: Nat, max: Nat, execute: BOOLEAN]
      <3>1. "swap" \in RefillSteps
        BY DEF RefillSteps
      <3>2. QED
        BY <1>r, <1>4, <3>1
    <2>2. RefillPart' /\ PendingPart' /\ WalletPart' /\ UnpaidNeed' = total
      BY <1>p, <2>1
    <2>3. source + short >= Least + total
      BY <1>4, <1>f, <1>s, Amounts, UpkeepBasics
    <2>4. FundPart'
      BY <1>1, <2>1, <2>2, <2>3 DEF RefillInv, FundPart
    <2>5. QED
      BY <2>2, <2>4 DEF RefillInv
  <1>5. \A quote \in Quotes : MaxCost(short * quote) \in Nat
    <2> TAKE quote \in Quotes
    <2>1. PICK quoted \in Nat : quoted = short * quote
      <3>1. quote \in Nat
        BY UpkeepBasics
      <3>2. QED
        BY <3>1
    <2>2. PICK slipped \in Nat : slipped = quoted * Slip
      BY UpkeepBasics
    <2>3. (slipped + 99) \div 100 \in Nat
      OBVIOUS
    <2>4. QED
      BY <2>1, <2>2, <2>3 DEF MaxCost
  <1>6. QED
    BY <1>2, <1>3, <1>4, <1>5, <1>n, <1>t, <1>f DEF Plan

\* The swap is sent for the planned shortfall.
LEMMA SubmitSwapInv == ASSUME RefillInv, SubmitSwap PROVE RefillInv'
  <1>r. refill \in [pc: RefillSteps, at: Nat, need: [Keepers -> 0..Target], buy: Nat, max: Nat, execute: BOOLEAN]
    BY DEF RefillInv, RefillPart
  <1>1. /\ refill.pc = "swap" /\ pending = NoPayment /\ UNCHANGED <<xlm, source, usdc>>
        /\ pending' = [kind |-> "swap", to |-> 0, amount |-> refill.buy, max |-> refill.max]
        /\ refill' = [refill EXCEPT !.pc = "swapping"]
    BY DEF SubmitSwap
  <1>2. /\ pending'.kind = "swap" /\ pending'.amount = refill.buy /\ pending' # NoPayment
        /\ pending' \in [kind: {"none", "swap", "pay"}, to: Nat, amount: Nat, max: Nat]
    BY <1>r, <1>1 DEF NoPayment
  <1>3. /\ refill'.pc = "swapping" /\ refill'.need = refill.need /\ refill'.buy = refill.buy
        /\ refill' \in [pc: RefillSteps, at: Nat, need: [Keepers -> 0..Target], buy: Nat, max: Nat, execute: BOOLEAN]
    <2>1. "swapping" \in RefillSteps
      BY DEF RefillSteps
    <2>2. QED
      BY <1>r, <1>1, <2>1
  <1>4. Unpaid = Keepers /\ Unpaid' = Keepers
    BY <1>1, <1>3 DEF Unpaid
  <1>5. UnpaidNeed' = UnpaidNeed
    BY <1>3, <1>4 DEF UnpaidNeed
  <1>6. RefillPart'
    BY <1>3 DEF RefillPart
  <1>7. PendingPart'
    BY <1>2, <1>3 DEF PendingPart
  <1>8. WalletPart'
    <2>1. \A k \in Keepers : OnItsWayTo(k)' = 0 /\ OnItsWayTo(k) = 0
      BY <1>1, <1>2 DEF OnItsWayTo, NoPayment
    <2>2. QED
      BY <1>1, <1>3, <1>4, <2>1 DEF RefillInv, WalletPart
  <1>9. FundPart'
    BY <1>1, <1>2, <1>3, <1>5 DEF RefillInv, FundPart
  <1>10. QED
    BY <1>6, <1>7, <1>8, <1>9 DEF RefillInv

\* A payment that is sent, or refused because another is pending, is paid no more; one
\* that is replaced never lands.
LEMMA SubmitPaymentInv == ASSUME RefillInv, SubmitPayment PROVE RefillInv'
  <1>r. refill \in [pc: RefillSteps, at: Nat, need: [Keepers -> 0..Target], buy: Nat, max: Nat, execute: BOOLEAN]
    BY DEF RefillInv, RefillPart
  <1>1. refill.pc = "pay" /\ UNCHANGED <<xlm, source, usdc>>
    BY DEF SubmitPayment
  <1>2. PICK k \in Keepers : k = refill.at
    BY <1>1 DEF RefillInv, RefillPart
  <1>3. PICK step \in {"paying", "paid"} :
           /\ refill' = [refill EXCEPT !.pc = step]
           /\ \/ pending' = [kind |-> "pay", to |-> k, amount |-> refill.need[k], max |-> 0]
              \/ pending' = pending
    BY <1>2 DEF SubmitPayment
  <1>4. /\ refill'.pc = step /\ refill'.need = refill.need /\ refill'.at = k
        /\ refill' \in [pc: RefillSteps, at: Nat, need: [Keepers -> 0..Target], buy: Nat, max: Nat, execute: BOOLEAN]
    <2>1. step \in RefillSteps
      BY DEF RefillSteps
    <2>2. QED
      BY <1>r, <1>2, <1>3, <2>1
  <1>5. Unpaid = {j \in Keepers : j >= k} /\ Unpaid' = {j \in Keepers : j > k}
    BY <1>1, <1>2, <1>4 DEF Unpaid
  <1>6. \A j \in Keepers : j \in Nat
    BY UpkeepBasics
  <1>7. UnpaidNeed = refill.need[k] + UnpaidNeed' /\ UnpaidNeed' \in Nat /\ refill.need[k] \in Nat
    <2>1. PICK need \in [Keepers -> 0..Target] : need = refill.need
      BY <1>r
    <2>2. SumFunctionOnSet(need, {j \in Keepers : j >= k}) = need[k] + SumFunctionOnSet(need, {j \in Keepers : j > k})
      BY NeedSums
    <2>3. {j \in Keepers : j > k} \in SUBSET Keepers
      OBVIOUS
    <2>4. SumFunctionOnSet(need, {j \in Keepers : j > k}) \in Nat
      BY <2>3, NeedSums
    <2>5. UnpaidNeed = SumFunctionOnSet(need, {j \in Keepers : j >= k})
      BY <1>5, <2>1 DEF UnpaidNeed
    <2>6. UnpaidNeed' = SumFunctionOnSet(need, {j \in Keepers : j > k})
      BY <1>4, <1>5, <2>1 DEF UnpaidNeed
    <2>7. QED
      BY <2>1, <2>2, <2>4, <2>5, <2>6
  <1>8. RefillPart'
    BY <1>4 DEF RefillPart
  <1>9. k \notin Unpaid' /\ \A j \in Keepers : j \in Unpaid' => j \in Unpaid
    BY <1>5, <1>6
  <1>10. source >= Least + OnItsWay + UnpaidNeed
    BY <1>1 DEF RefillInv, FundPart
  <1>11. CASE pending' = [kind |-> "pay", to |-> k, amount |-> refill.need[k], max |-> 0]
    <2>1. /\ pending'.kind = "pay" /\ pending'.to = k /\ pending'.amount = refill.need[k]
          /\ pending' \in [kind: {"none", "swap", "pay"}, to: Nat, amount: Nat, max: Nat]
      BY <1>6, <1>7, <1>11
    <2>2. PendingPart'
      BY <1>4, <1>9, <2>1 DEF PendingPart
    <2>3. OnItsWay' = refill.need[k]
      BY <2>1 DEF OnItsWay
    <2>4. FundPart'
      <3>1. source' >= Least + OnItsWay' + UnpaidNeed'
        BY <1>1, <1>7, <1>10, <2>3, Amounts
      <3>2. QED
        BY <1>1, <1>4, <3>1 DEF RefillInv, FundPart
    <2>5. WalletPart'
      <3>1. ASSUME NEW j \in Keepers
            PROVE  xlm'[j] + OnItsWayTo(j)' + (IF j \in Unpaid' THEN refill'.need[j] ELSE 0) <= Target
        <4>1. /\ xlm[j] \in Nat /\ OnItsWayTo(j) \in Nat /\ refill.need[j] \in Nat
              /\ xlm[j] + OnItsWayTo(j) + (IF j \in Unpaid THEN refill.need[j] ELSE 0) <= Target
          BY Amounts
        <4>2. xlm'[j] = xlm[j] /\ refill'.need[j] = refill.need[j]
          BY <1>1, <1>4
        <4>3. CASE j = k
          <5>1. OnItsWayTo(j)' = refill.need[j]
            BY <2>1, <4>3 DEF OnItsWayTo
          <5>2. j \in Unpaid /\ j \notin Unpaid'
            BY <1>5, <1>6, <4>3
          <5>3. QED
            BY <4>1, <4>2, <5>1, <5>2, UpkeepBasics
        <4>4. CASE j # k
          <5>1. OnItsWayTo(j)' = 0
            BY <2>1, <4>4 DEF OnItsWayTo
          <5>2. QED
            BY <1>9, <4>1, <4>2, <5>1, UpkeepBasics
        <4>5. QED
          BY <4>3, <4>4
      <3>2. QED
        BY <1>1, <3>1 DEF RefillInv, WalletPart
    <2>6. QED
      BY <1>8, <2>2, <2>4, <2>5 DEF RefillInv
  <1>12. CASE pending' = pending
    <2>1. PendingPart'
      <3>1. pending.kind # "swap"
        BY <1>1 DEF RefillInv, PendingPart
      <3>2. QED
        BY <1>4, <1>9, <1>12, <3>1 DEF RefillInv, PendingPart
    <2>2. OnItsWay' = OnItsWay /\ \A j \in Keepers : OnItsWayTo(j)' = OnItsWayTo(j)
      BY <1>12 DEF OnItsWay, OnItsWayTo
    <2>3. FundPart'
      <3>1. source' >= Least + OnItsWay' + UnpaidNeed'
        BY <1>1, <1>7, <1>10, <2>2, Amounts
      <3>2. QED
        BY <1>1, <1>4, <3>1 DEF RefillInv, FundPart
    <2>4. WalletPart'
      <3>1. ASSUME NEW j \in Keepers
            PROVE  xlm'[j] + OnItsWayTo(j)' + (IF j \in Unpaid' THEN refill'.need[j] ELSE 0) <= Target
        <4>1. /\ xlm[j] \in Nat /\ OnItsWayTo(j) \in Nat /\ refill.need[j] \in Nat
              /\ xlm[j] + OnItsWayTo(j) + (IF j \in Unpaid THEN refill.need[j] ELSE 0) <= Target
          BY Amounts
        <4>2. xlm'[j] = xlm[j] /\ refill'.need[j] = refill.need[j]
          BY <1>1, <1>4
        <4>3. QED
          BY <1>9, <2>2, <4>1, <4>2, UpkeepBasics
      <3>2. QED
        BY <1>1, <3>1 DEF RefillInv, WalletPart
    <2>5. QED
      BY <1>8, <2>1, <2>3, <2>4 DEF RefillInv
  <1>13. QED
    BY <1>3, <1>11, <1>12

\* The refill goes on with the same needs unpaid, or fewer.
LEMMA MoveOn ==
  ASSUME RefillInv, UNCHANGED <<xlm, source, usdc, pending>>,
         refill'.pc \in {"pay", "paid"}, refill'.at \in Keepers, refill'.need = refill.need,
         refill' \in [pc: RefillSteps, at: Nat, need: [Keepers -> 0..Target], buy: Nat, max: Nat, execute: BOOLEAN],
         Unpaid' \subseteq Unpaid, UnpaidNeed' = UnpaidNeed,
         source >= Least + OnItsWay + UnpaidNeed, pending.kind # "swap"
  PROVE  RefillInv'
  <1>1. RefillPart'
    BY DEF RefillPart
  <1>2. PendingPart'
    BY DEF RefillInv, PendingPart
  <1>3. WalletPart'
    <2>1. ASSUME NEW j \in Keepers
          PROVE  xlm'[j] + OnItsWayTo(j)' + (IF j \in Unpaid' THEN refill'.need[j] ELSE 0) <= Target
      <3>1. /\ xlm[j] \in Nat /\ OnItsWayTo(j) \in Nat /\ refill.need[j] \in Nat
            /\ xlm[j] + OnItsWayTo(j) + (IF j \in Unpaid THEN refill.need[j] ELSE 0) <= Target
        BY Amounts
      <3>2. xlm'[j] = xlm[j] /\ refill'.need[j] = refill.need[j] /\ OnItsWayTo(j)' = OnItsWayTo(j)
        BY DEF OnItsWayTo
      <3>3. QED
        BY <3>1, <3>2, UpkeepBasics
    <2>2. QED
      BY <2>1 DEF RefillInv, WalletPart
  <1>4. FundPart'
    <2>1. OnItsWay' = OnItsWay
      BY DEF OnItsWay
    <2>2. source' >= Least + OnItsWay' + UnpaidNeed'
      BY <2>1
    <2>3. QED
      BY <2>2 DEF RefillInv, FundPart
  <1>5. QED
    BY <1>1, <1>2, <1>3, <1>4 DEF RefillInv

\* The loop goes to the next wallet, or ends.
LEMMA PayNextInv == ASSUME RefillInv, PayNext PROVE RefillInv'
  <1>r. refill \in [pc: RefillSteps, at: Nat, need: [Keepers -> 0..Target], buy: Nat, max: Nat, execute: BOOLEAN]
    BY DEF RefillInv, RefillPart
  <1>1. /\ UNCHANGED <<xlm, source, usdc, pending>>
        /\ refill.pc = "paid" \/ (refill.pc = "pay" /\ refill.need[refill.at] = 0)
    BY DEF PayNext
  <1>2. PICK k \in Keepers : k = refill.at
    BY <1>1 DEF RefillInv, RefillPart
  <1>3. CASE NextKeeper(k) = 0
    <2>1. refill' = Off
      BY <1>2, <1>3 DEF PayNext
    <2>2. QED
      BY <1>1, <2>1, StopRefill
  <1>4. CASE NextKeeper(k) # 0
    <2>1. PICK next \in Keepers : next = NextKeeper(k) /\ {j \in Keepers : j >= next} = {j \in Keepers : j > k}
      BY <1>4, Visits
    <2>2. refill' = [refill EXCEPT !.pc = "pay", !.at = next]
      BY <1>2, <1>4, <2>1 DEF PayNext
    <2>3. /\ refill'.pc = "pay" /\ refill'.at = next /\ refill'.need = refill.need
          /\ refill' \in [pc: RefillSteps, at: Nat, need: [Keepers -> 0..Target], buy: Nat, max: Nat, execute: BOOLEAN]
      <3>1. next \in Nat /\ "pay" \in RefillSteps
        BY UpkeepBasics DEF RefillSteps
      <3>2. QED
        BY <1>r, <2>2, <3>1
    <2>4. Unpaid' = {j \in Keepers : j > k}
      BY <2>1, <2>3 DEF Unpaid
    <2>5. Unpaid' \subseteq Unpaid /\ UnpaidNeed' = UnpaidNeed
      <3>1. CASE refill.pc = "paid"
        <4>1. Unpaid = {j \in Keepers : j > k}
          BY <1>2, <3>1 DEF Unpaid
        <4>2. QED
          BY <2>3, <2>4, <4>1 DEF UnpaidNeed
      <3>2. CASE refill.pc = "pay" /\ refill.need[refill.at] = 0
        <4>1. Unpaid = {j \in Keepers : j >= k}
          BY <1>2, <3>2 DEF Unpaid
        <4>2. Unpaid' \subseteq Unpaid
          <5>1. \A j \in Keepers : j > k => j >= k
            BY UpkeepBasics
          <5>2. QED
            BY <2>4, <4>1, <5>1
        <4>3. PICK need \in [Keepers -> 0..Target] : need = refill.need
          BY <1>r
        <4>4. SumFunctionOnSet(need, {j \in Keepers : j >= k})
                = need[k] + SumFunctionOnSet(need, {j \in Keepers : j > k})
          BY NeedSums
        <4>5. {j \in Keepers : j > k} \in SUBSET Keepers
          OBVIOUS
        <4>6. SumFunctionOnSet(need, {j \in Keepers : j > k}) \in Nat
          BY <4>5, NeedSums
        <4>7. SumFunctionOnSet(need, {j \in Keepers : j >= k}) = SumFunctionOnSet(need, {j \in Keepers : j > k})
          BY <1>2, <3>2, <4>3, <4>4, <4>6
        <4>8. UnpaidNeed = SumFunctionOnSet(need, {j \in Keepers : j >= k})
          BY <4>1, <4>3 DEF UnpaidNeed
        <4>9. UnpaidNeed' = SumFunctionOnSet(need, {j \in Keepers : j > k})
          BY <2>3, <2>4, <4>3 DEF UnpaidNeed
        <4>10. QED
          BY <4>2, <4>7, <4>8, <4>9
      <3>3. QED
        BY <1>1, <3>1, <3>2
    <2>6. source >= Least + OnItsWay + UnpaidNeed /\ pending.kind # "swap"
      BY <1>1 DEF RefillInv, FundPart, PendingPart
    <2>7. QED
      BY <1>1, <2>3, <2>5, <2>6, MoveOn
  <1>5. QED
    BY <1>3, <1>4

\* A swap that is over pays from the first wallet on; a payment, the next wallet.
LEMMA SubmitReturnsInv == ASSUME RefillInv, SubmitReturns PROVE RefillInv'
  <1>r. refill \in [pc: RefillSteps, at: Nat, need: [Keepers -> 0..Target], buy: Nat, max: Nat, execute: BOOLEAN]
    BY DEF RefillInv, RefillPart
  <1>1. UNCHANGED <<xlm, source, usdc, pending>>
    BY DEF SubmitReturns
  <1>2. CASE refill' = Off
    BY <1>1, <1>2, StopRefill
  <1>3. CASE refill.pc = "swapping" /\ pending = NoPayment /\ refill' = [refill EXCEPT !.pc = "pay", !.at = Min(Keepers)]
    <2>1. Min(Keepers) \in Keepers /\ (\A j \in Keepers : j >= Min(Keepers)) /\ Min(Keepers) \in Nat
      <3>1. Min(Keepers) \in Keepers /\ \A j \in Keepers : Min(Keepers) <= j
        BY Visits
      <3>2. QED
        BY <3>1, UpkeepBasics
    <2>2. /\ refill'.pc = "pay" /\ refill'.at = Min(Keepers) /\ refill'.need = refill.need
          /\ refill' \in [pc: RefillSteps, at: Nat, need: [Keepers -> 0..Target], buy: Nat, max: Nat, execute: BOOLEAN]
      <3>1. "pay" \in RefillSteps
        BY DEF RefillSteps
      <3>2. QED
        BY <1>r, <1>3, <2>1, <3>1
    <2>3. Unpaid = Keepers /\ Unpaid' = Keepers
      BY <1>3, <2>1, <2>2 DEF Unpaid
    <2>4. UnpaidNeed' = UnpaidNeed
      BY <2>2, <2>3 DEF UnpaidNeed
    <2>5. source >= Least + OnItsWay + UnpaidNeed /\ pending.kind # "swap"
      BY <1>3 DEF RefillInv, FundPart, NoPayment
    <2>6. QED
      BY <1>1, <2>1, <2>2, <2>3, <2>4, <2>5, MoveOn
  <1>4. CASE refill.pc = "paying" /\ refill' = [refill EXCEPT !.pc = "paid"]
    <2>1. /\ refill'.pc = "paid" /\ refill'.at = refill.at /\ refill'.need = refill.need
          /\ refill' \in [pc: RefillSteps, at: Nat, need: [Keepers -> 0..Target], buy: Nat, max: Nat, execute: BOOLEAN]
      <3>1. "paid" \in RefillSteps
        BY DEF RefillSteps
      <3>2. QED
        BY <1>r, <1>4, <3>1
    <2>2. Unpaid' = Unpaid
      BY <1>4, <2>1 DEF Unpaid
    <2>3. UnpaidNeed' = UnpaidNeed
      BY <2>1, <2>2 DEF UnpaidNeed
    <2>4. source >= Least + OnItsWay + UnpaidNeed /\ pending.kind # "swap" /\ refill.at \in Keepers
      BY <1>4 DEF RefillInv, FundPart, PendingPart, RefillPart
    <2>5. QED
      BY <1>1, <2>1, <2>2, <2>3, <2>4, MoveOn
  <1>5. QED
    BY <1>2, <1>3, <1>4 DEF SubmitReturns

\* What lands was accounted for, whether or not its refill is still there.
LEMMA PaymentLandsInv == ASSUME RefillInv, PaymentLands PROVE RefillInv'
  <1>1. pending' = NoPayment /\ refill' = refill
    BY DEF PaymentLands
  <1>2. NoPayment.kind = "none" /\ NoPayment \in [kind: {"none", "swap", "pay"}, to: Nat, amount: Nat, max: Nat]
    BY DEF NoPayment
  <1>3. Unpaid' = Unpaid /\ UnpaidNeed' = UnpaidNeed
    BY <1>1 DEF Unpaid, UnpaidNeed
  <1>4. OnItsWay' = 0 /\ \A k \in Keepers : OnItsWayTo(k)' = 0
    BY <1>1, <1>2 DEF OnItsWay, OnItsWayTo
  <1>5. RefillPart' /\ PendingPart'
    BY <1>1, <1>2 DEF RefillInv, RefillPart, PendingPart
  <1>6. PICK amount \in Nat : amount = pending.amount
    BY DEF RefillInv, PendingPart
  <1>7. CASE pending.kind = "swap"
    <2>1. PICK cost \in 0..pending.max : cost <= usdc /\ usdc' = usdc - cost
      BY <1>7 DEF PaymentLands
    <2>2. source' = source + amount /\ xlm' = xlm /\ usdc' \in Nat
      <3>1. usdc \in Nat /\ pending.max \in Nat
        BY DEF RefillInv, FundPart, PendingPart
      <3>2. QED
        BY <1>6, <1>7, <2>1, <3>1 DEF PaymentLands
    <2>3. WalletPart'
      <3>1. \A k \in Keepers : OnItsWayTo(k) = 0
        BY <1>7 DEF OnItsWayTo
      <3>2. QED
        BY <1>1, <1>3, <1>4, <2>2, <3>1 DEF RefillInv, WalletPart
    <2>4. FundPart'
      <3>1. source \in Nat /\ source >= Least /\ Least \in Nat /\ UnpaidNeed \in Nat
        BY Amounts
      <3>2. CASE refill.pc = "swapping"
        <4>1. amount = refill.buy /\ pending # NoPayment
          BY <1>6, <1>7, <3>2 DEF RefillInv, PendingPart, NoPayment
        <4>2. source + refill.buy >= Least + UnpaidNeed
          BY <3>2, <4>1 DEF RefillInv, FundPart
        <4>3. source' >= Least + OnItsWay' + UnpaidNeed'
          BY <1>3, <1>4, <2>2, <3>1, <4>1, <4>2
        <4>4. QED
          BY <1>1, <2>2, <3>1, <3>2, <4>3 DEF FundPart
      <3>3. CASE refill.pc = "off"
        <4>1. Unpaid = {}
          BY <3>3 DEF Unpaid
        <4>2. UnpaidNeed = 0
          BY <4>1, SumEmpty DEF UnpaidNeed
        <4>3. QED
          BY <1>1, <1>3, <1>4, <2>2, <3>1, <3>3, <4>2 DEF FundPart
      <3>4. QED
        BY <1>7, <3>2, <3>3 DEF RefillInv, PendingPart
    <2>5. QED
      BY <1>5, <2>3, <2>4 DEF RefillInv
  <1>8. CASE pending.kind = "pay"
    <2>1. PICK t \in Keepers : t = pending.to /\ t \notin Unpaid
      BY <1>8 DEF RefillInv, PendingPart
    <2>2. /\ amount <= source /\ source' = source - amount /\ xlm' = [xlm EXCEPT ![t] = @ + amount]
          /\ usdc' = usdc
      BY <1>6, <1>8, <2>1 DEF PaymentLands
    <2>3. WalletPart'
      <3>1. ASSUME NEW k \in Keepers
            PROVE  xlm'[k] \in Nat /\ xlm'[k] + OnItsWayTo(k)' + (IF k \in Unpaid' THEN refill'.need[k] ELSE 0) <= Target
        <4>1. /\ xlm[k] \in Nat /\ OnItsWayTo(k) \in Nat /\ refill.need[k] \in Nat
              /\ xlm[k] + OnItsWayTo(k) + (IF k \in Unpaid THEN refill.need[k] ELSE 0) <= Target
          BY Amounts
        <4>2. xlm'[k] = (IF k = t THEN xlm[k] + amount ELSE xlm[k]) /\ refill'.need[k] = refill.need[k]
          BY <1>1, <2>2 DEF RefillInv, WalletPart
        <4>3. OnItsWayTo(k) = IF k = t THEN amount ELSE 0
          BY <1>6, <1>8, <2>1 DEF OnItsWayTo
        <4>4. QED
          BY <1>3, <1>4, <2>1, <4>1, <4>2, <4>3, UpkeepBasics
      <3>2. xlm' = [k \in Keepers |-> xlm'[k]]
        BY <2>2 DEF RefillInv, WalletPart
      <3>3. xlm' \in [Keepers -> Nat]
        BY <3>1, <3>2
      <3>4. QED
        BY <3>1, <3>3 DEF WalletPart
    <2>4. FundPart'
      <3>1. /\ source \in Nat /\ Least \in Nat /\ UnpaidNeed \in Nat /\ OnItsWay = amount
            /\ refill.pc \in {"pay", "paying", "paid", "off"}
        BY <1>6, <1>8, Amounts DEF OnItsWay
      <3>2. source >= Least + OnItsWay + UnpaidNeed
        BY <3>1 DEF RefillInv, FundPart
      <3>3. source' \in Nat /\ source' >= Least + OnItsWay' + UnpaidNeed' /\ source' >= Least
        BY <1>3, <1>4, <1>6, <2>2, <3>1, <3>2
      <3>4. QED
        BY <1>1, <2>2, <3>1, <3>3 DEF RefillInv, FundPart
    <2>5. QED
      BY <1>5, <2>3, <2>4 DEF RefillInv
  <1>9. QED
    BY <1>7, <1>8 DEF PaymentLands

\* What fails or expires no longer counts.
LEMMA PaymentLostInv == ASSUME RefillInv, PaymentLost PROVE RefillInv'
  <1>1. pending # NoPayment /\ pending' = NoPayment /\ UNCHANGED <<xlm, source, usdc>>
    BY DEF PaymentLost
  <1>2. CASE refill.pc = "swapping"
    BY <1>1, <1>2, StopRefill DEF PaymentLost
  <1>3. CASE refill.pc # "swapping"
    <2>1. refill' = refill
      BY <1>3 DEF PaymentLost
    <2>2. NoPayment.kind = "none" /\ NoPayment \in [kind: {"none", "swap", "pay"}, to: Nat, amount: Nat, max: Nat]
      BY DEF NoPayment
    <2>3. Unpaid' = Unpaid /\ UnpaidNeed' = UnpaidNeed
      BY <2>1 DEF Unpaid, UnpaidNeed
    <2>4. OnItsWay' = 0 /\ \A k \in Keepers : OnItsWayTo(k)' = 0
      BY <1>1, <2>2 DEF OnItsWay, OnItsWayTo
    <2>5. RefillPart' /\ PendingPart'
      BY <1>1, <2>1, <2>2 DEF RefillInv, RefillPart, PendingPart
    <2>6. WalletPart'
      <3>1. ASSUME NEW k \in Keepers
            PROVE  xlm'[k] + OnItsWayTo(k)' + (IF k \in Unpaid' THEN refill'.need[k] ELSE 0) <= Target
        <4>1. /\ xlm[k] \in Nat /\ OnItsWayTo(k) \in Nat /\ refill.need[k] \in Nat
              /\ xlm[k] + OnItsWayTo(k) + (IF k \in Unpaid THEN refill.need[k] ELSE 0) <= Target
          BY Amounts
        <4>2. QED
          BY <1>1, <2>1, <2>3, <2>4, <4>1, UpkeepBasics
      <3>2. QED
        BY <1>1, <3>1 DEF RefillInv, WalletPart
    <2>7. FundPart'
      <3>1. source \in Nat /\ Least \in Nat /\ UnpaidNeed \in Nat /\ OnItsWay \in Nat /\ source >= Least
        BY Amounts
      <3>2. refill.pc # "swap"
        BY <1>1 DEF RefillInv, PendingPart
      <3>3. refill.pc \in {"pay", "paying", "paid", "off"} => source >= Least + OnItsWay + UnpaidNeed
        BY DEF RefillInv, FundPart
      <3>4. refill.pc \in {"pay", "paying", "paid", "off"} => source' >= Least + OnItsWay' + UnpaidNeed'
        BY <1>1, <2>3, <2>4, <3>1, <3>3
      <3>5. QED
        BY <1>1, <1>3, <2>1, <3>2, <3>4 DEF RefillInv, FundPart
    <2>8. QED
      BY <2>5, <2>6, <2>7 DEF RefillInv
  <1>4. QED
    BY <1>2, <1>3

\* A wallet that pays a fee has room for more, and nothing else changes.
LEMMA FeeInv ==
  ASSUME RefillInv, NEW w \in Keepers, xlm[w] > 0, xlm' = [xlm EXCEPT ![w] = @ - 1],
         UNCHANGED <<source, usdc, refill, pending>>
  PROVE  RefillInv'
  <1>1. Unpaid' = Unpaid /\ UnpaidNeed' = UnpaidNeed /\ OnItsWay' = OnItsWay
    BY DEF Unpaid, UnpaidNeed, OnItsWay
  <1>2. RefillPart' /\ PendingPart' /\ FundPart'
    BY <1>1 DEF RefillInv, RefillPart, PendingPart, FundPart
  <1>3. ASSUME NEW k \in Keepers
        PROVE  /\ xlm'[k] \in Nat
               /\ xlm'[k] + OnItsWayTo(k)' + (IF k \in Unpaid' THEN refill'.need[k] ELSE 0) <= Target
    <2>1. /\ xlm[k] \in Nat /\ OnItsWayTo(k) \in Nat /\ refill.need[k] \in Nat
          /\ xlm[k] + OnItsWayTo(k) + (IF k \in Unpaid THEN refill.need[k] ELSE 0) <= Target
      BY Amounts
    <2>2. xlm'[k] = IF k = w THEN xlm[k] - 1 ELSE xlm[k]
      BY DEF RefillInv, WalletPart
    <2>3. OnItsWayTo(k)' = OnItsWayTo(k) /\ refill'.need[k] = refill.need[k]
      BY DEF OnItsWayTo
    <2>4. QED
      BY <1>1, <2>1, <2>2, <2>3, UpkeepBasics
  <1>4. xlm' = [k \in Keepers |-> xlm'[k]]
    BY DEF RefillInv, WalletPart
  <1>5. xlm' \in [Keepers -> Nat]
    BY <1>3, <1>4
  <1>6. QED
    BY <1>2, <1>3, <1>5 DEF RefillInv, WalletPart

\* Every step of the refill keeps its invariant.
LEMMA RefillStepInv == ASSUME RefillInv, RefillStep PROVE RefillInv'
  <1>1. CASE ReadThrows
    BY <1>1, StopRefill DEF ReadThrows
  <1>2. QED
    BY <1>1, StartRefillInv, ReadKeeperInv, PlanInv, SubmitSwapInv, SubmitPaymentInv, PayNextInv,
       SubmitReturnsInv, PaymentLandsInv, PaymentLostInv DEF RefillStep

-----------------------------------------------------------------------------
(* The TTL keeper.                                                         *)

\* A step that leaves the wallets, the refill and the funding account alone.
LEMMA RefillStutters ==
  ASSUME RefillInv, UNCHANGED <<xlm, refillVars>>
  PROVE  RefillInv'
  <1>1. UNCHANGED <<xlm, source, usdc, refill, pending>>
    BY DEF refillVars
  <1>2. Unpaid' = Unpaid /\ UnpaidNeed' = UnpaidNeed /\ OnItsWay' = OnItsWay /\ \A k : OnItsWayTo(k)' = OnItsWayTo(k)
    BY <1>1 DEF Unpaid, UnpaidNeed, OnItsWay, OnItsWayTo
  <1>3. QED
    BY <1>1, <1>2 DEF RefillInv, RefillPart, PendingPart, WalletPart, FundPart

\* A day's run gives every entry below the threshold its full time, or is one
\* more of the few that fail; and an entry loses a day only between two runs.
LEMMA TtlStepInv == ASSUME UpkeepInv, TtlStep PROVE UpkeepInv'
  <1>b. /\ Threshold \in Nat /\ ExtendTo \in Nat /\ MaxMissed \in Nat
        /\ MaxMissed + 2 <= Threshold /\ Threshold < ExtendTo
    BY UpkeepBasics
  <1>t. /\ ttl \in [Entries -> 1..ExtendTo] /\ due \subseteq Entries
        /\ ttlRun \in {"due", "sent", "over"} /\ missed \in 0..MaxMissed /\ missed \in Nat
        /\ \A e \in Entries : ttl[e] \in Nat /\ ttl[e] >= 1 /\ ttl[e] <= ExtendTo
        /\ \A e \in Entries : ttl[e] + missed + (IF ttlRun = "over" THEN 0 ELSE 1) >= Threshold
        /\ ttlRun = "sent" => due = NeedsExtension
    BY <1>b DEF UpkeepInv, TtlPart
  <1>n. \A e \in Entries : e \notin NeedsExtension => ttl[e] >= Threshold
    BY <1>b, <1>t DEF NeedsExtension
  <1>1. CASE TtlHealthy
    <2>1. /\ ttlRun' = "over" /\ missed' = 0 /\ UNCHANGED <<xlm, refillVars>> /\ ttl' = ttl /\ due' = due
          /\ NeedsExtension = {}
      BY <1>1 DEF TtlHealthy
    <2>2. TtlPart'
      BY <1>b, <1>t, <1>n, <2>1 DEF TtlPart
    <2>3. QED
      BY <2>1, <2>2, RefillStutters DEF UpkeepInv
  <1>2. CASE TtlSubmit
    <2>1. /\ ttlRun = "due" /\ ttlRun' = "sent" /\ due' = NeedsExtension /\ UNCHANGED <<xlm, refillVars>>
          /\ ttl' = ttl /\ missed' = missed
      BY <1>2 DEF TtlSubmit
    <2>2. NeedsExtension' = NeedsExtension /\ NeedsExtension \subseteq Entries
      BY <2>1 DEF NeedsExtension
    <2>3. TtlPart'
      BY <1>t, <2>1, <2>2 DEF TtlPart
    <2>4. QED
      BY <2>1, <2>3, RefillStutters DEF UpkeepInv
  <1>3. CASE TtlFails
    <2>1. /\ ttlRun \in {"due", "sent"} /\ missed < MaxMissed /\ ttlRun' = "over" /\ due' = {}
          /\ missed' = missed + 1 /\ UNCHANGED <<xlm, refillVars>> /\ ttl' = ttl
      BY <1>3 DEF TtlFails
    <2>2. missed' \in 0..MaxMissed /\ \A e \in Entries : ttl'[e] + missed' >= Threshold
      BY <1>b, <1>t, <2>1
    <2>3. TtlPart'
      BY <1>t, <2>1, <2>2 DEF TtlPart
    <2>4. QED
      BY <2>1, <2>3, RefillStutters DEF UpkeepInv
  <1>4. CASE TtlExtends
    <2>1. /\ ttlRun = "sent" /\ xlm[TtlWallet] > 0 /\ xlm' = [xlm EXCEPT ![TtlWallet] = @ - 1]
          /\ ttl' = [e \in Entries |-> IF e \in due THEN Max({ttl[e], ExtendTo}) ELSE ttl[e]]
          /\ ttlRun' = "over" /\ due' = {} /\ missed' = 0 /\ UNCHANGED refillVars
      BY <1>4 DEF TtlExtends
    <2>2. ASSUME NEW e \in Entries
          PROVE  ttl'[e] \in 1..ExtendTo /\ ttl'[e] >= Threshold
      <3>1. CASE e \in due
        <4>1. Max({ttl[e], ExtendTo}) = ExtendTo
          BY <1>b, <1>t, MaxOfTwo
        <4>2. ttl'[e] = ExtendTo
          BY <2>1, <3>1, <4>1
        <4>3. QED
          BY <1>b, <4>2
      <3>2. CASE e \notin due
        BY <1>b, <1>t, <1>n, <2>1, <3>2
      <3>3. QED
        BY <3>1, <3>2
    <2>3. ttl' \in [Entries -> 1..ExtendTo]
      BY <2>1, <2>2
    <2>4. TtlPart'
      <3>1. ASSUME NEW e \in Entries
            PROVE  ttl'[e] + missed' + (IF ttlRun' = "over" THEN 0 ELSE 1) >= Threshold
        <4>1. ttl'[e] \in Nat /\ ttl'[e] >= Threshold
          BY <1>b, <2>2
        <4>2. missed' = 0 /\ ttlRun' = "over"
          BY <2>1
        <4>3. QED
          BY <1>b, <4>1, <4>2
      <3>2. missed' \in 0..MaxMissed /\ due' \subseteq Entries /\ ttlRun' = "over"
        BY <1>b, <2>1
      <3>3. QED
        BY <2>3, <3>1, <3>2 DEF TtlPart
    <2>5. RefillInv'
      BY <2>1, FeeInv, UpkeepBasics DEF UpkeepInv, refillVars
    <2>6. QED
      BY <2>4, <2>5 DEF UpkeepInv
  <1>5. CASE DayPasses
    <2>1. /\ ttlRun = "over" /\ ttlRun' = "due" /\ ttl' = [e \in Entries |-> Max({0, ttl[e] - 1})]
          /\ UNCHANGED <<xlm, refillVars>> /\ due' = due /\ missed' = missed
      BY <1>5 DEF DayPasses
    <2>2. ASSUME NEW e \in Entries
          PROVE  ttl'[e] = ttl[e] - 1 /\ ttl'[e] \in 1..ExtendTo
      <3>1. ttl[e] >= 2
        BY <1>b, <1>t, <2>1
      <3>2. Max({0, ttl[e] - 1}) = ttl[e] - 1
        BY <1>t, <3>1, MaxOfTwo
      <3>3. QED
        BY <1>b, <1>t, <2>1, <3>1, <3>2
    <2>3. ttl' \in [Entries -> 1..ExtendTo]
      BY <2>1, <2>2
    <2>4. TtlPart'
      BY <1>t, <2>1, <2>2, <2>3 DEF TtlPart
    <2>5. QED
      BY <2>1, <2>4, RefillStutters DEF UpkeepInv
  <1>6. QED
    BY <1>1, <1>2, <1>3, <1>4, <1>5 DEF TtlStep

-----------------------------------------------------------------------------
\* No step of the refill, of a keeper's service or of the TTL keeper breaks it.
LEMMA UpkeepNextInv == ASSUME UpkeepInv, [UpkeepNext]_upkeepVars PROVE UpkeepInv'
  <1>1. UNCHANGED ttlVars => TtlPart'
    BY DEF ttlVars, UpkeepInv, TtlPart, NeedsExtension
  <1>2. CASE RefillStep
    <2>1. UNCHANGED ttlVars
      BY <1>2 DEF RefillStep, StartRefill, ReadKeeper, ReadThrows, Plan, SubmitSwap, SubmitPayment, PayNext,
                  SubmitReturns, PaymentLands, PaymentLost
    <2>2. QED
      BY <1>1, <1>2, <2>1, RefillStepInv DEF UpkeepInv
  <1>3. CASE \E k \in Keepers : Spend(k)
    <2>1. PICK k \in Keepers : Spend(k)
      BY <1>3
    <2>2. RefillInv'
      BY <2>1, FeeInv DEF UpkeepInv, Spend, refillVars
    <2>3. QED
      BY <1>1, <2>1, <2>2 DEF UpkeepInv, Spend
  <1>4. CASE TtlStep
    BY <1>4, TtlStepInv
  <1>5. CASE UNCHANGED upkeepVars
    BY <1>1, <1>5, RefillStutters DEF upkeepVars, UpkeepInv
  <1>6. QED
    BY <1>2, <1>3, <1>4, <1>5 DEF UpkeepNext

\* In every state, every wallet's balance, what may still land in it and what the
\* running refill will still send fit the target; the funding account covers all
\* of that above its reserve; and every entry outlives the failures it may meet.
THEOREM UpkeepIsSound == UpkeepSpec => []UpkeepInv
  <1>1. UpkeepInit => UpkeepInv
    BY UpkeepInitInv
  <1>2. UpkeepInv /\ [UpkeepNext]_upkeepVars => UpkeepInv'
    BY UpkeepNextInv
  <1>3. QED
    BY <1>1, <1>2, PTL DEF UpkeepSpec

\* keeper-refill.ts never takes the funding account below its reserve (or below
\* what it started with, if that was less) and fills no wallet beyond the target,
\* whatever times out, lands late or is replaced.
THEOREM RefillKeepsBounds == UpkeepSpec => []RefillStaysInBounds
  <1>1. UpkeepInv => RefillStaysInBounds
    <2> SUFFICES ASSUME UpkeepInv PROVE RefillStaysInBounds
      OBVIOUS
    <2>1. UpkeepTypeOK
      <3>1. ttl \in [Entries -> 0..ExtendTo]
        BY UpkeepBasics DEF UpkeepInv, TtlPart
      <3>2. QED
        BY <3>1 DEF UpkeepInv, RefillInv, RefillPart, WalletPart, FundPart, TtlPart, UpkeepTypeOK, RefillSteps
    <2>2. source >= Min({Reserve, SourceXlm})
      BY DEF UpkeepInv, RefillInv, FundPart, Least
    <2>3. \A k \in Keepers : xlm[k] <= Target
      <3>1. RefillInv
        BY DEF UpkeepInv
      <3>2. QED
        BY <3>1, Amounts, UpkeepBasics
    <2>4. QED
      BY <2>1, <2>2, <2>3 DEF RefillStaysInBounds
  <1>2. QED
    BY <1>1, UpkeepIsSound, PTL

\* ttl-keeper.ts archives no entry while no more than MaxMissed runs in a row fail.
THEOREM EntriesStayLive == UpkeepSpec => []NothingArchived
  <1>1. UpkeepInv => NothingArchived
    BY DEF UpkeepInv, TtlPart, NothingArchived
  <1>2. QED
    BY <1>1, UpkeepIsSound, PTL

-----------------------------------------------------------------------------
(* The oracle: the stored prices and the keeper that writes them.          *)

ClockPart ==
    /\ now \in Nat /\ ledger \in Nat /\ ledger <= now /\ now - ledger <= MaxLag /\ now >= BACKDATE
    /\ quiet \in 0..Settle + 1 /\ neededAge \in 0..CHECK_INTERVAL + 1
    /\ lastActiveAt \in Int /\ lastCheck \in Int /\ lastActiveAt <= now /\ lastCheck <= now

WorldPart ==
    /\ listed \in Listings /\ needs \subseteq Signals
    /\ truth \in [Assets -> Prices] /\ movedAge \in [Assets -> 0..MAX_AGE + MaxLag + 1]

KeeperPart ==
    /\ pc \in {"idle", "fetch", "poll"} /\ outcome \in {"none", "pending", "success", "failed"}
    /\ pc = "idle" <=> queue = <<>>
    /\ pc = "poll" <=> sent # NoTx
    /\ lastPublished = [a \in Assets |-> lastPublished[a]]
    /\ \A a \in Assets : lastPublished[a] # NoPublication => lastPublished[a].ts \in 0..now
    /\ \A tx \in pool : tx.publish_time \in Nat

\* A feed that is a quorum's has the admin as its publisher, so that the keeper's
\* and the setup script's transactions cannot write under the quorum's label.
AdapterPart ==
    /\ config = [a \in Assets |-> config[a]] /\ price = [a \in Assets |-> price[a]]
    /\ \A a \in Assets :
          /\ price[a] # NoPrice =>
                /\ price[a].price > 0 /\ price[a].publish_time \in 0..ledger
                /\ price[a].write_time \in price[a].publish_time..ledger
          /\ config[a].source = "Quorum" => config[a].publisher = "admin"
          /\ price[a].source = "Quorum" => price[a].by \in {OracleSources, {"admin"}}

OracleInv == ClockPart /\ WorldPart /\ KeeperPart /\ AdapterPart

\* The constants of the oracle.
LEMMA OracleBasics ==
  /\ BACKDATE \in Nat /\ MaxLag \in Nat /\ Settle \in Nat /\ MAX_AGE \in Nat /\ CHECK_INTERVAL \in Nat
  /\ TX_TIMEOUT \in Nat /\ POLL_TIMEOUT \in Nat /\ Peg \in Prices /\ Prices \subseteq Nat \ {0}
  /\ Listings \subseteq SUBSET Assets /\ {} \notin Listings /\ IsFiniteSet(Assets)
  <1>1. Listings \subseteq SUBSET Assets /\ {} \notin Listings /\ IsFiniteSet(Assets)
    BY OracleConstants DEF Assets
  <1>2. QED
    BY <1>1, OracleConstants

\* The guards of the keeper.
LEMMA GuardBasics ==
  /\ MIN_SOURCES \in Nat /\ MIN_SOURCES >= 2
  /\ MAX_SOURCE_DEVIATION_BPS \in Nat /\ REFLECTOR_DIVERGENCE_HALT_BPS \in Nat /\ DEPEG_HALT_BPS \in Nat
  /\ MAX_SOURCE_DEVIATION_BPS <= REFLECTOR_DIVERGENCE_HALT_BPS /\ DEPEG_HALT_BPS < 10000
  BY OracleConstants

\* A set of answers has a k-th smallest.
LEMMA RankExists ==
  ASSUME NEW S, IsFiniteSet(S), NEW f \in [S -> Nat], NEW k \in 1..Cardinality(S)
  PROVE  /\ Ranked(f, k) \in Range(f)
         /\ Cardinality({v \in S : f[v] < Ranked(f, k)}) < k
         /\ Cardinality({v \in S : f[v] <= Ranked(f, k)}) >= k
  <1>1. Cardinality(S) \in Nat /\ k \in Nat /\ 1 <= k /\ k <= Cardinality(S)
    BY FS_CardinalityType
  <1>2. S # {} /\ DOMAIN f = S /\ Range(f) = {f[v] : v \in S} /\ Range(f) \subseteq Nat
    BY <1>1, FS_EmptySet DEF Range
  <1> DEFINE Upto(x) == {v \in S : f[v] <= x}
             Below(x) == {v \in S : f[v] < x}
  <1>3. \A x : IsFiniteSet(Upto(x)) /\ IsFiniteSet(Below(x)) /\ Cardinality(Upto(x)) \in Nat
    <2>1. \A x : Upto(x) \in SUBSET S /\ Below(x) \in SUBSET S
      OBVIOUS
    <2>2. \A T \in SUBSET S : IsFiniteSet(T)
      BY FS_Subset
    <2>3. QED
      BY <2>1, <2>2, FS_CardinalityType
  <1>4. PICK Good : Good = {x \in Range(f) : Cardinality(Upto(x)) >= k}
    OBVIOUS
  <1>5. \A T \in SUBSET S : T # {} => \E v \in T : \A u \in T : f[u] <= f[v]
    <2>1. ASSUME NEW T \in SUBSET S, T # {}
          PROVE  \E v \in T : \A u \in T : f[u] <= f[v]
      <3>1. PICK J : J = {m \in Nat : \A u \in T : f[u] <= m}
        OBVIOUS
      <3>2. PICK Few : Few = {B \in SUBSET S : \E m \in Nat : \A u \in B : f[u] <= m}
        OBVIOUS
      <3>3. {} \in Few /\ \A B \in SUBSET S : B \in Few => \A x \in S : B \cup {x} \in Few
        <4>1. {} \in Few
          BY <3>2
        <4>2. ASSUME NEW B \in SUBSET S, B \in Few, NEW x \in S
              PROVE  B \cup {x} \in Few
          <5>1. PICK m \in Nat : \A u \in B : f[u] <= m
            BY <3>2, <4>2
          <5>2. \A u \in B \cup {x} : f[u] <= m + f[x] /\ m + f[x] \in Nat
            BY <5>1
          <5>3. QED
            BY <3>2, <5>2
        <4>3. QED
          BY <4>1, <4>2
      <3>4. S \in Few
        BY <3>3, ElementByElement, Zenon
      <3>5. J \subseteq Nat /\ J # {}
        BY <3>1, <3>2, <3>4
      <3>6. PICK m \in J : \A j \in J : m <= j
        BY <3>5, MinOfNaturals
      <3>7. PICK v \in T : f[v] = m
        <4>1. SUFFICES ASSUME \A v \in T : f[v] # m PROVE FALSE
          OBVIOUS
        <4>2. m \in Nat /\ \A u \in T : f[u] \in Nat /\ f[u] <= m
          BY <3>1
        <4>3. \A u \in T : f[u] <= m - 1 /\ m - 1 \in Nat
          BY <4>1, <4>2
        <4>4. m - 1 \in J
          BY <2>1, <3>1, <4>3
        <4>5. QED
          BY <3>6, <4>2, <4>4
      <3>8. QED
        BY <3>1, <3>6, <3>7
    <2>2. QED
      BY <2>1
  <1>6. PICK x \in Good : \A y \in Good : x <= y
    <2>1. PICK v \in S : \A u \in S : f[u] <= f[v]
      BY <1>2, <1>5
    <2>2. Upto(f[v]) = S
      BY <2>1
    <2>3. f[v] \in Good
      BY <1>1, <1>2, <1>4, <2>2
    <2>4. Good \subseteq Nat
      BY <1>2, <1>4
    <2>5. QED
      BY <2>3, <2>4, MinOfNaturals
  <1>7. Cardinality(Below(x)) < k
    <2>1. CASE Below(x) = {}
      BY <1>1, <2>1, FS_EmptySet
    <2>2. CASE Below(x) # {}
      <3>1. Below(x) \in SUBSET S
        OBVIOUS
      <3>2. PICK v \in Below(x) : \A u \in Below(x) : f[u] <= f[v]
        BY <1>5, <2>2, <3>1
      <3>3. v \in S /\ f[v] < x /\ x \in Nat /\ f[v] \in Nat
        BY <1>2, <1>4
      <3>4. Upto(f[v]) = Below(x)
        BY <3>2, <3>3
      <3>5. f[v] \notin Good
        BY <1>6, <3>3
      <3>6. ~(Cardinality(Upto(f[v])) >= k)
        BY <1>2, <1>4, <3>3, <3>5
      <3>7. PICK c : c = Cardinality(Below(x))
        OBVIOUS
      <3>8. c \in Nat /\ ~(c >= k)
        <4>1. Cardinality(Upto(f[v])) \in Nat
          BY <1>3
        <4> HIDE DEF Upto, Below
        <4>2. QED
          BY <3>4, <3>6, <3>7, <4>1
      <3>9. c < k
        BY <1>1, <3>8
      <3>10. QED
        BY <3>7, <3>9
    <2>3. QED
      BY <2>1, <2>2
  <1>8. x \in Range(f) /\ Cardinality(Below(x)) < k /\ Cardinality(Upto(x)) >= k
    BY <1>4, <1>7
  <1> DEFINE Ranks(y) == Cardinality(Below(y)) < k /\ Cardinality(Upto(y)) >= k
  <1>9. Ranked(f, k) = CHOOSE y \in Range(f) : Ranks(y)
    BY <1>2 DEF Ranked
  <1>10. x \in Range(f) /\ Ranks(x)
    BY <1>8
  <1> HIDE DEF Ranks
  <1>11. Ranked(f, k) \in Range(f) /\ Ranks(Ranked(f, k))
    BY <1>9, <1>10, Zenon
  <1>12. QED
    BY <1>11 DEF Ranks

\* When all venues but one say w, only the outermost ranks can be another price,
\* and only on one side of w.
LEMMA RankOfMost ==
  ASSUME NEW S, IsFiniteSet(S), NEW f \in [S -> Nat], NEW w \in Nat, Cardinality(S) >= 2,
         NEW z, \A v \in S \ {z} : f[v] = w
  PROVE  /\ \A k \in 1..Cardinality(S) : /\ Ranked(f, k) \in Nat
                                         /\ Ranked(f, k) < w => k = 1
                                         /\ Ranked(f, k) > w => k = Cardinality(S)
         /\ Ranked(f, 1) = w \/ Ranked(f, Cardinality(S)) = w
  <1> DEFINE n == Cardinality(S)
  <1>1. n \in Nat /\ 1 \in 1..n /\ n \in 1..n
    BY FS_CardinalityType
  <1>2. Cardinality({z}) = 1 /\ IsFiniteSet({z})
    BY FS_Singleton
  <1>3. IsFiniteSet(S \ {z}) /\ Cardinality(S \ {z}) \in Nat /\ Cardinality(S \ {z}) >= n - 1
    BY <1>1, FS_RemoveElement
  <1>4. ASSUME NEW k \in 1..n
        PROVE  /\ Ranked(f, k) \in Nat /\ \E v \in S : f[v] = Ranked(f, k)
               /\ Ranked(f, k) < w => k = 1
               /\ Ranked(f, k) > w => k = n
    <2> DEFINE Upto == {v \in S : f[v] <= Ranked(f, k)}
               Below == {v \in S : f[v] < Ranked(f, k)}
    <2>1. Ranked(f, k) \in Range(f) /\ Cardinality(Below) < k /\ Cardinality(Upto) >= k
      BY RankExists
    <2>2. Ranked(f, k) \in Nat /\ \E v \in S : f[v] = Ranked(f, k)
      BY <2>1 DEF Range
    <2>3. ASSUME Ranked(f, k) < w
          PROVE  k = 1
      <3>1. Upto \in SUBSET {z}
        BY <2>2, <2>3
      <3>2. Cardinality(Upto) <= 1 /\ IsFiniteSet(Upto)
        BY <1>2, <3>1, FS_Subset
      <3>3. Cardinality(Upto) \in Nat
        BY <3>2, FS_CardinalityType
      <3>4. QED
        BY <1>1, <2>1, <3>2, <3>3
    <2>4. ASSUME Ranked(f, k) > w
          PROVE  k = n
      <3>1. S \ {z} \in SUBSET Below /\ Below \in SUBSET S
        BY <2>2, <2>4
      <3>2. IsFiniteSet(Below)
        BY <3>1, FS_Subset
      <3>3. Cardinality(S \ {z}) <= Cardinality(Below) /\ Cardinality(Below) \in Nat
        BY <3>1, <3>2, FS_Subset, FS_CardinalityType
      <3>4. QED
        BY <1>1, <1>3, <2>1, <3>3
    <2>5. QED
      BY <2>2, <2>3, <2>4
  <1>5. Ranked(f, 1) = w \/ Ranked(f, n) = w
    <2>1. SUFFICES ASSUME Ranked(f, 1) # w, Ranked(f, n) # w PROVE FALSE
      OBVIOUS
    <2>2. Ranked(f, 1) < w /\ Ranked(f, n) > w
      BY <1>1, <1>4, <2>1
    <2>3. PICK u \in S, v \in S : f[u] = Ranked(f, 1) /\ f[v] = Ranked(f, n)
      BY <1>1, <1>4
    <2>4. u = z /\ v = z
      BY <2>1, <2>3
    <2>5. QED
      BY <1>1, <1>4, <2>2, <2>3, <2>4
  <1>6. QED
    BY <1>4, <1>5

\* A quotient that is truncated.
LEMMA QuotientUpTo ==
  \A x \in Nat, d \in Nat \ {0}, h \in Nat : (x \div d <= h) <=> (x < (h + 1) * d)
  <1>1. ASSUME NEW x \in Nat, NEW d \in Nat \ {0}, NEW h \in Nat
        PROVE  (x \div d <= h) <=> (x < (h + 1) * d)
    <2>1. PICK q : q = x \div d
      OBVIOUS
    <2>2. q \in Nat /\ d * q <= x /\ x < d * q + d
      BY <2>1
    <2>3. CASE q <= h
      <3>1. d * q <= d * h
        BY <2>2, <2>3
      <3>2. QED
        BY <2>1, <2>2, <2>3, <3>1
    <2>4. CASE q > h
      <3>1. d * q >= d * (h + 1)
        BY <2>2, <2>4
      <3>2. QED
        BY <2>1, <2>2, <2>4, <3>1
    <2>5. QED
      BY <2>2, <2>3, <2>4
  <1>2. QED
    BY <1>1

\* A source's price p and another price w, no further apart than the keeper's
\* sources may be.
Agrees(p, w) ==
    IF p >= w THEN (p - w) * 10000 <= MAX_SOURCE_DEVIATION_BPS * w
    ELSE (w - p) * 10000 <= MAX_SOURCE_DEVIATION_BPS * p

\* What is aggregated is an average of the price w that all venues but one
\* reported with one that agrees with w.
LEMMA OneWrongVenue ==
  ASSUME NEW V, IsFiniteSet(V), NEW answers \in [V -> Prices \cup {Skip}], NEW w \in Prices,
         Cardinality({v \in V : answers[v] \notin {Skip, w}}) <= 1, AggregatePrice(answers) # Skip
  PROVE  \E p \in Nat : AggregatePrice(answers) = (w + p + 1) \div 2 /\ Agrees(p, w)
  <1> DEFINE up == {v \in DOMAIN answers : answers[v] # Skip}
             got == Restrict(answers, up)
             n == Cardinality(DOMAIN got)
             Wrong == {v \in V : answers[v] \notin {Skip, w}}
  <1>1. /\ EnoughSources(n) /\ Within(Ranked(got, n), Ranked(got, 1), MAX_SOURCE_DEVIATION_BPS)
        /\ AggregatePrice(answers) = (IF n % 2 = 1 THEN Ranked(got, (n + 1) \div 2)
                                      ELSE (Ranked(got, n \div 2) + Ranked(got, (n \div 2) + 1) + 1) \div 2)
    BY DEF AggregatePrice
  <1>2. w \in Nat \ {0} /\ Prices \subseteq Nat \ {0}
    BY OracleBasics
  <1>3. DOMAIN got = up /\ up \in SUBSET V /\ got \in [up -> Nat] /\ \A v \in up : got[v] = answers[v]
    <2>1. DOMAIN answers = V /\ got = [v \in up |-> answers[v]]
      BY DEF Restrict
    <2>2. \A v \in up : answers[v] \in Nat
      BY <1>2, <2>1
    <2>3. QED
      BY <2>1, <2>2
  <1>4. IsFiniteSet(up) /\ n \in Nat /\ n = Cardinality(up)
    <2>1. IsFiniteSet(up)
      BY <1>3, FS_Subset
    <2>2. QED
      BY <1>3, <2>1, FS_CardinalityType
  <1>5. n >= 2
    BY <1>1, <1>4, GuardBasics DEF EnoughSources
  <1>6. PICK z : Wrong \subseteq {z}
    <2>1. Wrong \in SUBSET V
      OBVIOUS
    <2>2. IsFiniteSet(Wrong)
      BY <2>1, FS_Subset
    <2>3. Cardinality(Wrong) \in Nat
      BY <2>2, FS_CardinalityType
    <2>4. Cardinality(Wrong) = 0 \/ Cardinality(Wrong) = 1
      BY <2>3
    <2>5. CASE Cardinality(Wrong) = 0
      BY <2>2, <2>5, FS_EmptySet
    <2>6. CASE Cardinality(Wrong) = 1
      BY <2>2, <2>6, FS_Singleton
    <2>7. QED
      BY <2>4, <2>5, <2>6
  <1>7. \A v \in up \ {z} : got[v] = w
    BY <1>3, <1>6
  <1> HIDE DEF up, got, n, Wrong
  <1>8. /\ \A k \in 1..n : /\ Ranked(got, k) \in Nat
                           /\ Ranked(got, k) < w => k = 1
                           /\ Ranked(got, k) > w => k = n
        /\ Ranked(got, 1) = w \/ Ranked(got, n) = w
    BY <1>2, <1>3, <1>4, <1>5, <1>7, RankOfMost
  <1>9. Agrees(w, w) /\ w = (w + w + 1) \div 2
    BY <1>2, GuardBasics DEF Agrees
  <1>10. CASE n = 2
    <2>1. PICK lo, hi : lo = Ranked(got, 1) /\ hi = Ranked(got, n)
      OBVIOUS
    <2>2. lo \in Nat /\ hi \in Nat /\ lo <= w /\ w <= hi /\ (lo = w \/ hi = w)
      BY <1>2, <1>8, <1>10, <2>1
    <2>3. (hi - lo) * 10000 <= MAX_SOURCE_DEVIATION_BPS * lo
      <3>1. Distance(hi, lo) = hi - lo
        BY <2>2 DEF Distance
      <3>2. QED
        BY <1>1, <2>1, <3>1 DEF Within
    <2>4. AggregatePrice(answers) = (lo + hi + 1) \div 2
      BY <1>1, <1>10, <2>1
    <2>5. CASE lo = w
      <3>1. Agrees(hi, w)
        BY <2>2, <2>3, <2>5 DEF Agrees
      <3>2. QED
        BY <2>2, <2>4, <2>5, <3>1
    <2>6. CASE hi = w
      <3>1. Agrees(lo, w)
        BY <1>9, <2>2, <2>3, <2>6 DEF Agrees
      <3>2. AggregatePrice(answers) = (w + lo + 1) \div 2
        BY <1>2, <2>2, <2>4, <2>6
      <3>3. QED
        BY <2>2, <3>1, <3>2
    <2>7. QED
      BY <2>2, <2>5, <2>6
  <1>11. ASSUME n > 2
         PROVE  AggregatePrice(answers) = w
    <2>1. \A k \in 2..n - 1 : Ranked(got, k) = w
      <3>1. ASSUME NEW k \in 2..n - 1 PROVE Ranked(got, k) = w
        <4>1. k \in 1..n /\ k # 1 /\ k # n
          BY <1>4
        <4>2. Ranked(got, k) \in Nat /\ ~(Ranked(got, k) < w) /\ ~(Ranked(got, k) > w)
          BY <1>8, <4>1
        <4>3. QED
          BY <1>2, <4>2
      <3>2. QED
        BY <3>1
    <2>2. CASE n % 2 = 1
      <3>1. (n + 1) \div 2 \in 2..n - 1
        BY <1>4, <1>11
      <3>2. QED
        BY <1>1, <2>1, <2>2, <3>1
    <2>3. CASE n % 2 # 1
      <3>1. n \div 2 \in 2..n - 1 /\ (n \div 2) + 1 \in 2..n - 1
        BY <1>4, <1>11, <2>3
      <3>2. QED
        BY <1>1, <1>9, <2>1, <2>3, <3>1
    <2>4. QED
      BY <2>2, <2>3
  <1>12. QED
    BY <1>2, <1>4, <1>5, <1>9, <1>10, <1>11

\* What the keeper decides to publish for a market is near what it is worth.
LEMMA MarketNearTruth ==
  ASSUME NEW a \in Markets, NEW w \in Prices, NEW r \in Answers(a, w),
         NEW p, p = Decided(a, r[1], r[2]), p # Skip
  PROVE  DivergenceBps(p, w) <= REFLECTOR_DIVERGENCE_HALT_BPS
  <1>4. /\ r[1] \in [Venues -> Prices \cup {Skip}] /\ r[2] \in Prices \cup {Skip}
        /\ Cardinality({v \in Venues : r[1][v] \notin {Skip, w}}) <= 1 \/ r[2] = w
    BY DEF Answers
  <1>5. p = AggregatePrice(r[1]) /\ ReflectorAllows(p, r[2])
    BY DEF Decided
  <1>6. w \in Nat \ {0}
    BY OracleBasics
  <1>7. CASE r[2] = w
    BY <1>5, <1>6, <1>7 DEF ReflectorAllows, Skip
  <1>8. CASE Cardinality({v \in Venues : r[1][v] \notin {Skip, w}}) <= 1
    <2>1. IsFiniteSet(Venues)
      <3>1. IsFiniteSet({"Binance"} \cup {"Coinbase"})
        BY FS_Singleton, FS_AddElement
      <3>2. IsFiniteSet(({"Binance"} \cup {"Coinbase"}) \cup {"Kraken"})
        BY <3>1, FS_AddElement
      <3>3. Venues = ({"Binance"} \cup {"Coinbase"}) \cup {"Kraken"}
        BY DEF Venues
      <3>4. QED
        BY <3>2, <3>3
    <2>2. PICK q \in Nat : p = (w + q + 1) \div 2 /\ Agrees(q, w)
      BY <1>4, <1>5, <1>8, <2>1, OneWrongVenue
    <2>3. p \in Nat /\ Distance(p, w) \in Nat /\ Distance(p, w) <= Distance(q, w) /\ Distance(q, w) \in Nat
      BY <1>6, <2>2 DEF Distance
    <2>4. Distance(q, w) * 10000 <= MAX_SOURCE_DEVIATION_BPS * w
      <3>1. CASE q >= w
        BY <1>6, <2>2, <3>1 DEF Agrees, Distance
      <3>2. CASE q < w
        <4>1. (w - q) * 10000 <= MAX_SOURCE_DEVIATION_BPS * q
          BY <1>6, <2>2, <3>2 DEF Agrees
        <4>2. MAX_SOURCE_DEVIATION_BPS * q <= MAX_SOURCE_DEVIATION_BPS * w
          BY <1>6, <3>2, GuardBasics
        <4>3. Distance(q, w) = w - q
          BY <1>6, <3>2 DEF Distance
        <4>4. QED
          BY <1>6, <4>1, <4>2, <4>3, GuardBasics
      <3>3. QED
        BY <1>6, <3>1, <3>2
    <2>5. MAX_SOURCE_DEVIATION_BPS * w <= REFLECTOR_DIVERGENCE_HALT_BPS * w
      BY <1>6, GuardBasics
    <2>6. Distance(p, w) * 10000 < (REFLECTOR_DIVERGENCE_HALT_BPS + 1) * w
      BY <1>6, <2>3, <2>4, <2>5, GuardBasics
    <2>7. QED
      BY <1>6, <2>3, <2>6, GuardBasics, QuotientUpTo DEF DivergenceBps
  <1>9. QED
    BY <1>4, <1>7, <1>8

\* The keeper publishes nothing for a stablecoin that is worth much more or less
\* than its peg: one wrong venue moves the average by less than the guard's slack.
LEMMA StableNearPeg ==
  ASSUME NEW a \in Stables, NEW w \in Prices, NEW r \in Answers(a, w),
         NEW p, p = Decided(a, r[1], r[2]), p # Skip
  PROVE  DivergenceBps(w, Peg) <= DEPEG_HALT_BPS + MAX_SOURCE_DEVIATION_BPS
  <1>1. a \notin Markets
    BY OracleConstants
  <1> DEFINE two == Venues \ {"Binance"}
             D == MAX_SOURCE_DEVIATION_BPS
             H == DEPEG_HALT_BPS
  <1>4. w \in Nat \ {0} /\ Peg \in Nat \ {0} /\ D \in Nat /\ H \in Nat /\ H < 10000
    BY OracleBasics, GuardBasics
  <1>5. /\ r[1] \in [two -> Prices \cup {Skip}]
        /\ Cardinality({v \in two : r[1][v] \notin {Skip, w}}) <= 1
    BY <1>1, <1>4 DEF Answers, Skip
  <1>6. p = AggregatePrice(r[1]) /\ PegHolds(p)
    BY <1>1 DEF Decided
  <1>7. IsFiniteSet(two)
    <2>1. IsFiniteSet({"Coinbase"} \cup {"Kraken"})
      BY FS_Singleton, FS_AddElement
    <2>2. two = {"Coinbase"} \cup {"Kraken"}
      BY DEF Venues
    <2>3. QED
      BY <2>1, <2>2
  <1>8. PICK q \in Nat : p = (w + q + 1) \div 2 /\ Agrees(q, w)
    BY <1>5, <1>6, <1>7, OneWrongVenue
  <1>9. p \in Nat /\ Distance(p, Peg) \in Nat /\ Distance(w, Peg) \in Nat
    BY <1>4, <1>8 DEF Distance
  <1>10. Distance(p, Peg) * 10000 < (H + 1) * Peg
    BY <1>4, <1>6, <1>9, QuotientUpTo DEF PegHolds, DivergenceBps
  <1> SUFFICES Distance(w, Peg) * 10000 < (H + D + 1) * Peg
    BY <1>4, <1>9, QuotientUpTo DEF DivergenceBps
  <1> HIDE DEF D, H
  <1>a. (H + D + 1) * Peg = (H + 1) * Peg + D * Peg /\ D * Peg \in Nat
    BY <1>4
  <1>11. CASE w >= Peg
    <2>1. CASE p >= w
      BY <1>4, <1>8, <1>9, <1>10, <1>11, <1>a, <2>1 DEF Distance
    <2>2. CASE p < w
      <3>1. q < w /\ q <= p /\ 2 * (w - p) <= w - q
        BY <1>4, <1>8, <2>2
      <3>2. (w - q) * 10000 <= D * q
        BY <1>4, <1>8, <3>1 DEF Agrees, D
      <3>3. p * 10000 < 20000 * Peg
        <4>1. p * 10000 < (H + 1) * Peg + 10000 * Peg
          BY <1>4, <1>9, <1>10 DEF Distance
        <4>2. (H + 1) * Peg <= 10000 * Peg
          BY <1>4
        <4>3. QED
          BY <1>4, <1>8, <4>1, <4>2
      <3>4. q <= 2 * Peg
        BY <1>4, <1>9, <3>1, <3>3
      <3>5. D * q <= D * (2 * Peg) /\ D * (2 * Peg) = 2 * (D * Peg)
        BY <1>4, <3>4
      <3>6. (w - p) * 10000 <= D * Peg
        BY <1>4, <1>8, <1>9, <1>a, <3>1, <3>2, <3>5
      <3>7. (p - Peg) * 10000 < (H + 1) * Peg
        BY <1>4, <1>9, <1>10 DEF Distance
      <3>8. QED
        BY <1>4, <1>9, <1>11, <1>a, <3>6, <3>7 DEF Distance
    <2>3. QED
      BY <1>4, <1>9, <2>1, <2>2
  <1>12. CASE w < Peg
    <2>1. CASE p <= w
      BY <1>4, <1>8, <1>9, <1>10, <1>12, <1>a, <2>1 DEF Distance
    <2>2. CASE p > w
      <3>1. q > w /\ p <= q
        BY <1>4, <1>8, <2>2
      <3>2. (q - w) * 10000 <= D * w
        BY <1>4, <1>8, <3>1 DEF Agrees, D
      <3>3. D * w <= D * Peg
        BY <1>4, <1>12
      <3>4. (p - w) * 10000 <= D * Peg
        BY <1>4, <1>8, <1>9, <1>a, <3>1, <3>2, <3>3
      <3>5. (Peg - p) * 10000 < (H + 1) * Peg
        BY <1>4, <1>9, <1>10 DEF Distance
      <3>6. QED
        BY <1>4, <1>9, <1>12, <1>a, <3>4, <3>5 DEF Distance
    <2>3. QED
      BY <1>4, <1>9, <2>1, <2>2
  <1>13. QED
    BY <1>4, <1>11, <1>12

\* A finite set in a sequence is as long as the set is large.
LEMMA SequenceOfSet ==
  ASSUME NEW S, IsFiniteSet(S)
  PROVE  SetToSeq(S) \in Seq(S) /\ Len(SetToSeq(S)) = Cardinality(S) /\ Cardinality(S) \in Nat
  <1>1. Cardinality(S) \in Nat /\ ExistsBijection(1..Cardinality(S), S)
    BY FS_CardinalityType
  <1>2. PICK g \in Bijection(1..Cardinality(S), S) : TRUE
    BY <1>1 DEF ExistsBijection
  <1>3. g \in [1..Cardinality(S) -> S] /\ IsInjective(g)
    BY <1>2 DEF Bijection, Injection, IsInjective
  <1>4. SetToSeq(S) \in [1..Cardinality(S) -> S]
    BY <1>3 DEF SetToSeq
  <1>5. QED
    BY <1>1, <1>4

\* A tick has something to visit.
LEMMA TickVisits == listed \in Listings => TickOrder # <<>>
  <1> SUFFICES ASSUME listed \in Listings PROVE TickOrder # <<>>
    OBVIOUS
  <1>1. listed \subseteq Assets /\ listed # {} /\ IsFiniteSet(listed)
    <2>1. listed \subseteq Assets /\ listed # {}
      BY OracleBasics
    <2>2. QED
      BY <2>1, OracleBasics, FS_Subset
  <1> DEFINE markets == SetToSeq(listed \cap Markets)
             stables == SetToSeq(listed \cap Stables)
  <1>2. IsFiniteSet(listed \cap Markets) /\ IsFiniteSet(listed \cap Stables)
    BY <1>1, FS_Subset
  <1>3. markets \in Seq(listed \cap Markets) /\ Len(markets) = Cardinality(listed \cap Markets)
    BY <1>2, SequenceOfSet
  <1>4. stables \in Seq(listed \cap Stables) /\ Len(stables) = Cardinality(listed \cap Stables)
    BY <1>2, SequenceOfSet
  <1>5. Cardinality(listed \cap Markets) # 0 \/ Cardinality(listed \cap Stables) # 0
    <2>1. listed \cap Markets # {} \/ listed \cap Stables # {}
      BY <1>1 DEF Assets
    <2>2. QED
      BY <1>2, <2>1, FS_EmptySet
  <1> HIDE DEF markets, stables
  <1>6. markets \in Seq(Assets) /\ stables \in Seq(Assets)
    BY <1>1, <1>3, <1>4 DEF Assets
  <1>7. Len(markets \o stables) = Len(markets) + Len(stables) /\ Len(markets) \in Nat /\ Len(stables) \in Nat
    BY <1>6
  <1>8. Len(<<>>) = 0
    OBVIOUS
  <1>9. markets \o stables # <<>>
    BY <1>3, <1>4, <1>5, <1>7, <1>8
  <1>10. QED
    BY <1>9 DEF TickOrder, markets, stables

\* What a step leaves alone.
LEMMA OracleFrames ==
  ASSUME OracleInv
  PROVE  /\ (UNCHANGED <<now, ledger, neededAge, lastActiveAt, lastCheck>> /\ quiet' \in {quiet, 0}) => ClockPart'
         /\ UNCHANGED <<listed, needs, truth, movedAge>> => WorldPart'
         /\ UNCHANGED <<config, price, ledger>> => AdapterPart'
         /\ UNCHANGED <<pc, outcome, queue, sent, lastPublished, pool, now>> => KeeperPart'
  <1>1. (UNCHANGED <<now, ledger, neededAge, lastActiveAt, lastCheck>> /\ quiet' \in {quiet, 0}) => ClockPart'
    BY OracleBasics DEF OracleInv, ClockPart
  <1>2. UNCHANGED <<listed, needs, truth, movedAge>> => WorldPart'
    BY DEF OracleInv, WorldPart
  <1>3. UNCHANGED <<config, price, ledger>> => AdapterPart'
    BY DEF OracleInv, AdapterPart
  <1>4. UNCHANGED <<pc, outcome, queue, sent, lastPublished, pool, now>> => KeeperPart'
    BY DEF OracleInv, KeeperPart
  <1>5. QED
    BY <1>1, <1>2, <1>3, <1>4

\* A write the adapter accepts.
LEMMA StoreInv ==
  ASSUME OracleInv, NEW a, NEW by, NEW p, NEW t \in Nat, NEW worth,
         p > 0, t <= ledger, a \in Assets /\ config[a].source = "Quorum" => by \in {OracleSources, {"admin"}},
         price' = [price EXCEPT ![a] = Snapshot(a, by, p, t, worth)], UNCHANGED <<config, ledger>>
  PROVE  AdapterPart'
  <1>1. PICK s : s = Snapshot(a, by, p, t, worth)
    OBVIOUS
  <1>2. s.price = p /\ s.source = config[a].source /\ s.publish_time = t /\ s.write_time = ledger /\ s.by = by
    BY <1>1 DEF Snapshot
  <1>3. price' = [price EXCEPT ![a] = s] /\ price = [x \in Assets |-> price[x]]
    BY <1>1 DEF OracleInv, AdapterPart
  <1>4. \A x \in Assets : price'[x] = IF x = a THEN s ELSE price[x]
    BY <1>3
  <1>5. price' = [x \in Assets |-> price'[x]]
    BY <1>3
  <1>6. ASSUME NEW x \in Assets
        PROVE  /\ price'[x] # NoPrice =>
                    /\ price'[x].price > 0 /\ price'[x].publish_time \in 0..ledger'
                    /\ price'[x].write_time \in price'[x].publish_time..ledger'
               /\ config'[x].source = "Quorum" => config'[x].publisher = "admin"
               /\ price'[x].source = "Quorum" => price'[x].by \in {OracleSources, {"admin"}}
    <2>1. ledger \in Nat
      BY DEF OracleInv, ClockPart
    <2>2. CASE x = a
      <3>1. price'[x] = s
        BY <1>4, <2>2
      <3>2. QED
        BY <1>2, <2>1, <2>2, <3>1 DEF OracleInv, AdapterPart
    <2>3. CASE x # a
      <3>1. price'[x] = price[x]
        BY <1>4, <2>3
      <3>2. QED
        BY <3>1 DEF OracleInv, AdapterPart
    <2>4. QED
      BY <2>2, <2>3
  <1>7. QED
    BY <1>5, <1>6 DEF OracleInv, AdapterPart

\* What WriteAccepted says of the price and of who may write it.
LEMMA AcceptedWrite ==
  ASSUME OracleInv, NEW a, NEW publisher, NEW p, NEW t, NEW at, WriteAccepted(a, publisher, p, t, at)
  PROVE  /\ p > 0 /\ t <= at /\ config[a].publisher = publisher
         /\ price[a] # NoPrice => t > price[a].publish_time
         /\ a \in Assets /\ config[a].source = "Quorum" => publisher = "admin"
  <1>1. PICK s : s = [NoPrice EXCEPT !.price = p, !.publish_time = t, !.write_time = at]
    OBVIOUS
  <1>2. s.price = p /\ s.publish_time = t
    BY <1>1 DEF NoPrice
  <1>3. Valid(s, at)
    BY <1>1 DEF WriteAccepted
  <1>4. p > 0 /\ t <= at
    BY <1>2, <1>3 DEF Valid
  <1>5. config[a].publisher = publisher /\ (price[a] # NoPrice => t > price[a].publish_time)
    BY DEF WriteAccepted, Monotonic
  <1>6. QED
    BY <1>4, <1>5 DEF OracleInv, AdapterPart

\* The keeper goes on to the next asset, whatever it confirmed.
LEMMA NextAssetInv ==
  ASSUME OracleInv, NextAsset, sent' = NoTx, outcome' \in {"none", outcome}, UNCHANGED <<pool, now>>,
         NEW x, NEW r, r.ts = now, lastPublished' \in {lastPublished, [lastPublished EXCEPT ![x] = r]}
  PROVE  KeeperPart'
  <1>1. pc' = (IF queue' = <<>> THEN "idle" ELSE "fetch") /\ outcome' \in {"none", "pending", "success", "failed"}
    BY DEF NextAsset, OracleInv, KeeperPart
  <1>2. pc' \in {"idle", "fetch", "poll"} /\ (pc' = "idle" <=> queue' = <<>>) /\ (pc' = "poll" <=> sent' # NoTx)
    BY <1>1
  <1>3. lastPublished' = [a \in Assets |-> lastPublished'[a]]
    BY DEF OracleInv, KeeperPart
  <1>4. ASSUME NEW a \in Assets, lastPublished'[a] # NoPublication
        PROVE  lastPublished'[a].ts \in 0..now'
    <2>1. lastPublished'[a] = lastPublished[a] \/ lastPublished'[a] = r
      BY DEF OracleInv, KeeperPart
    <2>2. now \in Nat /\ (lastPublished[a] # NoPublication => lastPublished[a].ts \in 0..now)
      BY DEF OracleInv, KeeperPart, ClockPart
    <2>3. QED
      BY <1>4, <2>1, <2>2
  <1>5. \A tx \in pool' : tx.publish_time \in Nat
    BY DEF OracleInv, KeeperPart
  <1>6. QED
    BY <1>1, <1>2, <1>3, <1>4, <1>5 DEF KeeperPart

\* A tick starts, or finds that no price is needed.
LEMMA StartTickInv == ASSUME OracleInv, NEW fails \in BOOLEAN, StartTick(fails) PROVE OracleInv'
  <1> DEFINE check == now - lastCheck >= CHECK_INTERVAL
             active == check /\ (ProtocolActive \/ fails)
             needed == now - (IF active THEN now ELSE lastActiveAt) < IDLE_GRACE
  <1>1. /\ lastCheck' = (IF check THEN now ELSE lastCheck)
        /\ lastActiveAt' = (IF active THEN now ELSE lastActiveAt)
        /\ pc = "idle" /\ pc' = (IF needed THEN "fetch" ELSE "idle")
        /\ queue' = (IF needed THEN TickOrder ELSE <<>>)
        /\ UNCHANGED <<now, ledger, worldVars, chainVars, lastPublished, txVars, quiet>>
    BY DEF StartTick
  <1> HIDE DEF check, active, needed
  <1>2. UNCHANGED <<listed, truth, movedAge, needs, neededAge, config, price, sent, outcome, pool>>
    BY <1>1 DEF worldVars, chainVars, txVars
  <1>3. ClockPart'
    BY <1>1, <1>2 DEF OracleInv, ClockPart
  <1>4. TickOrder # <<>>
    BY TickVisits DEF OracleInv, WorldPart
  <1>5. KeeperPart'
    <2>1. sent = NoTx
      BY <1>1 DEF OracleInv, KeeperPart
    <2>2. pc' \in {"idle", "fetch", "poll"} /\ (pc' = "idle" <=> queue' = <<>>) /\ (pc' = "poll" <=> sent' # NoTx)
      BY <1>1, <1>2, <1>4, <2>1
    <2>3. QED
      BY <1>1, <1>2, <2>2 DEF OracleInv, KeeperPart
  <1>6. QED
    BY <1>1, <1>2, <1>3, <1>5, OracleFrames DEF OracleInv

\* The keeper deals with one asset.
LEMMA VisitInv ==
  ASSUME OracleInv, NEW a, NEW p, SkipAsset(a, p) \/ SendPrice(a, p) \/ SendFails(a, p)
  PROVE  OracleInv'
  <1>1. CASE SkipAsset(a, p) \/ SendFails(a, p)
    <2>1. /\ pc = "fetch" /\ NextAsset /\ quiet' \in {quiet, 0}
          /\ UNCHANGED <<now, ledger, worldVars, chainVars, lastPublished, lastCheck, lastActiveAt, txVars>>
      BY <1>1 DEF SkipAsset, SendFails
    <2>2. UNCHANGED <<listed, truth, movedAge, needs, neededAge, config, price, sent, outcome, pool>>
      BY <2>1 DEF worldVars, chainVars, txVars
    <2>3. sent' = NoTx
      BY <2>1, <2>2 DEF OracleInv, KeeperPart
    <2>4. KeeperPart'
      <3>1. PICK r : r = [price |-> 0, ts |-> now]
        OBVIOUS
      <3>2. r.ts = now
        BY <3>1
      <3>3. QED
        BY <2>1, <2>2, <2>3, <3>2, NextAssetInv
    <2>5. QED
      BY <2>1, <2>2, <2>4, OracleFrames DEF OracleInv
  <1>2. CASE SendPrice(a, p)
    <2>1. PICK tx : tx = [asset |-> a, price |-> p, publish_time |-> LedgerSafePublishTime,
                          worth |-> truth[a], bound |-> now + TX_TIMEOUT]
      OBVIOUS
    <2>2. /\ pc = "fetch" /\ p # Skip /\ sent' = tx /\ pool' = pool \cup {tx} /\ outcome' = "pending"
          /\ pc' = "poll" /\ queue' = queue
          /\ UNCHANGED <<now, ledger, worldVars, chainVars, lastPublished, lastCheck, lastActiveAt, quiet>>
      BY <1>2, <2>1 DEF SendPrice
    <2>3. UNCHANGED <<listed, truth, movedAge, needs, neededAge, config, price>>
      BY <2>2 DEF worldVars, chainVars
    <2>4. tx # NoTx
      <3>1. tx.price = p /\ NoTx.price = 0
        BY <2>1 DEF NoTx
      <3>2. QED
        BY <2>2, <3>1 DEF Skip
    <2>5. tx.publish_time \in Nat
      <3>1. now \in Nat /\ BACKDATE \in Nat /\ now >= BACKDATE
        BY OracleBasics DEF OracleInv, ClockPart
      <3>2. QED
        BY <2>1, <3>1 DEF LedgerSafePublishTime
    <2>6. KeeperPart'
      BY <2>2, <2>4, <2>5 DEF OracleInv, KeeperPart
    <2>7. QED
      BY <2>2, <2>3, <2>6, OracleFrames DEF OracleInv
  <1>3. QED
    BY <1>1, <1>2

\* A step of the keeper.
LEMMA KeeperStepInv == ASSUME OracleInv, KeeperStep PROVE OracleInv'
  <1>1. CASE \E fails \in BOOLEAN : StartTick(fails)
    BY <1>1, StartTickInv
  <1>2. CASE \E a \in listed : \E p \in Decisions[a][truth[a]] :
                 SkipAsset(a, p) \/ SendPrice(a, p) \/ SendFails(a, p)
    BY <1>2, VisitInv, Zenon
  <1>3. CASE GiveUp
    <2>1. /\ NextAsset /\ quiet' = 0 /\ sent' = NoTx /\ outcome' = "none"
          /\ UNCHANGED <<now, ledger, worldVars, chainVars, lastPublished, lastCheck, lastActiveAt, pool>>
      BY <1>3 DEF GiveUp
    <2>2. UNCHANGED <<listed, truth, movedAge, needs, neededAge, config, price>>
      BY <2>1 DEF worldVars, chainVars
    <2>3. KeeperPart'
      <3>1. PICK r : r = [price |-> 0, ts |-> now]
        OBVIOUS
      <3>2. r.ts = now
        BY <3>1
      <3>3. QED
        BY <2>1, <2>2, <3>2, NextAssetInv
    <2>4. QED
      BY <2>1, <2>2, <2>3, OracleFrames DEF OracleInv
  <1>4. CASE Confirm
    <2>1. PICK r : r = [price |-> sent.price, ts |-> now]
      OBVIOUS
    <2>2. /\ NextAsset /\ sent' = NoTx /\ outcome' = "none" /\ r.ts = now
          /\ lastPublished' = [lastPublished EXCEPT ![sent.asset] = r]
          /\ UNCHANGED <<now, ledger, worldVars, chainVars, lastCheck, lastActiveAt, pool, quiet>>
      BY <1>4, <2>1 DEF Confirm
    <2>3. UNCHANGED <<listed, truth, movedAge, needs, neededAge, config, price>>
      BY <2>2 DEF worldVars, chainVars
    <2>4. KeeperPart'
      <3>1. PICK x : x = sent.asset
        OBVIOUS
      <3>2. QED
        BY <2>2, <2>3, <3>1, NextAssetInv
    <2>5. QED
      BY <2>2, <2>3, <2>4, OracleFrames DEF OracleInv
  <1>5. CASE Crash
    <2>1. /\ pc' = "idle" /\ queue' = <<>> /\ lastPublished' = [a \in Assets |-> NoPublication]
          /\ lastCheck' = now - CHECK_INTERVAL /\ lastActiveAt' = now /\ sent' = NoTx /\ outcome' = "none"
          /\ quiet' = 0 /\ UNCHANGED <<now, ledger, worldVars, chainVars, pool>>
      BY <1>5 DEF Crash
    <2>2. UNCHANGED <<listed, truth, movedAge, needs, neededAge, config, price>>
      BY <2>1 DEF worldVars, chainVars
    <2>3. ClockPart'
      BY <2>1, <2>2, OracleBasics DEF OracleInv, ClockPart
    <2>4. KeeperPart'
      BY <2>1 DEF OracleInv, KeeperPart
    <2>5. QED
      BY <2>1, <2>2, <2>3, <2>4, OracleFrames DEF OracleInv
  <1>6. QED
    BY <1>1, <1>2, <1>3, <1>4, <1>5, Zenon DEF KeeperStep

\* One write of a price: newer than what it replaces, and by whom its label says.
PriceWrite(a, by, p, t, worth) ==
    /\ p > 0 /\ t \in Nat /\ t <= ledger
    /\ price[a] # NoPrice => t > price[a].publish_time
    /\ (a \in Assets /\ config[a].source = "Quorum") => by \in {OracleSources, {"admin"}}
    /\ price' = [price EXCEPT ![a] = Snapshot(a, by, p, t, worth)]
    /\ UNCHANGED <<config, ledger>>

\* The four ways to store a price.
LEMMA WritersInv ==
  ASSUME OracleInv
  PROVE  /\ \A a \in Assets : SeedPrice(a) => PriceWrite(a, {"setup"}, Peg, now, truth[a])
         /\ \A a \in Assets, p \in Prices : AdminWrite(a, p) => PriceWrite(a, {"admin"}, p, ledger, truth[a])
         /\ \A a \in Assets : \A p : WriteQuorumPrice(a, p, ledger) => PriceWrite(a, OracleSources, p, ledger, truth[a])
         /\ \A tx \in pool : Include(tx) =>
               \/ UNCHANGED <<price, config, ledger>>
               \/ PriceWrite(tx.asset, {"keeper"}, tx.price, tx.publish_time, tx.worth)
  <1>0. now \in Nat /\ ledger \in Nat
    BY DEF OracleInv, ClockPart
  <1>1. ASSUME NEW a \in Assets, SeedPrice(a)
        PROVE  PriceWrite(a, {"setup"}, Peg, now, truth[a])
    <2>1. /\ WriteAccepted(a, "keeper", Peg, now, ledger)
          /\ price' = [price EXCEPT ![a] = Snapshot(a, {"setup"}, Peg, now, truth[a])]
          /\ UNCHANGED <<config, ledger>>
      BY <1>1 DEF SeedPrice
    <2>2. QED
      BY <1>0, <2>1, AcceptedWrite DEF PriceWrite
  <1>2. ASSUME NEW a \in Assets, NEW p \in Prices, AdminWrite(a, p)
        PROVE  PriceWrite(a, {"admin"}, p, ledger, truth[a])
    <2>1. /\ WriteAccepted(a, "admin", p, ledger, ledger)
          /\ price' = [price EXCEPT ![a] = Snapshot(a, {"admin"}, p, ledger, truth[a])]
          /\ UNCHANGED <<config, ledger>>
      BY <1>2 DEF AdminWrite
    <2>2. QED
      BY <1>0, <2>1, AcceptedWrite DEF PriceWrite
  <1>3. ASSUME NEW a \in Assets, NEW p, WriteQuorumPrice(a, p, ledger)
        PROVE  PriceWrite(a, OracleSources, p, ledger, truth[a])
    <2>1. PICK s : s = [NoPrice EXCEPT !.price = p, !.publish_time = ledger, !.write_time = ledger]
      OBVIOUS
    <2>2. /\ Valid(s, ledger) /\ Monotonic(a, ledger)
          /\ price' = [price EXCEPT ![a] = Snapshot(a, OracleSources, p, ledger, truth[a])]
          /\ UNCHANGED <<config, ledger>>
      BY <1>3, <2>1 DEF WriteQuorumPrice
    <2>3. s.price = p
      BY <2>1 DEF NoPrice
    <2>4. QED
      BY <1>0, <2>2, <2>3 DEF PriceWrite, Valid, Monotonic
  <1>4. ASSUME NEW tx \in pool, Include(tx)
        PROVE  \/ UNCHANGED <<price, config, ledger>>
               \/ PriceWrite(tx.asset, {"keeper"}, tx.price, tx.publish_time, tx.worth)
    <2>1. UNCHANGED <<config, ledger>> /\ tx.publish_time \in Nat
      BY <1>4 DEF Include, OracleInv, KeeperPart
    <2>2. CASE WriteAccepted(tx.asset, "keeper", tx.price, tx.publish_time, ledger)
      <3>1. price' = [price EXCEPT ![tx.asset] =
                         Snapshot(tx.asset, {"keeper"}, tx.price, tx.publish_time, tx.worth)]
        BY <1>4, <2>2 DEF Include
      <3>2. /\ tx.price > 0 /\ tx.publish_time <= ledger
            /\ price[tx.asset] # NoPrice => tx.publish_time > price[tx.asset].publish_time
            /\ ~(tx.asset \in Assets /\ config[tx.asset].source = "Quorum")
        BY <2>2, AcceptedWrite
      <3>3. QED
        BY <2>1, <3>1, <3>2 DEF PriceWrite
    <2>3. CASE ~WriteAccepted(tx.asset, "keeper", tx.price, tx.publish_time, ledger)
      BY <1>4, <2>1, <2>3 DEF Include
    <2>4. QED
      BY <2>2, <2>3
  <1>5. QED
    BY <1>1, <1>2, <1>3, <1>4

\* A write is all an action of the admin or the network does to what is stored.
LEMMA PriceWriteInv ==
  ASSUME OracleInv, NEW a, NEW by, NEW p, NEW t, NEW worth, PriceWrite(a, by, p, t, worth)
  PROVE  AdapterPart'
  BY StoreInv DEF PriceWrite

\* A step of the admin, of a script or of a quorum's publishers.
LEMMA AdminStepInv == ASSUME OracleInv, AdminStep PROVE OracleInv'
  <1>1. PICK a \in listed :
           \/ \E active \in BOOLEAN, p \in {"keeper", "other"} : SetFeed(a, p, active)
           \/ SetQuorumFeed(a) \/ UpdateOraclePublisher(a, "other")
           \/ SetupUsdcFeed(a) \/ SeedPrice(a)
           \/ \E p \in Prices : AdminWrite(a, p)
           \/ \E p \in QuorumPrices : WriteQuorumPrice(a, p, ledger)
    BY DEF AdminStep
  <1>2. a \in Assets
    BY OracleBasics DEF OracleInv, WorldPart
  <1>3. ASSUME NEW publisher, NEW active, SetFeed(a, publisher, active)
        PROVE  OracleInv'
    <2>1. PICK feed : feed = [publisher |-> publisher, source |-> "RedStone", active |-> active]
      OBVIOUS
    <2>2. /\ config' = [config EXCEPT ![a] = feed] /\ quiet' = 0
          /\ UNCHANGED <<now, ledger, worldVars, price, keeperVars, txVars>>
      BY <1>3, <2>1 DEF SetFeed
    <2>3. UNCHANGED <<listed, truth, movedAge, needs, neededAge, pc, queue, lastPublished, lastCheck, lastActiveAt,
                      sent, outcome, pool>>
      BY <2>2 DEF worldVars, keeperVars, txVars
    <2>4. feed.source # "Quorum"
      BY <2>1
    <2>5. AdapterPart'
      BY <2>2, <2>4 DEF OracleInv, AdapterPart
    <2>6. QED
      BY <2>2, <2>3, <2>5, OracleFrames DEF OracleInv
  <1>4. CASE SetQuorumFeed(a)
    <2>1. PICK feed : feed = [publisher |-> "admin", source |-> "Quorum", active |-> TRUE]
      OBVIOUS
    <2>2. /\ config' = [config EXCEPT ![a] = feed] /\ quiet' = 0
          /\ UNCHANGED <<now, ledger, worldVars, price, keeperVars, txVars>>
      BY <1>4, <2>1 DEF SetQuorumFeed
    <2>3. UNCHANGED <<listed, truth, movedAge, needs, neededAge, pc, queue, lastPublished, lastCheck, lastActiveAt,
                      sent, outcome, pool>>
      BY <2>2 DEF worldVars, keeperVars, txVars
    <2>4. feed.publisher = "admin"
      BY <2>1
    <2>5. AdapterPart'
      BY <2>2, <2>4 DEF OracleInv, AdapterPart
    <2>6. QED
      BY <2>2, <2>3, <2>5, OracleFrames DEF OracleInv
  <1>5. CASE UpdateOraclePublisher(a, "other")
    <2>1. UNCHANGED <<now, ledger, worldVars, config, price, keeperVars, txVars, quiet>>
      BY <1>5 DEF UpdateOraclePublisher
    <2>2. UNCHANGED <<listed, truth, movedAge, needs, neededAge, pc, queue, lastPublished, lastCheck, lastActiveAt,
                      sent, outcome, pool>>
      BY <2>1 DEF worldVars, keeperVars, txVars
    <2>3. QED
      BY <2>1, <2>2, OracleFrames DEF OracleInv
  <1>6. CASE SetupUsdcFeed(a)
    BY <1>3, <1>6 DEF SetupUsdcFeed
  <1>7. CASE \/ SeedPrice(a) \/ \E p \in Prices : AdminWrite(a, p)
             \/ \E p \in QuorumPrices : WriteQuorumPrice(a, p, ledger)
    <2>1. UNCHANGED <<now, ledger, worldVars, config, keeperVars, txVars, quiet>>
      BY <1>7 DEF SeedPrice, AdminWrite, WriteQuorumPrice
    <2>2. UNCHANGED <<listed, truth, movedAge, needs, neededAge, pc, queue, lastPublished, lastCheck, lastActiveAt,
                      sent, outcome, pool>>
      BY <2>1 DEF worldVars, keeperVars, txVars
    <2>3. AdapterPart'
      BY <1>2, <1>7, WritersInv, PriceWriteInv
    <2>4. QED
      BY <2>1, <2>2, <2>3, OracleFrames DEF OracleInv
  <1>8. QED
    BY <1>1, <1>3, <1>4, <1>5, <1>6, <1>7

\* An age counted up to its limit.
LEMMA OlderType == \A limit \in Nat : \A age \in 0..limit + 1 : Older(age, limit) \in 0..limit + 1
  BY DEF Older

\* A step of the network or the world.
LEMMA WorldStepInv == ASSUME OracleInv, WorldStep PROVE OracleInv'
  <1>1. ASSUME NEW tx \in pool, Include(tx)
        PROVE  OracleInv'
    <2>1. /\ pool' = {} /\ outcome' \in {"success", "failed", outcome}
          /\ UNCHANGED <<now, ledger, worldVars, config, keeperVars, sent, quiet>>
      BY <1>1 DEF Include
    <2>2. UNCHANGED <<listed, truth, movedAge, needs, neededAge, pc, queue, lastPublished, lastCheck, lastActiveAt>>
      BY <2>1 DEF worldVars, keeperVars
    <2>3. KeeperPart'
      BY <2>1, <2>2 DEF OracleInv, KeeperPart
    <2>4. AdapterPart'
      BY <1>1, WritersInv, PriceWriteInv, OracleFrames
    <2>5. QED
      BY <2>1, <2>2, <2>3, <2>4, OracleFrames DEF OracleInv
  <1>2. CASE AdvanceClock
    <2>1. PICK l \in ledger .. now + 1 : l >= now + 1 - MaxLag /\ ledger' = l
      BY <1>2 DEF AdvanceClock
    <2>2. /\ now' = now + 1 /\ pool' = {tx \in pool : ledger' <= tx.bound}
          /\ quiet' = (IF ticked THEN Older(quiet, Settle) ELSE 0)
          /\ movedAge' = [a \in Assets |-> Older(movedAge[a], MAX_AGE + MaxLag)]
          /\ neededAge' = (IF needs = {} THEN 0 ELSE Older(neededAge, CHECK_INTERVAL))
          /\ UNCHANGED <<listed, truth, needs, chainVars, pc, queue, lastPublished, lastCheck, lastActiveAt,
                         sent, outcome>>
      BY <1>2 DEF AdvanceClock
    <2>c. now \in Nat /\ ledger \in Nat /\ ledger <= now /\ MaxLag \in Nat /\ BACKDATE \in Nat /\ MAX_AGE \in Nat
      BY OracleBasics DEF OracleInv, ClockPart
    <2>3. ClockPart'
      <3>1. now' \in Nat /\ ledger' \in Nat /\ ledger' <= now' /\ now' - ledger' <= MaxLag /\ now' >= BACKDATE
        BY <2>1, <2>2, <2>c DEF OracleInv, ClockPart
      <3>2. quiet' \in 0..Settle + 1 /\ neededAge' \in 0..CHECK_INTERVAL + 1
        <4>1. Older(quiet, Settle) \in 0..Settle + 1 /\ Older(neededAge, CHECK_INTERVAL) \in 0..CHECK_INTERVAL + 1
          BY OlderType, OracleBasics DEF OracleInv, ClockPart
        <4>2. 0 \in 0..Settle + 1 /\ 0 \in 0..CHECK_INTERVAL + 1
          BY OracleBasics
        <4>3. QED
          BY <2>2, <4>1, <4>2
      <3>3. lastActiveAt' \in Int /\ lastCheck' \in Int /\ lastActiveAt' <= now' /\ lastCheck' <= now'
        BY <2>2, <2>c DEF OracleInv, ClockPart
      <3>4. QED
        BY <3>1, <3>2, <3>3 DEF ClockPart
    <2>4. WorldPart'
      <3>1. \A a \in Assets : movedAge[a] \in 0..(MAX_AGE + MaxLag) + 1 /\ MAX_AGE + MaxLag \in Nat
        BY <2>c DEF OracleInv, WorldPart
      <3>2. \A a \in Assets : Older(movedAge[a], MAX_AGE + MaxLag) \in 0..(MAX_AGE + MaxLag) + 1
        BY <3>1, OlderType
      <3>3. movedAge' \in [Assets -> 0..MAX_AGE + MaxLag + 1]
        BY <2>2, <3>2
      <3>4. QED
        BY <2>2, <3>3 DEF OracleInv, WorldPart
    <2>5. KeeperPart'
      <3>1. \A a \in Assets : lastPublished'[a] # NoPublication => lastPublished'[a].ts \in 0..now'
        <4>1. ASSUME NEW a \in Assets, lastPublished'[a] # NoPublication
              PROVE  lastPublished'[a].ts \in 0..now'
          <5>1. lastPublished[a].ts \in 0..now
            BY <2>2, <4>1 DEF OracleInv, KeeperPart
          <5>2. QED
            BY <2>2, <2>c, <5>1
        <4>2. QED
          BY <4>1
      <3>2. QED
        BY <2>2, <3>1 DEF OracleInv, KeeperPart
    <2>6. AdapterPart'
      <3>1. UNCHANGED <<config, price>> /\ ledger' \in Nat /\ ledger <= ledger'
        BY <2>1, <2>2, <2>c DEF chainVars
      <3>2. ASSUME NEW a \in Assets, price[a] # NoPrice
            PROVE  price[a].publish_time \in 0..ledger' /\ price[a].write_time \in price[a].publish_time..ledger'
        <4>1. price[a].publish_time \in 0..ledger /\ price[a].write_time \in price[a].publish_time..ledger
          BY <3>2 DEF OracleInv, AdapterPart
        <4>2. QED
          BY <2>c, <3>1, <4>1
      <3>3. QED
        BY <3>1, <3>2 DEF OracleInv, AdapterPart
    <2>7. QED
      BY <2>3, <2>4, <2>5, <2>6 DEF OracleInv
  <1>3. ASSUME NEW a \in listed, NEW p \in Prices, MoveTruth(a, p)
        PROVE  OracleInv'
    <2>1. /\ truth' = [truth EXCEPT ![a] = p] /\ movedAge' = [movedAge EXCEPT ![a] = 0]
          /\ UNCHANGED <<now, ledger, listed, needs, neededAge, chainVars, keeperVars, txVars, quiet>>
      BY <1>3 DEF MoveTruth
    <2>2. UNCHANGED <<config, price, pc, queue, lastPublished, lastCheck, lastActiveAt, sent, outcome, pool>>
      BY <2>1 DEF chainVars, keeperVars, txVars
    <2>3. WorldPart'
      <3>1. 0 \in 0..MAX_AGE + MaxLag + 1
        BY OracleBasics
      <3>2. QED
        BY <2>1, <3>1 DEF OracleInv, WorldPart
    <2>4. QED
      BY <2>1, <2>2, <2>3, OracleFrames DEF OracleInv
  <1>4. ASSUME NEW ns \in SUBSET Signals, ChangeNeeds(ns)
        PROVE  OracleInv'
    <2>1. /\ needs' = ns /\ neededAge' \in {0, neededAge}
          /\ UNCHANGED <<now, ledger, listed, truth, movedAge, chainVars, keeperVars, txVars, quiet>>
      BY <1>4 DEF ChangeNeeds
    <2>2. UNCHANGED <<config, price, pc, queue, lastPublished, lastCheck, lastActiveAt, sent, outcome, pool>>
      BY <2>1 DEF chainVars, keeperVars, txVars
    <2>3. WorldPart'
      BY <2>1 DEF OracleInv, WorldPart
    <2>4. ClockPart'
      <3>1. 0 \in 0..CHECK_INTERVAL + 1
        BY OracleBasics
      <3>2. QED
        BY <2>1, <2>2, <3>1 DEF OracleInv, ClockPart
    <2>5. QED
      BY <2>1, <2>2, <2>3, <2>4, OracleFrames DEF OracleInv
  <1>5. QED
    BY <1>1, <1>2, <1>3, <1>4 DEF WorldStep

\* The first state, when nothing was published and nothing is stored.
LEMMA OracleInitInv == Init => OracleInv
  <1> SUFFICES ASSUME Init PROVE OracleInv
    OBVIOUS
  <1>1. ClockPart
    BY OracleBasics DEF Init, ClockPart
  <1>2. WorldPart
    <2>1. 0 \in 0..MAX_AGE + MaxLag + 1
      BY OracleBasics
    <2>2. QED
      BY <2>1, OracleBasics DEF Init, WorldPart
  <1>3. KeeperPart
    BY DEF Init, KeeperPart
  <1>4. AdapterPart
    <2>1. PICK feed \in {[publisher |-> "keeper", source |-> "RedStone", active |-> TRUE],
                         [publisher |-> "admin", source |-> "Quorum", active |-> TRUE], NoFeed} :
              config = [a \in Assets |-> feed]
      BY DEF Init
    <2>2. feed.source = "Quorum" => feed.publisher = "admin"
      BY DEF NoFeed
    <2>3. NoPrice.source # "Quorum"
      BY DEF NoPrice
    <2>4. QED
      BY <2>1, <2>2, <2>3 DEF Init, AdapterPart
  <1>5. QED
    BY <1>1, <1>2, <1>3, <1>4 DEF OracleInv

\* No step of the keeper, the admin, the network or the world breaks it.
LEMMA OracleNextInv == ASSUME OracleInv, [Next]_vars PROVE OracleInv'
  <1>1. CASE UNCHANGED vars
    <2>1. UNCHANGED <<now, ledger, listed, truth, movedAge, needs, neededAge, config, price, pc, queue, lastPublished,
                      lastCheck, lastActiveAt, sent, outcome, pool, quiet>>
      BY <1>1 DEF vars, worldVars, chainVars, keeperVars, txVars
    <2>2. QED
      BY <2>1, OracleFrames DEF OracleInv
  <1>2. QED
    BY <1>1, KeeperStepInv, AdminStepInv, WorldStepInv DEF Next

\* Clocks, ages and stored prices are well formed: a stored price is positive,
\* and was neither observed nor written after the last ledger.
THEOREM OracleIsWellFormed == Spec => []TypeOK
  <1>1. OracleInv => TypeOK
    BY DEF OracleInv, ClockPart, WorldPart, KeeperPart, AdapterPart, TypeOK
  <1>2. OracleInv /\ [Next]_vars => OracleInv'
    BY OracleNextInv
  <1>3. QED
    BY <1>1, <1>2, OracleInitInv, PTL DEF Spec

\* What get_price serves for a quorum feed was attested by every required source
\* or written by the admin, though the feed was another kind before, its stored
\* price survives set_quorum_feed and a keeper's transaction may still land.
THEOREM QuorumIsKept == Spec => []QuorumServesQuorum
  <1>1. OracleInv => QuorumServesQuorum
    BY DEF OracleInv, AdapterPart, QuorumServesQuorum, Readable
  <1>2. OracleInv /\ [Next]_vars => OracleInv'
    BY OracleNextInv
  <1>3. QED
    BY <1>1, <1>2, OracleInitInv, PTL DEF Spec

\* Whichever write path stores a price, and however late a transaction lands, it
\* is newer than the one it replaces (validate_monotonic_publish_time).
THEOREM NewerAlwaysWins == Spec => OlderNeverWins
  <1> DEFINE Newer == \A a \in Assets : price'[a] # price[a] => price'[a].publish_time > price[a].publish_time
                                                              \/ price[a] = NoPrice
  <1>1. ASSUME OracleInv, NEW b, NEW by, NEW p, NEW t, NEW worth, PriceWrite(b, by, p, t, worth)
        PROVE  Newer
    <2>1. ASSUME NEW a \in Assets, price'[a] # price[a], price[a] # NoPrice
          PROVE  price'[a].publish_time > price[a].publish_time
      <3>1. price = [x \in Assets |-> price[x]] /\ price' = [price EXCEPT ![b] = Snapshot(b, by, p, t, worth)]
        BY <1>1 DEF OracleInv, AdapterPart, PriceWrite
      <3>2. a = b /\ price'[a] = Snapshot(b, by, p, t, worth)
        BY <2>1, <3>1
      <3>3. t > price[b].publish_time
        BY <1>1, <2>1, <3>2 DEF PriceWrite
      <3>4. QED
        BY <3>2, <3>3 DEF Snapshot
    <2>2. QED
      BY <2>1
  <1>2. UNCHANGED price => Newer
    OBVIOUS
  <1>3. ASSUME OracleInv, KeeperStep
        PROVE  UNCHANGED price
    <2>1. CASE \E fails \in BOOLEAN : StartTick(fails)
      BY <2>1 DEF StartTick, chainVars
    <2>2. ASSUME NEW a, NEW p, SkipAsset(a, p) \/ SendPrice(a, p) \/ SendFails(a, p)
          PROVE  UNCHANGED price
      BY <2>2 DEF SkipAsset, SendPrice, SendFails, chainVars
    <2>3. CASE GiveUp \/ Confirm \/ Crash
      BY <2>3 DEF GiveUp, Confirm, Crash, chainVars
    <2>4. QED
      BY <1>3, <2>1, <2>2, <2>3, Zenon DEF KeeperStep
  <1>4. ASSUME OracleInv, AdminStep
        PROVE  Newer
    <2>1. PICK a \in listed :
             \/ \E active \in BOOLEAN, p \in {"keeper", "other"} : SetFeed(a, p, active)
             \/ SetQuorumFeed(a) \/ UpdateOraclePublisher(a, "other")
             \/ SetupUsdcFeed(a) \/ SeedPrice(a)
             \/ \E p \in Prices : AdminWrite(a, p)
             \/ \E p \in QuorumPrices : WriteQuorumPrice(a, p, ledger)
      BY <1>4 DEF AdminStep
    <2>2. a \in Assets
      BY <1>4, OracleBasics DEF OracleInv, WorldPart
    <2>3. CASE \/ \E active \in BOOLEAN, p \in {"keeper", "other"} : SetFeed(a, p, active)
               \/ SetQuorumFeed(a) \/ UpdateOraclePublisher(a, "other") \/ SetupUsdcFeed(a)
      <3>1. UNCHANGED price
        BY <2>3 DEF SetupUsdcFeed, SetFeed, SetQuorumFeed, UpdateOraclePublisher
      <3>2. QED
        BY <1>2, <3>1
    <2>4. CASE \/ SeedPrice(a) \/ \E p \in Prices : AdminWrite(a, p)
               \/ \E p \in QuorumPrices : WriteQuorumPrice(a, p, ledger)
      <3> HIDE DEF Newer
      <3>1. QED
        BY <1>1, <1>4, <2>2, <2>4, WritersInv
    <2>5. QED
      BY <2>1, <2>3, <2>4
  <1>5. ASSUME OracleInv, WorldStep
        PROVE  Newer
    <2>1. ASSUME NEW tx \in pool, Include(tx)
          PROVE  Newer
      <3>1. CASE UNCHANGED price
        BY <1>2, <3>1
      <3>2. CASE PriceWrite(tx.asset, {"keeper"}, tx.price, tx.publish_time, tx.worth)
        BY <1>1, <1>5, <3>2
      <3>3. QED
        BY <1>5, <2>1, <3>1, <3>2, WritersInv
    <2>2. CASE \/ AdvanceClock \/ \E a \in listed, p \in Prices : MoveTruth(a, p)
               \/ \E ns \in SUBSET Signals : ChangeNeeds(ns)
      <3>1. UNCHANGED price
        BY <2>2 DEF AdvanceClock, MoveTruth, ChangeNeeds, chainVars
      <3>2. QED
        BY <1>2, <3>1
    <2>3. QED
      BY <1>5, <2>1, <2>2 DEF WorldStep
  <1>6. ASSUME OracleInv, Next
        PROVE  Newer
    BY <1>2, <1>3, <1>4, <1>5, <1>6 DEF Next
  <1>7. UNCHANGED vars => Newer
    BY <1>2 DEF vars, chainVars
  <1> HIDE DEF Newer
  <1>8. OracleInv /\ [Next]_vars => OracleInv' /\ [Newer]_vars
    BY <1>6, <1>7, OracleNextInv
  <1>9. Spec => [][Newer]_vars
    BY <1>8, OracleInitInv, PTL DEF Spec
  <1>10. QED
    BY <1>9 DEF OlderNeverWins, Newer

\* What the keeper once decided on: near what a market was worth, and for a
\* stablecoin near its peg; of what the asset is still worth, or of before it moved.
Vouched(a, p, w, t) ==
    /\ a \in Markets => DivergenceBps(p, w) <= REFLECTOR_DIVERGENCE_HALT_BPS
    /\ a \in Stables => DivergenceBps(w, Peg) <= DEPEG_HALT_BPS + MAX_SOURCE_DEVIATION_BPS
    /\ t \in Nat /\ t <= now
    /\ w = truth[a] \/ t + movedAge[a] <= now

\* The keeper's transactions and the prices they left carry such decisions.
SoundPart ==
    /\ \A tx \in pool : tx.asset \in Assets /\ Vouched(tx.asset, tx.price, tx.worth, tx.publish_time)
    /\ \A a \in Assets : price[a].by = {"keeper"} =>
          Vouched(a, price[a].price, price[a].worth, price[a].publish_time)

\* What is decided is one of the outcomes of the venues' answers.
LEMMA DecisionsAre ==
  ASSUME NEW a \in Assets, NEW w \in Prices
  PROVE  \A p \in Decisions[a][w] : \E r \in Answers(a, w) : p = Decided(a, r[1], r[2])
  <1>1. Decisions[a][w] = {Decided(a, r[1], r[2]) : r \in Answers(a, w)}
    BY DEF Decisions
  <1>2. PICK Ds : Ds = {Decided(a, r[1], r[2]) : r \in Answers(a, w)}
    OBVIOUS
  <1>3. \A p \in Ds : \E r \in Answers(a, w) : p = Decided(a, r[1], r[2])
    BY <1>2
  <1>4. QED
    BY <1>1, <1>2, <1>3, Zenon

\* The admin and the scripts move neither the clock nor the world nor the pool.
LEMMA AdminLeaves == AdminStep => UNCHANGED <<now, truth, movedAge, pool>>
  <1> SUFFICES ASSUME AdminStep PROVE UNCHANGED <<now, truth, movedAge, pool>>
    OBVIOUS
  <1>1. PICK a \in listed :
           \/ \E active \in BOOLEAN, p \in {"keeper", "other"} : SetFeed(a, p, active)
           \/ SetQuorumFeed(a) \/ UpdateOraclePublisher(a, "other")
           \/ SetupUsdcFeed(a) \/ SeedPrice(a)
           \/ \E p \in Prices : AdminWrite(a, p)
           \/ \E p \in QuorumPrices : WriteQuorumPrice(a, p, ledger)
    BY DEF AdminStep
  <1>2. CASE \/ \E active \in BOOLEAN, p \in {"keeper", "other"} : SetFeed(a, p, active)
             \/ SetQuorumFeed(a) \/ UpdateOraclePublisher(a, "other") \/ SetupUsdcFeed(a)
    BY <1>2 DEF SetupUsdcFeed, SetFeed, SetQuorumFeed, UpdateOraclePublisher, worldVars, txVars
  <1>3. SeedPrice(a) => UNCHANGED <<now, truth, movedAge, pool>>
    BY DEF SeedPrice, worldVars, txVars
  <1>4. ASSUME NEW p, AdminWrite(a, p) PROVE UNCHANGED <<now, truth, movedAge, pool>>
    BY <1>4 DEF AdminWrite, worldVars, txVars
  <1>5. ASSUME NEW p, WriteQuorumPrice(a, p, ledger) PROVE UNCHANGED <<now, truth, movedAge, pool>>
    BY <1>5 DEF WriteQuorumPrice, worldVars, txVars
  <1>6. QED
    BY <1>1, <1>2, <1>3, <1>4, <1>5

\* A transaction the keeper sends carries a decision on what the asset is worth.
LEMMA SentIsVouched ==
  ASSUME OracleInv, NEW a \in listed, NEW w, w = truth[a], NEW p, p # Skip,
         NEW r \in Answers(a, w), p = Decided(a, r[1], r[2]), UNCHANGED <<now, truth, movedAge>>
  PROVE  a \in Assets /\ Vouched(a, p, w, now - BACKDATE)'
  <1>1. a \in Assets /\ w \in Prices
    BY OracleBasics DEF OracleInv, WorldPart
  <1>2. a \in Markets => DivergenceBps(p, w) <= REFLECTOR_DIVERGENCE_HALT_BPS
    BY <1>1, MarketNearTruth
  <1>3. a \in Stables => DivergenceBps(w, Peg) <= DEPEG_HALT_BPS + MAX_SOURCE_DEVIATION_BPS
    BY <1>1, StableNearPeg
  <1>4. now - BACKDATE \in Nat /\ now - BACKDATE <= now
    BY OracleBasics DEF OracleInv, ClockPart
  <1>5. QED
    BY <1>1, <1>2, <1>3, <1>4 DEF Vouched

\* Time and the world leave a decision what it was: one on what the asset is
\* worth, until it moves; then one from before.
LEMMA VouchedStays ==
  ASSUME OracleInv, [Next]_vars, NEW a \in Assets, NEW p, NEW w, NEW t, Vouched(a, p, w, t)
  PROVE  Vouched(a, p, w, t)'
  <1>1. now \in Nat /\ movedAge \in [Assets -> 0..MAX_AGE + MaxLag + 1] /\ MAX_AGE \in Nat /\ MaxLag \in Nat
    BY OracleBasics DEF OracleInv, ClockPart, WorldPart
  <1>2. SUFFICES t <= now' /\ (w = truth'[a] \/ t + movedAge'[a] <= now')
    BY DEF Vouched
  <1>3. t \in Nat /\ t <= now /\ (w = truth[a] \/ t + movedAge[a] <= now)
    BY DEF Vouched
  <1>4. CASE AdvanceClock
    <2>1. now' = now + 1 /\ truth' = truth /\ movedAge' = [b \in Assets |-> Older(movedAge[b], MAX_AGE + MaxLag)]
      BY <1>4 DEF AdvanceClock
    <2>2. movedAge'[a] \in {movedAge[a], movedAge[a] + 1} /\ movedAge[a] \in Nat
      BY <1>1, <2>1 DEF Older
    <2>3. QED
      BY <1>1, <1>3, <2>1, <2>2
  <1>5. ASSUME NEW b \in listed, NEW q \in Prices, MoveTruth(b, q)
        PROVE  t <= now' /\ (w = truth'[a] \/ t + movedAge'[a] <= now')
    <2>1. truth' = [truth EXCEPT ![b] = q] /\ movedAge' = [movedAge EXCEPT ![b] = 0] /\ now' = now
      BY <1>5 DEF MoveTruth
    <2>2. CASE a = b
      BY <1>1, <1>3, <2>1, <2>2
    <2>3. CASE a # b
      <3>1. truth'[a] = truth[a] /\ movedAge'[a] = movedAge[a]
        BY <1>1, <2>1, <2>3 DEF OracleInv, WorldPart
      <3>2. QED
        BY <1>3, <2>1, <3>1
    <2>4. QED
      BY <2>2, <2>3
  <1>6. CASE UNCHANGED <<now, truth, movedAge>>
    BY <1>3, <1>6
  <1>7. ASSUME KeeperStep PROVE UNCHANGED <<now, truth, movedAge>>
    <2>1. CASE \E fails \in BOOLEAN : StartTick(fails)
      BY <2>1 DEF StartTick, worldVars
    <2>2. ASSUME NEW b, NEW q, SkipAsset(b, q) \/ SendPrice(b, q) \/ SendFails(b, q)
          PROVE  UNCHANGED <<now, truth, movedAge>>
      BY <2>2 DEF SkipAsset, SendPrice, SendFails, worldVars
    <2>3. CASE GiveUp \/ Confirm \/ Crash
      BY <2>3 DEF GiveUp, Confirm, Crash, worldVars
    <2>4. QED
      BY <1>7, <2>1, <2>2, <2>3, Zenon DEF KeeperStep
  <1>8. ASSUME AdminStep PROVE UNCHANGED <<now, truth, movedAge>>
    BY <1>8, AdminLeaves
  <1>9. ASSUME NEW tx \in pool, Include(tx) PROVE UNCHANGED <<now, truth, movedAge>>
    BY <1>9 DEF Include, worldVars
  <1>10. ASSUME NEW ns, ChangeNeeds(ns) PROVE UNCHANGED <<now, truth, movedAge>>
    BY <1>10 DEF ChangeNeeds
  <1>11. CASE UNCHANGED vars
    BY <1>6, <1>11 DEF vars, worldVars
  <1>12. QED
    BY <1>4, <1>5, <1>6, <1>7, <1>8, <1>9, <1>10, <1>11 DEF Next, WorldStep

\* The pool only ever grows by a transaction the keeper sends.
LEMMA PoolIsSound ==
  ASSUME OracleInv, SoundPart, [Next]_vars
  PROVE  \A tx \in pool' : tx.asset \in Assets /\ Vouched(tx.asset, tx.price, tx.worth, tx.publish_time)'
  <1>1. ASSUME NEW tx \in pool
        PROVE  tx.asset \in Assets /\ Vouched(tx.asset, tx.price, tx.worth, tx.publish_time)'
    <2>1. tx.asset \in Assets /\ Vouched(tx.asset, tx.price, tx.worth, tx.publish_time)
      BY DEF SoundPart
    <2>2. QED
      BY <2>1, VouchedStays
  <1>2. ASSUME NEW a \in listed, NEW p \in Decisions[a][truth[a]], SendPrice(a, p)
        PROVE  \A tx \in pool' : tx.asset \in Assets /\ Vouched(tx.asset, tx.price, tx.worth, tx.publish_time)'
    <2>1. PICK w : w = truth[a]
      OBVIOUS
    <2>2. PICK tx : tx = [asset |-> a, price |-> p, publish_time |-> now - BACKDATE, worth |-> w,
                          bound |-> now + TX_TIMEOUT]
      OBVIOUS
    <2>3. p # Skip /\ pool' = pool \cup {tx} /\ UNCHANGED <<now, truth, movedAge>>
      BY <1>2, <2>1, <2>2 DEF SendPrice, LedgerSafePublishTime, worldVars
    <2>4. a \in Assets /\ w \in Prices
      BY <2>1, OracleBasics DEF OracleInv, WorldPart
    <2>5. p \in Decisions[a][w]
      BY <1>2, <2>1
    <2>6. PICK r \in Answers(a, w) : p = Decided(a, r[1], r[2])
      BY <2>4, <2>5, DecisionsAre, Zenon
    <2>7. Vouched(a, p, w, now - BACKDATE)'
      BY <2>1, <2>3, <2>6, SentIsVouched
    <2>8. tx.asset = a /\ tx.price = p /\ tx.worth = w /\ tx.publish_time = now - BACKDATE
      BY <2>2
    <2>9. QED
      BY <1>1, <2>3, <2>4, <2>7, <2>8
  <1>3. ASSUME pool' \subseteq pool
        PROVE  \A tx \in pool' : tx.asset \in Assets /\ Vouched(tx.asset, tx.price, tx.worth, tx.publish_time)'
    BY <1>1, <1>3
  <1>4. ASSUME NEW a, NEW p, SkipAsset(a, p) \/ SendFails(a, p) PROVE pool' \subseteq pool
    BY <1>4 DEF SkipAsset, SendFails, txVars
  <1>5. ASSUME \/ \E fails \in BOOLEAN : StartTick(fails)
               \/ GiveUp \/ Confirm \/ Crash
        PROVE  pool' \subseteq pool
    BY <1>5 DEF StartTick, GiveUp, Confirm, Crash, txVars
  <1>6. CASE KeeperStep
    <2> DEFINE Goal == \A tx \in pool' : tx.asset \in Assets /\ Vouched(tx.asset, tx.price, tx.worth, tx.publish_time)'
    <2>1. pool' \subseteq pool => Goal
      BY <1>3
    <2>2. \A a \in listed : \A p \in Decisions[a][truth[a]] : SendPrice(a, p) => Goal
      BY <1>2, Zenon
    <2>3. \A a, p : SkipAsset(a, p) \/ SendFails(a, p) => pool' \subseteq pool
      BY <1>4, Zenon
    <2> HIDE DEF Goal
    <2>4. Goal
      BY <1>5, <1>6, <2>1, <2>2, <2>3, Zenon DEF KeeperStep
    <2>5. QED
      BY <2>4 DEF Goal
  <1>7. ASSUME AdminStep PROVE pool' \subseteq pool
    BY <1>7, AdminLeaves
  <1>8. ASSUME WorldStep PROVE pool' \subseteq pool
    BY <1>8 DEF WorldStep, Include, AdvanceClock, MoveTruth, ChangeNeeds, txVars
  <1>9. ASSUME UNCHANGED vars PROVE pool' \subseteq pool
    BY <1>9 DEF vars, txVars
  <1>10. QED
    BY <1>3, <1>6, <1>7, <1>8, <1>9 DEF Next

\* A price is stored by someone else, or by a transaction of the keeper.
LEMMA WhoWrites ==
  ASSUME OracleInv, [Next]_vars
  PROVE  \/ UNCHANGED price
         \/ \E a \in Assets : \E t, w, p : PriceWrite(a, {"setup"}, p, t, w) \/ PriceWrite(a, {"admin"}, p, t, w)
                                       \/ PriceWrite(a, OracleSources, p, t, w)
         \/ \E tx \in pool : PriceWrite(tx.asset, {"keeper"}, tx.price, tx.publish_time, tx.worth)
  <1> DEFINE ByOthers == \E a \in Assets : \E t, w, p : PriceWrite(a, {"setup"}, p, t, w) \/ PriceWrite(a, {"admin"}, p, t, w)
                                                    \/ PriceWrite(a, OracleSources, p, t, w)
             ByKeeper == \E tx \in pool : PriceWrite(tx.asset, {"keeper"}, tx.price, tx.publish_time, tx.worth)
  <1>1. ASSUME KeeperStep PROVE UNCHANGED price
    <2>1. CASE \E fails \in BOOLEAN : StartTick(fails)
      BY <2>1 DEF StartTick, chainVars
    <2>2. ASSUME NEW b, NEW q, SkipAsset(b, q) \/ SendPrice(b, q) \/ SendFails(b, q)
          PROVE  UNCHANGED price
      BY <2>2 DEF SkipAsset, SendPrice, SendFails, chainVars
    <2>3. CASE GiveUp \/ Confirm \/ Crash
      BY <2>3 DEF GiveUp, Confirm, Crash, chainVars
    <2>4. QED
      BY <1>1, <2>1, <2>2, <2>3, Zenon DEF KeeperStep
  <1>2. CASE AdminStep
    <2>1. PICK a \in listed :
             \/ \E active \in BOOLEAN, p \in {"keeper", "other"} : SetFeed(a, p, active)
             \/ SetQuorumFeed(a) \/ UpdateOraclePublisher(a, "other")
             \/ SetupUsdcFeed(a) \/ SeedPrice(a)
             \/ \E p \in Prices : AdminWrite(a, p)
             \/ \E p \in QuorumPrices : WriteQuorumPrice(a, p, ledger)
      BY <1>2 DEF AdminStep
    <2>2. a \in Assets
      BY OracleBasics DEF OracleInv, WorldPart
    <2>3. CASE \/ \E active \in BOOLEAN, p \in {"keeper", "other"} : SetFeed(a, p, active)
               \/ SetQuorumFeed(a) \/ UpdateOraclePublisher(a, "other") \/ SetupUsdcFeed(a)
      BY <2>3 DEF SetupUsdcFeed, SetFeed, SetQuorumFeed, UpdateOraclePublisher
    <2>4. CASE SeedPrice(a)
      BY <2>2, <2>4, WritersInv
    <2>5. CASE \E p \in Prices : AdminWrite(a, p)
      BY <2>2, <2>5, WritersInv
    <2>6. CASE \E p \in QuorumPrices : WriteQuorumPrice(a, p, ledger)
      BY <2>2, <2>6, WritersInv
    <2>7. QED
      BY <2>1, <2>3, <2>4, <2>5, <2>6
  <1>3. CASE WorldStep
    <2>1. ASSUME NEW tx \in pool, Include(tx)
          PROVE  UNCHANGED price \/ ByKeeper
      BY <2>1, WritersInv
    <2>2. CASE \/ AdvanceClock \/ \E a \in listed, p \in Prices : MoveTruth(a, p)
               \/ \E ns \in SUBSET Signals : ChangeNeeds(ns)
      BY <2>2 DEF AdvanceClock, MoveTruth, ChangeNeeds, chainVars
    <2>3. QED
      BY <1>3, <2>1, <2>2 DEF WorldStep
  <1>4. CASE UNCHANGED vars
    BY <1>4 DEF vars, chainVars
  <1>5. QED
    BY <1>1, <1>2, <1>3, <1>4 DEF Next

\* What the write stores is what it says.
LEMMA Stored ==
  ASSUME OracleInv, NEW b, NEW by, NEW p, NEW t, NEW w, PriceWrite(b, by, p, t, w), NEW a \in Assets
  PROVE  IF a = b
         THEN price'[a].by = by /\ price'[a].price = p /\ price'[a].worth = w /\ price'[a].publish_time = t
         ELSE price'[a] = price[a]
  <1>1. PICK s : s = Snapshot(b, by, p, t, w)
    OBVIOUS
  <1>2. s.by = by /\ s.price = p /\ s.worth = w /\ s.publish_time = t
    BY <1>1 DEF Snapshot
  <1>3. price = [x \in Assets |-> price[x]] /\ price' = [price EXCEPT ![b] = s]
    BY <1>1 DEF OracleInv, AdapterPart, PriceWrite
  <1>4. price'[a] = IF a = b THEN s ELSE price[a]
    BY <1>3
  <1>5. QED
    BY <1>2, <1>4

\* What is stored stays what the keeper decided, whoever writes and however late.
LEMMA SoundNext ==
  ASSUME OracleInv, SoundPart, [Next]_vars
  PROVE  SoundPart'
  <1>1. ASSUME NEW a \in Assets, price'[a] = price[a], price'[a].by = {"keeper"}
        PROVE  Vouched(a, price[a].price, price[a].worth, price[a].publish_time)'
    <2>1. PICK p, w, t : p = price[a].price /\ w = price[a].worth /\ t = price[a].publish_time
      OBVIOUS
    <2>2. p = price'[a].price /\ w = price'[a].worth /\ t = price'[a].publish_time
      BY <1>1, <2>1
    <2>3. Vouched(a, p, w, t)
      BY <1>1, <2>1 DEF SoundPart
    <2>4. Vouched(a, p, w, t)'
      BY <2>3, VouchedStays
    <2>5. QED
      BY <2>2, <2>4
  <1>2. ASSUME NEW a \in Assets, price'[a].by = {"keeper"}
        PROVE  Vouched(a, price[a].price, price[a].worth, price[a].publish_time)'
    <2>1. CASE UNCHANGED price
      BY <1>1, <1>2, <2>1
    <2>2. ASSUME NEW b, NEW by, NEW p, NEW t, NEW w, PriceWrite(b, by, p, t, w), by \in {{"setup"}, {"admin"}, OracleSources}
          PROVE  price'[a] = price[a]
      <3>1. by # {"keeper"}
        <4>1. "keeper" \notin by
          BY <2>2 DEF OracleSources
        <4>2. QED
          BY <4>1
      <3>2. QED
        BY <1>2, <2>2, <3>1, Stored
    <2>3. ASSUME NEW tx \in pool, PriceWrite(tx.asset, {"keeper"}, tx.price, tx.publish_time, tx.worth)
          PROVE  Vouched(a, price[a].price, price[a].worth, price[a].publish_time)'
      <3>1. PICK b, p, t, w : b = tx.asset /\ p = tx.price /\ t = tx.publish_time /\ w = tx.worth
        OBVIOUS
      <3>2. PriceWrite(b, {"keeper"}, p, t, w)
        BY <2>3, <3>1
      <3>3. b \in Assets /\ Vouched(b, p, w, t)
        BY <2>3, <3>1 DEF SoundPart
      <3>4. Vouched(b, p, w, t)'
        BY <3>3, VouchedStays
      <3>5. CASE a = b
        <4>1. price'[a].price = p /\ price'[a].worth = w /\ price'[a].publish_time = t
          BY <3>2, <3>5, Stored
        <4>2. QED
          BY <3>4, <3>5, <4>1
      <3>6. CASE a # b
        <4>1. price'[a] = price[a]
          BY <3>2, <3>6, Stored
        <4>2. QED
          BY <1>1, <1>2, <4>1
      <3>7. QED
        BY <3>5, <3>6
    <2>4. QED
      BY <1>1, <1>2, <2>1, <2>2, <2>3, WhoWrites
  <1>3. QED
    BY <1>2, PoolIsSound DEF SoundPart

\* For every set of assets and prices and whatever two venues or Reflector answer:
\* what the keeper stored is near what the asset was worth when it asked, a quorum
\* feed serves its quorum's price, and a lost peg silences its feed (aggregatePrice,
\* reflectorAllowsPublish and publishStable; the adapter's max_age_secs).
THEOREM PricesAreAlwaysSound == Spec => []PriceIsSound
  <1>1. Init => SoundPart
    <2>1. NoPrice.by # {"keeper"}
      <3>1. "keeper" \notin NoPrice.by
        BY DEF NoPrice
      <3>2. QED
        BY <3>1
    <2>2. Init => pool = {} /\ \A a \in Assets : price[a] = NoPrice
      BY DEF Init
    <2>3. QED
      BY <2>1, <2>2 DEF SoundPart
  <1>2. OracleInv /\ SoundPart => MarkNearTruth
    BY DEF SoundPart, Vouched, MarkNearTruth, Assets
  <1>3. OracleInv /\ SoundPart => StopsAtDepeg
    <2>1. SUFFICES ASSUME OracleInv, SoundPart, NEW a \in Stables, price[a].by = {"keeper"}, Readable(a),
                          DivergenceBps(truth[a], Peg) > DEPEG_HALT_BPS + MAX_SOURCE_DEVIATION_BPS,
                          movedAge[a] > MAX_AGE + MaxLag
                   PROVE  FALSE
      BY DEF StopsAtDepeg
    <2>2. PICK p, w, t : p = price[a].price /\ w = price[a].worth /\ t = price[a].publish_time
      OBVIOUS
    <2>3. a \in Assets /\ Vouched(a, p, w, t)
      BY <2>1, <2>2 DEF SoundPart, Assets
    <2>4. /\ now \in Nat /\ ledger \in Nat /\ now - ledger <= MaxLag /\ truth[a] \in Prices
          /\ movedAge[a] \in Nat /\ MAX_AGE \in Nat /\ MaxLag \in Nat
      BY <2>1, <2>3, OracleBasics DEF OracleInv, ClockPart, WorldPart
    <2>5. w # truth[a]
      <3>1. PICK d : d = DivergenceBps(w, Peg)
        OBVIOUS
      <3>2. PICK h : h = DEPEG_HALT_BPS + MAX_SOURCE_DEVIATION_BPS /\ h \in Nat
        BY GuardBasics
      <3>3. d <= h
        BY <2>3, <3>1, <3>2 DEF Vouched
      <3>4. CASE w = truth[a]
        <4>1. d \in Int
          BY <2>4, <3>1, <3>4, OracleBasics DEF DivergenceBps, Distance
        <4>2. d > h
          BY <2>1, <3>1, <3>2, <3>4
        <4>3. QED
          BY <3>2, <3>3, <4>1, <4>2
      <3>5. QED
        BY <3>4
    <2>6. t \in Nat /\ t + movedAge[a] <= now
      BY <2>3, <2>5 DEF Vouched
    <2>7. ledger - t <= MAX_AGE
      BY <2>1, <2>2 DEF Readable, Valid
    <2>8. QED
      BY <2>1, <2>4, <2>6, <2>7
  <1>4. OracleInv => TypeOK /\ QuorumServesQuorum
    BY DEF OracleInv, ClockPart, WorldPart, KeeperPart, AdapterPart, TypeOK, QuorumServesQuorum, Readable
  <1>5. OracleInv /\ SoundPart => PriceIsSound
    BY <1>2, <1>3, <1>4 DEF PriceIsSound
  <1>6. OracleInv /\ SoundPart /\ [Next]_vars => OracleInv' /\ SoundPart'
    BY OracleNextInv, SoundNext
  <1>7. QED
    BY <1>1, <1>5, <1>6, OracleInitInv, PTL DEF Spec

-----------------------------------------------------------------------------
(* Freshness: while ticks are healthy, each of them ends in the unit of    *)
(* time it began in, so that what it confirms was observed in that unit.   *)

\* The keeper confirmed a price of this asset less than a heartbeat ago.
Current(a) == lastPublished[a] # NoPublication /\ now - lastPublished[a].ts < HEARTBEAT

\* If the feed is the keeper's, it holds a price at least that recent.
Holds(a, t) ==
    KeeperFeed(a) => /\ price[a] # NoPrice /\ price[a].source = "RedStone"
                     /\ price[a].publish_time >= t

QueuePart ==
    /\ queue \in Seq(Assets)
    /\ ticked \in BOOLEAN /\ (ticked => pc = "idle")
    /\ pc = "poll" => sent.asset = Head(queue) /\ sent.price # Skip

\* A tick of this unit checked the activity recently; what it visited is current,
\* and what it polls for was observed now.
TickPart ==
    quiet >= 1 =>
       /\ (ticked \/ pc # "idle") => now - lastCheck < CHECK_INTERVAL
       /\ pc # "idle" => \A a \in listed \ Range(queue) : Current(a)
       /\ (ticked /\ now - lastActiveAt < IDLE_GRACE) => \A a \in listed : Current(a)
       /\ pc = "poll" => sent.publish_time = now - BACKDATE
       /\ (pc = "poll" /\ outcome = "success") => Holds(sent.asset, now - BACKDATE)

\* A check made since prices are needed has seen it.
CheckPart == (needs # {} /\ lastCheck > now - neededAge) => lastActiveAt >= lastCheck

\* After a healthy tick that was needed no publication is older than a heartbeat.
PublishedPart ==
    (needs # {} /\ neededAge > CHECK_INTERVAL /\ quiet >= 2) =>
       \A a \in listed : lastPublished[a] # NoPublication /\ now - lastPublished[a].ts <= HEARTBEAT

\* What was confirmed since the last fault is on chain.
OnChainPart ==
    \A a \in listed : (lastPublished[a] # NoPublication /\ lastPublished[a].ts > now - quiet)
                      => Holds(a, lastPublished[a].ts - BACKDATE)

FreshInv == QueuePart /\ TickPart /\ CheckPart /\ PublishedPart /\ OnChainPart

\* A set written as a sequence has all its elements in it.
LEMMA WholeSetInSequence ==
  ASSUME NEW S, IsFiniteSet(S)
  PROVE  SetToSeq(S) \in Seq(S) /\ S \subseteq Range(SetToSeq(S))
  <1>1. SetToSeq(S) \in Seq(S) /\ Cardinality(S) \in Nat /\ ExistsBijection(1..Cardinality(S), S)
    BY SequenceOfSet, FS_CardinalityType
  <1>2. PICK g \in Bijection(1..Cardinality(S), S) : TRUE
    BY <1>1 DEF ExistsBijection
  <1>3. g \in [1..Cardinality(S) -> S] /\ IsInjective(g)
    BY <1>2 DEF Bijection, Injection, IsInjective
  <1>4. PICK f : f = SetToSeq(S)
    OBVIOUS
  <1>5. f \in [1..Cardinality(S) -> S] /\ IsInjective(f)
    BY <1>3, <1>4 DEF SetToSeq
  <1>6. f \in Injection(1..Cardinality(S), S)
    BY <1>5 DEF Injection, IsInjective
  <1>7. Cardinality(1..Cardinality(S)) = Cardinality(S)
    BY <1>1, FS_Interval
  <1>8. f \in Surjection(1..Cardinality(S), S)
    BY <1>6, <1>7, FS_Injection
  <1>9. S \subseteq Range(f)
    BY <1>5, <1>8 DEF Surjection, Range
  <1>10. QED
    BY <1>1, <1>4, <1>9

\* A tick visits every asset the deployment lists.
LEMMA TickVisitsAll == listed \in Listings => TickOrder \in Seq(Assets) /\ listed \subseteq Range(TickOrder)
  <1> SUFFICES ASSUME listed \in Listings PROVE TickOrder \in Seq(Assets) /\ listed \subseteq Range(TickOrder)
    OBVIOUS
  <1>1. listed \subseteq Assets /\ IsFiniteSet(listed)
    BY OracleBasics, FS_Subset
  <1>2. IsFiniteSet(listed \cap Markets) /\ IsFiniteSet(listed \cap Stables)
    BY <1>1, FS_Subset
  <1>3. PICK m, s : m = SetToSeq(listed \cap Markets) /\ s = SetToSeq(listed \cap Stables)
    OBVIOUS
  <1>4. m \in Seq(listed \cap Markets) /\ s \in Seq(listed \cap Stables)
    BY <1>2, <1>3, SequenceOfSet
  <1>5. m \in Seq(Assets) /\ s \in Seq(Assets)
    BY <1>1, <1>4
  <1>6. listed \subseteq Range(m) \cup Range(s)
    <2>1. listed \cap Markets \subseteq Range(m) /\ listed \cap Stables \subseteq Range(s)
      BY <1>2, <1>3, WholeSetInSequence
    <2>2. QED
      BY <1>1, <2>1 DEF Assets
  <1>7. m \o s \in Seq(Assets) /\ Len(m \o s) = Len(m) + Len(s) /\ Len(m) \in Nat /\ Len(s) \in Nat
        /\ \A i \in 1..Len(m) + Len(s) : (m \o s)[i] = IF i <= Len(m) THEN m[i] ELSE s[i - Len(m)]
    BY <1>5, ConcatProperties
  <1>8. Range(m) \subseteq Range(m \o s)
    <2>1. DOMAIN m = 1..Len(m) /\ DOMAIN (m \o s) = 1..Len(m) + Len(s)
      BY <1>5, <1>7
    <2>2. \A i \in DOMAIN m : i \in DOMAIN (m \o s) /\ (m \o s)[i] = m[i]
      BY <1>7, <2>1
    <2>3. QED
      BY <2>2 DEF Range
  <1>9. Range(s) \subseteq Range(m \o s)
    <2>1. DOMAIN s = 1..Len(s) /\ DOMAIN (m \o s) = 1..Len(m) + Len(s)
      BY <1>5, <1>7
    <2>2. \A i \in DOMAIN s : Len(m) + i \in DOMAIN (m \o s) /\ (m \o s)[Len(m) + i] = s[i]
      <3>1. ASSUME NEW i \in DOMAIN s
            PROVE  Len(m) + i \in DOMAIN (m \o s) /\ (m \o s)[Len(m) + i] = s[i]
        <4>1. i \in 1..Len(s) /\ Len(m) + i \in 1..Len(m) + Len(s) /\ ~(Len(m) + i <= Len(m))
              /\ (Len(m) + i) - Len(m) = i
          BY <1>7, <2>1
        <4>2. QED
          BY <1>7, <2>1, <4>1
      <3>2. QED
        BY <3>1
    <2>3. QED
      BY <2>2 DEF Range
  <1>10. QED
    BY <1>3, <1>6, <1>7, <1>8, <1>9 DEF TickOrder

\* What is in a queue besides its head is in the rest of it.
LEMMA RestOfQueue ==
  ASSUME NEW q \in Seq(Assets), q # <<>>
  PROVE  /\ Tail(q) \in Seq(Assets) /\ Head(q) \in Assets
         /\ Range(q) \subseteq {Head(q)} \cup Range(Tail(q))
         /\ Tail(q) = <<>> => Range(q) \subseteq {Head(q)}
  <1>1. /\ Head(q) \in Assets /\ Tail(q) \in Seq(Assets) /\ Len(Tail(q)) = Len(q) - 1
        /\ \A i \in 1..Len(Tail(q)) : Tail(q)[i] = q[i + 1]
    BY HeadTailProperties
  <1>2. Len(q) \in Nat /\ DOMAIN q = 1..Len(q) /\ Head(q) = q[1] /\ DOMAIN Tail(q) = 1..Len(Tail(q))
    BY <1>1
  <1>3. ASSUME NEW i \in DOMAIN q, i # 1
        PROVE  i - 1 \in DOMAIN Tail(q) /\ Tail(q)[i - 1] = q[i]
    <2>1. i \in Nat /\ i - 1 \in 1..Len(Tail(q)) /\ (i - 1) + 1 = i
      BY <1>1, <1>2, <1>3
    <2>2. QED
      BY <1>1, <1>2, <2>1
  <1>4. \A i \in DOMAIN q : q[i] = Head(q) \/ q[i] \in Range(Tail(q))
    BY <1>2, <1>3 DEF Range
  <1>5. Range(<<>>) = {}
    BY DEF Range
  <1>6. QED
    BY <1>1, <1>4, <1>5 DEF Range

\* The types the argument uses.
LEMMA FreshBasics ==
  ASSUME OracleInv
  PROVE  /\ now \in Nat /\ ledger \in Nat /\ ledger <= now /\ BACKDATE \in Nat /\ now >= BACKDATE
         /\ quiet \in Nat /\ quiet <= Settle + 1 /\ neededAge \in Nat /\ Settle \in Nat
         /\ lastActiveAt \in Int /\ lastCheck \in Int /\ lastActiveAt <= now /\ lastCheck <= now
         /\ CHECK_INTERVAL \in Nat /\ HEARTBEAT \in Nat /\ IDLE_GRACE \in Nat /\ MAX_AGE \in Nat
         /\ listed \subseteq Assets /\ listed \in Listings
         /\ \A a \in Assets : lastPublished[a] # NoPublication => lastPublished[a].ts \in Nat /\ lastPublished[a].ts <= now
         /\ \A a \in Assets : price[a] # NoPrice =>
               price[a].publish_time \in Nat /\ price[a].publish_time <= ledger
               /\ price[a].write_time \in Nat /\ price[a].publish_time <= price[a].write_time /\ price[a].write_time <= ledger
  <1>1. HEARTBEAT \in Nat /\ IDLE_GRACE \in Nat
    BY OracleConstants
  <1>2. listed \subseteq Assets /\ listed \in Listings
    BY OracleBasics DEF OracleInv, WorldPart
  <1>3. \A a \in Assets : lastPublished[a] # NoPublication => lastPublished[a].ts \in Nat /\ lastPublished[a].ts <= now
    BY DEF OracleInv, KeeperPart, ClockPart
  <1>4. \A a \in Assets : price[a] # NoPrice =>
           price[a].publish_time \in Nat /\ price[a].publish_time <= ledger
           /\ price[a].write_time \in Nat /\ price[a].publish_time <= price[a].write_time /\ price[a].write_time <= ledger
    BY DEF OracleInv, AdapterPart, ClockPart
  <1>5. QED
    BY <1>1, <1>2, <1>3, <1>4, OracleBasics DEF OracleInv, ClockPart

\* The invariant is enough: while prices are needed and nothing went wrong for
\* long enough, a heartbeat and a backdate is how old a price may be.
LEMMA FreshIsEnough == OracleInv /\ FreshInv => FreshWhenNeeded
  <1> SUFFICES ASSUME OracleInv, FreshInv, needs # {}, neededAge > CHECK_INTERVAL, quiet > Settle,
                      NEW a \in listed, KeeperFeed(a)
               PROVE  Readable(a)
    BY DEF FreshWhenNeeded
  <1>1. a \in Assets /\ quiet >= 2 /\ quiet > HEARTBEAT
    BY FreshBasics, DelaysFit
  <1>2. lastPublished[a] # NoPublication /\ now - lastPublished[a].ts <= HEARTBEAT
    BY <1>1 DEF FreshInv, PublishedPart
  <1>3. lastPublished[a].ts \in Nat /\ lastPublished[a].ts > now - quiet
    BY <1>1, <1>2, FreshBasics
  <1>4. price[a] # NoPrice /\ price[a].source = "RedStone" /\ price[a].publish_time >= lastPublished[a].ts - BACKDATE
    BY <1>2, <1>3 DEF FreshInv, OnChainPart, Holds
  <1>5. PICK s : s = price[a]
    OBVIOUS
  <1>6. /\ s.publish_time \in Nat /\ s.write_time \in Nat /\ s.publish_time <= s.write_time
        /\ s.write_time <= ledger /\ s.publish_time >= lastPublished[a].ts - BACKDATE /\ s.price > 0
    BY <1>1, <1>4, <1>5, FreshBasics DEF OracleInv, AdapterPart
  <1>7. ledger - s.publish_time <= MAX_AGE /\ ledger - s.write_time <= MAX_AGE
    BY <1>2, <1>3, <1>6, FreshBasics, DelaysFit
  <1>8. Valid(s, ledger)
    BY <1>6, <1>7, FreshBasics DEF Valid
  <1>9. config[a].active /\ config[a].source = "RedStone"
    BY DEF KeeperFeed
  <1>10. QED
    BY <1>4, <1>5, <1>8, <1>9 DEF Readable

\* A tick that is under way has something to visit, and polls for its head.
LEMMA AtHead ==
  ASSUME OracleInv, FreshInv, pc # "idle"
  PROVE  queue \in Seq(Assets) /\ queue # <<>> /\ Head(queue) \in Assets /\ (pc = "poll" => sent.asset \in Assets)
  <1>1. queue \in Seq(Assets) /\ queue # <<>>
    BY DEF OracleInv, KeeperPart, FreshInv, QueuePart
  <1>2. Head(queue) \in Assets
    BY <1>1, RestOfQueue
  <1>3. QED
    BY <1>1, <1>2 DEF FreshInv, QueuePart

\* At first nothing is claimed: no tick was healthy yet.
LEMMA FreshInit == Init => FreshInv
  <1> SUFFICES ASSUME Init PROVE FreshInv
    OBVIOUS
  <1>1. /\ now = BACKDATE /\ pc = "idle" /\ ticked = FALSE /\ queue = <<>> /\ neededAge = 0 /\ quiet = 0
        /\ lastPublished = [a \in Assets |-> NoPublication]
        /\ lastCheck = BACKDATE - CHECK_INTERVAL /\ lastActiveAt = BACKDATE /\ listed \in Listings
    BY DEF Init
  <1>2. QueuePart
    <2>1. <<>> \in Seq(Assets)
      OBVIOUS
    <2>2. QED
      BY <1>1, <2>1 DEF QueuePart
  <1>3. TickPart /\ PublishedPart
    BY <1>1 DEF TickPart, PublishedPart
  <1>4. CheckPart
    BY <1>1, OracleBasics DEF CheckPart
  <1>5. OnChainPart
    <2>1. listed \subseteq Assets
      BY <1>1, OracleBasics
    <2>2. QED
      BY <1>1, <2>1 DEF OnChainPart
  <1>6. QED
    BY <1>2, <1>3, <1>4, <1>5 DEF FreshInv

\* After a fault nothing is promised.
LEMMA AfterFault == ASSUME OracleInv', quiet' = 0 PROVE TickPart' /\ PublishedPart' /\ OnChainPart'
  <1>1. TickPart' /\ PublishedPart'
    BY DEF TickPart, PublishedPart
  <1>2. listed' \subseteq Assets
    BY OracleBasics DEF OracleInv, WorldPart
  <1>3. \A a \in listed' : lastPublished'[a] # NoPublication => lastPublished'[a].ts \in 0..now'
    BY <1>2 DEF OracleInv, KeeperPart
  <1>4. now' \in Nat
    BY DEF OracleInv, ClockPart
  <1>5. OnChainPart'
    BY <1>3, <1>4 DEF OnChainPart
  <1>6. QED
    BY <1>1, <1>5

\* A write of a price leaves every keeper's feed with one that is no older.
LEMMA WriteHolds ==
  ASSUME OracleInv, NEW b, NEW by, NEW p, NEW u, NEW worth, PriceWrite(b, by, p, u, worth),
         NEW a \in Assets, NEW t \in Int, Holds(a, t)
  PROVE  Holds(a, t)'
  <1> SUFFICES ASSUME KeeperFeed(a)'
               PROVE  /\ price'[a] # NoPrice /\ price'[a].source = "RedStone"
                      /\ price'[a].publish_time >= t
    BY DEF Holds
  <1>1. KeeperFeed(a)
    BY DEF PriceWrite, KeeperFeed
  <1>2. price[a] # NoPrice /\ price[a].source = "RedStone" /\ price[a].publish_time >= t /\ price[a].publish_time \in Nat
    BY <1>1, FreshBasics DEF Holds
  <1>3. PICK s : s = Snapshot(b, by, p, u, worth)
    OBVIOUS
  <1>4. price' = [price EXCEPT ![b] = s] /\ price = [x \in Assets |-> price[x]]
    BY <1>3 DEF PriceWrite, OracleInv, AdapterPart
  <1>5. CASE a = b
    <2>1. price'[a] = s
      BY <1>4, <1>5
    <2>2. s.source = "RedStone" /\ s.publish_time = u
      BY <1>1, <1>3, <1>5 DEF Snapshot, KeeperFeed
    <2>3. u \in Nat /\ u > price[a].publish_time
      BY <1>2, <1>5 DEF PriceWrite
    <2>4. s # NoPrice
      <3>1. NoPrice.source = "none"
        BY DEF NoPrice
      <3>2. QED
        BY <2>2, <3>1
    <2>5. QED
      BY <1>2, <2>1, <2>2, <2>3, <2>4
  <1>6. CASE a # b
    BY <1>2, <1>4, <1>6
  <1>7. QED
    BY <1>5, <1>6

\* A step on chain that leaves the keeper alone, except for what its poll answers.
LEMMA ChainStepFresh ==
  ASSUME OracleInv, FreshInv,
         UNCHANGED <<now, listed, needs, neededAge, pc, ticked, queue, lastPublished, lastCheck, lastActiveAt, sent, quiet>>,
         \A a \in Assets : \A t \in Int : Holds(a, t) => Holds(a, t)',
         (quiet >= 1 /\ pc = "poll" /\ outcome' = "success") =>
             outcome = "success" \/ Holds(sent.asset, now - BACKDATE)'
  PROVE  FreshInv'
  <1>1. QueuePart' /\ CheckPart' /\ PublishedPart'
    BY DEF FreshInv, QueuePart, CheckPart, PublishedPart
  <1>2. TickPart'
    <2>1. \A a : Current(a) <=> Current(a)'
      BY DEF Current
    <2>2. (quiet >= 1 /\ pc = "poll" /\ outcome' = "success") => Holds(sent.asset, now - BACKDATE)'
      <3>1. SUFFICES ASSUME quiet >= 1, pc = "poll", outcome' = "success", outcome = "success"
                     PROVE  Holds(sent.asset, now - BACKDATE)'
        OBVIOUS
      <3>2. sent.asset \in Assets /\ now - BACKDATE \in Int
        BY <3>1, AtHead, FreshBasics
      <3>3. Holds(sent.asset, now - BACKDATE)
        BY <3>1 DEF FreshInv, TickPart
      <3>4. PICK b \in Assets, t \in Int : b = sent.asset /\ t = now - BACKDATE
        BY <3>2
      <3>5. Holds(b, t)'
        BY <3>3, <3>4
      <3>6. QED
        BY <3>4, <3>5 DEF Holds, KeeperFeed
    <2>3. QED
      BY <2>1, <2>2 DEF FreshInv, TickPart
  <1>3. OnChainPart'
    <2>1. SUFFICES ASSUME NEW a \in listed, lastPublished[a] # NoPublication, lastPublished[a].ts > now - quiet
                   PROVE  Holds(a, lastPublished[a].ts - BACKDATE)'
      BY DEF OnChainPart
    <2>2. a \in Assets /\ lastPublished[a].ts - BACKDATE \in Int
      BY <2>1, FreshBasics
    <2>3. Holds(a, lastPublished[a].ts - BACKDATE)
      BY <2>1 DEF FreshInv, OnChainPart
    <2>4. PICK t \in Int : t = lastPublished[a].ts - BACKDATE
      BY <2>2
    <2>5. Holds(a, t)'
      BY <2>2, <2>3, <2>4
    <2>6. QED
      BY <2>4, <2>5 DEF Holds, KeeperFeed
  <1>4. QED
    BY <1>1, <1>2, <1>3 DEF FreshInv

\* What confirmed publications rest on does not change with the chain at rest.
LEMMA ChainAtRest ==
  ASSUME UNCHANGED <<config, price>>
  PROVE  \A a : \A t : Holds(a, t) <=> Holds(a, t)'
  BY DEF Holds, KeeperFeed

\* A tick starts, or finds that no price is needed: it looks at the protocol's
\* activity unless it did so recently.
LEMMA StartTickFresh == ASSUME OracleInv, FreshInv, NEW fails \in BOOLEAN, StartTick(fails) PROVE FreshInv'
  <1> DEFINE check == now - lastCheck >= CHECK_INTERVAL
             active == check /\ (ProtocolActive \/ fails)
             needed == now - (IF active THEN now ELSE lastActiveAt) < IDLE_GRACE
  <1>1. /\ lastCheck' = (IF check THEN now ELSE lastCheck)
        /\ lastActiveAt' = (IF active THEN now ELSE lastActiveAt)
        /\ pc = "idle" /\ ~ticked /\ pc' = (IF needed THEN "fetch" ELSE "idle")
        /\ queue' = (IF needed THEN TickOrder ELSE <<>>) /\ ticked' = ~needed
        /\ UNCHANGED <<now, ledger, worldVars, chainVars, lastPublished, txVars, quiet>>
    BY DEF StartTick
  <1>2. check => needs = {} \/ active
    <2>1. needs \subseteq {"orders", "jobs", "positions", "usdc"}
      BY DelaysFit DEF OracleInv, WorldPart
    <2>2. QED
      BY <2>1 DEF ProtocolActive
  <1>3. /\ check <=> now - lastCheck >= CHECK_INTERVAL
        /\ needed <=> now - lastActiveAt' < IDLE_GRACE
        /\ active => check
    BY <1>1
  <1> HIDE DEF check, active, needed
  <1>4. UNCHANGED <<listed, needs, neededAge, config, price, sent, outcome>>
    BY <1>1 DEF worldVars, chainVars, txVars
  <1>5. TickOrder \in Seq(Assets) /\ listed \subseteq Range(TickOrder)
    BY FreshBasics, TickVisitsAll
  <1>6. QueuePart'
    <2>1. queue' \in Seq(Assets)
      <3>1. <<>> \in Seq(Assets)
        OBVIOUS
      <3>2. QED
        BY <1>1, <1>5, <3>1
    <2>2. ticked' \in BOOLEAN /\ (ticked' => pc' = "idle") /\ pc' # "poll"
      BY <1>1
    <2>3. QED
      BY <2>1, <2>2 DEF QueuePart
  <1>7. TickPart'
    <2>1. now - lastCheck' < CHECK_INTERVAL
      BY <1>1, <1>3, FreshBasics, DelaysFit
    <2>2. pc' # "idle" => listed \ Range(queue') = {}
      BY <1>1, <1>5
    <2>3. ~(ticked' /\ now - lastActiveAt' < IDLE_GRACE) /\ pc' # "poll"
      BY <1>1, <1>3
    <2>4. QED
      BY <1>1, <1>4, <2>1, <2>2, <2>3 DEF TickPart
  <1>8. CheckPart'
    BY <1>1, <1>2, <1>3, <1>4, FreshBasics DEF FreshInv, CheckPart
  <1>9. PublishedPart'
    BY <1>1, <1>4 DEF FreshInv, PublishedPart
  <1>10. OnChainPart'
    BY <1>1, <1>4, ChainAtRest DEF FreshInv, OnChainPart, Holds, KeeperFeed
  <1>11. QED
    BY <1>6, <1>7, <1>8, <1>9, <1>10 DEF FreshInv

\* The rest of a tick once its head is done with.
LEMMA NextQueue ==
  ASSUME OracleInv, FreshInv, pc # "idle", NextAsset
  PROVE  /\ QueuePart'
         /\ pc' # "poll" /\ (pc' = "idle" <=> ticked')
         /\ pc' # "idle" => listed \ Range(queue') \subseteq (listed \ Range(queue)) \cup {Head(queue)}
         /\ ticked' => listed \subseteq (listed \ Range(queue)) \cup {Head(queue)}
  <1>1. queue \in Seq(Assets) /\ queue # <<>>
    BY AtHead
  <1>2. PICK q : q = queue
    OBVIOUS
  <1>3. /\ Tail(q) \in Seq(Assets) /\ Range(q) \subseteq {Head(q)} \cup Range(Tail(q))
        /\ Tail(q) = <<>> => Range(q) \subseteq {Head(q)}
    BY <1>1, <1>2, RestOfQueue
  <1>4. /\ queue' = Tail(q) /\ pc' = (IF Tail(q) = <<>> THEN "idle" ELSE "fetch")
        /\ ticked' = (Tail(q) = <<>>)
    BY <1>2 DEF NextAsset
  <1>5. QueuePart'
    BY <1>3, <1>4 DEF QueuePart
  <1>6. QED
    BY <1>2, <1>3, <1>4, <1>5

\* The keeper goes on, having found the head of the queue current or made it so.
LEMMA VisitedFresh ==
  ASSUME OracleInv, FreshInv, pc # "idle", NextAsset,
         UNCHANGED <<now, listed, needs, neededAge, lastCheck, lastActiveAt, config, price, quiet>>,
         NEW r, r.ts = now, r # NoPublication,
         \/ UNCHANGED lastPublished /\ Current(Head(queue))
         \/ /\ lastPublished' = [lastPublished EXCEPT ![Head(queue)] = r]
            /\ quiet >= 1 => Holds(Head(queue), now - BACKDATE)
  PROVE  FreshInv'
  <1>1. PICK h \in Assets : h = Head(queue)
    BY AtHead
  <1>2. \A a \in Assets : lastPublished'[a] = lastPublished[a] \/ (a = h /\ lastPublished'[a] = r)
    BY <1>1 DEF OracleInv, KeeperPart
  <1>3. Current(h)'
    <2>1. CASE UNCHANGED lastPublished /\ Current(h)
      BY <2>1 DEF Current
    <2>2. CASE lastPublished' = [lastPublished EXCEPT ![h] = r]
      <3>1. lastPublished'[h] = r
        BY <2>2 DEF OracleInv, KeeperPart
      <3>2. QED
        BY <3>1, FreshBasics, DelaysFit DEF Current
    <2>3. QED
      BY <1>1, <2>1, <2>2
  <1>4. \A a \in Assets : Current(a) => Current(a)'
    <2>1. ASSUME NEW a \in Assets, Current(a)
          PROVE  Current(a)'
      BY <1>2, <1>3, <2>1 DEF Current
    <2>2. QED
      BY <2>1
  <1>5. listed \subseteq Assets
    BY FreshBasics
  <1>6. TickPart'
    <2>1. SUFFICES ASSUME quiet >= 1
                   PROVE  /\ now - lastCheck < CHECK_INTERVAL
                          /\ pc' # "idle" => \A a \in listed \ Range(queue') : Current(a)'
                          /\ ticked' => \A a \in listed : Current(a)'
      BY NextQueue DEF TickPart
    <2>2. \A a \in (listed \ Range(queue)) \cup {h} : Current(a)'
      BY <1>3, <1>4, <1>5, <2>1 DEF FreshInv, TickPart
    <2>3. now - lastCheck < CHECK_INTERVAL
      BY <2>1 DEF FreshInv, TickPart
    <2>4. QED
      BY <1>1, <2>2, <2>3, NextQueue
  <1>7. CheckPart'
    BY DEF FreshInv, CheckPart
  <1>8. PublishedPart'
    <2>1. SUFFICES ASSUME needs # {}, neededAge > CHECK_INTERVAL, quiet >= 2, NEW a \in listed
                   PROVE  lastPublished'[a] # NoPublication /\ now - lastPublished'[a].ts <= HEARTBEAT
      BY DEF PublishedPart
    <2>2. lastPublished[a] # NoPublication /\ now - lastPublished[a].ts <= HEARTBEAT
      BY <2>1 DEF FreshInv, PublishedPart
    <2>3. lastPublished'[a] = lastPublished[a] \/ lastPublished'[a] = r
      BY <1>2, <1>5
    <2>4. QED
      BY <2>2, <2>3, FreshBasics
  <1>9. OnChainPart'
    <2>1. SUFFICES ASSUME NEW a \in listed, lastPublished'[a] # NoPublication, lastPublished'[a].ts > now - quiet,
                          KeeperFeed(a)
                   PROVE  /\ price[a] # NoPrice /\ price[a].source = "RedStone"
                          /\ price[a].publish_time >= lastPublished'[a].ts - BACKDATE
      BY DEF OnChainPart, Holds, KeeperFeed
    <2>2. CASE lastPublished'[a] = lastPublished[a]
      BY <2>1, <2>2 DEF FreshInv, OnChainPart, Holds
    <2>3. CASE lastPublished'[a] # lastPublished[a]
      <3>1. a = h /\ lastPublished'[a] = r /\ lastPublished' # lastPublished
        BY <1>2, <1>5, <2>3
      <3>2. quiet >= 1
        BY <2>1, <3>1, FreshBasics
      <3>3. Holds(h, now - BACKDATE)
        BY <1>1, <3>1, <3>2
      <3>4. QED
        BY <2>1, <3>1, <3>3 DEF Holds
    <2>4. QED
      BY <2>2, <2>3
  <1>10. QED
    BY <1>6, <1>7, <1>8, <1>9, NextQueue DEF FreshInv

\* The keeper visits an asset: it publishes nothing, sends a price, or fails to.
LEMMA VisitFresh ==
  ASSUME OracleInv, OracleInv', FreshInv, NEW a, NEW p, SkipAsset(a, p) \/ SendPrice(a, p) \/ SendFails(a, p)
  PROVE  FreshInv'
  <1>1. CASE SendFails(a, p) \/ (SkipAsset(a, p) /\ p = Skip)
    <2>1. pc # "idle" /\ NextAsset /\ quiet' = 0 /\ UNCHANGED <<now, worldVars, lastCheck, lastActiveAt>>
      BY <1>1 DEF SendFails, SkipAsset
    <2>2. CheckPart'
      BY <2>1 DEF FreshInv, CheckPart, worldVars
    <2>3. QED
      BY <2>1, <2>2, NextQueue, AfterFault DEF FreshInv
  <1>2. CASE SkipAsset(a, p) /\ p # Skip
    <2>1. /\ pc # "idle" /\ a = Head(queue) /\ ~ShouldPublish(a, p) /\ NextAsset /\ UNCHANGED quiet
          /\ UNCHANGED <<now, worldVars, chainVars, lastPublished, lastCheck, lastActiveAt>>
      BY <1>2 DEF SkipAsset
    <2>2. a \in Assets
      BY <2>1, AtHead
    <2>3. Current(Head(queue))
      BY <2>1, <2>2, FreshBasics DEF ShouldPublish, Current
    <2>4. UNCHANGED <<listed, needs, neededAge, config, price>>
      BY <2>1 DEF worldVars, chainVars
    <2>5. PICK r : r = [price |-> 1, ts |-> now]
      OBVIOUS
    <2>6. r.ts = now /\ r # NoPublication
      <3>1. r.price = 1 /\ NoPublication.price = 0
        BY <2>5 DEF NoPublication
      <3>2. QED
        BY <2>5, <3>1
    <2>7. QED
      BY <2>1, <2>3, <2>4, <2>6, VisitedFresh
  <1>3. CASE SendPrice(a, p)
    <2>1. /\ pc = "fetch" /\ a = Head(queue) /\ p # Skip /\ outcome' = "pending" /\ pc' = "poll"
          /\ sent'.asset = a /\ sent'.price = p /\ sent'.publish_time = now - BACKDATE
          /\ UNCHANGED <<now, worldVars, chainVars, ticked, queue, lastPublished, lastCheck, lastActiveAt, quiet>>
      BY <1>3 DEF SendPrice, LedgerSafePublishTime
    <2>2. UNCHANGED <<listed, needs, neededAge, config, price>>
      BY <2>1 DEF worldVars, chainVars
    <2>3. QueuePart'
      BY <2>1 DEF FreshInv, QueuePart
    <2>4. TickPart'
      <3>1. \A b : Current(b) <=> Current(b)'
        BY <2>1 DEF Current
      <3>2. QED
        BY <2>1, <2>2, <2>3, <3>1 DEF FreshInv, TickPart, QueuePart
    <2>5. CheckPart' /\ PublishedPart'
      BY <2>1, <2>2 DEF FreshInv, CheckPart, PublishedPart
    <2>6. OnChainPart'
      BY <2>1, <2>2 DEF FreshInv, OnChainPart, Holds, KeeperFeed
    <2>7. QED
      BY <2>3, <2>4, <2>5, <2>6 DEF FreshInv
  <1>4. QED
    BY <1>1, <1>2, <1>3

\* The keeper's poll is answered with success: what it confirms is on chain.
LEMMA ConfirmFresh == ASSUME OracleInv, FreshInv, Confirm PROVE FreshInv'
  <1>1. PICK r : r = [price |-> sent.price, ts |-> now]
    OBVIOUS
  <1>2. /\ pc = "poll" /\ outcome = "success" /\ NextAsset
        /\ lastPublished' = [lastPublished EXCEPT ![sent.asset] = r]
        /\ UNCHANGED <<now, worldVars, chainVars, lastCheck, lastActiveAt, quiet>>
    BY <1>1 DEF Confirm
  <1>3. sent.asset = Head(queue) /\ sent.price # Skip
    BY <1>2 DEF FreshInv, QueuePart
  <1>4. r.ts = now /\ r # NoPublication
    <2>1. r.price = sent.price /\ NoPublication.price = 0
      BY <1>1 DEF NoPublication
    <2>2. QED
      BY <1>1, <1>3, <2>1 DEF Skip
  <1>5. quiet >= 1 => Holds(Head(queue), now - BACKDATE)
    BY <1>2, <1>3 DEF FreshInv, TickPart
  <1>6. UNCHANGED <<listed, needs, neededAge, config, price>>
    BY <1>2 DEF worldVars, chainVars
  <1>7. QED
    BY <1>2, <1>3, <1>4, <1>5, <1>6, VisitedFresh

\* The keeper gives up on a poll, or dies and starts again.
LEMMA FaultFresh == ASSUME OracleInv, OracleInv', FreshInv, GiveUp \/ Crash PROVE FreshInv'
  <1>1. CASE GiveUp
    <2>1. pc # "idle" /\ NextAsset /\ quiet' = 0 /\ UNCHANGED <<now, worldVars, lastCheck, lastActiveAt>>
      BY <1>1 DEF GiveUp
    <2>2. CheckPart'
      BY <2>1 DEF FreshInv, CheckPart, worldVars
    <2>3. QED
      BY <2>1, <2>2, NextQueue, AfterFault DEF FreshInv
  <1>2. CASE Crash
    <2>1. /\ pc' = "idle" /\ queue' = <<>> /\ ticked' = FALSE /\ quiet' = 0
          /\ lastCheck' = now - CHECK_INTERVAL /\ lastActiveAt' = now
      BY <1>2 DEF Crash
    <2>2. QueuePart'
      <3>1. <<>> \in Seq(Assets)
        OBVIOUS
      <3>2. QED
        BY <2>1, <3>1 DEF QueuePart
    <2>3. CheckPart'
      BY <2>1, FreshBasics DEF CheckPart
    <2>4. QED
      BY <2>1, <2>2, <2>3, AfterFault DEF FreshInv
  <1>3. QED
    BY <1>1, <1>2

\* A step of the keeper.
LEMMA KeeperFresh == ASSUME OracleInv, OracleInv', FreshInv, KeeperStep PROVE FreshInv'
  <1>1. CASE \E fails \in BOOLEAN : StartTick(fails)
    BY <1>1, StartTickFresh
  <1>2. CASE \E a \in listed : \E p \in Decisions[a][truth[a]] :
                 SkipAsset(a, p) \/ SendPrice(a, p) \/ SendFails(a, p)
    BY <1>2, VisitFresh, Zenon
  <1>3. CASE GiveUp \/ Confirm \/ Crash
    BY <1>3, FaultFresh, ConfirmFresh
  <1>4. QED
    BY <1>1, <1>2, <1>3, Zenon DEF KeeperStep

\* A feed is reconfigured, which counts as a fault, or a price is written by
\* others than the keeper.
LEMMA AdminFresh == ASSUME OracleInv, OracleInv', FreshInv, AdminStep PROVE FreshInv'
  <1>1. PICK a \in listed :
           \/ \E active \in BOOLEAN, p \in {"keeper", "other"} : SetFeed(a, p, active)
           \/ SetQuorumFeed(a) \/ UpdateOraclePublisher(a, "other")
           \/ SetupUsdcFeed(a) \/ SeedPrice(a)
           \/ \E p \in Prices : AdminWrite(a, p)
           \/ \E p \in QuorumPrices : WriteQuorumPrice(a, p, ledger)
    BY DEF AdminStep
  <1>2. a \in Assets
    BY FreshBasics
  <1>3. CASE \/ \E active \in BOOLEAN, p \in {"keeper", "other"} : SetFeed(a, p, active)
             \/ SetQuorumFeed(a) \/ SetupUsdcFeed(a)
    <2>1. quiet' = 0 /\ UNCHANGED <<now, worldVars, keeperVars, txVars>>
      BY <1>3 DEF SetupUsdcFeed, SetFeed, SetQuorumFeed
    <2>2. QueuePart' /\ CheckPart'
      BY <2>1 DEF FreshInv, QueuePart, CheckPart, worldVars, keeperVars, txVars
    <2>3. QED
      BY <2>1, <2>2, AfterFault DEF FreshInv
  <1>4. CASE UpdateOraclePublisher(a, "other")
    <2>1. UNCHANGED <<now, listed, needs, neededAge, pc, ticked, queue, lastPublished, lastCheck, lastActiveAt,
                      sent, outcome, quiet, config, price>>
      BY <1>4 DEF UpdateOraclePublisher, worldVars, keeperVars, txVars
    <2>2. \A b \in Assets : \A t \in Int : Holds(b, t) => Holds(b, t)'
      BY <2>1, ChainAtRest
    <2>3. QED
      BY <2>1, <2>2, ChainStepFresh
  <1>5. CASE \/ SeedPrice(a) \/ \E p \in Prices : AdminWrite(a, p)
             \/ \E p \in QuorumPrices : WriteQuorumPrice(a, p, ledger)
    <2>1. UNCHANGED <<now, listed, needs, neededAge, pc, ticked, queue, lastPublished, lastCheck, lastActiveAt,
                      sent, outcome, quiet>>
      BY <1>5 DEF SeedPrice, AdminWrite, WriteQuorumPrice, worldVars, keeperVars, txVars
    <2>2. PICK by, p, u, worth : PriceWrite(a, by, p, u, worth)
      BY <1>2, <1>5, WritersInv
    <2>3. \A b \in Assets : \A t \in Int : Holds(b, t) => Holds(b, t)'
      BY <2>2, WriteHolds
    <2>4. QED
      BY <2>1, <2>3, ChainStepFresh
  <1>6. QED
    BY <1>1, <1>3, <1>4, <1>5

\* A ledger takes one of the keeper's transactions, perhaps the one it polls for.
LEMMA IncludeFresh == ASSUME OracleInv, FreshInv, NEW tx \in pool, Include(tx) PROVE FreshInv'
  <1>1. PICK ok : ok = WriteAccepted(tx.asset, "keeper", tx.price, tx.publish_time, ledger)
    OBVIOUS
  <1>2. /\ price' = IF ok THEN [price EXCEPT ![tx.asset] =
                                   Snapshot(tx.asset, {"keeper"}, tx.price, tx.publish_time, tx.worth)]
                    ELSE price
        /\ outcome' = IF tx = sent THEN (IF ok THEN "success" ELSE "failed") ELSE outcome
        /\ UNCHANGED <<now, ledger, worldVars, config, keeperVars, sent, quiet>>
    BY <1>1 DEF Include
  <1>3. UNCHANGED <<now, listed, needs, neededAge, pc, ticked, queue, lastPublished, lastCheck, lastActiveAt,
                    sent, quiet>>
    BY <1>2 DEF worldVars, keeperVars
  <1>4. \A b \in Assets : \A t \in Int : Holds(b, t) => Holds(b, t)'
    <2>1. CASE UNCHANGED <<price, config, ledger>>
      BY <2>1, ChainAtRest
    <2>2. CASE PriceWrite(tx.asset, {"keeper"}, tx.price, tx.publish_time, tx.worth)
      BY <2>2, WriteHolds
    <2>3. QED
      BY <2>1, <2>2, WritersInv
  <1>5. ASSUME quiet >= 1, pc = "poll", outcome' = "success", outcome # "success"
        PROVE  Holds(sent.asset, now - BACKDATE)'
    <2>1. tx = sent /\ ok
      BY <1>2, <1>5
    <2>2. PICK h \in Assets : h = sent.asset
      BY <1>5, AtHead
    <2>3. sent.publish_time = now - BACKDATE
      BY <1>5 DEF FreshInv, TickPart
    <2>4. PICK s : s = Snapshot(h, {"keeper"}, tx.price, tx.publish_time, tx.worth)
      OBVIOUS
    <2>5. price'[h] = s
      BY <1>2, <2>1, <2>2, <2>4 DEF OracleInv, AdapterPart
    <2>6. s.source = config[h].source /\ s.publish_time = now - BACKDATE
      BY <2>1, <2>3, <2>4 DEF Snapshot
    <2>7. KeeperFeed(h)' => s.source = "RedStone" /\ s # NoPrice
      <3>1. NoPrice.source = "none"
        BY DEF NoPrice
      <3>2. KeeperFeed(h)' => config[h].source = "RedStone"
        BY <1>2 DEF KeeperFeed
      <3>3. QED
        BY <2>6, <3>1, <3>2
    <2>8. now - BACKDATE \in Int
      BY FreshBasics
    <2>9. Holds(h, now - BACKDATE)'
      BY <1>3, <2>5, <2>6, <2>7, <2>8 DEF Holds
    <2>10. QED
      BY <1>3, <2>2, <2>9
  <1>6. QED
    BY <1>3, <1>4, <1>5, ChainStepFresh

\* A unit of time passes.  If the tick of this unit was a healthy and a needed one,
\* all that is listed was current, and is now at most a heartbeat old.
LEMMA ClockFresh == ASSUME OracleInv, OracleInv', FreshInv, AdvanceClock PROVE FreshInv'
  <1>1. /\ now' = now + 1 /\ ticked' = FALSE /\ quiet' = (IF ticked THEN Older(quiet, Settle) ELSE 0)
        /\ neededAge' = (IF needs = {} THEN 0 ELSE Older(neededAge, CHECK_INTERVAL))
        /\ UNCHANGED <<listed, needs, config, price, pc, queue, lastPublished, lastCheck, lastActiveAt, sent, outcome>>
    BY DEF AdvanceClock, chainVars
  <1>2. quiet' >= 1 => ticked /\ pc = "idle"
    BY <1>1 DEF FreshInv, QueuePart
  <1>3. /\ quiet' >= 2 => ticked /\ quiet >= 1
        /\ quiet' <= quiet + 1 /\ quiet' \in Nat
    BY <1>1, FreshBasics, DelaysFit DEF Older
  <1>4. /\ needs # {} => neededAge' <= neededAge + 1 /\ neededAge' \in Nat
        /\ needs # {} /\ neededAge' > CHECK_INTERVAL => neededAge >= CHECK_INTERVAL
    BY <1>1, FreshBasics DEF Older
  <1>5. QueuePart'
    BY <1>1 DEF FreshInv, QueuePart
  <1>6. TickPart'
    BY <1>1, <1>2 DEF TickPart
  <1>7. CheckPart'
    BY <1>1, <1>4, FreshBasics DEF FreshInv, CheckPart
  <1>8. PublishedPart'
    <2>1. SUFFICES ASSUME needs # {}, neededAge' > CHECK_INTERVAL, quiet' >= 2, NEW a \in listed
                   PROVE  lastPublished[a] # NoPublication /\ now' - lastPublished[a].ts <= HEARTBEAT
      BY <1>1 DEF PublishedPart
    <2>2. now - lastCheck < CHECK_INTERVAL
      BY <1>3, <2>1 DEF FreshInv, TickPart
    <2>3. lastActiveAt >= lastCheck
      <3>1. lastCheck > now - neededAge
        BY <1>4, <2>1, <2>2, FreshBasics
      <3>2. QED
        BY <2>1, <3>1 DEF FreshInv, CheckPart
    <2>4. now - lastActiveAt < IDLE_GRACE
      BY <2>2, <2>3, FreshBasics, DelaysFit
    <2>5. Current(a)
      BY <1>3, <2>1, <2>4 DEF FreshInv, TickPart
    <2>6. a \in Assets
      BY FreshBasics
    <2>7. QED
      BY <1>1, <2>5, <2>6, FreshBasics DEF Current
  <1>9. OnChainPart'
    <2>1. SUFFICES ASSUME NEW a \in listed, lastPublished[a] # NoPublication, lastPublished[a].ts > now' - quiet'
                   PROVE  Holds(a, lastPublished[a].ts - BACKDATE)
      BY <1>1 DEF OnChainPart, Holds, KeeperFeed
    <2>2. a \in Assets
      BY FreshBasics
    <2>3. lastPublished[a].ts > now - quiet
      BY <1>1, <1>3, <2>1, <2>2, FreshBasics
    <2>4. QED
      BY <2>1, <2>3 DEF FreshInv, OnChainPart
  <1>10. QED
    BY <1>5, <1>6, <1>7, <1>8, <1>9 DEF FreshInv

\* The world's and the network's steps.
LEMMA WorldFresh == ASSUME OracleInv, OracleInv', FreshInv, WorldStep PROVE FreshInv'
  <1>1. CASE \E tx \in pool : Include(tx)
    BY <1>1, IncludeFresh
  <1>2. CASE AdvanceClock
    BY <1>2, ClockFresh
  <1>3. ASSUME NEW a \in listed, NEW p \in Prices, MoveTruth(a, p)
        PROVE  FreshInv'
    <2>1. UNCHANGED <<now, listed, needs, neededAge, pc, ticked, queue, lastPublished, lastCheck, lastActiveAt,
                      sent, outcome, quiet, config, price>>
      BY <1>3 DEF MoveTruth, chainVars, keeperVars, txVars
    <2>2. \A b \in Assets : \A t \in Int : Holds(b, t) => Holds(b, t)'
      BY <2>1, ChainAtRest
    <2>3. QED
      BY <2>1, <2>2, ChainStepFresh
  <1>4. ASSUME NEW ns \in SUBSET Signals, ChangeNeeds(ns)
        PROVE  FreshInv'
    <2>1. /\ neededAge' = (IF needs = {} THEN 0 ELSE neededAge)
          /\ UNCHANGED <<now, listed, pc, ticked, queue, lastPublished, lastCheck, lastActiveAt,
                         sent, outcome, quiet, config, price>>
      BY <1>4 DEF ChangeNeeds, chainVars, keeperVars, txVars
    <2>2. QueuePart'
      BY <2>1 DEF FreshInv, QueuePart
    <2>3. TickPart'
      BY <2>1 DEF FreshInv, TickPart, Current, Holds, KeeperFeed
    <2>4. CheckPart' /\ PublishedPart'
      BY <2>1, FreshBasics DEF FreshInv, CheckPart, PublishedPart
    <2>5. OnChainPart'
      BY <2>1 DEF FreshInv, OnChainPart, Holds, KeeperFeed
    <2>6. QED
      BY <2>2, <2>3, <2>4, <2>5 DEF FreshInv
  <1>5. QED
    BY <1>1, <1>2, <1>3, <1>4 DEF WorldStep

\* Every step keeps it.
LEMMA FreshNext == ASSUME OracleInv, FreshInv, [Next]_vars PROVE FreshInv'
  <1>1. OracleInv'
    BY OracleNextInv
  <1>2. CASE UNCHANGED vars
    <2>1. UNCHANGED <<now, listed, needs, neededAge, pc, ticked, queue, lastPublished, lastCheck, lastActiveAt,
                      sent, outcome, quiet, config, price>>
      BY <1>2 DEF vars, worldVars, chainVars, keeperVars, txVars
    <2>2. \A b \in Assets : \A t \in Int : Holds(b, t) => Holds(b, t)'
      BY <2>1, ChainAtRest
    <2>3. QED
      BY <2>1, <2>2, ChainStepFresh
  <1>3. QED
    BY <1>1, <1>2, KeeperFresh, AdminFresh, WorldFresh DEF Next

\* While the protocol needs prices and the keeper's ticks are healthy, every feed
\* of the keeper can be read: what tick publishes, skips and sleeps through, the
\* backdate and the guard's age fit together, for any of these delays that satisfy
\* DelaysFit, any assets and prices, and transactions that land late or never.
THEOREM PricesStayFresh == Spec => []FreshWhenNeeded
  <1>1. OracleInv /\ FreshInv /\ [Next]_vars => OracleInv' /\ FreshInv'
    BY OracleNextInv, FreshNext
  <1>2. Init => OracleInv /\ FreshInv
    BY OracleInitInv, FreshInit
  <1>3. QED
    BY <1>1, <1>2, FreshIsEnough, PTL DEF Spec
=============================================================================
