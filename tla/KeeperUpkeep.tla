---------------------------- MODULE KeeperUpkeep ----------------------------
(* What keeps the keepers and the contracts alive between incidents: the        *)
(* refill that buys XLM with protocol USDC and tops the keepers' wallets up      *)
(* (client/scripts/keeper-refill.ts), and the daily TTL keeper that extends      *)
(* contract instances and code out of its own wallet (scripts/ttl-keeper.ts).    *)
(*                                                                               *)
(* Amounts are small naturals: XLM in units of a keeper's fee, TTLs in days      *)
(* counted in the policy's own steps.  A refill is started when no transaction   *)
(* of an earlier one can still land (its 60 s time bound).                       *)
EXTENDS Integers, FiniteSetsExt

CONSTANTS Keepers,      \* wallets the refill knows, in the order 1..n
          TtlWallet,    \* the one that pays for TTL extensions
          Floor, Target,       \* KEEPER_XLM_FLOOR, KEEPER_XLM_TARGET
          Reserve,             \* SOURCE_XLM_RESERVE
          MaxUsdc,             \* REFILL_MAX_USDC
          Quotes,              \* USDC per XLM the order book may quote
          Slip,                \* REFILL_SLIPPAGE_BPS, as a share in hundredths
          SourceXlm, SourceUsdc,   \* what the funding account starts with
          Entries,             \* what the TTL keeper extends: the contract instances,
                               \* and on mainnet the code entries its manifest lists
          Threshold, ExtendTo, \* THRESHOLD_LEDGERS, EXTEND_TO_LEDGERS
          Ceiling,             \* FEE_CEILING_XLM
          MaxMissed,           \* daily TTL runs in a row that may fail, for whatever reason
          MaxDays, MaxRefills  \* bounds on the days and refills explored

ASSUME UpkeepAssumption ==
    /\ Keepers \subseteq Nat /\ IsFiniteSet(Keepers) /\ TtlWallet \in Keepers
    /\ {Floor, Target, Reserve, Slip, SourceXlm, SourceUsdc, Threshold, ExtendTo, Ceiling, MaxMissed} \subseteq Nat
    /\ 0 < Floor /\ Floor <= Target /\ Quotes \subseteq Nat
    /\ MaxMissed + 2 <= Threshold /\ Threshold < ExtendTo
    /\ Cardinality(Entries) * ExtendTo <= Ceiling

VARIABLES
    xlm,      \* XLM of each keeper's wallet
    source,   \* XLM of the funding account
    usdc,     \* USDC of the funding account
    refill,   \* the refill's place and plan
    pending,  \* the funding account's transaction that may still be included
    runs,     \* refills started
    ttl,      \* days each ledger entry has left; 0: archived
    ttlRun,   \* today's TTL run: "due", "sent" or "over"
    due,      \* the entries its transaction names
    missed,   \* failed TTL runs in a row
    day

refillVars == <<source, usdc, refill, pending, runs>>
ttlVars == <<ttl, ttlRun, due, missed, day>>
upkeepVars == <<xlm, refillVars, ttlVars>>

NoPayment == [kind |-> "none", to |-> 0, amount |-> 0, max |-> 0]
NoPlan == [k \in Keepers |-> 0]
Off == [pc |-> "off", at |-> 0, need |-> NoPlan, buy |-> 0, max |-> 0, execute |-> FALSE]

UpkeepInit ==
    /\ xlm \in [Keepers -> 0..Target]
    /\ source = SourceXlm /\ usdc = SourceUsdc
    /\ refill = Off /\ pending = NoPayment /\ runs = 0
    /\ ttl \in [Entries -> Threshold..ExtendTo]
    /\ ttlRun = "due" /\ due = {} /\ missed = 0 /\ day = 0

-----------------------------------------------------------------------------
(* Keeper refill *)

NextKeeper(k) == IF \E j \in Keepers : j > k THEN Min({j \in Keepers : j > k}) ELSE 0

StartRefill ==
    /\ refill.pc = "off" /\ pending = NoPayment /\ runs < MaxRefills
    /\ \E execute \in BOOLEAN :
           refill' = [Off EXCEPT !.pc = "read", !.at = Min(Keepers), !.execute = execute]
    /\ runs' = runs + 1
    /\ UNCHANGED <<xlm, source, usdc, pending, ttlVars>>

\* nativeBalance of the next keeper; a wallet at or above the floor is left alone.
ReadKeeper ==
    /\ refill.pc = "read"
    /\ LET k == refill.at
           need == IF xlm[k] >= Floor THEN 0 ELSE Target - xlm[k]
       IN  refill' = [refill EXCEPT !.need[k] = need, !.at = NextKeeper(k),
                                    !.pc = IF NextKeeper(k) = 0 THEN "plan" ELSE "read"]
    /\ UNCHANGED <<xlm, source, usdc, pending, runs, ttlVars>>

\* Horizon fails: the read throws and the run is over.
ReadThrows ==
    /\ refill.pc \in {"read", "plan"}
    /\ refill' = Off
    /\ UNCHANGED <<xlm, source, usdc, pending, runs, ttlVars>>

TotalNeed(need) == SumFunction(need)

\* Mutant: the funding account may be emptied.
MutantSpendable == source

Spendable == Max({0, source - Reserve})
Shortfall == Max({0, TotalNeed(refill.need) - Spendable})
MaxCost(quoted) == quoted + (quoted * Slip + 99) \div 100

\* The plan: nothing to do, nothing to buy, or a swap within the cap.  A dry run
\* stops here, and so does a swap that has no path or costs too much.
Plan ==
    /\ refill.pc = "plan"
    /\ \/ /\ TotalNeed(refill.need) = 0
          /\ refill' = Off
       \/ /\ TotalNeed(refill.need) > 0 /\ Shortfall = 0
          /\ refill' = IF refill.execute THEN [refill EXCEPT !.pc = "pay", !.at = Min(Keepers)] ELSE Off
       \/ /\ Shortfall > 0
          /\ \E price \in Quotes :
                 LET max == MaxCost(Shortfall * price)
                 IN  refill' = IF max <= MaxUsdc /\ refill.execute
                               THEN [refill EXCEPT !.pc = "swap", !.buy = Shortfall, !.max = max]
                               ELSE Off
    /\ UNCHANGED <<xlm, source, usdc, pending, runs, ttlVars>>

\* The swap is submitted; Horizon waits for its inclusion.
SubmitSwap ==
    /\ refill.pc = "swap" /\ pending = NoPayment
    /\ pending' = [kind |-> "swap", to |-> 0, amount |-> refill.buy, max |-> refill.max]
    /\ refill' = [refill EXCEPT !.pc = "swapping"]
    /\ UNCHANGED <<xlm, source, usdc, runs, ttlVars>>

\* The next payment.  A payment that timed out has the same sequence number as
\* this one: this one replaces it or is refused.
SubmitPayment ==
    /\ refill.pc = "pay" /\ refill.need[refill.at] > 0
    /\ \/ /\ pending' = [kind |-> "pay", to |-> refill.at, amount |-> refill.need[refill.at], max |-> 0]
          /\ refill' = [refill EXCEPT !.pc = "paying"]
       \/ /\ pending # NoPayment
          /\ refill' = [refill EXCEPT !.pc = "paid"]
          /\ UNCHANGED pending
    /\ UNCHANGED <<xlm, source, usdc, runs, ttlVars>>

\* The loop goes on; a keeper without a deficit has no payment.
PayNext ==
    /\ \/ refill.pc = "paid"
       \/ refill.pc = "pay" /\ refill.need[refill.at] = 0
    /\ refill' = IF NextKeeper(refill.at) = 0 THEN Off
                 ELSE [refill EXCEPT !.pc = "pay", !.at = NextKeeper(refill.at)]
    /\ UNCHANGED <<xlm, source, usdc, pending, runs, ttlVars>>

\* submitTransaction returns or throws: after a swap that throws the run is over,
\* after a payment that throws the next keeper is paid.  A time-out throws too,
\* and leaves the transaction pending.
SubmitReturns ==
    /\ \/ /\ refill.pc = "swapping"
          /\ \/ pending = NoPayment /\ refill' = [refill EXCEPT !.pc = "pay", !.at = Min(Keepers)]
             \/ refill' = Off
       \/ /\ refill.pc = "paying"
          /\ refill' = [refill EXCEPT !.pc = "paid"]
    /\ UNCHANGED <<xlm, source, usdc, pending, runs, ttlVars>>

\* The ledger includes the transaction.  A path payment pays at most its sendMax;
\* a payment the account cannot make fails.
PaymentLands ==
    /\ \/ /\ pending.kind = "swap"
          /\ \E cost \in 0..pending.max :
                 /\ cost <= usdc
                 /\ usdc' = usdc - cost
          /\ source' = source + pending.amount
          /\ UNCHANGED xlm
       \/ /\ pending.kind = "pay" /\ pending.amount <= source
          /\ source' = source - pending.amount
          /\ xlm' = [xlm EXCEPT ![pending.to] = @ + pending.amount]
          /\ UNCHANGED usdc
    /\ pending' = NoPayment
    /\ UNCHANGED <<refill, runs, ttlVars>>

\* It fails or expires.  A swap that failed is not taken for one that succeeded:
\* submitTransaction throws.
PaymentLost ==
    /\ pending # NoPayment
    /\ pending' = NoPayment
    /\ refill' = IF refill.pc = "swapping" THEN Off ELSE refill
    /\ UNCHANGED <<xlm, source, usdc, runs, ttlVars>>

\* A keeper's service pays fees all the time.
Spend(k) ==
    /\ xlm[k] > 0
    /\ xlm' = [xlm EXCEPT ![k] = @ - 1]
    /\ UNCHANGED <<refillVars, ttlVars>>

-----------------------------------------------------------------------------
(* TTL keeper *)

\* Mutant: an entry is left alone until its last day.
MutantNeedsExtension == {e \in Entries : ttl[e] = 1}

NeedsExtension == {e \in Entries : ttl[e] > 0 /\ ttl[e] < Threshold}

\* Rent is charged for the increase only.
RentFee(S) == SumFunction([e \in S |-> ExtendTo - ttl[e]])

\* Nothing to extend.
TtlHealthy ==
    /\ ttlRun = "due" /\ NeedsExtension = {}
    /\ ttlRun' = "over" /\ missed' = 0
    /\ UNCHANGED <<xlm, refillVars, ttl, due, day>>

\* Entries below the threshold go into one transaction, unless it costs more
\* than the ceiling.
TtlSubmit ==
    /\ ttlRun = "due" /\ NeedsExtension # {}
    /\ RentFee(NeedsExtension) <= Ceiling /\ xlm[TtlWallet] > 0
    /\ ttlRun' = "sent" /\ due' = NeedsExtension
    /\ UNCHANGED <<xlm, refillVars, ttl, missed, day>>

\* The run fails: the RPC throws, the ceiling or the wallet refuses it, or the
\* transaction fails or expires.
TtlFails ==
    /\ ttlRun \in {"due", "sent"} /\ missed < MaxMissed
    /\ ttlRun' = "over" /\ due' = {} /\ missed' = missed + 1
    /\ UNCHANGED <<xlm, refillVars, ttl, day>>

\* extendFootprintTtl never shortens an entry.
TtlExtends ==
    /\ ttlRun = "sent" /\ xlm[TtlWallet] > 0
    /\ ttl' = [e \in Entries |-> IF e \in due THEN Max({ttl[e], ExtendTo}) ELSE ttl[e]]
    /\ xlm' = [xlm EXCEPT ![TtlWallet] = @ - 1]
    /\ ttlRun' = "over" /\ due' = {} /\ missed' = 0
    /\ UNCHANGED <<refillVars, day>>

DayPasses ==
    /\ ttlRun = "over" /\ day < MaxDays
    /\ day' = day + 1 /\ ttlRun' = "due"
    /\ ttl' = [e \in Entries |-> Max({0, ttl[e] - 1})]
    /\ UNCHANGED <<xlm, refillVars, due, missed>>

-----------------------------------------------------------------------------
RefillStep ==
    StartRefill \/ ReadKeeper \/ ReadThrows \/ Plan \/ SubmitSwap \/ SubmitPayment \/ PayNext
    \/ SubmitReturns \/ PaymentLands \/ PaymentLost
TtlStep == TtlHealthy \/ TtlSubmit \/ TtlFails \/ TtlExtends \/ DayPasses
UpkeepNext == RefillStep \/ (\E k \in Keepers : Spend(k)) \/ TtlStep
UpkeepSpec == UpkeepInit /\ [][UpkeepNext]_upkeepVars

UpkeepTypeOK ==
    /\ xlm \in [Keepers -> Nat] /\ source \in Nat /\ usdc \in Nat
    /\ refill.pc \in {"off", "read", "plan", "swap", "swapping", "pay", "paying", "paid"}
    /\ refill.need \in [Keepers -> 0..Target]
    /\ ttl \in [Entries -> 0..ExtendTo] /\ due \subseteq Entries
    /\ ttlRun \in {"due", "sent", "over"} /\ missed \in 0..MaxMissed

\* The funding account keeps its reserve and no keeper is filled beyond the
\* target, although payments and swaps time out, land late or replace each other
\* while the keepers go on spending.
RefillStaysInBounds ==
    /\ UpkeepTypeOK
    /\ source >= Min({Reserve, SourceXlm})
    /\ \A k \in Keepers : xlm[k] <= Target

\* No entry the TTL keeper looks after is archived as long as no more than MaxMissed
\* daily runs in a row fail.  (Code entries outside its manifest, and all of them on
\* testnet, it skips.)
NothingArchived == \A e \in Entries : ttl[e] > 0
=============================================================================
