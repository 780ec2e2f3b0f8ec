--------------------------- MODULE CollateralDesk ---------------------------
(***************************************************************************)
(* Depositing and withdrawing collateral from the web client.  A dialog    *)
(* shows what it read of the vault and of the wallet, builds a transaction *)
(* on the account's sequence number, simulates it, has the wallet sign it, *)
(* sends it and watches it for thirty polls.  A trader who is told that it *)
(* failed may press again, and so may one whose page was loaded anew.  Two *)
(* dialogs of one tab share the reads and the account; one asset, other    *)
(* than the settlement asset, and one account without positions.           *)
(***************************************************************************)
EXTENDS Integers, FiniteSets, FiniteSetsExt

CONSTANTS
    Desks,          \* the open dialogs
    Purse,          \* the account's tokens at the start
    DepositCap,     \* the vault's cap, or Uncapped
    BridgeStep,     \* the smallest amount that can leave the chain
    MaxSent,        \* bound on the transactions built
    MaxMishaps      \* bound on page loads, delistings and other traders' deposits

Uncapped == -1

ASSUME DeskConstants ==
    /\ Purse \in Nat /\ BridgeStep \in Nat \ {0} /\ DepositCap \in Nat \cup {Uncapped}
    /\ MaxSent \in Nat /\ MaxMishaps \in Nat

VARIABLES
    wallet,     \* the account's tokens
    balance,    \* its balance in the vault
    total,      \* the vault's deposits of the asset, everybody's
    active,     \* the vault lists the asset
    hasView,    \* the vault answers the collateral view
    trustline,  \* the account can hold the asset
    seqNum,     \* the account's sequence number
    view,       \* what the dialogs last read, or NoView
    desk,       \* the step of each dialog and the transaction it is about
    sent,       \* every transaction built so far
    confirmed,  \* history: transactions reported as confirmed
    rivals,     \* history: for each transaction, those undecided when it was built
    mishaps     \* history: mishaps so far

deskVars == <<wallet, balance, total, active, hasView, trustline, seqNum, view, desk, sent, confirmed, rivals,
              mishaps>>
vaultVars == <<balance, total, active, hasView>>
historyVars == <<confirmed, rivals, mishaps>>

NoView == [listed |-> FALSE, headroom |-> 0, wallet |-> 0, balance |-> 0, trustline |-> TRUE]
AtRest == [step |-> "idle", id |-> 0]
SentIds == 1..MaxSent
Unbuilt == [state |-> "none", kind |-> "none", amount |-> 0, seq |-> 0]

Mishap == mishaps < MaxMishaps /\ mishaps' = mishaps + 1
DeskGoes(d, step) == desk' = [desk EXCEPT ![d].step = step]
Rests(d) == desk' = [desk EXCEPT ![d] = AtRest]

-----------------------------------------------------------------------------
(* What the dialogs read.                                                  *)

\* A vault without the view has listed an asset if it has capped it.
ListVaultCollateral == IF hasView THEN active ELSE DepositCap # Uncapped

CapHeadroom == IF DepositCap = Uncapped THEN Uncapped ELSE IF DepositCap > total THEN DepositCap - total ELSE 0

\* A failed Horizon read counts as a trustline.
HasTrustline == {trustline, TRUE}

Snapshot(trust) ==
    [listed |-> ListVaultCollateral, headroom |-> CapHeadroom, wallet |-> wallet, balance |-> balance,
     trustline |-> trust]

Refetch ==
    /\ \E trust \in HasTrustline : view' = Snapshot(trust)
    /\ UNCHANGED <<wallet, vaultVars, trustline, seqNum, desk, sent, historyVars>>

\* What the form lets through.
OverCap(amount) == view.headroom # Uncapped /\ amount > view.headroom
OverMax(kind, amount) == amount > IF kind = "withdraw" THEN view.balance ELSE view.wallet

RoundToBridgeable(raw) == (raw \div BridgeStep) * BridgeStep

-----------------------------------------------------------------------------
(* The vault.                                                              *)

\* What a deposit or a withdrawal is checked for when it is simulated and again
\* when it lands.
VaultAccepts(kind, amount) ==
    /\ kind \in {"deposit", "withdraw"} => active
    /\ kind = "deposit" => amount <= wallet /\ trustline
                           /\ (DepositCap # Uncapped => total + amount <= DepositCap)
    /\ kind = "withdraw" => amount <= balance /\ trustline

Moves(kind, amount) ==
    LET signed == IF kind = "deposit" THEN amount ELSE -amount
    IN  /\ wallet' = wallet - signed
        /\ balance' = balance + signed
        /\ total' = Max({0, total + signed})

-----------------------------------------------------------------------------
(* A transaction from press to answer.                                     *)

FreeIds == {i \in SentIds : sent[i].state = "none"}
Undecided == {i \in SentIds : sent[i].state \in {"built", "pending"}}

\* Mutant: the client counts its undecided transactions as already included.
MutantNextSequence(known) == known + 1 + Cardinality(Undecided)

\* The account's sequence number as the node knows it, which may lag, and
\* whatever is still in flight.
NextSequence(known) == known + 1

BuildTx(d, kind, amount, step) ==
    /\ desk[d] = AtRest /\ FreeIds # {}
    /\ LET i == Min(FreeIds)
       IN  /\ \E known \in 0..seqNum :
                 sent' = [sent EXCEPT ![i] = [state |-> "built", kind |-> kind, amount |-> amount,
                                              seq |-> NextSequence(known)]]
           /\ rivals' = [rivals EXCEPT ![i] = Undecided]
           /\ desk' = [desk EXCEPT ![d] = [step |-> step, id |-> i]]
    /\ UNCHANGED <<wallet, vaultVars, trustline, seqNum, view, confirmed, mishaps>>

\* run, deposit and withdraw, buildContractCall.
Run(d, kind, amount) ==
    LET raw == IF kind = "withdraw" THEN RoundToBridgeable(amount) ELSE amount
    IN  /\ view.listed /\ ~OverMax(kind, amount) /\ (kind = "deposit" => ~OverCap(amount) /\ view.trustline)
        /\ raw > 0
        /\ BuildTx(d, kind, raw, "simulate")

\* The trustline is a transaction of its own on the same sequence numbers, built
\* and submitted through Horizon without a simulation.
AddTrustline(d) == view.listed /\ ~view.trustline /\ BuildTx(d, "trust", 0, "sign")

\* The simulation runs on the state of its moment, the wallet signs.
Simulate(d) ==
    /\ desk[d].step = "simulate"
    /\ VaultAccepts(sent[desk[d].id].kind, sent[desk[d].id].amount)
    /\ DeskGoes(d, "sign")
    /\ UNCHANGED <<wallet, vaultVars, trustline, seqNum, view, sent, historyVars>>

\* The simulation refuses, the trader declines, or the send is an ERROR.
InvokeThrows(d) ==
    /\ desk[d].step \in {"simulate", "sign"}
    /\ Rests(d)
    /\ sent' = [sent EXCEPT ![desk[d].id].state = "dropped"]
    /\ UNCHANGED <<wallet, vaultVars, trustline, seqNum, view, historyVars>>

\* The network takes the transaction, or asks to try again later, which the
\* client does not tell apart from taking it.
SendTransaction(d) ==
    /\ desk[d].step = "sign"
    /\ \E fate \in {"pending", "dropped"} : sent' = [sent EXCEPT ![desk[d].id].state = fate]
    /\ DeskGoes(d, "watch")
    /\ UNCHANGED <<wallet, vaultVars, trustline, seqNum, view, historyVars>>

\* A ledger includes it if its sequence number is the next; the vault decides.
Lands(i) ==
    /\ sent[i].state = "pending" /\ sent[i].seq = seqNum + 1
    /\ seqNum' = seqNum + 1
    /\ trustline' = (trustline \/ sent[i].kind = "trust")
    /\ IF VaultAccepts(sent[i].kind, sent[i].amount)
       THEN Moves(sent[i].kind, sent[i].amount) /\ sent' = [sent EXCEPT ![i].state = "success"]
       ELSE UNCHANGED <<wallet, balance, total>> /\ sent' = [sent EXCEPT ![i].state = "failed"]
    /\ UNCHANGED <<active, hasView, view, desk, historyVars>>

\* Its time bounds pass, or its sequence number is used up.
Expires(i) ==
    /\ sent[i].state = "pending"
    /\ sent' = [sent EXCEPT ![i].state = "dropped"]
    /\ UNCHANGED <<wallet, vaultVars, trustline, seqNum, view, desk, historyVars>>

\* A poll finds it included: the dialog closes and what it showed is read again,
\* after a deposit or withdrawal all but the trustline, after a trustline that
\* and the wallet.
SeesSuccess(d) ==
    /\ desk[d].step = "watch" /\ sent[desk[d].id].state = "success"
    /\ confirmed' = confirmed \cup {desk[d].id}
    /\ Rests(d)
    /\ view' = IF sent[desk[d].id].kind = "trust"
               THEN [view EXCEPT !.trustline = TRUE, !.wallet = wallet]
               ELSE Snapshot(view.trustline)
    /\ UNCHANGED <<wallet, vaultVars, trustline, seqNum, sent, rivals, mishaps>>

\* A poll finds it failed, a poll breaks, or thirty polls have found nothing: the
\* trader is told that it failed, though in the last two cases it may be included
\* already or land later.
ReportsFailure(d) ==
    /\ desk[d].step = "watch"
    /\ Rests(d)
    /\ UNCHANGED <<wallet, vaultVars, trustline, seqNum, view, sent, historyVars>>

\* The page is loaded again: every dialog and every read is gone, what was not
\* sent never will be, and what was sent lives on.
PageLoads ==
    /\ Mishap
    /\ desk' = [d \in Desks |-> AtRest] /\ view' = NoView
    /\ sent' = [i \in SentIds |-> IF sent[i].state = "built" THEN [sent[i] EXCEPT !.state = "dropped"] ELSE sent[i]]
    /\ UNCHANGED <<wallet, vaultVars, trustline, seqNum, confirmed, rivals>>

-----------------------------------------------------------------------------
(* Everybody else.                                                         *)

\* Governance lists or delists the asset.
SetCollateral ==
    /\ Mishap
    /\ active' = ~active
    /\ UNCHANGED <<wallet, balance, total, hasView, trustline, seqNum, view, desk, sent, confirmed, rivals>>

\* Another trader deposits.
OthersDeposit ==
    /\ Mishap /\ active
    /\ DepositCap # Uncapped => total < DepositCap
    /\ total' = total + 1
    /\ UNCHANGED <<wallet, balance, active, hasView, trustline, seqNum, view, desk, sent, confirmed, rivals>>

-----------------------------------------------------------------------------
DeskInit ==
    /\ trustline \in BOOLEAN
    /\ wallet = IF trustline THEN Purse ELSE 0
    /\ balance = Purse - wallet /\ total = balance
    /\ active \in BOOLEAN /\ hasView \in BOOLEAN
    /\ seqNum = 0 /\ view = NoView
    /\ desk = [d \in Desks |-> AtRest]
    /\ sent = [i \in SentIds |-> Unbuilt]
    /\ confirmed = {} /\ rivals = [i \in SentIds |-> {}] /\ mishaps = 0

DeskStep(d) ==
    \/ \E kind \in {"deposit", "withdraw"}, amount \in 1..Purse : Run(d, kind, amount)
    \/ AddTrustline(d)
    \/ Simulate(d) \/ InvokeThrows(d) \/ SendTransaction(d)
    \/ SeesSuccess(d) \/ ReportsFailure(d)

DeskNext ==
    \/ Refetch \/ PageLoads \/ SetCollateral \/ OthersDeposit
    \/ \E d \in Desks : DeskStep(d)
    \/ \E i \in SentIds : Lands(i) \/ Expires(i)

DeskSpec == DeskInit /\ [][DeskNext]_deskVars

-----------------------------------------------------------------------------
\* Pressing again pays once: of a deposit, withdrawal or trustline and one that
\* was undecided when it was built (after a timeout, a broken poll or a page load,
\* or from the other dialog) at most one is ever included, however the limits, the
\* listing and the nodes' lag race; and what a dialog confirmed did happen.  It says
\* nothing of a transaction that was included before the second press: the client
\* does not look for it, and the second is paid beside it.
Included(i) == sent[i].state \in {"success", "failed"}
RetryPaysOnce ==
    /\ \A i \in SentIds : \A k \in rivals[i] : ~(Included(i) /\ Included(k))
    /\ \A i \in confirmed : sent[i].state = "success"
    /\ wallet >= 0 /\ balance >= 0 /\ balance <= total
=============================================================================
