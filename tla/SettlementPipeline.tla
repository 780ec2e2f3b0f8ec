------------------------- MODULE SettlementPipeline -------------------------
(***************************************************************************)
(* From match to chain: the matcher service persists a fill statement by   *)
(* statement and settles it; the sign route collects both parties' auth    *)
(* entries and submits; the reconciler confirms, resubmits and expires.    *)
(* All three share the database (orders, fills, jobs) and see the chain    *)
(* through an RPC whose answers may be lost.  Every SQL statement is one   *)
(* step; between two of them any other process may run.                    *)
(*                                                                         *)
(* One maker order meets one taker order per job, each taker of size one,  *)
(* so that a job (its payload hash is a function of the two orders and the *)
(* size) names a fill.  A taker's order carries the name of its job.  The  *)
(* hash has 31 bits: two fills with the same one would share their job row *)
(* and a rollback would delete both, a case that is left out.              *)
(***************************************************************************)
EXTENDS Integers, Sequences, FiniteSets, FiniteSetsExt

CONSTANTS
    Jobs,
    Maker,          \* the maker's order
    MakerSize,      \* its size
    SignedJobs,     \* jobs whose two orders carry settlement signatures
    Poisoned,       \* of these, the ones whose taker's signature does not verify
    Cancellable,    \* orders whose owner may cancel through the API
    MaxTxs,         \* bound on the transactions ever broadcast
    MaxCrashes      \* bound on crashes and failed statements

ASSUME PipelineConstants ==
    /\ IsFiniteSet(Jobs) /\ Maker \notin Jobs
    /\ MakerSize \in Nat \ {0}
    /\ SignedJobs \subseteq Jobs
    /\ Poisoned \subseteq SignedJobs
    /\ Cancellable \subseteq Jobs \cup {Maker}
    /\ MaxTxs \in Nat /\ MaxCrashes \in Nat

VARIABLES
    filled,     \* Order.filledSize
    cancelled,  \* the orders with Order.cancelled
    fill,       \* the job's Fill rows: "pending" under the payload hash, "linked"
                \* under the hash of the transaction that settled it
    job,        \* the job's TxJob row
    matcher,    \* the matcher: its step, and the matches left in this tick
    route,      \* a sign request per job and party
    reconciler, \* the reconciler: its step and the row it read
    tx,         \* every transaction broadcast so far
    settled,    \* how often the gateway has settled each fill
    crashes     \* history: crashes and failed statements so far

dbVars == <<filled, cancelled, fill, job>>
chainVars == <<tx, settled>>
vars == <<dbVars, matcher, route, reconciler, chainVars, crashes>>

Orders == Jobs \cup {Maker}
Parties == {"maker", "taker"}
Requests == Jobs \X Parties
TxIds == 1..MaxTxs
NoTx == 0
NoJob == [status |-> "absent", hash |-> NoTx, signed |-> {}]

Size(o) == IF o = Maker THEN MakerSize ELSE 1
Current == Head(matcher.todo)

-----------------------------------------------------------------------------
(* The chain and the RPC.                                                  *)

\* The gateway accepts each fill once, within the maker's size.
Accepts(j) == settled[j] = 0 /\ SumFunction(settled) < MakerSize

Unused == {t \in TxIds : tx[t].state = "unused"}
FreshTx == Min(Unused)

Broadcast(t, j) ==
    /\ t = FreshTx
    /\ tx' = [tx EXCEPT ![t] = [job |-> j, state |-> "pending"]]
    /\ UNCHANGED settled

\* A transaction is included; it fails if the gateway refuses the fill, and may
\* fail on a check this module leaves out (margin, price band, pause).
TxSucceeds(t) ==
    /\ tx[t].state = "pending" /\ Accepts(tx[t].job)
    /\ tx' = [tx EXCEPT ![t].state = "success"]
    /\ settled' = [settled EXCEPT ![tx[t].job] = @ + 1]
    /\ UNCHANGED <<dbVars, matcher, route, reconciler, crashes>>

TxFails(t) ==
    /\ tx[t].state = "pending"
    /\ tx' = [tx EXCEPT ![t].state = "failed"]
    /\ UNCHANGED <<dbVars, matcher, route, reconciler, settled, crashes>>

\* Its 60 seconds pass before a ledger includes it.
TxExpires(t) ==
    /\ tx[t].state = "pending"
    /\ tx' = [tx EXCEPT ![t].state = "expired"]
    /\ UNCHANGED <<dbVars, matcher, route, reconciler, settled, crashes>>

-----------------------------------------------------------------------------
(* The orders API: a resubmitted order changes nothing, a cancel flags the *)
(* row.                                                                    *)

CancelOrder(o) ==
    /\ o \in Cancellable \ cancelled
    /\ cancelled' = cancelled \cup {o}
    /\ UNCHANGED <<filled, fill, job, matcher, route, reconciler, chainVars, crashes>>

-----------------------------------------------------------------------------
(* The matcher.                                                            *)

Remaining(o) == IF o \in cancelled THEN 0 ELSE Size(o) - filled[o]

\* What matchAll returns for one maker and takers of size one: takers in some
\* time order, as many as the maker has left.
Matches ==
    LET open == {j \in Jobs : Remaining(j) > 0}
    IN  {s \in UNION {[1..n -> open] : n \in {Min({Remaining(Maker), Cardinality(open)})}} :
            \A a, b \in DOMAIN s : s[a] = s[b] => a = b}

MatcherGoes(step) == matcher' = [matcher EXCEPT !.pc = step]

\* The match at the head is done with; the tick ends after the last one.
NextMatch ==
    matcher' = [pc |-> IF Len(matcher.todo) = 1 THEN "idle" ELSE "insert",
                todo |-> Tail(matcher.todo), tx |-> NoTx]

Tick ==
    /\ matcher.pc = "idle"
    /\ \E s \in Matches :
          /\ s # <<>>
          /\ matcher' = [pc |-> "insert", todo |-> s, tx |-> NoTx]
    /\ UNCHANGED <<dbVars, route, reconciler, chainVars, crashes>>

\* An order that could never settle is cancelled before its match is persisted.
CancelPoisonOrder ==
    /\ matcher.pc = "insert" /\ Current \in Poisoned
    /\ cancelled' = cancelled \cup {Current}
    /\ NextMatch
    /\ UNCHANGED <<filled, fill, job, route, reconciler, chainVars, crashes>>

InsertFill ==
    /\ matcher.pc = "insert" /\ Current \notin Poisoned
    /\ fill' = [fill EXCEPT ![Current] = @ \cup {"pending"}]
    /\ IF "pending" \in fill[Current]       \* ON CONFLICT DO NOTHING
       THEN NextMatch
       ELSE MatcherGoes("count_maker")
    /\ UNCHANGED <<filled, cancelled, job, route, reconciler, chainVars, crashes>>

\* The guarded increment of one order's filledSize.
CountFill(o, next) ==
    /\ IF filled[o] + 1 <= Size(o)
       THEN filled' = [filled EXCEPT ![o] = @ + 1] /\ MatcherGoes(next)
       ELSE NextMatch /\ UNCHANGED filled
    /\ UNCHANGED <<cancelled, fill, job, route, reconciler, chainVars, crashes>>

CountMaker == matcher.pc = "count_maker" /\ CountFill(Maker, "count_taker")
CountTaker == matcher.pc = "count_taker" /\ CountFill(Current, "settle")

\* submitSettleFillSigned: simulate, then send.
SubmitSigned ==
    /\ matcher.pc = "settle" /\ Current \in SignedJobs
    /\ Accepts(Current) /\ Unused # {}
    /\ Broadcast(FreshTx, Current)
    /\ matcher' = [matcher EXCEPT !.pc = "poll", !.tx = FreshTx]
    /\ UNCHANGED <<dbVars, route, reconciler, crashes>>

\* simulateSettleFill, then the job row: a row that exists keeps its status and
\* loses the auth entries collected for the previous payload.
QueueForSigning ==
    /\ matcher.pc = "settle" /\ Current \notin SignedJobs
    /\ Accepts(Current)
    /\ job' = [job EXCEPT ![Current] =
            IF @ = NoJob THEN [NoJob EXCEPT !.status = "QUEUED"] ELSE [@ EXCEPT !.signed = {}]]
    /\ NextMatch
    /\ UNCHANGED <<filled, cancelled, fill, route, reconciler, chainVars, crashes>>

\* Simulation or submission fails, or anything in executeSettlement throws.
SettlementFails ==
    /\ matcher.pc = "settle"
    /\ MatcherGoes("record")
    /\ UNCHANGED <<dbVars, route, reconciler, chainVars, crashes>>

\* Mutant: running out of polls counts as a confirmation.
MutantPollConfirmed == matcher.pc = "poll"

PollConfirmed == matcher.pc = "poll" /\ tx[matcher.tx].state = "success"

SeeSuccess ==
    /\ PollConfirmed
    /\ MatcherGoes("confirm")
    /\ UNCHANGED <<dbVars, route, reconciler, chainVars, crashes>>

\* A failed transaction, thirty polls without an answer, or a poll that throws.
SeeNoSuccess ==
    /\ matcher.pc = "poll"
    /\ MatcherGoes("record")
    /\ UNCHANGED <<dbVars, route, reconciler, chainVars, crashes>>

RecordConfirmed ==
    /\ matcher.pc = "confirm"
    /\ job' = [job EXCEPT ![Current].status = "CONFIRMED", ![Current].hash = matcher.tx]
    /\ NextMatch
    /\ UNCHANGED <<filled, cancelled, fill, route, reconciler, chainVars, crashes>>

\* Mutant: the failure is recorded and the fill is left where it is.
MutantRecordFailure ==
    /\ matcher.pc = "record"
    /\ job' = [job EXCEPT ![Current].status = "FAILED"]
    /\ NextMatch
    /\ UNCHANGED <<filled, cancelled, fill, route, reconciler, chainVars, crashes>>

RecordFailure ==
    /\ matcher.pc = "record"
    /\ job' = [job EXCEPT ![Current].status = "FAILED"]
    /\ MatcherGoes("undo_fill")
    /\ UNCHANGED <<filled, cancelled, fill, route, reconciler, chainVars, crashes>>

\* The three statements of rollbackFill: delete the pending row, return the
\* size to the maker's order, then to the taker's, clamped at zero.
Deleted(j) == [fill EXCEPT ![j] = @ \ {"pending"}]

Returned(o) == [filled EXCEPT ![o] = IF @ > 0 THEN @ - 1 ELSE 0]

UndoFill ==
    /\ matcher.pc = "undo_fill"
    /\ fill' = Deleted(Current)
    /\ MatcherGoes("undo_maker")
    /\ UNCHANGED <<filled, cancelled, job, route, reconciler, chainVars, crashes>>

UndoMaker ==
    /\ matcher.pc = "undo_maker"
    /\ filled' = Returned(Maker)
    /\ MatcherGoes("undo_taker")
    /\ UNCHANGED <<cancelled, fill, job, route, reconciler, chainVars, crashes>>

UndoTaker ==
    /\ matcher.pc = "undo_taker"
    /\ filled' = Returned(Current)
    /\ NextMatch
    /\ UNCHANGED <<cancelled, fill, job, route, reconciler, chainVars, crashes>>

\* The process dies: the tick's matches are forgotten.
MatcherCrashes ==
    /\ matcher.pc # "idle"
    /\ crashes < MaxCrashes
    /\ crashes' = crashes + 1
    /\ matcher' = [pc |-> "idle", todo |-> <<>>, tx |-> NoTx]
    /\ UNCHANGED <<dbVars, route, reconciler, chainVars>>

\* A statement errs.  persistFill and rollbackFill catch it and leave the match
\* as it is; a failure row that cannot be written is given up; a confirmation
\* that cannot be written is treated as a failed settlement.
MatcherStatementFails ==
    /\ matcher.pc \notin {"idle", "poll"}
    /\ crashes < MaxCrashes
    /\ crashes' = crashes + 1
    /\ CASE matcher.pc = "record"  -> MatcherGoes("undo_fill")
         [] matcher.pc = "confirm" -> MatcherGoes("record")
         [] OTHER                  -> NextMatch
    /\ UNCHANGED <<dbVars, route, reconciler, chainVars>>

MatcherStep ==
    \/ CancelPoisonOrder \/ InsertFill \/ CountMaker \/ CountTaker
    \/ SubmitSigned \/ QueueForSigning \/ SettlementFails
    \/ SeeSuccess \/ SeeNoSuccess \/ RecordConfirmed
    \/ RecordFailure \/ UndoFill \/ UndoMaker \/ UndoTaker

-----------------------------------------------------------------------------
(* The settlement card of a party's terminal and the sign route: a request *)
(* per party, repeated as often as the party likes.                        *)

Idle == [pc |-> "idle", tx |-> NoTx]
RouteGoes(r, step) == route' = [route EXCEPT ![r].pc = step]

\* What GET /api/settlements lists for a party: a job it has not signed, or one
\* that both have signed and that is still QUEUED, to be submitted again.
Offered(j, party) ==
    job[j].status = "QUEUED" /\ (party \notin job[j].signed \/ job[j].signed = Parties)

\* The party presses the card its terminal polled; the wallet signs the entry
\* shown there, whatever becomes of the job meanwhile.
SignSettlement(j, party) ==
    /\ route[j, party] = Idle /\ Offered(j, party)
    /\ RouteGoes(<<j, party>>, "sign")
    /\ UNCHANGED <<dbVars, matcher, reconciler, chainVars, crashes>>

\* The wallet is on another network, the trader declines, or the request is lost.
SigningFails(j, party) ==
    /\ route[j, party].pc = "sign"
    /\ RouteGoes(<<j, party>>, "idle")
    /\ UNCHANGED <<dbVars, matcher, reconciler, chainVars, crashes>>

\* The jsonb merge, while the job is still QUEUED.
MergeEntry(j, party) ==
    LET signed == job[j].signed \cup {party}
    IN  /\ route[j, party].pc = "sign"
        /\ IF job[j].status = "QUEUED"
           THEN /\ job' = [job EXCEPT ![j].signed = signed]
                /\ RouteGoes(<<j, party>>, IF signed = Parties THEN "claim" ELSE "idle")
           ELSE UNCHANGED job /\ RouteGoes(<<j, party>>, "idle")
        /\ UNCHANGED <<filled, cancelled, fill, matcher, reconciler, chainVars, crashes>>

\* Mutant: the claim does not look at the status.
MutantRouteClaims(j) == TRUE

RouteClaims(j) == job[j].status = "QUEUED"

ClaimJob(j, party) ==
    /\ route[j, party].pc = "claim"
    /\ IF RouteClaims(j)
       THEN /\ job' = [job EXCEPT ![j].status = "SUBMITTED"]
            /\ RouteGoes(<<j, party>>, "send")
       ELSE /\ route' = [route EXCEPT ![<<j, party>>] = Idle]
            /\ UNCHANGED job
    /\ UNCHANGED <<filled, cancelled, fill, matcher, reconciler, chainVars, crashes>>

RouteSends(j, party) ==
    /\ route[j, party].pc = "send" /\ Unused # {}
    /\ Broadcast(FreshTx, j)
    /\ route' = [route EXCEPT ![<<j, party>>] = [pc |-> "store", tx |-> FreshTx]]
    /\ UNCHANGED <<dbVars, matcher, reconciler, crashes>>

StoreHash(j, party) ==
    /\ route[j, party].pc = "store"
    /\ job' = [job EXCEPT ![j].hash = route[j, party].tx]
    /\ route' = [route EXCEPT ![<<j, party>>] = Idle]
    /\ UNCHANGED <<filled, cancelled, fill, matcher, reconciler, chainVars, crashes>>

\* Rebuilding or sending fails, or the hash cannot be stored.
RouteFails(j, party) ==
    /\ route[j, party].pc \in {"send", "store"}
    /\ route[j, party].pc = "store" => crashes < MaxCrashes
    /\ crashes' = IF route[j, party].pc = "store" THEN crashes + 1 ELSE crashes
    /\ job' = [job EXCEPT ![j].status = "FAILED"]
    /\ route' = [route EXCEPT ![<<j, party>>] = Idle]
    /\ UNCHANGED <<filled, cancelled, fill, matcher, reconciler, chainVars>>

\* The request dies, or finds no operator secret after its claim.
RequestDies(j, party) ==
    /\ route[j, party].pc \in {"claim", "send", "store"}
    /\ crashes < MaxCrashes
    /\ crashes' = crashes + 1
    /\ route' = [route EXCEPT ![<<j, party>>] = Idle]
    /\ UNCHANGED <<dbVars, matcher, reconciler, chainVars>>

RouteStep(j, party) ==
    \/ ClaimJob(j, party) \/ RouteSends(j, party)
    \/ StoreHash(j, party) \/ RouteFails(j, party)

-----------------------------------------------------------------------------
(* The reconciler.  It works on rows it selected earlier in the tick:      *)
(* between the selection and each statement the row may change.            *)

Resting == [pc |-> "idle", row |-> NoJob, job |-> Maker, tx |-> NoTx]
ReconcilerGoes(step) == reconciler' = [reconciler EXCEPT !.pc = step]

Selects(j, step) ==
    /\ reconciler = Resting
    /\ reconciler' = [pc |-> step, row |-> job[j], job |-> j, tx |-> NoTx]
    /\ UNCHANGED <<dbVars, matcher, route, chainVars, crashes>>

\* A SUBMITTED row without a hash is passed over.
SelectSubmitted(j) == job[j].status = "SUBMITTED" /\ job[j].hash # NoTx /\ Selects(j, "check")

\* Mutant: only rows somebody tried to submit before are picked up.
MutantSelectReady(j) ==
    job[j].status = "QUEUED" /\ job[j].signed = Parties /\ job[j].hash # NoTx /\ Selects(j, "claim")

SelectReady(j) == job[j].status = "QUEUED" /\ job[j].signed = Parties /\ Selects(j, "claim")
SelectStale(j) == job[j].status = "QUEUED" /\ job[j].signed # Parties /\ Selects(j, "undo_fill")

\* Mutant: whatever is not known to have failed counts as a success.
MutantAnswer(t) == IF tx[t].state = "failed" THEN "FAILED" ELSE "SUCCESS"

\* getTransaction: what has not reached a ledger is NOT_FOUND.
Answer(t) ==
    CASE tx[t].state = "success" -> "SUCCESS"
      [] tx[t].state = "failed"  -> "FAILED"
      [] OTHER                   -> "NOT_FOUND"

CheckSubmitted ==
    LET answer == Answer(reconciler.row.hash)
    IN  /\ reconciler.pc = "check"
        /\ CASE answer = "SUCCESS" -> ReconcilerGoes("confirm")
             [] answer = "FAILED"  -> ReconcilerGoes("undo_fill")
             [] OTHER -> IF reconciler.row.signed = Parties
                         THEN ReconcilerGoes("claim") ELSE reconciler' = Resting
        /\ UNCHANGED <<dbVars, matcher, route, chainVars, crashes>>

ConfirmSubmitted ==
    LET j == reconciler.job
    IN  /\ reconciler.pc = "confirm"
        /\ job' = [job EXCEPT ![j].status = IF @ = "SUBMITTED" THEN "CONFIRMED" ELSE @]
        /\ ReconcilerGoes("link")
        /\ UNCHANGED <<filled, cancelled, fill, matcher, route, chainVars, crashes>>

LinkFill ==
    /\ reconciler.pc = "link"
    /\ fill' = [fill EXCEPT ![reconciler.job] = IF "pending" \in @ THEN {"linked"} ELSE @]
    /\ reconciler' = Resting
    /\ UNCHANGED <<filled, cancelled, job, matcher, route, chainVars, crashes>>

ReconcilerUndoFill ==
    /\ reconciler.pc = "undo_fill"
    /\ fill' = Deleted(reconciler.job)
    /\ ReconcilerGoes("undo_maker")
    /\ UNCHANGED <<filled, cancelled, job, matcher, route, chainVars, crashes>>

ReconcilerUndoMaker ==
    /\ reconciler.pc = "undo_maker"
    /\ filled' = Returned(Maker)
    /\ ReconcilerGoes("undo_taker")
    /\ UNCHANGED <<cancelled, fill, job, matcher, route, chainVars, crashes>>

ReconcilerUndoTaker ==
    /\ reconciler.pc = "undo_taker"
    /\ filled' = Returned(reconciler.job)
    /\ ReconcilerGoes("fail")
    /\ UNCHANGED <<cancelled, fill, job, matcher, route, chainVars, crashes>>

\* The terminal status is written only over the status that was selected.
FailRolledBack ==
    LET j == reconciler.job
    IN  /\ reconciler.pc = "fail"
        /\ job' = [job EXCEPT ![j].status = IF @ = reconciler.row.status THEN "FAILED" ELSE @]
        /\ reconciler' = Resting
        /\ UNCHANGED <<filled, cancelled, fill, matcher, route, chainVars, crashes>>

\* resubmitJob's claim: QUEUED, or SUBMITTED by someone who stored no hash.
ReconcilerClaims(j) ==
    job[j].status = "QUEUED" \/ (job[j].status = "SUBMITTED" /\ job[j].hash = NoTx)

ClaimReady ==
    LET j == reconciler.job
    IN  /\ reconciler.pc = "claim"
        /\ IF ReconcilerClaims(j)
           THEN job' = [job EXCEPT ![j].status = "SUBMITTED"] /\ ReconcilerGoes("send")
           ELSE UNCHANGED job /\ reconciler' = Resting
        /\ UNCHANGED <<filled, cancelled, fill, matcher, route, chainVars, crashes>>

ReconcilerSends ==
    /\ reconciler.pc = "send" /\ Unused # {}
    /\ Broadcast(FreshTx, reconciler.job)
    /\ reconciler' = [reconciler EXCEPT !.pc = "store", !.tx = FreshTx]
    /\ UNCHANGED <<dbVars, matcher, route, crashes>>

ReconcilerStores ==
    /\ reconciler.pc = "store"
    /\ job' = [job EXCEPT ![reconciler.job].hash = reconciler.tx]
    /\ ReconcilerGoes("poll")
    /\ UNCHANGED <<filled, cancelled, fill, matcher, route, chainVars, crashes>>

\* Ten polls: success, failure (a terminal status with no rollback), or neither,
\* which leaves the job to a later tick.
ReconcilerPolls ==
    LET j == reconciler.job
        answer == Answer(reconciler.tx)
    IN  /\ reconciler.pc = "poll"
        /\ \/ /\ answer = "SUCCESS"
              /\ job' = [job EXCEPT ![j].status = "CONFIRMED"]
              /\ ReconcilerGoes("link")
           \/ /\ answer = "FAILED"
              /\ job' = [job EXCEPT ![j].status = "FAILED"]
              /\ reconciler' = Resting
           \/ /\ answer = "NOT_FOUND"
              /\ reconciler' = Resting
              /\ UNCHANGED job
        /\ UNCHANGED <<filled, cancelled, fill, matcher, route, chainVars, crashes>>

\* Rebuilding, sending or polling throws, or a statement after the send errs.
ResubmitThrows ==
    LET errs == reconciler.pc = "store" \/ (reconciler.pc = "link" /\ reconciler.tx # NoTx)
    IN  /\ reconciler.pc \in {"send", "poll"} \/ (errs /\ crashes < MaxCrashes)
        /\ crashes' = IF errs THEN crashes + 1 ELSE crashes
        /\ job' = [job EXCEPT ![reconciler.job].status = "FAILED"]
        /\ reconciler' = Resting
        /\ UNCHANGED <<filled, cancelled, fill, matcher, route, chainVars>>

\* The process dies, or a statement outside resubmitJob errs and aborts the tick.
ReconcilerCrashes ==
    /\ reconciler # Resting
    /\ crashes < MaxCrashes
    /\ crashes' = crashes + 1
    /\ reconciler' = Resting
    /\ UNCHANGED <<dbVars, matcher, route, chainVars>>

ReconcilerStep ==
    \/ CheckSubmitted \/ ConfirmSubmitted \/ LinkFill
    \/ ReconcilerUndoFill \/ ReconcilerUndoMaker \/ ReconcilerUndoTaker \/ FailRolledBack
    \/ ClaimReady \/ ReconcilerSends \/ ReconcilerStores \/ ReconcilerPolls \/ ResubmitThrows

-----------------------------------------------------------------------------
Init ==
    /\ filled = [o \in Orders |-> 0]
    /\ cancelled = {}
    /\ fill = [j \in Jobs |-> {}]
    /\ job = [j \in Jobs |-> NoJob]
    /\ matcher = [pc |-> "idle", todo |-> <<>>, tx |-> NoTx]
    /\ route = [r \in Requests |-> Idle]
    /\ reconciler = Resting
    /\ tx = [t \in TxIds |-> [job |-> Maker, state |-> "unused"]]
    /\ settled = [j \in Jobs |-> 0]
    /\ crashes = 0

Next ==
    \/ Tick \/ MatcherStep
    \/ MatcherCrashes \/ MatcherStatementFails
    \/ \E j \in Jobs, party \in Parties :
          \/ SignSettlement(j, party) \/ SigningFails(j, party) \/ MergeEntry(j, party)
          \/ RouteStep(j, party) \/ RequestDies(j, party)
    \/ \E j \in Jobs : SelectSubmitted(j) \/ SelectReady(j) \/ SelectStale(j)
    \/ ReconcilerStep \/ ReconcilerCrashes
    \/ \E t \in TxIds : TxSucceeds(t) \/ TxFails(t) \/ TxExpires(t)
    \/ \E o \in Orders : CancelOrder(o)

Spec == Init /\ [][Next]_vars

(***************************************************************************)
(* The two services loop for ever and each of their statements returns; a  *)
(* reconciler tick visits every row it selects; a request that was served  *)
(* runs to its end; a broadcast transaction is included or expires.        *)
(***************************************************************************)
Fairness ==
    /\ WF_vars(Tick) /\ WF_vars(MatcherStep) /\ WF_vars(ReconcilerStep)
    /\ \A j \in Jobs :
          /\ SF_vars(SelectSubmitted(j)) /\ SF_vars(SelectReady(j)) /\ SF_vars(SelectStale(j))
          /\ \A party \in Parties : WF_vars(RouteStep(j, party))
    /\ \A t \in TxIds : WF_vars(TxSucceeds(t) \/ TxFails(t) \/ TxExpires(t))

FairSpec == Spec /\ Fairness

-----------------------------------------------------------------------------
Statuses == {"absent", "QUEUED", "SUBMITTED", "CONFIRMED", "FAILED"}
JobRow == [status: Statuses, hash: TxIds \cup {NoTx}, signed: SUBSET Parties]
MatcherSteps == {"idle", "insert", "count_maker", "count_taker", "settle", "poll", "confirm",
                 "record", "undo_fill", "undo_maker", "undo_taker"}
ReconcilerSteps == {"idle", "check", "confirm", "link", "undo_fill", "undo_maker", "undo_taker",
                    "fail", "claim", "send", "store", "poll"}

TypeOK ==
    /\ \A o \in Orders : filled[o] \in 0..Size(o)
    /\ cancelled \subseteq Orders
    /\ fill \in [Jobs -> SUBSET {"pending", "linked"}]
    /\ job \in [Jobs -> JobRow]
    /\ matcher.pc \in MatcherSteps /\ matcher.todo \in Seq(Jobs) /\ matcher.tx \in TxIds \cup {NoTx}
    /\ matcher.pc # "idle" => matcher.todo # <<>>
    /\ route \in [Requests -> [pc: {"idle", "sign", "claim", "send", "store"}, tx: TxIds \cup {NoTx}]]
    /\ reconciler \in [pc: ReconcilerSteps, row: JobRow, job: Orders, tx: TxIds \cup {NoTx}]
    /\ tx \in [TxIds -> [job: Orders, state: {"unused", "pending", "success", "failed", "expired"}]]
    /\ settled \in [Jobs -> 0..1]
    /\ crashes \in 0..MaxCrashes

Quiet == matcher.pc = "idle" /\ reconciler = Resting

\* A job is never reported CONFIRMED, nor a fill linked to a transaction, unless
\* the gateway settled that fill: whatever crashes, races and lost answers do to
\* the database, it never reports a settlement that did not happen.
ConfirmedIsSettled ==
    \A j \in Jobs : job[j].status = "CONFIRMED" \/ "linked" \in fill[j] => settled[j] = 1

\* When no process is inside a fill, an order's filledSize is the number of fills
\* it has: the rollback is "safe to run more than once", as the reconciler says of
\* it, so what it gives back is what the fill took.
FilledCountsFills ==
    Quiet => /\ filled[Maker] = Cardinality({j \in Jobs : fill[j] # {}})
             /\ \A j \in Jobs : filled[j] = Cardinality(fill[j])

\* The rows are well formed, and the QUEUED-to-SUBMITTED claim lets at most one
\* sign request of a job go on to broadcast, however maker, taker and their
\* retries interleave.
OneRequestSubmits ==
    /\ TypeOK
    /\ \A j \in Jobs : Cardinality({p \in Parties : route[j, p].pc \in {"send", "store"}}) <= 1

\* A trade the gateway settled stays in the fill table once the matcher is done
\* with it: rollbackFill "keeps the DB ... consistent with on-chain truth".
SettledFillIsKept ==
    Quiet => \A j \in Jobs : settled[j] = 1 => fill[j] # {}

\* A job that failed for good has no fill left behind: the rollback "has to happen
\* on EVERY terminal failure".
FailedIsRolledBack ==
    Quiet => \A j \in Jobs : job[j].status = "FAILED" => fill[j] = {}

\* Every fill the matcher persists is settled, or its orders return to the book.
FillResolves ==
    \A j \in Jobs : "pending" \in fill[j] ~> (settled[j] = 1 \/ fill[j] = {})

\* A job with both auth entries does not stay QUEUED, though the request that
\* should have submitted it died: the reconciler picks it up.
SignedJobLeavesQueue ==
    \A j \in Jobs : (job[j].status = "QUEUED" /\ job[j].signed = Parties) ~> job[j].status # "QUEUED"

\* A SUBMITTED job is resolved: the reconciler marks it CONFIRMED or FAILED.
SubmittedResolves ==
    \A j \in Jobs : job[j].status = "SUBMITTED" ~> job[j].status \in {"CONFIRMED", "FAILED"}
=============================================================================
