----------------------------- MODULE Governance -----------------------------
(* The governance timelock (contracts/perp-governance) and the operator scripts  *)
(* that work with it: governance-handover.ts and the older                       *)
(* transfer-admin-to-governance.ts move the contracts' admin from a key to the    *)
(* timelock, verify-decentralization.ts drills the guardian's veto, add-market.ts *)
(* registers a market directly or through proposals, upgrade-contracts.ts and     *)
(* set-risk-params.ts act with the key while it is still admin.                   *)
(*                                                                               *)
(* All scripts sign with one account, so at most one of its transactions can      *)
(* still be included; a new one replaces it or is refused.  Delays are counted    *)
(* in coarse ticks, margins are shorter than a tick.                              *)
EXTENDS Integers, SequencesExt, FiniteSets

CONSTANTS Targets,          \* TARGETS of the handover, in order
          TransferTargets,  \* TARGETS of the transfer ceremony, in order
          Pausable,         \* targets that need a guardian
          Frozen,           \* targets whose deployed build has no upgrade()
          Oracle, Engine, Vault, Liquidation,
          Cancellable,      \* proposals the governance admin may withdraw
          Delay,            \* MinDelay, in ticks
          MaxOthers,        \* bound on the runs of scripts other than the handover
          MaxFaults         \* bound on crashes, lost reads, time-outs, vetoes ...

TargetSet == ToSet(Targets)
HandoverIds == {<<"handover", t>> : t \in TargetSet}
TransferIds == {<<"transfer", t>> : t \in ToSet(TransferTargets)}
Feed == <<"set", "feed">>
Market == <<"set", "market">>
Ids == HandoverIds \cup TransferIds \cup {Feed, Market}
AcceptIds == HandoverIds \cup TransferIds
TargetOf == [id \in Ids |-> CASE id = Feed -> Oracle [] id = Market -> Engine [] OTHER -> id[2]]
Change == [id \in Ids |-> IF id \in AcceptIds THEN "admin" ELSE id[2]]

\* The contracts a setting is written on: engine.set_market writes the vault's
\* copy of the market as well.
Reach(t, what) == IF t = Engine /\ what = "market" THEN {Engine, Vault} ELSE {t}

ASSUME GovernanceAssumption ==
    /\ Targets \in Seq(TargetSet) /\ TransferTargets \in Seq(TargetSet)
    /\ {Oracle, Engine, Vault, Liquidation} \subseteq TargetSet
    /\ Pausable \subseteq TargetSet /\ Frozen \subseteq TargetSet
    /\ Engine # Vault /\ Cancellable \subseteq Ids
    /\ {Delay, MaxOthers, MaxFaults} \subseteq Nat

VARIABLES
    prop,      \* governance: each proposal's status and what is left of its delay
    paused,    \* governance: the guardian's veto
    admin,     \* each target's admin, "key" or "gov"
    pending,   \* targets on which governance is nominated
    guardian,  \* pausable targets that have a guardian
    config,    \* what has been set on each target
    run,       \* the script running
    live,      \* the transaction that may still be included
    late,      \* the margin on the running script's eta is used up
    ckpt, eta, \* add-market's checkpoint file: steps done, state.eta
    others, faults

chainVars == <<prop, paused, admin, pending, guardian, config>>
vars == <<chainVars, run, live, late, ckpt, eta, others, faults>>

NoTx == [op |-> "none", to |-> Engine, id |-> Feed, what |-> "none"]
Off == [script |-> "off", calls |-> <<>>, at |-> 1, sent |-> "no"]

Init ==
    /\ prop = [id \in Ids |-> [status |-> "none", wait |-> 0]]
    /\ paused = FALSE
    /\ admin = [t \in TargetSet |-> "key"] /\ pending = {} /\ guardian \in SUBSET Pausable
    /\ config = [t \in TargetSet |-> {}]
    /\ run = Off /\ live = NoTx /\ late = FALSE
    /\ ckpt = {} /\ eta = 0 /\ others = 0 /\ faults = 0

-----------------------------------------------------------------------------
(* What a transaction does when the ledger includes it *)

Tx(op, to) == [NoTx EXCEPT !.op = op, !.to = to]
Set(op, to, what) == [NoTx EXCEPT !.op = op, !.to = to, !.what = what]
OfProposal(op, id) == [NoTx EXCEPT !.op = op, !.id = id]

\* Mutant: the delay is not looked at.
MutantMatured(id) == TRUE

Matured(id) == prop[id].wait = 0

\* execute() invokes the target: a target that refuses reverts it all.  The timelock
\* authorises the call it makes itself and none below it; what the target calls in
\* turn is authorised by the key that signs the execution.
TargetAccepts(id) ==
    IF id \in AcceptIds THEN TargetOf[id] \in pending
    ELSE /\ admin[TargetOf[id]] = "gov"
         /\ \A t \in Reach(TargetOf[id], Change[id]) \ {TargetOf[id]} : admin[t] = "key"

Applies(tx) ==
    CASE tx.op = "nominate" -> admin[tx.to] = "key"
      [] tx.op = "queue" -> prop[tx.id].status = "none" /\ ~late
      [] tx.op = "execute" -> ~paused /\ prop[tx.id].status = "queued" /\ Matured(tx.id) /\ TargetAccepts(tx.id)
      [] tx.op \in {"put", "clear"} -> \A t \in Reach(tx.to, tx.what) : admin[t] = "key"
      [] OTHER -> TRUE

Nominate(t) ==
    /\ pending' = pending \cup {t}
    /\ UNCHANGED <<prop, paused, admin, guardian, config>>

Queue(id) ==
    /\ prop' = [prop EXCEPT ![id] = [status |-> "queued", wait |-> Delay]]
    /\ UNCHANGED <<paused, admin, pending, guardian, config>>

Written(t, what) == [u \in TargetSet |-> IF u \in Reach(t, what) THEN config[u] \cup {what} ELSE config[u]]

Execute(id) ==
    LET t == TargetOf[id]
    IN  /\ prop' = [prop EXCEPT ![id].status = "executed"]
        /\ IF id \in AcceptIds
           THEN /\ admin' = [admin EXCEPT ![t] = "gov"] /\ pending' = pending \ {t}
                /\ UNCHANGED config
           ELSE /\ config' = Written(t, Change[id])
                /\ UNCHANGED <<admin, pending>>
        /\ UNCHANGED <<paused, guardian>>

Configure(settings) ==
    /\ config' = settings
    /\ UNCHANGED <<prop, paused, admin, pending, guardian>>

EmergencyPause(p) == paused' = p /\ UNCHANGED <<prop, admin, pending, guardian, config>>

Effect(tx) ==
    CASE tx.op = "nominate" -> Nominate(tx.to)
      [] tx.op = "queue" -> Queue(tx.id)
      [] tx.op = "execute" -> Execute(tx.id)
      [] tx.op = "put" -> Configure(Written(tx.to, tx.what))
      [] tx.op = "clear" -> Configure([config EXCEPT ![tx.to] = @ \ {tx.what}])
      [] tx.op = "pause" -> EmergencyPause(TRUE)
      [] tx.op = "unpause" -> EmergencyPause(FALSE)
      [] OTHER -> UNCHANGED chainVars

Include ==
    /\ live # NoTx
    /\ IF Applies(live) THEN Effect(live) ELSE UNCHANGED chainVars
    /\ run' = IF run.sent = "sent" THEN [run EXCEPT !.sent = IF Applies(live) THEN "ok" ELSE "failed"] ELSE run
    /\ live' = NoTx
    /\ UNCHANGED <<late, ckpt, eta, others, faults>>

-----------------------------------------------------------------------------
(* The scripts: the transactions each one sends, in order *)

ForEach(ts, Txs(_)) == FlattenSeq([i \in DOMAIN ts |-> Txs(ts[i])])

Nominations == ForEach(Targets, LAMBDA t : <<Tx("nominate", t), OfProposal("queue", <<"handover", t>>)>>)
Acceptances == ForEach(Targets, LAMBDA t : <<OfProposal("execute", <<"handover", t>>)>>)
TransferNominations == ForEach(TransferTargets, LAMBDA t : <<Tx("nominate", t)>>)
Transfers(op) == ForEach(TransferTargets, LAMBDA t : <<OfProposal(op, <<"transfer", t>>)>>)
PauseDrill == <<Tx("pause", Engine), Tx("unpause", Engine)>>
Upgrades == ForEach(Targets, LAMBDA t : IF t \in Frozen THEN <<>>
                                        ELSE <<Tx("upload", t), Set("put", t, "code")>>)
RiskParams == <<Set("put", Liquidation, "reward"), Set("put", Engine, "uncapped"),
                Set("put", Engine, "caps"), Set("clear", Engine, "uncapped")>>

\* add-market: the feed and the market that are not registered and not marked as
\* done; a read that fails counts as not registered.
Registered(id) == Change[id] \in config[TargetOf[id]]
Planned(misread) ==
    LET If(id) == IF (misread \/ ~Registered(id)) /\ <<"direct", id>> \notin ckpt THEN <<id>> ELSE <<>>
    IN  If(Feed) \o If(Market)

Calls(s, misread) ==
    CASE s = "nominate" -> Nominations
      [] s = "execute" -> Acceptances
      [] s = "transfer nominate" -> TransferNominations
      [] s = "transfer queue" -> Transfers("queue")
      [] s = "transfer execute" -> Transfers("execute")
      [] s = "drill" -> PauseDrill
      [] s = "upgrade" -> Upgrades
      [] s = "risk" -> RiskParams
      [] s = "add direct" -> [i \in DOMAIN Planned(misread) |->
                                 Set("put", TargetOf[Planned(misread)[i]], Change[Planned(misread)[i]])]
      [] s = "add queue" -> [i \in DOMAIN Planned(misread) |-> OfProposal("queue", Planned(misread)[i])]
      [] s = "add execute" -> [i \in DOMAIN Planned(misread) |-> OfProposal("execute", Planned(misread)[i])]

OtherScripts == {"transfer nominate", "transfer queue", "transfer execute", "drill", "upgrade", "risk",
                 "add direct", "add queue", "add execute"}

Begin(s, misread) ==
    /\ run = Off
    /\ run' = [Off EXCEPT !.script = s, !.calls = Calls(s, misread)]
    /\ late' = FALSE
    /\ UNCHANGED <<chainVars, live, ckpt, eta>>

\* The handover is run again until it is done, nominating while a target has no
\* proposal; it refuses to run without the guardians.
HasProposal(t) == prop[<<"handover", t>>].status # "none"
StartHandover ==
    /\ guardian = Pausable
    /\ \E t \in TargetSet : admin[t] = "key"
    /\ Begin(IF \E t \in TargetSet : admin[t] = "key" /\ ~HasProposal(t) THEN "nominate" ELSE "execute", FALSE)
    /\ UNCHANGED <<others, faults>>

StartOther(s) ==
    /\ others < MaxOthers
    /\ s = "add execute" => eta = 0
    /\ \E misread \in BOOLEAN :
           /\ misread => s \in {"add direct", "add queue", "add execute"} /\ faults < MaxFaults
           /\ Begin(s, misread)
           /\ faults' = IF misread THEN faults + 1 ELSE faults
    /\ others' = others + 1

Current == run.calls[run.at]
Working == run.script # "off" /\ run.at <= Len(run.calls)

\* add-market's checkpoint for a call.
MarkOf(tx) ==
    CASE run.script = "add direct" -> <<"direct", <<"set", tx.what>>>>
      [] run.script = "add queue" -> <<"queued", tx.id>>
      [] run.script = "add execute" -> <<"executed", tx.id>>
Marks == run.script \in {"add direct", "add queue", "add execute"}

Advance(n) == run' = [run EXCEPT !.at = @ + n, !.sent = "no"]

\* Mutant: a target on which governance is already nominated is done.
MutantHandled(t) == admin[t] = "gov" \/ HasProposal(t) \/ t \in pending

Handled(t) == admin[t] = "gov" \/ HasProposal(t)

Skipped ==
    CASE run.script = "nominate" /\ Current.op = "nominate" -> Handled(Current.to)
      [] run.script = "execute" ->
             LET t == Current.id[2] IN admin[t] = "gov" \/ ~HasProposal(t) \/ ~Matured(Current.id)
      [] run.script \in {"add queue", "add execute"} -> MarkOf(Current) \in ckpt
      [] OTHER -> FALSE

\* A call found to be done or not yet due is skipped; in the nominate phase a
\* target is skipped with both of its calls.
Skip ==
    /\ Working /\ run.sent = "no" /\ Skipped
    /\ Advance(IF run.script = "nominate" THEN 2 ELSE 1)
    /\ UNCHANGED <<chainVars, live, late, ckpt, eta, others, faults>>

\* Mutant: the market's proposal is executed even if the feed's was refused.
MutantGoesOn == run.script \in {"transfer execute", "add execute"}

\* Scripts end at the first error; the transfer's execute phase goes on.
GoesOn == run.script = "transfer execute"
Throw == IF GoesOn THEN Advance(1) ELSE run' = Off

\* The simulation accepts the call and it is sent.  A transaction still pending
\* has the same sequence number: it is replaced, or this one is refused.
Send ==
    /\ Working /\ run.sent = "no" /\ ~Skipped /\ Applies(Current)
    /\ \/ live' = Current /\ run' = [run EXCEPT !.sent = "sent"]
       \/ live # NoTx /\ Throw /\ UNCHANGED live
    /\ UNCHANGED <<chainVars, late, ckpt, eta, others, faults>>

\* The simulation refuses it.  add-market means to tolerate a proposal that is
\* queued already, but looks for error #1 and the contract answers #12: a proposal
\* queued without its checkpoint ends every later run.
SimulationFails ==
    /\ Working /\ run.sent = "no" /\ ~Skipped /\ ~Applies(Current)
    /\ Throw
    /\ UNCHANGED <<chainVars, live, late, ckpt, eta, others, faults>>

Confirmed ==
    /\ run.sent = "ok"
    /\ Advance(1)
    /\ ckpt' = IF Marks THEN ckpt \cup {MarkOf(Current)} ELSE ckpt
    /\ UNCHANGED <<chainVars, live, late, eta, others, faults>>

\* It failed, or was dropped and the polls run out.
NotConfirmed ==
    /\ \/ run.sent = "failed"
       \/ run.sent = "sent" /\ live = NoTx
    /\ Throw
    /\ UNCHANGED <<chainVars, live, late, ckpt, eta, others, faults>>

\* Queueing ends with the eta written over the last one.
Finish ==
    /\ run.script # "off" /\ ~Working
    /\ run' = Off
    /\ eta' = IF run.script = "add queue" /\ run.calls # <<>> THEN Delay ELSE eta
    /\ UNCHANGED <<chainVars, live, late, ckpt, others, faults>>

ScriptStep == Skip \/ Send \/ SimulationFails \/ Confirmed \/ NotConfirmed \/ Finish

-----------------------------------------------------------------------------
(* People, time and faults *)

\* The key sets a missing guardian.
SetGuardian(t) ==
    /\ t \in Pausable \ guardian /\ admin[t] = "key"
    /\ guardian' = guardian \cup {t}
    /\ UNCHANGED <<prop, paused, admin, pending, config, run, live, late, ckpt, eta, others, faults>>

Cancel(id) ==
    /\ id \in Cancellable /\ prop[id].status = "queued" /\ faults < MaxFaults
    /\ prop' = [prop EXCEPT ![id].status = "cancelled"] /\ faults' = faults + 1
    /\ UNCHANGED <<paused, admin, pending, guardian, config, run, live, late, ckpt, eta, others>>

GuardianPauses ==
    /\ ~paused /\ faults < MaxFaults
    /\ EmergencyPause(TRUE) /\ faults' = faults + 1
    /\ UNCHANGED <<run, live, late, ckpt, eta, others>>

GuardianUnpauses ==
    /\ paused
    /\ EmergencyPause(FALSE)
    /\ UNCHANGED <<run, live, late, ckpt, eta, others, faults>>

Tick ==
    /\ eta > 0 \/ \E id \in Ids : prop[id].wait > 0
    /\ prop' = [id \in Ids |-> [prop[id] EXCEPT !.wait = IF @ > 0 THEN @ - 1 ELSE 0]]
    /\ eta' = IF eta > 0 THEN eta - 1 ELSE 0
    /\ UNCHANGED <<paused, admin, pending, guardian, config, run, live, late, ckpt, others, faults>>

Fault ==
    /\ faults < MaxFaults /\ faults' = faults + 1
    /\ \/ run # Off /\ run' = Off /\ UNCHANGED <<live, late>>                           \* the script dies
       \/ run.sent = "sent" /\ Throw /\ UNCHANGED <<live, late>>                        \* the polls run out early
       \/ live # NoTx /\ live' = NoTx /\ UNCHANGED <<run, late>>                        \* the transaction is dropped
       \/ ~late /\ late' = TRUE /\ UNCHANGED <<run, live>>                              \* the run outlasts its margin
       \/ /\ Working /\ run.sent = "no" /\ run.script = "execute" /\ ~Skipped           \* a read comes back empty
          /\ Advance(1) /\ UNCHANGED <<live, late>>
    /\ UNCHANGED <<chainVars, ckpt, eta, others>>

Next ==
    \/ StartHandover
    \/ \E s \in OtherScripts : StartOther(s)
    \/ ScriptStep
    \/ Include
    \/ \E t \in TargetSet : SetGuardian(t)
    \/ \E id \in Ids : Cancel(id)
    \/ GuardianPauses \/ GuardianUnpauses
    \/ Tick
    \/ Fault

\* The operator finishes what is started and repeats the handover, the ledger
\* includes what is not dropped, and somebody lifts a veto.
Spec ==
    /\ Init /\ [][Next]_vars
    /\ WF_vars(StartHandover) /\ WF_vars(ScriptStep) /\ WF_vars(Include) /\ WF_vars(Tick)
    /\ WF_vars(GuardianUnpauses) /\ WF_vars(\E t \in TargetSet : SetGuardian(t))

-----------------------------------------------------------------------------
TypeOK ==
    /\ prop \in [Ids -> [status : {"none", "queued", "executed", "cancelled"}, wait : 0..Delay]]
    /\ admin \in [TargetSet -> {"key", "gov"}]
    /\ pending \subseteq TargetSet /\ guardian \subseteq Pausable
    /\ config \in [TargetSet -> SUBSET {"feed", "market", "code", "reward", "caps", "uncapped"}]
    /\ run.sent \in {"no", "sent", "ok", "failed"} /\ run.at \in 1..Len(run.calls) + 1
    /\ eta \in 0..Delay /\ others \in 0..MaxOthers /\ faults \in 0..MaxFaults

\* A market is live only with the feed it is priced from and with the vault's copy
\* of its limits, however registration is mixed between the key and the timelock,
\* interrupted, repeated or cancelled, and whichever of the contracts the timelock
\* already has.
MarketHasFeed ==
    /\ TypeOK
    /\ "market" \in config[Engine] => "feed" \in config[Oracle] /\ "market" \in config[Vault]

\* The timelock's execute says that for a target whose admin it is, "the target's
\* require_admin is satisfied by Soroban invoker auth": what it may execute now, the
\* target accepts.
AdminSuffices ==
    \A id \in {Feed, Market} :
        prop[id].status = "queued" /\ Matured(id) /\ ~paused /\ admin[TargetOf[id]] = "gov" => TargetAccepts(id)

TL == INSTANCE Timelock WITH Targets <- TargetSet, Handovers <- AcceptIds, notice <- prop, veto <- paused,
                             Writes <- [id \in Ids |-> Reach(TargetOf[id], Change[id])],
                             governed <- {t \in TargetSet : admin[t] = "gov"}

\* The contract and the scripts implement the timelock: whatever script, crash or
\* late transaction, a contract that was handed over changes only by a proposal
\* that waited out its delay uncancelled and unvetoed.
TimelockHolds == TL!Spec

\* A pausable contract was handed over without a guardian (only the transfer
\* ceremony does that); the handover refuses to go on and nobody can set one.
Stranded == \E t \in Pausable : admin[t] = "gov" /\ t \notin guardian

\* A handover's proposal was cancelled: its id can never be queued again, so its
\* target stays with the key and the execute phase ends at it every time.
Withdrawn == \E id \in HandoverIds : prop[id].status = "cancelled"

\* However the handover is interrupted, repeating it moves every contract to the
\* timelock, unless the transfer ceremony left a contract without a guardian or one
\* of the handover's own proposals is cancelled.
HandoverCompletes == <>(Stranded \/ Withdrawn \/ \A t \in TargetSet : admin[t] = "gov")
=============================================================================
