------------------------------ MODULE Timelock ------------------------------
(* What the timelock promises, without scripts, transactions or signatures:     *)
(* a contract that has been handed over changes only by an action that was       *)
(* announced at least Delay before, was not withdrawn, and is not vetoed; and a   *)
(* contract handed over is never taken back.                                      *)
EXTENDS Integers

CONSTANTS Ids,        \* the actions that can be announced
          Targets,    \* the contracts
          TargetOf,   \* the contract an action is for
          Writes,     \* the contracts it writes
          Change,     \* what it adds to their configuration
          Handovers,  \* the actions that hand their contract over
          Delay

VARIABLES
    notice,     \* of each action: whether it is announced, and what is left to wait
    veto,       \* the guardian's
    governed,   \* the contracts handed over
    config      \* what has been configured on each contract

NoNotice == [status |-> "none", wait |-> 0]

Init ==
    /\ notice = [id \in Ids |-> NoNotice]
    /\ veto \in BOOLEAN
    /\ governed = {}
    /\ config = [t \in Targets |-> {}]

Announce(id) ==
    /\ notice[id].status = "none"
    /\ notice' = [notice EXCEPT ![id] = [status |-> "queued", wait |-> Delay]]
    /\ UNCHANGED <<veto, governed, config>>

Pass ==
    /\ notice' = [id \in Ids |-> [notice[id] EXCEPT !.wait = IF @ > 0 THEN @ - 1 ELSE 0]]
    /\ UNCHANGED <<veto, governed, config>>

Withdraw(id) ==
    /\ notice[id].status = "queued"
    /\ notice' = [notice EXCEPT ![id].status = "cancelled"]
    /\ UNCHANGED <<veto, governed, config>>

Perform(id) ==
    /\ notice[id] = [status |-> "queued", wait |-> 0] /\ ~veto
    /\ notice' = [notice EXCEPT ![id].status = "executed"]
    /\ IF id \in Handovers
       THEN governed' = governed \cup {TargetOf[id]} /\ UNCHANGED config
       ELSE /\ TargetOf[id] \in governed
            /\ config' = [t \in Targets |-> IF t \in Writes[id] THEN config[t] \cup {Change[id]} ELSE config[t]]
            /\ UNCHANGED governed
    /\ UNCHANGED veto

Veto ==
    /\ veto' = ~veto
    /\ UNCHANGED <<notice, governed, config>>

\* The contracts the key still owns change without notice.
ChangeFreely ==
    /\ \A t \in governed : config'[t] = config[t]
    /\ DOMAIN config' = Targets
    /\ UNCHANGED <<notice, veto, governed>>

Next ==
    \/ \E id \in Ids : Announce(id) \/ Withdraw(id) \/ Perform(id)
    \/ Pass
    \/ Veto
    \/ ChangeFreely

Spec == Init /\ [][Next]_<<notice, veto, governed, config>>
=============================================================================
