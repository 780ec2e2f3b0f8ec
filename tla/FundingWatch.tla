---------------------------- MODULE FundingWatch ----------------------------
(* The funding keeper (client/scripts/funding-keeper.ts) and the monitor         *)
(* (client/scripts/monitor.ts) as the two halves of one loop: the keeper pokes   *)
(* update_funding market by market out of a wallet nothing refills, and the      *)
(* monitor's alerts are what makes the operator top that wallet up.              *)
(*                                                                               *)
(* Time is counted in the keeper's ticks (15 minutes); the ages the code         *)
(* compares are counted up to the bound they are compared with.  The checks of   *)
(* services that are not modelled here may pass or fail in any round.            *)
EXTENDS Integers, Sequences, SequencesExt

CONSTANTS NumMarkets,    \* ACTIVE_MARKETS, poked in this order
          Down,          \* markets whose update_funding is refused (stale oracle)
          Stale,         \* FUNDING_STALE_ALERT_SECS, in ticks
          Reminder,      \* ALERT_REMINDER_MS, in ticks
          Full,          \* fees the operator pays into the wallet at a time
          Warn,          \* OPERATOR_XLM_WARN
          External,      \* checks of services outside this model, in order
          MaxRounds,     \* rounds of checks that may overlap (setInterval)
          MaxFaults      \* bound on failed reads, calls and transactions and on
                         \* alerts that do not arrive

Markets == 1..NumMarkets
CheckOrder == External \o <<"operator-funds", "funding-accrual">>
Checks == Range(CheckOrder)
Rounds == 1..MaxRounds
NoCall == 0
Quiet == -1            \* no entry in alertStates
Idle == [next |-> 0, fails |-> {}, post |-> "none"]

ASSUME WatchAssumption ==
    /\ {NumMarkets, Stale, Reminder, Full, Warn, MaxFaults} \subseteq Nat
    /\ Down \subseteq Markets /\ Warn <= Full /\ Warn > 0

VARIABLES
    age,      \* ticks since funding_state(m).last_update, up to Stale + 1
    fuel,     \* fees left in the funding keeper's wallet
    at,       \* market the keeper's tick has come to; NumMarkets + 1: asleep
    polling,  \* the keeper waits for the transaction it sent
    live,     \* market of the keeper's transaction that may still be included
    round,    \* rounds of runChecks under way
    alert,    \* alertStates: ticks since lastAlertAt, or Quiet
    told,     \* checks the alert channel's last message calls failing
    faults

keeperVars == <<at, polling, live>>
monitorVars == <<round, alert, told>>
watchVars == <<age, fuel, keeperVars, monitorVars, faults>>

WatchTypeOK ==
    /\ age \in [Markets -> 0..(Stale + 1)]
    /\ fuel \in 0..Full
    /\ at \in 1..(NumMarkets + 1) /\ polling \in BOOLEAN
    /\ live \in Markets \cup {NoCall}
    /\ round \in [Rounds -> [next : 0..Len(CheckOrder), fails : SUBSET Checks,
                             post : {"none", "failing", "recovered"}]]
    /\ alert \in [Checks -> Quiet..Reminder]
    /\ told \subseteq Checks
    /\ faults \in 0..MaxFaults

WatchInit ==
    /\ age = [m \in Markets |-> 0]
    /\ fuel = Full
    /\ at = NumMarkets + 1 /\ polling = FALSE /\ live = NoCall
    /\ round = [r \in Rounds |-> Idle]
    /\ alert = [c \in Checks |-> Quiet]
    /\ told = {}
    /\ faults = 0

Asleep == at > NumMarkets
Capped(n, bound) == IF n < bound THEN n + 1 ELSE bound

-----------------------------------------------------------------------------
(* Funding keeper *)

\* The keeper sleeps out its interval, and everything is a tick older.
Sleep ==
    /\ Asleep
    /\ at' = 1
    /\ age' = [m \in Markets |-> Capped(age[m], Stale + 1)]
    /\ alert' = [c \in Checks |-> IF alert[c] = Quiet THEN Quiet ELSE Capped(alert[c], Reminder)]
    /\ UNCHANGED <<fuel, polling, live, round, told, faults>>

\* Mutant: an error in one market ends the tick.
MutantNextMarket == NumMarkets + 1

NextMarket == at + 1

\* The market is skipped: the simulation is declined, the wallet cannot pay
\* (sendTransaction: ERROR), or a call throws, which tick catches per market.
SkipMarket ==
    /\ ~Asleep /\ ~polling
    /\ \/ (at \in Down \/ fuel = 0) /\ UNCHANGED faults
       \/ (at \notin Down /\ fuel > 0) /\ faults < MaxFaults /\ faults' = faults + 1
    /\ at' = NextMarket
    /\ UNCHANGED <<age, fuel, polling, live, monitorVars>>

\* sendTransaction.  getAccount returns the on-chain sequence, so a transaction
\* still in flight has the same number: the new one evicts it or is refused.
Send ==
    /\ ~Asleep /\ ~polling /\ at \notin Down /\ fuel > 0
    /\ \/ live' = at /\ polling' = TRUE /\ UNCHANGED at
       \/ live # NoCall /\ at' = NextMarket /\ UNCHANGED <<live, polling>>
    /\ UNCHANGED <<age, fuel, monitorVars, faults>>

\* The poll sees a verdict, or runs out of its 15 tries while the transaction
\* is still live.  A reported SUCCESS is only logged as an update when
\* last_update moved; whatever it says, the next market is next.
PollEnds ==
    /\ polling
    /\ \/ live = NoCall /\ UNCHANGED faults
       \/ live # NoCall /\ faults < MaxFaults /\ faults' = faults + 1
    /\ polling' = FALSE /\ at' = NextMarket
    /\ UNCHANGED <<age, fuel, live, monitorVars>>

\* The transaction is included: update_funding sets last_update.
FundingLands ==
    /\ live # NoCall /\ fuel > 0
    /\ age' = [age EXCEPT ![live] = 0]
    /\ fuel' = fuel - 1
    /\ live' = NoCall
    /\ UNCHANGED <<at, polling, monitorVars, faults>>

\* It fails on chain and pays, or expires unseen (its 60 s time bound).
FundingLost ==
    /\ live # NoCall /\ faults < MaxFaults
    /\ fuel' \in {fuel, fuel - 1} \cap Nat
    /\ live' = NoCall
    /\ faults' = faults + 1
    /\ UNCHANGED <<age, at, polling, monitorVars>>

-----------------------------------------------------------------------------
(* Monitor *)

\* checkOperatorBalances, for the funding keeper's wallet.
OperatorLow == fuel < Warn

\* checkFundingFreshness: some market is further behind than the accrual cap.
FundingStale == \E m \in Markets : age[m] > Stale

\* What a round that can read everything finds failing here.
Failing ==
    (IF OperatorLow THEN {"operator-funds"} ELSE {})
    \cup (IF FundingStale THEN {"funding-accrual"} ELSE {})

\* A check that cannot read what it checks throws, and timed turns that into a
\* failure; and the services outside this model may really be down.
OtherFailures == SUBSET Checks

\* runChecks collects the results of its checks (Promise.all).  setInterval
\* starts the next round whether or not this one has ended.
StartRound(r) ==
    /\ round[r] = Idle /\ \A q \in Rounds : q < r => round[q] # Idle
    /\ \E extra \in OtherFailures :
           /\ faults' = IF extra \subseteq Failing \cup Range(External) THEN faults ELSE faults + 1
           /\ faults' <= MaxFaults
           /\ round' = [round EXCEPT ![r] = [next |-> 1, fails |-> Failing \cup extra, post |-> "none"]]
    /\ UNCHANGED <<age, fuel, keeperVars, alert, told>>

\* Mutant: the reminder is never due.
MutantDue(c) == FALSE

Due(c) == alert[c] >= Reminder

Alerting(r) == round[r].next \in 1..Len(CheckOrder) /\ round[r].post = "none"
Current(r) == CheckOrder[round[r].next]
NextResult(r) == IF round[r].next = Len(CheckOrder) THEN Idle ELSE [round[r] EXCEPT !.next = @ + 1, !.post = "none"]

\* processAlerts on a result that changes nothing: a healthy check that was
\* healthy, or a failure that was posted less than an hour ago.
PassResult(r) ==
    /\ Alerting(r)
    /\ IF Current(r) \in round[r].fails THEN alert[Current(r)] # Quiet /\ ~Due(Current(r))
                                         ELSE alert[Current(r)] = Quiet
    /\ round' = [round EXCEPT ![r] = NextResult(r)]
    /\ UNCHANGED <<age, fuel, keeperVars, alert, told, faults>>

\* processAlerts on a new or overdue failure: the entry is written, then posted.
RaiseAlert(r) ==
    /\ Alerting(r) /\ Current(r) \in round[r].fails
    /\ alert[Current(r)] = Quiet \/ Due(Current(r))
    /\ alert' = [alert EXCEPT ![Current(r)] = 0]
    /\ round' = [round EXCEPT ![r].post = "failing"]
    /\ UNCHANGED <<age, fuel, keeperVars, told, faults>>

\* processAlerts on a recovery.
ClearAlert(r) ==
    /\ Alerting(r) /\ Current(r) \notin round[r].fails /\ alert[Current(r)] # Quiet
    /\ alert' = [alert EXCEPT ![Current(r)] = Quiet]
    /\ round' = [round EXCEPT ![r].post = "recovered"]
    /\ UNCHANGED <<age, fuel, keeperVars, told, faults>>

\* postAlert returns: the message arrived, or the webhook failed, which is only
\* logged.
PostAlert(r) ==
    /\ round[r].post # "none"
    /\ round' = [round EXCEPT ![r] = NextResult(r)]
    /\ \/ /\ told' = IF round[r].post = "failing" THEN told \cup {Current(r)} ELSE told \ {Current(r)}
          /\ UNCHANGED faults
       \/ /\ faults < MaxFaults /\ faults' = faults + 1
          /\ UNCHANGED told
    /\ UNCHANGED <<age, fuel, keeperVars, alert>>

\* The operator tops up the wallet the channel calls low: keeper-refill.ts does
\* not know the funding keeper.
TopUp ==
    /\ "operator-funds" \in told /\ fuel < Full
    /\ fuel' = Full
    /\ UNCHANGED <<age, keeperVars, monitorVars, faults>>

-----------------------------------------------------------------------------
FundingStep == SkipMarket \/ Send \/ PollEnds
MonitorStep(r) ==
    StartRound(r) \/ PassResult(r) \/ RaiseAlert(r) \/ ClearAlert(r) \/ PostAlert(r)
WatchNext == Sleep \/ FundingStep \/ FundingLands \/ FundingLost \/ (\E r \in Rounds : MonitorStep(r)) \/ TopUp

\* Both services run in loops that no error leaves, the ledger takes in what it
\* was sent, and the operator reads the channel.
WatchFairness ==
    /\ WF_watchVars(Sleep) /\ WF_watchVars(FundingStep) /\ WF_watchVars(FundingLands)
    /\ \A r \in Rounds : WF_watchVars(MonitorStep(r))
    /\ WF_watchVars(TopUp)

WatchSpec == WatchInit /\ [][WatchNext]_watchVars /\ WatchFairness

\* Every market that can be poked is poked again and again: a market that is
\* refused, a lost transaction or a drained wallet never ends it for the others,
\* although alerts get lost and rounds of checks overtake each other.
FundingKeepsAccruing == \A m \in Markets \ Down : []<>(age[m] = 0)

\* Funding that stays stale is called failing on the alert channel, even when
\* the first alert is lost or a late "recovered" overtakes it.
StalenessIsReported ==
    \A m \in Markets : (age[m] > Stale) ~> (age[m] <= Stale \/ "funding-accrual" \in told)
=============================================================================
