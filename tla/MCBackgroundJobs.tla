-------------------------- MODULE MCBackgroundJobs --------------------------
(***************************************************************************)
(* The jobs in the background that read and report: the funding keeper and *)
(* the monitor (two markets, the first of which is refused by its oracle), *)
(* and the read models.  The two share no state, so the check follows one  *)
(* at a time, the other at rest.                                           *)
(***************************************************************************)
EXTENDS FundingWatch, ReadModels

VARIABLE focus      \* the part that is followed

MCExternal == <<>>

jobVars == <<focus, watchVars, readModelVars>>

JobInit ==
    /\ focus \in {"funding", "tables"}
    /\ WatchInit /\ ReadModelInit
    /\ focus # "tables" => marketRow = onChain

JobNext ==
    \/ focus = "funding" /\ WatchNext /\ UNCHANGED <<focus, readModelVars>>
    \/ focus = "tables" /\ ReadModelNext /\ UNCHANGED <<focus, watchVars>>

\* WatchFairness and ReadModelFairness, each while its part is followed.
FundingFairness ==
    /\ WF_watchVars(focus = "funding" /\ Sleep) /\ WF_watchVars(focus = "funding" /\ FundingStep)
    /\ WF_watchVars(focus = "funding" /\ FundingLands) /\ WF_watchVars(focus = "funding" /\ TopUp)
    /\ \A r \in Rounds : WF_watchVars(focus = "funding" /\ MonitorStep(r))

TableFairness ==
    \A r \in Ticks :
        /\ WF_readModelVars(focus = "tables" /\ TickStep(r))
        /\ SF_readModelVars(focus = "tables" /\ UpsertMarket(r) /\ tick'[r].step = "stats")

JobSpec == JobInit /\ [][JobNext]_jobVars /\ FundingFairness /\ TableFairness
=============================================================================
