----------------------------- MODULE ReadModels -----------------------------
(***************************************************************************)
(* The tables other parts read instead of the chain or the fills: the      *)
(* Market row, from whose oracle price the matcher takes its band, and the *)
(* statistics behind leaderboard and portfolio.  The state indexer ticks   *)
(* on a timer that does not wait for the tick before, and the aggregation  *)
(* also runs as a process of its own: a row may be written from a read     *)
(* that is older than the row.  One market; a trader's statistics are      *)
(* abstracted to the number of fills they count.                           *)
(***************************************************************************)
EXTENDS Integers, FiniteSets

CONSTANTS
    Ticks,          \* ticks and aggregations that may overlap
    Accounts,
    MaxChanges,     \* bound on the changes of chain and fills
    MaxBlips        \* bound on failed reads and statements, and on lost rows

ASSUME ReadModelConstants == MaxChanges \in Nat /\ MaxBlips \in Nat

VARIABLES
    onChain,    \* oracle price and open interest on chain
    marketRow,  \* the Market row, or NoRow
    fills,      \* Fill rows of the period in which an account has a part
    traderStat, \* TraderStat, and
    analytics,  \* AccountAnalytics: the fills counted in the account's row
    tick,       \* every tick: its step, what it read, the rows left to write
    changes,    \* history: changes so far
    blips       \* history: failures so far

readModelVars == <<onChain, marketRow, fills, traderStat, analytics, tick, changes, blips>>

Unread == -1
NoRow == [price |-> Unread, interest |-> Unread]
NoTick == [step |-> "idle", market |-> NoRow, count |-> [a \in Accounts |-> 0], todo |-> {}]

Blip == blips < MaxBlips /\ blips' = blips + 1
TickGoes(r, to) == tick' = [tick EXCEPT ![r] = to]
Counted == {a \in Accounts : fills[a] > 0}

-----------------------------------------------------------------------------
(* The indexer.                                                            *)

\* Both columns are read; a read that fails, or a stale price, leaves its
\* column out.
ReadMarket(r) ==
    /\ tick[r].step = "idle"
    /\ \/ TickGoes(r, [NoTick EXCEPT !.step = "market", !.market = onChain]) /\ UNCHANGED blips
       \/ /\ \E column \in {"price", "interest"} :
                TickGoes(r, [NoTick EXCEPT !.step = "market", !.market = [onChain EXCEPT ![column] = Unread]])
          /\ Blip
    /\ UNCHANGED <<onChain, marketRow, fills, traderStat, analytics, changes>>

\* Mutant: a plain UPDATE, which does nothing for a row that is not there.
MutantUpsertedRow(read) ==
    IF marketRow = NoRow THEN NoRow
    ELSE [c \in DOMAIN read |-> IF read[c] = Unread THEN marketRow[c] ELSE read[c]]

\* The upsert: a missing row is made, a column that was not read keeps its value
\* or takes its default.
UpsertedRow(read) ==
    [c \in DOMAIN read |->
        IF read[c] # Unread THEN read[c] ELSE IF marketRow[c] # Unread THEN marketRow[c] ELSE 0]

\* Every sixth tick goes on to aggregate.
UpsertMarket(r) ==
    /\ tick[r].step = "market"
    /\ marketRow' = UpsertedRow(tick[r].market)
    /\ \E next \in {"idle", "stats"} : TickGoes(r, [NoTick EXCEPT !.step = next])
    /\ UNCHANGED <<onChain, fills, traderStat, analytics, changes, blips>>

-----------------------------------------------------------------------------
(* The aggregation: first the leaderboard's rows, then the portfolio's,    *)
(* each from a read of its own and one upsert per account.                 *)

ReadFills(r) == [NoTick EXCEPT !.step = tick[r].step, !.count = fills, !.todo = Counted]

AggregatePeriod(r) ==
    /\ tick[r].step = "stats" /\ tick[r].todo = {}
    /\ TickGoes(r, IF Counted = {} THEN [NoTick EXCEPT !.step = "analytics"] ELSE ReadFills(r))
    /\ UNCHANGED <<onChain, marketRow, fills, traderStat, analytics, changes, blips>>

AggregateAnalytics(r) ==
    /\ tick[r].step = "analytics" /\ tick[r].todo = {}
    /\ TickGoes(r, IF Counted = {} THEN NoTick ELSE ReadFills(r))
    /\ UNCHANGED <<onChain, marketRow, fills, traderStat, analytics, changes, blips>>

\* The tick after the row of an account is written.
Written(r, a, next) ==
    IF tick[r].todo = {a} THEN [NoTick EXCEPT !.step = next] ELSE [tick[r] EXCEPT !.todo = @ \ {a}]

UpsertStat(r, a) ==
    /\ tick[r].step = "stats" /\ a \in tick[r].todo
    /\ traderStat' = [traderStat EXCEPT ![a] = tick[r].count[a]]
    /\ TickGoes(r, Written(r, a, "analytics"))
    /\ UNCHANGED <<onChain, marketRow, fills, analytics, changes, blips>>

UpsertAnalytics(r, a) ==
    /\ tick[r].step = "analytics" /\ a \in tick[r].todo
    /\ analytics' = [analytics EXCEPT ![a] = tick[r].count[a]]
    /\ TickGoes(r, Written(r, a, "idle"))
    /\ UNCHANGED <<onChain, marketRow, fills, traderStat, changes, blips>>

\* A statement or an unguarded read throws: the rest of the step is given up.
TickThrows(r) ==
    /\ tick[r].step # "idle" /\ Blip
    /\ TickGoes(r, NoTick)
    /\ UNCHANGED <<onChain, marketRow, fills, traderStat, analytics, changes>>

-----------------------------------------------------------------------------
(* What the tables follow.                                                 *)

Change == changes < MaxChanges /\ changes' = changes + 1

ChainMoves ==
    /\ Change
    /\ \E column \in {"price", "interest"} : onChain' = [onChain EXCEPT ![column] = @ + 1]
    /\ UNCHANGED <<marketRow, fills, traderStat, analytics, tick, blips>>

\* A fill is persisted, with a maker and a taker, or rolled back.
FillsChange ==
    /\ Change
    /\ \E maker, taker \in Accounts, by \in {1, -1} :
          /\ maker # taker /\ fills[maker] + by >= 0 /\ fills[taker] + by >= 0
          /\ fills' = [fills EXCEPT ![maker] = @ + by, ![taker] = @ + by]
    /\ UNCHANGED <<onChain, marketRow, traderStat, analytics, tick, blips>>

\* A fresh or reset database.
MarketRowLost ==
    /\ Blip
    /\ marketRow' = NoRow
    /\ UNCHANGED <<onChain, fills, traderStat, analytics, tick, changes>>

-----------------------------------------------------------------------------
ReadModelInit ==
    /\ onChain = [price |-> 0, interest |-> 0] /\ marketRow \in {NoRow, onChain}
    /\ fills = [a \in Accounts |-> 0] /\ traderStat = fills /\ analytics = fills
    /\ tick = [r \in Ticks |-> NoTick]
    /\ changes = 0 /\ blips = 0

TickStep(r) ==
    \/ ReadMarket(r) \/ UpsertMarket(r) \/ AggregatePeriod(r) \/ AggregateAnalytics(r)
    \/ \E a \in Accounts : UpsertStat(r, a) \/ UpsertAnalytics(r, a)

ReadModelNext ==
    \/ \E r \in Ticks : TickStep(r) \/ TickThrows(r)
    \/ ChainMoves \/ FillsChange \/ MarketRowLost

\* The timer starts a tick again and again, every step of it ends, and every
\* sixth tick aggregates.
ReadModelFairness ==
    \A r \in Ticks :
        /\ WF_readModelVars(TickStep(r))
        /\ SF_readModelVars(UpsertMarket(r) /\ tick'[r].step = "stats")
ReadModelSpec == ReadModelInit /\ [][ReadModelNext]_readModelVars /\ ReadModelFairness

-----------------------------------------------------------------------------
\* However ticks overlap, fail and write what they read before a change, the
\* matcher's price band and the statistics return to the truth once it stops
\* moving, and a lost Market row comes back by itself.  An account that has no
\* fill left in the period keeps its last row: no tick reads it any more.
ReadModelsCatchUp ==
    []<>(/\ marketRow = onChain
         /\ \A a \in Counted : traderStat[a] = fills[a] /\ analytics[a] = fills[a])
=============================================================================
