----------------------------- MODULE OracleFeed -----------------------------
(***************************************************************************)
(* How a price gets on chain and when it may be read: the oracle keeper    *)
(* (client/scripts/oracle-keeper.ts), the activity check that lets it idle *)
(* (client/lib/oracle-activity.ts), the scripts that register feeds, and   *)
(* the oracle adapter contract with its single-source and quorum writes.   *)
(*                                                                         *)
(* Time is counted in units of one keeper fetch; the ledger's clock trails *)
(* the keeper's by at most MaxLag.  `truth` is what an asset is worth,     *)
(* which no program sees; venues and Reflector report something.  The      *)
(* confidence interval is left out: half of a spread the keeper accepts is *)
(* always inside the guard of every configured feed.                       *)
(***************************************************************************)
EXTENDS Integers, Sequences, FiniteSets, SequencesExt

CONSTANTS
    Markets,            \* assets priced from three venues and Reflector
    Stables,            \* collateral assets priced from two venues
    Listings,           \* sets of assets a deployment may be configured with
    Prices,             \* prices that can occur
    Peg,                \* PRICE_PRECISION: one dollar
    MIN_SOURCES,
    MAX_SOURCE_DEVIATION_BPS,
    REFLECTOR_DIVERGENCE_HALT_BPS,
    DEPEG_HALT_BPS,
    PUBLISH_DEVIATION_BPS,
    HEARTBEAT,          \* PUBLISH_HEARTBEAT_SECS
    BACKDATE,           \* PUBLISH_TIME_BACKDATE_SECS
    TX_TIMEOUT,         \* time bound of a write_price transaction
    POLL_TIMEOUT,       \* how long the keeper polls for it
    CHECK_INTERVAL,     \* ACTIVITY_CHECK_INTERVAL_MS
    IDLE_GRACE,         \* IDLE_GRACE_SECS
    MAX_AGE,            \* OracleGuard.max_age_secs
    MaxLag,             \* how far the last closed ledger trails the clock
    Signals,            \* reasons why the protocol may need prices
    Settle,             \* how long after a fault the promise resumes
    MaxTime,            \* bound on the clock
    MaxUpsets           \* bound on what the admin, the world and crashes do

ASSUME OracleConstants ==
    /\ Prices \subseteq Nat \ {0} /\ Peg \in Nat \ {0}
    /\ MIN_SOURCES \in Nat \ {0, 1}
    /\ {MAX_SOURCE_DEVIATION_BPS, REFLECTOR_DIVERGENCE_HALT_BPS,
        DEPEG_HALT_BPS, PUBLISH_DEVIATION_BPS} \subseteq Nat
    /\ MAX_SOURCE_DEVIATION_BPS <= REFLECTOR_DIVERGENCE_HALT_BPS /\ DEPEG_HALT_BPS < 10000
    /\ {HEARTBEAT, BACKDATE, TX_TIMEOUT, POLL_TIMEOUT, CHECK_INTERVAL, IDLE_GRACE, MAX_AGE,
        MaxLag, Settle, MaxTime, MaxUpsets} \subseteq Nat
    /\ Markets \cap Stables = {} /\ IsFiniteSet(Markets \cup Stables)
    /\ Listings \subseteq (SUBSET (Markets \cup Stables)) \ {{}} /\ Peg \in Prices

\* How the delays fit together.  In seconds the keeper has a heartbeat of 60, 90
\* for stablecoins, a backdate of 15, a fetch every 8, an activity check every 30
\* with a grace of 900, and the guard an age of 120; the check looks for orders,
\* settlements, positions and the vault's USDC.
ASSUME DelaysFit ==
    /\ HEARTBEAT >= 1 /\ CHECK_INTERVAL >= 1
    /\ HEARTBEAT + BACKDATE <= MAX_AGE
    /\ CHECK_INTERVAL <= IDLE_GRACE
    /\ HEARTBEAT <= Settle
    /\ Signals \subseteq {"orders", "jobs", "positions", "usdc"}

Assets == Markets \cup Stables
Venues == {"Binance", "Coinbase", "Kraken"}
OracleSources == {"RedStone", "Pyth", "Reflector"}

VARIABLES
    listed,         \* the assets this deployment publishes (ACTIVE_MARKETS, stables)
    now, ledger,    \* the keeper's clock; the last closed ledger's timestamp
    truth,          \* what each asset is worth
    movedAge,       \* for how long it has been that, as far as it matters
    needs,          \* the reasons that hold now
    neededAge,      \* for how long some reason has held, as far as it matters
    config,         \* adapter: DataKey::Config per asset
    sourcePublisher,\* adapter: DataKey::SourcePublisher of RedStone per asset
    price,          \* adapter: DataKey::Price per asset
    pc,             \* keeper: "idle", "fetch" or "poll"
    ticked,         \* keeper: a tick ran to its end in this unit
    queue,          \* keeper: assets this tick has still to visit
    lastPublished,  \* keeper: Map of confirmed publications
    lastCheck, lastActiveAt,    \* keeper: activity cache
    pool,           \* write_price transactions sent and not yet decided
    sent,           \* the one the keeper is polling for
    outcome,        \* what a poll for it answers
    quiet,          \* for how long nothing kept a tick from being healthy
    upsets          \* how much the admin, the world and crashes did so far

chainVars == <<config, sourcePublisher, price>>
worldVars == <<listed, truth, movedAge, needs, neededAge>>
keeperVars == <<pc, ticked, queue, lastPublished, lastCheck, lastActiveAt>>
txVars == <<pool, sent, outcome>>
vars == <<now, ledger, worldVars, chainVars, keeperVars, txVars, quiet, upsets>>

Distance(a, b) == IF a > b THEN a - b ELSE b - a

\* divergenceBps: basis points of the reference, truncated.
DivergenceBps(p, ref) == (Distance(p, ref) * 10000) \div ref

\* p is no further from ref than that many basis points of ref, not truncated.
Within(p, ref, bps) == Distance(p, ref) * 10000 <= bps * ref

\* The k-th smallest of the prices in answers, as after a sort.
Ranked(answers, k) ==
    CHOOSE x \in Range(answers) :
        /\ Cardinality({v \in DOMAIN answers : answers[v] < x}) < k
        /\ Cardinality({v \in DOMAIN answers : answers[v] <= x}) >= k

-----------------------------------------------------------------------------
(* The adapter contract *)

\* `by` is history: who vouched for the price; `worth` the truth it was of.
NoPrice == [price |-> 0, source |-> "none", publish_time |-> 0,
            write_time |-> 0, by |-> {}, worth |-> 0]
NoFeed == [publisher |-> "none", source |-> "none", active |-> FALSE]

\* OracleSnapshot::validate against a ledger timestamp.
Valid(s, at) ==
    /\ s.price > 0
    /\ s.publish_time <= at /\ s.write_time <= at
    /\ at - s.publish_time <= MAX_AGE /\ at - s.write_time <= MAX_AGE

Upset == upsets < MaxUpsets /\ upsets' = upsets + 1

\* Mutant: a replayed observation is accepted.
MutantMonotonic(a, t) == TRUE

\* validate_monotonic_publish_time
Monotonic(a, t) == price[a] # NoPrice => t > price[a].publish_time

\* write_price succeeds for this publisher and this price.
WriteAccepted(a, publisher, p, t, at) ==
    /\ config[a] # NoFeed /\ config[a].active
    /\ config[a].publisher = publisher
    /\ Valid([NoPrice EXCEPT !.price = p, !.publish_time = t, !.write_time = at], at)
    /\ Monotonic(a, t)

Snapshot(a, by, p, t, worth) ==
    [price |-> p, source |-> config[a].source, publish_time |-> t,
     write_time |-> ledger, by |-> by, worth |-> worth]

\* get_price succeeds under the feed's own guard.
Readable(a) ==
    /\ config[a].active
    /\ price[a] # NoPrice
    /\ price[a].source = config[a].source
    /\ Valid(price[a], ledger)

\* set_feed: one publisher under the RedStone label; the stored price stays.
SetFeed(a, publisher, active) ==
    /\ Upset
    /\ config' = [config EXCEPT ![a] =
           [publisher |-> publisher, source |-> "RedStone", active |-> active]]
    /\ sourcePublisher' = [sourcePublisher EXCEPT ![a] = publisher]
    /\ quiet' = 0
    /\ UNCHANGED <<now, ledger, worldVars, price, keeperVars, txVars>>

\* set_quorum_feed: all three sources required (min_sources is odd and at
\* least three); the admin becomes the feed's publisher.
SetQuorumFeed(a) ==
    /\ Upset
    /\ config' = [config EXCEPT ![a] =
           [publisher |-> "admin", source |-> "Quorum", active |-> TRUE]]
    /\ quiet' = 0
    /\ UNCHANGED <<now, ledger, worldVars, sourcePublisher, price, keeperVars, txVars>>

\* update-oracle-publisher.ts: set_source_publisher, which leaves the feed's
\* own publisher alone.
UpdateOraclePublisher(a, publisher) ==
    /\ Upset
    /\ sourcePublisher' = [sourcePublisher EXCEPT ![a] = publisher]
    /\ UNCHANGED <<now, ledger, worldVars, config, price, keeperVars, txVars, quiet>>

\* The median of an odd number of prices and their deviation from it, as in
\* sort_prices and validate_source_deviation.
QuorumMedian(obs) == Ranked(obs, (Cardinality(OracleSources) \div 2) + 1)

QuorumPrices ==
    {QuorumMedian(obs) : obs \in {o \in [OracleSources -> Prices] : \A s \in OracleSources :
        Within(o[s], QuorumMedian(o), MAX_SOURCE_DEVIATION_BPS)}}

\* write_quorum_price: one observation per required source, each signed by its
\* publisher, with this median; the oldest publish time is stored.
WriteQuorumPrice(a, median, t) ==
    /\ config[a].active /\ config[a].source = "Quorum"
    /\ Valid([NoPrice EXCEPT !.price = median, !.publish_time = t, !.write_time = ledger], ledger)
    /\ Monotonic(a, t)
    /\ price' = [price EXCEPT ![a] = Snapshot(a, OracleSources, median, t, truth[a])]
    /\ UNCHANGED <<now, ledger, worldVars, config, sourcePublisher,
                   keeperVars, txVars, quiet, upsets>>

\* setup-usdc-feed.ts registers the keeper's key, and in a second transaction
\* writes one dollar stamped with the clock of the machine that runs it.
SetupUsdcFeed(a) == a \in Stables /\ SetFeed(a, "keeper", TRUE)

SeedPrice(a) ==
    /\ a \in Stables
    /\ Upset
    /\ WriteAccepted(a, "keeper", Peg, now, ledger)
    /\ price' = [price EXCEPT ![a] = Snapshot(a, {"setup"}, Peg, now, truth[a])]
    /\ UNCHANGED <<now, ledger, worldVars, config, sourcePublisher, keeperVars, txVars, quiet>>

\* write_price by the publisher set_quorum_feed leaves in the configuration.
AdminWrite(a, p) ==
    /\ WriteAccepted(a, "admin", p, ledger, ledger)
    /\ price' = [price EXCEPT ![a] = Snapshot(a, {"admin"}, p, ledger, truth[a])]
    /\ UNCHANGED <<now, ledger, worldVars, config, sourcePublisher, keeperVars, txVars, quiet, upsets>>

-----------------------------------------------------------------------------
(* The keeper: what it makes of the venues' answers *)

\* Mutant: one venue is enough.
MutantEnoughSources(n) == n + 1 >= MIN_SOURCES

EnoughSources(n) == n >= MIN_SOURCES

Skip == 0

\* aggregatePrice: the median of the venues that answered, or Skip when too few
\* answered or they disagree.  An answer of Skip stands for a venue that failed.
AggregatePrice(answers) ==
    LET prices == Restrict(answers, {v \in DOMAIN answers : answers[v] # Skip})
        n == Cardinality(DOMAIN prices)
    IN IF ~EnoughSources(n) \/ ~Within(Ranked(prices, n), Ranked(prices, 1), MAX_SOURCE_DEVIATION_BPS)
       THEN Skip
       ELSE IF n % 2 = 1 THEN Ranked(prices, (n + 1) \div 2)
       ELSE (Ranked(prices, n \div 2) + Ranked(prices, (n \div 2) + 1) + 1) \div 2

\* reflectorAllowsPublish: an unreadable or stale Reflector (Skip) never blocks.
ReflectorAllows(median, ref) ==
    ref # Skip => DivergenceBps(median, ref) <= REFLECTOR_DIVERGENCE_HALT_BPS

PegHolds(p) == DivergenceBps(p, Peg) <= DEPEG_HALT_BPS

NoPublication == [price |-> 0, ts |-> 0]

\* Mutant: the heartbeat is left out, only moves are published.
MutantShouldPublish(a, p) ==
    lastPublished[a] # NoPublication =>
        DivergenceBps(p, lastPublished[a].price) >= PUBLISH_DEVIATION_BPS

ShouldPublish(a, p) ==
    lastPublished[a] # NoPublication =>
        \/ now - lastPublished[a].ts >= HEARTBEAT
        \/ DivergenceBps(p, lastPublished[a].price) >= PUBLISH_DEVIATION_BPS

LedgerSafePublishTime == now - BACKDATE

\* What the venues and Reflector may answer for an asset worth w: any price or
\* nothing, as long as no two venues are wrong together unless Reflector is right.
Answers(a, w) ==
    LET venues == IF a \in Markets THEN Venues ELSE Venues \ {"Binance"}
        refs == IF a \in Markets THEN Prices \cup {Skip} ELSE {Skip}
        Wrong(ans) == {v \in venues : ans[v] \notin {Skip, w}}
    IN {r \in [venues -> Prices \cup {Skip}] \X refs :
            Cardinality(Wrong(r[1])) <= 1 \/ r[2] = w}

\* What publishMarket and publishStable decide to publish, or Skip.
Decided(a, ans, ref) ==
    LET agg == AggregatePrice(ans)
    IN IF \/ agg = Skip
          \/ a \in Markets /\ ~ReflectorAllows(agg, ref)
          \/ a \in Stables /\ ~PegHolds(agg)
       THEN Skip ELSE agg

Decisions ==
    [a \in Assets |-> [w \in Prices |-> {Decided(a, r[1], r[2]) : r \in Answers(a, w)}]]

NoTx == [asset |-> "none", price |-> 0, publish_time |-> 0, worth |-> 0, bound |-> 0]

\* The assets of one tick, markets first.
TickOrder == SetToSeq(listed \cap Markets) \o SetToSeq(listed \cap Stables)

-----------------------------------------------------------------------------
(* The keeper: its tick *)

\* checkProtocolActivity: open orders, settlements in flight, positions, and
\* the vault's USDC.
ProtocolActive == needs \cap {"orders", "jobs", "positions", "usdc"} # {}

\* tick and isPublishingNeeded: a check that fails counts as activity.
StartTick(checkFails) ==
    LET check == now - lastCheck >= CHECK_INTERVAL
        active == check /\ (ProtocolActive \/ checkFails)
        needed == now - (IF active THEN now ELSE lastActiveAt) < IDLE_GRACE
    IN /\ pc = "idle" /\ ~ticked
       /\ lastCheck' = IF check THEN now ELSE lastCheck
       /\ lastActiveAt' = IF active THEN now ELSE lastActiveAt
       /\ pc' = IF needed THEN "fetch" ELSE "idle"
       /\ queue' = IF needed THEN TickOrder ELSE <<>>
       /\ ticked' = ~needed
       /\ UNCHANGED <<now, ledger, worldVars, chainVars, lastPublished, txVars, quiet, upsets>>

\* The rest of the tick once an asset is done with.
NextAsset ==
    /\ queue' = Tail(queue)
    /\ pc' = IF Tail(queue) = <<>> THEN "idle" ELSE "fetch"
    /\ ticked' = (Tail(queue) = <<>>)

\* publishMarket or publishStable up to the decision not to publish: nothing to
\* publish (a fault), or nothing new.
SkipAsset(a, p) ==
    /\ pc = "fetch" /\ a = Head(queue)
    /\ (p # Skip => ~ShouldPublish(a, p))
    /\ NextAsset
    /\ quiet' = IF p = Skip THEN 0 ELSE quiet
    /\ UNCHANGED <<now, ledger, worldVars, chainVars, lastPublished, lastCheck,
                   lastActiveAt, txVars, upsets>>

\* writePrice up to sendTransaction: simulation ran against the last ledger.
SendPrice(a, p) ==
    LET t == LedgerSafePublishTime
    IN /\ pc = "fetch" /\ a = Head(queue)
       /\ p # Skip /\ ShouldPublish(a, p)
       /\ WriteAccepted(a, "keeper", p, t, ledger)
       /\ sent' = [asset |-> a, price |-> p, publish_time |-> t, worth |-> truth[a],
                   bound |-> now + TX_TIMEOUT]
       /\ pool' = pool \cup {sent'}
       /\ outcome' = "pending"
       /\ pc' = "poll"
       /\ UNCHANGED <<now, ledger, worldVars, chainVars, ticked, queue, lastPublished,
                      lastCheck, lastActiveAt, quiet, upsets>>

\* writePrice's other ends before there is a transaction: the simulation fails,
\* the node refuses it, or a call throws.
SendFails(a, p) ==
    /\ pc = "fetch" /\ a = Head(queue)
    /\ p # Skip /\ ShouldPublish(a, p)
    /\ NextAsset
    /\ quiet' = 0
    /\ UNCHANGED <<now, ledger, worldVars, chainVars, lastPublished, lastCheck,
                   lastActiveAt, txVars, upsets>>

\* The poll answers FAILED, runs out of attempts or throws: retried next fetch.
GiveUp ==
    /\ pc = "poll"
    /\ NextAsset
    /\ sent' = NoTx /\ outcome' = "none"
    /\ quiet' = 0
    /\ UNCHANGED <<now, ledger, worldVars, chainVars, lastPublished, lastCheck,
                   lastActiveAt, pool, upsets>>

\* The poll answers SUCCESS.
Confirm ==
    /\ pc = "poll" /\ outcome = "success"
    /\ lastPublished' = [lastPublished EXCEPT ![sent.asset] = [price |-> sent.price, ts |-> now]]
    /\ NextAsset
    /\ sent' = NoTx /\ outcome' = "none"
    /\ UNCHANGED <<now, ledger, worldVars, chainVars, lastCheck, lastActiveAt, pool, quiet, upsets>>

\* The process dies and starts again, assuming activity.
Crash ==
    /\ Upset
    /\ pc' = "idle" /\ queue' = <<>> /\ ticked' = FALSE
    /\ lastPublished' = [a \in Assets |-> NoPublication]
    /\ lastCheck' = now - CHECK_INTERVAL /\ lastActiveAt' = now
    /\ sent' = NoTx /\ outcome' = "none"
    /\ quiet' = 0
    /\ UNCHANGED <<now, ledger, worldVars, chainVars, pool>>

-----------------------------------------------------------------------------
(* The network and the world *)

\* A transaction is included.  Every pending one was built on the same account
\* sequence number, so the others can no longer be.
Include(tx) ==
    LET ok == WriteAccepted(tx.asset, "keeper", tx.price, tx.publish_time, ledger)
    IN /\ tx \in pool /\ ledger <= tx.bound
       /\ pool' = {}
       /\ price' = IF ok
                     THEN [price EXCEPT ![tx.asset] =
                             Snapshot(tx.asset, {"keeper"}, tx.price, tx.publish_time, tx.worth)]
                     ELSE price
       /\ outcome' = IF tx = sent THEN (IF ok THEN "success" ELSE "failed") ELSE outcome
       /\ UNCHANGED <<now, ledger, worldVars, config, sourcePublisher, keeperVars,
                      sent, quiet, upsets>>

\* An age that no longer matters once it is past its limit.
Older(age, limit) == IF age > limit THEN age ELSE age + 1

\* A unit of time passes; a tick that has not ended by then is late.  A
\* transaction that no ledger took within its time bound is gone.
AdvanceClock ==
    /\ now < MaxTime
    /\ pc = "poll" => now < sent.bound - TX_TIMEOUT + POLL_TIMEOUT
    /\ now' = now + 1
    /\ \E l \in ledger .. now + 1 : l >= now + 1 - MaxLag /\ ledger' = l
    /\ pool' = {tx \in pool : ledger' <= tx.bound}
    /\ ticked' = FALSE
    /\ quiet' = IF ticked THEN Older(quiet, Settle) ELSE 0
    /\ movedAge' = [a \in Assets |-> Older(movedAge[a], MAX_AGE + MaxLag)]
    /\ neededAge' = IF needs = {} THEN 0 ELSE Older(neededAge, CHECK_INTERVAL)
    /\ UNCHANGED <<listed, truth, needs, chainVars, pc, queue, lastPublished, lastCheck, lastActiveAt,
                   sent, outcome, upsets>>

MoveTruth(a, p) ==
    /\ Upset /\ p # truth[a]
    /\ truth' = [truth EXCEPT ![a] = p]
    /\ movedAge' = [movedAge EXCEPT ![a] = 0]
    /\ UNCHANGED <<now, ledger, listed, needs, neededAge, chainVars, keeperVars, txVars, quiet>>

\* Orders, settlements, positions and deposits come and go.
ChangeNeeds(ns) ==
    /\ Upset /\ ns # needs
    /\ needs' = ns
    /\ neededAge' = IF needs = {} THEN 0 ELSE neededAge
    /\ UNCHANGED <<now, ledger, listed, truth, movedAge, chainVars, keeperVars, txVars, quiet>>

-----------------------------------------------------------------------------
Init ==
    /\ now = BACKDATE /\ ledger = BACKDATE
    /\ truth = [a \in Assets |-> Peg] /\ movedAge = [a \in Assets |-> 0]
    /\ listed \in Listings
    /\ needs \in {{}, Signals} /\ neededAge = 0
    /\ config \in {[a \in Assets |-> feed] : feed \in
           {[publisher |-> "keeper", source |-> "RedStone", active |-> TRUE],
            [publisher |-> "admin", source |-> "Quorum", active |-> TRUE], NoFeed}}
    /\ sourcePublisher = [a \in Assets |-> "keeper"]
    /\ price = [a \in Assets |-> NoPrice]
    /\ pc = "idle" /\ ticked = FALSE /\ queue = <<>>
    /\ lastPublished = [a \in Assets |-> NoPublication]
    /\ lastCheck = BACKDATE - CHECK_INTERVAL /\ lastActiveAt = BACKDATE
    /\ pool = {} /\ sent = NoTx /\ outcome = "none"
    /\ quiet = 0 /\ upsets = 0

KeeperStep ==
    \/ \E checkFails \in BOOLEAN : StartTick(checkFails)
    \/ \E a \in listed : \E p \in Decisions[a][truth[a]] :
          SkipAsset(a, p) \/ SendPrice(a, p) \/ SendFails(a, p)
    \/ GiveUp \/ Confirm \/ Crash

AdminStep ==
    \E a \in listed :
       \/ \E active \in BOOLEAN, p \in {"keeper", "other"} : SetFeed(a, p, active)
       \/ SetQuorumFeed(a) \/ UpdateOraclePublisher(a, "other")
       \/ SetupUsdcFeed(a) \/ SeedPrice(a)
       \/ \E p \in Prices : AdminWrite(a, p)
       \/ \E p \in QuorumPrices : WriteQuorumPrice(a, p, ledger)

WorldStep ==
    \/ \E tx \in pool : Include(tx)
    \/ AdvanceClock
    \/ \E a \in listed, p \in Prices : MoveTruth(a, p)
    \/ \E ns \in SUBSET Signals : ChangeNeeds(ns)

Next == KeeperStep \/ AdminStep \/ WorldStep

Spec == Init /\ [][Next]_vars

-----------------------------------------------------------------------------
(* Properties *)

TypeOK ==
    /\ now \in Nat /\ ledger \in Nat /\ ledger <= now /\ now - ledger <= MaxLag
    /\ \A a \in Assets :
        /\ truth[a] \in Prices /\ movedAge[a] \in 0 .. MAX_AGE + MaxLag + 1
        /\ price[a] # NoPrice =>
              /\ price[a].price > 0 /\ price[a].publish_time \in 0 .. ledger
              /\ price[a].write_time \in price[a].publish_time .. ledger
        /\ lastPublished[a] # NoPublication => lastPublished[a].ts <= now
    /\ needs \subseteq Signals
    /\ pc \in {"idle", "fetch", "poll"}
    /\ (pc = "idle") = (queue = <<>>)
    /\ (pc = "poll") = (sent # NoTx)
    /\ outcome \in {"none", "pending", "success", "failed"}
    /\ quiet \in 0 .. Settle + 1 /\ neededAge \in 0 .. CHECK_INTERVAL + 1
    /\ lastActiveAt <= now /\ lastCheck <= now

KeeperFeed(a) == config[a] = [publisher |-> "keeper", source |-> "RedStone", active |-> TRUE]

\* The price the keeper put on chain is near what the asset was worth when it
\* asked: one venue alone cannot move it, and several cannot move it past an
\* honest Reflector.
MarkNearTruth ==
    \A a \in Markets :
        price[a].by = {"keeper"} =>
            DivergenceBps(price[a].price, price[a].worth) <= REFLECTOR_DIVERGENCE_HALT_BPS

\* A price served for a quorum feed was attested by every required source, or
\* written by the admin, whatever the feed was before.
QuorumServesQuorum ==
    \A a \in Assets :
        (config[a].source = "Quorum" /\ Readable(a)) => price[a].by \in {OracleSources, {"admin"}}

\* A stablecoin that left its peg stops being priced once the last price from
\* before has aged: the protocol stops instead of valuing it at par.
StopsAtDepeg ==
    \A a \in Stables :
        (/\ DivergenceBps(truth[a], Peg) > DEPEG_HALT_BPS + MAX_SOURCE_DEVIATION_BPS
         /\ KeeperFeed(a) /\ price[a].by = {"keeper"}
         /\ movedAge[a] > MAX_AGE + MaxLag)
        => ~Readable(a)

\* The stored prices are well formed and vouched for: by an honest majority of
\* what the keeper asked, by every source of a quorum feed, or by the admin; and
\* a lost peg silences its feed.
PriceIsSound == TypeOK /\ MarkNearTruth /\ QuorumServesQuorum /\ StopsAtDepeg

\* Heartbeats, backdating, retries and the guard's age fit together: while the
\* protocol needs prices and ticks are healthy, every feed of the keeper can be
\* read, so that nobody is locked in by a stale price.
FreshWhenNeeded ==
    (/\ needs # {} /\ neededAge > CHECK_INTERVAL
     /\ quiet > Settle)
    => \A a \in listed : KeeperFeed(a) => Readable(a)

\* What is stored is never replaced by an older observation, whichever of the
\* write paths and however late a transaction lands.
OlderNeverWins ==
    [][\A a \in Assets : price'[a] # price[a] => price'[a].publish_time > price[a].publish_time
                           \/ price[a] = NoPrice]_vars
=============================================================================
