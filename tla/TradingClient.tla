--------------------------- MODULE TradingClient ---------------------------
(***************************************************************************)
(* One trader's orders as the web client shows them.  The trader has the   *)
(* terminal open in several tabs.  A tab builds an order, has the wallet   *)
(* sign it and posts it; the orders API stores it; the matcher settles it  *)
(* on chain; the trader cancels it on chain, at the API and in the tab, in *)
(* that order.  Every tab keeps the list of orders behind Open Orders,     *)
(* writes the whole list to the browser's storage whenever it changes it,  *)
(* and polls the gateway for what became of the pending ones.              *)
(*                                                                         *)
(* An order has size one and is known to everybody by its nonce, which is  *)
(* one of its own in its page but not beyond it: the nonce's counters are  *)
(* the page's.  Whether a button is pressed with the wallet on the right   *)
(* network, a valid size, a price and enough margin is the trader's        *)
(* choice: a press that fails a check only shows a message and is no step  *)
(* here.                                                                   *)
(***************************************************************************)
EXTENDS Integers, Sequences, FiniteSets, TLC, SequencesExt, FiniteSetsExt

CONSTANTS
    Tabs,
    Traders,        \* the tabs in which the trader places and cancels orders
    PerMs,          \* nonces a tab can draw within one millisecond (1000)
    MaxMs,          \* bound on the milliseconds a clock shows
    MaxOrders,      \* bound on the orders ever built
    ListCap,        \* orders a tab keeps (100)
    PollCap,        \* pending orders one reconciliation pass checks (20)
    MaxFaults       \* bound on lost messages, failed reads, page loads, disconnects and expiries

ASSUME ClientConstants ==
    /\ Traders \subseteq Tabs /\ "gone" \notin Tabs
    /\ PerMs \in Nat \ {0} /\ ListCap \in Nat \ {0} /\ PollCap \in Nat \ {0}
    /\ MaxMs \in Nat /\ MaxOrders \in Nat /\ MaxFaults \in Nat

VARIABLES
    connected,  \* tabs whose wallet store says connected
    drawn,      \* nonceCounter of each tab
    lastNonce,  \* lastNonce of each tab
    request,    \* every order built so far and its submission
    expired,    \* the orders that are past their expiry
    row,        \* Order rows by nonce: the order, "resting" or "cancelled"
    matched,    \* nonces in a match that is not settled yet
    filledEntry,    \* DataKey::Filled entries the gateway holds, by nonce
    cancelledEntry, \* DataKey::Cancelled entries it holds: for each nonce, the orders built by then
    settled,    \* history: nonces the gateway has filled
    tombstone,  \* history: nonces the gateway has cancelled
    list,       \* the tab's order list, newest first
    disk,       \* the list in the browser's storage
    event,      \* tabs with a storage event still to be handled
    pass,       \* what is left of the tab's reconciliation pass
    cancel,     \* the tab's cancel handler
    stray,      \* cancel transactions whose handler no longer watches
    faults      \* history: faults so far

tabVars == <<list, disk, event>>
gatewayVars == <<filledEntry, cancelledEntry, settled, tombstone>>
chainVars == <<expired, matched, gatewayVars>>
nonceVars == <<drawn, lastNonce>>
clientVars == <<connected, nonceVars, request, row, chainVars, tabVars, pass, cancel, stray, faults>>

Intents == DOMAIN request
BuiltNonces == {request[i].nonce : i \in Intents}
Old == 1    \* an order that expired unfilled before the trader came back, and its nonce
Fault == faults < MaxFaults /\ faults' = faults + 1

-----------------------------------------------------------------------------
(* The order list.  A change in one tab is written to the storage whole,   *)
(* and the other tabs hear of it when they handle the storage event.       *)

Write(t, orders) ==
    /\ list' = [list EXCEPT ![t] = orders]
    /\ disk' = orders
    /\ event' = IF orders = disk THEN event ELSE event \cup (Tabs \ {t})

\* What a filter keeps of a list.
Kept(orders, Test(_)) ==
    FlattenSeq([k \in DOMAIN orders |-> IF Test(orders[k]) THEN <<orders[k]>> ELSE <<>>])

Upto(s, n) == SubSeq(s, 1, Min({n, Len(s)}))

AddOrder(t, n) ==
    Write(t, <<[nonce |-> n, status |-> "pending"]>>
             \o Upto(Kept(list[t], LAMBDA o : o.nonce # n), ListCap - 1))

Marked(orders, n, status) ==
    [k \in DOMAIN orders |->
        IF orders[k].nonce = n THEN [orders[k] EXCEPT !.status = status] ELSE orders[k]]

Mark(t, n, status) == Write(t, Marked(list[t], n, status))

Rehydrate(t) ==
    /\ t \in event
    /\ list' = [list EXCEPT ![t] = disk]
    /\ event' = event \ {t}
    /\ UNCHANGED <<connected, nonceVars, request, row, chainVars, disk, pass, cancel, stray, faults>>

Pending(t) == Kept(list[t], LAMBDA o : o.status = "pending")
ShownOpen(t, n) == \E k \in DOMAIN list[t] : list[t][k] = [nonce |-> n, status |-> "pending"]

-----------------------------------------------------------------------------
(* The wallet.                                                             *)

\* The disconnect button, or the poll of a wallet that denies access; it ends
\* the reconciliation pass.
Disconnect(t) ==
    /\ t \in connected /\ Fault
    /\ connected' = connected \ {t}
    /\ pass' = [pass EXCEPT ![t] = <<>>]
    /\ UNCHANGED <<nonceVars, request, row, chainVars, tabVars, cancel, stray>>

\* The connect button, or the poll of a wallet that grants access.
Connect(t) ==
    /\ t \notin connected
    /\ connected' = connected \cup {t}
    /\ UNCHANGED <<nonceVars, request, row, chainVars, tabVars, pass, cancel, stray, faults>>

-----------------------------------------------------------------------------
(* Placing an order.                                                       *)

\* Mutant: the nonce is the clock and the counter, without the clamp.
MutantNextNonce(t, ms) == (ms * PerMs) + (drawn[t] % PerMs)

NextNonce(t, ms) ==
    LET candidate == (ms * PerMs) + (drawn[t] % PerMs)
    IN  IF candidate > lastNonce[t] THEN candidate ELSE lastNonce[t] + 1

\* A submission is on its way, from the wallet's window to the API, until it is
\* answered.
Gone == "gone"
Request(t, n, step, tracked) == [tab |-> t, nonce |-> n, step |-> step, tracked |-> tracked]

\* The clock may show any time.  The counters know nothing of the page before a
\* reload, nor of the other tabs.
Build(t, n, tracked) ==
    /\ t \in connected \cap Traders
    /\ Len(request) < MaxOrders
    /\ drawn' = [drawn EXCEPT ![t] = @ + 1]
    /\ lastNonce' = [lastNonce EXCEPT ![t] = n]
    /\ request' = Append(request, Request(t, n, "post", tracked))

\* The order ticket: it tracks the order once the API has accepted it.
HandleSubmit(t) ==
    /\ \A i \in Intents : request[i].tab = t /\ ~request[i].tracked => request[i].step = "done"
    /\ \E ms \in 0..MaxMs : Build(t, NextNonce(t, ms), FALSE)
    /\ UNCHANGED <<connected, row, chainVars, tabVars, pass, cancel, stray, faults>>

\* Closing a position tracks its order before the API has heard of it.
MakeClose(t) ==
    /\ \E ms \in 0..MaxMs : Build(t, NextNonce(t, ms), TRUE) /\ AddOrder(t, NextNonce(t, ms))
    /\ UNCHANGED <<connected, row, chainVars, pass, cancel, stray, faults>>

RequestGoes(i, step) == request' = [request EXCEPT ![i].step = step]

\* The intake stores the order; an order of a nonce it has seen changes nothing
\* and is accepted all the same.
StoreOrder(i) ==
    LET n == request[i].nonce
    IN  /\ request[i].step = "post" /\ i \notin expired
        /\ row' = IF n \in DOMAIN row THEN row ELSE (n :> [order |-> i, status |-> "resting"]) @@ row
        /\ RequestGoes(i, "ok")
        /\ UNCHANGED <<connected, nonceVars, chainVars, tabVars, pass, cancel, stray, faults>>

RefuseOrder(i) ==
    /\ request[i].step = "post"
    /\ RequestGoes(i, "fail")
    /\ UNCHANGED <<connected, nonceVars, row, chainVars, tabVars, pass, cancel, stray, faults>>

\* The trader declines to sign.
Declined(i) == request[i].tab # Gone /\ RefuseOrder(i)

\* The caller is over its rate, in the database's window or in the process's.
RateLimited(i) == RefuseOrder(i)

\* The intake refuses it: its market's limits, or its expiry by the server's clock.
Rejected(i) == RefuseOrder(i)

\* The database stays down through every retry.
StoreFails(i) == RefuseOrder(i)

\* The answer is lost: to the tab the order has failed.
LoseAnswer(i) ==
    /\ request[i].step = "ok" /\ Fault
    /\ RequestGoes(i, "fail")
    /\ UNCHANGED <<connected, nonceVars, row, chainVars, tabVars, pass, cancel, stray>>

\* submitOrder returns.
Answered(i) ==
    /\ request[i].step \in {"ok", "fail"}
    /\ RequestGoes(i, "done")
    /\ IF request[i].step = "ok" /\ ~request[i].tracked
       THEN AddOrder(request[i].tab, request[i].nonce) ELSE UNCHANGED tabVars
    /\ UNCHANGED <<connected, nonceVars, row, chainVars, pass, cancel, stray, faults>>

-----------------------------------------------------------------------------
(* The matcher and the gateway, as far as the client sees them.            *)

\* The rows the matcher may still fill.
Live == {n \in DOMAIN row \ (matched \cup settled) : row[n].status = "resting" /\ row[n].order \notin expired}

Match(n) ==
    /\ n \in Live
    /\ matched' = matched \cup {n}
    /\ UNCHANGED <<connected, nonceVars, request, row, expired, gatewayVars, tabVars, pass, cancel, stray, faults>>

\* The gateway refuses a cancelled or expired order, and the match is undone.
Settle(n) ==
    /\ n \in matched
    /\ matched' = matched \ {n}
    /\ IF n \in DOMAIN cancelledEntry \/ row[n].order \in expired
       THEN UNCHANGED <<settled, filledEntry>>
       ELSE settled' = settled \cup {n} /\ filledEntry' = filledEntry \cup {n}
    /\ UNCHANGED <<connected, nonceVars, request, row, expired, cancelledEntry, tombstone, tabVars, pass, cancel,
                   stray, faults>>

GatewayCancels(n) ==
    /\ tombstone' = tombstone \cup {n}
    /\ cancelledEntry' = [m \in DOMAIN cancelledEntry \cup {n} |->
                           IF m = n THEN Len(request) ELSE cancelledEntry[m]]
    /\ UNCHANGED <<expired, matched, settled, filledEntry>>

\* Time passes an order's expiry (bounded with the faults).
Expire(i) ==
    /\ i \notin expired /\ Fault
    /\ expired' = expired \cup {i}
    /\ UNCHANGED <<connected, nonceVars, request, row, matched, gatewayVars, tabVars, pass, cancel, stray>>

\* A Filled entry must outlive its order, a Cancelled entry every order that was
\* signed under its nonce by then; they may go in that order.
FilledLapsed(n) == n \in filledEntry /\ row[n].order \in expired
CancelledLapsed(n) ==
    /\ n \in DOMAIN cancelledEntry
    /\ \A i \in 1..cancelledEntry[n] : request[i].nonce = n => i \in expired

\* Anybody prunes the entries that are past their time.
Reclaim(n) ==
    /\ \/ FilledLapsed(n) /\ UNCHANGED cancelledEntry
       \/ CancelledLapsed(n) /\ cancelledEntry' = [m \in DOMAIN cancelledEntry \ {n} |-> cancelledEntry[m]]
    /\ filledEntry' = filledEntry \ {n}
    /\ UNCHANGED <<connected, nonceVars, request, row, expired, matched, settled, tombstone, tabVars, pass, cancel,
                   stray, faults>>

-----------------------------------------------------------------------------
(* Cancelling.                                                             *)

NoCancel == [step |-> "idle", nonce |-> -1]
CancelGoes(t, step) == cancel' = [cancel EXCEPT ![t].step = step]

\* The trader presses cancel; invokeContract builds, simulates, has the wallet
\* sign and sends.
MakeCancel(t, n) ==
    /\ t \in connected \cap Traders /\ cancel[t] = NoCancel /\ ShownOpen(t, n)
    /\ cancel' = [cancel EXCEPT ![t] = [step |-> "sent", nonce |-> n]]
    /\ UNCHANGED <<connected, nonceVars, request, row, chainVars, tabVars, pass, stray, faults>>

\* It throws before anything is sent, or on a transaction that failed.
CancelThrows(t) ==
    /\ cancel[t].step = "sent"
    /\ cancel' = [cancel EXCEPT ![t] = NoCancel]
    /\ UNCHANGED <<connected, nonceVars, request, row, chainVars, tabVars, pass, stray, faults>>

CancelLands(t) ==
    /\ cancel[t].step = "sent"
    /\ GatewayCancels(cancel[t].nonce)
    /\ CancelGoes(t, "landed")
    /\ UNCHANGED <<connected, nonceVars, request, row, tabVars, pass, stray, faults>>

\* It throws while the transaction is still on its way.
StopWatching(t) ==
    /\ cancel[t].step = "sent" /\ Fault
    /\ stray' = stray \cup {cancel[t].nonce}
    /\ cancel' = [cancel EXCEPT ![t] = NoCancel]
    /\ UNCHANGED <<connected, nonceVars, request, row, chainVars, tabVars, pass>>

StrayLands(n) ==
    /\ n \in stray
    /\ GatewayCancels(n)
    /\ stray' = stray \ {n}
    /\ UNCHANGED <<connected, nonceVars, request, row, tabVars, pass, cancel, faults>>

\* The cancel route's statement.
CancelRow(nonces) ==
    [n \in DOMAIN row |-> IF n \in nonces THEN [row[n] EXCEPT !.status = "cancelled"] ELSE row[n]]

\* The API's cancel: best effort, and a row that does not exist is no error.
CancelOrderOnMatcher(t) ==
    LET n == cancel[t].nonce
    IN  /\ cancel[t].step = "landed"
        /\ \/ row' = CancelRow({n}) /\ UNCHANGED faults
           \/ UNCHANGED row /\ Fault
        /\ CancelGoes(t, "local")
        /\ UNCHANGED <<connected, nonceVars, request, chainVars, tabVars, pass, stray>>

CancelIsSettled(t) == cancel[t].step = "local"

CancelLocally(t) ==
    /\ CancelIsSettled(t)
    /\ Mark(t, cancel[t].nonce, "cancelled")
    /\ cancel' = [cancel EXCEPT ![t] = NoCancel]
    /\ UNCHANGED <<connected, nonceVars, request, row, chainVars, pass, stray, faults>>

\* The kill switch of the API: every live row (a matched one counts as filled),
\* nothing on chain.
CancelAll ==
    /\ Live # {}
    /\ row' = CancelRow(Live)
    /\ UNCHANGED <<connected, nonceVars, request, chainVars, tabVars, pass, cancel, stray, faults>>

-----------------------------------------------------------------------------
(* Reconciliation.  Its first half asks GET /api/orders, which the API     *)
(* does not serve: the answer is never ok and the half changes nothing.    *)
(* The second half asks the gateway about the newest pending orders.       *)

Reconcile(t) ==
    /\ t \in connected /\ pass[t] = <<>> /\ Pending(t) # <<>>
    /\ pass' = [pass EXCEPT ![t] = [k \in DOMAIN Upto(Pending(t), PollCap) |-> Pending(t)[k].nonce]]
    /\ UNCHANGED <<connected, nonceVars, request, row, chainVars, tabVars, cancel, stray, faults>>

\* Mutant: only fills are looked for.
MutantVerdict(n) == IF n \in filledEntry THEN "filled" ELSE "pending"

\* A pruned entry reads as none.
Verdict(n) ==
    IF n \in DOMAIN cancelledEntry THEN "cancelled" ELSE IF n \in filledEntry THEN "filled" ELSE "pending"

CheckOrder(t) ==
    /\ pass[t] # <<>>
    /\ pass' = [pass EXCEPT ![t] = Tail(@)]
    /\ LET n == Head(pass[t])
       IN  IF Verdict(n) = "pending" THEN UNCHANGED tabVars ELSE Mark(t, n, Verdict(n))
    /\ UNCHANGED <<connected, nonceVars, request, row, chainVars, cancel, stray, faults>>

\* The read fails and the order waits for the next pass.
CheckFails(t) ==
    /\ pass[t] # <<>> /\ Fault
    /\ pass' = [pass EXCEPT ![t] = Tail(@)]
    /\ UNCHANGED <<connected, nonceVars, request, row, chainVars, tabVars, cancel, stray>>

-----------------------------------------------------------------------------
(* A page load: a refresh, or the reload that switches the network.  The   *)
(* tab's handlers die, their requests and transactions do not.             *)

Reload(t) ==
    /\ Fault
    /\ connected' = connected \ {t}
    /\ drawn' = [drawn EXCEPT ![t] = 0] /\ lastNonce' = [lastNonce EXCEPT ![t] = 0]
    /\ list' = [list EXCEPT ![t] = disk]
    /\ event' = event \ {t}
    /\ pass' = [pass EXCEPT ![t] = <<>>]
    /\ request' = [i \in Intents |->
          IF request[i].tab # t THEN request[i]
          ELSE Request(Gone, request[i].nonce, IF request[i].step = "post" THEN "post" ELSE "done", TRUE)]
    /\ stray' = IF cancel[t].step = "sent" THEN stray \cup {cancel[t].nonce} ELSE stray
    /\ cancel' = [cancel EXCEPT ![t] = NoCancel]
    /\ UNCHANGED <<row, chainVars, disk>>

-----------------------------------------------------------------------------
\* Nothing in the client takes an expired order off the list but the trader's
\* cancel.
ClientInit ==
    /\ connected = Tabs
    /\ lastNonce = [t \in Tabs |-> IF t \in Traders THEN Old ELSE 0] /\ drawn = lastNonce
    /\ \E t \in Traders : request = <<Request(t, Old, "done", TRUE)>>
    /\ row = (Old :> [order |-> Old, status |-> "resting"])
    /\ expired = {Old} /\ matched = {}
    /\ filledEntry = {} /\ cancelledEntry = <<>> /\ settled = {} /\ tombstone = {}
    /\ disk = <<[nonce |-> Old, status |-> "pending"]>> /\ list = [t \in Tabs |-> disk] /\ event = {}
    /\ pass = [t \in Tabs |-> <<>>]
    /\ cancel = [t \in Tabs |-> NoCancel] /\ stray = {}
    /\ faults = 0

TabStep(t) ==
    \/ Rehydrate(t) \/ Disconnect(t) \/ Connect(t) \/ HandleSubmit(t) \/ MakeClose(t)
    \/ \E n \in BuiltNonces : MakeCancel(t, n)
    \/ CancelThrows(t) \/ CancelLands(t) \/ StopWatching(t)
    \/ CancelOrderOnMatcher(t) \/ CancelLocally(t)
    \/ Reconcile(t) \/ CheckOrder(t) \/ CheckFails(t) \/ Reload(t)

SubmissionStep(i) ==
    \/ Declined(i) \/ StoreOrder(i) \/ RateLimited(i) \/ Rejected(i) \/ StoreFails(i) \/ LoseAnswer(i) \/ Answered(i)
    \/ Expire(i)

OrderStep(n) == Match(n) \/ Settle(n) \/ StrayLands(n) \/ Reclaim(n)

ClientNext ==
    \/ \E t \in Tabs : TabStep(t)
    \/ \E i \in Intents : SubmissionStep(i)
    \/ \E n \in BuiltNonces : OrderStep(n)
    \/ CancelAll

ClientSpec == ClientInit /\ [][ClientNext]_clientVars

\* A browser goes on firing its timers, and a read that is answered is used.
Fairness == \A t \in Tabs : WF_clientVars(Reconcile(t)) /\ WF_clientVars(CheckOrder(t))

ClientFairSpec == ClientSpec /\ Fairness

-----------------------------------------------------------------------------
Lists == {disk} \cup {list[t] : t \in Tabs}
Tracked == UNION {Range(l) : l \in Lists}

\* What the trader is told is true, in every tab and in the storage they share:
\* an order shown as cancelled was cancelled on chain, one shown as filled was
\* filled, and no page gives two of its orders one nonce, however the clock jumps.
ShownIsTrue ==
    /\ \A o \in Tracked :
          /\ o.nonce \in BuiltNonces
          /\ o.status = "cancelled" => o.nonce \in tombstone
          /\ o.status = "filled" => o.nonce \in settled
    /\ \A i, j \in Intents :
          request[i].tab = request[j].tab /\ request[i].nonce = request[j].nonce => i = j \/ request[i].tab = Gone

\* "Nonce uniqueness is GLOBAL PER ACCOUNT" and holds "unconditionally", says
\* nextOrderNonce: no two orders of the trader ever share a nonce.
NoncesAreUnique == \A i, j \in Intents : request[i].nonce = request[j].nonce => i = j

\* The orders a connected tab shows as open although the gateway holds a fill or
\* a cancel of them, without enough newer pending orders to keep them out of
\* every reconciliation pass.
Behind(t) ==
    {k \in 1..PollCap : k <= Len(Pending(t)) /\ Pending(t)[k].nonce \in filledEntry \cup DOMAIN cancelledEntry}

\* Every connected tab catches up with the gateway: whichever handler died,
\* answer was lost or list was overwritten by another tab, what the gateway
\* filled or cancelled leaves Open Orders, or its entry is pruned before the tab
\* has looked; of an order whose entry is pruned the tab never hears.
TabsCatchUp == []<>(\A t \in connected : Behind(t) = {})
=============================================================================
