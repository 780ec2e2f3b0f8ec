---------------------------- MODULE TraderProofs ----------------------------
(***************************************************************************)
(* What a trader can rely on, for every set of owners, orders, sizes,      *)
(* prices, tabs and dialogs and every choice of the time constants.        *)
(*                                                                         *)
(* At the gateway: an order placed through the intake is never overfilled, *)
(* never filled after its owner cancelled it, and a reduce-only one only   *)
(* reduces.  In the browser: what a tab shows of an order is so on chain,  *)
(* no deposit or withdrawal happens beside what the dialogs report, and    *)
(* the mark of the market on screen comes from its own poll.  The four     *)
(* parts share nothing but the trader.                                     *)
(***************************************************************************)
EXTENDS OrderGateway, TradingClient, CollateralDesk, MarketPrices, SetTheorems, TLAPS

-----------------------------------------------------------------------------
(* Orders at the gateway.                                                  *)

\* An order is keyed by its owner and nonce (DataKey::Filled, ::Cancelled).
LEMMA KeyInKeys == \A o \in Orders : KeyOf(o) \in Keys
  BY GatewayConstants DEF KeyOf, Keys, Order

\* The contract starts with no entries, and no order is placed.
LEMMA InitIInv == Init => IInv
  <1> SUFFICES ASSUME Init PROVE IInv
    OBVIOUS
  <1>1. TypeOK
    <2>1. now \in 0..MaxTime
      BY GatewayConstants DEF Init
    <2>2. paused \in BOOLEAN
      BY DEF Init
    <2>3. /\ filled \in [Keys -> [amount: Nat, expiry_ts: Nat]]
          /\ cancelled \in [Keys -> Nat]
      BY DEF Init, NoEntry, NoTombstone
    <2>4. /\ pos \in [Owners \X Markets -> Int]
          /\ executed \in [Orders -> Nat]
      BY DEF Init
    <2>5. QED
      BY <2>1, <2>2, <2>3, <2>4 DEF Init, TypeOK
  <1>2. NeverOverfilled
    BY GatewayConstants DEF Init, NeverOverfilled, Order
  <1>3. QED
    BY <1>1, <1>2 DEF Init, IInv, OneOrderPerKey, UnplacedUnfilled,
       EntryCarriesExpiry, EntryOnlyForPlaced, FilledIsExecutedOrExpired,
       TombstoneOutlivesOrder, ExpiryInWindow, NoEntry, NoTombstone

\* The intake adds an order under a key no placed order has.
LEMMA PlaceOrderIInv ==
  ASSUME IInv, NEW o \in Orders, PlaceOrder(o)
  PROVE  IInv'
  <1> USE DEF PlaceOrder
  <1>a. filled[KeyOf(o)].amount = 0
    BY KeyInKeys DEF IInv, EntryOnlyForPlaced, TypeOK
  <1>b. executed[o] = 0
    BY DEF IInv, UnplacedUnfilled
  <1>1. TypeOK'
    BY DEF IInv, TypeOK
  <1>2. NeverOverfilled'
    BY DEF IInv, NeverOverfilled
  <1>3. OneOrderPerKey'
    BY DEF IInv, OneOrderPerKey
  <1>4. UnplacedUnfilled'
    BY DEF IInv, UnplacedUnfilled
  <1>5. EntryCarriesExpiry'
    BY <1>a DEF IInv, EntryCarriesExpiry
  <1>6. EntryOnlyForPlaced'
    BY DEF IInv, EntryOnlyForPlaced
  <1>7. FilledIsExecutedOrExpired'
    BY <1>a, <1>b DEF IInv, FilledIsExecutedOrExpired
  <1>8. TombstoneOutlivesOrder'
    BY DEF IInv, TombstoneOutlivesOrder
  <1>9. ExpiryInWindow'
    BY GatewayConstants DEF IInv, ExpiryInWindow, TypeOK, Order
  <1>10. QED
    BY <1>1, <1>2, <1>3, <1>4, <1>5, <1>6, <1>7, <1>8, <1>9 DEF IInv

\* A tombstone lasts at least to now + MaxOrderTtl, past any placed order.
LEMMA CancelOrderIInv ==
  ASSUME IInv, NEW k \in Keys, NEW h \in Hints, CancelOrder(k[1], k[2], h)
  PROVE  IInv'
  <1> USE DEF CancelOrder
  <1>k. k = <<k[1], k[2]>>
    BY DEF Keys
  <1>l. Larger(h, now + MaxOrderTtl) \in Nat /\ Larger(h, now + MaxOrderTtl) >= now + MaxOrderTtl
    BY GatewayConstants DEF Larger, IInv, TypeOK
  <1>1. TypeOK'
    BY <1>l DEF IInv, TypeOK
  <1>8. TombstoneOutlivesOrder'
    <2> SUFFICES ASSUME NEW o \in revoked'
                 PROVE  cancelled'[KeyOf(o)] >= o.expiry_ts \/ now > o.expiry_ts
      BY DEF TombstoneOutlivesOrder
    <2>0. o \in book /\ o \in Orders /\ KeyOf(o) \in Keys /\ o.expiry_ts \in Nat
      BY KeyInKeys, GatewayConstants DEF IInv, TypeOK, Order
    <2>1. CASE KeyOf(o) = k
      <3>1. cancelled'[KeyOf(o)] = Larger(h, now + MaxOrderTtl)
        BY <1>k, <2>0, <2>1 DEF IInv, TypeOK
      <3>2. o.expiry_ts <= now + MaxOrderTtl
        BY <2>0 DEF IInv, ExpiryInWindow
      <3>3. QED
        BY <1>l, <2>0, <3>1, <3>2, GatewayConstants DEF IInv, TypeOK
    <2>2. CASE KeyOf(o) # k
      BY <1>k, <2>0, <2>2 DEF IInv, TypeOK, TombstoneOutlivesOrder
    <2>3. QED
      BY <2>1, <2>2
  <1>9. QED
    BY <1>1, <1>8 DEF IInv, NeverOverfilled, OneOrderPerKey, UnplacedUnfilled,
       EntryCarriesExpiry, EntryOnlyForPlaced, FilledIsExecutedOrExpired,
       ExpiryInWindow

\* Pruning touches only what is past an expiry, hence past the order's.
LEMMA ReclaimIInv ==
  ASSUME IInv, NEW w \in Owners, NEW ns \in SUBSET Nonces, ReclaimOrderState(w, ns)
  PROVE  IInv'
  <1> USE DEF ReclaimOrderState
  <1>f. \A o \in book : filled'[KeyOf(o)] = filled[KeyOf(o)] \/
                        (filled'[KeyOf(o)] = NoEntry /\ Reclaimable(filled[KeyOf(o)].expiry_ts))
    BY KeyInKeys DEF IInv, TypeOK
  <1>c. \A o \in book : cancelled'[KeyOf(o)] = cancelled[KeyOf(o)] \/
                        Reclaimable(cancelled[KeyOf(o)])
    BY KeyInKeys DEF IInv, TypeOK
  <1>t. \A o \in book : /\ o.expiry_ts \in Nat
                        /\ filled[KeyOf(o)] \in [amount: Nat, expiry_ts: Nat]
                        /\ cancelled[KeyOf(o)] \in Nat
    BY KeyInKeys, GatewayConstants DEF IInv, TypeOK, Order
  <1>1. TypeOK'
    BY DEF IInv, TypeOK, NoEntry, NoTombstone
  <1>5. EntryCarriesExpiry'
    BY <1>f DEF IInv, EntryCarriesExpiry, NoEntry
  <1>6. EntryOnlyForPlaced'
    BY DEF IInv, EntryOnlyForPlaced, TypeOK, NoEntry
  <1>7. FilledIsExecutedOrExpired'
    <2> SUFFICES ASSUME NEW o \in book
                 PROVE  filled'[KeyOf(o)].amount = executed[o] \/ now > o.expiry_ts
      BY DEF FilledIsExecutedOrExpired
    <2>1. CASE filled'[KeyOf(o)] = filled[KeyOf(o)]
      BY <2>1 DEF IInv, FilledIsExecutedOrExpired
    <2>2. CASE filled'[KeyOf(o)] = NoEntry /\ Reclaimable(filled[KeyOf(o)].expiry_ts)
      <3>1. CASE filled[KeyOf(o)].amount = 0
        BY <2>2, <3>1 DEF IInv, FilledIsExecutedOrExpired, NoEntry
      <3>2. CASE filled[KeyOf(o)].amount # 0
        BY <1>t, <2>2, <3>2, GatewayConstants
           DEF IInv, EntryCarriesExpiry, Reclaimable, TypeOK
      <3>3. QED
        BY <3>1, <3>2
    <2>3. QED
      BY <1>f, <2>1, <2>2
  <1>8. TombstoneOutlivesOrder'
    BY <1>c, <1>t, GatewayConstants DEF IInv, TombstoneOutlivesOrder, Reclaimable, TypeOK
  <1>9. QED
    BY <1>1, <1>5, <1>6, <1>7, <1>8 DEF IInv, NeverOverfilled, OneOrderPerKey,
       UnplacedUnfilled, ExpiryInWindow

\* What settle_fill does to the two orders and to every other placed one.
LEMMA SettleFillEffect ==
  ASSUME IInv, NEW m \in book, NEW t \in book, NEW s \in Sizes, NEW p \in Prices,
         SettleFill(m, t, s, p)
  PROVE  /\ KeyOf(m) # KeyOf(t)
         /\ \A o \in {m, t} :
              /\ now <= o.expiry_ts
              /\ ~IsCancelled(o)
              /\ filled[KeyOf(o)].amount + s <= o.size
              /\ filled'[KeyOf(o)] = [amount |-> filled[KeyOf(o)].amount + s,
                                      expiry_ts |-> o.expiry_ts]
              /\ executed'[o] = executed[o] + s
         /\ \A k \in Keys : k \notin {KeyOf(m), KeyOf(t)} => filled'[k] = filled[k]
         /\ \A o \in Orders : o \notin {m, t} => executed'[o] = executed[o]
  <1>1. m.owner # t.owner
    BY DEF SettleFill, ExecuteFill, ValidFill
  <1>2. KeyOf(m) # KeyOf(t)
    BY <1>1 DEF KeyOf
  <1>3. KeyOf(m) \in Keys /\ KeyOf(t) \in Keys /\ m \in Orders /\ t \in Orders
    BY KeyInKeys DEF IInv, TypeOK
  <1>4. \A o \in {m, t} : /\ now <= o.expiry_ts /\ ~IsCancelled(o)
                           /\ filled[KeyOf(o)].amount + s <= o.size
    BY DEF SettleFill, ExecuteFill, ValidFill, ValidOrder
  <1>5. executed' = [executed EXCEPT ![m] = @ + s, ![t] = @ + s]
    BY DEF SettleFill, ExecuteFill
  <1>6. m # t
    BY <1>1
  <1>7. /\ \A o \in {m, t} : executed'[o] = executed[o] + s
        /\ \A o \in Orders : o \notin {m, t} => executed'[o] = executed[o]
    BY <1>3, <1>5, <1>6 DEF IInv, TypeOK
  <1>8. filled' = AddFilled(AddFilled(filled, m, s), t, s)
    BY DEF SettleFill, ExecuteFill
  <1>9. /\ \A o \in {m, t} : filled'[KeyOf(o)] =
              [amount |-> filled[KeyOf(o)].amount + s, expiry_ts |-> o.expiry_ts]
        /\ \A k \in Keys : k \notin {KeyOf(m), KeyOf(t)} => filled'[k] = filled[k]
    BY <1>2, <1>3, <1>8 DEF AddFilled, IInv, TypeOK
  <1>10. QED
    BY <1>2, <1>4, <1>7, <1>9

\* execute_matched_fill stores well-formed fill records.
LEMMA SettleFillTypeOK ==
  ASSUME IInv, NEW m \in book, NEW t \in book, NEW s \in Sizes, NEW p \in Prices,
         SettleFill(m, t, s, p)
  PROVE  TypeOK'
  <1>1. now' \in 0..MaxTime /\ book' \subseteq Orders /\ revoked' \subseteq book'
        /\ cancelled' \in [Keys -> Nat]
    BY DEF SettleFill, ExecuteFill, IInv, TypeOK
  <1>2. paused' \in BOOLEAN
    BY DEF SettleFill, ExecuteFill, IInv, TypeOK
  <1>3. s \in Nat
    BY GatewayConstants
  <1>4. /\ Signed(m, s) \in Int /\ Signed(t, s) \in Int
    BY <1>3 DEF Signed
  <1>5. pos' \in [Owners \X Markets -> Int]
    <2> DEFINE D == Owners \X Markets
               a == <<m.owner, m.market_id>>
               b == <<t.owner, t.market_id>>
    <2>1. a \in D /\ b \in D
      BY GatewayConstants DEF IInv, TypeOK, Order
    <2>2. pos \in [D -> Int]
      BY DEF IInv, TypeOK
    <2>3. pos' = [pos EXCEPT ![a] = @ + Signed(m, s), ![b] = @ + Signed(t, s)]
      BY DEF SettleFill, ExecuteFill
    <2> HIDE DEF D, a, b
    <2>4. pos' \in [D -> Int]
      BY <1>4, <2>1, <2>2, <2>3
    <2>5. QED
      BY <2>4 DEF D
  <1>6. executed' \in [Orders -> Nat]
    BY <1>3 DEF SettleFill, ExecuteFill, IInv, TypeOK
  <1>7. KeyOf(m) \in Keys /\ KeyOf(t) \in Keys /\ m.expiry_ts \in Nat /\ t.expiry_ts \in Nat
    BY KeyInKeys, GatewayConstants DEF IInv, TypeOK, Order
  <1>8. \A f \in [Keys -> [amount: Nat, expiry_ts: Nat]] : \A o \in {m, t} :
            AddFilled(f, o, s) \in [Keys -> [amount: Nat, expiry_ts: Nat]]
    BY <1>3, <1>7 DEF AddFilled
  <1>9. filled' \in [Keys -> [amount: Nat, expiry_ts: Nat]]
    BY <1>8 DEF SettleFill, ExecuteFill, IInv, TypeOK
  <1>10. QED
    BY <1>1, <1>2, <1>5, <1>6, <1>9 DEF TypeOK

\* A fill passes only while the order's Filled entry is still the truth.
LEMMA SettleFillIInv ==
  ASSUME IInv, NEW m \in book, NEW t \in book, NEW s \in Sizes, NEW p \in Prices,
         SettleFill(m, t, s, p)
  PROVE  IInv'
  <1>u. book' = book /\ now' = now /\ cancelled' = cancelled /\ revoked' = revoked
    BY DEF SettleFill, ExecuteFill
  <1>e. /\ \A o \in {m, t} :
              /\ now <= o.expiry_ts
              /\ filled[KeyOf(o)].amount + s <= o.size
              /\ filled'[KeyOf(o)] = [amount |-> filled[KeyOf(o)].amount + s,
                                      expiry_ts |-> o.expiry_ts]
              /\ executed'[o] = executed[o] + s
        /\ \A k \in Keys : k \notin {KeyOf(m), KeyOf(t)} => filled'[k] = filled[k]
        /\ \A o \in Orders : o \notin {m, t} => executed'[o] = executed[o]
    BY SettleFillEffect
  <1>b. \A o \in book : o \in Orders /\ KeyOf(o) \in Keys /\ o.expiry_ts \in Nat
    BY KeyInKeys, GatewayConstants DEF IInv, TypeOK, Order
  <1>o. \A o \in book : o \notin {m, t} => KeyOf(o) \notin {KeyOf(m), KeyOf(t)}
    BY DEF IInv, OneOrderPerKey
  <1>x. \A o \in {m, t} : filled[KeyOf(o)].amount = executed[o]
    BY <1>e, <1>b DEF IInv, FilledIsExecutedOrExpired, TypeOK
  <1>1. TypeOK'
    BY SettleFillTypeOK
  <1>2. NeverOverfilled'
    BY <1>e, <1>x DEF IInv, NeverOverfilled
  <1>3. OneOrderPerKey'
    BY <1>u DEF IInv, OneOrderPerKey
  <1>4. UnplacedUnfilled'
    BY <1>e, <1>u DEF IInv, UnplacedUnfilled
  <1>5. EntryCarriesExpiry'
    BY <1>e, <1>u, <1>b, <1>o DEF IInv, EntryCarriesExpiry
  <1>6. EntryOnlyForPlaced'
    BY <1>e, <1>u DEF IInv, EntryOnlyForPlaced
  <1>7. FilledIsExecutedOrExpired'
    BY <1>e, <1>u, <1>b, <1>o, <1>x DEF IInv, FilledIsExecutedOrExpired
  <1>8. TombstoneOutlivesOrder'
    BY <1>u DEF IInv, TombstoneOutlivesOrder
  <1>9. ExpiryInWindow'
    BY <1>u DEF IInv, ExpiryInWindow
  <1>10. QED
    BY <1>1, <1>2, <1>3, <1>4, <1>5, <1>6, <1>7, <1>8, <1>9 DEF IInv

\* Time only makes more orders expired.
LEMMA TickIInv ==
  ASSUME IInv, Tick
  PROVE  IInv'
  <1> USE DEF Tick
  <1>t. \A o \in book : o.expiry_ts \in Nat
    BY GatewayConstants DEF IInv, TypeOK, Order
  <1>n. now \in Nat /\ now' = now + 1 /\ now' \in 0..MaxTime
    BY GatewayConstants DEF IInv, TypeOK
  <1>1. TypeOK'
    BY <1>n DEF IInv, TypeOK
  <1>7. FilledIsExecutedOrExpired'
    BY <1>n, <1>t DEF IInv, FilledIsExecutedOrExpired
  <1>8. TombstoneOutlivesOrder'
    BY <1>n, <1>t DEF IInv, TombstoneOutlivesOrder, TypeOK
  <1>9. ExpiryInWindow'
    BY <1>n, <1>t, GatewayConstants DEF IInv, ExpiryInWindow
  <1>10. QED
    BY <1>1, <1>7, <1>8, <1>9 DEF IInv, NeverOverfilled, OneOrderPerKey,
       UnplacedUnfilled, EntryCarriesExpiry, EntryOnlyForPlaced

\* Pausing and unpausing, and stuttering, touch nothing the invariant is about.
LEMMA PauseIInv ==
  ASSUME IInv, EmergencyPause \/ Unpause \/ UNCHANGED vars
  PROVE  IInv'
  <1>1. UNCHANGED <<now, book, filled, cancelled, pos, executed, revoked>>
    BY DEF EmergencyPause, Unpause, vars
  <1>2. paused' \in BOOLEAN
    BY DEF EmergencyPause, Unpause, vars, IInv, TypeOK
  <1>3. TypeOK'
    BY <1>1, <1>2 DEF IInv, TypeOK
  <1>4. QED
    BY <1>1, <1>3 DEF IInv, NeverOverfilled, OneOrderPerKey, UnplacedUnfilled,
       EntryCarriesExpiry, EntryOnlyForPlaced, FilledIsExecutedOrExpired,
       TombstoneOutlivesOrder, ExpiryInWindow

\* Every call of the gateway keeps the inductive invariant.
LEMMA NextIInv == IInv /\ [Next]_vars => IInv'
  <1> SUFFICES ASSUME IInv, [Next]_vars PROVE IInv'
    OBVIOUS
  <1>1. CASE \E o \in Orders : PlaceOrder(o)
    BY <1>1, PlaceOrderIInv
  <1>2. CASE \E k \in Keys, h \in Hints : CancelOrder(k[1], k[2], h)
    BY <1>2, CancelOrderIInv
  <1>3. CASE \E w \in Owners, ns \in SUBSET Nonces : ReclaimOrderState(w, ns)
    BY <1>3, ReclaimIInv
  <1>4. CASE \E m \in book, t \in book, s \in Sizes, p \in Prices : SettleFill(m, t, s, p)
    BY <1>4, SettleFillIInv
  <1>5. CASE Tick
    BY <1>5, TickIInv
  <1>6. CASE EmergencyPause \/ Unpause \/ UNCHANGED vars
    BY <1>6, PauseIInv
  <1>7. QED
    BY <1>1, <1>2, <1>3, <1>4, <1>5, <1>6 DEF Next, ContractStep

-----------------------------------------------------------------------------
\* Every reachable state of the gateway behind the intake satisfies the
\* inductive invariant.
THEOREM Invariance == Spec => []IInv
  BY InitIInv, NextIInv, PTL DEF Spec

\* Every variable keeps its type: amounts and times are natural numbers, and
\* only orders that were placed can be revoked.
THEOREM TypeCorrect == Spec => []TypeOK
  <1>1. IInv => TypeOK
    BY DEF IInv
  <1>2. QED
    BY <1>1, Invariance, PTL

\* No interleaving of fills, cancels, pruning and time fills an order beyond
\* the size its owner signed (validate_order, add_filled, reclaim_order_state).
THEOREM NoOverfill == Spec => []NeverOverfilled
  <1>1. IInv => NeverOverfilled
    BY DEF IInv
  <1>2. QED
    BY <1>1, Invariance, PTL

\* A cancelled order is never filled again: its tombstone can be pruned only
\* once the order has expired (cancel_order, reclaim_order_state).
THEOREM CancelFinal == Spec => CancelIsFinal
  <1>1. IInv /\ [Next]_vars => [\A o \in revoked : executed'[o] = executed[o]]_vars
    <2> SUFFICES ASSUME IInv, [Next]_vars, NEW o \in revoked
                 PROVE  executed'[o] = executed[o]
      OBVIOUS
    <2>o. o \in Orders /\ o \in book /\ o.expiry_ts \in Nat
          /\ KeyOf(o) \in Keys /\ o.expiry_ts > 0
      BY KeyInKeys, GatewayConstants DEF IInv, TypeOK, Order, ExpiryInWindow
    <2>1. CASE \E m \in book, t \in book, s \in Sizes, p \in Prices : SettleFill(m, t, s, p)
      <3> PICK m \in book, t \in book, s \in Sizes, p \in Prices : SettleFill(m, t, s, p)
        BY <2>1
      <3>0. \A r \in {m, t} : now <= r.expiry_ts /\ ~IsCancelled(r)
        BY DEF SettleFill, ExecuteFill, ValidFill, ValidOrder
      <3>1. \A r \in Orders : r \notin {m, t} => executed'[r] = executed[r]
        BY DEF SettleFill, ExecuteFill, IInv, TypeOK
      <3>2. o \in {m, t} => FALSE
        <4> SUFFICES ASSUME o \in {m, t} PROVE FALSE
          OBVIOUS
        <4>1. now <= o.expiry_ts /\ cancelled[KeyOf(o)] = NoTombstone
          BY <3>0 DEF IsCancelled
        <4>2. cancelled[KeyOf(o)] >= o.expiry_ts
          BY <4>1, <2>o DEF IInv, TombstoneOutlivesOrder, TypeOK
        <4>3. QED
          BY <4>1, <4>2, <2>o DEF NoTombstone
      <3>3. QED
        BY <2>o, <3>1, <3>2
    <2>2. CASE executed' = executed
      BY <2>2
    <2>3. QED
      BY <2>1, <2>2 DEF Next, ContractStep, PlaceOrder, CancelOrder,
         ReclaimOrderState, EmergencyPause, Unpause, Tick, vars
  <1>2. QED
    BY <1>1, Invariance, PTL DEF Spec, CancelIsFinal

-----------------------------------------------------------------------------
(* The orders in the trader's tabs.                                        *)

Statuses == {"pending", "cancelled", "filled"}

\* The entries an order list may hold.
Truths == {o \in [nonce: BuiltNonces, status: Statuses] :
              /\ o.status = "cancelled" => o.nonce \in tombstone
              /\ o.status = "filled" => o.nonce \in settled}

ListsPart == disk \in Seq(Truths) /\ list \in [Tabs -> Seq(Truths)]

\* What a page has drawn lies at or below its last nonce, so the next one it
\* draws is new to it.  The submissions of a page that is gone track nothing.
RequestSteps == {"post", "ok", "fail", "done"}
Submission == [tab: Tabs \cup {Gone}, nonce: Int, step: RequestSteps, tracked: BOOLEAN]
OwnIntent(i) ==
    IF request[i].tab \in Tabs THEN request[i].nonce <= lastNonce[request[i].tab] ELSE request[i].tracked
SamePage(i, j) == request[i].tab = request[j].tab /\ request[i].tab \in Tabs
IntentsPart ==
    /\ request \in Seq(Submission)
    /\ drawn \in [Tabs -> Nat] /\ lastNonce \in [Tabs -> Int]
    /\ \A i \in Intents : OwnIntent(i)
    /\ \A i, j \in Intents : SamePage(i, j) /\ request[i].nonce = request[j].nonce => i = j

\* What the gateway holds of an order did happen.
EntriesPart == filledEntry \subseteq settled /\ DOMAIN cancelledEntry \subseteq tombstone

\* A cancel is marked in the tab once it landed.
CancelSteps == {"idle", "sent", "landed", "local"}
CancelPart ==
    /\ cancel \in [Tabs -> [step: CancelSteps, nonce: Int]]
    /\ \A t \in Tabs : cancel[t].step \in {"landed", "local"} => cancel[t].nonce \in tombstone

ClientInv == ListsPart /\ IntentsPart /\ EntriesPart /\ CancelPart

\* What ShownIsTrue says of the lists follows from what they hold.
LEMMA ClientInvShows == ClientInv => ShownIsTrue
  <1> SUFFICES ASSUME ClientInv PROVE ShownIsTrue
    OBVIOUS
  <1>1. ASSUME NEW l \in Lists PROVE l \in Seq(Truths)
    BY DEF ClientInv, ListsPart, Lists
  <1>2. \A l \in Lists : Range(l) \subseteq Truths
    BY <1>1 DEF Range
  <1>3. Tracked \subseteq Truths
    BY <1>2 DEF Tracked
  <1>4. ASSUME NEW i \in Intents, NEW j \in Intents, request[i].tab = request[j].tab,
               request[i].nonce = request[j].nonce
        PROVE  i = j \/ request[i].tab = Gone
    <2>1. request[i] \in Submission
      BY DEF ClientInv, IntentsPart, Intents
    <2>2. request[i].tab \in Tabs \cup {Gone}
      BY <2>1 DEF Submission
    <2>3. QED
      BY <1>4, <2>2 DEF ClientInv, IntentsPart, SamePage
  <1>5. QED
    BY <1>3, <1>4 DEF ShownIsTrue, Truths

-----------------------------------------------------------------------------
(* The lists.                                                              *)

\* What the gateway did stays done, whatever it prunes, and no intent disappears.
Grows == BuiltNonces \subseteq BuiltNonces' /\ tombstone \subseteq tombstone' /\ settled \subseteq settled'

\* What was true stays true.
LEMMA TruthsGrow == ASSUME Grows PROVE Truths \subseteq Truths' /\ Seq(Truths) \subseteq Seq(Truths')
  <1>1. Truths \subseteq Truths'
    BY DEF Grows, Truths
  <1>2. QED
    BY <1>1

\* Lists nobody writes.
LEMMA ListsRest == ASSUME ListsPart, Grows, UNCHANGED tabVars PROVE ListsPart'
  BY TruthsGrow DEF ListsPart, tabVars

\* A tab writes its whole list.
LEMMA WriteKeeps ==
  ASSUME ListsPart, Grows, NEW t \in Tabs, NEW orders, orders \in Seq(Truths'), Write(t, orders)
  PROVE  ListsPart'
  BY TruthsGrow DEF ListsPart, Write

\* A tab takes over what the storage holds.
LEMMA LoadKeeps ==
  ASSUME ListsPart, Grows, NEW t \in Tabs, list' = [list EXCEPT ![t] = disk], UNCHANGED disk
  PROVE  ListsPart'
  BY TruthsGrow DEF ListsPart

\* The entries that are not about one order.
LEMMA WithoutOrder ==
  ASSUME NEW S, NEW orders \in Seq(S), NEW n
  PROVE  Kept(orders, LAMBDA o : o.nonce # n) \in Seq(S)
  <1> DEFINE ss == [k \in DOMAIN orders |-> IF orders[k].nonce # n THEN <<orders[k]>> ELSE <<>>]
  <1>1. DOMAIN orders = 1..Len(orders) /\ Len(orders) \in Nat
    OBVIOUS
  <1>2. \A k \in DOMAIN orders : orders[k] \in S
    OBVIOUS
  <1>3. ss \in [1..Len(orders) -> Seq(S)]
    BY <1>1, <1>2
  <1>4. <<>> \in Seq(S) /\ \A a, b \in Seq(S) : a \o b \in Seq(S)
    OBVIOUS
  <1> HIDE DEF ss
  <1>5. FlattenSeq(ss) \in Seq(S)
    BY <1>1, <1>3, <1>4, FlattenClosed
  <1>6. QED
    BY <1>5 DEF Kept, ss

\* The beginning of a list.
LEMMA Beginning ==
  ASSUME NEW S, NEW s \in Seq(S), NEW m \in Nat, m <= Len(s)
  PROVE  SubSeq(s, 1, m) \in Seq(S)
  <1>1. \A k \in 1..m : s[k] \in S
    OBVIOUS
  <1>2. SubSeq(s, 1, m) = [k \in 1..m |-> s[k]]
    OBVIOUS
  <1>3. QED
    BY <1>1, <1>2

\* A list that starts with one more entry.
LEMMA AddKeeps ==
  ASSUME ListsPart, Grows, NEW t \in Tabs, NEW n \in BuiltNonces', AddOrder(t, n)
  PROVE  ListsPart'
  <1> DEFINE rest == Kept(list[t], LAMBDA o : o.nonce # n)
             first == [nonce |-> n, status |-> "pending"]
  <1>1. list[t] \in Seq(Truths)
    BY DEF ListsPart
  <1>2. rest \in Seq(Truths)
    BY <1>1, WithoutOrder DEF Kept
  <1>3. first \in Truths'
    BY DEF Truths, Statuses
  <1> HIDE DEF rest
  <1>4. Upto(rest, ListCap - 1) \in Seq(Truths)
    <2>1. ListCap - 1 \in Nat /\ Len(rest) \in Nat
      BY <1>2, ClientConstants
    <2>2. PICK m \in Nat : m = Min({ListCap - 1, Len(rest)}) /\ m <= Len(rest)
      BY <2>1, MinOfTwo
    <2>3. SubSeq(rest, 1, m) \in Seq(Truths)
      BY <1>2, <2>1, <2>2, Beginning
    <2>4. QED
      BY <2>2, <2>3 DEF Upto
  <1>5. Upto(rest, ListCap - 1) \in Seq(Truths')
    BY <1>4, TruthsGrow
  <1>6. <<first>> \o Upto(rest, ListCap - 1) \in Seq(Truths')
    <2>1. <<first>> \in Seq(Truths')
      BY <1>3
    <2> HIDE DEF first
    <2>2. QED
      BY <1>5, <2>1
  <1>7. Write(t, <<first>> \o Upto(rest, ListCap - 1))
    BY DEF AddOrder, rest
  <1>8. QED
    BY <1>6, <1>7, WriteKeeps

\* An order's entries are marked with what became of it.
LEMMA MarkKeeps ==
  ASSUME ListsPart, Grows, NEW t \in Tabs, NEW n, NEW status \in Statuses, Mark(t, n, status),
         status = "cancelled" => n \in tombstone', status = "filled" => n \in settled'
  PROVE  ListsPart'
  <1> DEFINE orders == list[t]
  <1>1. orders \in Seq(Truths) /\ DOMAIN orders = 1..Len(orders) /\ Len(orders) \in Nat
    BY DEF ListsPart
  <1>2. ASSUME NEW k \in DOMAIN orders PROVE Marked(orders, n, status)[k] \in Truths'
    <2>1. orders[k] \in Truths'
      BY <1>1, TruthsGrow
    <2>2. orders[k] \in [nonce: BuiltNonces', status: Statuses]
      BY <2>1 DEF Truths
    <2>3. CASE orders[k].nonce # n
      BY <2>1, <2>3 DEF Marked
    <2>4. CASE orders[k].nonce = n
      <3>1. PICK o : o = [orders[k] EXCEPT !.status = status]
        OBVIOUS
      <3>2. o \in [nonce: BuiltNonces', status: Statuses] /\ o.nonce = n /\ o.status = status
        BY <2>2, <2>4, <3>1
      <3>3. o \in Truths'
        BY <3>2 DEF Truths
      <3>4. QED
        BY <2>4, <3>1, <3>3 DEF Marked
    <2>5. QED
      BY <2>3, <2>4
  <1>3. Marked(orders, n, status) \in Seq(Truths')
    <2>1. Marked(orders, n, status) \in [1..Len(orders) -> Truths']
      <3>1. Marked(orders, n, status) = [k \in DOMAIN orders |-> Marked(orders, n, status)[k]]
        BY DEF Marked
      <3> HIDE DEF orders
      <3>2. QED
        BY <1>1, <1>2, <3>1
    <2> HIDE DEF orders
    <2>2. QED
      BY <1>1, <2>1
  <1>4. QED
    BY <1>3, WriteKeeps DEF Mark

-----------------------------------------------------------------------------
(* The intents.                                                            *)

\* What is known of a submission.
LEMMA SubmissionBasics ==
  ASSUME IntentsPart, NEW i \in Intents
  PROVE  /\ request[i] \in Submission /\ request[i].nonce \in BuiltNonces
         /\ request[i].nonce \in Int /\ Intents = 1..Len(request) /\ Len(request) \in Nat
  <1>1. Intents = 1..Len(request) /\ Len(request) \in Nat /\ request[i] \in Submission
    BY DEF IntentsPart, Intents
  <1>2. QED
    BY <1>1 DEF BuiltNonces, Submission

\* Most steps build nothing and answer nothing.
LEMMA IntentsRest ==
  ASSUME IntentsPart, UNCHANGED <<nonceVars, request>>
  PROVE  IntentsPart' /\ Intents' = Intents /\ BuiltNonces' = BuiltNonces
  BY DEF IntentsPart, Intents, BuiltNonces, OwnIntent, SamePage, nonceVars

\* A submission goes on.
LEMMA GoesKeeps ==
  ASSUME IntentsPart, NEW i \in Intents, NEW step \in RequestSteps, RequestGoes(i, step), UNCHANGED nonceVars
  PROVE  IntentsPart' /\ Intents' = Intents /\ BuiltNonces' = BuiltNonces
  <1>1. request \in Seq(Submission) /\ i \in DOMAIN request
    BY DEF IntentsPart, Intents
  <1>2. PICK r : r = [request[i] EXCEPT !.step = step]
    OBVIOUS
  <1>3. request[i] \in Submission
    BY <1>1
  <1>4. r \in Submission /\ r.tab = request[i].tab /\ r.nonce = request[i].nonce /\ r.tracked = request[i].tracked
    BY <1>2, <1>3 DEF Submission
  <1>5. request' = [request EXCEPT ![i] = r]
    BY <1>2 DEF RequestGoes
  <1>6. request' \in Seq(Submission) /\ Intents' = Intents
    BY <1>1, <1>4, <1>5 DEF Intents
  <1>7. \A j \in Intents : /\ request'[j].tab = request[j].tab /\ request'[j].nonce = request[j].nonce
                           /\ request'[j].tracked = request[j].tracked
    BY <1>1, <1>4, <1>5 DEF Intents
  <1>8. BuiltNonces' = BuiltNonces
    BY <1>6, <1>7 DEF BuiltNonces
  <1>9. ASSUME NEW j \in Intents PROVE OwnIntent(j)'
    BY <1>7 DEF IntentsPart, OwnIntent, nonceVars
  <1>a. ASSUME NEW j \in Intents, NEW k \in Intents, SamePage(j, k)', request'[j].nonce = request'[k].nonce
        PROVE  j = k
    <2>1. SamePage(j, k) /\ request[j].nonce = request[k].nonce
      BY <1>7, <1>a DEF SamePage
    <2>2. QED
      BY <2>1 DEF IntentsPart
  <1>10. drawn' \in [Tabs -> Nat] /\ lastNonce' \in [Tabs -> Int]
    BY DEF IntentsPart, nonceVars
  <1>11. QED
    BY <1>6, <1>8, <1>9, <1>a, <1>10 DEF IntentsPart

\* A page draws a nonce above all of its own, so no order of it has it yet.
LEMMA BuildKeeps ==
  ASSUME IntentsPart, NEW t \in Tabs, NEW ms \in 0..MaxMs, NEW n, n = NextNonce(t, ms),
         NEW tracked \in BOOLEAN, Build(t, n, tracked)
  PROVE  IntentsPart' /\ BuiltNonces \subseteq BuiltNonces' /\ n \in BuiltNonces'
  <1>1. drawn[t] \in Nat /\ lastNonce[t] \in Int /\ ms \in Nat /\ PerMs \in Nat \ {0}
    BY ClientConstants DEF IntentsPart
  <1>2. n \in Int /\ n > lastNonce[t]
    <2>1. (ms * PerMs) + (drawn[t] % PerMs) \in Int
      BY <1>1
    <2>2. QED
      BY <1>1, <2>1 DEF NextNonce
  <1>3. PICK r : r = Request(t, n, "post", tracked)
    OBVIOUS
  <1>4. r \in Submission /\ r.tab = t /\ r.nonce = n
    BY <1>2, <1>3 DEF Request, Submission, RequestSteps
  <1>5. PICK k \in Nat : k = Len(request)
    BY DEF IntentsPart
  <1>6. request \in Seq(Submission) /\ request' = Append(request, r)
    BY <1>3 DEF IntentsPart, Build
  <1>7. /\ request' \in Seq(Submission) /\ Intents = 1..k /\ Intents' = 1..(k + 1)
        /\ request'[k + 1] = r /\ \A j \in Intents : request'[j] = request[j]
    BY <1>4, <1>5, <1>6 DEF Intents
  <1>8. BuiltNonces \subseteq BuiltNonces' /\ n \in BuiltNonces'
    <2>1. k + 1 \in Intents' /\ Intents \subseteq Intents'
      BY <1>7
    <2>2. QED
      BY <1>4, <1>7, <2>1 DEF BuiltNonces
  <1>9. drawn' = [drawn EXCEPT ![t] = drawn[t] + 1] /\ lastNonce' = [lastNonce EXCEPT ![t] = n]
    BY DEF Build
  <1>10. drawn' \in [Tabs -> Nat] /\ lastNonce' \in [Tabs -> Int] /\ lastNonce'[t] = n
    BY <1>1, <1>2, <1>9 DEF IntentsPart
  <1>11. ASSUME NEW j \in Intents'
         PROVE  /\ IF request'[j].tab \in Tabs THEN request'[j].nonce <= lastNonce'[request'[j].tab]
                                                ELSE request'[j].tracked
                /\ j # k + 1 => j \in Intents /\ request'[j] = request[j]
                /\ j # k + 1 /\ request'[j].tab = t => request'[j].nonce < n
    <2>1. CASE j = k + 1
      BY <1>2, <1>4, <1>7, <1>10, <2>1
    <2>2. CASE j # k + 1
      <3>1. j \in Intents /\ request'[j] = request[j]
        BY <1>7, <2>2
      <3>2. request[j].nonce \in Int /\ OwnIntent(j)
        BY <3>1, SubmissionBasics DEF IntentsPart
      <3>3. CASE request[j].tab = t
        BY <1>1, <1>2, <1>10, <2>2, <3>1, <3>2, <3>3 DEF OwnIntent
      <3>4. CASE request[j].tab # t
        BY <1>9, <2>2, <3>1, <3>2, <3>4 DEF OwnIntent, IntentsPart
      <3>5. QED
        BY <3>3, <3>4
    <2>3. QED
      BY <2>1, <2>2
  <1>12. ASSUME NEW i \in Intents', NEW j \in Intents', request'[i].tab = request'[j].tab,
                request'[i].tab \in Tabs, request'[i].nonce = request'[j].nonce
         PROVE  i = j
    <2>1. request'[k + 1].tab = t /\ request'[k + 1].nonce = n
      BY <1>4, <1>7
    <2>2. CASE i = k + 1 \/ j = k + 1
      BY <1>2, <1>11, <1>12, <2>1, <2>2
    <2>3. CASE i # k + 1 /\ j # k + 1
      BY <1>11, <1>12, <2>3 DEF IntentsPart, SamePage
    <2>4. QED
      BY <2>2, <2>3
  <1>13. QED
    BY <1>7, <1>8, <1>10, <1>11, <1>12 DEF IntentsPart, OwnIntent, SamePage

\* A page load: the tab's submissions are nobody's, its counters start again.
LEMMA ReloadIntents ==
  ASSUME IntentsPart, NEW t \in Tabs, Reload(t)
  PROVE  IntentsPart' /\ BuiltNonces' = BuiltNonces
  <1> DEFINE Gives(i) ==
        Request(Gone, request[i].nonce, IF request[i].step = "post" THEN "post" ELSE "done", TRUE)
  <1>1. request' = [i \in Intents |-> IF request[i].tab # t THEN request[i] ELSE Gives(i)]
    BY DEF Reload
  <1>2. \A i \in Intents : /\ Gives(i) \in Submission /\ Gives(i).tab = Gone /\ Gives(i).tracked = TRUE
                           /\ Gives(i).nonce = request[i].nonce
    BY SubmissionBasics DEF Request, Submission, RequestSteps
  <1>3. PICK k \in Nat : Intents = 1..k
    BY DEF Intents, IntentsPart
  <1> HIDE DEF Gives
  <1>4. \A i \in Intents : request'[i] = IF request[i].tab # t THEN request[i] ELSE Gives(i)
    BY <1>1
  <1>5. \A i \in Intents : request'[i] \in Submission /\ request'[i].nonce = request[i].nonce
    BY <1>2, <1>4, SubmissionBasics
  <1>6. request' \in [1..k -> Submission]
    BY <1>1, <1>3, <1>5
  <1>7. request' \in Seq(Submission) /\ Intents' = Intents
    BY <1>3, <1>6 DEF Intents
  <1>8. BuiltNonces' = BuiltNonces
    BY <1>5, <1>7 DEF BuiltNonces
  <1>9. drawn' = [drawn EXCEPT ![t] = 0] /\ lastNonce' = [lastNonce EXCEPT ![t] = 0]
    BY DEF Reload
  <1>10. drawn' \in [Tabs -> Nat] /\ lastNonce' \in [Tabs -> Int]
    BY <1>9 DEF IntentsPart
  <1>11. Gone \notin Tabs
    BY ClientConstants DEF Gone
  <1>12. ASSUME NEW i \in Intents
         PROVE  /\ IF request'[i].tab \in Tabs THEN request'[i].nonce <= lastNonce'[request'[i].tab]
                                                ELSE request'[i].tracked
                /\ request'[i].tab \in Tabs => request'[i] = request[i] /\ request[i].tab # t
    <2>1. CASE request[i].tab = t
      BY <1>2, <1>4, <1>11, <2>1
    <2>2. CASE request[i].tab # t
      BY <1>4, <1>9, <2>2 DEF IntentsPart, OwnIntent
    <2>3. QED
      BY <2>1, <2>2
  <1>13. \A i \in Intents' : OwnIntent(i)'
    BY <1>7, <1>12 DEF OwnIntent
  <1>14. ASSUME NEW i \in Intents, NEW j \in Intents, SamePage(i, j)', request'[i].nonce = request'[j].nonce
         PROVE  i = j
    <2>1. request'[i] = request[i] /\ request'[j] = request[j] /\ SamePage(i, j)
      BY <1>12, <1>14 DEF SamePage
    <2>2. QED
      BY <1>14, <2>1 DEF IntentsPart
  <1>15. QED
    BY <1>7, <1>8, <1>10, <1>13, <1>14 DEF IntentsPart

-----------------------------------------------------------------------------
(* The cancels.                                                            *)

\* A handler that is left alone.
LEMMA CancelRests == ASSUME CancelPart, tombstone \subseteq tombstone', UNCHANGED cancel PROVE CancelPart'
  BY DEF CancelPart

\* A handler that starts, ends or moves on.
LEMMA HandlerKeeps ==
  ASSUME CancelPart, tombstone \subseteq tombstone', NEW t \in Tabs,
         NEW c \in [step: CancelSteps, nonce: Int], cancel' = [cancel EXCEPT ![t] = c],
         c.step \in {"landed", "local"} => c.nonce \in tombstone'
  PROVE  CancelPart'
  BY DEF CancelPart

\* A handler that is done.
LEMMA HandlerEnds ==
  ASSUME CancelPart, tombstone \subseteq tombstone', NEW t \in Tabs, cancel' = [cancel EXCEPT ![t] = NoCancel]
  PROVE  CancelPart'
  <1>1. NoCancel \in [step: CancelSteps, nonce: Int] /\ NoCancel.step = "idle"
    BY DEF NoCancel, CancelSteps
  <1>2. QED
    BY <1>1, HandlerKeeps

\* A handler that goes one step further with its order.
LEMMA HandlerGoes ==
  ASSUME CancelPart, tombstone \subseteq tombstone', NEW t \in Tabs, NEW step \in CancelSteps,
         CancelGoes(t, step), cancel[t].nonce \in tombstone'
  PROVE  CancelPart'
  <1>1. PICK c : c = [cancel[t] EXCEPT !.step = step]
    OBVIOUS
  <1>2. cancel[t] \in [step: CancelSteps, nonce: Int]
    BY DEF CancelPart
  <1>3. c \in [step: CancelSteps, nonce: Int] /\ c.nonce = cancel[t].nonce
    BY <1>1, <1>2
  <1>4. cancel' = [cancel EXCEPT ![t] = c]
    BY <1>1 DEF CancelGoes
  <1>5. QED
    BY <1>3, <1>4, HandlerKeeps

-----------------------------------------------------------------------------
(* The steps.                                                              *)

\* Steps of the wallet, the timer, the matcher, the gateway and the clock.
LEMMA OthersGo ==
  ASSUME ClientInv,
         \/ \E t \in Tabs : Disconnect(t) \/ Connect(t) \/ Reconcile(t) \/ CheckFails(t)
         \/ \E i \in Intents : Expire(i)
         \/ \E n \in BuiltNonces : Match(n) \/ Settle(n) \/ StrayLands(n) \/ Reclaim(n)
         \/ CancelAll \/ UNCHANGED clientVars
  PROVE  ClientInv'
  <1>1. /\ UNCHANGED <<nonceVars, request, cancel, tabVars>>
        /\ tombstone \subseteq tombstone' /\ settled \subseteq settled' /\ EntriesPart'
    <2>1. CASE \E n \in BuiltNonces : Settle(n)
      BY <2>1 DEF Settle, ClientInv, EntriesPart
    <2>2. CASE \E n \in BuiltNonces : StrayLands(n)
      BY <2>2 DEF StrayLands, GatewayCancels, ClientInv, EntriesPart
    <2>3. CASE \E n \in BuiltNonces : Reclaim(n)
      BY <2>3 DEF Reclaim, ClientInv, EntriesPart
    <2>4. CASE UNCHANGED <<nonceVars, request, cancel, tabVars, gatewayVars>>
      BY <2>4 DEF gatewayVars, ClientInv, EntriesPart
    <2>5. QED
      BY <2>1, <2>2, <2>3, <2>4 DEF Disconnect, Connect, Reconcile, CheckFails, Expire, Match, CancelAll,
         clientVars, chainVars
  <1>2. IntentsPart' /\ BuiltNonces' = BuiltNonces
    BY <1>1, IntentsRest DEF ClientInv
  <1>3. ListsPart'
    BY <1>1, <1>2, ListsRest DEF ClientInv, Grows
  <1>4. CancelPart'
    BY <1>1, CancelRests DEF ClientInv
  <1>5. QED
    BY <1>1, <1>2, <1>3, <1>4 DEF ClientInv

\* The intake's answer, and its loss.
LEMMA IntakeGoes ==
  ASSUME ClientInv, NEW i \in Intents, StoreOrder(i) \/ RefuseOrder(i) \/ LoseAnswer(i)
  PROVE  ClientInv'
  <1>1. /\ UNCHANGED <<nonceVars, cancel, gatewayVars, tabVars>>
        /\ RequestGoes(i, "ok") \/ RequestGoes(i, "fail")
    BY DEF StoreOrder, RefuseOrder, LoseAnswer, chainVars
  <1>2. IntentsPart' /\ BuiltNonces' = BuiltNonces
    BY <1>1, GoesKeeps DEF ClientInv, RequestSteps
  <1>3. ListsPart' /\ EntriesPart'
    BY <1>1, <1>2, ListsRest DEF ClientInv, Grows, EntriesPart, gatewayVars
  <1>4. CancelPart'
    BY <1>1, CancelRests DEF ClientInv, gatewayVars
  <1>5. QED
    BY <1>2, <1>3, <1>4 DEF ClientInv

\* The tab hears what became of its submission.
LEMMA AnswerGoes ==
  ASSUME ClientInv, NEW i \in Intents, Answered(i)
  PROVE  ClientInv'
  <1> DEFINE t == request[i].tab
             n == request[i].nonce
  <1>1. /\ UNCHANGED <<nonceVars, cancel, gatewayVars>>
        /\ RequestGoes(i, "done")
        /\ (~request[i].tracked /\ AddOrder(t, n)) \/ UNCHANGED tabVars
    BY DEF Answered, chainVars
  <1>2. IntentsPart' /\ BuiltNonces' = BuiltNonces
    BY <1>1, GoesKeeps DEF ClientInv, RequestSteps
  <1>3. Grows
    BY <1>1, <1>2 DEF Grows, gatewayVars
  <1>4. ListsPart'
    <2>1. CASE ~request[i].tracked /\ AddOrder(t, n)
      <3>1. t \in Tabs
        BY <2>1 DEF ClientInv, IntentsPart, OwnIntent
      <3>2. n \in BuiltNonces'
        BY <1>2, SubmissionBasics DEF ClientInv
      <3>3. QED
        BY <1>3, <2>1, <3>1, <3>2, AddKeeps DEF ClientInv
    <2>2. CASE UNCHANGED tabVars
      BY <1>3, <2>2, ListsRest DEF ClientInv
    <2>3. QED
      BY <1>1, <2>1, <2>2
  <1>5. CancelPart' /\ EntriesPart'
    BY <1>1, CancelRests DEF ClientInv, EntriesPart, gatewayVars
  <1>6. QED
    BY <1>2, <1>4, <1>5 DEF ClientInv

\* An order is built and submitted, and tracked at once or not.
LEMMA PlacedKeeps ==
  ASSUME ClientInv, NEW t \in Tabs, NEW ms \in 0..MaxMs, NEW n, n = NextNonce(t, ms),
         NEW tracked \in BOOLEAN, Build(t, n, tracked),
         AddOrder(t, n) \/ UNCHANGED tabVars, UNCHANGED <<cancel, gatewayVars>>
  PROVE  ClientInv'
  <1>1. IntentsPart' /\ BuiltNonces \subseteq BuiltNonces' /\ n \in BuiltNonces'
    BY BuildKeeps DEF ClientInv
  <1>2. ListsPart'
    BY <1>1, AddKeeps, ListsRest DEF ClientInv, Grows, gatewayVars
  <1>3. CancelPart' /\ EntriesPart'
    BY CancelRests DEF ClientInv, EntriesPart, gatewayVars
  <1>4. QED
    BY <1>1, <1>2, <1>3 DEF ClientInv

\* The order ticket, and the button that closes a position.
LEMMA SubmitGoes ==
  ASSUME ClientInv, NEW t \in Tabs, HandleSubmit(t) \/ MakeClose(t)
  PROVE  ClientInv'
  <1>1. CASE HandleSubmit(t)
    <2>1. PICK ms \in 0..MaxMs : Build(t, NextNonce(t, ms), FALSE)
      BY <1>1 DEF HandleSubmit
    <2>2. UNCHANGED <<tabVars, cancel, gatewayVars>>
      BY <1>1 DEF HandleSubmit, chainVars
    <2>3. FALSE \in BOOLEAN
      OBVIOUS
    <2>4. QED
      BY <2>1, <2>2, <2>3, PlacedKeeps
  <1>2. CASE MakeClose(t)
    <2>1. PICK ms \in 0..MaxMs : Build(t, NextNonce(t, ms), TRUE) /\ AddOrder(t, NextNonce(t, ms))
      BY <1>2 DEF MakeClose
    <2>2. UNCHANGED <<cancel, gatewayVars>>
      BY <1>2 DEF MakeClose, chainVars
    <2>3. TRUE \in BOOLEAN
      OBVIOUS
    <2>4. QED
      BY <2>1, <2>2, <2>3, PlacedKeeps
  <1>3. QED
    BY <1>1, <1>2

\* The cancel handler up to what it marks.
LEMMA CancelGoesOn ==
  ASSUME ClientInv, NEW t \in Tabs,
         \/ \E n \in BuiltNonces : MakeCancel(t, n)
         \/ CancelThrows(t) \/ CancelLands(t) \/ StopWatching(t) \/ CancelOrderOnMatcher(t)
  PROVE  ClientInv'
  <1>1. /\ UNCHANGED <<nonceVars, request, settled, tabVars>>
        /\ tombstone \subseteq tombstone' /\ EntriesPart'
    <2>1. CASE CancelLands(t)
      BY <2>1 DEF CancelLands, GatewayCancels, ClientInv, EntriesPart
    <2>2. CASE UNCHANGED <<nonceVars, request, tabVars, gatewayVars>>
      BY <2>2 DEF gatewayVars, ClientInv, EntriesPart
    <2>3. QED
      BY <2>1, <2>2 DEF MakeCancel, CancelThrows, StopWatching, CancelOrderOnMatcher, chainVars
  <1>2. IntentsPart' /\ BuiltNonces' = BuiltNonces
    BY <1>1, IntentsRest DEF ClientInv
  <1>3. ListsPart'
    BY <1>1, <1>2, ListsRest DEF ClientInv, Grows
  <1>4. CancelPart'
    <2>1. CASE \E n \in BuiltNonces : MakeCancel(t, n)
      <3>1. PICK n \in BuiltNonces : MakeCancel(t, n)
        BY <2>1
      <3>2. PICK c : c = [step |-> "sent", nonce |-> n]
        OBVIOUS
      <3>3. n \in Int
        BY SubmissionBasics DEF BuiltNonces, ClientInv
      <3>4. c \in [step: CancelSteps, nonce: Int] /\ c.step = "sent"
        BY <3>2, <3>3 DEF CancelSteps
      <3>5. cancel' = [cancel EXCEPT ![t] = c]
        BY <3>1, <3>2 DEF MakeCancel
      <3>6. QED
        BY <1>1, <3>4, <3>5, HandlerKeeps DEF ClientInv
    <2>2. CASE CancelThrows(t) \/ StopWatching(t)
      BY <1>1, <2>2, HandlerEnds DEF ClientInv, CancelThrows, StopWatching
    <2>3. CASE CancelLands(t)
      BY <1>1, <2>3, HandlerGoes DEF ClientInv, CancelLands, GatewayCancels, CancelSteps
    <2>4. CASE CancelOrderOnMatcher(t)
      <3>1. cancel[t].step = "landed" /\ CancelGoes(t, "local")
        BY <2>4 DEF CancelOrderOnMatcher
      <3>2. cancel[t].nonce \in tombstone'
        BY <1>1, <3>1 DEF ClientInv, CancelPart
      <3>3. QED
        BY <1>1, <3>1, <3>2, HandlerGoes DEF ClientInv, CancelSteps
    <2>5. QED
      BY <2>1, <2>2, <2>3, <2>4
  <1>5. QED
    BY <1>1, <1>2, <1>3, <1>4 DEF ClientInv

\* An order is marked: as cancelled once its cancel landed, or as the gateway
\* answers.
LEMMA MarkGoes ==
  ASSUME ClientInv, NEW t \in Tabs, CancelLocally(t) \/ CheckOrder(t)
  PROVE  ClientInv'
  <1>1. UNCHANGED <<nonceVars, request, settled, tombstone, filledEntry, cancelledEntry>>
    BY DEF CancelLocally, CheckOrder, chainVars, gatewayVars
  <1>2. IntentsPart' /\ BuiltNonces' = BuiltNonces /\ EntriesPart'
    BY <1>1, IntentsRest DEF ClientInv, EntriesPart
  <1>3. ListsPart'
    <2>1. CASE CancelLocally(t)
      <3>1. cancel[t].nonce \in tombstone' /\ Mark(t, cancel[t].nonce, "cancelled")
        BY <1>1, <2>1 DEF CancelLocally, CancelIsSettled, ClientInv, CancelPart
      <3>2. QED
        BY <1>1, <1>2, <3>1, MarkKeeps DEF ClientInv, Grows, Statuses
    <2>2. CASE CheckOrder(t)
      <3> DEFINE n == Head(pass[t])
      <3>1. UNCHANGED tabVars \/ (Verdict(n) # "pending" /\ Mark(t, n, Verdict(n)))
        BY <2>2 DEF CheckOrder
      <3>2. CASE UNCHANGED tabVars
        BY <1>1, <1>2, <3>2, ListsRest DEF ClientInv, Grows
      <3>3. CASE Verdict(n) # "pending" /\ Mark(t, n, Verdict(n))
        <4>1. /\ Verdict(n) \in Statuses
              /\ Verdict(n) = "cancelled" => n \in tombstone'
              /\ Verdict(n) = "filled" => n \in settled'
          BY <1>1, <3>3 DEF Verdict, Statuses, ClientInv, EntriesPart
        <4> HIDE DEF n
        <4>2. QED
          BY <1>1, <1>2, <3>3, <4>1, MarkKeeps DEF ClientInv, Grows
      <3>4. QED
        BY <3>1, <3>2, <3>3
    <2>3. QED
      BY <2>1, <2>2
  <1>4. CancelPart'
    <2>1. CASE CancelLocally(t)
      BY <1>1, <2>1, HandlerEnds DEF CancelLocally, ClientInv
    <2>2. CASE CheckOrder(t)
      BY <1>1, <2>2, CancelRests DEF CheckOrder, ClientInv
    <2>3. QED
      BY <2>1, <2>2
  <1>5. QED
    BY <1>2, <1>3, <1>4 DEF ClientInv

\* A tab takes over the storage: on its event, or when its page is loaded.
LEMMA LoadGoes ==
  ASSUME ClientInv, NEW t \in Tabs, Rehydrate(t) \/ Reload(t)
  PROVE  ClientInv'
  <1>1. UNCHANGED <<disk, gatewayVars, settled, tombstone>> /\ list' = [list EXCEPT ![t] = disk]
    BY DEF Rehydrate, Reload, chainVars, gatewayVars
  <1>2. IntentsPart' /\ BuiltNonces' = BuiltNonces
    <2>1. CASE Rehydrate(t)
      BY <2>1, IntentsRest DEF Rehydrate, ClientInv
    <2>2. CASE Reload(t)
      BY <2>2, ReloadIntents DEF ClientInv
    <2>3. QED
      BY <2>1, <2>2
  <1>3. ListsPart' /\ EntriesPart'
    BY <1>1, <1>2, LoadKeeps DEF ClientInv, Grows, EntriesPart, gatewayVars
  <1>4. CancelPart'
    <2>1. CASE Rehydrate(t)
      BY <1>1, <2>1, CancelRests DEF Rehydrate, ClientInv
    <2>2. CASE Reload(t)
      BY <1>1, <2>2, HandlerEnds DEF Reload, ClientInv
    <2>3. QED
      BY <2>1, <2>2
  <1>5. QED
    BY <1>2, <1>3, <1>4 DEF ClientInv

\* At first every tab shows the one order that expired, as open.
LEMMA ClientInitInv == ClientInit => ClientInv
  <1> SUFFICES ASSUME ClientInit PROVE ClientInv
    OBVIOUS
  <1>1. PICK t \in Traders : request = <<Request(t, Old, "done", TRUE)>>
    BY DEF ClientInit
  <1>2. PICK r : r = Request(t, Old, "done", TRUE)
    OBVIOUS
  <1>3. t \in Tabs /\ Old \in Int /\ r \in Submission /\ r.tab = t /\ r.nonce = Old
    BY <1>2, ClientConstants DEF Old, Request, Submission, RequestSteps
  <1>4. request = <<r>> /\ request \in Seq(Submission) /\ Intents = {1} /\ request[1] = r
    <2>1. request = <<r>>
      BY <1>1, <1>2
    <2> HIDE DEF Submission
    <2>2. request \in Seq(Submission) /\ Len(request) = 1 /\ request[1] = r
      BY <1>3, <2>1
    <2>3. DOMAIN request = 1..1
      BY <2>2
    <2>4. QED
      BY <2>1, <2>2, <2>3 DEF Intents
  <1>5. BuiltNonces = {Old}
    BY <1>3, <1>4 DEF BuiltNonces
  <1>6. IntentsPart /\ EntriesPart
    <2>1. lastNonce = [u \in Tabs |-> IF u \in Traders THEN Old ELSE 0] /\ drawn = lastNonce
      BY DEF ClientInit
    <2>2. drawn \in [Tabs -> Nat] /\ lastNonce \in [Tabs -> Int] /\ lastNonce[t] = Old
      BY <1>3, <2>1 DEF Old
    <2>3. EntriesPart
      BY DEF ClientInit, EntriesPart
    <2>4. QED
      BY <1>3, <1>4, <2>2, <2>3 DEF IntentsPart, OwnIntent, SamePage
  <1>7. ListsPart
    <2>1. PICK o : o = [nonce |-> Old, status |-> "pending"]
      OBVIOUS
    <2>2. o \in Truths
      BY <1>5, <2>1 DEF Truths, Statuses
    <2>3. disk = <<o>> /\ list = [u \in Tabs |-> disk]
      BY <2>1 DEF ClientInit
    <2>4. <<o>> \in Seq(Truths)
      BY <2>2
    <2>5. QED
      BY <2>3, <2>4 DEF ListsPart
  <1>8. CancelPart
    BY DEF ClientInit, CancelPart, CancelSteps, NoCancel
  <1>9. QED
    BY <1>6, <1>7, <1>8 DEF ClientInv

\* Every step keeps what every tab shows true.
LEMMA ClientNextInv == ClientInv /\ [ClientNext]_clientVars => ClientInv'
  <1> SUFFICES ASSUME ClientInv, [ClientNext]_clientVars PROVE ClientInv'
    OBVIOUS
  <1>1. ASSUME NEW t \in Tabs, TabStep(t) PROVE ClientInv'
    BY <1>1, OthersGo, SubmitGoes, CancelGoesOn, MarkGoes, LoadGoes DEF TabStep
  <1>2. ASSUME NEW i \in Intents, SubmissionStep(i) PROVE ClientInv'
    BY <1>2, OthersGo, IntakeGoes, AnswerGoes DEF SubmissionStep, Declined, RateLimited, Rejected, StoreFails
  <1>3. ASSUME NEW n \in BuiltNonces, OrderStep(n) PROVE ClientInv'
    BY <1>3, OthersGo DEF OrderStep
  <1>4. CASE CancelAll \/ UNCHANGED clientVars
    BY <1>4, OthersGo
  <1>5. QED
    BY <1>1, <1>2, <1>3, <1>4 DEF ClientNext

\* Whichever tab lost an answer, wrote over another's list, was reloaded or jumped
\* in time: what any of them, or the storage, shows as cancelled or filled is so
\* on chain, and no page gives two orders one nonce (addOrder, cancelOrder,
\* reconcile, nextOrderNonce).
THEOREM ShownIsAlwaysTrue == ClientSpec => []ShownIsTrue
  <1>1. ClientSpec => []ClientInv
    BY ClientInitInv, ClientNextInv, PTL DEF ClientSpec
  <1>2. QED
    BY <1>1, ClientInvShows, PTL

-----------------------------------------------------------------------------
(* The collateral dialogs.                                                 *)

Steps == {"idle", "simulate", "sign", "watch"}
TxKinds == {"none", "deposit", "withdraw", "trust"}
Fates == {"none", "built", "pending", "success", "failed", "dropped"}
Transactions == [state: Fates, kind: TxKinds, amount: Nat, seq: Nat]

\* The account holds what it has, the vault at least what it owes the account.
MoneyPart ==
    /\ wallet \in Nat /\ balance \in Nat /\ total \in Nat /\ balance <= total
    /\ seqNum \in Nat

SentPart ==
    /\ sent \in [SentIds -> Transactions]
    /\ \A i \in SentIds : sent[i].kind = "trust" => sent[i].amount = 0
    /\ \A i \in SentIds : sent[i].state # "none" => sent[i].kind # "none"

\* A dialog is about a transaction of its own, in a state that fits its step.
DialogPart ==
    /\ desk \in [Desks -> [step: Steps, id: Nat]]
    /\ \A d \in Desks :
          /\ desk[d].step \in {"simulate", "sign"} =>
                desk[d].id \in SentIds /\ sent[desk[d].id].state = "built"
          /\ desk[d].step = "watch" => desk[d].id \in SentIds /\ sent[desk[d].id].state \notin {"none", "built"}
          /\ \A e \in Desks :
                (e # d /\ {desk[d].step, desk[e].step} \subseteq {"simulate", "sign"}) => desk[e].id # desk[d].id

\* Sequence numbers: nobody is ahead of the next one, so whatever is included uses
\* up the number of everything that was undecided beside it.
SequencePart ==
    \A i \in SentIds :
        /\ sent[i].seq <= seqNum + 1
        /\ Included(i) => sent[i].seq <= seqNum

RivalPart ==
    /\ rivals \in [SentIds -> SUBSET SentIds]
    /\ \A i \in SentIds : \A k \in rivals[i] :
          /\ k # i /\ sent[k].state # "none"
          /\ Included(i) => sent[k].seq <= seqNum
          /\ Included(k) => sent[i].seq <= seqNum
          /\ ~(Included(i) /\ Included(k))

ConfirmedPart == confirmed \subseteq {i \in SentIds : sent[i].state = "success"}

DeskInv == MoneyPart /\ SentPart /\ DialogPart /\ SequencePart /\ RivalPart /\ ConfirmedPart

\* What RetryPaysOnce says is part of the invariant.
LEMMA DeskInvShows == DeskInv => RetryPaysOnce
  BY DEF DeskInv, MoneyPart, RivalPart, ConfirmedPart, RetryPaysOnce

\* Nothing is built, and the account's tokens are where they were.
LEMMA DeskInitInv == DeskInit => DeskInv
  <1> SUFFICES ASSUME DeskInit PROVE DeskInv
    OBVIOUS
  <1>1. MoneyPart
    BY DeskConstants DEF DeskInit, MoneyPart
  <1>2. SentPart /\ \A i \in SentIds : sent[i].state = "none" /\ sent[i].seq = 0
    BY DEF DeskInit, SentPart, Unbuilt, Fates, TxKinds, Transactions
  <1>3. DialogPart
    BY DEF DeskInit, DialogPart, AtRest, Steps
  <1>4. SequencePart
    BY <1>1, <1>2 DEF SequencePart, MoneyPart, Included
  <1>5. RivalPart
    BY DEF DeskInit, RivalPart
  <1>6. ConfirmedPart
    BY DEF DeskInit, ConfirmedPart
  <1>7. QED
    BY <1>1, <1>2, <1>3, <1>4, <1>5, <1>6 DEF DeskInv

\* One transaction changes its state, one dialog its step: the effect of an
\* assignment to a field.
LEMMA FateChanges ==
  ASSUME SentPart, NEW i \in SentIds, NEW fate \in Fates, sent' = [sent EXCEPT ![i].state = fate],
         sent[i].state # "none"
  PROVE  /\ SentPart' /\ sent'[i].state = fate /\ sent'[i].seq = sent[i].seq
         /\ \A j \in SentIds : j # i => sent'[j] = sent[j]
  <1>1. sent \in [SentIds -> Transactions]
    BY DEF SentPart
  <1>2. PICK r : r = [sent[i] EXCEPT !.state = fate]
    OBVIOUS
  <1>3. /\ r \in Transactions /\ r.state = fate
        /\ r.kind = sent[i].kind /\ r.amount = sent[i].amount /\ r.seq = sent[i].seq
    BY <1>1, <1>2 DEF Transactions
  <1>4. sent' = [sent EXCEPT ![i] = r]
    BY <1>2
  <1>5. QED
    BY <1>1, <1>3, <1>4 DEF SentPart

\* Where no transaction is included or forgotten, the sequence numbers and the
\* rivals say what they said.
LEMMA NothingIncluded ==
  ASSUME SequencePart, RivalPart, UNCHANGED <<rivals, seqNum>>,
         \A j \in SentIds : sent'[j].seq = sent[j].seq,
         \A j \in SentIds : Included(j)' => Included(j),
         \A j \in SentIds : sent[j].state # "none" => sent'[j].state # "none"
  PROVE  SequencePart' /\ RivalPart'
  <1>1. SequencePart'
    BY DEF SequencePart
  <1>2. ASSUME NEW i \in SentIds, NEW k \in rivals[i]
        PROVE  /\ k # i /\ sent'[k].state # "none"
               /\ Included(i)' => sent'[k].seq <= seqNum
               /\ Included(k)' => sent'[i].seq <= seqNum
               /\ ~(Included(i)' /\ Included(k)')
    <2>1. k \in SentIds
      BY <1>2 DEF RivalPart
    <2>2. QED
      BY <1>2, <2>1 DEF RivalPart
  <1>3. RivalPart'
    BY <1>2 DEF RivalPart
  <1>4. QED
    BY <1>1, <1>3

\* A dialog that goes on keeps its transaction, and no other dialog changes.
LEMMA DialogChanges ==
  ASSUME DialogPart, NEW d \in Desks, NEW step \in Steps, DeskGoes(d, step)
  PROVE  /\ desk' \in [Desks -> [step: Steps, id: Nat]]
         /\ desk'[d] = [step |-> step, id |-> desk[d].id]
         /\ \A e \in Desks : e # d => desk'[e] = desk[e]
  <1>1. desk \in [Desks -> [step: Steps, id: Nat]]
    BY DEF DialogPart
  <1>2. PICK r : r = [desk[d] EXCEPT !.step = step]
    OBVIOUS
  <1>3. r \in [step: Steps, id: Nat] /\ r = [step |-> step, id |-> desk[d].id]
    BY <1>1, <1>2
  <1>4. desk' = [desk EXCEPT ![d] = r]
    BY <1>2 DEF DeskGoes
  <1>5. QED
    BY <1>1, <1>3, <1>4

\* A dialog that comes to rest leaves the others as they were.
LEMMA DialogRests ==
  ASSUME DialogPart, NEW d \in Desks, Rests(d)
  PROVE  /\ desk' \in [Desks -> [step: Steps, id: Nat]]
         /\ desk'[d].step = "idle"
         /\ \A e \in Desks : e # d => desk'[e] = desk[e]
  BY DEF DialogPart, Rests, AtRest, Steps

\* A press: the transaction takes a number that nothing was built under, at most
\* the account's next sequence number, and everything undecided as its rivals.
LEMMA BuildTxKeeps ==
  ASSUME DeskInv, NEW d \in Desks, NEW kind \in TxKinds \ {"none"}, NEW amount \in Nat,
         NEW step \in {"simulate", "sign"}, BuildTx(d, kind, amount, step), kind = "trust" => amount = 0
  PROVE  DeskInv'
  <1> DEFINE i == Min(FreeIds)
  <1>1. FreeIds \subseteq Nat /\ FreeIds # {}
    BY DEF BuildTx, FreeIds, SentIds
  <1>2. i \in SentIds /\ i \in Nat /\ sent[i].state = "none"
    <2>1. i \in FreeIds
      BY <1>1, MinOfNaturals
    <2>2. QED
      BY <1>1, <2>1 DEF FreeIds
  <1>3. seqNum \in Nat
    BY DEF DeskInv, MoneyPart
  <1>4. PICK known \in 0..seqNum :
            sent' = [sent EXCEPT ![i] = [state |-> "built", kind |-> kind, amount |-> amount,
                                         seq |-> NextSequence(known)]]
    BY DEF BuildTx
  <1>5. PICK tx : tx = [state |-> "built", kind |-> kind, amount |-> amount, seq |-> known + 1]
    OBVIOUS
  <1>6. /\ tx \in Transactions /\ tx.state = "built" /\ tx.kind # "none"
        /\ tx.kind = "trust" => tx.amount = 0
        /\ tx.seq <= seqNum + 1
    BY <1>3, <1>4, <1>5 DEF Fates, TxKinds, Transactions
  <1>7. /\ sent' = [sent EXCEPT ![i] = tx]
        /\ rivals' = [rivals EXCEPT ![i] = Undecided]
        /\ desk' = [desk EXCEPT ![d] = [step |-> step, id |-> i]]
        /\ desk[d] = AtRest
        /\ UNCHANGED <<wallet, balance, total, seqNum, confirmed>>
    BY <1>4, <1>5 DEF BuildTx, NextSequence, vaultVars
  <1> HIDE DEF i
  <1>8. /\ sent \in [SentIds -> Transactions]
        /\ desk \in [Desks -> [step: Steps, id: Nat]]
        /\ rivals \in [SentIds -> SUBSET SentIds]
    BY DEF DeskInv, SentPart, DialogPart, RivalPart
  <1>9. sent'[i] = tx /\ \A j \in SentIds : j # i => sent'[j] = sent[j]
    BY <1>2, <1>7, <1>8
  <1>10. /\ desk'[d].step = step /\ desk'[d].id = i
         /\ desk' \in [Desks -> [step: Steps, id: Nat]]
         /\ \A e \in Desks : e # d => desk'[e] = desk[e]
    BY <1>2, <1>7, <1>8 DEF Steps
  <1>11. MoneyPart' /\ SentPart'
    BY <1>2, <1>6, <1>7, <1>8, <1>9 DEF DeskInv, MoneyPart, SentPart
  <1>12. DialogPart'
    <2>1. \A e \in Desks : desk[e].step \in {"simulate", "sign", "watch"} => desk[e].id # i
      BY <1>2 DEF DeskInv, DialogPart
    <2>2. QED
      BY <1>2, <1>6, <1>9, <1>10, <2>1 DEF DeskInv, DialogPart
  <1>13. \A j \in SentIds : Included(j)' => j # i /\ Included(j)
    BY <1>6, <1>9 DEF Included
  <1>14. SequencePart'
    BY <1>6, <1>7, <1>9, <1>13 DEF DeskInv, SequencePart
  <1>15. Undecided \subseteq SentIds /\ \A k \in Undecided : sent[k].state # "none" /\ ~Included(k)
    BY DEF Undecided, Included
  <1>16. RivalPart'
    <2>1. /\ rivals' \in [SentIds -> SUBSET SentIds] /\ rivals'[i] = Undecided
          /\ \A j \in SentIds : j # i => rivals'[j] = rivals[j]
      BY <1>2, <1>7, <1>8, <1>15
    <2>2. ASSUME NEW j \in SentIds, NEW k \in rivals'[j]
          PROVE  /\ k # j /\ sent'[k].state # "none"
                 /\ Included(j)' => sent'[k].seq <= seqNum'
                 /\ Included(k)' => sent'[j].seq <= seqNum'
                 /\ ~(Included(j)' /\ Included(k)')
      <3>1. k \in SentIds
        BY <2>1, <2>2
      <3>2. CASE j = i
        BY <1>2, <1>9, <1>13, <1>15, <2>1, <2>2, <3>1, <3>2
      <3>3. CASE j # i
        <4>1. k \in rivals[j]
          BY <2>1, <2>2, <3>3
        <4>2. k # i
          BY <1>2, <4>1 DEF DeskInv, RivalPart
        <4>3. QED
          BY <1>7, <1>9, <1>13, <3>1, <3>3, <4>1, <4>2 DEF DeskInv, RivalPart
      <3>4. QED
        BY <3>2, <3>3
    <2>3. QED
      BY <2>1, <2>2 DEF RivalPart
  <1>17. ConfirmedPart'
    BY <1>2, <1>7, <1>9 DEF DeskInv, ConfirmedPart
  <1>18. QED
    BY <1>11, <1>12, <1>14, <1>16, <1>17 DEF DeskInv

\* The two ways to press.
LEMMA PressKeeps ==
  ASSUME DeskInv, NEW d \in Desks,
         AddTrustline(d) \/ \E kind \in {"deposit", "withdraw"}, amount \in 1..Purse : Run(d, kind, amount)
  PROVE  DeskInv'
  <1>1. CASE AddTrustline(d)
    BY <1>1, BuildTxKeeps DEF AddTrustline, TxKinds
  <1>2. ASSUME NEW kind \in {"deposit", "withdraw"}, NEW amount \in 1..Purse, Run(d, kind, amount)
        PROVE  DeskInv'
    <2> DEFINE raw == IF kind = "withdraw" THEN RoundToBridgeable(amount) ELSE amount
    <2>1. raw \in Nat
      BY DeskConstants DEF RoundToBridgeable
    <2>2. BuildTx(d, kind, raw, "simulate")
      BY <1>2 DEF Run
    <2> HIDE DEF raw
    <2>3. QED
      BY <2>1, <2>2, BuildTxKeeps DEF TxKinds
  <1>3. QED
    BY <1>1, <1>2

\* Simulating and signing: the dialog goes on, nothing else changes.
LEMMA SimulateKeeps ==
  ASSUME DeskInv, NEW d \in Desks, Simulate(d)
  PROVE  DeskInv'
  <1>1. desk[d].step = "simulate" /\ DeskGoes(d, "sign")
        /\ UNCHANGED <<wallet, balance, total, seqNum, sent, confirmed, rivals>>
    BY DEF Simulate, vaultVars, historyVars
  <1>2. /\ desk' \in [Desks -> [step: Steps, id: Nat]]
        /\ desk'[d] = [step |-> "sign", id |-> desk[d].id]
        /\ \A e \in Desks : e # d => desk'[e] = desk[e]
    BY <1>1, DialogChanges DEF DeskInv, Steps
  <1>3. DialogPart'
    BY <1>1, <1>2 DEF DeskInv, DialogPart
  <1>4. MoneyPart' /\ SentPart' /\ ConfirmedPart'
    BY <1>1 DEF DeskInv, MoneyPart, SentPart, ConfirmedPart
  <1>5. SequencePart' /\ RivalPart'
    BY <1>1, NothingIncluded DEF DeskInv, Included
  <1>6. QED
    BY <1>3, <1>4, <1>5 DEF DeskInv

\* A transaction that was not sent is dropped, and its dialog rests.
LEMMA ThrowKeeps ==
  ASSUME DeskInv, NEW d \in Desks, InvokeThrows(d)
  PROVE  DeskInv'
  <1> DEFINE i == desk[d].id
  <1>1. /\ desk[d].step \in {"simulate", "sign"} /\ Rests(d)
        /\ sent' = [sent EXCEPT ![i].state = "dropped"]
        /\ UNCHANGED <<wallet, balance, total, seqNum, confirmed, rivals>>
    BY DEF InvokeThrows, vaultVars, historyVars
  <1>2. i \in SentIds /\ sent[i].state = "built"
    BY <1>1 DEF DeskInv, DialogPart
  <1>3. /\ SentPart' /\ sent'[i].state = "dropped" /\ sent'[i].seq = sent[i].seq
        /\ \A j \in SentIds : j # i => sent'[j] = sent[j]
    BY <1>1, <1>2, FateChanges DEF DeskInv, Fates
  <1>4. /\ desk' \in [Desks -> [step: Steps, id: Nat]] /\ desk'[d].step = "idle"
        /\ \A e \in Desks : e # d => desk'[e] = desk[e]
    BY <1>1, DialogRests DEF DeskInv
  <1>5. DialogPart'
    <2>1. \A e \in Desks : (e # d /\ desk[e].step \in {"simulate", "sign", "watch"}) => desk[e].id # i
      BY <1>1, <1>2 DEF DeskInv, DialogPart
    <2>2. QED
      BY <1>1, <1>3, <1>4, <2>1 DEF DeskInv, DialogPart
  <1>6. SequencePart' /\ RivalPart'
    BY <1>1, <1>3, NothingIncluded DEF DeskInv, Included
  <1>7. MoneyPart' /\ ConfirmedPart'
    BY <1>1, <1>2, <1>3 DEF DeskInv, MoneyPart, ConfirmedPart
  <1>8. QED
    BY <1>3, <1>5, <1>6, <1>7 DEF DeskInv

\* A transaction is sent and watched from the same step on.
LEMMA SendKeeps ==
  ASSUME DeskInv, NEW d \in Desks, SendTransaction(d)
  PROVE  DeskInv'
  <1> DEFINE i == desk[d].id
  <1>1. PICK fate \in {"pending", "dropped"} : sent' = [sent EXCEPT ![i].state = fate]
    BY DEF SendTransaction
  <1>2. /\ desk[d].step = "sign" /\ DeskGoes(d, "watch")
        /\ UNCHANGED <<wallet, balance, total, seqNum, confirmed, rivals>>
    BY DEF SendTransaction, vaultVars, historyVars
  <1>3. i \in SentIds /\ sent[i].state = "built"
    BY <1>2 DEF DeskInv, DialogPart
  <1>4. /\ SentPart' /\ sent'[i].state = fate /\ sent'[i].seq = sent[i].seq
        /\ \A j \in SentIds : j # i => sent'[j] = sent[j]
    BY <1>1, <1>3, FateChanges DEF DeskInv, Fates
  <1>5. /\ desk' \in [Desks -> [step: Steps, id: Nat]] /\ desk'[d] = [step |-> "watch", id |-> i]
        /\ \A e \in Desks : e # d => desk'[e] = desk[e]
    BY <1>2, DialogChanges DEF DeskInv, Steps
  <1>6. DialogPart'
    <2>1. \A e \in Desks : (e # d /\ desk[e].step \in {"simulate", "sign", "watch"}) => desk[e].id # i
      BY <1>2, <1>3 DEF DeskInv, DialogPart
    <2>2. QED
      BY <1>3, <1>4, <1>5, <2>1 DEF DeskInv, DialogPart
  <1>7. SequencePart' /\ RivalPart'
    BY <1>2, <1>4, NothingIncluded DEF DeskInv, Included
  <1>8. MoneyPart' /\ ConfirmedPart'
    BY <1>2, <1>3, <1>4 DEF DeskInv, MoneyPart, ConfirmedPart
  <1>9. QED
    BY <1>4, <1>6, <1>7, <1>8 DEF DeskInv

\* The vault's side of a landing: whoever takes money had it, and the vault never
\* owes more than it counts.
LEMMA LandingPays ==
  ASSUME MoneyPart, NEW kind \in TxKinds, NEW amount \in Nat, VaultAccepts(kind, amount), Moves(kind, amount),
         kind \in {"deposit", "withdraw"} \/ amount = 0, seqNum' \in Nat
  PROVE  MoneyPart'
  <1>1. wallet \in Nat /\ balance \in Nat /\ total \in Nat /\ balance <= total
    BY DEF MoneyPart
  <1>2. CASE kind = "deposit"
    <2>1. amount <= wallet /\ wallet' = wallet - amount /\ balance' = balance + amount
          /\ total' = Max({0, total + amount})
      BY <1>2 DEF VaultAccepts, Moves
    <2>2. total' = total + amount
      <3>1. total + amount \in Int /\ 0 <= total + amount
        BY <1>1
      <3>2. QED
        BY <2>1, <3>1, MaxOfTwo
    <2>3. QED
      BY <1>1, <2>1, <2>2 DEF MoneyPart
  <1>3. CASE kind # "deposit"
    <2>1. amount <= balance /\ wallet' = wallet - (-amount) /\ balance' = balance + (-amount)
          /\ total' = Max({0, total + (-amount)})
      BY <1>1, <1>3 DEF VaultAccepts, Moves
    <2>2. total' = total - amount
      <3>1. total + (-amount) \in Int /\ 0 <= total + (-amount) /\ total + (-amount) = total - amount
        BY <1>1, <2>1
      <3>2. QED
        BY <2>1, <3>1, MaxOfTwo
    <2>3. QED
      BY <1>1, <2>1, <2>2 DEF MoneyPart
  <1>4. QED
    BY <1>2, <1>3

\* A ledger includes a transaction: its number was the next, so every number that
\* is out is used up, and no rival of it is or will be included.
LEMMA LandsKeeps ==
  ASSUME DeskInv, NEW i \in SentIds, Lands(i)
  PROVE  DeskInv'
  <1> DEFINE amount == sent[i].amount
             kind == sent[i].kind
  <1>1. /\ sent[i].state = "pending" /\ sent[i].seq = seqNum + 1 /\ seqNum' = seqNum + 1
        /\ UNCHANGED <<desk, confirmed, rivals>>
    BY DEF Lands, historyVars
  <1>2. amount \in Nat /\ kind \in TxKinds /\ seqNum \in Nat
    BY <1>1 DEF DeskInv, SentPart, MoneyPart, Transactions
  <1>3. PICK fate \in {"success", "failed"} : sent' = [sent EXCEPT ![i].state = fate]
    BY DEF Lands
  <1>4. /\ SentPart' /\ sent'[i].state = fate /\ sent'[i].seq = sent[i].seq
        /\ \A j \in SentIds : j # i => sent'[j] = sent[j]
    BY <1>1, <1>3, FateChanges DEF DeskInv, Fates
  <1>5. (VaultAccepts(kind, amount) /\ Moves(kind, amount)) \/ UNCHANGED <<wallet, balance, total>>
    BY DEF Lands
  <1>6. MoneyPart'
    <2>1. kind \in {"deposit", "withdraw"} \/ amount = 0
      BY <1>1, <1>2 DEF DeskInv, SentPart, TxKinds
    <2> HIDE DEF amount, kind
    <2>2. CASE VaultAccepts(kind, amount) /\ Moves(kind, amount)
      BY <1>1, <1>2, <2>1, <2>2, LandingPays DEF DeskInv
    <2>3. CASE UNCHANGED <<wallet, balance, total>>
      BY <1>1, <1>2, <2>3 DEF DeskInv, MoneyPart
    <2>4. QED
      BY <1>5, <2>2, <2>3
  <1>7. DialogPart'
    BY <1>1, <1>4 DEF DeskInv, DialogPart
  <1>8. \A j \in SentIds : sent[j].seq \in Nat /\ sent'[j].seq = sent[j].seq /\ sent'[j].seq <= seqNum'
    BY <1>1, <1>4 DEF DeskInv, SequencePart, SentPart, Transactions
  <1>9. SequencePart'
    BY <1>1, <1>2, <1>8 DEF SequencePart
  <1>10. \A j \in SentIds : j # i /\ Included(j)' => Included(j)
    BY <1>4 DEF Included
  <1>11. RivalPart'
    <2>1. ASSUME NEW j \in SentIds, NEW k \in rivals[j]
          PROVE  /\ k # j /\ sent'[k].state # "none"
                 /\ sent'[k].seq <= seqNum'
                 /\ sent'[j].seq <= seqNum'
                 /\ ~(Included(j)' /\ Included(k)')
      <3>1. k \in SentIds /\ sent[k].state # "none" /\ k # j
        BY <2>1 DEF DeskInv, RivalPart
      <3>2. sent'[k].state # "none"
        BY <1>4, <3>1
      <3>3. ~(Included(j)' /\ Included(k)')
        <4>1. ~(Included(j) /\ Included(k))
          BY <2>1 DEF DeskInv, RivalPart
        <4>2. k = i => ~Included(j)
          BY <1>1, <1>2, <2>1 DEF DeskInv, RivalPart
        <4>3. j = i => ~Included(k)
          BY <1>1, <1>2, <2>1 DEF DeskInv, RivalPart
        <4>4. QED
          BY <1>10, <3>1, <4>1, <4>2, <4>3
      <3>4. QED
        BY <1>8, <3>1, <3>2, <3>3
    <2>2. QED
      BY <1>1, <2>1 DEF DeskInv, RivalPart
  <1>12. ConfirmedPart'
    BY <1>1, <1>4 DEF DeskInv, ConfirmedPart
  <1>13. QED
    BY <1>4, <1>6, <1>7, <1>9, <1>11, <1>12 DEF DeskInv

\* A transaction that can no longer land.
LEMMA ExpiresKeeps ==
  ASSUME DeskInv, NEW i \in SentIds, Expires(i)
  PROVE  DeskInv'
  <1>1. /\ sent[i].state = "pending" /\ sent' = [sent EXCEPT ![i].state = "dropped"]
        /\ UNCHANGED <<wallet, balance, total, seqNum, desk, confirmed, rivals>>
    BY DEF Expires, vaultVars, historyVars
  <1>2. /\ SentPart' /\ sent'[i].state = "dropped" /\ sent'[i].seq = sent[i].seq
        /\ \A j \in SentIds : j # i => sent'[j] = sent[j]
    BY <1>1, FateChanges DEF DeskInv, Fates
  <1>3. DialogPart'
    BY <1>1, <1>2 DEF DeskInv, DialogPart
  <1>4. SequencePart' /\ RivalPart'
    BY <1>1, <1>2, NothingIncluded DEF DeskInv, Included
  <1>5. MoneyPart' /\ ConfirmedPart'
    BY <1>1, <1>2 DEF DeskInv, MoneyPart, ConfirmedPart
  <1>6. QED
    BY <1>2, <1>3, <1>4, <1>5 DEF DeskInv

\* A dialog that stops watching, because it saw the success or because it reports
\* a failure, whatever became of the transaction.
LEMMA StopWatchingKeeps ==
  ASSUME DeskInv, NEW d \in Desks, SeesSuccess(d) \/ ReportsFailure(d)
  PROVE  DeskInv'
  <1> DEFINE i == desk[d].id
  <1>1. /\ desk[d].step = "watch" /\ Rests(d)
        /\ UNCHANGED <<wallet, balance, total, seqNum, sent, rivals>>
        /\ confirmed' = confirmed \/ (confirmed' = confirmed \cup {i} /\ sent[i].state = "success")
    BY DEF SeesSuccess, ReportsFailure, vaultVars, historyVars
  <1>2. i \in SentIds
    BY <1>1 DEF DeskInv, DialogPart
  <1>3. /\ desk' \in [Desks -> [step: Steps, id: Nat]] /\ desk'[d].step = "idle"
        /\ \A e \in Desks : e # d => desk'[e] = desk[e]
    BY <1>1, DialogRests DEF DeskInv
  <1>4. DialogPart'
    BY <1>1, <1>3 DEF DeskInv, DialogPart
  <1>5. SequencePart' /\ RivalPart'
    BY <1>1, NothingIncluded DEF DeskInv, Included
  <1>6. MoneyPart' /\ SentPart' /\ ConfirmedPart'
    BY <1>1, <1>2 DEF DeskInv, MoneyPart, SentPart, ConfirmedPart
  <1>7. QED
    BY <1>4, <1>5, <1>6 DEF DeskInv

\* A page load: the dialogs rest, and what was not sent is gone.
LEMMA PageLoadKeeps ==
  ASSUME DeskInv, PageLoads
  PROVE  DeskInv'
  <1> DEFINE Lost(j) == IF sent[j].state = "built" THEN [sent[j] EXCEPT !.state = "dropped"] ELSE sent[j]
  <1>1. /\ desk' = [d \in Desks |-> AtRest]
        /\ sent' = [j \in SentIds |-> Lost(j)]
        /\ UNCHANGED <<wallet, balance, total, seqNum, confirmed, rivals>>
    BY DEF PageLoads, vaultVars
  <1>2. ASSUME NEW j \in SentIds
        PROVE  /\ sent'[j] \in Transactions /\ sent'[j].seq = sent[j].seq /\ sent'[j].kind = sent[j].kind
               /\ sent'[j].amount = sent[j].amount
               /\ sent'[j].state = IF sent[j].state = "built" THEN "dropped" ELSE sent[j].state
    <2>1. sent[j] \in Transactions /\ sent'[j] = Lost(j)
      BY <1>1, <1>2 DEF DeskInv, SentPart
    <2>2. QED
      BY <2>1 DEF Transactions, Fates
  <1>3. SentPart'
    <2>1. sent' \in [SentIds -> Transactions]
      <3>1. DOMAIN sent' = SentIds /\ sent' = [j \in SentIds |-> sent'[j]]
        BY <1>1
      <3>2. QED
        BY <1>2, <3>1
    <2>2. QED
      BY <1>2, <2>1 DEF DeskInv, SentPart
  <1>4. DialogPart'
    BY <1>1 DEF DialogPart, AtRest, Steps
  <1>5. SequencePart' /\ RivalPart'
    BY <1>1, <1>2, NothingIncluded DEF DeskInv, Included
  <1>6. MoneyPart' /\ ConfirmedPart'
    BY <1>1, <1>2 DEF DeskInv, MoneyPart, ConfirmedPart
  <1>7. QED
    BY <1>3, <1>4, <1>5, <1>6 DEF DeskInv

\* Reads, listings and other traders' deposits.
LEMMA OthersKeep ==
  ASSUME DeskInv, Refetch \/ SetCollateral \/ OthersDeposit \/ UNCHANGED deskVars
  PROVE  DeskInv'
  <1>1. /\ UNCHANGED <<wallet, balance, seqNum, desk, sent, confirmed, rivals>>
        /\ total' \in {total, total + 1}
    BY DEF Refetch, SetCollateral, OthersDeposit, deskVars, vaultVars, historyVars
  <1>2. MoneyPart' /\ SentPart' /\ DialogPart' /\ ConfirmedPart'
    BY <1>1 DEF DeskInv, MoneyPart, SentPart, DialogPart, ConfirmedPart
  <1>3. SequencePart' /\ RivalPart'
    BY <1>1, NothingIncluded DEF DeskInv, Included
  <1>4. QED
    BY <1>2, <1>3 DEF DeskInv

\* Every step keeps the account of what is out, what is included and who rivals whom.
LEMMA DeskNextInv == DeskInv /\ [DeskNext]_deskVars => DeskInv'
  <1> SUFFICES ASSUME DeskInv, [DeskNext]_deskVars PROVE DeskInv'
    OBVIOUS
  <1>1. CASE Refetch \/ SetCollateral \/ OthersDeposit \/ UNCHANGED deskVars
    BY <1>1, OthersKeep
  <1>2. CASE \E d \in Desks : DeskStep(d)
    <2>1. PICK d \in Desks : DeskStep(d)
      BY <1>2
    <2>2. QED
      BY <2>1, PressKeeps, SimulateKeeps, ThrowKeeps, SendKeeps, StopWatchingKeeps DEF DeskStep
  <1>3. CASE \E i \in SentIds : Lands(i) \/ Expires(i)
    BY <1>3, LandsKeeps, ExpiresKeeps
  <1>4. CASE PageLoads
    BY <1>4, PageLoadKeeps
  <1>5. QED
    BY <1>1, <1>2, <1>3, <1>4 DEF DeskNext

\* Whatever is pressed again after a timeout, a broken poll or a page load, expires,
\* lands late or is refused, of two transactions of which one was undecided when
\* the other was built at most one is included, and what was confirmed happened
\* (run, buildContractCall, invokeContract).
THEOREM RetryAlwaysPaysOnce == DeskSpec => []RetryPaysOnce
  <1>1. DeskSpec => []DeskInv
    BY DeskInitInv, DeskNextInv, PTL DEF DeskSpec
  <1>2. QED
    BY <1>1, DeskInvShows, PTL

-----------------------------------------------------------------------------
(* The marks on screen.                                                    *)

\* A poll whose effect has not been cleaned up asks for the market on screen.
PollPart ==
    /\ shown \in Listed
    /\ DOMAIN mark = Listed
    /\ {oraclePoll, tickerPoll} \subseteq
           [asks: {"nobody", "oracle", "binance", "tickers"}, of: Listed \cup {0}, live: BOOLEAN]
    /\ tickerPoll.live => tickerPoll.of = shown

\* The first polls are started for the market on screen.
LEMMA PollsStart == PriceInit => PollPart
  BY DEF PriceInit, PollPart, Poll, NoPoll

\* Whatever answers, fails or is replaced, polls belong to what is on screen.
LEMMA PollsGoOn == PollPart /\ [PriceNext]_priceVars => PollPart'
  <1> SUFFICES ASSUME PollPart, [PriceNext]_priceVars PROVE PollPart'
    OBVIOUS
  <1> USE DEF PollPart, NoPoll, Poll
  <1>1. CASE PollOracle
    BY <1>1 DEF PollOracle
  <1>2. CASE OracleAnswers
    BY <1>2 DEF OracleAnswers, SetMarkPrice
  <1>3. CASE OracleIsSilent
    BY <1>3 DEF OracleIsSilent
  <1>4. CASE Binance24h
    BY <1>4 DEF Binance24h, SetMarkPrice
  <1>5. CASE PollAllTickers
    BY <1>5 DEF PollAllTickers
  <1>6. CASE AllTickers
    BY <1>6 DEF AllTickers
  <1>7. ASSUME NEW m \in Listed, ShowMarket(m) PROVE PollPart'
    <2> DEFINE Polls == [asks: {"nobody", "oracle", "binance", "tickers"}, of: Listed \cup {0}, live: BOOLEAN]
    <2>1. PICK o : o = [oraclePoll EXCEPT !.live = FALSE]
      OBVIOUS
    <2>2. PICK t : t = [tickerPoll EXCEPT !.live = FALSE]
      OBVIOUS
    <2>3. o \in Polls
      BY <2>1
    <2>4. t \in Polls /\ ~t.live
      BY <2>2
    <2>5. Poll("oracle", m) \in Polls /\ Poll("tickers", m) \in Polls
      OBVIOUS
    <2>6. oraclePoll' \in Polls
      BY <1>7, <2>1, <2>3, <2>5 DEF ShowMarket
    <2>7. tickerPoll' \in Polls
      BY <1>7, <2>2, <2>4, <2>5 DEF ShowMarket
    <2>8. tickerPoll'.live => tickerPoll'.of = m
      BY <1>7, <2>2, <2>4 DEF ShowMarket
    <2>9. shown' = m /\ mark' = mark
      BY <1>7 DEF ShowMarket
    <2>10. QED
      BY <2>6, <2>7, <2>8, <2>9
  <1>8. CASE UNCHANGED priceVars
    BY <1>8 DEF priceVars
  <1>9. QED
    BY <1>1, <1>2, <1>3, <1>4, <1>5, <1>6, <1>7, <1>8 DEF PriceNext

\* A ticker that counts was started for the market on screen, whose row it leaves
\* alone; any other writer of that row is the market's own poll.
LEMMA OwnPollMarks ==
  ASSUME PollPart, PriceNext
  PROVE  mark'[shown] # mark[shown] => mark'[shown] \in {"oracle", "binance"}
  <1> USE DEF PollPart
  <1>1. CASE OracleAnswers
    BY <1>1 DEF OracleAnswers, SetMarkPrice
  <1>2. CASE Binance24h
    BY <1>2 DEF Binance24h, SetMarkPrice
  <1>3. CASE AllTickers
    BY <1>3 DEF AllTickers, TickerCounts
  <1>4. CASE UNCHANGED mark
    BY <1>4
  <1>5. QED
    BY <1>1, <1>2, <1>3, <1>4 DEF PriceNext, PollOracle, OracleIsSilent, PollAllTickers, ShowMarket

\* For every set of markets: a ticker in flight never replaces the mark of the
\* market on screen, however polls outlive their effects
\* (MarketDataProvider's pollOracle and pollAllTickers).
THEOREM TickerAlwaysYields == PriceSpec => TickerYieldsToOracle
  <1>1. PollPart /\ PriceNext => (mark'[shown] # mark[shown] => mark'[shown] \in {"oracle", "binance"})
    BY OwnPollMarks
  <1>2. PollPart /\ [PriceNext]_priceVars
        => [mark'[shown] # mark[shown] => mark'[shown] \in {"oracle", "binance"}]_priceVars
    BY <1>1
  <1>3. QED
    BY PollsStart, PollsGoOn, <1>2, PTL DEF PriceSpec, TickerYieldsToOracle
=============================================================================
