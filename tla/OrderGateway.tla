---------------------------- MODULE OrderGateway ----------------------------
(***************************************************************************)
(* The settlement gateway contract (perp-order-gateway): what it remembers *)
(* of signed orders, and when it lets the matcher fill them.               *)
(*                                                                         *)
(* An owner signs an order once; the signature then authorises every fill  *)
(* of it.  All that keeps an order from being filled too much or too late  *)
(* is three pieces of contract state keyed by (owner, nonce): the filled   *)
(* amount, the cancellation tombstone, and the clock.  Two of them are     *)
(* garbage collected by a call anyone may make.  A contract call is one    *)
(* atomic step: an error reverts all of it and is not a step of the model. *)
(*                                                                         *)
(* Owners hold one net signed position per market: what settle_user_side   *)
(* does to the engine's positions, without the engine's own checks, which  *)
(* can only reject more (they are in ClearingHouse).                       *)
(***************************************************************************)
EXTENDS Integers, FiniteSets

CONSTANTS
    Owners, Nonces, Markets,
    Orders,             \* the orders somebody may sign
    Sizes, Prices,      \* fill sizes and fill prices the matcher may submit
    Hints,              \* expiry hints a caller may pass to cancel_order
    MaxOrderTtl,        \* MAX_ORDER_TTL_SECS, also the intake's MAX_TTL_SECONDS
    MinOrderTtl,        \* the intake's MIN_TTL_SECONDS
    ReclaimGrace,       \* RECLAIM_GRACE_SECS
    MaxTime             \* bound on the clock

Keys == Owners \X Nonces

Order == [owner: Owners, nonce: Nonces, market_id: Markets, is_long: BOOLEAN,
          size: Nat \ {0}, limit_price: Nat \ {0}, reduce_only: BOOLEAN,
          expiry_ts: Nat]

ASSUME GatewayConstants ==
    /\ Orders \subseteq Order
    /\ Sizes \subseteq Nat \ {0}
    /\ Prices \subseteq Nat \ {0}
    /\ Hints \subseteq Nat
    /\ MaxOrderTtl \in Nat \ {0}
    /\ MinOrderTtl \in Nat
    /\ ReclaimGrace \in Nat
    /\ MaxTime \in Nat

VARIABLES
    now,        \* ledger timestamp
    paused,     \* DataKey::Paused
    book,       \* orders whose signature the matcher holds
    filled,     \* DataKey::Filled(owner, nonce): amount, and the order's expiry
    cancelled,  \* DataKey::Cancelled(owner, nonce): retain_until, or NoTombstone
    pos,        \* net signed position per owner and market
    executed,   \* history: what each order has really been filled for
    revoked     \* history: orders their owner cancelled after signing them

vars == <<now, paused, book, filled, cancelled, pos, executed, revoked>>

KeyOf(o) == <<o.owner, o.nonce>>

NoEntry == [amount |-> 0, expiry_ts |-> 0]   \* no Filled entry stored
NoTombstone == 0                             \* no Cancelled entry stored

-----------------------------------------------------------------------------
Init ==
    /\ now = 0
    /\ paused = FALSE
    /\ book = {}
    /\ filled = [k \in Keys |-> NoEntry]
    /\ cancelled = [k \in Keys |-> NoTombstone]
    /\ pos = [om \in Owners \X Markets |-> 0]
    /\ executed = [o \in Orders |-> 0]
    /\ revoked = {}

\* Order intake: expiry window, then one row per owner and nonce for ever
\* (ON CONFLICT (id) DO NOTHING; rows are never deleted).
PlaceOrder(o) ==
    /\ o.expiry_ts > now + MinOrderTtl
    /\ o.expiry_ts <= now + MaxOrderTtl
    /\ \A b \in book : KeyOf(b) # KeyOf(o)
    /\ book' = book \cup {o}
    /\ UNCHANGED <<now, paused, filled, cancelled, pos, executed, revoked>>

\* The same signature handed to the operator without passing the intake.
HandOverSigned(o) ==
    /\ o \notin book
    /\ book' = book \cup {o}
    /\ UNCHANGED <<now, paused, filled, cancelled, pos, executed, revoked>>

\* Mutant: the caller's hint is trusted downward.
MutantLarger(a, b) == a

Larger(a, b) == IF a >= b THEN a ELSE b

CancelOrder(owner, nonce, expiry_hint) ==
    /\ cancelled' = [cancelled EXCEPT
            ![<<owner, nonce>>] = Larger(expiry_hint, now + MaxOrderTtl)]
    /\ revoked' = revoked \cup {o \in book : KeyOf(o) = <<owner, nonce>>}
    /\ UNCHANGED <<now, paused, book, filled, pos, executed>>

\* Mutant: the grace is taken off the wrong side.
MutantReclaimable(expiry) == now + ReclaimGrace > expiry

Reclaimable(expiry) == now > expiry + ReclaimGrace

ReclaimOrderState(owner, nonces) ==
    /\ filled' = [k \in Keys |->
            IF k \in {owner} \X nonces /\ Reclaimable(filled[k].expiry_ts)
            THEN NoEntry ELSE filled[k]]
    /\ cancelled' = [k \in Keys |->
            IF k \in {owner} \X nonces /\ Reclaimable(cancelled[k])
            THEN NoTombstone ELSE cancelled[k]]
    /\ UNCHANGED <<now, paused, book, pos, executed, revoked>>

IsCancelled(o) == cancelled[KeyOf(o)] # NoTombstone

ValidOrder(o, size, price) ==
    /\ now <= o.expiry_ts
    /\ o.expiry_ts <= now + MaxOrderTtl
    /\ ~IsCancelled(o)
    /\ filled[KeyOf(o)].amount + size <= o.size
    /\ IF o.is_long THEN price <= o.limit_price ELSE price >= o.limit_price

ValidFill(maker, taker, size, price) ==
    /\ maker.owner # taker.owner
    /\ maker.market_id = taker.market_id
    /\ maker.is_long # taker.is_long
    /\ ValidOrder(maker, size, price)
    /\ ValidOrder(taker, size, price)

Held(o) == pos[<<o.owner, o.market_id>>]
Signed(o, size) == IF o.is_long THEN size ELSE -size

\* settle_user_side: a fill against an opposite position reduces it and opens
\* the residual, any other fill increases or opens; reduce_only forbids both a
\* residual and a fill with nothing to reduce.
SideAccepted(o, size) ==
    o.reduce_only => IF o.is_long THEN Held(o) <= -size ELSE Held(o) >= size

AddFilled(f, o, size) ==
    [f EXCEPT ![KeyOf(o)] = [amount |-> f[KeyOf(o)].amount + size,
                             expiry_ts |-> o.expiry_ts]]

\* The maker's side, then the taker's, then both filled amounts.
ExecuteFill(maker, taker, size) ==
    /\ SideAccepted(maker, size)
    /\ SideAccepted(taker, size)
    /\ pos' = [pos EXCEPT
            ![<<maker.owner, maker.market_id>>] = @ + Signed(maker, size),
            ![<<taker.owner, taker.market_id>>] = @ + Signed(taker, size)]
    /\ filled' = AddFilled(AddFilled(filled, maker, size), taker, size)
    /\ executed' = [executed EXCEPT ![maker] = @ + size, ![taker] = @ + size]

\* settle_fill_signed, and settle_fill, which differs only in how the two
\* owners prove their consent.
SettleFill(maker, taker, size, price) ==
    /\ ~paused
    /\ ValidFill(maker, taker, size, price)
    /\ ExecuteFill(maker, taker, size)
    /\ UNCHANGED <<now, paused, book, cancelled, revoked>>

EmergencyPause ==
    /\ paused' = TRUE
    /\ UNCHANGED <<now, book, filled, cancelled, pos, executed, revoked>>

Unpause ==
    /\ paused' = FALSE
    /\ UNCHANGED <<now, book, filled, cancelled, pos, executed, revoked>>

Tick ==
    /\ now < MaxTime
    /\ now' = now + 1
    /\ UNCHANGED <<paused, book, filled, cancelled, pos, executed, revoked>>

ContractStep ==
    \/ \E k \in Keys, h \in Hints : CancelOrder(k[1], k[2], h)
    \/ \E w \in Owners, ns \in SUBSET Nonces : ReclaimOrderState(w, ns)
    \/ \E m \in book, t \in book, s \in Sizes, p \in Prices : SettleFill(m, t, s, p)
    \/ EmergencyPause
    \/ Unpause
    \/ Tick

\* Orders reach the operator through the intake only.
Next ==
    \/ \E o \in Orders : PlaceOrder(o)
    \/ ContractStep

Spec == Init /\ [][Next]_vars

\* What the contract alone guarantees: any signature may reach the operator.
DirectNext ==
    \/ \E o \in Orders : HandOverSigned(o)
    \/ ContractStep

DirectSpec == Init /\ [][DirectNext]_vars

-----------------------------------------------------------------------------
TypeOK ==
    /\ now \in 0..MaxTime
    /\ paused \in BOOLEAN
    /\ book \subseteq Orders
    /\ filled \in [Keys -> [amount: Nat, expiry_ts: Nat]]
    /\ cancelled \in [Keys -> Nat]
    /\ pos \in [Owners \X Markets -> Int]
    /\ executed \in [Orders -> Nat]
    /\ revoked \subseteq book

\* However fills, cancellations and permissionless pruning of the Filled
\* entries interleave, an order is never filled for more than its owner signed
\* (validate_order's OrderOverfilled check and reclaim_order_state).
NeverOverfilled == \A o \in Orders : executed[o] <= o.size

\* An order its owner has cancelled on chain is never filled again, whatever
\* expiry hint the cancel carried and whoever prunes the tombstone when
\* (cancel_order's clamp against reclaim_order_state).
CancelIsFinal == [][\A o \in revoked : executed'[o] = executed[o]]_vars

(***************************************************************************)
(* The inductive invariant.  The Filled entry of a placed order either is  *)
(* the truth about it or was pruned, and it is pruned only after the order *)
(* expired; a cancelled order's tombstone reaches its expiry or the order  *)
(* expired.                                                                *)
(***************************************************************************)
OneOrderPerKey == \A a, b \in book : KeyOf(a) = KeyOf(b) => a = b

UnplacedUnfilled == \A o \in Orders \ book : executed[o] = 0

EntryCarriesExpiry ==
    \A o \in book : filled[KeyOf(o)].amount # 0 =>
        filled[KeyOf(o)].expiry_ts = o.expiry_ts

EntryOnlyForPlaced ==
    \A k \in Keys : filled[k].amount # 0 => \E o \in book : KeyOf(o) = k

FilledIsExecutedOrExpired ==
    \A o \in book : \/ filled[KeyOf(o)].amount = executed[o]
                    \/ now > o.expiry_ts

TombstoneOutlivesOrder ==
    \A o \in revoked : cancelled[KeyOf(o)] >= o.expiry_ts \/ now > o.expiry_ts

ExpiryInWindow ==
    \A o \in book : 0 < o.expiry_ts /\ o.expiry_ts <= now + MaxOrderTtl

IInv ==
    /\ TypeOK
    /\ NeverOverfilled
    /\ OneOrderPerKey
    /\ UnplacedUnfilled
    /\ EntryCarriesExpiry
    /\ EntryOnlyForPlaced
    /\ FilledIsExecutedOrExpired
    /\ TombstoneOutlivesOrder
    /\ ExpiryInWindow
=============================================================================
