------------------------ MODULE ClearingHouseProofs -------------------------
(***************************************************************************)
(* For every set of traders, prices, sizes and rates: the engine's         *)
(* counters, its positions and the vault's mirror agree, the vault's money *)
(* is conserved, exits stay open, and only price, funding and ADL can      *)
(* break an account's initial margin.                                      *)
(*                                                                         *)
(* An invocation is composed of calls, each an operator from a ledger to   *)
(* the ledgers it can return.  The proofs follow that shape: every call    *)
(* has a lemma that says what it does to one account's position, balance   *)
(* and worth (Trade), a fill composes them, and the sums over accounts are *)
(* taken once, at the end of the invocation.                               *)
(***************************************************************************)
EXTENDS ClearingHouse, SetTheorems, TLAPS

-----------------------------------------------------------------------------
(* Quantities of an account that has at most one position.                 *)

Slots == {<<>>} \cup {<<p>> : p \in Position}

Ledger == [balance: [Accounts -> Int], positions: [Users -> Slots], synced: [Users -> Slots],
           index: Index, synced_index: Index,
           open_interest: Int, side_interest: [BOOLEAN -> Int], rounding: Int]

Size(s) == IF s = <<>> THEN 0 ELSE s[1].size
Interest(s, side) == IF s = <<>> THEN 0 ELSE IF s[1].is_long = side THEN s[1].size ELSE 0
Owed(s, index) == IF s = <<>> THEN 0 ELSE FundingPnl(s[1], index)
PositionCost(p) == Sign(p) * p.size * p.entry_price
Cost(s) == IF s = <<>> THEN 0 ELSE PositionCost(s[1])

\* What an account holds and is owed, less what its position cost.
Worth(l, u) == l.balance[u] + Owed(l.positions[u], l.index) - Cost(l.positions[u])

\* A sequence of at most one position is a slot.
LEMMA SlotsAreShort ==
  /\ Slots \subseteq Seq(Position)
  /\ \A s \in Seq(Position) : Len(s) <= 1 <=> s \in Slots
  <1>1. ASSUME NEW s \in Slots PROVE s \in Seq(Position) /\ Len(s) <= 1
    <2>1. \A p \in Position : <<p>> \in Seq(Position) /\ Len(<<p>>) = 1
      OBVIOUS
    <2>2. <<>> \in Seq(Position) /\ Len(<<>>) = 0
      OBVIOUS
    <2>3. s = <<>> \/ \E p \in Position : s = <<p>>
      BY DEF Slots
    <2>4. CASE s = <<>>
      BY <2>2, <2>4
    <2>5. CASE \E p \in Position : s = <<p>>
      <3>1. PICK p \in Position : s = <<p>>
        BY <2>5
      <3>2. Len(s) = 1
        BY <2>1, <3>1
      <3>3. QED
        BY <2>1, <3>1, <3>2
    <2>6. QED
      BY <2>3, <2>4, <2>5
  <1>2. ASSUME NEW s \in Seq(Position), Len(s) <= 1 PROVE s \in Slots
    <2>1. CASE Len(s) = 0
      BY <2>1 DEF Slots
    <2>2. CASE Len(s) = 1
      <3>1. s[1] \in Position /\ s = <<s[1]>>
        BY <2>2
      <3>2. QED
        BY <3>1 DEF Slots
    <2>3. QED
      BY <1>2, <2>1, <2>2
  <1>3. QED
    BY <1>1, <1>2

\* A slot holds a position or nothing.
LEMMA SlotCases ==
  ASSUME NEW s \in Slots
  PROVE  \/ s = <<>> /\ Len(s) = 0 /\ DOMAIN s = {}
         \/ \E p \in Position : s = <<p>> /\ s[1] = p /\ s # <<>> /\ Len(s) = 1 /\ DOMAIN s = {1}
  BY DEF Slots

\* A position is long or short: its sign is 1 or -1.
LEMMA SignValues == \A p : Sign(p) \in {1, -1}
  BY DEF Sign

\* A sum over the positions of a slot is a sum of one summand or of none.
LEMMA SumOverSlot ==
  ASSUME NEW s \in Slots, NEW f, DOMAIN f = DOMAIN s, \A i \in DOMAIN s : f[i] \in Int
  PROVE  SumFunction(f) = IF s = <<>> THEN 0 ELSE f[1]
  <1>1. CASE s = <<>>
    <2>1. DOMAIN f = {}
      BY <1>1, SlotCases
    <2>2. QED
      BY <1>1, <2>1, SumEmpty DEF SumFunction
  <1>2. CASE s # <<>>
    <2>1. DOMAIN f = {1} /\ f[1] \in Int
      BY <1>2, SlotCases
    <2>2. SumFunctionOnSet(f, {1}) = f[1] + SumFunctionOnSet(f, {1} \ {1})
      <3>1. IsFiniteSet({1})
        BY FS_Singleton
      <3>2. QED
        BY <2>1, <3>1, SumSplit
    <2>3. SumFunctionOnSet(f, {1} \ {1}) = 0
      <3>1. {1} \ {1} = {}
        OBVIOUS
      <3>2. QED
        BY <3>1, SumEmpty
    <2>4. SumFunctionOnSet(f, {1}) = f[1]
      BY <2>1, <2>2, <2>3
    <2>5. QED
      BY <1>2, <2>1, <2>4 DEF SumFunction
  <1>3. QED
    BY <1>1, <1>2

\* The amounts the contracts read off a stored position are whole numbers, and a
\* position has a positive size and entry price.
LEMMA PositionQuantities ==
  ASSUME NEW p \in Position, NEW index \in Index
  PROVE  /\ FundingPnl(p, index) \in Int
         /\ PositionCost(p) \in Int
         /\ p.size \in Nat /\ p.size > 0 /\ p.entry_price \in Nat /\ p.entry_price > 0
         /\ p.is_long \in BOOLEAN
  <1>1. p.size \in Nat \ {0} /\ p.entry_price \in Nat \ {0} /\ p.is_long \in BOOLEAN
        /\ p.last_funding_index \in Int /\ index[p.is_long] \in Int
    BY DEF Position, Index
  <1>2. FundingPnl(p, index) \in Int
    BY <1>1 DEF FundingPnl
  <1>3. PositionCost(p) \in Int
    BY <1>1, SignValues DEF PositionCost
  <1>4. QED
    BY <1>1, <1>2, <1>3

\* What the books count of an account, whether it has a position or not.
LEMMA SlotTypes ==
  ASSUME NEW s \in Slots, NEW index \in Index
  PROVE  /\ Size(s) \in Nat /\ Owed(s, index) \in Int /\ Cost(s) \in Int
         /\ \A side \in BOOLEAN : Interest(s, side) \in Nat
  BY SlotCases, PositionQuantities DEF Size, Owed, Cost, Interest

\* The model's sums over the positions of a slot.
LEMMA SlotQuantities ==
  ASSUME NEW s \in Slots, NEW index \in Index
  PROVE  /\ OverPositions(s, LAMBDA p : p.size) = Size(s)
         /\ \A side \in BOOLEAN :
               OverPositions(s, LAMBDA p : IF p.is_long = side THEN p.size ELSE 0) = Interest(s, side)
         /\ OverPositions(s, LAMBDA p : FundingPnl(p, index)) = Owed(s, index)
         /\ OverPositions(s, LAMBDA p : Sign(p) * p.size * p.entry_price) = Cost(s)
  <1>0. \A i \in DOMAIN s : s[i] \in Position
    BY SlotCases
  <1>1. OverPositions(s, LAMBDA p : p.size) = Size(s)
    <2> DEFINE f == [i \in DOMAIN s |-> s[i].size]
    <2>1. \A i \in DOMAIN s : f[i] \in Int
      BY <1>0, PositionQuantities
    <2>2. SumFunction(f) = IF s = <<>> THEN 0 ELSE f[1]
      BY <2>1, SumOverSlot
    <2>3. QED
      BY <2>2, SlotCases DEF OverPositions, Size
  <1>2. ASSUME NEW side \in BOOLEAN
        PROVE  OverPositions(s, LAMBDA p : IF p.is_long = side THEN p.size ELSE 0) = Interest(s, side)
    <2> DEFINE f == [i \in DOMAIN s |-> IF s[i].is_long = side THEN s[i].size ELSE 0]
    <2>1. \A i \in DOMAIN s : f[i] \in Int
      BY <1>0, PositionQuantities
    <2>2. SumFunction(f) = IF s = <<>> THEN 0 ELSE f[1]
      BY <2>1, SumOverSlot
    <2>3. QED
      BY <2>2, SlotCases DEF OverPositions, Interest
  <1>3. OverPositions(s, LAMBDA p : FundingPnl(p, index)) = Owed(s, index)
    <2> DEFINE f == [i \in DOMAIN s |-> FundingPnl(s[i], index)]
    <2>1. \A i \in DOMAIN s : f[i] \in Int
      BY <1>0, PositionQuantities
    <2>2. SumFunction(f) = IF s = <<>> THEN 0 ELSE f[1]
      BY <2>1, SumOverSlot
    <2>3. QED
      BY <2>2, SlotCases DEF OverPositions, Owed
  <1>4. OverPositions(s, LAMBDA p : Sign(p) * p.size * p.entry_price) = Cost(s)
    <2> DEFINE f == [i \in DOMAIN s |-> Sign(s[i]) * s[i].size * s[i].entry_price]
    <2>1. \A i \in DOMAIN s : f[i] \in Int
      BY <1>0, PositionQuantities DEF PositionCost
    <2>2. SumFunction(f) = IF s = <<>> THEN 0 ELSE f[1]
      BY <2>1, SumOverSlot
    <2>3. QED
      BY <2>2, SlotCases DEF OverPositions, Cost, PositionCost
  <1>5. QED
    BY <1>1, <1>2, <1>3, <1>4

-----------------------------------------------------------------------------
(* The calls an invocation is made of.                                     *)

\* Between l and m only account u's own entries and the counters may differ.
OthersUntouched(l, m, u) ==
    /\ m.index = l.index /\ m.synced_index = l.synced_index
    /\ \A a \in Accounts \ {u} : m.balance[a] = l.balance[a]
    /\ \A v \in Users \ {u} : m.positions[v] = l.positions[v] /\ m.synced[v] = l.synced[v]

SameCounters(l, m) ==
    m.open_interest = l.open_interest /\ m.side_interest = l.side_interest /\ m.rounding = l.rounding

\* vault.apply_pnl moves one balance and nothing else.
LEMMA CreditEffect ==
  ASSUME NEW l \in Ledger, NEW a \in Accounts, NEW amount \in Int,
         NEW m, m = Credit(l, a, amount)
  PROVE  /\ m \in Ledger
         /\ m.balance[a] = l.balance[a] + amount
         /\ \A b \in Accounts \ {a} : m.balance[b] = l.balance[b]
         /\ m.positions = l.positions /\ m.synced = l.synced
         /\ m.index = l.index /\ m.synced_index = l.synced_index
         /\ SameCounters(l, m)
  BY DEF Ledger, Credit, SameCounters

\* vault.sync_positions copies one account's positions into the mirror.
LEMMA SyncEffect ==
  ASSUME NEW l \in Ledger, NEW u \in Users, NEW m, m = SyncPositions(l, u)
  PROVE  /\ m \in Ledger
         /\ m.synced[u] = l.positions[u]
         /\ \A v \in Users \ {u} : m.synced[v] = l.synced[v]
         /\ m.balance = l.balance /\ m.positions = l.positions
         /\ m.index = l.index /\ m.synced_index = l.synced_index
         /\ SameCounters(l, m)
  BY DEF Ledger, SyncPositions, SameCounters

\* The part of an amount on one side that another side sees.
OnThis(side, s, amount) == IF s = side THEN amount ELSE 0

\* A change of open interest moves the total and one side together.
LEMMA InterestEffect ==
  ASSUME NEW l \in Ledger, NEW side \in BOOLEAN, NEW delta \in Int,
         NEW m, m = AddInterest(l, side, delta)
  PROVE  /\ m \in Ledger
         /\ m.open_interest = l.open_interest + delta
         /\ \A s \in BOOLEAN :
               m.side_interest[s] = l.side_interest[s] + OnThis(side, s, delta)
         /\ m.balance = l.balance /\ m.positions = l.positions /\ m.synced = l.synced
         /\ m.index = l.index /\ m.synced_index = l.synced_index /\ m.rounding = l.rounding
  <1>1. /\ m.open_interest = l.open_interest + delta
        /\ m.side_interest = [l.side_interest EXCEPT ![side] = @ + delta]
        /\ m.balance = l.balance /\ m.positions = l.positions /\ m.synced = l.synced
        /\ m.index = l.index /\ m.synced_index = l.synced_index /\ m.rounding = l.rounding
    BY DEF Ledger, AddInterest
  <1>2. l.side_interest \in [BOOLEAN -> Int] /\ l.open_interest \in Int
    BY DEF Ledger
  <1>3. /\ m.side_interest \in [BOOLEAN -> Int]
        /\ \A s \in BOOLEAN :
               m.side_interest[s] = l.side_interest[s] + OnThis(side, s, delta)
    BY <1>1, <1>2 DEF OnThis
  <1>4. m \in Ledger
    <2>1. m = [l EXCEPT !.open_interest = m.open_interest, !.side_interest = m.side_interest]
      BY DEF Ledger, AddInterest
    <2>2. m.open_interest \in Int
      BY <1>1, <1>2
    <2>3. QED
      BY <2>1, <2>2, <1>3 DEF Ledger
  <1>5. QED
    BY <1>1, <1>3, <1>4

\* A position whose funding was just settled: the same, owed nothing.
Refreshed(p, index) == [p EXCEPT !.last_funding_index = index[p.is_long]]

\* A position whose funding index is brought up to date owes no funding, and is
\* otherwise the position it was.
LEMMA RefreshedPosition ==
  ASSUME NEW p \in Position, NEW index \in Index, NEW q, q = Refreshed(p, index)
  PROVE  /\ q \in Position /\ FundingPnl(q, index) = 0
         /\ q.size = p.size /\ q.is_long = p.is_long /\ q.entry_price = p.entry_price
         /\ PositionCost(q) = PositionCost(p)
  <1>1. q \in Position /\ q.last_funding_index = index[q.is_long]
        /\ q.size = p.size /\ q.is_long = p.is_long /\ q.entry_price = p.entry_price
    BY DEF Refreshed, Position, Index
  <1>2. FundingPnl(q, index) = 0
    <2>1. index[q.is_long] - q.last_funding_index = 0
      BY <1>1 DEF Position, Index
    <2>2. q.size * 0 = 0
      BY <1>1 DEF Position
    <2>3. QED
      BY <2>1, <2>2 DEF FundingPnl
  <1>3. QED
    BY <1>1, <1>2 DEF PositionCost, Sign

\* settle_funding pays one position's funding into its owner's balance and brings
\* the position up to date; a paused vault refuses it unless there is none to pay.
LEMMA SettleFundingEffect ==
  ASSUME NEW l \in Ledger, NEW u \in Users, NEW p \in Position, l.positions[u] = <<p>>,
         NEW m \in SettleFunding(l, u, 1)
  PROVE  /\ m \in Ledger /\ OthersUntouched(l, m, u) /\ SameCounters(l, m)
         /\ m.balance[u] = l.balance[u] + FundingPnl(p, l.index)
         /\ m.positions[u] = <<Refreshed(p, l.index)>>
         /\ m.synced = l.synced
         /\ paused => m.balance = l.balance
  <1>0. u \in Accounts /\ l.index \in Index /\ l.positions[u][1] = p
    BY DEF Accounts, Ledger
  <1> DEFINE pnl == FundingPnl(p, l.index)
             paid == IF pnl = 0 THEN {l} ELSE ApplyPnl(l, u, pnl)
  <1>1. pnl \in Int
    BY <1>0, PositionQuantities
  <1>2. PICK n \in paid :
          m = [n EXCEPT !.positions[u][1].last_funding_index = l.index[p.is_long]]
    BY <1>0 DEF SettleFunding
  <1> HIDE DEF pnl
  <1>3. /\ n \in Ledger /\ n.balance[u] = l.balance[u] + pnl
        /\ \A b \in Accounts \ {u} : n.balance[b] = l.balance[b]
        /\ n.positions = l.positions /\ n.synced = l.synced
        /\ n.index = l.index /\ n.synced_index = l.synced_index /\ SameCounters(l, n)
        /\ paused => n.balance = l.balance
    <2>1. CASE n = l /\ pnl = 0
      BY <2>1, <1>0 DEF SameCounters, Ledger
    <2>2. CASE n = Credit(l, u, pnl) /\ ~paused
      BY <2>2, <1>0, <1>1, CreditEffect
    <2>3. QED
      BY <1>2, <2>1, <2>2 DEF ApplyPnl, Succeed
  <1> HIDE DEF paid
  <1>4. n.positions[u] = <<p>> /\ Refreshed(p, l.index) \in Position
    BY <1>0, <1>3, RefreshedPosition
  <1>5. /\ m.balance = n.balance /\ m.synced = n.synced /\ m.index = n.index
        /\ m.synced_index = n.synced_index /\ SameCounters(n, m)
        /\ \A v \in Users \ {u} : m.positions[v] = n.positions[v]
    BY <1>2, <1>3 DEF Ledger, SameCounters
  <1>6. m.positions[u] = <<Refreshed(p, l.index)>>
    <2>1. m.positions[u] = [n.positions[u] EXCEPT ![1].last_funding_index = l.index[p.is_long]]
      BY <1>2, <1>3 DEF Ledger
    <2>2. QED
      BY <2>1, <1>4 DEF Refreshed
  <1>7. m \in Ledger
    <2>1. <<Refreshed(p, l.index)>> \in Slots
      BY <1>4 DEF Slots
    <2>2. m.positions \in [Users -> Slots]
      <3>1. m.positions = [n.positions EXCEPT ![u] = m.positions[u]]
        BY <1>2, <1>3 DEF Ledger
      <3>2. QED
        BY <3>1, <2>1, <1>3, <1>6 DEF Ledger
    <2>3. m = [n EXCEPT !.positions = m.positions]
      BY <1>2, <1>3 DEF Ledger
    <2>4. QED
      BY <2>2, <2>3, <1>3 DEF Ledger
  <1>8. QED
    BY <1>3, <1>5, <1>6, <1>7 DEF OthersUntouched, SameCounters, pnl

-----------------------------------------------------------------------------
(* A trade of one account.                                                 *)

Way(is_long) == IF is_long THEN 1 ELSE -1
NetLong(s) == Interest(s, TRUE) - Interest(s, FALSE)

\* m is l after account u bought a quantity (sold, when negative) for cash: the
\* counters follow the position, and the account's worth falls by the cash.
Trade(l, m, u, quantity, cash) ==
    /\ m \in Ledger
    /\ OthersUntouched(l, m, u)
    /\ m.synced[u] = m.positions[u]
    /\ m.open_interest = l.open_interest + Size(m.positions[u]) - Size(l.positions[u])
    /\ \A side \in BOOLEAN :
          m.side_interest[side] =
              l.side_interest[side] + Interest(m.positions[u], side) - Interest(l.positions[u], side)
    /\ NetLong(m.positions[u]) = NetLong(l.positions[u]) + quantity
    /\ Worth(m, u) - m.rounding = Worth(l, u) - l.rounding - cash

\* Storing one account's positions changes nothing else in the ledger.
LEMMA PlaceEffect ==
  ASSUME NEW l \in Ledger, NEW u \in Users, NEW s \in Slots,
         NEW m, m = [l EXCEPT !.positions[u] = s]
  PROVE  /\ m \in Ledger /\ m.positions[u] = s
         /\ \A v \in Users \ {u} : m.positions[v] = l.positions[v]
         /\ m.balance = l.balance /\ m.synced = l.synced
         /\ m.index = l.index /\ m.synced_index = l.synced_index
         /\ SameCounters(l, m)
  BY DEF Ledger, SameCounters

\* Removing the only position leaves none.
LEMMA WithoutOnlyPosition ==
  ASSUME NEW p \in Position
  PROVE  WithoutIndex(<<p>>, 1) = <<>>
  <1>1. Len(<<p>>) = 1 /\ <<p>> \in Seq(Position)
    OBVIOUS
  <1>2. SubSeq(<<p>>, 1, 0) = <<>> /\ SubSeq(<<p>>, 2, 1) = <<>>
    BY <1>1
  <1>3. WithoutIndex(<<p>>, 1) = <<>> \o <<>>
    BY <1>1, <1>2 DEF WithoutIndex
  <1>4. QED
    BY <1>3

\* What a position adds to the quantities of its account.
LEMMA OnePosition ==
  ASSUME NEW p \in Position, NEW index \in Index, NEW s, s = <<p>>
  PROVE  /\ s \in Slots /\ s # <<>> /\ s[1] = p
         /\ Size(s) = p.size /\ Owed(s, index) = FundingPnl(p, index)
         /\ Cost(s) = Sign(p) * p.size * p.entry_price
         /\ \A side \in BOOLEAN : Interest(s, side) = OnThis(p.is_long, side, p.size)
         /\ NetLong(s) = Sign(p) * p.size
  <1>1. s \in Slots /\ s # <<>> /\ s[1] = p
    BY DEF Slots
  <1>2. p.is_long \in BOOLEAN /\ p.size \in Nat
    BY PositionQuantities
  <1>3. \A side \in BOOLEAN : Interest(s, side) = OnThis(p.is_long, side, p.size)
    BY <1>1 DEF Interest, OnThis
  <1>4. NetLong(s) = Sign(p) * p.size
    <2>1. CASE p.is_long
      <3>1. Interest(s, TRUE) = p.size /\ Interest(s, FALSE) = 0 /\ Sign(p) = 1
        BY <1>1, <1>2, <2>1 DEF Interest, Sign
      <3>2. NetLong(s) = p.size - 0
        BY <3>1, Zenon DEF NetLong
      <3>3. QED
        BY <3>1, <3>2, <1>2
    <2>2. CASE ~p.is_long
      <3>1. Interest(s, TRUE) = 0 /\ Interest(s, FALSE) = p.size /\ Sign(p) = -1
        BY <1>1, <1>2, <2>2 DEF Interest, Sign
      <3>2. NetLong(s) = 0 - p.size
        BY <3>1, Zenon DEF NetLong
      <3>3. QED
        BY <3>1, <3>2, <1>2
    <2>3. QED
      BY <2>1, <2>2
  <1>5. QED
    BY <1>1, <1>3, <1>4 DEF Size, Owed, Cost, PositionCost

\* An account without a position adds nothing to any of the sums.
LEMMA NoPosition ==
  \A index : /\ Size(<<>>) = 0 /\ Owed(<<>>, index) = 0 /\ Cost(<<>>) = 0 /\ NetLong(<<>>) = 0
             /\ \A side : Interest(<<>>, side) = 0
  BY DEF Size, Owed, Cost, Interest, NetLong

\* What closing part of a position leaves in its account.
Remaining(p, size) == IF p.size = size THEN <<>> ELSE <<[p EXCEPT !.size = @ - size]>>

\* Account u's positions in l are s, and what its position cost falls by an
\* amount from l to m.
Holds(l, u, s) == l.positions[u] = s
CostFalls(l, m, u, amount) == Cost(m.positions[u]) = Cost(l.positions[u]) - amount
NotRounded(l, m) == m.rounding = l.rounding

\* What is left of a position whose funding is settled when part of it is closed:
\* size, interest and cost fall by the part, at the entry price.
LEMMA RemainingEffect ==
  ASSUME NEW p \in Position, NEW size \in Nat \ {0}, size <= p.size, NEW index \in Index,
         FundingPnl(p, index) = 0, NEW s, s = Remaining(p, size)
  PROVE  /\ s \in Slots /\ Owed(s, index) = 0
         /\ Size(s) = p.size - size
         /\ Cost(s) = Sign(p) * p.size * p.entry_price - Sign(p) * size * p.entry_price
         /\ \A side \in BOOLEAN :
               Interest(s, side) = OnThis(p.is_long, side, p.size) + OnThis(p.is_long, side, -size)
         /\ NetLong(s) = Sign(p) * p.size - Sign(p) * size
  <1>i. \A side : OnThis(p.is_long, side, p.size) + OnThis(p.is_long, side, -size)
                    = OnThis(p.is_long, side, p.size - size)
    BY PositionQuantities DEF OnThis
  <1>0. /\ p.size \in Nat /\ p.entry_price \in Nat /\ p.is_long \in BOOLEAN
        /\ p.entry_price > 0 /\ p.last_funding_index \in Int /\ index[p.is_long] \in Int
    BY PositionQuantities DEF Position, Index
  <1>s. Sign(p) \in {1, -1}
    BY SignValues
  <1>1. CASE p.size = size
    <2>1. s = <<>>
      BY <1>1 DEF Remaining
    <2>2. /\ s \in Slots /\ Owed(s, index) = 0 /\ Size(s) = 0 /\ Cost(s) = 0 /\ NetLong(s) = 0
          /\ \A side \in BOOLEAN : Interest(s, side) = 0
      BY <2>1, NoPosition DEF Slots
    <2>3. \A side : OnThis(p.is_long, side, p.size - size) = 0
      BY <1>0, <1>1 DEF OnThis
    <2>4. /\ Sign(p) * p.size * p.entry_price - Sign(p) * size * p.entry_price = 0
          /\ Sign(p) * p.size - Sign(p) * size = 0 /\ p.size - size = 0
      BY <1>0, <1>1, <1>s
    <2>5. QED
      BY <1>i, <2>2, <2>3, <2>4
  <1>2. CASE p.size # size
    <2> DEFINE q == [p EXCEPT !.size = @ - size]
    <2>1. s = <<q>>
      BY <1>2 DEF Remaining
    <2>2. /\ q \in Position /\ q.size = p.size - size /\ q.is_long = p.is_long
          /\ q.entry_price = p.entry_price /\ q.last_funding_index = p.last_funding_index
      BY <1>0, <1>2 DEF Position
    <2> HIDE DEF q
    <2>3. Sign(q) = Sign(p)
      BY <2>2 DEF Sign
    <2>4. FundingPnl(q, index) = 0
      <3> DEFINE d == index[p.is_long] - p.last_funding_index
      <3>1. d \in Int /\ -(p.size * d) = 0
        BY <1>0 DEF FundingPnl
      <3> HIDE DEF d
      <3>2. d = 0
        BY <1>0, <3>1
      <3>3. -((p.size - size) * d) = 0
        BY <1>0, <3>2
      <3>4. QED
        BY <2>2, <3>3 DEF FundingPnl, d
    <2>5. Cost(s) = Sign(p) * (p.size - size) * p.entry_price
      BY <2>1, <2>2, <2>3, OnePosition
    <2>6. (\A x \in {1, -1} : x * (p.size - size) * p.entry_price
                                = x * p.size * p.entry_price - x * size * p.entry_price)
      BY <1>0
    <2>7. /\ s \in Slots /\ Owed(s, index) = 0 /\ Size(s) = p.size - size
          /\ \A side \in BOOLEAN : Interest(s, side) = OnThis(p.is_long, side, p.size - size)
          /\ NetLong(s) = Sign(p) * (p.size - size)
      BY <2>1, <2>2, <2>3, <2>4, OnePosition
    <2>8. Sign(p) * (p.size - size) = Sign(p) * p.size - Sign(p) * size
      BY <1>0, <1>s
    <2>9. QED
      BY <1>s, <1>i, <2>5, <2>6, <2>7, <2>8
  <1>3. QED
    BY <1>1, <1>2

\* Reducing or closing a position trades against it (reduce_position_internal):
\* funding first, then the counters, the pnl and the mirror.
LEMMA ReduceEffect ==
  ASSUME NEW l \in Ledger, NEW u \in Users, NEW p \in Position, l.positions[u] = <<p>>,
         NEW size \in Nat \ {0}, NEW at \in Nat, NEW strict \in BOOLEAN,
         NEW m \in ReducePosition(l, u, 1, size, at, strict)
  PROVE  /\ Trade(l, m, u, -(Sign(p) * size), -(Sign(p) * size * at))
         /\ size <= p.size /\ InBand(at) /\ ~paused
         /\ Holds(m, u, Remaining(Refreshed(p, l.index), size))
         /\ strict = TRUE => AboveInitialMargin(m, u)
         /\ NotRounded(l, m)
         /\ CostFalls(l, m, u, Sign(p) * size * p.entry_price)
  <1> DEFINE index == l.index
             q == Refreshed(p, index)
             pnl == Sign(p) * size * (at - p.entry_price)
             placed(n) == [n EXCEPT !.positions[u] = Remaining(q, size)]
             reduced(n) == AddInterest(placed(n), q.is_long, -size)
             credited(n) == Credit(reduced(n), u, pnl)
  <1>0. u \in Accounts /\ index \in Index /\ l.positions[u][1] = p
    BY DEF Accounts, Ledger
  <1>p. /\ p.size \in Nat /\ p.entry_price \in Nat /\ p.is_long \in BOOLEAN
        /\ Sign(p) \in {1, -1}
    BY <1>0, PositionQuantities, SignValues
  <1>q. /\ q \in Position /\ FundingPnl(q, index) = 0
        /\ q.size = p.size /\ q.is_long = p.is_long /\ q.entry_price = p.entry_price
        /\ Sign(q) = Sign(p)
    BY <1>0, RefreshedPosition DEF Sign
  <1>z. pnl \in Int
    BY <1>p
  <1>1. size <= p.size /\ InBand(at)
    BY <1>0 DEF ReducePosition
  <1>2. PICK n \in SettleFunding(l, u, 1) :
          /\ ~paused
          /\ m = SyncPositions(credited(n), u)
          /\ strict = TRUE => AboveInitialMargin(m, u)
    <2>1. \A n \in SettleFunding(l, u, 1) : n.positions[u] = <<q>> /\ n.positions[u][1] = q
      BY SettleFundingEffect
    <2>2. \A n \in SettleFunding(l, u, 1) :
            [n EXCEPT !.positions[u] = IF q.size = size THEN WithoutIndex(n.positions[u], 1)
                                       ELSE [n.positions[u] EXCEPT ![1].size = @ - size]]
              = placed(n)
      <3>1. WithoutIndex(<<q>>, 1) = <<>>
        BY <1>q, WithoutOnlyPosition
      <3>2. [<<q>> EXCEPT ![1].size = @ - size] = <<[q EXCEPT !.size = @ - size]>>
        BY <1>q
      <3>3. QED
        BY <2>1, <3>1, <3>2 DEF Remaining
    <2> DEFINE left(n) ==
                 [n EXCEPT !.positions[u] = IF n.positions[u][1].size = size
                                            THEN WithoutIndex(n.positions[u], 1)
                                            ELSE [n.positions[u] EXCEPT ![1].size = @ - size]]
    <2>3. PICK n \in SettleFunding(l, u, 1) :
            \E x \in ApplyPnl(AddInterest(left(n), n.positions[u][1].is_long, -size), u,
                              Sign(l.positions[u][1]) * size * (at - l.positions[u][1].entry_price)) :
               m \in IF strict THEN SyncAndRequireMargin(x, u) ELSE Succeed(SyncPositions(x, u), Priced(SyncPositions(x, u), u))
      <3>1. \E n \in SettleFunding(l, u, 1) :
               m \in AndThen(ApplyPnl(AddInterest(left(n), n.positions[u][1].is_long, -size), u,
                                 Sign(l.positions[u][1]) * size * (at - l.positions[u][1].entry_price)),
                             LAMBDA x : IF strict THEN SyncAndRequireMargin(x, u) ELSE Succeed(SyncPositions(x, u), Priced(SyncPositions(x, u), u)))
        BY DEF ReducePosition, AndThen
      <3>2. QED
        BY <3>1 DEF AndThen
    <2>4. left(n) = placed(n) /\ n.positions[u][1] = q
      BY <2>1, <2>2
    <2> HIDE DEF q, left, placed
    <2>5. \E x \in ApplyPnl(reduced(n), u, pnl) :
             m \in IF strict THEN SyncAndRequireMargin(x, u) ELSE Succeed(SyncPositions(x, u), Priced(SyncPositions(x, u), u))
      BY <2>3, <2>4, <1>0
    <2> HIDE DEF reduced, pnl
    <2>6. ~paused /\ m \in IF strict THEN SyncAndRequireMargin(credited(n), u)
                           ELSE Succeed(SyncPositions(credited(n), u), Priced(SyncPositions(credited(n), u), u))
      BY <2>5 DEF ApplyPnl, Succeed
    <2>7. QED
      BY <2>6 DEF SyncAndRequireMargin, Succeed
  <1>3. /\ n \in Ledger /\ OthersUntouched(l, n, u) /\ SameCounters(l, n)
        /\ n.balance[u] = l.balance[u] + FundingPnl(p, index)
        /\ n.positions[u] = <<q>> /\ n.synced = l.synced
    BY SettleFundingEffect
  <1> DEFINE s == Remaining(q, size)
  <1>4. /\ s \in Slots /\ Owed(s, index) = 0
        /\ Size(s) = p.size - size
        /\ Cost(s) = Sign(p) * p.size * p.entry_price - Sign(p) * size * p.entry_price
        /\ \A side \in BOOLEAN :
               Interest(s, side) = OnThis(p.is_long, side, p.size) + OnThis(p.is_long, side, -size)
        /\ NetLong(s) = Sign(p) * p.size - Sign(p) * size
    BY <1>0, <1>1, <1>q, RemainingEffect
  <1> HIDE DEF index, q, pnl, s
  <1>5. /\ placed(n) \in Ledger /\ placed(n).positions[u] = s
        /\ \A v \in Users \ {u} : placed(n).positions[v] = n.positions[v]
        /\ placed(n).balance = n.balance /\ placed(n).synced = n.synced
        /\ placed(n).index = n.index /\ placed(n).synced_index = n.synced_index
        /\ SameCounters(n, placed(n))
    BY <1>3, <1>4, PlaceEffect DEF s
  <1> HIDE DEF placed
  <1>6. /\ reduced(n) \in Ledger
        /\ reduced(n).open_interest = n.open_interest - size
        /\ \A side \in BOOLEAN : reduced(n).side_interest[side] =
              n.side_interest[side] + OnThis(p.is_long, side, -size)
        /\ reduced(n).balance = n.balance /\ reduced(n).positions = placed(n).positions
        /\ reduced(n).synced = n.synced
        /\ reduced(n).index = n.index /\ reduced(n).synced_index = n.synced_index
        /\ reduced(n).rounding = n.rounding
    <2>1. reduced(n) = AddInterest(placed(n), p.is_long, -size) /\ -size \in Int
      BY <1>q
    <2> HIDE DEF reduced
    <2>2. /\ reduced(n) \in Ledger
          /\ reduced(n).open_interest = placed(n).open_interest + (-size)
          /\ \A side \in BOOLEAN : reduced(n).side_interest[side] =
                placed(n).side_interest[side] + OnThis(p.is_long, side, -size)
          /\ reduced(n).balance = placed(n).balance /\ reduced(n).positions = placed(n).positions
          /\ reduced(n).synced = placed(n).synced
          /\ reduced(n).index = placed(n).index /\ reduced(n).synced_index = placed(n).synced_index
          /\ reduced(n).rounding = placed(n).rounding
      <3> DEFINE a == placed(n)
                 b == reduced(n)
                 side == p.is_long
                 delta == -size
      <3>1. a \in Ledger /\ side \in BOOLEAN /\ delta \in Int /\ b = AddInterest(a, side, delta)
        BY <1>p, <1>5, <2>1
      <3> HIDE DEF a, b, side, delta
      <3>2. b \in Ledger /\ b.open_interest = a.open_interest + delta
        <4>1. b \in Ledger
          BY <3>1, InterestEffect
        <4>2. b.open_interest = a.open_interest + delta
          BY <3>1 DEF Ledger, AddInterest
        <4>3. QED
          BY <4>1, <4>2
      <3>3. /\ b.balance = a.balance /\ b.positions = a.positions /\ b.synced = a.synced
            /\ b.index = a.index /\ b.synced_index = a.synced_index /\ b.rounding = a.rounding
        BY <3>1 DEF Ledger, AddInterest
      <3>4. ASSUME NEW way \in BOOLEAN
            PROVE  b.side_interest[way] = a.side_interest[way] + OnThis(side, way, delta)
        BY <3>1 DEF Ledger, AddInterest, OnThis
      <3>5. QED
        BY <3>2, <3>3, <3>4 DEF a, b, side, delta
    <2>3. n.open_interest + (-size) = n.open_interest - size
      BY <1>3 DEF Ledger
    <2>4. QED
      BY <1>5, <2>2, <2>3 DEF SameCounters
  <1> HIDE DEF reduced
  <1>7. /\ credited(n) \in Ledger
        /\ credited(n).balance[u] = reduced(n).balance[u] + pnl
        /\ \A b \in Accounts \ {u} : credited(n).balance[b] = reduced(n).balance[b]
        /\ credited(n).positions = reduced(n).positions /\ credited(n).synced = reduced(n).synced
        /\ credited(n).index = reduced(n).index /\ credited(n).synced_index = reduced(n).synced_index
        /\ SameCounters(reduced(n), credited(n))
    BY <1>0, <1>z, <1>6, CreditEffect
  <1> HIDE DEF credited
  <1>8. /\ m \in Ledger /\ m.synced[u] = s /\ m.positions[u] = s
        /\ \A v \in Users \ {u} : m.synced[v] = l.synced[v] /\ m.positions[v] = l.positions[v]
        /\ \A b \in Accounts \ {u} : m.balance[b] = l.balance[b]
        /\ m.balance[u] = l.balance[u] + FundingPnl(p, index) + pnl
        /\ m.index = l.index /\ m.synced_index = l.synced_index
        /\ m.open_interest = l.open_interest - size
        /\ \A side \in BOOLEAN : m.side_interest[side] =
              l.side_interest[side] + OnThis(p.is_long, side, -size)
        /\ m.rounding = l.rounding
    <2>1. /\ m \in Ledger /\ m.synced[u] = credited(n).positions[u]
          /\ \A v \in Users \ {u} : m.synced[v] = credited(n).synced[v]
          /\ m.balance = credited(n).balance /\ m.positions = credited(n).positions
          /\ m.index = credited(n).index /\ m.synced_index = credited(n).synced_index
          /\ SameCounters(credited(n), m)
      BY <1>2, <1>7, SyncEffect
    <2>2. m.positions = placed(n).positions /\ m.positions[u] = s
      BY <1>5, <1>6, <1>7, <2>1
    <2>3. \A v \in Users \ {u} : m.synced[v] = l.synced[v] /\ m.positions[v] = l.positions[v]
      BY <1>3, <1>5, <1>6, <1>7, <2>1, <2>2 DEF OthersUntouched
    <2>4. /\ \A b \in Accounts \ {u} : m.balance[b] = l.balance[b]
          /\ m.balance[u] = l.balance[u] + FundingPnl(p, index) + pnl
      BY <1>3, <1>6, <1>7, <2>1 DEF OthersUntouched
    <2>5. m.index = l.index /\ m.synced_index = l.synced_index
      BY <1>3, <1>6, <1>7, <2>1 DEF OthersUntouched
    <2>6. /\ m.open_interest = l.open_interest - size
          /\ \A side \in BOOLEAN : m.side_interest[side] =
                l.side_interest[side] + OnThis(p.is_long, side, -size)
          /\ m.rounding = l.rounding
      BY <1>3, <1>6, <1>7, <2>1 DEF SameCounters
    <2>7. QED
      BY <2>1, <2>2, <2>3, <2>4, <2>5, <2>6
  <1>9. /\ Size(<<p>>) = p.size /\ Owed(<<p>>, index) = FundingPnl(p, index)
        /\ Cost(<<p>>) = Sign(p) * p.size * p.entry_price
        /\ \A side \in BOOLEAN : Interest(<<p>>, side) = OnThis(p.is_long, side, p.size)
        /\ NetLong(<<p>>) = Sign(p) * p.size
    BY <1>0, OnePosition
  <1>10. OthersUntouched(l, m, u)
    BY <1>8 DEF OthersUntouched
  <1>11. m.open_interest = l.open_interest + Size(m.positions[u]) - Size(l.positions[u])
    BY <1>p, <1>4, <1>8, <1>9 DEF Ledger
  <1>12. ASSUME NEW side \in BOOLEAN
         PROVE  m.side_interest[side] =
                   l.side_interest[side] + Interest(m.positions[u], side) - Interest(l.positions[u], side)
    <2>1. OnThis(p.is_long, side, p.size) \in Int /\ OnThis(p.is_long, side, -size) \in Int
      BY <1>p DEF OnThis
    <2>2. l.side_interest[side] \in Int
      BY DEF Ledger
    <2>3. /\ m.side_interest[side] = l.side_interest[side] + OnThis(p.is_long, side, -size)
          /\ Interest(m.positions[u], side) = OnThis(p.is_long, side, p.size) + OnThis(p.is_long, side, -size)
          /\ Interest(l.positions[u], side) = OnThis(p.is_long, side, p.size)
      BY <1>4, <1>8, <1>9
    <2>4. QED
      BY <2>1, <2>2, <2>3
  <1>13. NetLong(m.positions[u]) = NetLong(l.positions[u]) + (-(Sign(p) * size))
    BY <1>p, <1>4, <1>8, <1>9
  <1>14. Worth(m, u) - m.rounding = Worth(l, u) - l.rounding - (-(Sign(p) * size * at))
    <2> DEFINE k == Sign(p) * size
               c == Sign(p) * p.size * p.entry_price
               f == FundingPnl(p, index)
    <2>1. k \in Int /\ c \in Int /\ f \in Int /\ l.balance[u] \in Int /\ l.rounding \in Int
      BY <1>0, <1>p, PositionQuantities DEF Ledger
    <2>2. pnl = k * at - k * p.entry_price
      BY <1>p DEF pnl
    <2>3. /\ Worth(l, u) = l.balance[u] + f - c
          /\ Worth(m, u) = l.balance[u] + f + pnl + 0 - (c - k * p.entry_price)
      BY <1>4, <1>8, <1>9 DEF Worth, index
    <2>4. k * at \in Int /\ k * p.entry_price \in Int /\ m.rounding = l.rounding
      BY <1>p, <1>8, <2>1
    <2> HIDE DEF k, c, f
    <2>5. Worth(m, u) - m.rounding = Worth(l, u) - l.rounding - (-(k * at))
      BY <2>1, <2>2, <2>3, <2>4
    <2>6. QED
      BY <2>5 DEF k
  <1>15. Holds(m, u, Remaining(Refreshed(p, l.index), size))
    BY <1>8 DEF s, q, index, Holds
  <1>16. NotRounded(l, m) /\ CostFalls(l, m, u, Sign(p) * size * p.entry_price)
    BY <1>4, <1>8, <1>9 DEF NotRounded, CostFalls
  <1>17. QED
    BY <1>1, <1>2, <1>8, <1>10, <1>11, <1>12, <1>13, <1>14, <1>15, <1>16 DEF Trade

\* Opening a position (open_position): the counters, then the mirror and the margin.
LEMMA OpenEffect ==
  ASSUME NEW l \in Ledger, NEW u \in Users, l.positions[u] = <<>>,
         NEW size \in Nat \ {0}, NEW at \in Nat \ {0}, NEW is_long \in BOOLEAN,
         NEW m \in OpenPosition(l, u, size, is_long, at)
  PROVE  /\ Trade(l, m, u, Way(is_long) * size, Way(is_long) * size * at)
         /\ AboveInitialMargin(m, u)
         /\ m.balance = l.balance
  <1> DEFINE position == [is_long |-> is_long, size |-> size, entry_price |-> at,
                          last_funding_index |-> l.index[is_long]]
             placed == [l EXCEPT !.positions[u] = <<position>>]
             opened == AddInterest(placed, is_long, size)
  <1>0. u \in Accounts /\ l.index \in Index
    BY DEF Accounts, Ledger
  <1>1. /\ position \in Position /\ position.size = size /\ position.is_long = is_long
        /\ position.entry_price = at /\ Sign(position) = Way(is_long)
        /\ FundingPnl(position, l.index) = 0
    <2>1. l.index[is_long] \in Int
      BY <1>0 DEF Index
    <2>2. l.index[is_long] - l.index[is_long] = 0 /\ size * 0 = 0
      BY <2>1
    <2>3. QED
      BY <2>1, <2>2 DEF Position, Sign, Way, FundingPnl
  <1>2. m = SyncPositions(opened, u) /\ AboveInitialMargin(m, u)
    <2>1. Append(l.positions[u], position) = <<position>>
      OBVIOUS
    <2>2. [l EXCEPT !.positions[u] = Append(@, position)] = placed
      BY <2>1
    <2> HIDE DEF position, placed
    <2>3. m \in SyncAndRequireMargin(AddInterest(placed, is_long, size), u)
      BY <2>2 DEF OpenPosition, position
    <2>4. QED
      BY <2>3 DEF SyncAndRequireMargin, Succeed
  <1>3. /\ <<position>> \in Slots /\ Size(<<position>>) = size
        /\ Owed(<<position>>, l.index) = 0 /\ Cost(<<position>>) = Way(is_long) * size * at
        /\ \A side \in BOOLEAN : Interest(<<position>>, side) = OnThis(is_long, side, size)
        /\ NetLong(<<position>>) = Way(is_long) * size
    <2> HIDE DEF position
    <2>1. QED
      BY <1>0, <1>1, OnePosition
  <1>4. /\ Size(<<>>) = 0 /\ Owed(<<>>, l.index) = 0 /\ Cost(<<>>) = 0 /\ NetLong(<<>>) = 0
        /\ \A side \in BOOLEAN : Interest(<<>>, side) = 0
    BY NoPosition
  <1> HIDE DEF position
  <1>5. /\ placed \in Ledger /\ placed.positions[u] = <<position>>
        /\ \A v \in Users \ {u} : placed.positions[v] = l.positions[v]
        /\ placed.balance = l.balance /\ placed.synced = l.synced
        /\ placed.index = l.index /\ placed.synced_index = l.synced_index
        /\ SameCounters(l, placed)
    BY <1>3, PlaceEffect
  <1> HIDE DEF placed
  <1>6. /\ opened \in Ledger
        /\ opened.open_interest = placed.open_interest + size
        /\ \A s \in BOOLEAN :
              opened.side_interest[s] = placed.side_interest[s] + OnThis(is_long, s, size)
        /\ opened.balance = placed.balance /\ opened.positions = placed.positions
        /\ opened.synced = placed.synced
        /\ opened.index = placed.index /\ opened.synced_index = placed.synced_index
        /\ opened.rounding = placed.rounding
    <2>1. size \in Int
      OBVIOUS
    <2>2. QED
      BY <1>5, <2>1, InterestEffect
  <1> HIDE DEF opened
  <1>7. /\ m \in Ledger /\ m.synced[u] = opened.positions[u]
        /\ \A v \in Users \ {u} : m.synced[v] = opened.synced[v]
        /\ m.balance = opened.balance /\ m.positions = opened.positions
        /\ m.index = opened.index /\ m.synced_index = opened.synced_index
        /\ SameCounters(opened, m)
    BY <1>2, <1>6, SyncEffect
  <1>8. /\ m.positions[u] = <<position>> /\ m.synced[u] = m.positions[u]
        /\ m.balance = l.balance /\ m.index = l.index /\ m.rounding = l.rounding
    BY <1>5, <1>6, <1>7 DEF SameCounters
  <1>9. OthersUntouched(l, m, u)
    BY <1>5, <1>6, <1>7 DEF OthersUntouched
  <1>10. m.open_interest = l.open_interest + Size(m.positions[u]) - Size(l.positions[u])
    <2>1. m.open_interest = l.open_interest + size
      BY <1>5, <1>6, <1>7 DEF SameCounters
    <2>2. Size(m.positions[u]) = size /\ Size(l.positions[u]) = 0 /\ l.open_interest \in Int
      BY <1>3, <1>4, <1>8 DEF Ledger
    <2>3. QED
      BY <2>1, <2>2
  <1>11. ASSUME NEW side \in BOOLEAN
         PROVE  m.side_interest[side] =
                   l.side_interest[side] + Interest(m.positions[u], side) - Interest(l.positions[u], side)
    <2>1. /\ m.side_interest[side] = l.side_interest[side] + OnThis(is_long, side, size)
          /\ Interest(m.positions[u], side) = OnThis(is_long, side, size)
          /\ Interest(l.positions[u], side) = 0
      BY <1>3, <1>4, <1>5, <1>6, <1>7, <1>8 DEF SameCounters
    <2>2. OnThis(is_long, side, size) \in Int /\ l.side_interest[side] \in Int
      BY DEF OnThis, Ledger
    <2>3. QED
      BY <2>1, <2>2
  <1>w. Way(is_long) \in {1, -1}
    BY DEF Way
  <1>12. NetLong(m.positions[u]) = NetLong(l.positions[u]) + Way(is_long) * size
    BY <1>3, <1>4, <1>8, <1>w
  <1>13. Worth(m, u) - m.rounding = Worth(l, u) - l.rounding - Way(is_long) * size * at
    <2> DEFINE c == Way(is_long) * size * at
    <2>1. c \in Int /\ l.balance[u] \in Int /\ l.rounding \in Int
      BY <1>0, <1>w DEF Ledger
    <2>2. Worth(l, u) = l.balance[u] + 0 - 0 /\ Worth(m, u) = l.balance[u] + 0 - c
      BY <1>3, <1>4, <1>8 DEF Worth
    <2> HIDE DEF c
    <2>3. Worth(m, u) - m.rounding = Worth(l, u) - l.rounding - c
      BY <1>8, <2>1, <2>2
    <2>4. QED
      BY <2>3 DEF c
  <1>14. QED
    BY <1>2, <1>7, <1>8, <1>9, <1>10, <1>11, <1>12, <1>13 DEF Trade

\* What a product of positive numbers is at least.
LEMMA ProductBound ==
  ASSUME NEW a \in Nat \ {0}, NEW b \in Nat \ {0}
  PROVE  a * b \in Nat /\ a * b >= a
  OBVIOUS

\* Quotient and remainder make up the number.
LEMMA DivMod ==
  ASSUME NEW x \in Nat, NEW t \in Nat \ {0}
  PROVE  x \div t \in Nat /\ x % t \in 0..(t - 1) /\ t * (x \div t) + (x % t) = x
  OBVIOUS

\* An averaged entry price is positive, and what its rounding drops is the
\* remainder (weighted_entry).
LEMMA AverageEntry ==
  ASSUME NEW cost \in Nat, NEW t \in Nat \ {0}, cost >= t
  PROVE  /\ cost \div t \in Nat \ {0}
         /\ cost % t \in Nat
         /\ t * (cost \div t) + (cost % t) = cost
  <1>1. cost \div t \in Nat /\ cost % t \in 0..(t - 1) /\ t * (cost \div t) + (cost % t) = cost
    BY DivMod, Zenon
  <1>2. cost \div t # 0
    <2> SUFFICES ASSUME cost \div t = 0 PROVE FALSE
      OBVIOUS
    <2>1. t * 0 + (cost % t) = cost
      BY <1>1
    <2>2. QED
      BY <1>1, <2>1
  <1>3. QED
    BY <1>1, <1>2

\* A sign distributes over a sum of two.
LEMMA SignDistributes ==
  ASSUME NEW g \in {1, -1}, NEW a \in Int, NEW b \in Int, NEW c \in Int, NEW d \in Int,
         a + b = c + d
  PROVE  /\ g * a \in Int /\ g * b \in Int /\ g * c \in Int /\ g * d \in Int
         /\ g * a + g * b = g * c + g * d
  <1>1. CASE g = 1
    BY <1>1
  <1>2. CASE g = -1
    BY <1>2
  <1>3. QED
    BY <1>1, <1>2

\* Increasing a position (increase_position): funding first, then the averaged
\* entry, the counters, the mirror and the margin.
LEMMA IncreaseEffect ==
  ASSUME NEW l \in Ledger, NEW u \in Users, NEW p \in Position, l.positions[u] = <<p>>,
         NEW size \in Nat \ {0}, NEW at \in Nat \ {0},
         NEW m \in IncreasePosition(l, u, 1, size, at)
  PROVE  /\ Trade(l, m, u, Sign(p) * size, Sign(p) * size * at)
         /\ AboveInitialMargin(m, u)
         /\ paused => m.balance = l.balance
  <1> DEFINE index == l.index
             q == Refreshed(p, index)
             cost == p.size * p.entry_price + size * at
             total == p.size + size
             grown == [q EXCEPT !.size = total, !.entry_price = cost \div total]
             lost == Sign(p) * (cost % total)
             placed(n) == [n EXCEPT !.positions[u] = <<grown>>]
             raised(n) == [placed(n) EXCEPT !.rounding = @ + lost]
             increased(n) == AddInterest(raised(n), p.is_long, size)
  <1>0. u \in Accounts /\ index \in Index /\ l.positions[u][1] = p
    BY DEF Accounts, Ledger
  <1>p. /\ p.size \in Nat \ {0} /\ p.entry_price \in Nat \ {0} /\ p.is_long \in BOOLEAN
        /\ Sign(p) \in {1, -1} /\ FundingPnl(p, index) \in Int
    BY <1>0, PositionQuantities, SignValues
  <1>q. /\ q \in Position /\ FundingPnl(q, index) = 0
        /\ q.size = p.size /\ q.is_long = p.is_long /\ q.entry_price = p.entry_price
        /\ Sign(q) = Sign(p) /\ q.last_funding_index = index[p.is_long]
    BY <1>0, RefreshedPosition DEF Sign, Refreshed, Position
  <1>c. /\ cost \div total \in Nat \ {0} /\ cost % total \in Nat
        /\ total * (cost \div total) + (cost % total) = cost
        /\ cost \in Nat /\ total \in Nat \ {0}
    <2> DEFINE a == p.size
               b == p.entry_price
    <2>1. a \in Nat \ {0} /\ b \in Nat \ {0} /\ cost = a * b + size * at /\ total = a + size
      BY <1>p
    <2> HIDE DEF a, b, cost, total
    <2>2. a * b \in Nat /\ a * b >= a /\ size * at \in Nat /\ size * at >= size
      BY <2>1, ProductBound
    <2>3. cost \in Nat /\ total \in Nat \ {0} /\ cost >= total
      BY <2>1, <2>2
    <2>4. QED
      BY <2>3, AverageEntry
  <1>g. /\ grown \in Position /\ FundingPnl(grown, index) = 0
        /\ grown.size = total /\ grown.is_long = p.is_long /\ Sign(grown) = Sign(p)
        /\ grown.entry_price = cost \div total
    <2> HIDE DEF q, cost, total
    <2>1. /\ grown \in Position /\ grown.size = total /\ grown.is_long = p.is_long
          /\ grown.entry_price = cost \div total
          /\ grown.last_funding_index = index[grown.is_long]
      BY <1>c, <1>q DEF Position
    <2> HIDE DEF grown
    <2>2. index[grown.is_long] - grown.last_funding_index = 0 /\ total * 0 = 0
      BY <1>0, <1>c, <2>1 DEF Position, Index
    <2>3. QED
      BY <2>1, <2>2 DEF FundingPnl, Sign
  <1>2. PICK n \in SettleFunding(l, u, 1) :
          m = SyncPositions(increased(n), u) /\ AboveInitialMargin(m, u)
    <2> DEFINE old(n) == n.positions[u][1]
               price_of(n) == old(n).size * old(n).entry_price + size * at
               big(n) == [old(n) EXCEPT !.size = @ + size,
                                        !.entry_price = price_of(n) \div (old(n).size + size)]
               after(n) == AddInterest([n EXCEPT !.positions[u][1] = big(n),
                                                 !.rounding = @ + Sign(old(n)) * (price_of(n) % (old(n).size + size))],
                                       old(n).is_long, size)
    <2>1. PICK n \in SettleFunding(l, u, 1) : m \in SyncAndRequireMargin(after(n), u)
      BY DEF IncreasePosition, AndThen
    <2>2. n \in Ledger /\ n.positions[u] = <<q>> /\ old(n) = q
      BY SettleFundingEffect
    <2>3. price_of(n) = cost /\ old(n).size + size = total /\ big(n) = grown
          /\ Sign(old(n)) = Sign(p) /\ old(n).is_long = p.is_long
      BY <1>q, <2>2
    <2> HIDE DEF old, price_of, big, grown, q, total, cost
    <2>4. after(n) = AddInterest([n EXCEPT !.positions[u][1] = grown, !.rounding = @ + lost],
                                 p.is_long, size)
      BY <2>3
    <2>5. [n.positions[u] EXCEPT ![1] = grown] = <<grown>>
      BY <2>2
    <2>6. [n EXCEPT !.positions[u][1] = grown, !.rounding = @ + lost] = raised(n)
      BY <2>2, <2>5 DEF Ledger
    <2> HIDE DEF after
    <2>7. m \in SyncAndRequireMargin(increased(n), u)
      BY <2>1, <2>4, <2>6
    <2>8. QED
      BY <2>7 DEF SyncAndRequireMargin, Succeed
  <1>3. /\ n \in Ledger /\ OthersUntouched(l, n, u) /\ SameCounters(l, n)
        /\ n.balance[u] = l.balance[u] + FundingPnl(p, index)
        /\ n.positions[u] = <<q>> /\ n.synced = l.synced
        /\ paused => n.balance = l.balance
    BY SettleFundingEffect
  <1>4. lost \in Int
    BY <1>c, <1>p
  <1> DEFINE s == <<grown>>
  <1>5. /\ s \in Slots /\ Size(s) = total /\ Owed(s, index) = 0
        /\ Cost(s) = Sign(p) * total * (cost \div total)
        /\ \A side \in BOOLEAN : Interest(s, side) = OnThis(p.is_long, side, total)
        /\ NetLong(s) = Sign(p) * total
    <2> HIDE DEF grown, total, cost
    <2>1. QED
      BY <1>0, <1>g, OnePosition
  <1>6. /\ Size(<<p>>) = p.size /\ Owed(<<p>>, index) = FundingPnl(p, index)
        /\ Cost(<<p>>) = Sign(p) * p.size * p.entry_price
        /\ \A side \in BOOLEAN : Interest(<<p>>, side) = OnThis(p.is_long, side, p.size)
        /\ NetLong(<<p>>) = Sign(p) * p.size
    BY <1>0, OnePosition
  <1> HIDE DEF index, q, cost, total, grown, lost, s
  <1>7. /\ placed(n) \in Ledger /\ placed(n).positions[u] = s
        /\ \A v \in Users \ {u} : placed(n).positions[v] = n.positions[v]
        /\ placed(n).balance = n.balance /\ placed(n).synced = n.synced
        /\ placed(n).index = n.index /\ placed(n).synced_index = n.synced_index
        /\ SameCounters(n, placed(n))
    BY <1>3, <1>5, PlaceEffect DEF s
  <1> HIDE DEF placed
  <1>8. /\ raised(n) \in Ledger /\ raised(n).rounding = placed(n).rounding + lost
        /\ raised(n).positions = placed(n).positions
        /\ raised(n).balance = placed(n).balance /\ raised(n).synced = placed(n).synced
        /\ raised(n).index = placed(n).index /\ raised(n).synced_index = placed(n).synced_index
        /\ raised(n).open_interest = placed(n).open_interest
        /\ raised(n).side_interest = placed(n).side_interest
    BY <1>4, <1>7 DEF Ledger
  <1> HIDE DEF raised
  <1>9. /\ increased(n) \in Ledger
        /\ increased(n).open_interest = raised(n).open_interest + size
        /\ \A side \in BOOLEAN : increased(n).side_interest[side] =
              raised(n).side_interest[side] + OnThis(p.is_long, side, size)
        /\ increased(n).balance = raised(n).balance /\ increased(n).positions = raised(n).positions
        /\ increased(n).synced = raised(n).synced
        /\ increased(n).index = raised(n).index /\ increased(n).synced_index = raised(n).synced_index
        /\ increased(n).rounding = raised(n).rounding
    <2> DEFINE a == raised(n)
               b == increased(n)
               side == p.is_long
    <2>1. a \in Ledger /\ side \in BOOLEAN /\ size \in Int /\ b = AddInterest(a, side, size)
      BY <1>p, <1>8
    <2> HIDE DEF a, b, side
    <2>2. /\ b \in Ledger
          /\ b.open_interest = a.open_interest + size
          /\ \A t \in BOOLEAN : b.side_interest[t] = a.side_interest[t] + OnThis(side, t, size)
          /\ b.balance = a.balance /\ b.positions = a.positions /\ b.synced = a.synced
          /\ b.index = a.index /\ b.synced_index = a.synced_index /\ b.rounding = a.rounding
      BY <2>1, InterestEffect
    <2>3. QED
      BY <2>2 DEF a, b, side
  <1> HIDE DEF increased
  <1>10. /\ m \in Ledger /\ m.synced[u] = increased(n).positions[u]
         /\ \A v \in Users \ {u} : m.synced[v] = increased(n).synced[v]
         /\ m.balance = increased(n).balance /\ m.positions = increased(n).positions
         /\ m.index = increased(n).index /\ m.synced_index = increased(n).synced_index
         /\ SameCounters(increased(n), m)
    BY <1>2, <1>9, SyncEffect
  <1>11. /\ m.positions[u] = s /\ m.synced[u] = s
         /\ m.balance = n.balance /\ m.index = l.index /\ m.rounding = l.rounding + lost
         /\ m.open_interest = l.open_interest + size
    BY <1>3, <1>7, <1>8, <1>9, <1>10 DEF SameCounters, OthersUntouched
  <1>12. OthersUntouched(l, m, u)
    BY <1>3, <1>7, <1>8, <1>9, <1>10 DEF OthersUntouched
  <1>13. m.open_interest = l.open_interest + Size(m.positions[u]) - Size(l.positions[u])
    BY <1>p, <1>5, <1>6, <1>11 DEF Ledger, total
  <1>14. ASSUME NEW side \in BOOLEAN
         PROVE  m.side_interest[side] =
                   l.side_interest[side] + Interest(m.positions[u], side) - Interest(l.positions[u], side)
    <2>1. OnThis(p.is_long, side, total) - OnThis(p.is_long, side, p.size) = OnThis(p.is_long, side, size)
          /\ OnThis(p.is_long, side, total) \in Int /\ OnThis(p.is_long, side, p.size) \in Int
      BY <1>p DEF OnThis, total
    <2>2. l.side_interest[side] \in Int
      BY DEF Ledger
    <2>3. /\ m.side_interest[side] = l.side_interest[side] + OnThis(p.is_long, side, size)
          /\ Interest(m.positions[u], side) = OnThis(p.is_long, side, total)
          /\ Interest(l.positions[u], side) = OnThis(p.is_long, side, p.size)
      BY <1>3, <1>5, <1>6, <1>7, <1>8, <1>9, <1>10, <1>11 DEF SameCounters
    <2>4. QED
      BY <2>1, <2>2, <2>3
  <1>15. NetLong(m.positions[u]) = NetLong(l.positions[u]) + Sign(p) * size
    <2>1. Sign(p) * total = Sign(p) * p.size + Sign(p) * size
      BY <1>p DEF total
    <2>2. QED
      BY <2>1, <1>5, <1>6, <1>11
  <1>16. Worth(m, u) - m.rounding = Worth(l, u) - l.rounding - Sign(p) * size * at
    <2> DEFINE e == cost \div total
               r == cost % total
               g == Sign(p)
               f == FundingPnl(p, index)
    <2>1. /\ g \in {1, -1} /\ f \in Int /\ e \in Int /\ r \in Int /\ total \in Int
          /\ l.balance[u] \in Int /\ l.rounding \in Int
          /\ total * e + r = p.size * p.entry_price + size * at
      BY <1>0, <1>p, <1>c DEF Ledger, cost
    <2>2. Worth(l, u) = l.balance[u] + f - g * p.size * p.entry_price
      BY <1>6 DEF Worth, index
    <2>3. Worth(m, u) = l.balance[u] + f + 0 - g * total * e
      BY <1>3, <1>5, <1>11 DEF Worth, index
    <2>4. m.rounding = l.rounding + g * r
      BY <1>11 DEF lost
    <2> HIDE DEF e, r, g, f
    <2> DEFINE te == total * e
               pe == p.size * p.entry_price
               sa == size * at
    <2>5. te \in Int /\ pe \in Int /\ sa \in Int /\ te + r = pe + sa
      BY <2>1, <1>p
    <2>6. /\ g * p.size * p.entry_price = g * pe /\ g * total * e = g * te
          /\ g * size * at = g * sa
      BY <2>1, <1>p
    <2> HIDE DEF te, pe, sa
    <2>7. /\ g * te \in Int /\ g * r \in Int /\ g * pe \in Int /\ g * sa \in Int
          /\ g * te + g * r = g * pe + g * sa
      BY <2>1, <2>5, SignDistributes
    <2>8. /\ Worth(l, u) = l.balance[u] + f - g * pe
          /\ Worth(m, u) = l.balance[u] + f + 0 - g * te
      BY <2>2, <2>3, <2>6
    <2>9. Worth(m, u) - m.rounding = Worth(l, u) - l.rounding - g * sa
      BY <2>1, <2>4, <2>7, <2>8
    <2>10. QED
      BY <2>6, <2>9 DEF g
  <1>17. paused => m.balance = l.balance
    BY <1>3, <1>11
  <1>18. QED
    BY <1>2, <1>10, <1>11, <1>12, <1>13, <1>14, <1>15, <1>16, <1>17 DEF Trade

-----------------------------------------------------------------------------
(* The books of a whole ledger.                                            *)

\* The engine's counters, the positions and the vault's mirror agree.
Books(l) ==
    /\ l \in Ledger
    /\ l.open_interest = SumFunction([u \in Users |-> Size(l.positions[u])])
    /\ \A side \in BOOLEAN :
          l.side_interest[side] = SumFunction([u \in Users |-> Interest(l.positions[u], side)])
    /\ l.synced = l.positions
    /\ l.synced_index = l.index

Holdings(l) == SumFunction(l.balance)
Funding(l) == SumFunction([u \in Users |-> Owed(l.positions[u], l.index)])
Costs(l) == SumFunction([u \in Users |-> Cost(l.positions[u])])
Skew(l) == l.side_interest[TRUE] - l.side_interest[FALSE]

\* What the accounts are worth together, short of what averaging dropped.
Net(l) == Holdings(l) + Funding(l) - Costs(l) - l.rounding

\* An invocation from l to m, seen from outside the accounts: they bought a
\* quantity for cash.
Shift(l, m, quantity, cash) ==
    /\ Books(m)
    /\ m.index = l.index
    /\ Skew(m) = Skew(l) + quantity
    /\ Net(m) = Net(l) - cash

\* The books are sums over finitely many accounts.
LEMMA FiniteAccounts == IsFiniteSet(Users) /\ IsFiniteSet(Accounts)
  <1>1. IsFiniteSet(Users)
    BY ClearingHouseConstants
  <1>2. IsFiniteSet({FeeRecipient}) /\ IsFiniteSet({Insurance})
    BY FS_Singleton
  <1>3. IsFiniteSet({FeeRecipient} \cup {Insurance})
    BY <1>2, FS_Union
  <1>4. IsFiniteSet(Users \cup ({FeeRecipient} \cup {Insurance}))
    BY <1>1, <1>3, FS_Union
  <1>5. Accounts = Users \cup ({FeeRecipient} \cup {Insurance})
    BY DEF Accounts
  <1>6. QED
    BY <1>1, <1>4, <1>5

\* The sums of a ledger are integers, and its two counters natural numbers.
LEMMA SumsOfLedger ==
  ASSUME NEW l \in Ledger
  PROVE  /\ Holdings(l) \in Int /\ Funding(l) \in Int /\ Costs(l) \in Int
         /\ SumFunction([u \in Users |-> Size(l.positions[u])]) \in Nat
         /\ \A side \in BOOLEAN :
               SumFunction([u \in Users |-> Interest(l.positions[u], side)]) \in Nat
  <1>1. \A u \in Users : l.positions[u] \in Slots
    BY DEF Ledger
  <1>2. l.index \in Index
    BY DEF Ledger
  <1>3. Holdings(l) \in Int
    <2>1. l.balance \in [Accounts -> Int]
      BY DEF Ledger
    <2>2. QED
      BY <2>1, FiniteAccounts, SumType DEF Holdings, SumFunction
  <1>4. Funding(l) \in Int
    <2> DEFINE f == [u \in Users |-> Owed(l.positions[u], l.index)]
    <2>1. DOMAIN f = Users /\ \A u \in Users : f[u] \in Int
      BY <1>1, <1>2, SlotTypes
    <2> HIDE DEF f
    <2>2. SumFunction(f) \in Int
      BY <2>1, FiniteAccounts, SumType DEF SumFunction
    <2>3. QED
      BY <2>2 DEF Funding, f
  <1>5. Costs(l) \in Int
    <2> DEFINE f == [u \in Users |-> Cost(l.positions[u])]
    <2>1. DOMAIN f = Users /\ \A u \in Users : f[u] \in Int
      BY <1>1, <1>2, SlotTypes
    <2> HIDE DEF f
    <2>2. SumFunction(f) \in Int
      BY <2>1, FiniteAccounts, SumType DEF SumFunction
    <2>3. QED
      BY <2>2 DEF Costs, f
  <1>6. SumFunction([u \in Users |-> Size(l.positions[u])]) \in Nat
    <2> DEFINE f == [u \in Users |-> Size(l.positions[u])]
    <2>1. DOMAIN f = Users /\ \A u \in Users : f[u] \in Nat
      BY <1>1, <1>2, SlotTypes
    <2> HIDE DEF f
    <2>2. SumFunction(f) \in Nat
      BY <2>1, FiniteAccounts, SumOfNaturals DEF SumFunction
    <2>3. QED
      BY <2>2 DEF f
  <1>7. ASSUME NEW side \in BOOLEAN
        PROVE  SumFunction([u \in Users |-> Interest(l.positions[u], side)]) \in Nat
    <2> DEFINE f == [u \in Users |-> Interest(l.positions[u], side)]
    <2>1. DOMAIN f = Users /\ \A u \in Users : f[u] \in Nat
      BY <1>1, <1>2, SlotTypes
    <2> HIDE DEF f
    <2>2. SumFunction(f) \in Nat
      BY <2>1, FiniteAccounts, SumOfNaturals DEF SumFunction
    <2>3. QED
      BY <2>2 DEF f
  <1>8. QED
    BY <1>3, <1>4, <1>5, <1>6, <1>7

\* The difference between the sides is an integer.
LEMMA SkewType ==
  ASSUME NEW l \in Ledger
  PROVE  l.side_interest[TRUE] \in Int /\ l.side_interest[FALSE] \in Int /\ Skew(l) \in Int
  <1>1. \A side \in BOOLEAN : l.side_interest[side] \in Int
    BY DEF Ledger
  <1>2. l.side_interest[TRUE] \in Int /\ l.side_interest[FALSE] \in Int
    BY <1>1, Zenon
  <1> DEFINE x == l.side_interest[TRUE]
             y == l.side_interest[FALSE]
  <1>3. x \in Int /\ y \in Int
    BY <1>2, Zenon
  <1> HIDE DEF x, y
  <1>4. x - y \in Int
    BY <1>3
  <1>5. Skew(l) \in Int
    BY <1>4, Zenon DEF Skew, x, y
  <1>6. QED
    BY <1>2, <1>5, Zenon

\* Changing one summand changes the sum by as much.
LEMMA OneSummand ==
  ASSUME NEW A, IsFiniteSet(A), NEW f, NEW g, NEW a \in A, DOMAIN f = A, DOMAIN g = A,
         \A x \in A : f[x] \in Int /\ g[x] \in Int,
         \A x \in A \ {a} : g[x] = f[x]
  PROVE  /\ SumFunction(f) \in Int /\ SumFunction(g) \in Int
         /\ SumFunction(g) = SumFunction(f) + (g[a] - f[a])
  <1>1. \A x \in A : x # a => g[x] = f[x]
    OBVIOUS
  <1>2. SumFunctionOnSet(f, A) \in Int /\ SumFunctionOnSet(g, A) \in Int
    BY SumType
  <1>3. SumFunctionOnSet(g, A) = SumFunctionOnSet(f, A) + (g[a] - f[a])
    BY <1>1, SumUpdate
  <1>4. QED
    BY <1>2, <1>3 DEF SumFunction

\* The sums follow a trade of one account.
LEMMA TradeShift ==
  ASSUME NEW l, NEW m, NEW u \in Users, NEW quantity \in Int, NEW cash \in Int,
         Books(l), Trade(l, m, u, quantity, cash)
  PROVE  /\ Shift(l, m, quantity, cash)
         /\ Costs(m) = Costs(l) + Cost(m.positions[u]) - Cost(l.positions[u])
  <1>1. /\ l \in Ledger /\ m \in Ledger /\ u \in Accounts
        /\ m.index = l.index /\ m.synced_index = l.synced_index
        /\ \A a \in Accounts \ {u} : m.balance[a] = l.balance[a]
        /\ \A v \in Users \ {u} : m.positions[v] = l.positions[v] /\ m.synced[v] = l.synced[v]
    BY DEF Books, Trade, OthersUntouched, Accounts
  <1>2. /\ l.positions \in [Users -> Slots] /\ m.positions \in [Users -> Slots]
        /\ l.balance \in [Accounts -> Int] /\ m.balance \in [Accounts -> Int]
        /\ l.index \in Index /\ l.rounding \in Int /\ m.rounding \in Int
        /\ l.open_interest \in Int /\ l.side_interest \in [BOOLEAN -> Int]
    BY <1>1 DEF Ledger
  <1>3. \A v \in Users : l.positions[v] \in Slots /\ m.positions[v] \in Slots
    BY <1>2
  <1>4. \A v \in Users :
           /\ Size(l.positions[v]) \in Int /\ Size(m.positions[v]) \in Int
           /\ Owed(l.positions[v], l.index) \in Int /\ Owed(m.positions[v], l.index) \in Int
           /\ Cost(l.positions[v]) \in Int /\ Cost(m.positions[v]) \in Int
           /\ \A side \in BOOLEAN :
                Interest(l.positions[v], side) \in Int /\ Interest(m.positions[v], side) \in Int
    <2>1. \A s \in Slots : /\ Size(s) \in Int /\ Owed(s, l.index) \in Int /\ Cost(s) \in Int
                           /\ \A side \in BOOLEAN : Interest(s, side) \in Int
      BY <1>2, SlotTypes
    <2>2. QED
      BY <1>3, <2>1, Zenon
  <1>5. m.open_interest = SumFunction([v \in Users |-> Size(m.positions[v])])
    <2> DEFINE f == [v \in Users |-> Size(l.positions[v])]
               g == [v \in Users |-> Size(m.positions[v])]
    <2>1. /\ DOMAIN f = Users /\ DOMAIN g = Users
          /\ \A v \in Users : f[v] \in Int /\ g[v] \in Int
          /\ \A v \in Users \ {u} : g[v] = f[v]
          /\ f[u] = Size(l.positions[u]) /\ g[u] = Size(m.positions[u])
      BY <1>1, <1>4
    <2>2. l.open_interest = SumFunction(f)
      BY DEF Books
    <2> HIDE DEF f, g
    <2>3. SumFunction(g) = SumFunction(f) + (g[u] - f[u]) /\ SumFunction(f) \in Int
      BY <2>1, FiniteAccounts, OneSummand
    <2>4. m.open_interest = l.open_interest + Size(m.positions[u]) - Size(l.positions[u])
      BY DEF Trade
    <2>5. m.open_interest = SumFunction(g)
      BY <1>4, <2>1, <2>2, <2>3, <2>4
    <2>6. QED
      BY <2>5 DEF g
  <1>6. ASSUME NEW side \in BOOLEAN
        PROVE  m.side_interest[side] = SumFunction([v \in Users |-> Interest(m.positions[v], side)])
    <2> DEFINE f == [v \in Users |-> Interest(l.positions[v], side)]
               g == [v \in Users |-> Interest(m.positions[v], side)]
    <2>1. /\ DOMAIN f = Users /\ DOMAIN g = Users
          /\ \A v \in Users : f[v] \in Int /\ g[v] \in Int
          /\ \A v \in Users \ {u} : g[v] = f[v]
          /\ f[u] = Interest(l.positions[u], side) /\ g[u] = Interest(m.positions[u], side)
      BY <1>1, <1>4
    <2>2. l.side_interest[side] = SumFunction(f)
      BY DEF Books
    <2> HIDE DEF f, g
    <2>3. SumFunction(g) = SumFunction(f) + (g[u] - f[u]) /\ SumFunction(f) \in Int
      BY <2>1, FiniteAccounts, OneSummand
    <2>4. m.side_interest[side] =
            l.side_interest[side] + Interest(m.positions[u], side) - Interest(l.positions[u], side)
      BY DEF Trade
    <2>5. m.side_interest[side] = SumFunction(g)
      BY <1>4, <2>1, <2>2, <2>3, <2>4
    <2>6. QED
      BY <2>5 DEF g
  <1>7. Books(m)
    <2>1. m.synced = m.positions
      <3>1. \A v \in Users : m.synced[v] = m.positions[v]
        BY <1>1 DEF Books, Trade
      <3>2. m.synced \in [Users -> Slots]
        BY <1>1 DEF Ledger
      <3>3. QED
        BY <1>2, <3>1, <3>2
    <2>2. QED
      BY <1>1, <1>5, <1>6, <2>1 DEF Books
  <1>8. Holdings(m) = Holdings(l) + (m.balance[u] - l.balance[u]) /\ Holdings(l) \in Int
    BY <1>1, <1>2, FiniteAccounts, OneSummand DEF Holdings
  <1>9. /\ Funding(m) = Funding(l) + (Owed(m.positions[u], l.index) - Owed(l.positions[u], l.index))
        /\ Funding(l) \in Int
    <2> DEFINE f == [v \in Users |-> Owed(l.positions[v], l.index)]
               g == [v \in Users |-> Owed(m.positions[v], l.index)]
    <2>1. /\ DOMAIN f = Users /\ DOMAIN g = Users
          /\ \A v \in Users : f[v] \in Int /\ g[v] \in Int
          /\ \A v \in Users \ {u} : g[v] = f[v]
          /\ f[u] = Owed(l.positions[u], l.index) /\ g[u] = Owed(m.positions[u], l.index)
      BY <1>1, <1>4
    <2>2. Funding(l) = SumFunction(f) /\ Funding(m) = SumFunction(g)
      BY <1>1 DEF Funding
    <2> HIDE DEF f, g
    <2>3. SumFunction(g) = SumFunction(f) + (g[u] - f[u]) /\ SumFunction(f) \in Int
      BY <2>1, FiniteAccounts, OneSummand
    <2>4. QED
      BY <2>1, <2>2, <2>3
  <1>10. /\ Costs(m) = Costs(l) + (Cost(m.positions[u]) - Cost(l.positions[u]))
         /\ Costs(l) \in Int
    <2> DEFINE f == [v \in Users |-> Cost(l.positions[v])]
               g == [v \in Users |-> Cost(m.positions[v])]
    <2>1. /\ DOMAIN f = Users /\ DOMAIN g = Users
          /\ \A v \in Users : f[v] \in Int /\ g[v] \in Int
          /\ \A v \in Users \ {u} : g[v] = f[v]
          /\ f[u] = Cost(l.positions[u]) /\ g[u] = Cost(m.positions[u])
      BY <1>1, <1>4
    <2>2. Costs(l) = SumFunction(f) /\ Costs(m) = SumFunction(g)
      BY DEF Costs
    <2> HIDE DEF f, g
    <2>3. SumFunction(g) = SumFunction(f) + (g[u] - f[u]) /\ SumFunction(f) \in Int
      BY <2>1, FiniteAccounts, OneSummand
    <2>4. QED
      BY <2>1, <2>2, <2>3
  <1>11. Net(m) = Net(l) - cash
    <2> DEFINE bl == l.balance[u]
               bm == m.balance[u]
               ol == Owed(l.positions[u], l.index)
               om == Owed(m.positions[u], l.index)
               cl == Cost(l.positions[u])
               cm == Cost(m.positions[u])
    <2>1. (bm + om - cm) - m.rounding = (bl + ol - cl) - l.rounding - cash
      BY <1>1 DEF Trade, Worth
    <2>2. bl \in Int /\ bm \in Int /\ ol \in Int /\ om \in Int /\ cl \in Int /\ cm \in Int
      BY <1>1, <1>2, <1>4
    <2>3. /\ Holdings(m) = Holdings(l) + (bm - bl) /\ Funding(m) = Funding(l) + (om - ol)
          /\ Costs(m) = Costs(l) + (cm - cl)
      BY <1>8, <1>9, <1>10
    <2> HIDE DEF bl, bm, ol, om, cl, cm
    <2>4. QED
      BY <1>2, <1>8, <1>9, <1>10, <2>1, <2>2, <2>3 DEF Net
  <1>12. Skew(m) = Skew(l) + quantity
    <2> DEFINE lt == Interest(l.positions[u], TRUE)
               lf == Interest(l.positions[u], FALSE)
               mt == Interest(m.positions[u], TRUE)
               mf == Interest(m.positions[u], FALSE)
    <2>1. /\ m.side_interest[TRUE] = l.side_interest[TRUE] + mt - lt
          /\ m.side_interest[FALSE] = l.side_interest[FALSE] + mf - lf
          /\ mt - mf = lt - lf + quantity
      BY DEF Trade, NetLong
    <2>2. lt \in Int /\ lf \in Int /\ mt \in Int /\ mf \in Int
      BY <1>4, Zenon
    <2> HIDE DEF lt, lf, mt, mf
    <2> DEFINE x == l.side_interest[TRUE]
               y == l.side_interest[FALSE]
               z == m.side_interest[TRUE]
               w == m.side_interest[FALSE]
    <2>3. x \in Int /\ y \in Int /\ z = x + mt - lt /\ w = y + mf - lf
      BY <1>1, <2>1, SkewType, Zenon
    <2> HIDE DEF x, y, z, w
    <2>4. z - w = x - y + quantity
      BY <2>1, <2>2, <2>3
    <2>5. QED
      BY <2>4, Zenon DEF Skew, x, y, z, w
  <1>13. QED
    BY <1>1, <1>4, <1>7, <1>10, <1>11, <1>12 DEF Shift

\* Invocations one after the other.
LEMMA ShiftThenShift ==
  ASSUME NEW l, NEW m, NEW n, NEW q \in Int, NEW c \in Int, NEW r \in Int, NEW d \in Int,
         Books(l), Shift(l, m, q, c), Shift(m, n, r, d)
  PROVE  Shift(l, n, q + r, c + d)
  <1>1. Books(n) /\ n.index = l.index /\ Skew(n) = (Skew(l) + q) + r /\ Net(n) = (Net(l) - c) - d
    BY DEF Shift
  <1>2. Skew(l) \in Int /\ Net(l) \in Int
    <2>1. l \in Ledger /\ l.side_interest \in [BOOLEAN -> Int] /\ l.rounding \in Int
      BY DEF Books, Ledger
    <2>2. Skew(l) \in Int
      BY <2>1, SkewType, Zenon
    <2>3. Holdings(l) \in Int /\ Funding(l) \in Int /\ Costs(l) \in Int
      BY <2>1, SumsOfLedger, Zenon
    <2>4. Net(l) \in Int
      BY <2>1, <2>3 DEF Net
    <2>5. QED
      BY <2>2, <2>4
  <1>3. QED
    BY <1>1, <1>2 DEF Shift

\* A credit alone moves no position and is all that the vault comes to owe.
LEMMA CreditShift ==
  ASSUME NEW l, NEW a \in Accounts, NEW amount \in Int, Books(l), NEW m, m = Credit(l, a, amount)
  PROVE  Shift(l, m, 0, -amount) /\ Holdings(m) = Holdings(l) + amount /\ Funding(m) = Funding(l)
  <1>1. /\ l \in Ledger /\ m \in Ledger /\ m.balance[a] = l.balance[a] + amount
        /\ \A b \in Accounts \ {a} : m.balance[b] = l.balance[b]
        /\ m.positions = l.positions /\ m.synced = l.synced
        /\ m.index = l.index /\ m.synced_index = l.synced_index
        /\ SameCounters(l, m)
    BY CreditEffect DEF Books
  <1>2. /\ l.balance \in [Accounts -> Int] /\ m.balance \in [Accounts -> Int]
        /\ l.rounding \in Int /\ l.side_interest \in [BOOLEAN -> Int]
    BY <1>1 DEF Ledger
  <1>3. Books(m)
    BY <1>1 DEF Books, SameCounters
  <1>4. Holdings(m) = Holdings(l) + (m.balance[a] - l.balance[a]) /\ Holdings(l) \in Int
    BY <1>1, <1>2, FiniteAccounts, OneSummand DEF Holdings
  <1>5. Holdings(m) = Holdings(l) + amount
    BY <1>1, <1>2, <1>4
  <1>6. Funding(m) = Funding(l) /\ Costs(m) = Costs(l) /\ m.rounding = l.rounding /\ Skew(m) = Skew(l)
    BY <1>1 DEF Funding, Costs, SameCounters, Skew
  <1>7. Funding(l) \in Int /\ Costs(l) \in Int
    BY <1>1, SumsOfLedger
  <1>8. Net(m) = Net(l) - (-amount)
    BY <1>2, <1>4, <1>5, <1>6, <1>7 DEF Net
  <1>9. Skew(m) = Skew(l) + 0
    <2>1. Skew(l) \in Int
      BY <1>1, SkewType, Zenon
    <2>2. QED
      BY <1>6, <2>1
  <1>10. QED
    BY <1>1, <1>3, <1>5, <1>6, <1>8, <1>9 DEF Shift

-----------------------------------------------------------------------------
(* The invocations: a fill's sides and fees, funding.                      *)

\* A rate of an amount that is not negative is not negative.
LEMMA RateOfNatural ==
  ASSUME NEW amount \in Nat, NEW bps \in Nat
  PROVE  ApplyBps(amount, bps) \in Nat
  <1>1. amount * bps \in Nat
    OBVIOUS
  <1>2. QED
    BY <1>1 DEF ApplyBps

\* Whether an account is above its initial margin depends on its own entries only.
LEMMA SameMargin ==
  ASSUME NEW l, NEW m, NEW u, m.balance[u] = l.balance[u], m.synced[u] = l.synced[u],
         m.synced_index = l.synced_index, AboveInitialMargin(l, u)
  PROVE  AboveInitialMargin(m, u)
  <1>1. Equity(m, u) = Equity(l, u)
    BY DEF Equity, OverPositions
  <1>2. InitialMargin(m, u) = InitialMargin(l, u)
    BY DEF InitialMargin, Required, OverPositions
  <1>3. QED
    BY <1>1, <1>2 DEF AboveInitialMargin, Priced

\* Between l and m, which no call passed through while the vault was paused,
\* nobody but the accounts of S and the fee recipient changes.
Confined(l, m, S) ==
    /\ m.synced_index = l.synced_index
    /\ \A v \in Users \ S : m.balance[v] = l.balance[v] /\ m.positions[v] = l.positions[v]
                             /\ m.synced[v] = l.synced[v]
    /\ paused => m.balance = l.balance

\* A trading fee moves from the trader to the fee recipient (charge_trade_fee)
\* and leaves the trader above the initial margin.
LEMMA FeeEffect ==
  ASSUME NEW l, Books(l), NEW u \in Users, NEW size \in Nat, NEW at \in Nat, NEW bps \in Nat,
         NEW m \in ChargeTradeFee(l, u, size, at, bps), AboveInitialMargin(l, u)
  PROVE  Shift(l, m, 0, 0) /\ Confined(l, m, {u}) /\ m.positions = l.positions
         /\ AboveInitialMargin(m, u)
  <1> DEFINE fee == ApplyBps(size * at, bps)
             paid == Credit(l, u, -fee)
  <1>0. l \in Ledger /\ u \in Accounts /\ FeeRecipient \in Accounts /\ FeeRecipient # u
    BY ClearingHouseConstants DEF Books, Accounts
  <1>1. fee \in Int /\ -fee \in Int
    <2> DEFINE amount == size * at
    <2>1. amount \in Nat
      OBVIOUS
    <2> HIDE DEF amount
    <2>2. ApplyBps(amount, bps) \in Nat
      BY <2>1, RateOfNatural
    <2>3. fee \in Nat
      BY <2>2 DEF amount
    <2> HIDE DEF fee
    <2>4. QED
      BY <2>3
  <1>2. \/ m = l
        \/ ~paused /\ AboveInitialMargin(paid, u) /\ m = Credit(paid, FeeRecipient, fee)
    BY DEF ChargeTradeFee, AndThen, ApplyPnl, Succeed
  <1>3. CASE m = l
    <2>1. Skew(l) \in Int
      BY <1>0, SkewType, Zenon
    <2>2. Holdings(l) \in Int /\ Funding(l) \in Int /\ Costs(l) \in Int /\ l.rounding \in Int
      <3>1. l.rounding \in Int
        BY <1>0 DEF Ledger
      <3>2. QED
        BY <1>0, <3>1, SumsOfLedger, Zenon
    <2>3. Net(l) = Net(l) - 0
      BY <2>2 DEF Net
    <2>4. Shift(l, l, 0, 0)
      BY <2>1, <2>3 DEF Shift
    <2>5. QED
      BY <1>3, <2>4 DEF Confined
  <1>4. CASE ~paused /\ AboveInitialMargin(paid, u) /\ m = Credit(paid, FeeRecipient, fee)
    <2> HIDE DEF fee, paid
    <2>1. Shift(l, paid, 0, -(-fee)) /\ Books(paid)
      <3> DEFINE amount == -fee
      <3>1. amount \in Int /\ paid = Credit(l, u, amount)
        BY <1>1 DEF paid
      <3> HIDE DEF amount
      <3>2. Shift(l, paid, 0, -amount)
        BY <1>0, <3>1, CreditShift
      <3>3. QED
        BY <3>2 DEF amount, Shift
    <2>2. Shift(paid, m, 0, -fee)
      BY <1>0, <1>1, <1>4, <2>1, CreditShift
    <2>3. Shift(l, m, 0 + 0, -(-fee) + (-fee))
      BY <1>1, <2>1, <2>2, ShiftThenShift
    <2>4. 0 + 0 = 0 /\ -(-fee) + (-fee) = 0
      BY <1>1
    <2>5. paid \in Ledger
      BY <2>1 DEF Books
    <2>6. /\ paid.positions = l.positions /\ paid.synced = l.synced
          /\ paid.synced_index = l.synced_index
          /\ \A v \in Users \ {u} : paid.balance[v] = l.balance[v]
      BY <1>0, <1>1, CreditEffect DEF paid, Accounts
    <2>7. /\ m.positions = paid.positions /\ m.synced = paid.synced
          /\ m.synced_index = paid.synced_index
          /\ \A v \in Users : m.balance[v] = paid.balance[v]
      <3>1. /\ m.positions = paid.positions /\ m.synced = paid.synced
            /\ m.synced_index = paid.synced_index
            /\ \A v \in Accounts \ {FeeRecipient} : m.balance[v] = paid.balance[v]
        <4> DEFINE r == FeeRecipient
        <4>1. m = Credit(paid, r, fee) /\ r \in Accounts
          BY <1>0, <1>4
        <4> HIDE DEF r
        <4>2. /\ m.positions = paid.positions /\ m.synced = paid.synced
              /\ m.synced_index = paid.synced_index
              /\ \A v \in Accounts \ {r} : m.balance[v] = paid.balance[v]
          BY <1>1, <2>5, <4>1, CreditEffect, SMTT(60)
        <4>3. QED
          BY <4>2 DEF r
      <3>2. Users \subseteq Accounts \ {FeeRecipient}
        BY ClearingHouseConstants DEF Accounts
      <3>3. QED
        BY <3>1, <3>2
    <2>8. AboveInitialMargin(m, u)
      BY <1>4, <2>7, SameMargin
    <2>9. QED
      BY <1>4, <2>3, <2>4, <2>6, <2>7, <2>8 DEF Confined
  <1>5. QED
    BY <1>2, <1>3, <1>4

\* Two trades of one account are a trade.
LEMMA TradeThenTrade ==
  ASSUME NEW l \in Ledger, NEW m, NEW n, NEW u \in Users,
         NEW q \in Int, NEW c \in Int, NEW r \in Int, NEW d \in Int,
         Trade(l, m, u, q, c), Trade(m, n, u, r, d)
  PROVE  Trade(l, n, u, q + r, c + d)
  <1>1. /\ m \in Ledger /\ n \in Ledger /\ u \in Accounts /\ n.synced[u] = n.positions[u]
    BY DEF Trade, Accounts
  <1>2. OthersUntouched(l, n, u)
    BY DEF Trade, OthersUntouched
  <1>3. /\ l.positions[u] \in Slots /\ m.positions[u] \in Slots /\ n.positions[u] \in Slots
        /\ l.index \in Index /\ m.index \in Index /\ n.index \in Index
    BY <1>1 DEF Ledger
  <1>4. ASSUME NEW s \in Slots, NEW index \in Index
        PROVE  /\ Size(s) \in Int /\ Owed(s, index) \in Int /\ Cost(s) \in Int
               /\ Interest(s, TRUE) \in Int /\ Interest(s, FALSE) \in Int
    <2>1. Size(s) \in Nat /\ Owed(s, index) \in Int /\ Cost(s) \in Int
          /\ \A side \in BOOLEAN : Interest(s, side) \in Nat
      BY SlotTypes, Zenon
    <2>2. Interest(s, TRUE) \in Nat /\ Interest(s, FALSE) \in Nat
      BY <2>1, Zenon
    <2>3. \A x \in Nat : x \in Int
      OBVIOUS
    <2>4. QED
      BY <2>1, <2>2, <2>3, Zenon
  <1>5. n.open_interest = l.open_interest + Size(n.positions[u]) - Size(l.positions[u])
    <2>1. /\ m.open_interest = l.open_interest + Size(m.positions[u]) - Size(l.positions[u])
          /\ n.open_interest = m.open_interest + Size(n.positions[u]) - Size(m.positions[u])
      BY DEF Trade
    <2>2. /\ Size(l.positions[u]) \in Int /\ Size(m.positions[u]) \in Int
          /\ Size(n.positions[u]) \in Int /\ l.open_interest \in Int
      BY <1>3, <1>4 DEF Ledger
    <2>3. QED
      BY <2>1, <2>2
  <1>6. ASSUME NEW side \in BOOLEAN
        PROVE  n.side_interest[side] =
                  l.side_interest[side] + Interest(n.positions[u], side) - Interest(l.positions[u], side)
    <2> DEFINE a == Interest(l.positions[u], side)
               b == Interest(m.positions[u], side)
               e == Interest(n.positions[u], side)
    <2>1. /\ m.side_interest[side] = l.side_interest[side] + b - a
          /\ n.side_interest[side] = m.side_interest[side] + e - b
      BY DEF Trade
    <2>2. a \in Int /\ b \in Int /\ e \in Int
      BY <1>3, SlotTypes
    <2>3. l.side_interest[side] \in Int
      BY DEF Ledger
    <2> HIDE DEF a, b, e
    <2>4. n.side_interest[side] = l.side_interest[side] + e - a
      BY <2>1, <2>2, <2>3
    <2>5. QED
      BY <2>4 DEF a, e
  <1>7. NetLong(n.positions[u]) = NetLong(l.positions[u]) + (q + r)
    <2>1. NetLong(l.positions[u]) \in Int
      <3> DEFINE a == Interest(l.positions[u], TRUE)
                 b == Interest(l.positions[u], FALSE)
      <3>1. a \in Int /\ b \in Int
        BY <1>3, <1>4, Zenon
      <3> HIDE DEF a, b
      <3>2. a - b \in Int
        BY <3>1
      <3>3. QED
        BY <3>2, Zenon DEF NetLong, a, b
    <2>2. /\ NetLong(m.positions[u]) = NetLong(l.positions[u]) + q
          /\ NetLong(n.positions[u]) = NetLong(m.positions[u]) + r
      BY DEF Trade
    <2>3. QED
      BY <2>1, <2>2
  <1>8. Worth(n, u) - n.rounding = Worth(l, u) - l.rounding - (c + d)
    <2>1. /\ Worth(m, u) - m.rounding = Worth(l, u) - l.rounding - c
          /\ Worth(n, u) - n.rounding = Worth(m, u) - m.rounding - d
      BY DEF Trade
    <2>2. /\ l.rounding \in Int
          /\ Owed(l.positions[u], l.index) \in Int /\ Cost(l.positions[u]) \in Int
          /\ l.balance[u] \in Int
      BY <1>1, <1>3, <1>4 DEF Ledger
    <2>3. Worth(l, u) \in Int
      BY <2>2 DEF Worth
    <2>4. QED
      BY <2>1, <2>2, <2>3
  <1>9. QED
    BY <1>1, <1>2, <1>5, <1>6, <1>7, <1>8 DEF Trade

\* The position of a side that settle_user_side picks, where there is one.
LEMMA PickedSide ==
  ASSUME NEW l \in Ledger, NEW u \in Users, NEW side \in BOOLEAN
  PROVE  \/ OnSide(l, u, side) = {}
         \/ /\ OnSide(l, u, side) = {1} /\ Max(OnSide(l, u, side)) = 1
            /\ \E p \in Position : l.positions[u] = <<p>> /\ p.is_long = side
  <1>1. l.positions[u] \in Slots
    BY DEF Ledger
  <1>2. CASE l.positions[u] = <<>>
    BY <1>1, <1>2, SlotCases DEF OnSide
  <1>3. CASE l.positions[u] # <<>>
    <2>1. PICK p \in Position : l.positions[u] = <<p>> /\ l.positions[u][1] = p /\ DOMAIN l.positions[u] = {1}
      BY <1>1, <1>3, SlotCases
    <2>2. CASE p.is_long = side
      <3>1. OnSide(l, u, side) = {1}
        BY <2>1, <2>2 DEF OnSide
      <3>2. Max({1}) = 1
        BY MinMaxOfOne
      <3>3. QED
        BY <2>1, <2>2, <3>1, <3>2
    <2>3. CASE p.is_long # side
      BY <2>1, <2>3 DEF OnSide
    <2>4. QED
      BY <2>2, <2>3
  <1>4. QED
    BY <1>2, <1>3

\* A side of a fill (settle_user_side) buys the fill's size at its price, by
\* closing, increasing and opening, and leaves its account above the initial
\* margin; it moves no balance of a paused vault.
LEMMA SideEffect ==
  ASSUME NEW l \in Ledger, NEW u \in Users, NEW is_long \in BOOLEAN, NEW reduce_only \in BOOLEAN,
         NEW size \in Nat \ {0}, NEW at \in Nat \ {0},
         NEW m \in SettleUserSide(l, u, is_long, reduce_only, size, at)
  PROVE  /\ Trade(l, m, u, Way(is_long) * size, Way(is_long) * size * at)
         /\ AboveInitialMargin(m, u)
         /\ paused => m.balance = l.balance
  <1> DEFINE same == OnSide(l, u, is_long)
             opposite == OnSide(l, u, ~is_long)
             closing == Lesser(l.positions[u][Max(opposite)].size, size)
  <1>0. l.positions[u] \in Slots /\ (~is_long) \in BOOLEAN
    BY DEF Ledger
  <1>1. CASE opposite # {}
    <2> DEFINE side == ~is_long
    <2>1. side \in BOOLEAN /\ opposite = OnSide(l, u, side)
      BY <1>0, Zenon
    <2> HIDE DEF side
    <2>2. /\ Max(opposite) = 1
          /\ \E p \in Position : l.positions[u] = <<p>> /\ p.is_long = side
      BY <1>1, <2>1, PickedSide
    <2>3. PICK p \in Position : l.positions[u] = <<p>> /\ p.is_long = side
      BY <2>2
    <2>4. (Sign(p) = -1 /\ Way(is_long) = 1) \/ (Sign(p) = 1 /\ Way(is_long) = -1)
      <3>1. CASE is_long
        <4>1. p.is_long = FALSE
          BY <2>3, <3>1, Zenon DEF side
        <4>2. QED
          BY <3>1, <4>1, Zenon DEF Sign, Way
      <3>2. CASE ~is_long
        <4>1. p.is_long = TRUE
          BY <2>3, <3>2, Zenon DEF side
        <4>2. QED
          BY <3>2, <4>1, Zenon DEF Sign, Way
      <3>3. QED
        BY <3>1, <3>2
    <2>5. closing = Lesser(p.size, size) /\ p.size \in Nat \ {0}
      BY <2>2, <2>3 DEF Position
    <2>6. closing \in Nat \ {0} /\ closing <= size /\ closing <= p.size
          /\ (closing = size \/ closing = p.size)
      BY <2>5 DEF Lesser
    <2>7. PICK k \in ReducePosition(l, u, 1, closing, at, TRUE) :
             m \in (IF closing = size THEN {k}
                    ELSE IF reduce_only THEN {}
                    ELSE OpenPosition(k, u, size - closing, is_long, at))
      BY <1>1, <2>2 DEF SettleUserSide, AndThen
    <2> HIDE DEF closing, opposite, same
    <2>w. Way(is_long) \in {1, -1}
      BY DEF Way
    <2> DEFINE q == -(Sign(p) * closing)
               c == -(Sign(p) * closing * at)
    <2>8. /\ Trade(l, k, u, q, c)
          /\ ~paused /\ AboveInitialMargin(k, u)
          /\ closing = p.size => k.positions[u] = <<>>
      <3>1. l.positions[u] = <<p>> /\ closing \in Nat \ {0}
        BY <2>3, <2>6
      <3>2. Trade(l, k, u, -(Sign(p) * closing), -(Sign(p) * closing * at))
        BY <3>1, ReduceEffect
      <3>3. ~paused
        BY <3>1, ReduceEffect
      <3>4. AboveInitialMargin(k, u)
        BY <3>1, ReduceEffect
      <3>5. closing = p.size => k.positions[u] = <<>>
        <4>1. Holds(k, u, Remaining(Refreshed(p, l.index), closing))
          BY <3>1, ReduceEffect
        <4>2. Refreshed(p, l.index).size = p.size
          BY RefreshedPosition DEF Ledger
        <4>3. QED
          BY <4>1, <4>2 DEF Remaining, Holds
      <3>6. QED
        BY <3>2, <3>3, <3>4, <3>5
    <2>9. q = Way(is_long) * closing /\ c = Way(is_long) * closing * at /\ q \in Int /\ c \in Int
      <3>1. CASE Way(is_long) = 1
        BY <2>4, <2>6, <3>1
      <3>2. CASE Way(is_long) = -1
        BY <2>4, <2>6, <3>2
      <3>3. QED
        BY <2>w, <3>1, <3>2
    <2>10. CASE closing = size
      BY <2>7, <2>8, <2>9, <2>10
    <2>11. CASE closing # size
      <3> DEFINE rest == size - closing
                 r == Way(is_long) * rest
                 d == Way(is_long) * rest * at
      <3>1. m \in OpenPosition(k, u, rest, is_long, at) /\ rest \in Nat \ {0}
        BY <2>6, <2>7, <2>11
      <3>2. k \in Ledger /\ k.positions[u] = <<>>
        BY <2>6, <2>8, <2>11 DEF Trade
      <3> HIDE DEF rest
      <3>3. Trade(k, m, u, r, d) /\ AboveInitialMargin(m, u)
        BY <3>1, <3>2, OpenEffect
      <3>4. r \in Int /\ d \in Int
        BY <2>w, <3>1
      <3> HIDE DEF r, d
      <3> HIDE DEF q, c
      <3>5. Trade(l, m, u, q + r, c + d)
        BY <2>8, <2>9, <3>3, <3>4, TradeThenTrade
      <3>6. q + r = Way(is_long) * size /\ c + d = Way(is_long) * size * at
        <4>1. CASE Way(is_long) = 1
          BY <2>6, <2>9, <4>1 DEF r, d, rest
        <4>2. CASE Way(is_long) = -1
          BY <2>6, <2>9, <4>2 DEF r, d, rest
        <4>3. QED
          BY <2>w, <4>1, <4>2
      <3>7. QED
        BY <2>8, <3>3, <3>5, <3>6
    <2>12. QED
      BY <2>10, <2>11
  <1>2. CASE opposite = {} /\ same # {}
    <2>1. /\ Max(same) = 1
          /\ \E p \in Position : l.positions[u] = <<p>> /\ p.is_long = is_long
      BY <1>2, PickedSide
    <2>2. PICK p \in Position : l.positions[u] = <<p>> /\ p.is_long = is_long
      BY <2>1
    <2>3. Sign(p) = Way(is_long)
      BY <2>2 DEF Sign, Way
    <2>4. m \in IncreasePosition(l, u, 1, size, at)
      BY <1>2, <2>1 DEF SettleUserSide
    <2> HIDE DEF same, opposite, closing
    <2>5. /\ Trade(l, m, u, Sign(p) * size, Sign(p) * size * at)
          /\ AboveInitialMargin(m, u)
          /\ paused => m.balance = l.balance
      BY <2>2, <2>4, IncreaseEffect
    <2>6. QED
      BY <2>3, <2>5
  <1>3. CASE opposite = {} /\ same = {}
    <2>1. l.positions[u] = <<>>
      <3> SUFFICES ASSUME l.positions[u] # <<>> PROVE FALSE
        OBVIOUS
      <3>1. PICK p \in Position : l.positions[u] = <<p>> /\ l.positions[u][1] = p /\ DOMAIN l.positions[u] = {1}
        BY <1>0, SlotCases
      <3>2. p.is_long \in BOOLEAN
        BY DEF Position
      <3>3. p.is_long = is_long \/ p.is_long = ~is_long
        BY <3>2
      <3>4. 1 \in same \/ 1 \in opposite
        BY <3>1, <3>3 DEF OnSide
      <3>5. QED
        BY <1>3, <3>4
    <2>2. m \in OpenPosition(l, u, size, is_long, at)
      BY <1>3 DEF SettleUserSide
    <2> HIDE DEF same, opposite, closing
    <2>3. QED
      BY <2>1, <2>2, OpenEffect
  <1>4. QED
    BY <1>1, <1>2, <1>3

\* A trade of one account is confined to it.
LEMMA TradeConfined ==
  ASSUME NEW l, NEW m, NEW u \in Users, NEW q, NEW c, Trade(l, m, u, q, c),
         paused => m.balance = l.balance
  PROVE  Confined(l, m, {u})
  BY DEF Trade, OthersUntouched, Confined, Accounts

\* A fill settles both sides and charges both fees (execute_settlement): what
\* one account buys the other sells, and both end above their initial margin.
LEMMA FillEffect ==
  ASSUME NEW l, Books(l), NEW maker \in Users, NEW taker \in Users, maker # taker,
         NEW maker_long \in BOOLEAN, NEW maker_ro \in BOOLEAN, NEW taker_ro \in BOOLEAN,
         NEW size \in Nat \ {0}, NEW at \in Nat \ {0},
         NEW m \in ExecuteFill(l, maker, taker, maker_long, maker_ro, taker_ro, size, at)
  PROVE  /\ Shift(l, m, 0, 0) /\ Confined(l, m, {maker, taker})
         /\ AboveInitialMargin(m, maker) /\ AboveInitialMargin(m, taker)
  <1> DEFINE other == ~maker_long
             x == Way(maker_long) * size
             y == Way(other) * size
             e == Way(maker_long) * size * at
             f == Way(other) * size * at
  <1>0. MakerFeeBps \in Nat /\ TakerFeeBps \in Nat /\ size \in Nat /\ at \in Nat /\ other \in BOOLEAN
    BY ClearingHouseConstants
  <1>1. PICK a \in SettleUserSide(l, maker, maker_long, maker_ro, size, at) :
        \E b \in ChargeTradeFee(a, maker, size, at, MakerFeeBps) :
        \E c \in SettleUserSide(b, taker, other, taker_ro, size, at) :
           m \in ChargeTradeFee(c, taker, size, at, TakerFeeBps)
    BY DEF ExecuteFill, AndThen
  <1>2. PICK b \in ChargeTradeFee(a, maker, size, at, MakerFeeBps) :
        \E c \in SettleUserSide(b, taker, other, taker_ro, size, at) :
           m \in ChargeTradeFee(c, taker, size, at, TakerFeeBps)
    BY <1>1
  <1>3. PICK c \in SettleUserSide(b, taker, other, taker_ro, size, at) :
           m \in ChargeTradeFee(c, taker, size, at, TakerFeeBps)
    BY <1>2
  <1>w. /\ x \in Int /\ y \in Int /\ e \in Int /\ f \in Int
        /\ ((x + 0) + y) + 0 = 0 /\ ((e + 0) + f) + 0 = 0
    <2>1. (Way(maker_long) = 1 /\ Way(other) = -1) \/ (Way(maker_long) = -1 /\ Way(other) = 1)
      BY Zenon DEF Way
    <2> HIDE DEF other
    <2>2. CASE Way(maker_long) = 1 /\ Way(other) = -1
      BY <2>2
    <2>3. CASE Way(maker_long) = -1 /\ Way(other) = 1
      BY <2>3
    <2>4. QED
      BY <2>1, <2>2, <2>3
  <1>4. l \in Ledger
    BY DEF Books
  <1>5. Trade(l, a, maker, x, e) /\ AboveInitialMargin(a, maker) /\ (paused => a.balance = l.balance)
    BY <1>4, SideEffect
  <1> HIDE DEF other, x, y, e, f
  <1>6. Shift(l, a, x, e) /\ Books(a) /\ Confined(l, a, {maker})
    <2>1. Shift(l, a, x, e)
      BY <1>5, <1>w, TradeShift
    <2>2. Confined(l, a, {maker})
      BY <1>5, TradeConfined
    <2>3. QED
      BY <2>1, <2>2 DEF Shift
  <1>7. /\ Shift(a, b, 0, 0) /\ Books(b) /\ Confined(a, b, {maker}) /\ AboveInitialMargin(b, maker)
    BY <1>0, <1>5, <1>6, FeeEffect DEF Shift
  <1>8. Trade(b, c, taker, y, f) /\ AboveInitialMargin(c, taker) /\ (paused => c.balance = b.balance)
    <2>1. b \in Ledger
      BY <1>7 DEF Books
    <2>2. QED
      BY <1>0, <2>1, SideEffect DEF y, f
  <1>9. Shift(b, c, y, f) /\ Books(c) /\ Confined(b, c, {taker})
    <2>1. Shift(b, c, y, f)
      BY <1>7, <1>8, <1>w, TradeShift
    <2>2. Confined(b, c, {taker})
      BY <1>8, TradeConfined
    <2>3. QED
      BY <2>1, <2>2 DEF Shift
  <1>10. /\ Shift(c, m, 0, 0) /\ Confined(c, m, {taker}) /\ AboveInitialMargin(m, taker)
    BY <1>0, <1>3, <1>8, <1>9, FeeEffect
  <1>11. Shift(l, b, x + 0, e + 0)
    BY <1>6, <1>7, <1>w, ShiftThenShift
  <1>12. Shift(l, c, (x + 0) + y, (e + 0) + f)
    <2>1. x + 0 \in Int /\ e + 0 \in Int
      BY <1>w
    <2>2. QED
      BY <1>9, <1>11, <1>w, <2>1, ShiftThenShift
  <1>13. Shift(l, m, ((x + 0) + y) + 0, ((e + 0) + f) + 0)
    <2>1. (x + 0) + y \in Int /\ (e + 0) + f \in Int
      BY <1>w
    <2>2. QED
      BY <1>10, <1>12, <2>1, ShiftThenShift
  <1>14. Confined(l, m, {maker, taker})
    BY <1>6, <1>7, <1>9, <1>10 DEF Confined
  <1>15. AboveInitialMargin(m, maker)
    <2>1. /\ m.balance[maker] = b.balance[maker] /\ m.synced[maker] = b.synced[maker]
          /\ m.synced_index = b.synced_index
      BY <1>9, <1>10 DEF Confined
    <2>2. QED
      BY <1>7, <2>1, SameMargin
  <1>16. QED
    BY <1>w, <1>10, <1>13, <1>14, <1>15

\* The funding indexes after a move of delta: the sides move apart.
MovedIndex(index, delta) == [index EXCEPT ![TRUE] = @ + delta, ![FALSE] = @ - delta]

\* What a move of the indexes changes in what an account is owed.
LEMMA FundingOfSlot ==
  ASSUME NEW s \in Slots, NEW index \in Index, NEW delta \in Int, NEW after, after = MovedIndex(index, delta)
  PROVE  /\ after \in Index
         /\ Owed(s, after) = Owed(s, index) + (-delta) * Interest(s, TRUE) + delta * Interest(s, FALSE)
  <1> DEFINE rt == index[TRUE]
             rf == index[FALSE]
  <1>1. rt \in Int /\ rf \in Int
    <2>1. \A side \in BOOLEAN : index[side] \in Int
      BY DEF Index
    <2>2. QED
      BY <2>1, Zenon
  <1> HIDE DEF rt, rf
  <1>2. after \in Index /\ after[TRUE] = rt + delta /\ after[FALSE] = rf - delta
    <2>1. TRUE # FALSE
      OBVIOUS
    <2>2. rt + delta \in Int /\ rf - delta \in Int
      BY <1>1
    <2>3. after[TRUE] = rt + delta /\ after[FALSE] = rf - delta /\ DOMAIN after = BOOLEAN
      BY <2>1, Zenon DEF MovedIndex, Index, rt, rf
    <2>4. \A side \in BOOLEAN : after[side] \in Int
      BY <2>2, <2>3, Zenon
    <2>5. after = [side \in BOOLEAN |-> after[side]]
      BY <2>3, Zenon DEF MovedIndex
    <2>6. after \in Index
      BY <2>4, <2>5, Zenon DEF Index
    <2>7. QED
      BY <2>3, <2>6, Zenon
  <1>3. CASE s = <<>>
    <2>1. Owed(s, after) = 0 /\ Owed(s, index) = 0 /\ Interest(s, TRUE) = 0 /\ Interest(s, FALSE) = 0
      BY <1>3, NoPosition, Zenon
    <2>2. (-delta) * 0 = 0 /\ delta * 0 = 0
      OBVIOUS
    <2>3. 0 = 0 + 0 + 0
      OBVIOUS
    <2>4. QED
      BY <1>2, <2>1, <2>2, <2>3, Zenon
  <1>4. CASE s # <<>>
    <2>1. PICK p \in Position : s = <<p>> /\ s[1] = p
      BY <1>4, SlotCases
    <2> DEFINE z == p.size
               b == p.last_funding_index
    <2>2. z \in Int /\ b \in Int /\ p.is_long \in BOOLEAN
      BY DEF Position
    <2> HIDE DEF z, b
    <2>3. CASE p.is_long = TRUE
      <3>1. Owed(s, after) = -(z * ((rt + delta) - b)) /\ Owed(s, index) = -(z * (rt - b))
        <4> DEFINE x == after[p.is_long]
                   y == index[p.is_long]
        <4>1. x = rt + delta /\ y = rt
          BY <1>2, <2>3 DEF rt
        <4>2. Owed(s, after) = FundingPnl(p, after) /\ Owed(s, index) = FundingPnl(p, index)
          BY <1>4, <2>1, Zenon DEF Owed
        <4>3. FundingPnl(p, after) = -(z * (x - b)) /\ FundingPnl(p, index) = -(z * (y - b))
          BY Zenon DEF FundingPnl, z, b
        <4> HIDE DEF x, y
        <4>4. QED
          BY <4>1, <4>2, <4>3, Zenon
      <3>2. Interest(s, TRUE) = z /\ Interest(s, FALSE) = 0
        BY <1>4, <2>1, <2>3, Zenon DEF Interest, z
      <3>3. -(z * ((rt + delta) - b)) = -(z * (rt - b)) + (-delta) * z + delta * 0
        BY <1>1, <2>2
      <3>4. QED
        BY <1>2, <3>1, <3>2, <3>3, Zenon
    <2>4. CASE p.is_long = FALSE
      <3>1. Owed(s, after) = -(z * (rf - delta - b)) /\ Owed(s, index) = -(z * (rf - b))
        BY <1>2, <1>4, <2>1, <2>4, Zenon DEF Owed, FundingPnl, z, b, rf
      <3>2. Interest(s, TRUE) = 0 /\ Interest(s, FALSE) = z
        BY <1>4, <2>1, <2>4, Zenon DEF Interest, z
      <3>3. -(z * (rf - delta - b)) = -(z * (rf - b)) + (-delta) * 0 + delta * z
        BY <1>1, <2>2
      <3>4. QED
        BY <1>2, <3>1, <3>2, <3>3, Zenon
    <2>5. QED
      BY <2>2, <2>3, <2>4
  <1>5. QED
    BY <1>3, <1>4

\* What update_funding makes of a ledger.
MovedLedger(l, delta) ==
    [l EXCEPT !.index = MovedIndex(l.index, delta), !.synced_index = MovedIndex(l.index, delta)]
Funded(l, delta) ==
    IF FundingSurplus(l, delta) = 0 THEN {MovedLedger(l, delta)}
    ELSE ApplyPnl(MovedLedger(l, delta), Insurance, FundingSurplus(l, delta))

\* A move of the funding indexes (update_funding) takes from one side what rt
\* gives to the other and credits the difference to the insurance account.
LEMMA FundingEffect ==
  ASSUME NEW l, Books(l), NEW delta \in Int, NEW m \in Funded(l, delta)
  PROVE  /\ Books(m) /\ Skew(m) = Skew(l) /\ Net(m) = Net(l)
         /\ m.index = MovedIndex(l.index, delta) /\ m.synced_index = MovedIndex(l.index, delta)
         /\ m.positions = l.positions /\ m.synced = l.synced
         /\ paused => m.balance = l.balance
         /\ \A u \in Users : m.balance[u] = l.balance[u]
  <1> DEFINE after == MovedIndex(l.index, delta)
             moved == MovedLedger(l, delta)
  <1>m. m \in (IF FundingSurplus(l, delta) = 0 THEN {moved}
               ELSE ApplyPnl(moved, Insurance, FundingSurplus(l, delta)))
    BY DEF Funded
  <1>0. l \in Ledger /\ Insurance \in Accounts /\ Insurance \notin Users
    BY ClearingHouseConstants DEF Books, Accounts
  <1>1. \A u \in Users : l.positions[u] \in Slots
    BY <1>0 DEF Ledger
  <1>2. l.index \in Index
    BY <1>0 DEF Ledger
  <1>3. after \in Index
    <2>1. <<>> \in Slots
      BY DEF Slots
    <2>2. QED
      BY <1>2, <2>1, FundingOfSlot, Zenon
  <1> HIDE DEF after
  <1>4. /\ moved \in Ledger /\ moved.index = after /\ moved.synced_index = after
        /\ moved.positions = l.positions /\ moved.synced = l.synced /\ moved.balance = l.balance
        /\ SameCounters(l, moved)
    BY <1>0, <1>3 DEF Ledger, SameCounters, MovedLedger, after
  <1> HIDE DEF moved
  <1>5. Books(moved)
    BY <1>4 DEF Books, SameCounters
  <1>6. Holdings(moved) = Holdings(l) /\ Costs(moved) = Costs(l) /\ moved.rounding = l.rounding
        /\ Skew(moved) = Skew(l)
    BY <1>4 DEF Holdings, Costs, Skew, SameCounters
  <1> DEFINE surplus == FundingSurplus(l, delta)
  <1>7. surplus = delta * Skew(l) /\ surplus \in Int /\ Skew(l) \in Int
    <2>1. Skew(l) \in Int
      BY <1>0, SkewType, Zenon
    <2>2. surplus = delta * Skew(l)
      BY Zenon DEF FundingSurplus, Skew
    <2> HIDE DEF surplus
    <2>3. delta * Skew(l) \in Int
      BY <2>1
    <2>4. QED
      BY <2>1, <2>2, <2>3
  <1>8. Funding(moved) = Funding(l) - surplus
    <2> DEFINE f == [u \in Users |-> Owed(l.positions[u], l.index)]
               g == [u \in Users |-> Interest(l.positions[u], TRUE)]
               k == [u \in Users |-> Interest(l.positions[u], FALSE)]
               h == [u \in Users |-> Owed(l.positions[u], after)]
               e == [u \in Users |-> f[u] + (-delta) * g[u]]
               st == l.side_interest[TRUE]
               sf == l.side_interest[FALSE]
    <2>1. /\ SumFunction(g) = st /\ SumFunction(k) = sf
          /\ Funding(l) = SumFunction(f) /\ Funding(moved) = SumFunction(h)
      <3>1. SumFunction(g) = st /\ SumFunction(k) = sf
        BY Zenon DEF Books
      <3>2. Funding(l) = SumFunction(f) /\ Funding(moved) = SumFunction(h)
        BY <1>4 DEF Funding
      <3>3. QED
        BY <3>1, <3>2
    <2>2. \A u \in Users : f[u] \in Int /\ g[u] \in Int /\ k[u] \in Int
      <3>1. \A s \in Slots : Owed(s, l.index) \in Int /\ \A side \in BOOLEAN : Interest(s, side) \in Nat
        BY <1>2, SlotTypes, Zenon
      <3>2. \A s \in Slots : Interest(s, TRUE) \in Nat /\ Interest(s, FALSE) \in Nat
        BY <3>1, Zenon
      <3>3. \A x \in Nat : x \in Int
        OBVIOUS
      <3>4. QED
        BY <1>1, <3>1, <3>2, <3>3, Zenon
    <2>3. \A u \in Users : h[u] = f[u] + (-delta) * g[u] + delta * k[u]
      <3>1. \A s \in Slots :
               Owed(s, after) = Owed(s, l.index) + (-delta) * Interest(s, TRUE) + delta * Interest(s, FALSE)
        BY <1>2, FundingOfSlot, Zenon DEF after
      <3>2. QED
        BY <1>1, <3>1, Zenon
    <2>4. /\ DOMAIN f = Users /\ DOMAIN g = Users /\ DOMAIN k = Users /\ DOMAIN h = Users
          /\ DOMAIN e = Users /\ \A u \in Users : e[u] = f[u] + (-delta) * g[u]
      BY Zenon
    <2>5. st \in Int /\ sf \in Int
      BY <1>0, SkewType, Zenon
    <2>6. Skew(l) = st - sf
      BY Zenon DEF Skew
    <2> HIDE DEF f, g, k, h, e, st, sf
    <2>7. -delta \in Int /\ \A u \in Users : e[u] \in Int
      BY <2>2, <2>4
    <2> DEFINE minus == -delta
    <2>8. minus \in Int /\ \A u \in Users : e[u] = f[u] + minus * g[u]
      BY <2>4, <2>7
    <2> HIDE DEF minus
    <2>9. SumFunctionOnSet(e, Users) = SumFunctionOnSet(f, Users) + minus * SumFunctionOnSet(g, Users)
      BY <2>2, <2>8, FiniteAccounts, SumCombine
    <2>10. \A u \in Users : h[u] = e[u] + delta * k[u]
      BY <2>3, <2>4
    <2>11. SumFunctionOnSet(h, Users) = SumFunctionOnSet(e, Users) + delta * SumFunctionOnSet(k, Users)
      BY <2>2, <2>7, <2>10, FiniteAccounts, SumCombine
    <2>12. SumFunctionOnSet(f, Users) \in Int
      BY <2>2, FiniteAccounts, SumType
    <2>13. /\ SumFunctionOnSet(f, Users) = Funding(l) /\ SumFunctionOnSet(h, Users) = Funding(moved)
           /\ SumFunctionOnSet(g, Users) = st /\ SumFunctionOnSet(k, Users) = sf
      BY <2>1, <2>4, Zenon DEF SumFunction
    <2>14. Funding(moved) = (Funding(l) + minus * st) + delta * sf /\ Funding(l) \in Int
      BY <2>9, <2>11, <2>12, <2>13, Zenon
    <2>15. minus * st + delta * sf = -(delta * (st - sf)) /\ minus * st \in Int /\ delta * sf \in Int
           /\ delta * (st - sf) \in Int
      BY <2>5 DEF minus
    <2>16. surplus = delta * (st - sf)
      BY <1>7, <2>6, Zenon
    <2> HIDE DEF surplus
    <2>17. QED
      BY <2>14, <2>15, <2>16
  <1>9. Net(moved) = Net(l) - surplus
    <2>1. Holdings(l) \in Int /\ Funding(l) \in Int /\ Costs(l) \in Int
      BY <1>0, SumsOfLedger, Zenon
    <2>2. l.rounding \in Int
      BY <1>0 DEF Ledger
    <2> HIDE DEF surplus
    <2>3. QED
      BY <1>6, <1>7, <1>8, <2>1, <2>2 DEF Net
  <1>10. Net(l) \in Int
    <2>1. Holdings(l) \in Int /\ Funding(l) \in Int /\ Costs(l) \in Int
      BY <1>0, SumsOfLedger, Zenon
    <2>2. l.rounding \in Int
      BY <1>0 DEF Ledger
    <2>3. QED
      BY <2>1, <2>2 DEF Net
  <1> HIDE DEF surplus
  <1>11. CASE surplus = 0
    <2>1. m = moved
      BY <1>11, <1>m DEF surplus
    <2>2. Net(m) = Net(l)
      BY <1>9, <1>10, <1>11, <2>1
    <2>3. QED
      BY <1>4, <1>5, <1>6, <2>1, <2>2 DEF after
  <1>12. CASE surplus # 0
    <2>1. m = Credit(moved, Insurance, surplus) /\ ~paused
      BY <1>12, <1>m DEF surplus, ApplyPnl, Succeed
    <2>2. Shift(moved, m, 0, -surplus)
      BY <1>0, <1>5, <1>7, <2>1, CreditShift
    <2>3. Books(m) /\ Skew(m) = Skew(l) + 0 /\ Net(m) = Net(l) - surplus - (-surplus)
      BY <1>6, <1>9, <2>2 DEF Shift
    <2>4. Skew(m) = Skew(l) /\ Net(m) = Net(l)
      BY <1>7, <1>10, <2>3
    <2> DEFINE r == Insurance
    <2>5. m = Credit(moved, r, surplus) /\ r \in Accounts /\ Users \subseteq Accounts \ {r}
      BY <1>0, <2>1 DEF Accounts
    <2> HIDE DEF r
    <2>6. /\ m.positions = moved.positions /\ m.synced = moved.synced
          /\ m.index = moved.index /\ m.synced_index = moved.synced_index
          /\ \A b \in Accounts \ {r} : m.balance[b] = moved.balance[b]
      <3>1. moved \in Ledger /\ surplus \in Int /\ m = Credit(moved, r, surplus) /\ r \in Accounts
        BY <1>4, <1>7, <2>5
      <3>2. QED
        BY <3>1 DEF Credit, Ledger
    <2>7. QED
      BY <1>4, <2>1, <2>3, <2>4, <2>5, <2>6 DEF after
  <1>13. QED
    BY <1>11, <1>12 DEF after

\* What positions cost falls by an amount.
CostsFall(l, m, amount) == Costs(m) = Costs(l) - amount

\* Closing part of a position, as liquidations and ADL do.
LEMMA ReduceShift ==
  ASSUME NEW l, Books(l), NEW u \in Users, NEW i \in DOMAIN l.positions[u],
         NEW size \in Nat \ {0}, NEW at \in Nat \ {0}, NEW p, p = l.positions[u][i],
         NEW m \in ReducePosition(l, u, i, size, at, FALSE)
  PROVE  /\ p \in Position /\ size <= p.size /\ ~paused
         /\ Shift(l, m, -(Sign(p) * size), -(Sign(p) * size * at))
         /\ Confined(l, m, {u})
         /\ m.rounding = l.rounding
         /\ CostsFall(l, m, Sign(p) * size * p.entry_price)
  <1>0. l \in Ledger /\ l.positions[u] \in Slots
    BY DEF Books, Ledger
  <1>1. i = 1 /\ l.positions[u] = <<p>> /\ p \in Position
    BY <1>0, SlotCases
  <1>2. m \in ReducePosition(l, u, 1, size, at, FALSE) /\ at \in Nat
    BY <1>1
  <1> DEFINE q == -(Sign(p) * size)
             c == -(Sign(p) * size * at)
  <1>3. Trade(l, m, u, -(Sign(p) * size), -(Sign(p) * size * at))
    BY <1>0, <1>1, <1>2, ReduceEffect
  <1>4. size <= p.size /\ ~paused
    BY <1>0, <1>1, <1>2, ReduceEffect
  <1>5. /\ m.rounding = l.rounding
        /\ Cost(m.positions[u]) = Cost(l.positions[u]) - Sign(p) * size * p.entry_price
    <2>1. NotRounded(l, m) /\ CostFalls(l, m, u, Sign(p) * size * p.entry_price)
      BY <1>0, <1>1, <1>2, ReduceEffect
    <2>2. QED
      BY <2>1 DEF NotRounded, CostFalls
  <1>6. q \in Int /\ c \in Int /\ Sign(p) * size * p.entry_price \in Int
    <2>1. Sign(p) \in {1, -1} /\ p.entry_price \in Int
      BY <1>1, SignValues DEF Position
    <2>2. QED
      BY <2>1
  <1>7. Shift(l, m, q, c) /\ Costs(m) = Costs(l) + Cost(m.positions[u]) - Cost(l.positions[u])
    <2> HIDE DEF q, c
    <2>1. Trade(l, m, u, q, c)
      BY <1>3 DEF q, c
    <2>2. QED
      BY <1>6, <2>1, TradeShift
  <1>8. Confined(l, m, {u})
    BY <1>3, <1>4, TradeConfined
  <1>9. Costs(m) = Costs(l) - Sign(p) * size * p.entry_price
    <2> DEFINE x == Sign(p) * size * p.entry_price
               cl == Cost(l.positions[u])
               cm == Cost(m.positions[u])
    <2>1. Costs(l) \in Int
      BY <1>0, SumsOfLedger, Zenon
    <2>2. cl \in Int
      <3>1. l.index \in Index
        BY <1>0 DEF Ledger
      <3>2. QED
        BY <1>0, <3>1, SlotTypes, Zenon
    <2>3. x \in Int /\ cm = cl - x /\ Costs(m) = Costs(l) + cm - cl
      BY <1>5, <1>6, <1>7
    <2> HIDE DEF x, cl, cm
    <2>4. Costs(m) = Costs(l) - x
      BY <2>1, <2>2, <2>3
    <2>5. QED
      BY <2>4 DEF x
  <1>10. QED
    BY <1>1, <1>4, <1>5, <1>7, <1>8, <1>9 DEF CostsFall

-----------------------------------------------------------------------------
(* The inductive invariant.                                                *)

\* The books agree, the house holds the other side of the skew, and the vault's
\* tokens with the house's cash are what the accounts are worth.
BooksBalance ==
    /\ Books(ledger)
    /\ Skew(ledger) + house.quantity = 0
    /\ Net(ledger) + house.cash = custody
    /\ house \in [quantity: Int, cash: Int]
    /\ depositors \subseteq Users
    /\ price \in Prices \cup {Stale} /\ quote \in Quotes \cup {Stale} /\ paused \in BOOLEAN
    /\ custody \in Nat /\ deposited \in Nat /\ fund \in Nat /\ badDebt \in Nat
    /\ fills \in 0..MaxFills

\* BooksBalance is the two invariants that the runs check.
LEMMA BalanceShown == BooksBalance => BooksAgree /\ ValueIsConserved
  <1> SUFFICES ASSUME BooksBalance PROVE BooksAgree /\ ValueIsConserved
    OBVIOUS
  <1>1. /\ ledger \in Ledger /\ ledger.index \in Index
        /\ \A u \in Users : ledger.positions[u] \in Slots
        /\ ledger.rounding \in Int /\ ledger.synced = ledger.positions
        /\ ledger.synced_index = ledger.index
    BY DEF BooksBalance, Books, Ledger
  <1>2. /\ OverUsers(LAMBDA p : p.size) = SumFunction([u \in Users |-> Size(ledger.positions[u])])
        /\ \A side \in BOOLEAN :
             OverUsers(LAMBDA p : IF p.is_long = side THEN p.size ELSE 0)
               = SumFunction([u \in Users |-> Interest(ledger.positions[u], side)])
        /\ OverUsers(LAMBDA p : FundingPnl(p, ledger.index)) = Funding(ledger)
        /\ OverUsers(LAMBDA p : Sign(p) * p.size * p.entry_price) = Costs(ledger)
    <2>1. \A u \in Users : OverPositions(ledger.positions[u], LAMBDA p : p.size) = Size(ledger.positions[u])
      BY <1>1, SlotQuantities
    <2>2. \A side \in BOOLEAN : \A u \in Users :
             OverPositions(ledger.positions[u], LAMBDA p : IF p.is_long = side THEN p.size ELSE 0)
               = Interest(ledger.positions[u], side)
      BY <1>1, SlotQuantities
    <2>3. \A u \in Users : OverPositions(ledger.positions[u], LAMBDA p : FundingPnl(p, ledger.index))
                             = Owed(ledger.positions[u], ledger.index)
      BY <1>1, SlotQuantities
    <2>4. \A u \in Users : OverPositions(ledger.positions[u], LAMBDA p : Sign(p) * p.size * p.entry_price)
                             = Cost(ledger.positions[u])
      BY <1>1, SlotQuantities
    <2>5. OverUsers(LAMBDA p : p.size) = SumFunction([u \in Users |-> Size(ledger.positions[u])])
      BY <2>1 DEF OverUsers
    <2>6. \A side \in BOOLEAN :
             OverUsers(LAMBDA p : IF p.is_long = side THEN p.size ELSE 0)
               = SumFunction([u \in Users |-> Interest(ledger.positions[u], side)])
      BY <2>2 DEF OverUsers
    <2>7. OverUsers(LAMBDA p : FundingPnl(p, ledger.index)) = Funding(ledger)
      BY <2>3 DEF OverUsers, Funding
    <2>8. OverUsers(LAMBDA p : Sign(p) * p.size * p.entry_price) = Costs(ledger)
      BY <2>4 DEF OverUsers, Costs
    <2>9. QED
      BY <2>5, <2>6, <2>7, <2>8
  <1>3. OpenInterestIsTheBook
    BY <1>2 DEF OpenInterestIsTheBook, BooksBalance, Books
  <1>4. MirrorInSync
    BY <1>1 DEF MirrorInSync
  <1>5. OnePositionPerMarket
    <2>1. \A s \in Slots : Len(s) <= 1
      BY SlotsAreShort
    <2>2. QED
      BY <1>1, <2>1, Zenon DEF OnePositionPerMarket
  <1>6. BookBalancesWithHouse
    <2> DEFINE x == ledger.side_interest[TRUE]
               y == ledger.side_interest[FALSE]
    <2>1. x \in Int /\ y \in Int
      BY <1>1, SkewType, Zenon
    <2>2. (x - y) + house.quantity = 0
      BY Zenon DEF BooksBalance, Skew
    <2>3. house.quantity \in Int
      BY DEF BooksBalance
    <2> HIDE DEF x, y
    <2>4. x + house.quantity = y
      BY <2>1, <2>2, <2>3
    <2>5. QED
      BY <2>4, Zenon DEF BookBalancesWithHouse, x, y
  <1>7. TypeOK
    <2>1. ledger \in [balance: [Accounts -> Int], positions: [Users -> Slots],
                      synced: [Users -> Slots], index: Index, synced_index: Index,
                      open_interest: Int, side_interest: [BOOLEAN -> Int], rounding: Int]
      BY <1>1 DEF Ledger
    <2>2. ledger.open_interest \in Nat
      <3>1. ledger.open_interest = SumFunction([u \in Users |-> Size(ledger.positions[u])])
        BY DEF BooksBalance, Books
      <3>2. QED
        BY <1>1, <3>1, SumsOfLedger, Zenon
    <2>3. ledger.side_interest \in [BOOLEAN -> Nat]
      <3>1. \A side \in BOOLEAN : ledger.side_interest[side]
                = SumFunction([u \in Users |-> Interest(ledger.positions[u], side)])
        BY DEF BooksBalance, Books
      <3>2. \A side \in BOOLEAN : ledger.side_interest[side] \in Nat
        BY <1>1, <3>1, SumsOfLedger, Zenon
      <3>3. QED
        BY <2>1, <3>2
    <2>4. ledger.positions \in [Users -> Seq(Position)] /\ ledger.synced \in [Users -> Seq(Position)]
      <3>1. Slots \subseteq Seq(Position)
        BY SlotsAreShort
      <3>2. ledger.positions \in [Users -> Slots] /\ ledger.synced \in [Users -> Slots]
        BY <2>1
      <3>3. QED
        BY <3>1, <3>2
    <2>5. ledger \in [balance: [Accounts -> Int], positions: [Users -> Seq(Position)],
                      synced: [Users -> Seq(Position)], index: Index, synced_index: Index,
                      open_interest: Nat, side_interest: [BOOLEAN -> Nat], rounding: Int]
      BY <2>1, <2>2, <2>3, <2>4
    <2>6. QED
      BY <2>5 DEF TypeOK, BooksBalance
  <1>8. ValueIsConserved
    <2>1. Settled = Holdings(ledger) + Funding(ledger)
      BY <1>2 DEF Settled, Holdings
    <2>2. Net(ledger) + house.cash = custody /\ house.cash \in Int /\ custody \in Int
      BY DEF BooksBalance
    <2>3. Holdings(ledger) \in Int /\ Funding(ledger) \in Int /\ Costs(ledger) \in Int
      BY <1>1, SumsOfLedger, Zenon
    <2>4. Settled - Costs(ledger) + house.cash = custody + ledger.rounding
      BY <1>1, <2>1, <2>2, <2>3 DEF Net
    <2>5. QED
      BY <1>2, <2>4 DEF ValueIsConserved
  <1>9. QED
    BY <1>3, <1>4, <1>5, <1>6, <1>7, <1>8 DEF BooksAgree

\* The contracts start with empty books, which balance.
LEMMA BalanceInit == Init => BooksBalance
  <1> SUFFICES ASSUME Init PROVE BooksBalance
    OBVIOUS
  <1>1. ledger \in Ledger
    BY DEF Init, Ledger, Slots, Index
  <1>2. /\ \A a \in Accounts : ledger.balance[a] = 0 
        /\ DOMAIN ledger.balance = Accounts
        /\ \A u \in Users : ledger.positions[u] = <<>>
        /\ ledger.open_interest = 0 /\ \A side \in BOOLEAN : ledger.side_interest[side] = 0
        /\ ledger.rounding = 0 /\ ledger.synced = ledger.positions
        /\ ledger.synced_index = ledger.index
    BY DEF Init
  <1>3. Holdings(ledger) = 0
    BY <1>2, FiniteAccounts, SumZero DEF Holdings, SumFunction
  <1>4. Funding(ledger) = 0
    <2> DEFINE f == [u \in Users |-> Owed(ledger.positions[u], ledger.index)]
    <2>1. DOMAIN f = Users /\ \A u \in Users : f[u] = 0
      BY <1>2, NoPosition
    <2> HIDE DEF f
    <2>2. SumFunction(f) = 0
      BY <2>1, FiniteAccounts, SumZero DEF SumFunction
    <2>3. QED
      BY <2>2 DEF Funding, f
  <1>5. Costs(ledger) = 0
    <2> DEFINE f == [u \in Users |-> Cost(ledger.positions[u])]
    <2>1. DOMAIN f = Users /\ \A u \in Users : f[u] = 0
      BY <1>2, NoPosition
    <2> HIDE DEF f
    <2>2. SumFunction(f) = 0
      BY <2>1, FiniteAccounts, SumZero DEF SumFunction
    <2>3. QED
      BY <2>2 DEF Costs, f
  <1>6. SumFunction([u \in Users |-> Size(ledger.positions[u])]) = 0
    <2> DEFINE f == [u \in Users |-> Size(ledger.positions[u])]
    <2>1. DOMAIN f = Users /\ \A u \in Users : f[u] = 0
      BY <1>2, NoPosition
    <2> HIDE DEF f
    <2>2. SumFunction(f) = 0
      BY <2>1, FiniteAccounts, SumZero DEF SumFunction
    <2>3. QED
      BY <2>2 DEF f
  <1>7. ASSUME NEW side \in BOOLEAN
        PROVE  SumFunction([u \in Users |-> Interest(ledger.positions[u], side)]) = 0
    <2> DEFINE f == [u \in Users |-> Interest(ledger.positions[u], side)]
    <2>1. DOMAIN f = Users /\ \A u \in Users : f[u] = 0
      BY <1>2, NoPosition
    <2> HIDE DEF f
    <2>2. SumFunction(f) = 0
      BY <2>1, FiniteAccounts, SumZero DEF SumFunction
    <2>3. QED
      BY <2>2 DEF f
  <1>8. Books(ledger)
    BY <1>1, <1>2, <1>6, <1>7 DEF Books
  <1>9. Skew(ledger) = 0
    <2>1. ledger.side_interest[TRUE] = 0 /\ ledger.side_interest[FALSE] = 0
      BY <1>2, Zenon
    <2>2. 0 - 0 = 0
      OBVIOUS
    <2>3. QED
      BY <2>1, <2>2, Zenon DEF Skew
  <1>10. Net(ledger) = 0
    BY <1>2, <1>3, <1>4, <1>5 DEF Net
  <1>11. QED
    <2>1. house \in [quantity: Int, cash: Int] /\ house.quantity = 0 /\ house.cash = 0
      BY DEF Init
    <2>2. Skew(ledger) + house.quantity = 0 /\ Net(ledger) + house.cash = custody
      BY <1>9, <1>10, <2>1 DEF Init
    <2>3. 0 \in 0..MaxFills
      BY ClearingHouseConstants
    <2>4. /\ depositors \subseteq Users
          /\ price \in Prices \cup {Stale} /\ quote \in Quotes \cup {Stale} /\ paused \in BOOLEAN
          /\ custody \in Nat /\ deposited \in Nat /\ fund \in Nat /\ badDebt \in Nat
          /\ fills \in 0..MaxFills
      BY <2>3 DEF Init
    <2>5. QED
      BY <1>8, <2>1, <2>2, <2>4, Zenon DEF BooksBalance

\* A step that shifts the ledger keeps the balance when house and custody follow.
LEMMA ShiftKeepsBalance ==
  ASSUME BooksBalance, NEW q \in Int, NEW c \in Int, Shift(ledger, ledger', q, c),
         house' \in [quantity: Int, cash: Int], custody' \in Int,
         house'.quantity = house.quantity - q,
         house'.cash - custody' = house.cash - custody + c
  PROVE  /\ Books(ledger')
         /\ Skew(ledger') + house'.quantity = 0
         /\ Net(ledger') + house'.cash = custody'
  <1>1. /\ Books(ledger') /\ Skew(ledger') = Skew(ledger) + q /\ Net(ledger') = Net(ledger) - c
    BY DEF Shift
  <1>2. /\ Skew(ledger) + house.quantity = 0 /\ Net(ledger) + house.cash = custody
        /\ house.quantity \in Int /\ house.cash \in Int /\ custody \in Int
        /\ house'.quantity \in Int /\ house'.cash \in Int
    BY DEF BooksBalance
  <1>3. Skew(ledger) \in Int /\ Net(ledger) \in Int
    <2>1. ledger \in Ledger /\ ledger.rounding \in Int
      BY DEF BooksBalance, Books, Ledger
    <2>2. Skew(ledger) \in Int
      BY <2>1, SkewType, Zenon
    <2>3. Holdings(ledger) \in Int /\ Funding(ledger) \in Int /\ Costs(ledger) \in Int
      BY <2>1, SumsOfLedger, Zenon
    <2>4. QED
      BY <2>1, <2>2, <2>3 DEF Net
  <1>4. Skew(ledger') + house'.quantity = 0
    BY <1>1, <1>2, <1>3
  <1>5. Net(ledger') + house'.cash = custody'
    <2> DEFINE n == Net(ledger)
               m == Net(ledger')
               h == house.cash
               k == house'.cash
               v == custody
               w == custody'
    <2>1. /\ n \in Int /\ h \in Int /\ k \in Int /\ v \in Int /\ w \in Int
          /\ m = n - c /\ n + h = v /\ k - w = (h - v) + c
      BY <1>1, <1>2, <1>3
    <2> HIDE DEF n, m, h, k, v, w
    <2>2. m + k = w
      BY <2>1
    <2>3. QED
      BY <2>2 DEF m, k, w
  <1>6. QED
    BY <1>1, <1>4, <1>5

\* The inputs of an invocation are positive, and a trader has a vault account.
LEMMA InputTypes ==
  /\ \A x \in Amounts \cup Sizes \cup ExecutionPrices : x \in Nat \ {0} /\ x \in Int /\ x > 0
  /\ Users \subseteq Accounts
  <1>1. Amounts \cup Sizes \cup ExecutionPrices \subseteq Nat \ {0}
    BY ClearingHouseConstants
  <1>2. QED
    BY <1>1 DEF Accounts

\* deposit: the balance and the tokens in custody rise together.
LEMMA DepositKeeps ==
  ASSUME BooksBalance, NEW u \in Users, NEW amount \in Amounts, Deposit(u, amount)
  PROVE  BooksBalance'
  <1>1. amount \in Nat /\ amount \in Int /\ u \in Accounts /\ custody \in Nat /\ deposited \in Nat
    BY InputTypes DEF BooksBalance
  <1>2. /\ ledger' = Credit(ledger, u, amount) /\ custody' = custody + amount
        /\ deposited' = deposited + amount /\ house' = house
        /\ depositors' = depositors \cup {u} /\ price' = price /\ quote' = quote /\ paused' = paused /\ fund' = fund /\ badDebt' = badDebt /\ fills' = fills
    BY DEF Deposit
  <1>3. Shift(ledger, ledger', 0, -amount)
    BY <1>1, <1>2, CreditShift DEF BooksBalance
  <1>4. /\ house' \in [quantity: Int, cash: Int] /\ house.quantity \in Int /\ house.cash \in Int
    BY <1>2 DEF BooksBalance
  <1>5. custody' \in Nat /\ custody' \in Int /\ deposited' \in Nat
    BY <1>1, <1>2
  <1> DEFINE c == -amount
  <1>6. /\ c \in Int /\ house'.quantity = house.quantity - 0
        /\ house'.cash - custody' = house.cash - custody + c
    BY <1>1, <1>2, <1>4
  <1> HIDE DEF c
  <1>7. /\ Books(ledger') /\ Skew(ledger') + house'.quantity = 0
        /\ Net(ledger') + house'.cash = custody'
    <2>1. Shift(ledger, ledger', 0, c) /\ 0 \in Int
      BY <1>3 DEF c
    <2>2. QED
      BY <1>4, <1>5, <1>6, <2>1, ShiftKeepsBalance
  <1>8. QED
    BY <1>2, <1>4, <1>5, <1>7 DEF BooksBalance

\* withdraw: the balance and the tokens in custody fall together.
LEMMA WithdrawKeeps ==
  ASSUME BooksBalance, NEW u \in Users, NEW amount \in Amounts, Withdraw(u, amount)
  PROVE  BooksBalance'
  <1>1. amount \in Nat /\ -amount \in Int /\ u \in Accounts /\ custody \in Nat /\ deposited \in Nat
    BY InputTypes DEF BooksBalance
  <1>2. /\ ledger' = Credit(ledger, u, -amount) /\ custody' = custody - amount /\ custody >= amount
        /\ deposited' = Larger(0, deposited - amount) /\ house' = house
        /\ depositors' = depositors /\ price' = price /\ quote' = quote /\ paused' = paused /\ fund' = fund /\ badDebt' = badDebt /\ fills' = fills
    BY DEF Withdraw
  <1> DEFINE x == -amount
  <1>3. Shift(ledger, ledger', 0, amount)
    <2>1. x \in Int /\ ledger' = Credit(ledger, u, x) /\ -x = amount
      BY <1>1, <1>2
    <2> HIDE DEF x
    <2>2. Shift(ledger, ledger', 0, -x)
      BY <1>1, <2>1, CreditShift DEF BooksBalance
    <2>3. QED
      BY <2>1, <2>2
  <1>4. /\ house' \in [quantity: Int, cash: Int] /\ house.quantity \in Int /\ house.cash \in Int
    BY <1>2 DEF BooksBalance
  <1>5. custody' \in Nat /\ custody' \in Int /\ deposited' \in Nat
    BY <1>1, <1>2 DEF Larger
  <1>6. /\ amount \in Int /\ house'.quantity = house.quantity - 0
        /\ house'.cash - custody' = house.cash - custody + amount
    BY <1>1, <1>2, <1>4
  <1>7. /\ Books(ledger') /\ Skew(ledger') + house'.quantity = 0
        /\ Net(ledger') + house'.cash = custody'
    BY <1>3, <1>4, <1>5, <1>6, ShiftKeepsBalance
  <1>8. QED
    BY <1>2, <1>4, <1>5, <1>7 DEF BooksBalance

\* execute_matched_fill: the maker's and the taker's trades cancel out in the
\* books, nobody else is touched, and both end above their initial margin.
LEMMA SettleFillKeeps ==
  ASSUME BooksBalance, NEW maker \in Users, NEW taker \in Users, NEW maker_long \in BOOLEAN,
         NEW maker_ro \in BOOLEAN, NEW taker_ro \in BOOLEAN, NEW size \in Sizes,
         NEW at \in ExecutionPrices,
         SettleFill(maker, taker, maker_long, maker_ro, taker_ro, size, at)
  PROVE  /\ BooksBalance'
         /\ Confined(ledger, ledger', {maker, taker})
         /\ AboveInitialMargin(ledger', maker) /\ AboveInitialMargin(ledger', taker)
  <1>1. size \in Nat \ {0} /\ at \in Nat \ {0} /\ maker # taker /\ Books(ledger)
        /\ ledger' \in ExecuteFill(ledger, maker, taker, maker_long, maker_ro, taker_ro, size, at)
    BY InputTypes DEF SettleFill, BooksBalance
  <1>2. /\ fills < MaxFills /\ fills' = fills + 1 /\ house' = house /\ custody' = custody
        /\ depositors' = depositors /\ price' = price /\ quote' = quote /\ paused' = paused /\ fund' = fund /\ badDebt' = badDebt
        /\ deposited' = deposited
    BY DEF SettleFill
  <1>3. /\ Shift(ledger, ledger', 0, 0) /\ Confined(ledger, ledger', {maker, taker})
        /\ AboveInitialMargin(ledger', maker) /\ AboveInitialMargin(ledger', taker)
    BY <1>1, FillEffect
  <1>4. /\ house' \in [quantity: Int, cash: Int] /\ house.quantity \in Int /\ house.cash \in Int
        /\ custody \in Int /\ custody' \in Int
    BY <1>2 DEF BooksBalance
  <1>5. /\ house'.quantity = house.quantity - 0
        /\ house'.cash - custody' = house.cash - custody + 0
    BY <1>2, <1>4
  <1>6. /\ Books(ledger') /\ Skew(ledger') + house'.quantity = 0
        /\ Net(ledger') + house'.cash = custody'
    <2>1. 0 \in Int
      OBVIOUS
    <2>2. QED
      BY <1>3, <1>4, <1>5, <2>1, ShiftKeepsBalance
  <1>7. fills' \in 0..MaxFills
    BY <1>2, ClearingHouseConstants DEF BooksBalance
  <1>8. QED
    BY <1>2, <1>3, <1>4, <1>6, <1>7 DEF BooksBalance

\* update_funding: what the sides pay each other differs by the surplus that the
\* insurance account is credited; no trader's balance moves.
LEMMA FundingKeeps ==
  ASSUME BooksBalance, NEW delta \in FundingDeltas, UpdateFunding(delta)
  PROVE  /\ BooksBalance'
         /\ paused => ledger'.balance = ledger.balance
         /\ ledger'.index = ledger.index =>
               ledger'.synced_index = ledger.synced_index /\ ledger'.synced = ledger.synced
               /\ \A u \in Users : ledger'.balance[u] = ledger.balance[u]
  <1> DEFINE after == MovedIndex(ledger.index, delta)
  <1>1. delta \in Int /\ Books(ledger)
    BY ClearingHouseConstants DEF BooksBalance
  <1>2. ledger' \in Funded(ledger, delta)
    BY DEF UpdateFunding, Funded, MovedLedger, MovedIndex
  <1>3. /\ house' = house /\ custody' = custody
        /\ depositors' = depositors /\ price' = price /\ quote' = quote /\ paused' = paused /\ fund' = fund /\ badDebt' = badDebt
        /\ deposited' = deposited /\ fills' = fills
    BY DEF UpdateFunding
  <1> HIDE DEF after
  <1>4. /\ Books(ledger') /\ Skew(ledger') = Skew(ledger) /\ Net(ledger') = Net(ledger)
        /\ ledger'.index = after /\ ledger'.synced_index = after
        /\ ledger'.positions = ledger.positions /\ ledger'.synced = ledger.synced
        /\ paused => ledger'.balance = ledger.balance
        /\ \A u \in Users : ledger'.balance[u] = ledger.balance[u]
    BY <1>1, <1>2, FundingEffect DEF after
  <1>5. BooksBalance'
    BY <1>3, <1>4 DEF BooksBalance
  <1>6. ledger.synced_index = ledger.index
    BY <1>1 DEF Books
  <1>7. QED
    BY <1>4, <1>5, <1>6

\* liquidate_position: the house takes the side that was closed, the covered
\* deficit arrives in tokens, and only the liquidated account is touched.
LEMMA LiquidateKeeps ==
  ASSUME BooksBalance, NEW u \in Users, NEW i \in DOMAIN ledger.positions[u],
         NEW size \in Sizes, NEW at \in ExecutionPrices, Liquidate(u, i, size, at)
  PROVE  /\ BooksBalance'
         /\ Confined(ledger, ledger', {u}) /\ ~paused
         /\ badDebt' >= badDebt
  <1>1. /\ size \in Nat \ {0} /\ at \in Nat \ {0} /\ size \in Nat /\ at \in Nat /\ u \in Accounts
        /\ Books(ledger) /\ ledger \in Ledger
    BY InputTypes DEF BooksBalance, Books
  <1> DEFINE p == ledger.positions[u][i]
             reward == Reward(size, at)
             deficit(l) == Deficit(l, u)
             covered(l) == Covered(fund - reward, deficit(l))
  <1>2. PICK l \in ReducePosition(ledger, u, i, size, at, FALSE) :
           /\ reward <= fund
           /\ ledger' = Credit(l, u, covered(l))
           /\ fund' = fund - reward - covered(l)
           /\ custody' = custody + covered(l)
           /\ badDebt' = badDebt + deficit(l) - covered(l)
    BY DEF Liquidate
  <1>3. /\ house' = [quantity |-> house.quantity + Sign(p) * size,
                     cash |-> house.cash - Sign(p) * size * at]
        /\ depositors' = depositors /\ price' = price /\ quote' = quote /\ paused' = paused /\ deposited' = deposited /\ fills' = fills
    BY DEF Liquidate, HouseTakes
  <1>4. /\ p \in Position /\ ~paused
        /\ Shift(ledger, l, -(Sign(p) * size), -(Sign(p) * size * at))
        /\ Confined(ledger, l, {u})
    BY <1>1, <1>2, ReduceShift
  <1>5. Sign(p) \in {1, -1}
    BY SignValues
  <1>6. reward \in Nat
    <2> DEFINE x == size * at
    <2>1. x \in Nat /\ RewardBps \in Nat
      BY <1>1, ClearingHouseConstants
    <2> HIDE DEF x
    <2>2. ApplyBps(x, RewardBps) \in Nat
      BY <2>1, RateOfNatural
    <2>3. QED
      BY <2>2 DEF x, Reward
  <1>7. l \in Ledger /\ l.balance[u] \in Int /\ Books(l)
    BY <1>1, <1>4 DEF Shift, Books, Ledger
  <1>8. deficit(l) \in Nat
    BY <1>7 DEF Deficit, Larger
  <1> HIDE DEF p, reward, deficit
  <1>9. fund \in Nat /\ badDebt \in Nat /\ custody \in Nat
        /\ house.quantity \in Int /\ house.cash \in Int
    BY DEF BooksBalance
  <1>10. covered(l) \in Nat /\ covered(l) <= fund - reward /\ covered(l) <= deficit(l)
    BY <1>2, <1>6, <1>8, <1>9 DEF Covered, Lesser
  <1> DEFINE k == covered(l)
             q == -(Sign(p) * size)
             c == -(Sign(p) * size * at)
  <1>11. /\ k \in Nat /\ ledger' = Credit(l, u, k) /\ fund' = fund - reward - k
         /\ k <= fund - reward /\ k <= deficit(l)
         /\ custody' = custody + k /\ badDebt' = badDebt + deficit(l) - k
    BY <1>2, <1>10
  <1> HIDE DEF covered, k
  <1>12. q \in Int /\ c \in Int /\ -k \in Int /\ k \in Int
    BY <1>1, <1>5, <1>11
  <1>13. /\ house'.quantity = house.quantity - q /\ house'.cash = house.cash + c
         /\ house' \in [quantity: Int, cash: Int]
    BY <1>1, <1>3, <1>5, <1>9
  <1>14. Shift(ledger, l, q, c)
    BY <1>4
  <1> HIDE DEF q, c
  <1>15. Shift(l, ledger', 0, -k)
    BY <1>1, <1>7, <1>11, <1>12, CreditShift
  <1> DEFINE d == c + (-k)
             r == q + 0
  <1>16. Shift(ledger, ledger', r, d)
    <2>1. 0 \in Int
      OBVIOUS
    <2>2. QED
      BY <1>1, <1>12, <1>14, <1>15, <2>1, ShiftThenShift
  <1>17. /\ d \in Int /\ r \in Int /\ custody' \in Nat /\ custody' \in Int
         /\ house'.quantity = house.quantity - r
         /\ house'.cash - custody' = house.cash - custody + d
    <2> DEFINE a == house.cash
               b == house'.cash
    <2>1. a \in Int /\ b = a + c /\ custody \in Int /\ custody' = custody + k
      BY <1>9, <1>11, <1>13
    <2> HIDE DEF a, b
    <2>2. b - custody' = a - custody + d
      BY <1>12, <2>1
    <2>3. house'.quantity = house.quantity - r
      BY <1>9, <1>12, <1>13
    <2>4. QED
      BY <1>9, <1>11, <1>12, <2>2, <2>3 DEF a, b
  <1> HIDE DEF d, r
  <1>18. /\ Books(ledger') /\ Skew(ledger') + house'.quantity = 0
         /\ Net(ledger') + house'.cash = custody'
    BY <1>13, <1>16, <1>17, ShiftKeepsBalance
  <1>19. fund' \in Nat /\ badDebt' \in Nat /\ badDebt' >= badDebt
    BY <1>6, <1>8, <1>9, <1>11
  <1>20. Confined(ledger, ledger', {u})
    <2>1. /\ ledger'.positions = l.positions /\ ledger'.synced = l.synced
          /\ ledger'.synced_index = l.synced_index
          /\ \A a \in Accounts \ {u} : ledger'.balance[a] = l.balance[a]
      BY <1>7, <1>11 DEF Credit, Ledger
    <2>2. QED
      BY <1>4, <2>1, InputTypes DEF Confined
  <1>21. QED
    BY <1>3, <1>4, <1>13, <1>17, <1>18, <1>19, <1>20 DEF BooksBalance

\* Multiplying by a natural number keeps the order of two numbers.
LEMMA ProductOrder ==
  ASSUME NEW a \in Int, NEW b \in Int, NEW z \in Nat, a <= b
  PROVE  a * z <= b * z
  <1>1. (b - a) * z >= 0
    <2> DEFINE d == b - a
    <2>1. d \in Nat
      OBVIOUS
    <2> HIDE DEF d
    <2>2. d * z \in Nat
      BY <2>1
    <2>3. QED
      BY <2>2 DEF d
  <1>2. (b - a) * z = b * z - a * z /\ a * z \in Int /\ b * z \in Int
    OBVIOUS
  <1>3. QED
    BY <1>1, <1>2

\* The cap on an ADL's size keeps its gain within the debt it pays off.
LEMMA GainWithinDebt ==
  ASSUME NEW debt \in Nat, NEW z \in Nat \ {0}, NEW w \in Int, z * w > 0,
         NEW closing \in Nat \ {0}, closing <= (debt * z) \div (z * w)
  PROVE  closing * w \in Nat /\ closing * w > 0 /\ closing * w <= debt
  <1>1. w > 0
    <2> SUFFICES ASSUME w <= 0 PROVE FALSE
      OBVIOUS
    <2>1. w * z <= 0 * z
      BY ProductOrder
    <2>2. QED
      BY <2>1
  <1> DEFINE x == debt * z
             t == z * w
             k == x \div t
             g == closing * w
  <1>2. x \in Nat /\ t \in Nat \ {0} /\ closing <= k
    BY <1>1
  <1>3. g \in Nat /\ g > 0
    BY <1>1
  <1>4. t * k <= x /\ k \in Nat
    <2> HIDE DEF x, t
    <2>1. k \in Nat /\ x % t \in 0..(t - 1) /\ t * k + (x % t) = x
      BY <1>2, DivMod
    <2>2. t * k \in Int
      BY <1>2, <2>1
    <2> HIDE DEF k
    <2>3. QED
      BY <1>2, <2>1, <2>2
  <1>5. closing * t <= k * t
    <2> HIDE DEF x, t, k
    <2>1. closing \in Int /\ k \in Int /\ t \in Nat
      BY <1>2, <1>4
    <2>2. QED
      BY <1>2, <2>1, ProductOrder
  <1>6. closing * t = g * z
    OBVIOUS
  <1>7. g * z <= x
    <2> HIDE DEF x, t, k, g
    <2>1. k * t = t * k /\ k * t \in Int /\ closing * t \in Int
      BY <1>2, <1>4
    <2>2. QED
      BY <1>2, <1>4, <1>5, <1>6, <2>1
  <1>8. g <= debt
    <2> SUFFICES ASSUME debt + 1 <= g PROVE FALSE
      BY <1>3
    <2> HIDE DEF g
    <2>1. (debt + 1) * z <= g * z
      BY <1>3, ProductOrder
    <2>2. (debt + 1) * z = debt * z + z /\ debt * z \in Int /\ g * z \in Int
      BY <1>3
    <2>3. QED
      BY <1>7, <2>1, <2>2 DEF x
  <1>9. QED
    BY <1>3, <1>8

\* auto_deleverage: the house takes the side that was closed, and the gain it
\* pays is the recorded debt it strikes off.
LEMMA AdlKeeps ==
  ASSUME BooksBalance, NEW u \in Users, NEW i \in DOMAIN ledger.positions[u],
         NEW size \in Sizes, NEW at \in ExecutionPrices, Adl(u, i, size, at)
  PROVE  /\ BooksBalance' /\ ~paused
         /\ badDebt' < badDebt
         /\ Holdings(ledger') + Funding(ledger')
              = Holdings(ledger) + Funding(ledger) + (badDebt - badDebt')
  <1> DEFINE p == ledger.positions[u][i]
             closing == AdlSize(p, size, at)
             w == Sign(p) * (at - p.entry_price)
             gain == closing * Sign(p) * (at - p.entry_price)
  <1>1. /\ size \in Nat \ {0} /\ at \in Nat \ {0} /\ Books(ledger) /\ ledger \in Ledger
        /\ ledger.positions[u] \in Slots
    BY InputTypes DEF BooksBalance, Books, Ledger
  <1>2. /\ PositionPnl(p, at) > 0 /\ closing > 0
        /\ ledger' \in ReducePosition(ledger, u, i, closing, at, FALSE)
        /\ badDebt' = Larger(0, badDebt - Lesser(gain, badDebt))
        /\ house' = [quantity |-> house.quantity + Sign(p) * closing,
                     cash |-> house.cash - Sign(p) * closing * at]
        /\ depositors' = depositors /\ price' = price /\ quote' = quote /\ paused' = paused /\ deposited' = deposited /\ fills' = fills
        /\ custody' = custody /\ fund' = fund
    BY DEF Adl, HouseTakes
  <1>3. p \in Position
    BY <1>1, SlotCases
  <1>4. /\ p.size \in Nat \ {0} /\ p.entry_price \in Nat /\ Sign(p) \in {1, -1} /\ w \in Int
        /\ badDebt \in Nat
    <2>1. p.size \in Nat \ {0} /\ p.entry_price \in Nat
      BY <1>3 DEF Position
    <2>2. Sign(p) \in {1, -1} /\ badDebt \in Nat
      BY SignValues DEF BooksBalance
    <2> HIDE DEF p
    <2>3. w \in Int
      BY <1>1, <2>1, <2>2
    <2>4. QED
      BY <2>1, <2>2, <2>3
  <1>5. PositionPnl(p, at) = p.size * w
    <2>1. PositionPnl(p, at) = Sign(p) * p.size * (at - p.entry_price)
      BY DEF PositionPnl
    <2> HIDE DEF p
    <2>2. QED
      BY <1>1, <1>4, <2>1
  <1>6. /\ closing \in Nat \ {0}
        /\ closing <= (badDebt * p.size) \div (p.size * w)
    <2> DEFINE x == badDebt * p.size
               t == p.size * w
    <2>1. closing = Lesser(Lesser(size, p.size), x \div t)
      BY <1>5 DEF AdlSize
    <2>2. x \in Nat /\ t \in Nat \ {0}
      BY <1>2, <1>4, <1>5
    <2> HIDE DEF p, x, t
    <2>3. x \div t \in Nat
      BY <2>2, DivMod
    <2>4. closing \in Nat \ {0} /\ closing <= x \div t
      BY <1>1, <1>2, <1>4, <2>1, <2>3 DEF Lesser
    <2>5. QED
      BY <2>4 DEF x, t
  <1>7. gain = closing * w /\ gain \in Nat /\ gain > 0 /\ gain <= badDebt
    <2> HIDE DEF p, closing
    <2>1. gain = closing * w
      BY <1>1, <1>4, <1>6
    <2> HIDE DEF gain
    <2> DEFINE z == p.size
    <2>2. z \in Nat \ {0} /\ z * w > 0 /\ closing <= (badDebt * z) \div (z * w)
      BY <1>2, <1>4, <1>5, <1>6
    <2> HIDE DEF z, w
    <2>3. closing * w \in Nat /\ closing * w > 0 /\ closing * w <= badDebt
      BY <1>4, <1>6, <2>2, GainWithinDebt
    <2>4. QED
      BY <2>1, <2>3
  <1> HIDE DEF gain
  <1>8. badDebt' = badDebt - gain /\ badDebt' \in Nat /\ badDebt' < badDebt
    BY <1>2, <1>4, <1>7 DEF Larger, Lesser
  <1> HIDE DEF closing
  <1>9. /\ ~paused
        /\ Shift(ledger, ledger', -(Sign(p) * closing), -(Sign(p) * closing * at))
        /\ ledger'.rounding = ledger.rounding
        /\ Costs(ledger') = Costs(ledger) - Sign(p) * closing * p.entry_price
    <2>1. p = ledger.positions[u][i]
      OBVIOUS
    <2>2. ledger' \in ReducePosition(ledger, u, i, closing, at, FALSE)
      BY <1>2
    <2> HIDE DEF p
    <2>3. ~paused
      BY <1>1, <1>6, <2>1, <2>2, ReduceShift
    <2>4. Shift(ledger, ledger', -(Sign(p) * closing), -(Sign(p) * closing * at))
      BY <1>1, <1>6, <2>1, <2>2, ReduceShift
    <2>5. ledger'.rounding = ledger.rounding
      BY <1>1, <1>6, <2>1, <2>2, ReduceShift
    <2>6. CostsFall(ledger, ledger', Sign(p) * closing * p.entry_price)
      BY <1>1, <1>6, <2>1, <2>2, ReduceShift
    <2>7. QED
      BY <2>3, <2>4, <2>5, <2>6 DEF CostsFall
  <1> HIDE DEF p
  <1> DEFINE q == -(Sign(p) * closing)
             c == -(Sign(p) * closing * at)
             e == Sign(p) * closing * p.entry_price
  <1>10. q \in Int /\ c \in Int /\ e \in Int /\ gain = -c - e
    BY <1>1, <1>4, <1>6, <1>7
  <1>11. /\ house.quantity \in Int /\ house.cash \in Int /\ custody \in Int
    BY DEF BooksBalance
  <1>12. /\ house' \in [quantity: Int, cash: Int]
         /\ house'.quantity = house.quantity - q
         /\ house'.cash - custody' = house.cash - custody + c
    BY <1>1, <1>2, <1>4, <1>6, <1>11
  <1>13. Shift(ledger, ledger', q, c) /\ Costs(ledger') = Costs(ledger) - e
    BY <1>9
  <1> HIDE DEF q, c, e
  <1>14. /\ Books(ledger') /\ Skew(ledger') + house'.quantity = 0
         /\ Net(ledger') + house'.cash = custody'
    <2>1. custody' \in Int
      BY <1>2, <1>11
    <2>2. QED
      BY <1>10, <1>12, <1>13, <2>1, ShiftKeepsBalance
  <1>15. BooksBalance'
    BY <1>2, <1>8, <1>12, <1>14 DEF BooksBalance
  <1>16. Holdings(ledger') + Funding(ledger') = Holdings(ledger) + Funding(ledger) + (badDebt - badDebt')
    <2> DEFINE a == Holdings(ledger)
               b == Funding(ledger)
               d == Costs(ledger)
               h == Holdings(ledger')
               f == Funding(ledger')
               g == Costs(ledger')
               r == ledger.rounding
    <2>1. a \in Int /\ b \in Int /\ d \in Int
      BY <1>1, SumsOfLedger, Zenon
    <2>2. h \in Int /\ f \in Int /\ g \in Int
      <3>1. ledger' \in Ledger
        BY <1>14 DEF Books
      <3>2. QED
        BY <3>1, SumsOfLedger, Zenon
    <2>3. r \in Int
      BY <1>1 DEF Ledger
    <2>4. h + f - g - r = (a + b - d - r) - c
      BY <1>9, <1>13 DEF Shift, Net
    <2>5. g = d - e
      BY <1>13
    <2> HIDE DEF a, b, d, h, f, g, r
    <2>6. h + f = a + b + gain
      BY <1>10, <2>1, <2>2, <2>3, <2>4, <2>5
    <2>7. badDebt - badDebt' = gain
      BY <1>4, <1>7, <1>8
    <2>8. QED
      BY <2>6, <2>7 DEF a, b, h, f
  <1>17. QED
    BY <1>8, <1>9, <1>15, <1>16

-----------------------------------------------------------------------------
(* Margin.                                                                 *)

\* A rate of at most 100%: monotone, and growing no faster than its amount.
LEMMA RateMonotone ==
  ASSUME NEW v \in Nat, NEW w \in Nat, v <= w, NEW bps \in Nat, bps <= 10000
  PROVE  /\ ApplyBps(v, bps) \in Nat /\ ApplyBps(w, bps) \in Nat
         /\ ApplyBps(v, bps) <= ApplyBps(w, bps)
         /\ ApplyBps(w, bps) - ApplyBps(v, bps) <= w - v
         /\ ApplyBps(w, bps) <= w
  <1> DEFINE x == v * bps
             y == w * bps
             z == (w - v) * bps
  <1>1. bps \in Nat /\ bps <= 10000
    OBVIOUS
  <1>2. x \in Nat /\ y \in Nat /\ z \in Nat /\ y = x + z
    <2> DEFINE d == w - v
    <2>1. d \in Nat /\ w = v + d
      OBVIOUS
    <2> HIDE DEF d
    <2>2. d * bps \in Nat /\ x \in Nat /\ (v + d) * bps = v * bps + d * bps
      BY <1>1, <2>1
    <2>3. z = d * bps
      BY DEF d
    <2>4. QED
      BY <2>1, <2>2, <2>3
  <1>3. z <= (w - v) * 10000 /\ y <= w * 10000
    <2> DEFINE d == w - v
               t == 10000
    <2>1. d \in Nat /\ t \in Int /\ bps \in Int /\ bps <= t /\ w \in Nat
      BY <1>1
    <2> HIDE DEF d, t
    <2>2. bps * d <= t * d /\ bps * w <= t * w
      BY <2>1, ProductOrder
    <2>3. bps * d = d * bps /\ t * d = d * t /\ bps * w = w * bps /\ t * w = w * t
      BY <2>1
    <2>4. d * bps <= d * t /\ w * bps <= w * t
      BY <2>2, <2>3
    <2>5. QED
      BY <2>4 DEF d, t
  <1> HIDE DEF x, y, z
  <1>4. /\ x \div 10000 \in Nat /\ y \div 10000 \in Nat
        /\ x \div 10000 <= y \div 10000
        /\ y \div 10000 - x \div 10000 <= w - v
        /\ y \div 10000 <= w
    BY <1>2, <1>3
  <1>5. ApplyBps(v, bps) = x \div 10000 /\ ApplyBps(w, bps) = y \div 10000
    BY DEF ApplyBps, x, y
  <1>6. QED
    BY <1>4, <1>5

\* The haircut on settlement-asset collateral keeps the order of balances, takes
\* at most what there is, and grows no faster than the balance.
LEMMA HaircutMonotone ==
  ASSUME NEW v \in Int, NEW w \in Int, v <= w
  PROVE  /\ AfterHaircut(v) \in Int /\ AfterHaircut(w) \in Int
         /\ AfterHaircut(v) <= AfterHaircut(w)
         /\ v >= 0 => AfterHaircut(w) - AfterHaircut(v) <= w - v
         /\ AfterHaircut(w) <= w
         /\ w >= 0 => AfterHaircut(w) >= 0
  <1> DEFINE h == HaircutBps
             fv == ApplyBps(v, h)
             fw == ApplyBps(w, h)
  <1>1. h \in Nat /\ h <= 10000
    BY ClearingHouseConstants
  <1>2. /\ AfterHaircut(v) = IF v < 0 THEN v ELSE v - fv
        /\ AfterHaircut(w) = IF w < 0 THEN w ELSE w - fw
    BY DEF AfterHaircut
  <1> HIDE DEF h
  <1>3. CASE v >= 0
    <2>1. v \in Nat /\ w \in Nat
      BY <1>3
    <2>2. fv \in Nat
      BY <1>1, <2>1, RateOfNatural
    <2>2a. fw \in Nat
      BY <1>1, <2>1, RateOfNatural
    <2>3. fv <= fw /\ fw <= w
      BY <1>1, <2>1, RateMonotone
    <2>4. fw - fv <= w - v
      BY <1>1, <2>1, RateMonotone
    <2> HIDE DEF fv, fw
    <2>5. QED
      BY <1>2, <2>1, <2>2, <2>2a, <2>3, <2>4
  <1>4. CASE v < 0 /\ w >= 0
    <2>1. w \in Nat /\ w <= w
      BY <1>4
    <2>2. fw \in Nat /\ fw <= w
      BY <1>1, <2>1, RateMonotone
    <2> HIDE DEF fv, fw
    <2>3. QED
      BY <1>2, <1>4, <2>1, <2>2
  <1>5. CASE w < 0
    BY <1>2, <1>5
  <1>6. QED
    BY <1>3, <1>4, <1>5

\* What a slot gains at the current price, and the margin it needs.
Gain(s, index) == IF s = <<>> THEN 0 ELSE PositionPnl(s[1], price) + FundingPnl(s[1], index)
Margin(s, bps) == IF s = <<>> THEN 0 ELSE ApplyBps(s[1].size * price, bps)

\* Equity and required margin of an account, in terms of its one mirrored position.
LEMMA MarginOfSlot ==
  ASSUME NEW l \in Ledger, NEW u \in Users, price \in Nat
  PROVE  /\ Equity(l, u) = AfterHaircut(l.balance[u] * quote) + Gain(l.synced[u], l.synced_index)
         /\ Gain(l.synced[u], l.synced_index) \in Int
         /\ \A bps \in Nat : /\ Required(l, u, bps) = Margin(l.synced[u], bps)
                             /\ Margin(l.synced[u], bps) \in Nat
  <1> DEFINE s == l.synced[u]
             index == l.synced_index
  <1>1. s \in Slots /\ index \in Index
    BY DEF Ledger
  <1>2. \A p \in Position : PositionPnl(p, price) + FundingPnl(p, index) \in Int
    <2> TAKE p \in Position
    <2>1. FundingPnl(p, index) \in Int
      BY <1>1, PositionQuantities
    <2>2. Sign(p) \in {1, -1} /\ p.size \in Int /\ p.entry_price \in Int
      BY SignValues DEF Position
    <2>3. PositionPnl(p, price) \in Int
      BY <2>2 DEF PositionPnl
    <2>4. QED
      BY <2>1, <2>3
  <1>3. \A p \in Position, bps \in Nat : ApplyBps(p.size * price, bps) \in Nat
    <2> TAKE p \in Position, bps \in Nat
    <2> DEFINE x == p.size * price
    <2>1. p.size \in Nat
      BY DEF Position
    <2>2. x \in Nat
      BY <2>1
    <2> HIDE DEF x
    <2>3. ApplyBps(x, bps) \in Nat
      BY <2>2, RateOfNatural
    <2>4. QED
      BY <2>3 DEF x
  <1>4. \A i \in DOMAIN s : s[i] \in Position
    BY <1>1, SlotCases
  <1>5. OverPositions(s, LAMBDA p : PositionPnl(p, price) + FundingPnl(p, index)) = Gain(s, index)
    <2> DEFINE f == [i \in DOMAIN s |-> PositionPnl(s[i], price) + FundingPnl(s[i], index)]
    <2> HIDE DEF s, index
    <2>1. \A i \in DOMAIN s : f[i] \in Int
      BY <1>2, <1>4
    <2>2. SumFunction(f) = IF s = <<>> THEN 0 ELSE f[1]
      BY <1>1, <2>1, SumOverSlot
    <2>3. QED
      BY <1>1, <2>2, SlotCases DEF OverPositions, Gain
  <1>6. Gain(s, index) \in Int
    <2> HIDE DEF s, index
    <2>1. QED
      BY <1>1, <1>2, SlotCases DEF Gain
  <1>7. ASSUME NEW bps \in Nat
        PROVE  Required(l, u, bps) = Margin(s, bps) /\ Margin(s, bps) \in Nat
    <2> DEFINE f == [i \in DOMAIN s |-> ApplyBps(s[i].size * price, bps)]
    <2>0. Required(l, u, bps) = SumFunction(f)
      BY DEF Required, OverPositions
    <2> HIDE DEF s
    <2>1. \A i \in DOMAIN s : f[i] \in Int
      BY <1>3, <1>4
    <2>2. SumFunction(f) = IF s = <<>> THEN 0 ELSE f[1]
      BY <1>1, <2>1, SumOverSlot
    <2>3. SumFunction(f) = Margin(s, bps)
      BY <1>1, <2>2, SlotCases DEF Margin
    <2>4. Margin(s, bps) \in Nat
      BY <1>1, <1>3, SlotCases DEF Margin
    <2>5. QED
      BY <2>0, <2>3, <2>4
  <1>8. Equity(l, u) = AfterHaircut(l.balance[u] * quote) + Gain(s, index)
    BY <1>5 DEF Equity
  <1>9. QED
    BY <1>6, <1>7, <1>8

\* More collateral is not worth less, and no debt is not worth a debt.
LEMMA ValueOrder ==
  ASSUME NEW a \in Int, NEW b \in Int, NEW z \in Nat, a <= b
  PROVE  /\ a * z \in Int /\ b * z \in Int /\ a * z <= b * z
         /\ a >= 0 => a * z >= 0
  <1>1. a * z \in Int /\ b * z \in Int
    OBVIOUS
  <1>2. a * z <= b * z
    BY ProductOrder
  <1>3. ASSUME a >= 0 PROVE a * z >= 0
    <2>1. a \in Nat
      BY <1>3
    <2>2. a * z \in Nat
      BY <2>1
    <2>3. QED
      BY <2>2
  <1>4. QED
    BY <1>1, <1>2, <1>3

\* A credit keeps an account above its initial margin while its collateral is priced.
LEMMA CreditKeepsMargin ==
  ASSUME NEW l \in Ledger, NEW u \in Users, price \in Nat, quote \in Nat, quote # Stale,
         NEW amount \in Nat, NEW m, m = Credit(l, u, amount), AboveInitialMargin(l, u)
  PROVE  AboveInitialMargin(m, u)
  <1> DEFINE v == l.balance[u]
             w == m.balance[u]
             x == v * quote
             y == w * quote
             g == Gain(l.synced[u], l.synced_index)
             r == Margin(l.synced[u], InitialBps)
  <1>0. u \in Accounts /\ InitialBps \in Nat /\ amount \in Int
    BY ClearingHouseConstants DEF Accounts
  <1>1. m \in Ledger /\ m.balance[u] = l.balance[u] + amount
        /\ m.synced = l.synced /\ m.synced_index = l.synced_index
    BY <1>0 DEF Credit, Ledger
  <1>2. v \in Int /\ w \in Int /\ v <= w
    BY <1>0, <1>1 DEF Ledger
  <1>3. Equity(l, u) = AfterHaircut(x) + g /\ g \in Int /\ Equity(m, u) = AfterHaircut(y) + g
    BY <1>1, MarginOfSlot
  <1>4. InitialMargin(l, u) = r /\ InitialMargin(m, u) = r /\ r \in Nat
    BY <1>0, <1>1, MarginOfSlot DEF InitialMargin
  <1> HIDE DEF v, w, g, r
  <1>v. x \in Int /\ y \in Int /\ x <= y
    BY <1>2, ValueOrder
  <1> HIDE DEF x, y
  <1>5. AfterHaircut(x) \in Int /\ AfterHaircut(y) \in Int /\ AfterHaircut(x) <= AfterHaircut(y)
    BY <1>v, HaircutMonotone
  <1>6. Equity(l, u) >= InitialMargin(l, u) /\ Priced(l, u)
    BY DEF AboveInitialMargin
  <1>7. Equity(m, u) >= InitialMargin(m, u)
    BY <1>3, <1>4, <1>5, <1>6
  <1>8. Priced(m, u)
    BY <1>1, <1>6 DEF Priced
  <1>9. QED
    BY <1>7, <1>8 DEF AboveInitialMargin

\* A withdrawal that the vault allows leaves the account above its initial margin.
LEMMA WithdrawalLeavesMargin ==
  ASSUME NEW u \in Users, ledger \in Ledger, price \in Nat, quote \in Nat, NEW amount \in Nat,
         NEW m, m = Credit(ledger, u, -amount), MayWithdraw(u, amount)
  PROVE  AboveInitialMargin(m, u)
  <1> DEFINE v == m.balance[u]
             w == ledger.balance[u]
             g == Gain(ledger.synced[u], ledger.synced_index)
             r == Margin(ledger.synced[u], InitialBps)
             x == -amount
             a == v * quote
             b == w * quote
             taken == amount * quote
  <1>0. u \in Accounts /\ InitialBps \in Nat /\ x \in Int /\ m = Credit(ledger, u, x)
    BY ClearingHouseConstants DEF Accounts
  <1>1. m \in Ledger /\ m.balance[u] = ledger.balance[u] + x
        /\ m.synced = ledger.synced /\ m.synced_index = ledger.synced_index
    <2> HIDE DEF x
    <2>1. QED
      BY <1>0 DEF Credit, Ledger
  <1>2. v \in Int /\ w \in Int /\ v = w - amount /\ v >= 0 /\ v <= w
    BY <1>0, <1>1 DEF Ledger, MayWithdraw
  <1>3. Equity(ledger, u) = AfterHaircut(b) + g /\ g \in Int /\ Equity(m, u) = AfterHaircut(a) + g
    BY <1>1, MarginOfSlot
  <1>4. InitialMargin(ledger, u) = r /\ InitialMargin(m, u) = r /\ r \in Nat
    BY <1>0, <1>1, MarginOfSlot DEF InitialMargin
  <1>6. Equity(ledger, u) - taken >= InitialMargin(ledger, u) /\ Priced(ledger, u) /\ quote # Stale
    BY DEF MayWithdraw
  <1> HIDE DEF v, w, g, r, x
  <1>v. a \in Int /\ b \in Int /\ a <= b /\ a >= 0
    BY <1>2, ValueOrder
  <1>t. taken \in Int /\ b - a = taken
    BY <1>2
  <1> HIDE DEF a, b, taken
  <1>5. AfterHaircut(a) \in Int /\ AfterHaircut(b) \in Int /\ AfterHaircut(b) - AfterHaircut(a) <= b - a
    BY <1>v, HaircutMonotone
  <1>7. Equity(m, u) >= InitialMargin(m, u)
    BY <1>t, <1>v, <1>3, <1>4, <1>5, <1>6
  <1>8. Priced(m, u)
    BY <1>1, <1>6 DEF Priced
  <1>9. QED
    BY <1>7, <1>8 DEF AboveInitialMargin

\* An account that can be liquidated is below its initial margin.
LEMMA LiquidatableIsBelow ==
  ASSUME NEW l \in Ledger, NEW u \in Users, price \in Nat, quote \in Nat, Liquidatable(l, u)
  PROVE  ~AboveInitialMargin(l, u)
  <1> DEFINE s == l.synced[u]
  <1>1. /\ MaintenanceBps \in Nat /\ InitialBps \in Nat /\ MaintenanceBps <= InitialBps
    BY ClearingHouseConstants
  <1>2. /\ MaintenanceMargin(l, u) = Margin(s, MaintenanceBps) /\ InitialMargin(l, u) = Margin(s, InitialBps)
        /\ Margin(s, MaintenanceBps) \in Nat /\ Margin(s, InitialBps) \in Nat
    BY <1>1, MarginOfSlot DEF MaintenanceMargin, InitialMargin
  <1>3. Margin(s, MaintenanceBps) <= Margin(s, InitialBps)
    <2>1. s \in Slots
      BY DEF Ledger
    <2> HIDE DEF s
    <2>2. CASE s = <<>>
      BY <2>2 DEF Margin
    <2>3. CASE s # <<>>
      <3>1. PICK p \in Position : s[1] = p
        BY <2>1, <2>3, SlotCases
      <3> DEFINE x == p.size * price
                 a == x * MaintenanceBps
                 b == x * InitialBps
      <3>2. p.size \in Nat
        BY DEF Position
      <3>3. x \in Nat
        BY <3>2
      <3> HIDE DEF x
      <3>4. a <= b /\ a \in Nat /\ b \in Nat
        <4>1. MaintenanceBps * x <= InitialBps * x
          BY <1>1, <3>3, ProductOrder
        <4>2. QED
          BY <1>1, <3>3, <4>1
      <3>5. Margin(s, MaintenanceBps) = a \div 10000 /\ Margin(s, InitialBps) = b \div 10000
        BY <2>3, <3>1 DEF Margin, ApplyBps, x
      <3> HIDE DEF a, b
      <3>6. QED
        BY <3>4, <3>5
    <2>4. QED
      BY <2>2, <2>3
  <1>4. Equity(l, u) < MaintenanceMargin(l, u)
    BY DEF Liquidatable
  <1>5. Equity(l, u) \in Int
    <2> DEFINE v == l.balance[u] * quote
    <2>1. v \in Int
      <3>1. l.balance[u] \in Int
        BY DEF Ledger, Accounts
      <3>2. QED
        BY <3>1
    <2> HIDE DEF v
    <2>v. AfterHaircut(v) \in Int
      <3>1. v <= v
        BY <2>1
      <3>2. QED
        BY <2>1, <3>1, HaircutMonotone
    <2>2. AfterHaircut(l.balance[u] * quote) \in Int
      BY <2>v DEF v
    <2>3. QED
      BY <2>2, MarginOfSlot
  <1> HIDE DEF s
  <1>6. ~(Equity(l, u) >= InitialMargin(l, u))
    BY <1>2, <1>3, <1>4, <1>5
  <1>7. QED
    BY <1>6 DEF AboveInitialMargin

\* An OracleMoves, a FundInsurance, a pause and a stutter leave the books alone.
LEMMA SameBooksKeep ==
  ASSUME BooksBalance, UNCHANGED <<ledger, custody, deposited, badDebt, house, fills>>,
         depositors' \subseteq Users, price' \in Prices \cup {Stale}, quote' \in Quotes \cup {Stale},
         paused' \in BOOLEAN, fund' \in Nat
  PROVE  BooksBalance'
  BY DEF BooksBalance, Books, Skew, Net, Holdings, Funding, Costs

\* Every step keeps the books balanced: one case per action of the contracts.
LEMMA BalanceStep == BooksBalance /\ [Next]_vars => BooksBalance'
  <1> SUFFICES ASSUME BooksBalance, [Next]_vars PROVE BooksBalance'
    OBVIOUS
  <1>1. /\ depositors \subseteq Users /\ quote \in Quotes \cup {Stale}
        /\ price \in Prices \cup {Stale} /\ paused \in BOOLEAN /\ fund \in Nat
    BY DEF BooksBalance
  <1>2. ASSUME NEW u \in Users, NEW amount \in Amounts, Deposit(u, amount)
        PROVE  BooksBalance'
    BY <1>2, DepositKeeps
  <1>3. ASSUME NEW u \in Users, NEW amount \in Amounts, Withdraw(u, amount)
        PROVE  BooksBalance'
    BY <1>3, WithdrawKeeps
  <1>4. ASSUME NEW maker \in Users, NEW taker \in Users, NEW maker_long \in BOOLEAN,
               NEW maker_ro \in BOOLEAN, NEW taker_ro \in BOOLEAN, NEW size \in Sizes,
               NEW at \in ExecutionPrices,
               SettleFill(maker, taker, maker_long, maker_ro, taker_ro, size, at)
        PROVE  BooksBalance'
    BY <1>4, SettleFillKeeps
  <1>5. ASSUME NEW u \in Users, NEW i \in DOMAIN ledger.positions[u], NEW size \in Sizes,
               NEW at \in ExecutionPrices, Liquidate(u, i, size, at)
        PROVE  BooksBalance'
    BY <1>5, LiquidateKeeps
  <1>6. ASSUME NEW u \in Users, NEW i \in DOMAIN ledger.positions[u], NEW size \in Sizes,
               NEW at \in ExecutionPrices, Adl(u, i, size, at)
        PROVE  BooksBalance'
    BY <1>6, AdlKeeps
  <1>7. ASSUME NEW delta \in FundingDeltas, UpdateFunding(delta)
        PROVE  BooksBalance'
    BY <1>7, FundingKeeps
  <1>8. ASSUME NEW amount \in Amounts, FundInsurance(amount)
        PROVE  BooksBalance'
    <2>1. amount \in Nat
      BY InputTypes
    <2>2. fund' \in Nat /\ price' = price /\ quote' = quote /\ depositors' = depositors /\ paused' = paused
          /\ UNCHANGED <<ledger, custody, deposited, badDebt, house, fills>>
      BY <1>1, <1>8, <2>1 DEF FundInsurance
    <2>3. QED
      BY <1>1, <2>2, SameBooksKeep
  <1>9. CASE OracleMoves
    <2>1. price' \in Prices \cup {Stale} /\ quote' \in Quotes \cup {Stale}
          /\ depositors' = depositors /\ fund' = fund /\ paused' = paused
          /\ UNCHANGED <<ledger, custody, deposited, badDebt, house, fills>>
      BY <1>1, <1>9 DEF OracleMoves
    <2>2. QED
      BY <1>1, <2>1, SameBooksKeep
  <1>10. CASE EmergencyPause \/ Unpause
    <2>1. paused' \in BOOLEAN /\ fund' = fund /\ price' = price /\ quote' = quote
          /\ depositors' = depositors
          /\ UNCHANGED <<ledger, custody, deposited, badDebt, house, fills>>
      BY <1>10 DEF EmergencyPause, Unpause
    <2>2. QED
      BY <1>1, <2>1, SameBooksKeep
  <1>11. CASE UNCHANGED vars
    <2>1. fund' = fund /\ price' = price /\ quote' = quote /\ paused' = paused
          /\ depositors' = depositors
          /\ UNCHANGED <<ledger, custody, deposited, badDebt, house, fills>>
      BY <1>11 DEF vars
    <2>2. QED
      BY <1>1, <2>1, SameBooksKeep
  <1>12. QED
    BY <1>2, <1>3, <1>4, <1>5, <1>6, <1>7, <1>8, <1>9, <1>10, <1>11 DEF Next

\* The engine's books, the vault's mirror and balances, the house's side and the
\* tokens in custody balance in every reachable state.
THEOREM BooksAlwaysBalance == Spec => []BooksBalance
  <1>1. Init => BooksBalance
    BY BalanceInit
  <1>2. BooksBalance /\ [Next]_vars => BooksBalance'
    BY BalanceStep
  <1>3. QED
    BY <1>1, <1>2, PTL DEF Spec

\* The open interest counters, the vault's mirror of the positions, one position
\* per account and market, and the two sides of the market agree after every
\* invocation: open, increase, reduce, liquidate, auto-deleverage and funding.
THEOREM BooksAlwaysAgree == Spec => []BooksAgree
  <1>1. BooksBalance => BooksAgree
    BY BalanceShown
  <1>2. QED
    BY <1>1, BooksAlwaysBalance, PTL

\* No invocation creates or destroys value: what accounts hold and are owed is
\* what the vault holds in tokens, up to the house's cash and the rounding of
\* averaged entry prices.
THEOREM ValueIsAlwaysConserved == Spec => []ValueIsConserved
  <1>1. BooksBalance => ValueIsConserved
    BY BalanceShown
  <1>2. QED
    BY <1>1, BooksAlwaysBalance, PTL

-----------------------------------------------------------------------------
(* What a step may never do.                                               *)

\* While the vault is paused no step moves a balance or a token: deposits and
\* withdrawals are refused, and trades, fees, funding, liquidations and ADL reach
\* balances only through apply_pnl, which errs.
THEOREM PauseAlwaysFreezesBalances == Spec => PauseFreezesBalances
  <1>1. ASSUME BooksBalance, [Next]_vars, paused, paused'
        PROVE  UNCHANGED <<ledger.balance, custody>>
    <2>1. ASSUME NEW u \in Users, NEW amount \in Amounts, Deposit(u, amount) \/ Withdraw(u, amount)
          PROVE  FALSE
      BY <1>1, <2>1 DEF Deposit, Withdraw
    <2>2. ASSUME NEW maker \in Users, NEW taker \in Users, NEW maker_long \in BOOLEAN,
                 NEW maker_ro \in BOOLEAN, NEW taker_ro \in BOOLEAN, NEW size \in Sizes,
                 NEW at \in ExecutionPrices,
                 SettleFill(maker, taker, maker_long, maker_ro, taker_ro, size, at)
          PROVE  UNCHANGED <<ledger.balance, custody>>
      <3>1. Confined(ledger, ledger', {maker, taker})
        BY <1>1, <2>2, SettleFillKeeps
      <3>2. custody' = custody
        BY <2>2 DEF SettleFill
      <3>3. QED
        BY <1>1, <3>1, <3>2 DEF Confined
    <2>3. ASSUME NEW u \in Users, NEW i \in DOMAIN ledger.positions[u], NEW size \in Sizes,
                 NEW at \in ExecutionPrices, Liquidate(u, i, size, at) \/ Adl(u, i, size, at)
          PROVE  FALSE
      BY <1>1, <2>3, LiquidateKeeps, AdlKeeps
    <2>4. ASSUME NEW delta \in FundingDeltas, UpdateFunding(delta)
          PROVE  UNCHANGED <<ledger.balance, custody>>
      <3>1. ledger'.balance = ledger.balance
        BY <1>1, <2>4, FundingKeeps
      <3>2. custody' = custody
        BY <2>4 DEF UpdateFunding
      <3>3. QED
        BY <3>1, <3>2
    <2>5. ASSUME NEW amount \in Amounts, FundInsurance(amount)
          PROVE  UNCHANGED <<ledger.balance, custody>>
      BY <2>5 DEF FundInsurance
    <2>6. CASE OracleMoves \/ EmergencyPause \/ Unpause
      BY <2>6 DEF OracleMoves, EmergencyPause, Unpause
    <2>7. CASE UNCHANGED vars
      BY <2>7 DEF vars
    <2>8. QED
      BY <1>1, <2>1, <2>2, <2>3, <2>4, <2>5, <2>6, <2>7 DEF Next
  <1>2. BooksBalance /\ [Next]_vars =>
          [paused /\ paused' => UNCHANGED <<ledger.balance, custody>>]_vars
    BY <1>1
  <1>3. QED
    BY <1>2, BooksAlwaysBalance, PTL DEF Spec, PauseFreezesBalances

\* Between invocations what accounts hold and are owed in funding is the sum of
\* the balances and of one position's funding per account.
LEMMA SettledParts == BooksBalance => Settled = Holdings(ledger) + Funding(ledger)
  <1> SUFFICES ASSUME BooksBalance PROVE Settled = Holdings(ledger) + Funding(ledger)
    OBVIOUS
  <1>1. ledger.index \in Index /\ \A u \in Users : ledger.positions[u] \in Slots
    BY DEF BooksBalance, Books, Ledger
  <1>2. \A u \in Users : OverPositions(ledger.positions[u], LAMBDA p : FundingPnl(p, ledger.index))
                           = Owed(ledger.positions[u], ledger.index)
    BY <1>1, SlotQuantities
  <1>3. OverUsers(LAMBDA p : FundingPnl(p, ledger.index)) = Funding(ledger)
    BY <1>2 DEF OverUsers, Funding
  <1>4. QED
    BY <1>3 DEF Settled, Holdings

\* Only an ADL lowers the recorded debt, and it pays the closed position what it
\* strikes off, no more: record_adl_settlement takes off the gain, and the close
\* was sized so that the gain fits in the debt.
THEOREM AdlAlwaysPaysItsDebt == Spec => AdlPaysTheDebtItClears
  <1>1. ASSUME BooksBalance, BooksBalance', [Next]_vars, badDebt' < badDebt
        PROVE  Settled' - Settled = badDebt - badDebt'
    <2>0. badDebt \in Nat /\ badDebt' \in Nat /\ ~(badDebt' >= badDebt) /\ badDebt' # badDebt
      BY <1>1 DEF BooksBalance
    <2>1. PICK u \in Users : \E i \in DOMAIN ledger.positions[u] :
                \E size \in Sizes, at \in ExecutionPrices : Adl(u, i, size, at)
      <3>1. ASSUME NEW u \in Users, NEW i \in DOMAIN ledger.positions[u], NEW size \in Sizes,
                   NEW at \in ExecutionPrices, Liquidate(u, i, size, at)
            PROVE  FALSE
        <4>1. badDebt' >= badDebt
          BY <1>1, <3>1, LiquidateKeeps
        <4>2. QED
          BY <2>0, <4>1
      <3>2. \/ \E u \in Users, amount \in Amounts : Deposit(u, amount) \/ Withdraw(u, amount)
            \/ \E maker, taker \in Users, maker_long, maker_ro, taker_ro \in BOOLEAN,
                  size \in Sizes, at \in ExecutionPrices :
                  SettleFill(maker, taker, maker_long, maker_ro, taker_ro, size, at)
            \/ \E delta \in FundingDeltas : UpdateFunding(delta)
            \/ \E amount \in Amounts : FundInsurance(amount)
            \/ OracleMoves \/ EmergencyPause \/ Unpause
            \/ UNCHANGED vars
            => badDebt' = badDebt
        BY DEF Deposit, Withdraw, SettleFill, UpdateFunding, FundInsurance, OracleMoves,
               EmergencyPause, Unpause, vars
      <3>3. QED
        BY <1>1, <2>0, <3>1, <3>2 DEF Next
    <2>2. /\ Holdings(ledger') + Funding(ledger')
                = Holdings(ledger) + Funding(ledger) + (badDebt - badDebt')
      BY <1>1, <2>1, AdlKeeps
    <2>3. Settled = Holdings(ledger) + Funding(ledger)
      BY <1>1, SettledParts
    <2>4. Settled' = Holdings(ledger') + Funding(ledger')
      <3>1. (BooksBalance => Settled = Holdings(ledger) + Funding(ledger))'
        BY SettledParts, PTL
      <3>2. QED
        BY <1>1, <3>1 DEF Holdings, Funding
    <2>5. Holdings(ledger) \in Int /\ Funding(ledger) \in Int
      BY <1>1, SumsOfLedger DEF BooksBalance, Books
    <2>6. QED
      BY <2>0, <2>2, <2>3, <2>4, <2>5
  <1>2. BooksBalance /\ BooksBalance' /\ [Next]_vars =>
          [badDebt' < badDebt => Settled' - Settled = badDebt - badDebt']_vars
    BY <1>1
  <1>3. QED
    BY <1>2, BooksAlwaysBalance, PTL DEF Spec, AdlPaysTheDebtItClears

\* The margin of a ledger in the next state is read at the next price.
LEMMA MarginNext ==
  ASSUME NEW u, price' = price, quote' = quote, quote # Stale, AboveInitialMargin(ledger', u)
  PROVE  AboveInitialMargin(ledger, u)'
  BY DEF AboveInitialMargin, Priced, Equity, InitialMargin, Required, OverPositions,
         PositionPnl, FundingPnl, AfterHaircut, ApplyBps, Sign

\* The premises of an own action: no oracle, funding or ADL step.
Own == price' = price /\ quote' = quote /\ quote # Stale /\ ledger'.index = ledger.index /\ badDebt' >= badDebt

\* Accounts outside those an invocation touches keep their margin.
LEMMA ConfinedMargin ==
  ASSUME NEW l, NEW m, NEW S, Confined(l, m, S), NEW u \in Users \ S, AboveInitialMargin(l, u)
  PROVE  AboveInitialMargin(m, u)
  BY SameMargin DEF Confined

\* An account at or above its initial margin is still there after any deposit,
\* withdrawal, fill, fee or liquidation, its own or another's: only the oracle,
\* funding and ADL take it below.
THEOREM OwnActionsAlwaysKeepMargin == Spec => OwnActionsKeepInitialMargin
  <1>1. ASSUME BooksBalance, [Next]_vars, Own, NEW v \in Users, AboveInitialMargin(ledger, v)
        PROVE  AboveInitialMargin(ledger', v)
    <2>1. /\ ledger \in Ledger /\ price \in Nat /\ quote \in Nat /\ quote # Stale
          /\ badDebt \in Nat
      BY <1>1, ClearingHouseConstants DEF BooksBalance, Books, Stale, Own
    <2>2. ASSUME NEW u \in Users, NEW amount \in Amounts, Deposit(u, amount)
          PROVE  AboveInitialMargin(ledger', v)
      <3>1. amount \in Nat /\ amount \in Int /\ u \in Accounts /\ v \in Accounts
        BY InputTypes
      <3>2. ledger' = Credit(ledger, u, amount)
        BY <2>2 DEF Deposit
      <3>3. CASE v = u
        BY <1>1, <2>1, <3>1, <3>2, <3>3, CreditKeepsMargin
      <3>4. CASE v # u
        <4>1. ledger'.balance[v] = ledger.balance[v] /\ ledger'.synced = ledger.synced
              /\ ledger'.synced_index = ledger.synced_index
          BY <2>1, <3>1, <3>2, <3>4 DEF Credit, Ledger
        <4>2. QED
          BY <1>1, <4>1, SameMargin
      <3>5. QED
        BY <3>3, <3>4
    <2>3. ASSUME NEW u \in Users, NEW amount \in Amounts, Withdraw(u, amount)
          PROVE  AboveInitialMargin(ledger', v)
      <3>1. amount \in Nat /\ -amount \in Int /\ u \in Accounts /\ v \in Accounts
        BY InputTypes
      <3>2. ledger' = Credit(ledger, u, -amount) /\ MayWithdraw(u, amount)
        BY <2>3 DEF Withdraw
      <3>3. CASE v = u
        BY <2>1, <3>1, <3>2, <3>3, WithdrawalLeavesMargin
      <3>4. CASE v # u
        <4>1. ledger'.balance[v] = ledger.balance[v] /\ ledger'.synced = ledger.synced
              /\ ledger'.synced_index = ledger.synced_index
          BY <2>1, <3>1, <3>2, <3>4 DEF Credit, Ledger
        <4>2. QED
          BY <1>1, <4>1, SameMargin
      <3>5. QED
        BY <3>3, <3>4
    <2>4. ASSUME NEW maker \in Users, NEW taker \in Users, NEW maker_long \in BOOLEAN,
                 NEW maker_ro \in BOOLEAN, NEW taker_ro \in BOOLEAN, NEW size \in Sizes,
                 NEW at \in ExecutionPrices,
                 SettleFill(maker, taker, maker_long, maker_ro, taker_ro, size, at)
          PROVE  AboveInitialMargin(ledger', v)
      <3>1. /\ Confined(ledger, ledger', {maker, taker})
            /\ AboveInitialMargin(ledger', maker) /\ AboveInitialMargin(ledger', taker)
        BY <1>1, <2>4, SettleFillKeeps
      <3>2. CASE v \in {maker, taker}
        BY <3>1, <3>2
      <3>3. CASE v \in Users \ {maker, taker}
        BY <1>1, <3>1, <3>3, ConfinedMargin
      <3>4. QED
        BY <3>2, <3>3
    <2>5. ASSUME NEW u \in Users, NEW i \in DOMAIN ledger.positions[u], NEW size \in Sizes,
                 NEW at \in ExecutionPrices, Liquidate(u, i, size, at)
          PROVE  AboveInitialMargin(ledger', v)
      <3>1. Confined(ledger, ledger', {u})
        BY <1>1, <2>5, LiquidateKeeps
      <3>2. Liquidatable(ledger, u)
        BY <2>5 DEF Liquidate
      <3>3. v # u
        BY <1>1, <2>1, <3>2, LiquidatableIsBelow
      <3>4. v \in Users \ {u}
        BY <3>3
      <3>5. QED
        BY <1>1, <3>1, <3>4, ConfinedMargin
    <2>6. ASSUME NEW u \in Users, NEW i \in DOMAIN ledger.positions[u], NEW size \in Sizes,
                 NEW at \in ExecutionPrices, Adl(u, i, size, at)
          PROVE  FALSE
      <3>1. badDebt' < badDebt /\ BooksBalance'
        BY <1>1, <2>6, AdlKeeps
      <3>2. badDebt' \in Nat
        BY <3>1 DEF BooksBalance
      <3>3. QED
        BY <1>1, <2>1, <3>1, <3>2 DEF Own
    <2>7. ASSUME NEW delta \in FundingDeltas, UpdateFunding(delta)
          PROVE  AboveInitialMargin(ledger', v)
      <3>1. /\ ledger'.synced_index = ledger.synced_index /\ ledger'.synced = ledger.synced
            /\ ledger'.balance[v] = ledger.balance[v]
        BY <1>1, <2>7, FundingKeeps DEF Own
      <3>2. QED
        BY <1>1, <3>1, SameMargin
    <2>8. CASE ledger' = ledger
      BY <1>1, <2>8
    <2>9. ASSUME NEW amount \in Amounts, FundInsurance(amount)
          PROVE  ledger' = ledger
      BY <2>9 DEF FundInsurance
    <2>10. CASE OracleMoves \/ EmergencyPause \/ Unpause \/ UNCHANGED vars
      BY <2>8, <2>10 DEF OracleMoves, EmergencyPause, Unpause, vars
    <2>11. QED
      BY <1>1, <2>2, <2>3, <2>4, <2>5, <2>6, <2>7, <2>8, <2>9, <2>10 DEF Next
  <1>2. ASSUME BooksBalance, [Next]_vars, Own, NEW v \in Users, AboveInitialMargin(ledger, v)
        PROVE  AboveInitialMargin(ledger, v)'
    <2>1. price' = price /\ quote' = quote /\ quote # Stale /\ AboveInitialMargin(ledger', v)
      BY <1>1, <1>2 DEF Own
    <2>2. QED
      BY <2>1, MarginNext
  <1>3. BooksBalance /\ [Next]_vars =>
          [(price' = price /\ quote' = quote /\ quote # Stale /\ ledger'.index = ledger.index /\ badDebt' >= badDebt) =>
             \A u \in Users : AboveInitialMargin(ledger, u) => AboveInitialMargin(ledger, u)']_vars
    BY <1>2 DEF Own
  <1>4. QED
    BY <1>3, BooksAlwaysBalance, PTL DEF Spec, OwnActionsKeepInitialMargin

-----------------------------------------------------------------------------
(* A solvent trader can leave.                                             *)

\* Settling a position's funding never errs while the vault is open.
LEMMA FundingSettles ==
  ASSUME NEW l, NEW u, NEW i, ~paused
  PROVE  \E m : m \in SettleFunding(l, u, i)
  <1> DEFINE p == l.positions[u][i]
             pnl == FundingPnl(p, l.index)
             paid == IF pnl = 0 THEN {l} ELSE ApplyPnl(l, u, pnl)
  <1>1. \E n : n \in paid
    BY DEF ApplyPnl, Succeed
  <1>2. SettleFunding(l, u, i)
          = {[m EXCEPT !.positions[u][i].last_funding_index = l.index[p.is_long]] : m \in paid}
    BY DEF SettleFunding
  <1> HIDE DEF paid
  <1>3. QED
    BY <1>1, <1>2

\* An account that holds no position and no debt is above its initial margin.
LEMMA CashIsEnough ==
  ASSUME NEW m \in Ledger, NEW u \in Users, m.synced[u] = <<>>, m.balance[u] >= 0,
         price \in Nat, quote \in Nat, quote # Stale
  PROVE  AboveInitialMargin(m, u)
  <1> DEFINE w == m.balance[u] * quote
  <1>1. w \in Int /\ w >= 0 /\ w <= w
    <2>1. m.balance[u] \in Nat
      BY DEF Ledger, Accounts
    <2>2. w \in Nat
      BY <2>1
    <2> HIDE DEF w
    <2>3. QED
      BY <2>2
  <1> HIDE DEF w
  <1>2. AfterHaircut(w) \in Int /\ AfterHaircut(w) >= 0
    BY <1>1, HaircutMonotone
  <1>3. Equity(m, u) = AfterHaircut(w) + 0
    BY MarginOfSlot DEF Gain, w
  <1>4. InitialMargin(m, u) = 0
    <2>1. InitialBps \in Nat
      BY ClearingHouseConstants
    <2>2. Required(m, u, InitialBps) = Margin(<<>>, InitialBps)
      <3>1. \A bps \in Nat : Required(m, u, bps) = Margin(m.synced[u], bps)
        BY MarginOfSlot
      <3>2. QED
        BY <2>1, <3>1
    <2>3. QED
      BY <2>2 DEF InitialMargin, Margin
  <1>5. QED
    BY <1>2, <1>3, <1>4 DEF AboveInitialMargin, Priced

\* The full close of an account's position at the oracle price: the engine's
\* band, settle_funding, apply_pnl and the margin of an account that holds
\* nothing, each of which could have refused it.  What is left is the account's cash.
LEMMA FullCloseSucceeds ==
  ASSUME NEW l \in Ledger, NEW u \in Users, NEW p \in Position, l.positions[u] = <<p>>,
         l.synced = l.positions, l.synced_index = l.index,
         ~paused, price \in Nat, price # Stale, quote \in Nat, quote # Stale,
         l.balance[u] + PositionPnl(p, price) + FundingPnl(p, l.index) >= 0
  PROVE  \E m \in ReducePosition(l, u, 1, p.size, price, TRUE) :
            /\ m \in Ledger /\ m.synced[u] = <<>>
            /\ m.balance[u] = l.balance[u] + PositionPnl(p, price) + FundingPnl(p, l.index)
  <1> DEFINE pnl == Sign(p) * p.size * (price - p.entry_price)
             owed == FundingPnl(p, l.index)
             b == l.balance[u]
             placed(n) == [n EXCEPT !.positions[u] = <<>>]
             reduced(n) == AddInterest(placed(n), p.is_long, -p.size)
             credited(n) == Credit(reduced(n), u, pnl)
             closed(n) == SyncPositions(credited(n), u)
             q == Refreshed(p, l.index)
  <1>1. /\ u \in Accounts /\ l.index \in Index /\ l.positions[u][1] = p
        /\ p.size \in Nat /\ -p.size \in Int /\ p.entry_price \in Nat /\ p.is_long \in BOOLEAN
        /\ owed \in Int /\ b \in Int
    BY PositionQuantities DEF Ledger, Accounts
  <1>2. pnl \in Int
    <2>1. Sign(p) \in {1, -1}
      BY SignValues
    <2>2. QED
      BY <1>1, <2>1
  <1>3. InBand(price)
    <2>1. ApplyBps(price, DeviationBps) \in Nat
      BY ClearingHouseConstants, RateOfNatural
    <2>2. QED
      BY <2>1 DEF InBand
  <1>4. PICK n \in SettleFunding(l, u, 1) : TRUE
    BY FundingSettles
  <1>5. /\ n \in Ledger /\ n.positions[u] = <<q>> /\ n.balance[u] = b + owed
        /\ n.synced_index = l.synced_index
    BY SettleFundingEffect DEF OthersUntouched
  <1>6. q.size = p.size /\ q.is_long = p.is_long
    BY <1>1, RefreshedPosition
  <1> HIDE DEF pnl, owed, b, q
  <1>7. placed(n) \in Ledger /\ placed(n).balance = n.balance /\ placed(n).positions[u] = <<>>
    <2> DEFINE m == placed(n)
               s == <<>>
    <2>1. s \in Slots /\ m = [n EXCEPT !.positions[u] = s]
      BY DEF Slots
    <2> HIDE DEF m, s
    <2>2. m \in Ledger /\ m.balance = n.balance /\ m.positions[u] = s
      BY <1>5, <2>1 DEF Ledger
    <2>3. QED
      BY <2>2 DEF m, s
  <1>8. /\ closed(n) \in Ledger /\ closed(n).synced[u] = <<>>
        /\ closed(n).balance[u] = b + owed + pnl
    <2>1. reduced(n) \in Ledger /\ reduced(n).balance = n.balance
          /\ reduced(n).positions = placed(n).positions
      <3> DEFINE k == -p.size
                 m == placed(n)
                 r == reduced(n)
                 side == p.is_long
      <3>1. m \in Ledger /\ k \in Int /\ side \in BOOLEAN /\ r = AddInterest(m, side, k)
            /\ m.balance = n.balance
        BY <1>1, <1>7
      <3> HIDE DEF k, m, r, side
      <3>2. r \in Ledger /\ r.balance = m.balance /\ r.positions = m.positions
        <4>1. r \in Ledger
          BY <3>1, InterestEffect
        <4>2. r.balance = m.balance /\ r.positions = m.positions
          BY <3>1 DEF Ledger, AddInterest
        <4>3. QED
          BY <4>1, <4>2
      <3>3. QED
        BY <3>1, <3>2 DEF m, r
    <2> HIDE DEF placed, reduced
    <2>2. credited(n) \in Ledger /\ credited(n).balance[u] = reduced(n).balance[u] + pnl
          /\ credited(n).positions = reduced(n).positions
      <3> DEFINE m == reduced(n)
                 r == credited(n)
      <3>1. m \in Ledger /\ r = Credit(m, u, pnl)
        BY <2>1
      <3> HIDE DEF m, r
      <3>2. r \in Ledger /\ r.balance[u] = m.balance[u] + pnl /\ r.positions = m.positions
        BY <1>1, <1>2, <3>1 DEF Credit, Ledger
      <3>3. QED
        BY <3>2 DEF m, r
    <2> HIDE DEF credited
    <2>3. closed(n) \in Ledger /\ closed(n).synced[u] = credited(n).positions[u]
          /\ closed(n).balance = credited(n).balance
      BY <2>2, SyncEffect
    <2>4. QED
      BY <1>5, <1>7, <2>1, <2>2, <2>3
  <1>9. b + owed + pnl >= 0 /\ b + owed + pnl = l.balance[u] + PositionPnl(p, price) + FundingPnl(p, l.index)
    <2>1. PositionPnl(p, price) = pnl /\ FundingPnl(p, l.index) = owed /\ l.balance[u] = b
      BY DEF PositionPnl, pnl, owed, b
    <2>2. b + pnl + owed >= 0
      BY <2>1
    <2>3. b + owed + pnl = b + pnl + owed
      BY <1>1, <1>2
    <2>4. QED
      BY <2>1, <2>2, <2>3
  <1>10. AboveInitialMargin(closed(n), u)
    BY <1>1, <1>2, <1>8, <1>9, CashIsEnough
  <1>11. closed(n) \in ReducePosition(l, u, 1, p.size, price, TRUE)
    <2> DEFINE left(k) ==
                 [k EXCEPT !.positions[u] = IF k.positions[u][1].size = p.size
                                            THEN WithoutIndex(k.positions[u], 1)
                                            ELSE [k.positions[u] EXCEPT ![1].size = @ - p.size]]
    <2>1. left(n) = placed(n)
      <3>1. q \in Position
        BY <1>1, RefreshedPosition DEF q
      <3>2. WithoutIndex(<<q>>, 1) = <<>>
        BY <3>1, WithoutOnlyPosition
      <3>3. QED
        BY <1>5, <1>6, <3>2
    <2>2. n.positions[u][1].is_long = p.is_long
      BY <1>5, <1>6
    <2>3. credited(n) \in ApplyPnl(AddInterest(left(n), n.positions[u][1].is_long, -p.size), u, pnl)
      BY <2>1, <2>2 DEF ApplyPnl, Succeed
    <2>4. closed(n) \in SyncAndRequireMargin(credited(n), u)
      BY <1>10 DEF SyncAndRequireMargin, Succeed
    <2> HIDE DEF closed, credited, left
    <2>5. pnl = Sign(l.positions[u][1]) * p.size * (price - l.positions[u][1].entry_price)
      BY <1>1 DEF pnl
    <2> DEFINE strict == TRUE
               size == p.size
               at == price
               now == closed(n)
    <2> HIDE DEF left
    <2>6. credited(n) \in ApplyPnl(AddInterest(left(n), n.positions[u][1].is_long, -size), u,
                               Sign(l.positions[u][1]) * size * (at - l.positions[u][1].entry_price))
      BY <2>3, <2>5
    <2>7. now \in IF strict THEN SyncAndRequireMargin(credited(n), u)
                  ELSE Succeed(SyncPositions(credited(n), u), Priced(SyncPositions(credited(n), u), u))
      BY <2>4
    <2>8. size <= l.positions[u][1].size /\ InBand(at)
      BY <1>1, <1>3
    <2> HIDE DEF strict, size, at, now, credited
    <2>9. now \in AndThen(ApplyPnl(AddInterest(left(n), n.positions[u][1].is_long, -size), u,
                               Sign(l.positions[u][1]) * size * (at - l.positions[u][1].entry_price)),
                          LAMBDA x : IF strict THEN SyncAndRequireMargin(x, u) ELSE Succeed(SyncPositions(x, u), Priced(SyncPositions(x, u), u)))
      BY <2>6, <2>7 DEF AndThen
    <2>10. now \in ReducePosition(l, u, 1, size, at, strict)
      BY <1>4, <2>8, <2>9 DEF ReducePosition, AndThen, left, size
    <2>11. QED
      BY <2>10 DEF strict, size, at, now
  <1>12. QED
    BY <1>8, <1>9, <1>11

\* The fee of a fill, and the margin asked again after it, pass an account that holds
\* nothing but the cash for it.
LEMMA FeeSucceeds ==
  ASSUME NEW l \in Ledger, NEW u \in Users, l.synced[u] = <<>>, ~paused,
         price \in Nat, quote \in Nat, quote # Stale,
         NEW size \in Nat, NEW at \in Nat, NEW bps \in Nat,
         l.balance[u] >= ApplyBps(size * at, bps)
  PROVE  ChargeTradeFee(l, u, size, at, bps) # {}
  <1> DEFINE fee == ApplyBps(size * at, bps)
             paid == Credit(l, u, -fee)
             k == -fee
  <1>0. u \in Accounts /\ l.balance[u] \in Int
    BY DEF Accounts, Ledger
  <1>1. fee \in Nat
    <2> DEFINE amount == size * at
    <2>1. amount \in Nat
      OBVIOUS
    <2> HIDE DEF amount
    <2>2. ApplyBps(amount, bps) \in Nat
      BY <2>1, RateOfNatural
    <2>3. QED
      BY <2>2 DEF amount
  <1>f. l.balance[u] >= fee
    OBVIOUS
  <1>2. paid \in Ledger /\ paid.synced[u] = <<>> /\ paid.balance[u] >= 0
    <2> HIDE DEF fee
    <2>1. k \in Int /\ paid = Credit(l, u, k) /\ l.balance[u] + k >= 0
      BY <1>0, <1>1, <1>f
    <2> HIDE DEF k, paid
    <2>2. paid \in Ledger /\ paid.synced = l.synced
      BY ONLY l \in Ledger, <1>0, <2>1 DEF Ledger, Credit
    <2>3. paid.balance[u] = l.balance[u] + k
      BY ONLY l \in Ledger, <1>0, <2>1, CreditEffect
    <2>4. QED
      BY <2>1, <2>2, <2>3
  <1> HIDE DEF paid
  <1>3. AboveInitialMargin(paid, u)
    BY <1>2, CashIsEnough
  <1>4. paid \in {m \in ApplyPnl(l, u, -fee) : AboveInitialMargin(m, u)}
    BY <1>3 DEF ApplyPnl, Succeed, paid
  <1>5. Credit(paid, FeeRecipient, fee) \in ApplyPnl(paid, FeeRecipient, fee)
    BY DEF ApplyPnl, Succeed
  <1> HIDE DEF fee
  <1>6. AndThen({m \in ApplyPnl(l, u, -fee) : AboveInitialMargin(m, u)},
                LAMBDA m : ApplyPnl(m, FeeRecipient, fee)) # {}
    BY <1>4, <1>5 DEF AndThen
  <1>7. QED
    BY <1>6 DEF ChargeTradeFee, fee

\* Whatever the insurance headroom, the interest caps and the funding owed, a trader
\* whose collateral covers the position's loss, its funding and the fee can close all
\* of it at the oracle's price, through the gateway and with the fee's margin check,
\* while the vault is open and both feeds are fresh.
THEOREM SolventTradersCanAlwaysExit == Spec => []SolventTraderCanExit
  <1>1. BooksBalance => SolventTraderCanExit
    <2> DEFINE Exits(u, p, bps) ==
                 AndThen(SettleUserSide(ledger, u, ~p.is_long, TRUE, p.size, price),
                         LAMBDA m : ChargeTradeFee(m, u, p.size, price, bps))
    <2> SUFFICES ASSUME BooksBalance, ~paused, price # Stale, quote # Stale,
                        NEW u \in Users, NEW bps \in {MakerFeeBps, TakerFeeBps},
                        NEW i \in DOMAIN ledger.positions[u],
                        Cash(u, ledger.positions[u][i])
                            >= ApplyBps(ledger.positions[u][i].size * price, bps)
                 PROVE  Exits(u, ledger.positions[u][i], bps) # {}
      BY DEF SolventTraderCanExit
    <2>1. /\ ledger \in Ledger /\ ledger.synced = ledger.positions
          /\ ledger.synced_index = ledger.index /\ ledger.positions[u] \in Slots
      BY DEF BooksBalance, Books, Ledger
    <2>2. price \in Nat /\ quote \in Nat /\ bps \in Nat
      BY ClearingHouseConstants DEF BooksBalance, Stale
    <2>3. PICK p \in Position : i = 1 /\ ledger.positions[u] = <<p>> /\ ledger.positions[u][1] = p
      BY <2>1, SlotCases
    <2>4. p.size \in Nat \ {0} /\ p.is_long \in BOOLEAN
      BY DEF Position
    <2> DEFINE fee == ApplyBps(p.size * price, bps)
               cash == ledger.balance[u] + PositionPnl(p, price) + FundingPnl(p, ledger.index)
    <2>5. cash \in Int /\ fee \in Nat /\ cash >= fee /\ cash >= 0
      <3>1. cash >= fee
        BY <2>3 DEF Cash
      <3>2. fee \in Nat
        <4> DEFINE amount == p.size * price
        <4>1. amount \in Nat
          BY <2>2, <2>4
        <4> HIDE DEF amount
        <4>2. ApplyBps(amount, bps) \in Nat
          BY <2>2, <4>1, RateOfNatural
        <4>3. QED
          BY <4>2 DEF amount
      <3>3. cash \in Int
        <4>1. ledger.balance[u] \in Int /\ ledger.index \in Index
          BY <2>1 DEF Ledger, Accounts
        <4>2. FundingPnl(p, ledger.index) \in Int
          BY <4>1, PositionQuantities
        <4>3. Sign(p) \in {1, -1} /\ p.entry_price \in Int
          BY SignValues DEF Position
        <4>4. PositionPnl(p, price) \in Int
          BY <2>2, <2>4, <4>3 DEF PositionPnl
        <4> DEFINE x == PositionPnl(p, price)
                   y == FundingPnl(p, ledger.index)
                   b == ledger.balance[u]
        <4>5. x \in Int /\ y \in Int /\ b \in Int
          BY <4>1, <4>2, <4>4
        <4> HIDE DEF x, y, b
        <4>6. b + x + y \in Int
          BY <4>5
        <4>7. QED
          BY <4>6 DEF x, y, b
      <3> HIDE DEF cash, fee
      <3>4. QED
        BY <3>1, <3>2, <3>3
    <2>6. PICK m \in ReducePosition(ledger, u, 1, p.size, price, TRUE) :
            m \in Ledger /\ m.synced[u] = <<>> /\ m.balance[u] = cash
      BY <2>1, <2>2, <2>3, <2>5, FullCloseSucceeds
    <2> HIDE DEF cash
    <2>7. ChargeTradeFee(m, u, p.size, price, bps) # {}
      BY <2>2, <2>4, <2>5, <2>6, FeeSucceeds
    <2>8. m \in SettleUserSide(ledger, u, ~p.is_long, TRUE, p.size, price)
      <3> DEFINE side == ~p.is_long
      <3>1. side \in BOOLEAN /\ (~side) \in BOOLEAN
        BY <2>4, Zenon
      <3>2. 1 \in OnSide(ledger, u, ~side)
        <4>1. 1 \in DOMAIN ledger.positions[u]
          BY <2>3
        <4>2. ledger.positions[u][1].is_long = ~side
          BY <2>3, <2>4, Zenon
        <4>3. QED
          BY <4>1, <4>2, Zenon DEF OnSide
      <3> HIDE DEF side
      <3>3. OnSide(ledger, u, ~side) = {1} /\ Max(OnSide(ledger, u, ~side)) = 1
        <4> DEFINE other == ~side
        <4>1. other \in BOOLEAN /\ 1 \in OnSide(ledger, u, other)
          BY <3>1, <3>2
        <4> HIDE DEF other
        <4>2. OnSide(ledger, u, other) = {1} /\ Max(OnSide(ledger, u, other)) = 1
          BY <2>1, <4>1, PickedSide
        <4>3. QED
          BY <4>2 DEF other
      <3>4. Lesser(ledger.positions[u][1].size, p.size) = p.size
        BY <2>3, <2>4 DEF Lesser
      <3>5. m \in SettleUserSide(ledger, u, side, TRUE, p.size, price)
        BY <2>6, <3>3, <3>4 DEF SettleUserSide, AndThen
      <3>6. QED
        BY <3>5 DEF side
    <2>9. PICK k : k \in ChargeTradeFee(m, u, p.size, price, bps)
      BY <2>7
    <2>10. k \in Exits(u, p, bps)
      BY <2>8, <2>9 DEF AndThen
    <2> HIDE DEF Exits
    <2>11. QED
      BY <2>3, <2>10
  <1>2. QED
    BY <1>1, BooksAlwaysBalance, PTL
=============================================================================
