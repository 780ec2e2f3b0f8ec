------------------------- MODULE LiquidationProofs -------------------------
(***************************************************************************)
(* For every set of accounts, markets and prices, every haircut, margin,   *)
(* reward and band, and every start in which the settlement balance of an  *)
(* account counts: what a liquidation leaves unpaid is recorded, and the   *)
(* account's own collateral pays first, up to one unit of it that rounding *)
(* may leave, whatever lands late, twice refused or between two reads.     *)
(***************************************************************************)
EXTENDS LiquidationKeeper, SetTheorems

\* The haircut value of one unit, in ten-thousandths.
Share == OtherPrice * (10000 - HaircutBps)

\* A quotient of natural numbers, and the remainder it leaves.
LEMMA Quotient ==
  ASSUME NEW x \in Int, NEW d \in Nat, d > 0
  PROVE  x \div d \in Int /\ d * (x \div d) <= x /\ x < d * (x \div d) + d
  OBVIOUS

\* The haircut value of n units is n times that of one, rounded up.
LEMMA NetValueRoundsUp ==
  \A n \in Nat : /\ NetValue(n) \in Nat /\ Share \in Nat
                 /\ n * Share <= 10000 * NetValue(n)
                 /\ 10000 * NetValue(n) < n * Share + 10000
  <1> SUFFICES ASSUME NEW n \in Nat
               PROVE  /\ NetValue(n) \in Nat /\ Share \in Nat
                      /\ n * Share <= 10000 * NetValue(n)
                      /\ 10000 * NetValue(n) < n * Share + 10000
    OBVIOUS
  <1>1. PICK h \in 0..10000 : h = HaircutBps
    BY LiquidationConstants
  <1>2. PICK o \in Nat : o = OtherPrice
    BY LiquidationConstants
  <1>3. PICK x \in Nat : x = n * o
    OBVIOUS
  <1>4. PICK y \in Nat : y = x * h
    OBVIOUS
  <1>5. PICK q \in Int : q = y \div 10000 /\ 10000 * q <= y /\ y < 10000 * q + 10000
    BY Quotient
  <1>6. NetValue(n) = x - q
    BY <1>1, <1>2, <1>3, <1>4, <1>5 DEF NetValue, ApplyBps
  <1>7. Share \in Nat /\ n * Share = 10000 * x - y
    <2>1. Share = o * (10000 - h) /\ o * (10000 - h) \in Nat
      BY <1>1, <1>2 DEF Share
    <2>2. n * (o * (10000 - h)) = x * (10000 - h)
      BY <1>3
    <2>3. x * (10000 - h) = 10000 * x - y
      BY <1>4
    <2>4. QED
      BY <2>1, <2>2, <2>3
  <1>8. y <= 10000 * x
    BY <1>4
  <1>9. QED
    BY <1>5, <1>6, <1>7, <1>8

\* A haircut value is a natural number.
LEMMA NetValueType == \A n \in Nat : NetValue(n) \in Nat
  BY NetValueRoundsUp

\* Rounding up, two parts are worth at least the whole.
LEMMA NetValueSplits ==
  /\ NetValue(0) = 0
  /\ \A m, n \in Nat : NetValue(m + n) <= NetValue(m) + NetValue(n)
  <1>1. NetValue(0) = 0
    BY NetValueRoundsUp
  <1>2. ASSUME NEW m \in Nat, NEW n \in Nat
        PROVE  NetValue(m + n) <= NetValue(m) + NetValue(n)
    <2>1. PICK k \in Nat : k = Share
      BY NetValueRoundsUp
    <2>2. /\ NetValue(m) \in Nat /\ m * k <= 10000 * NetValue(m)
          /\ NetValue(n) \in Nat /\ n * k <= 10000 * NetValue(n)
          /\ NetValue(m + n) \in Nat /\ 10000 * NetValue(m + n) < (m + n) * k + 10000
      BY <2>1, NetValueRoundsUp
    <2>3. (m + n) * k = m * k + n * k
      OBVIOUS
    <2>4. QED
      BY <2>2, <2>3
  <1>3. QED
    BY <1>1, <1>2

\* What seize_for_deficit_inner takes when the collateral is worth more than the
\* debt: no more than the debt is credited for it, and of what stays owed one unit
\* more would have paid the rest.
LEMMA PartialSeizure ==
  ASSUME NEW other \in Nat, NEW debt \in Nat, NetValue(other) > debt
  PROVE  LET taken == (other * debt) \div NetValue(other)
         IN  /\ taken \in Nat /\ taken <= other
             /\ NetValue(taken) <= debt
             /\ debt <= NetValue(taken) + NetValue(1)
  <1>1. PICK k \in Nat : k = Share
    BY NetValueRoundsUp
  <1>2. PICK net \in Nat : net = NetValue(other)
    BY NetValueRoundsUp
  <1>3. PICK y \in Nat : y = other * debt
    OBVIOUS
  <1>4. PICK t \in Int : t = y \div net /\ net * t <= y /\ y < net * t + net
    BY <1>2, Quotient
  <1>5. other * k <= 10000 * net /\ 10000 * net < other * k + 10000
    BY <1>1, <1>2, NetValueRoundsUp
  <1>6. t >= 0
    BY <1>4
  <1>7. t < other
    <2>1. SUFFICES ASSUME t >= other PROVE FALSE
      BY <1>4
    <2>2. net * other <= net * t
      BY <2>1, <1>4
    <2>3. other > 0
      BY <1>2, NetValueSplits
    <2>4. y < net * other
      BY <1>2, <1>3, <2>3
    <2>5. QED
      BY <1>4, <2>2, <2>4
  <1>8. t \in Nat /\ t + 1 \in Nat
    BY <1>4, <1>6
  <1>9. /\ NetValue(t) \in Nat /\ 10000 * NetValue(t) < t * k + 10000
        /\ NetValue(t + 1) \in Nat /\ (t + 1) * k <= 10000 * NetValue(t + 1)
    BY <1>1, <1>8, NetValueRoundsUp
  <1>10. t * k <= 10000 * debt
    <2>1. k * (net * t) <= k * y
      BY <1>4
    <2>2. k * y = debt * (other * k)
      BY <1>3
    <2>3. debt * (other * k) <= debt * (10000 * net)
      BY <1>5
    <2>4. net * (t * k) <= net * (10000 * debt)
      BY <2>1, <2>2, <2>3, <1>4
    <2>5. QED
      BY <2>4, <1>2, <1>4
  <1>11. NetValue(t) <= debt
    BY <1>9, <1>10
  <1>12. debt <= NetValue(t + 1)
    <2>1. 10000 * y < (t + 1) * (10000 * net)
      BY <1>4
    <2>2. (t + 1) * (10000 * net) <= (t + 1) * (other * k + 10000)
      BY <1>5, <1>8
    <2>3. (t + 1) * (other * k + 10000) = other * ((t + 1) * k) + 10000 * (t + 1)
      BY <1>4
    <2>4. 10000 * (t + 1) <= 10000 * other
      BY <1>7, <1>4
    <2>5. other * ((t + 1) * k) <= other * (10000 * NetValue(t + 1))
      BY <1>9
    <2>6. 10000 * (other * debt) < other * (10000 * NetValue(t + 1)) + 10000 * other
      BY <2>1, <2>2, <2>3, <2>4, <2>5, <1>3, <1>8, <1>9
    <2>7. PICK v \in Nat : v = NetValue(t + 1)
      BY <1>9
    <2>8. other * debt < other * (v + 1)
      BY <2>6, <2>7
    <2>9. debt < v + 1
      BY <2>8
    <2>10. QED
      BY <2>7, <2>9
  <1>13. NetValue(t + 1) <= NetValue(t) + NetValue(1)
    BY <1>8, NetValueSplits
  <1>14. debt <= NetValue(t) + NetValue(1)
    BY <1>9, <1>12, <1>13, NetValueRoundsUp
  <1>15. QED
    BY <1>2, <1>3, <1>4, <1>7, <1>8, <1>11, <1>14

\* What a seizure does to an account.
LEMMA SeizedEffect ==
  ASSUME NEW a \in Account
  PROVE  LET b == Seized(a)
         IN  /\ b \in Account /\ b.size = a.size /\ b.assets = a.assets
             /\ b.other <= a.other
             /\ a.cash <= b.cash /\ b.cash - a.cash <= NetValue(a.other - b.other)
             /\ a.other # b.other => b.cash <= 0
             /\ a.cash + NetValue(a.other) <= b.cash + NetValue(b.other)
  <1> DEFINE b == Seized(a)
             debt == -a.cash
             net == NetValue(a.other)
             taken == IF net <= debt THEN a.other ELSE (a.other * debt) \div net
  <1>1. a.size \in [Markets -> Nat] /\ a.cash \in Int /\ a.other \in Nat
        /\ a.assets \in SUBSET {"USDC", "USDT0"}
    BY DEF Account
  <1>2. net \in Nat /\ NetValue(0) = 0
    <2>1. net \in Nat
      BY <1>1, NetValueType
    <2>2. QED
      BY <2>1, NetValueSplits
  <1>3. CASE b = a
    BY <1>1, <1>2, <1>3
  <1>4. CASE b # a
    <2>1. a.cash < 0 /\ net > 0 /\ Credited(taken) > 0
          /\ b = [a EXCEPT !.other = @ - taken, !.cash = @ + Credited(taken)]
      <3>1. ~ (a.cash >= 0 \/ net <= 0 \/ "USDT0" \notin a.assets)
        BY <1>4 DEF Seized
      <3>2. b = IF Credited(taken) <= 0 THEN a
                ELSE [a EXCEPT !.other = @ - taken, !.cash = @ + Credited(taken)]
        BY <3>1, Zenon DEF Seized
      <3>3. ~ (Credited(taken) <= 0)
        BY <1>4, <3>2, Zenon
      <3>4. b = [a EXCEPT !.other = @ - taken, !.cash = @ + Credited(taken)]
        BY <3>2, <3>3, Zenon
      <3> HIDE DEF b
      <3>5. taken \in Nat
        <4>1. CASE net <= debt
          BY <1>1, <4>1
        <4>2. CASE net > debt
          BY <1>1, <3>1, <4>2, PartialSeizure
        <4>3. QED
          BY <1>1, <1>2, <4>1, <4>2
      <3> HIDE DEF taken
      <3>6. Credited(taken) \in Nat
        BY <3>5, NetValueType DEF Credited
      <3>7. a.cash < 0 /\ net > 0 /\ Credited(taken) > 0
        BY <1>1, <1>2, <3>1, <3>3, <3>6
      <3>8. QED
        BY <3>4, <3>7
    <2>2. debt \in Nat
      BY <1>1, <2>1
    <2>3. taken \in Nat /\ taken <= a.other /\ NetValue(taken) <= debt
      <3>1. CASE net <= debt
        BY <1>1, <3>1
      <3>2. CASE net > debt
        <4>1. /\ (a.other * debt) \div net \in Nat /\ (a.other * debt) \div net <= a.other
              /\ NetValue((a.other * debt) \div net) <= debt
          BY <1>1, <2>2, <3>2, PartialSeizure
        <4>2. taken = (a.other * debt) \div net
          BY <1>2, <2>2, <3>2
        <4>3. QED
          BY <4>1, <4>2
      <3>3. QED
        BY <1>2, <2>2, <3>1, <3>2
    <2> HIDE DEF taken
    <2>4. PICK c : c = NetValue(taken)
      OBVIOUS
    <2>5. c \in Nat /\ c > 0 /\ c <= debt
      BY <2>1, <2>3, <2>4, NetValueRoundsUp DEF Credited
    <2>6. b = [a EXCEPT !.other = @ - taken, !.cash = @ + c]
      BY <2>1, <2>4 DEF Credited
    <2> HIDE DEF b
    <2>7. /\ b.other = a.other - taken /\ b.cash = a.cash + c
          /\ b.size = a.size /\ b.assets = a.assets
      BY <2>6 DEF Account
    <2>8. b \in Account
      <3>1. a.other - taken \in Nat /\ a.cash + c \in Int
        BY <1>1, <2>3, <2>5
      <3>2. QED
        BY <2>6, <3>1 DEF Account
    <2>9. a.other - b.other = taken
      BY <1>1, <2>3, <2>7
    <2>10. net <= c + NetValue(b.other)
      <3>1. b.other \in Nat /\ a.other = taken + b.other
        BY <1>1, <2>3, <2>7
      <3>2. NetValue(taken + b.other) <= NetValue(taken) + NetValue(b.other)
        BY <2>3, <3>1, NetValueSplits
      <3>3. QED
        BY <2>4, <3>1, <3>2
    <2>11. NetValue(b.other) \in Nat
      BY <2>8, NetValueRoundsUp DEF Account
    <2>12. b.other <= a.other /\ a.cash <= b.cash /\ b.cash <= 0 /\ b.cash - a.cash <= c
      BY <1>1, <2>3, <2>5, <2>7
    <2>13. a.cash + net <= b.cash + NetValue(b.other)
      BY <1>1, <1>2, <2>5, <2>7, <2>10, <2>11
    <2>14. QED
      BY <2>4, <2>7, <2>8, <2>9, <2>12, <2>13 DEF b
  <1>5. QED
    BY <1>3, <1>4

\* Collateral that counts only if the account was ever credited it.
Listed(a) == a.other > 0 => "USDT0" \in a.assets

\* A debt beyond the value of one unit stays only if nothing worth seizing does.
LEMMA SeizureLeaves ==
  ASSUME NEW a \in Account, Listed(a), -Seized(a).cash > NetValue(1)
  PROVE  NetValue(Seized(a).other) = 0
  <1> DEFINE b == Seized(a)
             debt == -a.cash
             net == NetValue(a.other)
             taken == IF net <= debt THEN a.other ELSE (a.other * debt) \div net
  <1>1. a.cash \in Int /\ a.other \in Nat
    BY DEF Account
  <1>2. net \in Nat /\ NetValue(0) = 0 /\ NetValue(1) \in Nat
    <2>1. net \in Nat /\ NetValue(1) \in Nat
      BY <1>1, NetValueType
    <2>2. QED
      BY <2>1, NetValueSplits
  <1>3. b.cash \in Int /\ a.cash <= b.cash /\ debt \in Nat /\ debt > NetValue(1)
    <2>1. b.cash \in Int /\ a.cash <= b.cash
      BY SeizedEffect DEF Account
    <2>2. QED
      BY <1>1, <1>2, <2>1
  <1>4. CASE net <= 0 \/ "USDT0" \notin a.assets
    <2>1. b = a
      BY <1>4 DEF Seized
    <2>2. net = 0
      BY <1>1, <1>2, <1>4 DEF Listed
    <2>3. QED
      BY <2>1, <2>2
  <1>5. CASE ~ (net <= 0 \/ "USDT0" \notin a.assets)
    <2>1. b = IF NetValue(taken) <= 0 THEN a
              ELSE [a EXCEPT !.other = @ - taken, !.cash = @ + NetValue(taken)]
      BY <1>1, <1>2, <1>3, <1>5 DEF Seized, Credited
    <2>2. CASE net <= debt
      <3>1. taken = a.other
        BY <2>2
      <3>2. b = [a EXCEPT !.other = @ - taken, !.cash = @ + NetValue(taken)]
        BY <1>2, <1>5, <2>1, <3>1
      <3> HIDE DEF b, taken
      <3>3. b.other = 0
        BY <1>1, <3>1, <3>2 DEF Account
      <3>4. QED
        BY <1>2, <3>3 DEF b
    <2>3. CASE net > debt
      <3>1. taken = (a.other * debt) \div net
        BY <1>2, <1>3, <2>3
      <3>2. taken \in Nat /\ NetValue(taken) <= debt /\ debt <= NetValue(taken) + NetValue(1)
        BY <1>1, <1>3, <2>3, <3>1, PartialSeizure
      <3>3. PICK c : c = NetValue(taken)
        OBVIOUS
      <3>4. c \in Nat
        BY <3>2, <3>3, NetValueType
      <3>5. b = IF c <= 0 THEN a ELSE [a EXCEPT !.other = @ - taken, !.cash = @ + c]
        BY <2>1, <3>3
      <3> HIDE DEF b, taken
      <3>6. b.cash = a.cash + c
        BY <1>1, <3>4, <3>5 DEF Account
      <3>7. QED
        BY <1>1, <1>2, <1>3, <3>2, <3>3, <3>4, <3>6 DEF b
    <2>4. QED
      BY <1>2, <1>3, <2>2, <2>3
  <1>6. QED
    BY <1>4, <1>5

-----------------------------------------------------------------------------
\* What the chain stores is well formed.
ChainPart ==
    /\ price \in [Markets -> Prices]
    /\ account \in [Users -> Account]
    /\ fund \in Nat /\ badDebt \in Nat
    /\ recent \in Seq(Users)

\* Rewards are natural numbers that grow with the price.
LEMMA RewardGrows ==
  ASSUME NEW n \in Nat, NEW p \in Nat, NEW q \in Nat, p <= q
  PROVE  Reward(n, p) \in Nat /\ Reward(n, q) \in Nat /\ Reward(n, p) <= Reward(n, q)
  <1>1. PICK b \in 0..10000 : b = RewardBps
    BY LiquidationConstants
  <1>2. PICK x \in Nat : x = (n * p) * b
    BY <1>1
  <1>3. PICK y \in Nat : y = (n * q) * b
    BY <1>1
  <1>4. x <= y
    <2>1. n * p <= n * q
      OBVIOUS
    <2>2. QED
      BY <1>1, <1>2, <1>3, <2>1
  <1>5. x \div 10000 \in Nat /\ y \div 10000 \in Nat /\ x \div 10000 <= y \div 10000
    BY <1>4
  <1>6. Reward(n, p) = x \div 10000 /\ Reward(n, q) = y \div 10000
    BY <1>1, <1>2, <1>3 DEF Reward, ApplyBps
  <1>7. QED
    BY <1>5, <1>6

\* What closing n of the position in m does to the account itself.
LEMMA ReducedEffect ==
  ASSUME NEW a \in Account, NEW m \in Markets, NEW n \in Nat, NEW at \in Nat, n <= a.size[m]
  PROVE  LET r == Reduced(a, m, n, at)
         IN  /\ r \in Account
             /\ r.size = [a.size EXCEPT ![m] = @ - n]
             /\ r.other = a.other /\ r.assets = a.assets
  <1>1. a.size \in [Markets -> Nat] /\ a.cash \in Int
    BY DEF Account
  <1>2. PICK size : size = [a.size EXCEPT ![m] = @ - n]
    OBVIOUS
  <1>3. PICK c : c = a.cash + n * (at - Entry)
    OBVIOUS
  <1>4. size \in [Markets -> Nat]
    BY <1>1, <1>2
  <1>5. c \in Int
    BY <1>1, <1>3, LiquidationConstants
  <1>6. PICK r : r = [a EXCEPT !.size = size, !.cash = c]
    OBVIOUS
  <1>7. Reduced(a, m, n, at) = r
    BY <1>2, <1>3, <1>6 DEF Reduced, Account
  <1>8. r \in Account /\ r.size = size /\ r.other = a.other /\ r.assets = a.assets
    BY <1>4, <1>5, <1>6 DEF Account
  <1>9. QED
    BY <1>2, <1>7, <1>8

\* Everything liquidate() does: the close, the seizure, the reward and what the
\* fund covers; the rest of the deficit is recorded.
LEMMA LiquidateEffect ==
  ASSUME ChainPart, NEW u \in Users, NEW m \in Markets, NEW n \in Nat, NEW at \in Prices,
         Accepts(u, m, n, at), Liquidate(u, m, n, at)
  PROVE  LET r == Reduced(account[u], m, n, at)
             s == Seized(r)
             d == Uncovered(r, s)
         IN  /\ r \in Account /\ s \in Account /\ d \in Nat /\ Reward(n, at) \in Nat
             /\ \E c \in 0..d :
                   /\ account' = [account EXCEPT ![u] = [s EXCEPT !.cash = @ + c]]
                   /\ fund' = fund - Reward(n, at) - c /\ fund' \in Nat
                   /\ badDebt' = badDebt + d - c /\ badDebt' \in Nat
  <1> DEFINE r == Reduced(account[u], m, n, at)
             s == Seized(r)
             d == Uncovered(r, s)
             w == Reward(n, at)
             c == Min({d, fund - w})
  <1>1. fund \in Nat /\ badDebt \in Nat /\ account[u] \in Account /\ at \in Nat
    BY LiquidationConstants DEF ChainPart
  <1>2. n <= account[u].size[m] /\ w <= fund
    BY DEF Accepts, Closable
  <1>3. r \in Account
    BY <1>1, <1>2, ReducedEffect
  <1>4. s \in Account
    BY <1>3, SeizedEffect
  <1>5. w \in Nat
    BY <1>1, RewardGrows
  <1>6. s.cash \in Int
    BY <1>4 DEF Account
  <1>7. d \in Nat
    BY <1>6 DEF Uncovered
  <1>8. /\ account' = [account EXCEPT ![u] = [s EXCEPT !.cash = @ + c]]
        /\ fund' = fund - w - c
        /\ badDebt' = badDebt + (d - c)
    BY DEF Liquidate, OwnCollateralFirst, Remaining
  <1> HIDE DEF r, s, d, w, c
  <1>9. c \in 0..d /\ c <= fund - w
    BY <1>1, <1>2, <1>5, <1>7, MinOfTwo DEF c
  <1>10. fund' \in Nat /\ badDebt' \in Nat /\ badDebt' = badDebt + d - c
    BY <1>1, <1>2, <1>5, <1>7, <1>8, <1>9
  <1>11. QED
    BY <1>3, <1>4, <1>5, <1>7, <1>8, <1>9, <1>10 DEF r, s, d, w

\* The same for the account: its own fields, and what is left of its debt.
LEMMA LiquidatedAccount ==
  ASSUME NEW s \in Account, NEW c \in Nat
  PROVE  LET b == [s EXCEPT !.cash = @ + c]
         IN  /\ b \in Account /\ b.cash = s.cash + c
             /\ b.size = s.size /\ b.other = s.other /\ b.assets = s.assets
  <1>1. s.cash + c \in Int
    BY DEF Account
  <1>2. QED
    BY <1>1 DEF Account

-----------------------------------------------------------------------------
\* What the keeper remembers, and what it has sent, is well formed.
KeeperPart ==
    /\ pc \in {"idle", "account", "health", "positions", "price", "rung", "poll", "bump"}
    /\ queue \in Seq(Users) /\ (pc \notin {"idle", "bump"} => queue # <<>>)
    /\ outcome \in {"none", "pending", "success", "failed"}
    /\ health \in [equity: Int, maintenance: Int]
    /\ plan \subseteq [market: Markets, size: Nat \ {0}]
    /\ ladder \subseteq [market: Markets, size: Nat \ {0}, at: Prices]

LiquidateTxs == [call: {"liquidate"}, user: Users, market: Markets, size: Nat \ {0},
                 at: Prices, late: BOOLEAN]
SettleTxs == [call: {"settle"}, user: Users, late: BOOLEAN]
BumpTxs == [call: {"bump"}, late: BOOLEAN]

PoolPart == pool \subseteq LiquidateTxs \cup SettleTxs \cup BumpTxs

TypeInv == ChainPart /\ KeeperPart /\ PoolPart

\* The type invariant is part of what the parts say.
LEMMA TypeInvImpliesTypeOK == TypeInv => TypeOK
  BY DEF TypeInv, ChainPart, KeeperPart, TypeOK

\* Health figures are integers; without positions, equity is the collateral.
LEMMA HealthFigures ==
  ASSUME ChainPart, NEW a \in Account
  PROVE  /\ Equity(a) \in Int /\ Maintenance(a) \in Int /\ Collateral(a) \in Int
         /\ Flat(a) => Equity(a) = Collateral(a)
  <1> DEFINE pnl == [m \in Markets |-> a.size[m] * (price[m] - Entry)]
             need == [m \in Markets |-> ApplyBps(a.size[m] * price[m], MaintenanceBps)]
  <1>0. Prices \subseteq Nat /\ Entry \in Nat
    BY LiquidationConstants
  <1>1. \A m \in Markets : a.size[m] \in Nat /\ price[m] \in Nat
    <2>1. a.size \in [Markets -> Nat]
      BY DEF Account
    <2>2. price \in [Markets -> Prices]
      BY DEF ChainPart
    <2>3. QED
      BY <1>0, <2>1, <2>2
  <1>2. \A m \in Markets : pnl[m] \in Int
    BY <1>1, LiquidationConstants
  <1>3. \A m \in Markets : need[m] \in Int
    <2>1. ASSUME NEW x \in Nat PROVE ApplyBps(x, MaintenanceBps) \in Int
      <3>1. PICK b \in 0..10000 : b = MaintenanceBps
        BY LiquidationConstants
      <3>2. QED
        BY <3>1, Quotient DEF ApplyBps
    <2>2. \A m \in Markets : a.size[m] * price[m] \in Nat
      BY <1>1
    <2>3. QED
      BY <2>1, <2>2
  <1>4. IsFiniteSet(Markets) /\ DOMAIN pnl = Markets /\ DOMAIN need = Markets
    BY LiquidationConstants
  <1>5. Flat(a) => \A m \in Markets : pnl[m] = 0
    <2> SUFFICES ASSUME Flat(a), NEW m \in Markets PROVE pnl[m] = 0
      OBVIOUS
    <2>1. a.size[m] = 0
      BY DEF Flat
    <2>2. price[m] - Entry \in Int
      BY <1>0, <1>1
    <2>3. QED
      BY <2>1, <2>2
  <1>6. UnrealizedPnl(a) = SumFunctionOnSet(pnl, Markets)
    BY <1>4 DEF UnrealizedPnl, SumFunction
  <1>7. Maintenance(a) = SumFunctionOnSet(need, Markets)
    BY <1>4 DEF Maintenance, SumFunction
  <1> HIDE DEF pnl, need
  <1>8. UnrealizedPnl(a) \in Int /\ Maintenance(a) \in Int
    BY <1>2, <1>3, <1>4, <1>6, <1>7, SumType
  <1>9. Flat(a) => UnrealizedPnl(a) = 0
    BY <1>4, <1>5, <1>6, SumZero
  <1>10. Collateral(a) \in Int
    <2>1. NetValue(a.other) \in Int /\ a.cash \in Int
      BY NetValueType DEF Account
    <2>2. QED
      BY <2>1 DEF Collateral
  <1>11. QED
    BY <1>8, <1>9, <1>10 DEF Equity

\* The keeper starts idle, with nothing sent.
LEMMA LiquidationInitType == Init => TypeInv
  <1> SUFFICES ASSUME Init PROVE TypeInv
    OBVIOUS
  <1>1. price \in [Markets -> Prices] /\ account \in [Users -> Account]
    <2>1. InitialPrices \subseteq Prices /\ Portfolios \subseteq [Users -> Account]
      BY LiquidationConstants
    <2>2. price \in [Markets -> InitialPrices] /\ account \in Portfolios
      BY DEF Init
    <2>3. account \in [Users -> Account]
      BY <2>1, <2>2, Zenon
    <2>4. price \in [Markets -> Prices]
      BY <2>1, <2>2
    <2>5. QED
      BY <2>3, <2>4
  <1>2. recent \in Seq(Users)
    <2>1. ExistsBijection(1..Cardinality(Users), Users)
      BY LiquidationConstants, FS_NatBijection, FS_CardinalityType, FS_CountingElements
    <2>2. \E f \in [1..Cardinality(Users) -> Users] : IsInjective(f)
      BY <2>1 DEF ExistsBijection, Bijection, Injection, IsInjective
    <2>3. SetToSeq(Users) \in [1..Cardinality(Users) -> Users]
      BY <2>2, Zenon DEF SetToSeq
    <2>4. Cardinality(Users) \in Nat
      BY LiquidationConstants, FS_CardinalityType
    <2>5. QED
      BY <2>3, <2>4 DEF Init
  <1>3. ChainPart
    BY <1>1, <1>2, LiquidationConstants DEF Init, ChainPart
  <1>4. KeeperPart
    BY DEF Init, KeeperPart, NoHealth
  <1>5. QED
    BY <1>3, <1>4 DEF TypeInv, PoolPart, Init

\* Which variables each part reads.
LEMMA ChainFrame ==
  ASSUME ChainPart, UNCHANGED <<price, chainVars>>
  PROVE  ChainPart'
  BY DEF ChainPart, chainVars

\* Going on to the next account ends the scan when there is none.
LEMMA NextAccountType ==
  ASSUME KeeperPart, NextAccount, queue # <<>>, outcome' \in {"none", "pending", "success", "failed"}
  PROVE  KeeperPart'
  BY DEF KeeperPart, NextAccount, NoHealth

\* What is sent joins what may still land.
LEMMA SubmitType ==
  ASSUME PoolPart, NEW tx \in LiquidateTxs \cup SettleTxs \cup BumpTxs, Submit(tx)
  PROVE  PoolPart'
  <1>1. ASSUME NEW t \in pool
        PROVE  [t EXCEPT !.late = TRUE] \in LiquidateTxs \cup SettleTxs \cup BumpTxs
    <2>1. CASE t \in LiquidateTxs
      BY <2>1 DEF LiquidateTxs
    <2>2. CASE t \in SettleTxs
      BY <2>2 DEF SettleTxs
    <2>3. CASE t \in BumpTxs
      BY <2>3 DEF BumpTxs
    <2>4. QED
      BY <1>1, <2>1, <2>2, <2>3 DEF PoolPart
  <1>2. pool' = {tx} \cup {[t EXCEPT !.late = TRUE] : t \in {p \in pool : ~p.late}}
    BY DEF Submit
  <1>3. QED
    BY <1>1, <1>2 DEF PoolPart

\* The scan, the reads and the plan.
LEMMA ScanType ==
  ASSUME TypeInv, StartScan \/ CheckDeficit \/ BumpTtls
  PROVE  TypeInv'
  <1>c. ChainPart'
    BY ChainFrame DEF TypeInv, StartScan, CheckDeficit, BumpTtls
  <1>1. CASE StartScan
    <2>1. PICK k : k = Min({Len(recent), MAX_ACCOUNTS_PER_TICK})
      OBVIOUS
    <2>2. k \in 0..Len(recent)
      <3>1. recent \in Seq(Users) /\ MAX_ACCOUNTS_PER_TICK \in Nat
        BY LiquidationConstants DEF TypeInv, ChainPart
      <3>2. Len(recent) \in Nat
        BY <3>1
      <3>3. QED
        BY <2>1, <3>1, <3>2, MinOfTwo
    <2>3. SubSeq(recent, 1, k) \in Seq(Users)
      BY <2>2 DEF TypeInv, ChainPart
    <2>4. KeeperPart'
      BY <1>1, <2>1, <2>3 DEF StartScan, TypeInv, KeeperPart, txVars
    <2>5. PoolPart'
      BY <1>1 DEF StartScan, TypeInv, PoolPart, txVars
    <2>6. QED
      BY <1>c, <2>4, <2>5 DEF TypeInv
  <1>2. CASE CheckDeficit
    <2>1. queue # <<>> /\ queue \in Seq(Users) /\ User \in Users
      BY <1>2 DEF CheckDeficit, User, TypeInv, KeeperPart
    <2>2. KeeperPart'
      BY <1>2, <2>1 DEF CheckDeficit, Submit, TypeInv, KeeperPart
    <2>3. PoolPart'
      <3>1. CASE pool' = pool
        BY <3>1 DEF TypeInv, PoolPart
      <3>2. CASE Submit([call |-> "settle", user |-> User, late |-> FALSE])
        BY <2>1, <3>2, SubmitType DEF TypeInv, SettleTxs
      <3>3. QED
        BY <1>2, <3>1, <3>2 DEF CheckDeficit
    <2>4. QED
      BY <1>c, <2>2, <2>3 DEF TypeInv
  <1>3. CASE BumpTtls
    <2>1. KeeperPart'
      BY <1>3 DEF BumpTtls, TypeInv, KeeperPart
    <2>2. PoolPart'
      <3>1. [call |-> "bump", late |-> FALSE] \in BumpTxs
        BY DEF BumpTxs
      <3>2. QED
        BY <1>3, <3>1 DEF BumpTtls, TypeInv, PoolPart
    <2>3. QED
      BY <1>c, <2>1, <2>2 DEF TypeInv
  <1>4. QED
    BY <1>1, <1>2, <1>3

\* Every close size tried is a positive number.
LEMMA LadderType ==
  ASSUME NEW size \in Nat, size > 0, NEW at \in Nat, at > 0,
         NEW h \in [equity: Int, maintenance: Int]
  PROVE  CloseSizeLadder(size, at, h) \subseteq Nat \ {0}
  <1>1. PICK f \in Int : f = h.maintenance - h.equity
    OBVIOUS
  <1>2. PICK x \in Int : x = size * f
    OBVIOUS
  <1>3. PICK d \in Nat : d = size * at /\ d > 0
    OBVIOUS
  <1>4. PICK q \in Int : q = x \div d
    BY <1>3, Quotient
  <1>5. PICK k \in Int : k = (q * 125) \div 100
    BY Quotient
  <1>6. PICK j \in Int : j = size \div 2
    BY Quotient
  <1>7. CloseSizeLadder(size, at, h)
          = {n \in {j, size} \cup (IF f > 0 /\ k < size THEN {k} ELSE {}) : n > 0}
    BY <1>1, <1>2, <1>3, <1>4, <1>5, <1>6 DEF CloseSizeLadder
  <1>8. QED
    BY <1>5, <1>6, <1>7

\* The reads of an account keep everything well formed.
LEMMA ReadType ==
  ASSUME TypeInv, ReadHealth \/ ReadPositions \/ ReadPrice
  PROVE  TypeInv'
  <1>c. ChainPart'
    BY ChainFrame DEF TypeInv, ReadHealth, ReadPositions, ReadPrice
  <1>p. PoolPart'
    BY DEF TypeInv, PoolPart, ReadHealth, ReadPositions, ReadPrice, txVars
  <1>q. queue # <<>> /\ queue \in Seq(Users) /\ User \in Users /\ outcome' = outcome
    BY DEF ReadHealth, ReadPositions, ReadPrice, User, TypeInv, KeeperPart, txVars
  <1>a. account[User] \in Account
    BY <1>q DEF TypeInv, ChainPart
  <1>1. CASE ReadHealth
    <2>1. ASSUME Liquidatable(account[User]) PROVE KeeperPart'
      <3>1. Equity(account[User]) \in Int /\ Maintenance(account[User]) \in Int
        BY <1>a, HealthFigures DEF TypeInv
      <3>2. health' \in [equity: Int, maintenance: Int]
        BY <1>1, <2>1, <3>1 DEF ReadHealth
      <3>3. pc' = "positions" /\ UNCHANGED <<queue, plan, ladder>>
        BY <1>1, <2>1 DEF ReadHealth
      <3>4. QED
        BY <1>q, <3>2, <3>3 DEF TypeInv, KeeperPart
    <2>2. ASSUME ~ Liquidatable(account[User]) PROVE KeeperPart'
      <3>1. NextAccount
        BY <1>1, <2>2 DEF ReadHealth
      <3>2. QED
        BY <1>q, <3>1, NextAccountType DEF TypeInv, KeeperPart
    <2>3. KeeperPart'
      BY <2>1, <2>2 DEF TypeInv
    <2>4. QED
      BY <1>c, <1>p, <2>3 DEF TypeInv
  <1>2. CASE ReadPositions
    <2>1. account[User].size \in [Markets -> Nat]
      BY <1>a DEF Account
    <2>2. Positions(account[User]) \subseteq [market: Markets, size: Nat \ {0}]
      BY <2>1 DEF Positions
    <2>3. KeeperPart'
      BY <1>2, <1>q, <2>2 DEF ReadPositions, TypeInv, KeeperPart
    <2>4. QED
      BY <1>c, <1>p, <2>3 DEF TypeInv
  <1>3. CASE ReadPrice
    <2>1. ASSUME NextAccount PROVE KeeperPart'
      BY <1>q, <2>1, NextAccountType DEF TypeInv, KeeperPart
    <2>2. ASSUME NEW p \in plan, p.market \in ActiveMarkets, price[p.market] # NoPrice,
                 plan' = plan \ {p},
                 ladder' = {[market |-> p.market, size |-> n, at |-> price[p.market]] :
                              n \in CloseSizeLadder(p.size, price[p.market], health)},
                 pc' = "rung", UNCHANGED <<queue, health>>
          PROVE  KeeperPart'
      <3>1. p \in [market: Markets, size: Nat \ {0}] /\ health \in [equity: Int, maintenance: Int]
        BY DEF TypeInv, KeeperPart
      <3>0. Prices \subseteq Nat
        BY LiquidationConstants
      <3>2. price[p.market] \in Prices /\ price[p.market] \in Nat /\ price[p.market] > 0
        <4>1. price \in [Markets -> Prices] /\ p.market \in Markets
          BY <3>1 DEF TypeInv, ChainPart
        <4>2. price[p.market] \in Prices /\ price[p.market] # 0
          BY <2>2, <4>1 DEF NoPrice
        <4>3. PICK x : x = price[p.market]
          OBVIOUS
        <4>4. x \in Prices /\ x # 0
          BY <4>2, <4>3
        <4>5. x \in Nat /\ x > 0
          BY <3>0, <4>4
        <4>6. QED
          BY <4>3, <4>4, <4>5
      <3>3. CloseSizeLadder(p.size, price[p.market], health) \subseteq Nat \ {0}
        <4>1. p.size \in Nat /\ p.size > 0
          BY <3>1
        <4>2. QED
          BY <3>1, <3>2, <4>1, LadderType
      <3>4. ladder' \subseteq [market: Markets, size: Nat \ {0}, at: Prices]
        BY <2>2, <3>1, <3>2, <3>3
      <3>5. QED
        BY <1>q, <2>2, <3>4 DEF TypeInv, KeeperPart
    <2>3. ASSUME NEW p \in plan, PassOver(p)
          PROVE  KeeperPart'
      BY <1>q, <2>3 DEF PassOver, TypeInv, KeeperPart
    <2>4. KeeperPart'
      BY <1>3, <2>1, <2>2, <2>3 DEF ReadPrice, TypeInv
    <2>5. QED
      BY <1>c, <1>p, <2>4 DEF TypeInv
  <1>4. QED
    BY <1>1, <1>2, <1>3

\* A try sends only closes that were planned.
LEMMA RungType ==
  ASSUME TypeInv, TryRung
  PROVE  TypeInv'
  <1>c. ChainPart'
    BY ChainFrame DEF TypeInv, TryRung
  <1>q. queue # <<>> /\ queue \in Seq(Users) /\ User \in Users
    BY DEF TryRung, User, TypeInv, KeeperPart
  <1>1. CASE ladder = {} /\ pc' = "price" /\ UNCHANGED <<ladder, pool, sent, outcome>>
    BY <1>c, <1>q, <1>1 DEF TryRung, TypeInv, KeeperPart, PoolPart
  <1>2. ASSUME NEW r \in ladder, ladder' = ladder \ {r},
               Submit([call |-> "liquidate", user |-> User, market |-> r.market,
                       size |-> r.size, at |-> r.at, late |-> FALSE])
        PROVE  TypeInv'
    <2>1. r \in [market: Markets, size: Nat \ {0}, at: Prices]
      BY DEF TypeInv, KeeperPart
    <2>2. [call |-> "liquidate", user |-> User, market |-> r.market,
           size |-> r.size, at |-> r.at, late |-> FALSE] \in LiquidateTxs
      BY <1>q, <2>1 DEF LiquidateTxs
    <2>3. PoolPart'
      BY <1>2, <2>2, SubmitType DEF TypeInv
    <2>4. KeeperPart'
      BY <1>q, <1>2 DEF TryRung, Submit, TypeInv, KeeperPart
    <2>5. QED
      BY <1>c, <2>3, <2>4 DEF TypeInv
  <1>3. ASSUME NEW r \in ladder, ladder' = ladder \ {r}, UNCHANGED <<pc, pool, sent, outcome>>
        PROVE  TypeInv'
    BY <1>c, <1>q, <1>3 DEF TryRung, TypeInv, KeeperPart, PoolPart
  <1>4. QED
    BY <1>1, <1>2, <1>3 DEF TryRung

\* However a poll or a read ends, the loop goes on where it can.
LEMMA PollType ==
  ASSUME TypeInv, PollEnds \/ AccountFails
  PROVE  TypeInv'
  <1>c. ChainPart'
    BY ChainFrame DEF TypeInv, PollEnds, AccountFails
  <1>p. PoolPart'
    BY DEF TypeInv, PoolPart, PollEnds, AccountFails
  <1>q. queue # <<>> /\ queue \in Seq(Users) /\ outcome' = "none"
    BY DEF PollEnds, AccountFails, TypeInv, KeeperPart
  <1>1. CASE NextAccount
    BY <1>c, <1>p, <1>q, <1>1, NextAccountType DEF TypeInv
  <1>2. CASE pc' \in {"health", "rung"} /\ UNCHANGED <<queue, health, plan, ladder>>
    BY <1>c, <1>p, <1>q, <1>2 DEF TypeInv, KeeperPart
  <1>3. QED
    BY <1>1, <1>2 DEF PollEnds, AccountFails

-----------------------------------------------------------------------------
\* The row of an account that deposits comes first, no row is lost.
LEMMA TouchedType ==
  ASSUME ChainPart, NEW u \in Users
  PROVE  Touched(u) \in Seq(Users)
  <1>1. recent \in [1..Len(recent) -> Users] /\ Len(recent) \in Nat
    BY DEF ChainPart
  <1>2. PICK p : p = CHOOSE i \in DOMAIN recent : recent[i] = u
    OBVIOUS
  <1>3. PICK k \in Nat : k = Len(recent) /\ DOMAIN recent = 1..k
    BY <1>1
  <1>4. Touched(u) = [i \in 1..k |-> IF i = 1 THEN u ELSE IF i <= p THEN recent[i - 1] ELSE recent[i]]
    BY <1>2, <1>3 DEF Touched
  <1>5. \A i \in 1..k : (IF i = 1 THEN u ELSE IF i <= p THEN recent[i - 1] ELSE recent[i]) \in Users
    <2>1. ASSUME NEW i \in 1..k, i # 1 PROVE recent[i - 1] \in Users /\ recent[i] \in Users
      <3>1. i - 1 \in 1..k
        BY <1>3, <2>1
      <3>2. QED
        BY <1>1, <1>3, <3>1
    <2>2. QED
      BY <2>1
  <1>6. QED
    BY <1>4, <1>5

\* What an account is after a deposit.
LEMMA DepositEffect ==
  ASSUME ChainPart, NEW u \in Users, Deposit(u)
  PROVE  /\ account' \in [Users -> Account]
         /\ \A v \in Users : v # u => account'[v] = account[v]
         /\ account'[u].cash >= account[u].cash /\ account'[u].other = account[u].other
         /\ account'[u].size = account[u].size
         /\ account'[u].assets = account[u].assets \cup {"USDC"}
  <1>1. PICK a \in Account : a = account[u]
    BY DEF ChainPart
  <1>2. PICK c : c = a.cash + TopUp
    OBVIOUS
  <1>3. c \in Int /\ c >= a.cash
    BY <1>2, LiquidationConstants DEF Account
  <1>4. PICK as : as = a.assets \cup {"USDC"}
    OBVIOUS
  <1>5. as \in SUBSET {"USDC", "USDT0"}
    BY <1>4 DEF Account
  <1>6. PICK b : b = [a EXCEPT !.cash = c, !.assets = as]
    OBVIOUS
  <1>7. b \in Account /\ b.cash = c /\ b.other = a.other /\ b.size = a.size /\ b.assets = as
    BY <1>3, <1>5, <1>6 DEF Account
  <1>8. account' = [account EXCEPT ![u] = b]
    BY <1>1, <1>2, <1>4, <1>6 DEF Deposit, ChainPart, Account
  <1>9. QED
    BY <1>1, <1>3, <1>4, <1>7, <1>8 DEF ChainPart

\* What a transaction may do to the chain: nothing, a seizure, or a liquidation
\* the contract accepts.
LEMMA ExecutesCases ==
  ASSUME TypeInv, NEW tx \in pool, Executes(tx)
  PROVE  \/ UNCHANGED <<account, fund, badDebt>>
         \/ \E u \in Users : /\ account' = [account EXCEPT ![u] = Seized(@)]
                             /\ UNCHANGED <<fund, badDebt>>
         \/ \E u \in Users, m \in Markets, n \in Nat \ {0}, at \in Prices :
               Accepts(u, m, n, at) /\ Liquidate(u, m, n, at)
  <1>1. CASE tx \in LiquidateTxs
    <2>1. /\ tx.call = "liquidate" /\ tx.user \in Users /\ tx.market \in Markets
          /\ tx.size \in Nat \ {0} /\ tx.at \in Prices
      BY <1>1 DEF LiquidateTxs
    <2>2. CASE Accepts(tx.user, tx.market, tx.size, tx.at)
      <3>1. Liquidate(tx.user, tx.market, tx.size, tx.at)
        BY <2>1, <2>2, Zenon DEF Executes
      <3>2. QED
        BY <2>1, <2>2, <3>1, Zenon
    <2>3. CASE ~ Accepts(tx.user, tx.market, tx.size, tx.at)
      BY <2>1, <2>3 DEF Executes
    <2>4. QED
      BY <2>2, <2>3
  <1>2. CASE tx \in SettleTxs
    <2>1. tx.call = "settle" /\ tx.user \in Users
      BY <1>2 DEF SettleTxs
    <2>2. account' = [account EXCEPT ![tx.user] = Seized(@)] /\ UNCHANGED <<fund, badDebt>>
      BY <2>1 DEF Executes
    <2>3. QED
      BY <2>1, <2>2
  <1>3. CASE tx \in BumpTxs
    BY <1>3 DEF BumpTxs, Executes
  <1>4. QED
    BY <1>1, <1>2, <1>3 DEF TypeInv, PoolPart

\* A transaction leaves the chain well formed.
LEMMA ExecutesType ==
  ASSUME TypeInv, NEW tx \in pool, Include(tx)
  PROVE  ChainPart'
  <1>0. price' = price /\ recent' = recent /\ Executes(tx)
    BY DEF Include
  <1>1. CASE UNCHANGED <<account, fund, badDebt>>
    BY <1>0, <1>1 DEF TypeInv, ChainPart
  <1>2. ASSUME NEW u \in Users, account' = [account EXCEPT ![u] = Seized(@)],
               UNCHANGED <<fund, badDebt>>
        PROVE  ChainPart'
    <2>1. account[u] \in Account
      BY DEF TypeInv, ChainPart
    <2>2. Seized(account[u]) \in Account
      BY <2>1, SeizedEffect
    <2>3. PICK b \in Account : b = Seized(account[u])
      BY <2>2
    <2>4. account' = [account EXCEPT ![u] = b]
      BY <1>2, <2>3
    <2>5. QED
      BY <1>0, <1>2, <2>3, <2>4 DEF TypeInv, ChainPart
  <1>3. ASSUME NEW u \in Users, NEW m \in Markets, NEW n \in Nat \ {0}, NEW at \in Prices,
               Accepts(u, m, n, at), Liquidate(u, m, n, at)
        PROVE  ChainPart'
    <2>1. PICK s : s = Seized(Reduced(account[u], m, n, at))
      OBVIOUS
    <2>2. PICK d : d = Uncovered(Reduced(account[u], m, n, at), s)
      OBVIOUS
    <2>3. /\ s \in Account /\ d \in Nat
          /\ \E c \in 0..d : /\ account' = [account EXCEPT ![u] = [s EXCEPT !.cash = @ + c]]
                             /\ fund' \in Nat /\ badDebt' \in Nat
      BY <1>3, <2>1, <2>2, LiquidateEffect DEF TypeInv
    <2>4. PICK c \in 0..d : /\ account' = [account EXCEPT ![u] = [s EXCEPT !.cash = @ + c]]
                            /\ fund' \in Nat /\ badDebt' \in Nat
      BY <2>3
    <2>5. PICK b : b = [s EXCEPT !.cash = @ + c]
      OBVIOUS
    <2>6. b \in Account
      BY <2>3, <2>4, <2>5, LiquidatedAccount
    <2>7. account' = [account EXCEPT ![u] = b]
      BY <2>4, <2>5
    <2>8. QED
      BY <1>0, <2>4, <2>6, <2>7 DEF TypeInv, ChainPart
  <1>4. QED
    BY <1>0, <1>1, <1>2, <1>3, ExecutesCases

\* So do expiry, prices, deposits and days.
LEMMA WorldType ==
  ASSUME TypeInv,
         \/ \E tx \in pool : Include(tx) \/ Expire(tx)
         \/ \E m \in Markets, p \in Prices : MovePrice(m, p)
         \/ \E u \in Users : Deposit(u)
         \/ DayPasses \/ UNCHANGED vars
  PROVE  TypeInv'
  <1>1. ASSUME NEW tx \in pool, Include(tx) PROVE TypeInv'
    <2>1. ChainPart'
      BY <1>1, ExecutesType
    <2>2. KeeperPart'
      BY <1>1 DEF Include, keeperVars, TypeInv, KeeperPart
    <2>3. PoolPart'
      BY <1>1 DEF Include, Survivors, PoolPart
    <2>4. QED
      BY <2>1, <2>2, <2>3 DEF TypeInv
  <1>2. ASSUME NEW tx \in pool, Expire(tx) PROVE TypeInv'
    BY <1>2 DEF Expire, chainVars, keeperVars, TypeInv, ChainPart, KeeperPart, PoolPart
  <1>3. ASSUME NEW m \in Markets, NEW p \in Prices, MovePrice(m, p) PROVE TypeInv'
    BY <1>3 DEF MovePrice, chainVars, keeperVars, txVars, TypeInv, ChainPart, KeeperPart, PoolPart
  <1>4. ASSUME NEW u \in Users, Deposit(u) PROVE TypeInv'
    <2>1. account' \in [Users -> Account]
      BY <1>4, DepositEffect DEF TypeInv
    <2>2. recent' \in Seq(Users)
      BY <1>4, TouchedType DEF Deposit, TypeInv
    <2>3. ChainPart'
      BY <1>4, <2>1, <2>2 DEF Deposit, TypeInv, ChainPart
    <2>4. KeeperPart' /\ PoolPart'
      BY <1>4 DEF Deposit, keeperVars, txVars, TypeInv, KeeperPart, PoolPart
    <2>5. QED
      BY <2>3, <2>4 DEF TypeInv
  <1>5. CASE DayPasses \/ UNCHANGED vars
    BY <1>5 DEF DayPasses, vars, chainVars, keeperVars, txVars, TypeInv, ChainPart, KeeperPart, PoolPart
  <1>6. QED
    BY <1>1, <1>2, <1>3, <1>4, <1>5

\* Every step keeps the type invariant.
LEMMA NextType == TypeInv /\ [Next]_vars => TypeInv'
  BY ScanType, ReadType, RungType, PollType, WorldType DEF Next, Keeper

-----------------------------------------------------------------------------
\* The settlement balance of an account counts: it was credited the settlement
\* asset, or nothing at all; and so does all other collateral it has.
Counted(a) == ("USDC" \in a.assets \/ a.assets = {}) /\ Listed(a)

\* The accounts count and, where they have no position, owe nothing they cannot
\* pay.  An account that was only ever credited USDT0 is the case left out: its
\* losses are not recorded (vault, account_snapshot_all_assets).
SoundStart ==
    \A p \in Portfolios : \A u \in Users :
        Counted(p[u]) /\ (Flat(p[u]) => -p[u].cash <= NetValue(p[u].other))

DebtPart ==
    \A u \in Users :
        /\ Counted(account[u])
        /\ Flat(account[u]) => -account[u].cash <= NetValue(account[u].other) + badDebt

\* The collateral of an account that counts.
LEMMA CountedCollateral ==
  ASSUME NEW a \in Account, Counted(a)
  PROVE  Collateral(a) = a.cash + NetValue(a.other)
  <1>1. a.cash \in Int /\ a.other \in Nat /\ NetValue(a.other) \in Nat /\ NetValue(0) = 0
    BY NetValueType, NetValueSplits DEF Account
  <1>2. CASE "USDT0" \in a.assets
    BY <1>1, <1>2 DEF Counted, Collateral
  <1>3. CASE "USDT0" \notin a.assets
    <2>1. a.other = 0
      BY <1>1, <1>3 DEF Counted, Listed
    <2>2. QED
      BY <1>1, <1>3, <2>1 DEF Counted, Collateral
  <1>4. QED
    BY <1>2, <1>3

\* What is left of a debt after a seizure that found no position is covered.
LEMMA SeizedStaysCovered ==
  ASSUME NEW a \in Account, Counted(a), NEW debt \in Nat,
         Flat(a) => -a.cash <= NetValue(a.other) + debt
  PROVE  LET b == Seized(a)
         IN  Counted(b) /\ (Flat(b) => -b.cash <= NetValue(b.other) + debt)
  <1>1. PICK b : b = Seized(a)
    OBVIOUS
  <1>2. /\ b \in Account /\ b.size = a.size /\ b.assets = a.assets /\ b.other <= a.other
        /\ a.cash + NetValue(a.other) <= b.cash + NetValue(b.other)
    BY <1>1, SeizedEffect
  <1>3. a.cash \in Int /\ b.cash \in Int /\ a.other \in Nat /\ b.other \in Nat
    BY <1>2 DEF Account
  <1>4. NetValue(a.other) \in Nat /\ NetValue(b.other) \in Nat
    BY <1>3, NetValueType
  <1>5. Counted(b)
    BY <1>2, <1>3 DEF Counted, Listed
  <1>6. Flat(b) => -b.cash <= NetValue(b.other) + debt
    BY <1>2, <1>3, <1>4 DEF Flat
  <1>7. QED
    BY <1>1, <1>5, <1>6

\* A liquidation that closes the last position covers, or records, what is owed.
LEMMA LiquidationRecords ==
  ASSUME TypeInv, DebtPart, NEW u \in Users, NEW m \in Markets, NEW n \in Nat, NEW at \in Prices,
         Accepts(u, m, n, at), Liquidate(u, m, n, at)
  PROVE  DebtPart'
  <1>1. PICK r : r = Reduced(account[u], m, n, at)
    OBVIOUS
  <1>2. PICK s : s = Seized(r)
    OBVIOUS
  <1>3. PICK d : d = Uncovered(r, s)
    OBVIOUS
  <1>4. PICK w : w = Reward(n, at)
    OBVIOUS
  <1>5. /\ r \in Account /\ s \in Account /\ d \in Nat
        /\ \E c \in 0..d : /\ account' = [account EXCEPT ![u] = [s EXCEPT !.cash = @ + c]]
                           /\ badDebt' = badDebt + d - c /\ badDebt' \in Nat
    BY <1>1, <1>2, <1>3, LiquidateEffect DEF TypeInv
  <1>6. PICK c \in 0..d : /\ account' = [account EXCEPT ![u] = [s EXCEPT !.cash = @ + c]]
                          /\ badDebt' = badDebt + d - c /\ badDebt' \in Nat
    BY <1>5
  <1>7. PICK b : b = [s EXCEPT !.cash = @ + c]
    OBVIOUS
  <1>8. account \in [Users -> Account] /\ badDebt \in Nat
    BY DEF TypeInv, ChainPart
  <1>9. account' = [account EXCEPT ![u] = b]
    BY <1>6, <1>7
  <1>10. /\ b \in Account /\ b.cash = s.cash + c
         /\ b.size = s.size /\ b.other = s.other /\ b.assets = s.assets
    BY <1>5, <1>6, <1>7, LiquidatedAccount
  <1>11. r.other = account[u].other /\ r.assets = account[u].assets
    <2>1. n <= account[u].size[m] /\ at \in Nat /\ account[u] \in Account
      BY <1>8, LiquidationConstants DEF Accepts, Closable
    <2>2. PICK a \in Account : a = account[u]
      BY <2>1
    <2>3. Reduced(a, m, n, at).other = a.other /\ Reduced(a, m, n, at).assets = a.assets
      BY DEF Reduced, Account
    <2>4. QED
      BY <1>1, <2>2, <2>3
  <1>12. Counted(r)
    BY <1>11 DEF DebtPart, Counted, Listed
  <1>13. /\ s.size = r.size /\ s.assets = r.assets /\ s.other <= r.other
         /\ r.cash + NetValue(r.other) <= s.cash + NetValue(s.other)
    BY <1>2, <1>5, SeizedEffect
  <1>14. r.cash \in Int /\ s.cash \in Int /\ r.other \in Nat /\ s.other \in Nat
    BY <1>5 DEF Account
  <1>15. NetValue(r.other) \in Nat /\ NetValue(s.other) \in Nat
    BY <1>14, NetValueType
  <1>16. Counted(b)
    BY <1>10, <1>12, <1>13, <1>14 DEF Counted, Listed
  <1>17. ASSUME Flat(b) PROVE -b.cash <= NetValue(b.other) + badDebt'
    <2>1. Flat(r)
      BY <1>10, <1>13, <1>17 DEF Flat
    <2>2. Equity(r) = r.cash + NetValue(r.other)
      BY <1>5, <1>12, <2>1, HealthFigures, CountedCollateral DEF TypeInv
    <2>3. CASE d = -s.cash
      BY <1>6, <1>8, <1>10, <1>14, <1>15, <2>3
    <2>4. CASE d # -s.cash
      <3>1. ~ (Equity(r) < 0 /\ s.cash < 0)
        BY <1>3, <2>4 DEF Uncovered
      <3>2. CASE s.cash >= 0
        BY <1>6, <1>10, <1>14, <1>15, <3>2
      <3>3. CASE Equity(r) >= 0
        BY <1>6, <1>10, <1>13, <1>14, <1>15, <2>2, <3>3
      <3>4. QED
        BY <1>14, <1>15, <2>2, <3>1, <3>2, <3>3
    <2>5. QED
      BY <2>3, <2>4
  <1>18. ASSUME NEW v \in Users
         PROVE  /\ Counted(account'[v])
                /\ Flat(account'[v]) => -account'[v].cash <= NetValue(account'[v].other) + badDebt'
    <2>1. CASE v = u
      <3>1. account'[v] = b
        BY <1>8, <1>9, <2>1
      <3>2. QED
        BY <1>16, <1>17, <3>1
    <2>2. CASE v # u
      <3>1. account'[v] = account[v]
        BY <1>8, <1>9, <2>2
      <3>2. account[v].cash \in Int /\ NetValue(account[v].other) \in Nat
        BY <1>8, NetValueType DEF Account
      <3>3. badDebt <= badDebt'
        BY <1>5, <1>6, <1>8
      <3>4. Flat(account[v]) => -account[v].cash <= NetValue(account[v].other) + badDebt'
        BY <1>6, <1>8, <3>2, <3>3 DEF DebtPart
      <3>5. QED
        BY <3>1, <3>4 DEF DebtPart
    <2>3. QED
      BY <2>1, <2>2
  <1>19. QED
    BY <1>18 DEF DebtPart, Counted, Flat, Listed, NetValue

\* Accounts that start sound are covered.
LEMMA DebtInit == ASSUME SoundStart, Init PROVE DebtPart
  <1>1. account \in Portfolios /\ badDebt = 0
    BY DEF Init
  <1>2. Portfolios \subseteq [Users -> Account]
    BY LiquidationConstants
  <1>3. ASSUME NEW u \in Users
        PROVE  /\ Counted(account[u])
               /\ Flat(account[u]) => -account[u].cash <= NetValue(account[u].other) + badDebt
    <2>1. account[u] \in Account
      BY <1>1, <1>2
    <2>2. NetValue(account[u].other) \in Nat
      BY <2>1, NetValueType DEF Account
    <2>3. Counted(account[u]) /\ (Flat(account[u]) => -account[u].cash <= NetValue(account[u].other))
      BY <1>1 DEF SoundStart
    <2>4. QED
      BY <1>1, <2>2, <2>3
  <1>4. QED
    BY <1>3 DEF DebtPart

\* The parts of an account the invariant reads decide it.
LEMMA DebtSame ==
  ASSUME DebtPart, UNCHANGED <<account, badDebt>>
  PROVE  DebtPart'
  BY DEF DebtPart, Counted, Listed, Flat, NetValue

\* A deposit only lowers a debt, and makes the settlement balance count.
LEMMA DebtDeposit ==
  ASSUME TypeInv, DebtPart, NEW u \in Users, Deposit(u)
  PROVE  DebtPart'
  <1>1. /\ account \in [Users -> Account] /\ account' \in [Users -> Account]
        /\ \A v \in Users : v # u => account'[v] = account[v]
        /\ account'[u].cash >= account[u].cash /\ account'[u].other = account[u].other
        /\ account'[u].size = account[u].size
        /\ account'[u].assets = account[u].assets \cup {"USDC"}
    BY DepositEffect DEF TypeInv, ChainPart
  <1>2. badDebt' = badDebt /\ badDebt \in Nat
    BY DEF Deposit, TypeInv, ChainPart
  <1>3. ASSUME NEW v \in Users
        PROVE  /\ Counted(account'[v])
               /\ Flat(account'[v]) => -account'[v].cash <= NetValue(account'[v].other) + badDebt'
    <2>1. CASE v # u
      <3>1. account'[v] = account[v]
        BY <1>1, <2>1
      <3>2. QED
        BY <1>2, <3>1 DEF DebtPart
    <2>2. CASE v = u
      <3>1. PICK a \in Account : a = account[u]
        BY <1>1
      <3>2. PICK b \in Account : b = account'[u]
        BY <1>1
      <3>3. b.cash >= a.cash /\ b.other = a.other /\ b.size = a.size
            /\ b.assets = a.assets \cup {"USDC"}
        BY <1>1, <3>1, <3>2
      <3>4. Counted(a) /\ (Flat(a) => -a.cash <= NetValue(a.other) + badDebt)
        BY <3>1 DEF DebtPart
      <3>5. Counted(b)
        BY <3>3, <3>4 DEF Counted, Listed
      <3>6. a.cash \in Int /\ b.cash \in Int /\ NetValue(a.other) \in Nat
        BY NetValueType DEF Account
      <3>7. Flat(b) => -b.cash <= NetValue(b.other) + badDebt
        BY <1>2, <3>3, <3>4, <3>6 DEF Flat
      <3>8. QED
        BY <1>2, <2>2, <3>2, <3>5, <3>7
    <2>3. QED
      BY <2>1, <2>2
  <1>4. QED
    BY <1>3 DEF DebtPart, Counted, Listed, Flat, NetValue

\* No transaction leaves a debt uncovered and unrecorded.
LEMMA DebtInclude ==
  ASSUME TypeInv, DebtPart, NEW tx \in pool, Include(tx)
  PROVE  DebtPart'
  <1>0. Executes(tx)
    BY DEF Include
  <1>1. CASE UNCHANGED <<account, fund, badDebt>>
    BY <1>1, DebtSame
  <1>2. ASSUME NEW u \in Users, account' = [account EXCEPT ![u] = Seized(@)],
               UNCHANGED <<fund, badDebt>>
        PROVE  DebtPart'
    <2>1. account \in [Users -> Account] /\ badDebt \in Nat
      BY DEF TypeInv, ChainPart
    <2>2. PICK b : b = Seized(account[u])
      OBVIOUS
    <2>3. Counted(b) /\ (Flat(b) => -b.cash <= NetValue(b.other) + badDebt)
      <3>1. PICK a \in Account : a = account[u]
        BY <2>1
      <3>2. Counted(a) /\ (Flat(a) => -a.cash <= NetValue(a.other) + badDebt)
        BY <3>1 DEF DebtPart
      <3>3. b = Seized(a)
        BY <2>2, <3>1
      <3>4. QED
        BY <2>1, <3>2, <3>3, SeizedStaysCovered
    <2>4. account' = [account EXCEPT ![u] = b] /\ badDebt' = badDebt
      BY <1>2, <2>2
    <2>5. ASSUME NEW v \in Users
          PROVE  /\ Counted(account'[v])
                 /\ Flat(account'[v]) => -account'[v].cash <= NetValue(account'[v].other) + badDebt'
      <3>1. account'[v] = IF v = u THEN b ELSE account[v]
        BY <2>1, <2>4
      <3>2. QED
        BY <2>3, <2>4, <3>1 DEF DebtPart
    <2>6. QED
      BY <2>5 DEF DebtPart, Counted, Listed, Flat, NetValue
  <1>3. ASSUME NEW u \in Users, NEW m \in Markets, NEW n \in Nat \ {0}, NEW at \in Prices,
               Accepts(u, m, n, at), Liquidate(u, m, n, at)
        PROVE  DebtPart'
    BY <1>3, LiquidationRecords
  <1>4. QED
    BY <1>0, <1>1, <1>2, <1>3, ExecutesCases

\* Every step keeps debts covered or recorded.
LEMMA DebtNext == ASSUME TypeInv, DebtPart, [Next]_vars PROVE DebtPart'
  <1>1. ASSUME NEW tx \in pool, Expire(tx) PROVE UNCHANGED <<account, badDebt>>
    BY <1>1 DEF Expire, chainVars
  <1>2. ASSUME NEW m \in Markets, NEW p \in Prices, MovePrice(m, p)
        PROVE  UNCHANGED <<account, badDebt>>
    BY <1>2 DEF MovePrice, chainVars
  <1>3. ASSUME Keeper \/ AccountFails \/ DayPasses \/ UNCHANGED vars
        PROVE  UNCHANGED <<account, badDebt>>
    BY <1>3 DEF Keeper, StartScan, CheckDeficit, ReadHealth, ReadPositions, ReadPrice, TryRung,
       PollEnds, BumpTtls, AccountFails, DayPasses, vars, chainVars
  <1>4. QED
    BY <1>1, <1>2, <1>3, DebtSame, DebtDeposit, DebtInclude DEF Next

-----------------------------------------------------------------------------
\* How much was closed: nothing if the sizes are the same, and the one close.
LEMMA ClosedIs ==
  ASSUME NEW a \in Account, NEW b \in Account
  PROVE  LET closed == SumFunction([m \in Markets |-> a.size[m] - b.size[m]])
         IN  /\ b.size = a.size => closed = 0
             /\ \A m \in Markets : \A n \in Nat :
                   b.size = [a.size EXCEPT ![m] = a.size[m] - n] => closed = n
  <1>1. a.size \in [Markets -> Nat] /\ b.size \in [Markets -> Nat]
    BY DEF Account
  <1>2. PICK f : f = [m \in Markets |-> a.size[m] - b.size[m]]
    OBVIOUS
  <1>3. DOMAIN f = Markets /\ \A m \in Markets : f[m] = a.size[m] - b.size[m] /\ f[m] \in Int
    BY <1>1, <1>2
  <1>4. IsFiniteSet(Markets)
    BY LiquidationConstants
  <1>5. SumFunction(f) = SumFunctionOnSet(f, Markets)
    BY <1>3 DEF SumFunction
  <1>6. ASSUME b.size = a.size PROVE SumFunction(f) = 0
    <2>1. \A m \in Markets : f[m] = 0
      BY <1>1, <1>3, <1>6
    <2>2. QED
      BY <1>4, <1>5, <2>1, SumZero
  <1>7. ASSUME NEW m \in Markets, NEW n \in Nat, b.size = [a.size EXCEPT ![m] = @ - n]
        PROVE  SumFunction(f) = n
    <2>1. PICK z : z = [k \in Markets |-> 0]
      OBVIOUS
    <2>2. f[m] = n /\ \A k \in Markets : k # m => f[k] = 0
      BY <1>1, <1>3, <1>7
    <2>3. SumFunctionOnSet(f, Markets) = SumFunctionOnSet(z, Markets) + (f[m] - z[m])
      <3>1. \A k \in Markets : z[k] \in Int /\ f[k] \in Int
        BY <1>3, <2>1
      <3>2. \A k \in Markets : k # m => f[k] = z[k]
        BY <2>1, <2>2
      <3>3. QED
        BY <1>4, <3>1, <3>2, SumUpdate
    <2>4. SumFunctionOnSet(z, Markets) = 0
      BY <1>4, <2>1, SumZero
    <2>5. QED
      BY <1>5, <2>1, <2>2, <2>3, <2>4
  <1>8. QED
    BY <1>2, <1>6, <1>7

\* What CollateralPaysFirst asks of a step, for an account that is a before it
\* and b after it.
PaysFirst(a, b) ==
    LET taken == a.other - b.other
        closed == SumFunction([m \in Markets |-> a.size[m] - b.size[m]])
        asked == (badDebt' - badDebt) + (fund - fund')
    IN  /\ (taken > 0 /\ closed = 0) =>
              /\ b.cash <= 0
              /\ b.cash - a.cash <= NetValue(taken)
        /\ (closed > 0 /\ asked > NetValue(1) + Reward(closed, Max(Prices))) =>
              NetValue(b.other) = 0

\* An account that closed nothing and gave no collateral.
LEMMA KeptPaysFirst ==
  ASSUME NEW a \in Account, NEW b \in Account, b.size = a.size, b.other = a.other
  PROVE  PaysFirst(a, b)
  <1>1. a.other - b.other = 0
    BY DEF Account
  <1>2. SumFunction([m \in Markets |-> a.size[m] - b.size[m]]) = 0
    BY ClosedIs
  <1>3. QED
    BY <1>1, <1>2 DEF PaysFirst

\* A seizure on its own.
LEMMA SeizurePaysFirst ==
  ASSUME NEW a \in Account
  PROVE  PaysFirst(a, Seized(a))
  <1>1. PICK b : b = Seized(a)
    OBVIOUS
  <1>2. /\ b \in Account /\ b.size = a.size /\ b.cash - a.cash <= NetValue(a.other - b.other)
        /\ a.other # b.other => b.cash <= 0
    BY <1>1, SeizedEffect
  <1>3. SumFunction([m \in Markets |-> a.size[m] - b.size[m]]) = 0
    BY <1>2, ClosedIs
  <1>4. a.other - b.other > 0 => a.other # b.other
    BY <1>2 DEF Account
  <1>5. PaysFirst(a, b)
    BY <1>2, <1>3, <1>4 DEF PaysFirst
  <1>6. QED
    BY <1>1, <1>5

\* A liquidation: what insurance is asked for beyond the reward is the debt the
\* seizure left.
LEMMA LiquidationPaysFirst ==
  ASSUME TypeInv, DebtPart, NEW u \in Users, NEW m \in Markets, NEW n \in Nat, n > 0,
         NEW at \in Prices, Accepts(u, m, n, at), Liquidate(u, m, n, at)
  PROVE  PaysFirst(account[u], account'[u])
  <1>1. PICK r : r = Reduced(account[u], m, n, at)
    OBVIOUS
  <1>2. PICK s : s = Seized(r)
    OBVIOUS
  <1>3. PICK d : d = Uncovered(r, s)
    OBVIOUS
  <1>4. PICK w : w = Reward(n, at)
    OBVIOUS
  <1>5. PICK a \in Account : a = account[u]
    BY DEF TypeInv, ChainPart
  <1>6. r \in Account /\ r.size = [a.size EXCEPT ![m] = @ - n]
        /\ r.other = a.other /\ r.assets = a.assets
    <2>1. n <= a.size[m] /\ at \in Nat
      BY <1>5, LiquidationConstants DEF Accepts, Closable
    <2>2. r = Reduced(a, m, n, at)
      BY <1>1, <1>5
    <2>3. QED
      BY <2>1, <2>2, ReducedEffect
  <1>7. /\ s \in Account /\ d \in Nat /\ w \in Nat
        /\ \E c \in 0..d : /\ account' = [account EXCEPT ![u] = [s EXCEPT !.cash = @ + c]]
                           /\ fund' = fund - w - c /\ fund' \in Nat
                           /\ badDebt' = badDebt + d - c /\ badDebt' \in Nat
    BY <1>1, <1>2, <1>3, <1>4, LiquidateEffect DEF TypeInv
  <1>8. PICK c \in 0..d : /\ account' = [account EXCEPT ![u] = [s EXCEPT !.cash = @ + c]]
                          /\ fund' = fund - w - c /\ fund' \in Nat
                          /\ badDebt' = badDebt + d - c /\ badDebt' \in Nat
    BY <1>7
  <1>9. PICK b : b = [s EXCEPT !.cash = @ + c]
    OBVIOUS
  <1>10. account'[u] = b
    BY <1>8, <1>9 DEF TypeInv, ChainPart
  <1>11. b \in Account /\ b.size = s.size /\ b.other = s.other
    BY <1>7, <1>8, <1>9, LiquidatedAccount
  <1>12. b.size = [a.size EXCEPT ![m] = @ - n]
    BY <1>2, <1>6, <1>11, SeizedEffect
  <1>13. SumFunction([k \in Markets |-> a.size[k] - b.size[k]]) = n
    <2>1. b.size = [a.size EXCEPT ![m] = a.size[m] - n]
      BY <1>12
    <2>2. \A k \in Markets : \A i \in Nat :
             b.size = [a.size EXCEPT ![k] = a.size[k] - i]
                => SumFunction([j \in Markets |-> a.size[j] - b.size[j]]) = i
      BY <1>11, ClosedIs, Zenon
    <2>3. QED
      BY <2>1, <2>2, Zenon
  <1>14. (badDebt' - badDebt) + (fund - fund') = d + w
    <2>1. fund \in Nat /\ badDebt \in Nat
      BY DEF TypeInv, ChainPart
    <2>2. QED
      BY <1>7, <1>8, <2>1
  <1>15. ASSUME d + w > NetValue(1) + Reward(n, Max(Prices))
         PROVE  NetValue(b.other) = 0
    <2>1. Max(Prices) \in Nat /\ at \in Nat /\ at <= Max(Prices)
      <3>1. IsFiniteSet(Prices) /\ Prices \subseteq Nat /\ Prices \subseteq Int /\ Prices # {}
        BY LiquidationConstants
      <3>2. Max(Prices) \in Prices /\ at <= Max(Prices)
        BY <3>1, MaxOfFinite
      <3>3. QED
        BY <3>1, <3>2
    <2>2. w <= Reward(n, Max(Prices)) /\ Reward(n, Max(Prices)) \in Nat
      BY <1>4, <2>1, RewardGrows
    <2>3. NetValue(1) \in Nat
      BY NetValueType
    <2>4. d > NetValue(1)
      BY <1>7, <1>15, <2>2, <2>3
    <2>5. d = -s.cash
      BY <1>3, <2>3, <2>4 DEF Uncovered
    <2>6. Listed(r)
      BY <1>5, <1>6 DEF DebtPart, Counted, Listed
    <2>7. NetValue(s.other) = 0
      BY <1>2, <1>6, <2>4, <2>5, <2>6, SeizureLeaves
    <2>8. QED
      BY <1>11, <2>7
  <1>16. PaysFirst(a, b)
    BY <1>13, <1>14, <1>15 DEF PaysFirst
  <1>17. QED
    BY <1>5, <1>10, <1>16

\* In every step, every account's own collateral pays first.
LEMMA EveryStepPaysFirst ==
  ASSUME TypeInv, DebtPart, [Next]_vars, NEW v \in Users
  PROVE  PaysFirst(account[v], account'[v])
  <1>0. account \in [Users -> Account] /\ account[v] \in Account
    BY DEF TypeInv, ChainPart
  <1>1. ASSUME account'[v] = account[v] PROVE PaysFirst(account[v], account'[v])
    BY <1>0, <1>1, KeptPaysFirst
  <1>2. ASSUME NEW tx \in pool, Include(tx) PROVE PaysFirst(account[v], account'[v])
    <2>1. Executes(tx)
      BY <1>2 DEF Include
    <2>2. ASSUME NEW u \in Users, account' = [account EXCEPT ![u] = Seized(@)]
          PROVE  PaysFirst(account[v], account'[v])
      <3>1. CASE v = u
        BY <1>0, <2>2, <3>1, SeizurePaysFirst
      <3>2. CASE v # u
        BY <1>0, <1>1, <2>2, <3>2
      <3>3. QED
        BY <3>1, <3>2
    <2>3. ASSUME NEW u \in Users, NEW m \in Markets, NEW n \in Nat \ {0}, NEW at \in Prices,
                 Accepts(u, m, n, at), Liquidate(u, m, n, at)
          PROVE  PaysFirst(account[v], account'[v])
      <3>1. CASE v = u
        <4>1. n \in Nat /\ n > 0
          OBVIOUS
        <4>2. PaysFirst(account[u], account'[u])
          BY <2>3, <4>1, LiquidationPaysFirst
        <4>3. QED
          BY <3>1, <4>2
      <3>2. CASE v # u
        <4>1. account'[v] = account[v]
          BY <1>0, <2>3, <3>2 DEF Liquidate
        <4>2. QED
          BY <1>1, <4>1
      <3>3. QED
        BY <3>1, <3>2
    <2>4. QED
      BY <1>1, <2>1, <2>2, <2>3, ExecutesCases
  <1>3. ASSUME NEW u \in Users, Deposit(u) PROVE PaysFirst(account[v], account'[v])
    <2>1. CASE v # u
      BY <1>1, <1>3, <2>1, DepositEffect DEF TypeInv
    <2>2. CASE v = u
      <3>1. account'[v] \in Account /\ account'[v].size = account[v].size
            /\ account'[v].other = account[v].other
        BY <1>3, <2>2, DepositEffect DEF TypeInv
      <3>2. QED
        BY <1>0, <3>1, KeptPaysFirst
    <2>3. QED
      BY <2>1, <2>2
  <1>4. ASSUME UNCHANGED account PROVE PaysFirst(account[v], account'[v])
    BY <1>1, <1>4
  <1>5. ASSUME NEW tx \in pool, Expire(tx) PROVE UNCHANGED account
    BY <1>5 DEF Expire, chainVars
  <1>6. ASSUME NEW m \in Markets, NEW p \in Prices, MovePrice(m, p) PROVE UNCHANGED account
    BY <1>6 DEF MovePrice, chainVars
  <1>7. ASSUME Keeper \/ AccountFails \/ DayPasses \/ UNCHANGED vars PROVE UNCHANGED account
    BY <1>7 DEF Keeper, StartScan, CheckDeficit, ReadHealth, ReadPositions, ReadPrice, TryRung,
       PollEnds, BumpTtls, AccountFails, DayPasses, vars, chainVars
  <1>8. QED
    BY <1>2, <1>3, <1>4, <1>5, <1>6, <1>7 DEF Next

-----------------------------------------------------------------------------
\* Accounts, fund and recorded debt are well formed, and the keeper never looks
\* for an account in an empty scan, whatever fails, times out or lands late.
THEOREM KeeperIsWellFormed == Spec => []TypeOK
  <1>1. Init => TypeInv
    BY LiquidationInitType
  <1>2. TypeInv => TypeOK
    BY TypeInvImpliesTypeOK
  <1>3. QED
    BY <1>1, <1>2, NextType, PTL DEF Spec

\* A debit left after an account's last position is closed is backed by its other
\* collateral or on the books as bad debt (liquidate, seize_for_deficit_inner,
\* absorb_bad_debt), for accounts whose settlement balance counts at the start.
THEOREM LossIsAlwaysRecorded == ASSUME SoundStart PROVE Spec => []LossIsRecorded
  <1>1. Init => TypeInv /\ DebtPart
    BY LiquidationInitType, DebtInit
  <1>2. TypeInv /\ DebtPart /\ [Next]_vars => (TypeInv /\ DebtPart)'
    BY NextType, DebtNext
  <1>3. TypeInv /\ DebtPart => LossIsRecorded
    BY TypeInvImpliesTypeOK DEF DebtPart, LossIsRecorded
  <1>4. QED
    BY <1>1, <1>2, <1>3, PTL DEF Spec

\* Insurance pays or records, beyond its reward, no more of a debt than one unit
\* of collateral is worth while the account keeps any worth seizing, and a
\* seizure credits what it took at haircut value and never leaves a surplus
\* (seize_for_deficit_inner before absorb_bad_debt, with all its rounding).
THEOREM CollateralAlwaysPaysFirst == ASSUME SoundStart PROVE Spec => CollateralPaysFirst
  <1>1. Init => TypeInv /\ DebtPart
    BY LiquidationInitType, DebtInit
  <1>2. TypeInv /\ DebtPart /\ [Next]_vars => (TypeInv /\ DebtPart)'
    BY NextType, DebtNext
  <1>3. TypeInv /\ DebtPart /\ [Next]_vars =>
          [\A u \in Users :
              LET taken == account[u].other - account'[u].other
                  closed == SumFunction([m \in Markets |-> account[u].size[m] - account'[u].size[m]])
                  asked == (badDebt' - badDebt) + (fund - fund')
              IN  /\ (taken > 0 /\ closed = 0) =>
                        /\ account'[u].cash <= 0
                        /\ account'[u].cash - account[u].cash <= NetValue(taken)
                  /\ (closed > 0 /\ asked > NetValue(1) + Reward(closed, Max(Prices))) =>
                        NetValue(account'[u].other) = 0]_vars
    BY EveryStepPaysFirst DEF PaysFirst
  <1>4. QED
    BY <1>1, <1>2, <1>3, PTL DEF Spec, CollateralPaysFirst
=============================================================================
