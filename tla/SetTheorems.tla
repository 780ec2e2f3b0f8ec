---------------------------- MODULE SetTheorems -----------------------------
(***************************************************************************)
(* Facts about finite sets that the proofs of several components need: the *)
(* least element of a set of numbers (Min, Max), and sums of functions     *)
(* (SumFunction); and the concatenation of a sequence of sequences         *)
(* (FlattenSeq).  A sum is defined by a recursive function that removes an *)
(* arbitrary element; the lemmas make it usable whatever element is        *)
(* removed.  Induction is by contradiction, on a least number or a minimal *)
(* set for which the claim fails.                                          *)
(***************************************************************************)
EXTENDS SequencesExt, FiniteSetsExt, FiniteSetTheorems, WellFoundedInduction, TLAPS

LOCAL Pick(B) == CHOOSE x \in B : TRUE

\* The recursion that defines the partial sums of f over the subsets in D.
LOCAL IsSum(s, f, D) ==
    s = [B \in D |-> IF B = {} THEN 0 ELSE f[Pick(B)] + s[B \ {Pick(B)}]]

\* Among subsets of a finite set there is a minimal one.
LEMMA MinimalSubset ==
  ASSUME NEW A, IsFiniteSet(A), NEW Bad, Bad \subseteq SUBSET A, Bad # {}
  PROVE  \E B \in Bad : \A C \in Bad : C \subseteq B => C = B
  <1> DEFINE R == StrictSubsetOrdering(A)
  <1>1. IsWellFoundedOn(R, SUBSET A)
    BY FS_StrictSubsetOrderingWellFounded, FS_FiniteSubsetsOfFinite
  <1> HIDE DEF R
  <1>2. \E B \in Bad : \A C \in Bad : ~ (<<C, B>> \in R)
    BY <1>1, WFMin, Zenon
  <1>3. PICK B \in Bad : \A C \in Bad : ~ (<<C, B>> \in R)
    BY <1>2
  <1>4. \A C \in Bad : C \subseteq B => C = B
    BY <1>3 DEF R, StrictSubsetOrdering
  <1>5. QED
    BY <1>4

\* Among natural numbers there is a least one.
LEMMA LeastNatural ==
  ASSUME NEW N, N \subseteq Nat, N # {}
  PROVE  \E m \in N : \A n \in N : m <= n
  <1> DEFINE R == {ss \in Nat \X Nat : ss[1] < ss[2]}
  <1>1. \E m \in N : \A n \in N : ~ (<<n, m>> \in R)
    <2>1. IsWellFoundedOn(R, Nat)
      BY NatLessThanWellFounded DEF OpToRel
    <2> HIDE DEF R
    <2>2. QED
      BY <2>1, WFMin, Zenon
  <1>2. \A m, n \in Nat : n < m => <<n, m>> \in R
    OBVIOUS
  <1> HIDE DEF R
  <1>3. PICK m \in N : \A n \in N : ~ (<<n, m>> \in R)
    BY <1>1
  <1>4. ASSUME NEW n \in N PROVE m <= n
    <2>1. m \in Nat /\ n \in Nat /\ ~ (n < m)
      BY <1>2, <1>3
    <2>2. QED
      BY <2>1
  <1>5. QED
    BY <1>4

\* The minimum of a set of natural numbers belongs to it and is its least.
LEMMA MinOfNaturals ==
  ASSUME NEW N, N \subseteq Nat, N # {}
  PROVE  Min(N) \in N /\ \A n \in N : Min(N) <= n
  BY LeastNatural DEF Min

\* What holds of the empty set and of one more element holds of a finite set.
LEMMA ElementByElement ==
  ASSUME NEW S, IsFiniteSet(S), NEW Good, {} \in Good,
         \A B \in SUBSET S : B \in Good => \A x \in S : B \cup {x} \in Good
  PROVE  S \in Good
  <1>1. PICK Bad : Bad = (SUBSET S) \ Good
    OBVIOUS
  <1>2. SUFFICES ASSUME Bad # {} PROVE FALSE
    BY <1>1
  <1>3. Bad \subseteq SUBSET S
    BY <1>1
  <1>4. PICK B \in Bad : \A C \in Bad : C \subseteq B => C = B
    BY <1>2, <1>3, MinimalSubset
  <1>5. B \in SUBSET S /\ B \notin Good /\ B # {}
    <2>1. B \in SUBSET S /\ B \notin Good
      BY <1>1
    <2>2. B # {}
      BY <2>1
    <2>3. QED
      BY <2>1, <2>2
  <1>6. PICK x \in B : TRUE
    BY <1>5
  <1>7. B \ {x} \in SUBSET S /\ B \ {x} \notin Bad
    BY <1>4, <1>5, <1>6
  <1>8. (B \ {x}) \cup {x} \in Good /\ (B \ {x}) \cup {x} = B
    BY <1>1, <1>5, <1>6, <1>7
  <1>9. QED
    BY <1>5, <1>8

\* A finite set of numbers has a greatest one.
LEMMA MaxOfFinite ==
  ASSUME NEW S, IsFiniteSet(S), S \subseteq Int, S # {}
  PROVE  Max(S) \in S /\ \A x \in S : x <= Max(S)
  <1> DEFINE HasMax(B) == B # {} => \E x \in B : \A y \in B : y <= x
  <1>1. PICK Good : Good = {B \in SUBSET S : HasMax(B)}
    OBVIOUS
  <1>2. ASSUME NEW B \in Good, NEW x \in S
        PROVE  B \cup {x} \in Good
    <2>1. x \in Int /\ B \in SUBSET S /\ HasMax(B)
      BY <1>1
    <2>2. CASE B = {}
      BY <1>1, <2>1, <2>2
    <2>3. CASE B # {}
      <3>1. PICK y \in B : \A z \in B : z <= y
        BY <2>1, <2>3
      <3>2. y \in Int /\ \A z \in B : z \in Int
        BY <2>1, <3>1
      <3>3. CASE x <= y
        BY <1>1, <2>1, <3>1, <3>2, <3>3
      <3>4. CASE y <= x
        BY <1>1, <2>1, <3>1, <3>2, <3>4
      <3>5. QED
        BY <2>1, <3>2, <3>3, <3>4
    <2>4. QED
      BY <2>2, <2>3
  <1>3. S \in Good
    <2>1. {} \in Good
      BY <1>1
    <2>2. \A B \in SUBSET S : B \in Good => \A x \in S : B \cup {x} \in Good
      BY <1>2
    <2>3. QED
      BY <2>1, <2>2, ElementByElement, Zenon
  <1>4. PICK x \in S : \A y \in S : y <= x
    BY <1>1, <1>3
  <1>5. \A y \in S : x >= y
    BY <1>4
  <1>6. Max(S) \in S /\ \A y \in S : Max(S) >= y
    BY <1>5, Zenon DEF Max
  <1>7. QED
    BY <1>6

\* The extremes of one number and of two.
LEMMA MinMaxOfOne == \A a \in Int : Min({a}) = a /\ Max({a}) = a
  BY DEF Min, Max

\* The maximum of two numbers.
LEMMA MaxOfTwo == \A a, b \in Int : Max({a, b}) = IF a >= b THEN a ELSE b
  <1> SUFFICES ASSUME NEW a \in Int, NEW b \in Int
               PROVE  Max({a, b}) = IF a >= b THEN a ELSE b
    OBVIOUS
  <1>1. \E x \in {a, b} : \A y \in {a, b} : x >= y
    OBVIOUS
  <1>2. Max({a, b}) \in {a, b} /\ \A y \in {a, b} : Max({a, b}) >= y
    BY <1>1 DEF Max
  <1>3. QED
    BY <1>2

\* The minimum of two numbers.
LEMMA MinOfTwo == \A a, b \in Int : Min({a, b}) = IF a <= b THEN a ELSE b
  <1> SUFFICES ASSUME NEW a \in Int, NEW b \in Int
               PROVE  Min({a, b}) = IF a <= b THEN a ELSE b
    OBVIOUS
  <1>1. \E x \in {a, b} : \A y \in {a, b} : x <= y
    OBVIOUS
  <1>2. Min({a, b}) \in {a, b} /\ \A y \in {a, b} : Min({a, b}) <= y
    BY <1>1 DEF Min
  <1>3. QED
    BY <1>2

-----------------------------------------------------------------------------
LOCAL UpTo(S, n) == {B \in SUBSET S : Cardinality(B) <= n}

\* The recursion has a solution over the subsets of any finite set.
LEMMA SumExists ==
  ASSUME NEW S, IsFiniteSet(S), NEW f
  PROVE  \E s : IsSum(s, f, SUBSET S)
  <1> DEFINE Solved(n) == \E s : IsSum(s, f, UpTo(S, n))
             N == {n \in Nat : ~ Solved(n)}
  <1>f. \A B \in SUBSET S : IsFiniteSet(B) /\ Cardinality(B) \in Nat /\ Cardinality(B) <= Cardinality(S)
    BY FS_Subset, FS_CardinalityType
  <1>e. \A B \in SUBSET S : Cardinality(B) = 0 <=> B = {}
    BY <1>f, FS_EmptySet
  <1>p. \A B \in SUBSET S : B # {} => Pick(B) \in B
    BY DEF Pick
  <1>r. \A B \in SUBSET S : B # {} =>
          B \ {Pick(B)} \in SUBSET S /\ Cardinality(B \ {Pick(B)}) = Cardinality(B) - 1
    BY <1>f, <1>p, FS_RemoveElement
  <1>1. Solved(0)
    <2> DEFINE s == [B \in UpTo(S, 0) |-> 0]
    <2>1. \A B \in UpTo(S, 0) : B = {}
      BY <1>f, <1>e DEF UpTo
    <2>2. IsSum(s, f, UpTo(S, 0))
      BY <2>1 DEF IsSum
    <2>3. QED
      BY <2>2
  <1>2. ASSUME NEW n \in Nat, Solved(n)
        PROVE  Solved(n + 1)
    <2>1. PICK s : IsSum(s, f, UpTo(S, n))
      BY <1>2
    <2> DEFINE t == [B \in UpTo(S, n + 1) |->
                       IF B = {} THEN 0 ELSE f[Pick(B)] + s[B \ {Pick(B)}]]
    <2>2. \A B \in UpTo(S, n) : B \in UpTo(S, n + 1) /\ t[B] = s[B]
      <3>1. \A B \in UpTo(S, n) : B \in UpTo(S, n + 1)
        BY <1>f DEF UpTo
      <3>2. \A B \in UpTo(S, n) :
              s[B] = IF B = {} THEN 0 ELSE f[Pick(B)] + s[B \ {Pick(B)}]
        BY <2>1 DEF IsSum
      <3>3. QED
        BY <3>1, <3>2
    <2>3. \A B \in UpTo(S, n + 1) : B # {} => B \ {Pick(B)} \in UpTo(S, n)
      BY <1>f, <1>r DEF UpTo
    <2>4. IsSum(t, f, UpTo(S, n + 1))
      <3>1. \A B \in UpTo(S, n + 1) : B # {} => t[B \ {Pick(B)}] = s[B \ {Pick(B)}]
        BY <2>2, <2>3
      <3>2. t = [B \in UpTo(S, n + 1) |->
                   IF B = {} THEN 0 ELSE f[Pick(B)] + t[B \ {Pick(B)}]]
        BY <3>1
      <3>3. QED
        BY <3>2 DEF IsSum
    <2>5. QED
      BY <2>4
  <1>3. \A n \in Nat : Solved(n)
    <2> SUFFICES ASSUME N # {} PROVE FALSE
      BY DEF N
    <2> HIDE DEF Solved
    <2>1. PICK m \in N : \A n \in N : m <= n
      BY LeastNatural
    <2>2. m # 0
      BY <1>1
    <2>3. m - 1 \in Nat /\ Solved(m - 1)
      BY <2>1, <2>2
    <2>4. Solved((m - 1) + 1)
      BY <1>2, <2>3
    <2>5. QED
      BY <2>4, <2>1
  <1>4. UpTo(S, Cardinality(S)) = SUBSET S
    BY <1>f DEF UpTo
  <1>5. Cardinality(S) \in Nat
    BY <1>f
  <1>6. \E s : IsSum(s, f, UpTo(S, Cardinality(S)))
    BY <1>3, <1>5, Zenon
  <1>7. QED
    BY <1>4, <1>6

\* A partial sum does not depend on the set over which the recursion runs.
LEMMA SumUnique ==
  ASSUME NEW S, IsFiniteSet(S), NEW A \in SUBSET S, NEW f, NEW s, NEW t,
         IsSum(s, f, SUBSET S), IsSum(t, f, SUBSET A)
  PROVE  s[A] = t[A]
  <1> DEFINE Bad == {B \in SUBSET A : s[B] # t[B]}
  <1> SUFFICES ASSUME Bad # {} PROVE FALSE
    OBVIOUS
  <1>1. PICK B \in Bad : \A C \in Bad : C \subseteq B => C = B
    <2>1. IsFiniteSet(A) /\ Bad \subseteq SUBSET A
      BY FS_Subset
    <2> HIDE DEF Bad
    <2>2. QED
      BY <2>1, MinimalSubset
  <1>2. B \in SUBSET A /\ B \in SUBSET S /\ s[B] # t[B]
    OBVIOUS
  <1>3. /\ s[B] = IF B = {} THEN 0 ELSE f[Pick(B)] + s[B \ {Pick(B)}]
        /\ t[B] = IF B = {} THEN 0 ELSE f[Pick(B)] + t[B \ {Pick(B)}]
    BY <1>2 DEF IsSum
  <1>4. B # {} /\ Pick(B) \in B
    BY <1>2, <1>3 DEF Pick
  <1>5. s[B \ {Pick(B)}] = t[B \ {Pick(B)}]
    BY <1>1, <1>4
  <1>6. QED
    BY <1>2, <1>3, <1>4, <1>5

\* What the community modules' definition of a sum comes to.
LEMMA SumDefinition ==
  ASSUME NEW S, IsFiniteSet(S), NEW f
  PROVE  \E s : IsSum(s, f, SUBSET S) /\ SumFunctionOnSet(f, S) = s[S]
  <1> DEFINE s == CHOOSE s : IsSum(s, f, SUBSET S)
  <1>1. IsSum(s, f, SUBSET S)
    BY SumExists
  <1>2. SumFunctionOnSet(f, S) = s[S]
    BY DEF SumFunctionOnSet, FoldFunctionOnSet, MapThenFoldSet, IsSum, Pick
  <1>3. QED
    BY <1>1, <1>2

\* The sum over no element.
LEMMA SumEmpty == \A f : SumFunctionOnSet(f, {}) = 0
  <1> SUFFICES ASSUME NEW f PROVE SumFunctionOnSet(f, {}) = 0
    OBVIOUS
  <1>1. PICK s : IsSum(s, f, SUBSET {}) /\ SumFunctionOnSet(f, {}) = s[{}]
    BY SumDefinition, FS_EmptySet
  <1>2. QED
    BY <1>1 DEF IsSum

\* A sum is a chosen summand and the sum of the others.
LEMMA SumPick ==
  ASSUME NEW S, IsFiniteSet(S), S # {}, NEW f
  PROVE  /\ Pick(S) \in S
         /\ SumFunctionOnSet(f, S) = f[Pick(S)] + SumFunctionOnSet(f, S \ {Pick(S)})
  <1> DEFINE C == S \ {Pick(S)}
  <1>1. Pick(S) \in S
    BY DEF Pick
  <1>2. IsFiniteSet(C) /\ C \in SUBSET S
    BY FS_RemoveElement
  <1>3. PICK s : IsSum(s, f, SUBSET S) /\ SumFunctionOnSet(f, S) = s[S]
    BY SumDefinition
  <1>4. PICK t : IsSum(t, f, SUBSET C) /\ SumFunctionOnSet(f, C) = t[C]
    BY <1>2, SumDefinition
  <1>5. s[C] = t[C]
    BY <1>2, <1>3, <1>4, SumUnique
  <1>6. s[S] = f[Pick(S)] + s[C]
    BY <1>3 DEF IsSum
  <1>7. QED
    BY <1>1, <1>3, <1>4, <1>5, <1>6

-----------------------------------------------------------------------------
\* A sum of integers is an integer, and any summand can be split off.
LEMMA SumSplit ==
  ASSUME NEW A, IsFiniteSet(A), NEW f, \A x \in A : f[x] \in Int
  PROVE  /\ SumFunctionOnSet(f, A) \in Int
         /\ \A x \in A : SumFunctionOnSet(f, A) = f[x] + SumFunctionOnSet(f, A \ {x})
  <1> DEFINE T(B) == SumFunctionOnSet(f, B)
             Good(B) == T(B) \in Int /\ \A x \in B : T(B) = f[x] + T(B \ {x})
             Bad == {B \in SUBSET A : ~ Good(B)}
  <1> SUFFICES ASSUME Bad # {} PROVE FALSE
    BY DEF Good
  <1>1. PICK B \in Bad : \A C \in Bad : C \subseteq B => C = B
    <2>1. Bad \subseteq SUBSET A
      OBVIOUS
    <2> HIDE DEF Bad
    <2>2. QED
      BY <2>1, MinimalSubset
  <1> DEFINE p == Pick(B)
             C == B \ {p}
  <1>2. B \in SUBSET A /\ IsFiniteSet(B) /\ ~ Good(B)
    BY FS_Subset
  <1>3. B # {}
    <2>1. T({}) = 0
      BY SumEmpty
    <2>2. Good({})
      BY <2>1
    <2> HIDE DEF T, Good
    <2>3. QED
      BY <1>2, <2>2
  <1>4. p \in B /\ T(B) = f[p] + T(C)
    BY <1>2, <1>3, SumPick
  <1> HIDE DEF p
  <1>5. \A D \in SUBSET B : D # B => Good(D)
    BY <1>1, <1>2
  <1>6. Good(C)
    BY <1>4, <1>5
  <1>7. T(B) \in Int
    BY <1>2, <1>4, <1>6
  <1>8. ASSUME NEW x \in B PROVE T(B) = f[x] + T(B \ {x})
    <2>1. CASE x = p
      BY <1>4, <2>1
    <2>2. CASE x # p
      <3>1. T(C) = f[x] + T(C \ {x}) /\ x \in C
        BY <1>6, <2>2
      <3>2. T(B \ {x}) = f[p] + T((B \ {x}) \ {p})
        BY <1>4, <1>5, <2>2
      <3>3. T((B \ {x}) \ {p}) = T(C \ {x})
        <4>1. (B \ {x}) \ {p} = C \ {x}
          OBVIOUS
        <4>2. QED
          BY <4>1
      <3>4. Good(C \ {x})
        BY <1>4, <1>5
      <3>5. f[p] \in Int /\ f[x] \in Int /\ T(C \ {x}) \in Int
        BY <1>2, <1>4, <3>4
      <3> HIDE DEF T, C
      <3>6. QED
        BY <1>4, <3>1, <3>2, <3>3, <3>5
    <2>3. QED
      BY <2>1, <2>2
  <1>9. QED
    BY <1>2, <1>7, <1>8

\* The sum of a function with integer values over a finite set is an integer.
LEMMA SumType ==
  ASSUME NEW A, IsFiniteSet(A), NEW f, \A x \in A : f[x] \in Int
  PROVE  SumFunctionOnSet(f, A) \in Int
  BY SumSplit

\* Summands combine: the sum of f + c * g is the sum of f plus c times that of g.
LEMMA SumCombine ==
  ASSUME NEW A, IsFiniteSet(A), NEW f, NEW g, NEW h, NEW c \in Int,
         \A x \in A : f[x] \in Int /\ g[x] \in Int /\ h[x] = f[x] + c * g[x]
  PROVE  SumFunctionOnSet(h, A) = SumFunctionOnSet(f, A) + c * SumFunctionOnSet(g, A)
  <1> DEFINE F(B) == SumFunctionOnSet(f, B)
             G(B) == SumFunctionOnSet(g, B)
             H(B) == SumFunctionOnSet(h, B)
             Bad == {B \in SUBSET A : H(B) # F(B) + c * G(B)}
  <1> SUFFICES ASSUME Bad # {} PROVE FALSE
    OBVIOUS
  <1>1. PICK B \in Bad : \A C \in Bad : C \subseteq B => C = B
    <2>1. Bad \subseteq SUBSET A
      OBVIOUS
    <2> HIDE DEF Bad
    <2>2. QED
      BY <2>1, MinimalSubset
  <1>2. B \in SUBSET A /\ IsFiniteSet(B) /\ H(B) # F(B) + c * G(B)
    BY FS_Subset
  <1>3. B # {}
    <2>1. F({}) = 0 /\ G({}) = 0 /\ H({}) = 0
      BY SumEmpty
    <2> HIDE DEF F, G, H
    <2>2. H({}) = F({}) + c * G({})
      BY <2>1
    <2>3. QED
      BY <1>2, <2>2
  <1>4. PICK x \in B : TRUE
    BY <1>3
  <1> DEFINE C == B \ {x}
  <1>5. C \in SUBSET A /\ IsFiniteSet(C) /\ H(C) = F(C) + c * G(C)
    BY <1>1, <1>2, FS_Subset
  <1>6. f[x] \in Int /\ g[x] \in Int /\ h[x] = f[x] + c * g[x]
    BY <1>2
  <1>7. \A y \in A : c * g[y] \in Int /\ h[y] \in Int
    OBVIOUS
  <1>8. F(B) = f[x] + F(C) /\ G(B) = g[x] + G(C) /\ H(B) = h[x] + H(C)
    <2>1. \A y \in B : f[y] \in Int /\ g[y] \in Int /\ h[y] \in Int
      BY <1>2, <1>7
    <2>2. QED
      BY <1>2, <2>1, SumSplit
  <1>9. F(C) \in Int /\ G(C) \in Int
    <2>1. \A y \in C : f[y] \in Int /\ g[y] \in Int
      BY <1>5
    <2>2. QED
      BY <1>5, <2>1, SumType
  <1> HIDE DEF F, G, H, C
  <1>10. H(B) = f[x] + c * g[x] + F(C) + c * G(C)
    BY <1>5, <1>6, <1>8, <1>9
  <1>11. c * (g[x] + G(C)) = c * g[x] + c * G(C)
    BY <1>6, <1>9
  <1>12. QED
    BY <1>2, <1>6, <1>8, <1>9, <1>10, <1>11

\* A sum depends on its summands only.
LEMMA SumSame ==
  ASSUME NEW A, IsFiniteSet(A), NEW f, NEW g,
         \A x \in A : f[x] \in Int /\ g[x] = f[x]
  PROVE  SumFunctionOnSet(g, A) = SumFunctionOnSet(f, A)
  <1>1. \A x \in A : f[x] \in Int /\ f[x] \in Int /\ g[x] = f[x] + 0 * f[x]
    OBVIOUS
  <1>2. SumFunctionOnSet(g, A) = SumFunctionOnSet(f, A) + 0 * SumFunctionOnSet(f, A)
    BY <1>1, SumCombine
  <1>3. QED
    BY <1>2, SumType

\* Where two functions differ in one place only, so do their sums.
LEMMA SumUpdate ==
  ASSUME NEW A, IsFiniteSet(A), NEW f, NEW g, NEW a \in A,
         \A x \in A : f[x] \in Int /\ g[x] \in Int,
         \A x \in A : x # a => g[x] = f[x]
  PROVE  SumFunctionOnSet(g, A) = SumFunctionOnSet(f, A) + (g[a] - f[a])
  <1> DEFINE C == A \ {a}
  <1>1. IsFiniteSet(C)
    BY FS_RemoveElement
  <1>2. \A x \in C : f[x] \in Int /\ g[x] = f[x]
    OBVIOUS
  <1> HIDE DEF C
  <1>3. SumFunctionOnSet(g, C) = SumFunctionOnSet(f, C) /\ SumFunctionOnSet(f, C) \in Int
    BY <1>1, <1>2, SumSame, SumType
  <1>4. /\ SumFunctionOnSet(f, A) = f[a] + SumFunctionOnSet(f, C)
        /\ SumFunctionOnSet(g, A) = g[a] + SumFunctionOnSet(g, C)
    BY SumSplit DEF C
  <1>5. QED
    BY <1>3, <1>4

\* A sum of zeros is zero, and no natural summand exceeds its sum.
LEMMA SumZero ==
  ASSUME NEW A, IsFiniteSet(A), NEW f, \A x \in A : f[x] = 0
  PROVE  SumFunctionOnSet(f, A) = 0
  <1>1. \A x \in A : f[x] \in Int /\ f[x] \in Int /\ f[x] = f[x] + 1 * f[x]
    OBVIOUS
  <1> DEFINE T == SumFunctionOnSet(f, A)
  <1>2. T = T + 1 * T
    BY <1>1, SumCombine
  <1>3. T \in Int
    BY <1>1, SumType
  <1> HIDE DEF T
  <1>4. T = 0
    BY <1>2, <1>3
  <1>5. QED
    BY <1>4 DEF T

\* The sum of a function with natural values is a natural number.
LEMMA SumOfNaturals ==
  ASSUME NEW A, IsFiniteSet(A), NEW f, \A x \in A : f[x] \in Nat
  PROVE  /\ SumFunctionOnSet(f, A) \in Nat
         /\ \A x \in A : f[x] <= SumFunctionOnSet(f, A)
  <1> DEFINE T(B) == SumFunctionOnSet(f, B)
             Bad == {B \in SUBSET A : T(B) \notin Nat}
  <1>i. \A B \in SUBSET A : T(B) \in Int /\ \A x \in B : T(B) = f[x] + T(B \ {x})
    <2> TAKE B \in SUBSET A
    <2>1. IsFiniteSet(B) /\ \A x \in B : f[x] \in Int
      BY FS_Subset
    <2>2. QED
      BY <2>1, SumSplit
  <1>e. T({}) = 0
    BY SumEmpty
  <1>1. \A B \in SUBSET A : T(B) \in Nat
    <2> HIDE DEF T
    <2> SUFFICES ASSUME Bad # {} PROVE FALSE
      OBVIOUS
    <2>1. PICK B \in Bad : \A C \in Bad : C \subseteq B => C = B
      <3>1. Bad \subseteq SUBSET A
        OBVIOUS
      <3> HIDE DEF Bad
      <3>2. QED
        BY <3>1, MinimalSubset
    <2>2. PICK x \in B : TRUE
      BY <1>e
    <2>3. T(B \ {x}) \in Nat
      BY <2>1, <2>2
    <2>4. T(B) = f[x] + T(B \ {x})
      BY <1>i
    <2>5. QED
      BY <2>3, <2>4
  <1> HIDE DEF T
  <1>2. ASSUME NEW x \in A PROVE f[x] <= T(A)
    <2>1. T(A) = f[x] + T(A \ {x}) /\ T(A \ {x}) \in Nat
      BY <1>i, <1>1
    <2>2. QED
      BY <2>1
  <1>3. QED
    BY <1>1, <1>2 DEF T

-----------------------------------------------------------------------------
(* Concatenations.                                                         *)

\* A set of sequences that holds the empty one and every concatenation of two of its
\* members holds the concatenation of any number of them.
LEMMA FlattenClosed ==
  ASSUME NEW C, <<>> \in C, \A a, b \in C : a \o b \in C,
         NEW n \in Nat, NEW ss \in [1..n -> C]
  PROVE  FlattenSeq(ss) \in C
  <1> DEFINE IsFlat(f, m) == f = [i \in 1..m |-> IF i = 1 THEN ss[i] ELSE f[i-1] \o ss[i]]
  <1>1. ss \in Seq(C) /\ Len(ss) = n
    OBVIOUS
  <1>2. CASE n = 0
    <2>1. ss = <<>>
      BY <1>1, <1>2
    <2>2. QED
      BY <1>1, <1>2, <2>1 DEF FlattenSeq
  <1>3. CASE n # 0
    <2>1. \E f : IsFlat(f, n)
      <3>1. SUFFICES ASSUME ~ \E f : IsFlat(f, n) PROVE FALSE
        OBVIOUS
      <3> DEFINE Bad == {m \in Nat : m >= 1 /\ m <= n /\ ~ \E f : IsFlat(f, m)}
      <3>2. Bad \subseteq Nat /\ n \in Bad
        <4> HIDE DEF IsFlat
        <4>1. n >= 1 /\ n <= n
          BY <1>3
        <4>2. QED
          BY <3>1, <4>1
      <3>3. PICK m \in Bad : \A k \in Bad : m <= k
        <4> HIDE DEF Bad
        <4>1. QED
          BY <3>2, LeastNatural
      <3>4. m \in Nat /\ m >= 1 /\ m <= n /\ ~ \E f : IsFlat(f, m)
        BY <3>3
      <3>5. m # 1
        <4>1. SUFFICES ASSUME m = 1 PROVE FALSE
          OBVIOUS
        <4>2. PICK f : f = [i \in 1..1 |-> ss[1]]
          OBVIOUS
        <4>3. IsFlat(f, 1)
          BY <4>2
        <4>4. QED
          BY <3>4, <4>1, <4>3
      <3>6. m - 1 \in Nat /\ m - 1 >= 1 /\ m - 1 <= n /\ m - 1 \notin Bad
        <4> HIDE DEF Bad
        <4>1. QED
          BY <3>3, <3>4, <3>5
      <3>7. PICK g : IsFlat(g, m - 1)
        BY <3>6
      <3>8. PICK f : f = [i \in 1..m |-> IF i = m THEN g[m-1] \o ss[m] ELSE g[i]]
        OBVIOUS
      <3>9. \A i \in 1..m : f[i] = IF i = 1 THEN ss[i] ELSE f[i-1] \o ss[i]
        <4> TAKE i \in 1..m
        <4>1. CASE i = m
          <5>1. i # 1 /\ i - 1 \in 1..m /\ i - 1 # m
            BY <3>4, <3>5, <4>1
          <5>2. f[i-1] = g[i-1] /\ f[i] = g[m-1] \o ss[m]
            BY <3>8, <4>1, <5>1
          <5>3. QED
            BY <4>1, <5>1, <5>2
        <4>2. CASE i # m
          <5>1. i \in 1..(m-1)
            BY <3>4, <4>2
          <5>2. g[i] = IF i = 1 THEN ss[i] ELSE g[i-1] \o ss[i]
            BY <3>7, <5>1
          <5>3. f[i] = g[i] /\ (i # 1 => f[i-1] = g[i-1])
            BY <3>4, <3>8, <4>2, <5>1
          <5>4. QED
            BY <5>2, <5>3
        <4>3. QED
          BY <4>1, <4>2
      <3>10. IsFlat(f, m)
        BY <3>8, <3>9
      <3>11. QED
        BY <3>4, <3>10
    <2> DEFINE flat == CHOOSE f : IsFlat(f, n)
    <2>2. IsFlat(flat, n)
      BY <2>1
    <2>3. FlattenSeq(ss) = flat[n]
      BY <1>1, <1>3 DEF FlattenSeq
    <2> HIDE DEF flat
    <2>4. \A i \in 1..n : flat[i] = IF i = 1 THEN ss[i] ELSE flat[i-1] \o ss[i]
      BY <2>2
    <2>5. \A i \in 1..n : flat[i] \in C
      <3>1. SUFFICES ASSUME NEW j \in 1..n, flat[j] \notin C PROVE FALSE
        OBVIOUS
      <3> DEFINE Bad == {m \in 1..n : flat[m] \notin C}
      <3>2. PICK m \in Bad : \A k \in Bad : m <= k
        <4>1. Bad \subseteq Nat /\ Bad # {}
          BY <3>1
        <4> HIDE DEF Bad
        <4>2. QED
          BY <4>1, LeastNatural
      <3>3. m \in 1..n /\ flat[m] \notin C
        BY <3>2
      <3>4. m # 1
        BY <2>4, <3>3
      <3>5. m - 1 \in 1..n
        BY <3>3, <3>4
      <3>6. flat[m - 1] \in C
        BY <3>2, <3>3, <3>5
      <3>7. flat[m] = flat[m-1] \o ss[m] /\ ss[m] \in C
        BY <2>4, <3>3, <3>4
      <3>8. QED
        BY <3>3, <3>6, <3>7
    <2>6. QED
      BY <1>3, <2>3, <2>5
  <1>4. QED
    BY <1>2, <1>3
=============================================================================
