----------------------------- MODULE SetLemmas -----------------------------
(***************************************************************************)
(* What the proofs of several modules need to know of sets: least and      *)
(* greatest elements, which Min and Max of FiniteSetsExt choose; sums,     *)
(* which its MapThenSumSet computes by recursion over the subsets of a set;*)
(* ranks; and listings in an order.  Induction is by way of the least      *)
(* counterexample.                                                         *)
(***************************************************************************)
EXTENDS Integers, Sequences, FiniteSetsExt, FiniteSetTheorems, WellFoundedInduction, TLAPS

\* A set of natural numbers that is not empty has a least element.
LEMMA LeastExists ==
  ASSUME NEW S \in SUBSET Nat, S # {}
  PROVE  \E x \in S : \A y \in S : x <= y
<1> DEFINE R == OpToRel(<, Nat)
<1>1. IsWellFoundedOn(R, Nat)
  BY NatLessThanWellFounded, Zenon
<1>2. \A x \in S, y \in S : <<y, x>> \in R <=> y < x
  BY DEF OpToRel
<1> HIDE DEF R
<1>3. \E x \in S : \A y \in S : ~(<<y, x>> \in R)
  BY <1>1, WFMin
<1>4. \A x \in S, y \in S : ~(y < x) => x <= y
  <2>1. \A x \in S : x \in Nat
    OBVIOUS
  <2> QED BY <2>1
<1> QED BY <1>2, <1>3, <1>4

\* Min(S) is that element.
LEMMA MinIsLeast ==
  ASSUME NEW S \in SUBSET Nat, S # {}
  PROVE  Min(S) \in S /\ \A y \in S : Min(S) <= y
BY LeastExists DEF Min

\* Max(S) is the greatest element of a set with an upper bound.
LEMMA MaxIsGreatest ==
  ASSUME NEW S \in SUBSET Nat, S # {}, NEW b \in Nat, \A y \in S : y <= b
  PROVE  Max(S) \in S /\ \A y \in S : Max(S) >= y
<1> DEFINE T == {b - y : y \in S}
<1>1. T \in SUBSET Nat /\ T # {}
  <2>1. \A y \in S : y \in Nat /\ b - y \in Nat
    OBVIOUS
  <2> QED BY <2>1
<1>2. PICK m \in T : \A z \in T : m <= z
  BY <1>1, LeastExists
<1>3. PICK x \in S : m = b - x
  BY <1>2
<1>4. \A y \in S : b - x <= b - y
  BY <1>2, <1>3
<1>5. \A y \in S : x >= y
  BY <1>4
<1> QED BY <1>5 DEF Max

-----------------------------------------------------------------------------
(* Induction and recursion over finite sets. *)

\* Induction over the natural numbers, for a set of them.
LEMMA InductiveSet ==
  ASSUME NEW S \in SUBSET Nat, 0 \in S, \A n \in S : n + 1 \in S
  PROVE  \A n \in Nat : n \in S
<1> SUFFICES ASSUME NEW n \in Nat, n \notin S
             PROVE  FALSE
  OBVIOUS
<1>1. PICK m \in Nat \ S : \A k \in Nat \ S : m <= k
  BY LeastExists
<1>2. m - 1 \in Nat
  BY <1>1
<1>3. m - 1 \in S
  BY <1>1, <1>2
<1> QED BY <1>1, <1>3

\* Recursion over the natural numbers.
StepsBy(F, base, n, g) ==
  g[0] = base /\ \A k \in 0..n : k < n => g[k + 1] = F[<<k, g[k]>>]

LEMMA StepsAgree ==
  ASSUME NEW F, NEW base, NEW m \in Nat, NEW n \in Nat, m <= n, NEW f, NEW g,
         StepsBy(F, base, m, f), StepsBy(F, base, n, g)
  PROVE  f[m] = g[m]
<1> DEFINE N == {k \in Nat : k <= m => f[k] = g[k]}
<1>1. 0 \in N
  BY DEF StepsBy
<1>2. ASSUME NEW k \in N
      PROVE  k + 1 \in N
  <2>1. k + 1 <= m => k <= m /\ k \in 0..m /\ k < m /\ k \in 0..n /\ k < n
    OBVIOUS
  <2>2. k + 1 <= m => f[k + 1] = g[k + 1]
    BY <2>1 DEF StepsBy
  <2> QED BY <2>2
<1>3. N \in SUBSET Nat
  OBVIOUS
<1> HIDE DEF N
<1>4. m \in N
  BY <1>1, <1>2, <1>3, InductiveSet
<1> QED BY <1>4 DEF N

Recurses(F, base, g) == g[0] = base /\ \A n \in Nat : g[n + 1] = F[<<n, g[n]>>]

LEMMA RecursionExists ==
  ASSUME NEW V, NEW base \in V, NEW F \in [Nat \X V -> V]
  PROVE  \E g \in [Nat -> V] : Recurses(F, base, g)
<1> DEFINE N == {n \in Nat : \E g \in [0..n -> V] : StepsBy(F, base, n, g)}
<1>1. 0 \in N
  <2>1. StepsBy(F, base, 0, [k \in 0..0 |-> base])
    BY DEF StepsBy
  <2> QED BY <2>1
<1>2. ASSUME NEW n \in N
      PROVE  n + 1 \in N
  <2>1. PICK g \in [0..n -> V] : StepsBy(F, base, n, g)
    OBVIOUS
  <2> DEFINE g2 == [k \in 0..n + 1 |-> IF k = n + 1 THEN F[<<n, g[n]>>] ELSE g[k]]
  <2>2. g[n] \in V
    BY <2>1
  <2>3. F[<<n, g[n]>>] \in V
    BY <2>2
  <2>4. g2 \in [0..n + 1 -> V]
    BY <2>1, <2>3
  <2>5. StepsBy(F, base, n + 1, g2)
    <3>1. g2[0] = g[0]
      OBVIOUS
    <3>2. ASSUME NEW k \in 0..n + 1, k < n + 1
          PROVE  g2[k + 1] = F[<<k, g2[k]>>]
      <4>1. k \in 0..n /\ g2[k] = g[k]
        BY <3>2
      <4>2. CASE k = n
        BY <4>1, <4>2
      <4>3. CASE k # n
        <5>1. k < n /\ k + 1 \in 0..n + 1 /\ k + 1 # n + 1
          BY <4>1, <4>3
        <5>2. g2[k + 1] = g[k + 1]
          BY <5>1
        <5> QED BY <2>1, <4>1, <5>1, <5>2 DEF StepsBy
      <4> QED BY <4>2, <4>3
    <3> QED BY <2>1, <3>1, <3>2 DEF StepsBy
  <2>6. n + 1 \in Nat
    OBVIOUS
  <2> QED BY <2>4, <2>5, <2>6
<1>3. N \in SUBSET Nat
  OBVIOUS
<1>4. ASSUME NEW n \in Nat
      PROVE  \E g \in [0..n -> V] : StepsBy(F, base, n, g)
  <2> HIDE DEF N
  <2>1. n \in N
    BY <1>1, <1>2, <1>3, InductiveSet
  <2> QED BY <2>1 DEF N
<1> DEFINE part(n) == CHOOSE g \in [0..n -> V] : StepsBy(F, base, n, g)
           all == [n \in Nat |-> part(n)[n]]
<1>5. \A n \in Nat : part(n) \in [0..n -> V] /\ StepsBy(F, base, n, part(n))
  BY <1>4
<1> HIDE DEF part
<1>6. all \in [Nat -> V]
  BY <1>5
<1>7. all[0] = base
  BY <1>5 DEF StepsBy
<1>8. ASSUME NEW n \in Nat
      PROVE  all[n + 1] = F[<<n, all[n]>>]
  <2>1. n + 1 \in Nat /\ n \in 0..n + 1 /\ n < n + 1 /\ n <= n + 1
    OBVIOUS
  <2>2. part(n + 1)[n + 1] = F[<<n, part(n + 1)[n]>>]
    BY <1>5, <2>1 DEF StepsBy
  <2>3. part(n)[n] = part(n + 1)[n]
    BY <1>5, <2>1, StepsAgree
  <2> QED BY <2>1, <2>2, <2>3
<1> QED BY <1>6, <1>7, <1>8 DEF Recurses

\* Taking an element out of a finite set.
LEMMA OneLess ==
  ASSUME NEW S, IsFiniteSet(S), NEW x \in S
  PROVE  /\ IsFiniteSet(S \ {x}) /\ Cardinality(S) \in Nat /\ Cardinality(S) >= 1
         /\ Cardinality(S \ {x}) = Cardinality(S) - 1
<1>1. IsFiniteSet(S \ {x}) /\ Cardinality(S \ {x}) = Cardinality(S) - 1
  BY FS_RemoveElement
<1>2. Cardinality(S \ {x}) \in Nat /\ Cardinality(S) \in Nat
  BY <1>1, FS_CardinalityType
<1> QED BY <1>1, <1>2

\* g folds F over the subsets of S, the element h[s] first.
IsFold(S, base, F, h, g) ==
  \A s \in SUBSET S : g[s] = IF s = {} THEN base ELSE F[<<h[s], g[s \ {h[s]}]>>]

ChoosesIn(S, h) == \A s \in SUBSET S : s # {} => h[s] \in s

\* Recursion over the subsets of a finite set, one element chosen at a time.
LEMMA FoldExists ==
  ASSUME NEW S, IsFiniteSet(S), NEW V, NEW base \in V, NEW F \in [S \X V -> V],
         NEW h, ChoosesIn(S, h)
  PROVE  \E g \in [SUBSET S -> V] : IsFold(S, base, F, h, g)
<1> DEFINE D(n) == {s \in SUBSET S : Cardinality(s) <= n}
           Rec(s, g) == IF s = {} THEN base ELSE F[<<h[s], g[s \ {h[s]}]>>]
           N == {n \in Nat : \E g \in [D(n) -> V] : \A s \in D(n) : g[s] = Rec(s, g)}
<1>1. ASSUME NEW s \in SUBSET S
      PROVE  IsFiniteSet(s) /\ Cardinality(s) \in Nat /\ (Cardinality(s) = 0 <=> s = {})
  BY FS_Subset, FS_CardinalityType, FS_EmptySet
<1>2. 0 \in N
  <2>1. \A s \in D(0) : s = {}
    BY <1>1
  <2>2. [s \in D(0) |-> base] \in [D(0) -> V]
    OBVIOUS
  <2>3. \A s \in D(0) : [t \in D(0) |-> base][s] = Rec(s, [t \in D(0) |-> base])
    BY <2>1
  <2> QED BY <2>2, <2>3
<1>3. ASSUME NEW n \in N
      PROVE  n + 1 \in N
  <2>1. PICK g \in [D(n) -> V] : \A s \in D(n) : g[s] = Rec(s, g)
    OBVIOUS
  <2> DEFINE g2 == [s \in D(n + 1) |-> Rec(s, g)]
  <2>2. ASSUME NEW s \in D(n + 1), s # {}
        PROVE  h[s] \in S /\ s \ {h[s]} \in D(n) /\ s \ {h[s]} \in D(n + 1)
    <3>1. s \in SUBSET S /\ h[s] \in s /\ Cardinality(s) <= n + 1
      BY <2>2 DEF ChoosesIn
    <3>2. IsFiniteSet(s)
      BY <1>1, <3>1
    <3>3. Cardinality(s) \in Nat /\ Cardinality(s \ {h[s]}) = Cardinality(s) - 1
      BY <3>1, <3>2, OneLess
    <3>4. Cardinality(s \ {h[s]}) <= n /\ Cardinality(s \ {h[s]}) <= n + 1
      BY <3>1, <3>3
    <3> QED BY <3>1, <3>4
  <2>3. ASSUME NEW s \in D(n + 1)
        PROVE  Rec(s, g) \in V
    <3>1. CASE s = {}
      BY <3>1
    <3>2. CASE s # {}
      <4>1. g[s \ {h[s]}] \in V
        BY <2>1, <2>2, <3>2
      <4> QED BY <2>2, <3>2, <4>1
    <3> QED BY <3>1, <3>2
  <2>4. g2 \in [D(n + 1) -> V]
    BY <2>3
  <2>5. ASSUME NEW s \in D(n + 1)
        PROVE  g2[s] = Rec(s, g2)
    <3>1. CASE s = {}
      BY <3>1
    <3>2. CASE s # {}
      <4>1. g2[s \ {h[s]}] = g[s \ {h[s]}]
        BY <2>1, <2>2, <3>2
      <4> QED BY <3>2, <4>1
    <3> QED BY <3>1, <3>2
  <2>6. \E k \in [D(n + 1) -> V] : \A s \in D(n + 1) : k[s] = Rec(s, k)
    BY <2>4, <2>5
  <2>7. n + 1 \in Nat
    OBVIOUS
  <2> QED BY <2>6, <2>7
<1>4. Cardinality(S) \in N
  <2>1. Cardinality(S) \in Nat
    BY FS_CardinalityType
  <2>2. N \in SUBSET Nat
    OBVIOUS
  <2> HIDE DEF N
  <2> QED BY <1>2, <1>3, <2>1, <2>2, InductiveSet
<1>5. D(Cardinality(S)) = SUBSET S
  <2>1. \A s \in SUBSET S : Cardinality(s) <= Cardinality(S)
    BY FS_Subset
  <2> QED BY <2>1
<1> QED BY <1>4, <1>5 DEF IsFold

-----------------------------------------------------------------------------
(* Sums. *)

\* The sum of f over a set, as MapThenSumSet defines it, and the function of subsets by
\* which it does.
Total(f, S) == MapThenSumSet(LAMBDA x : f[x], S)

Pick(s) == CHOOSE x \in s : TRUE

AreTotals(f, S, g) ==
  g = [s \in SUBSET S |-> IF s = {} THEN 0 ELSE f[Pick(s)] + g[s \ {Pick(s)}]]

Totals(f, S) == CHOOSE g : AreTotals(f, S, g)

LEMMA TotalUnfolds ==
  ASSUME NEW f, NEW S
  PROVE  Total(f, S) = Totals(f, S)[S]
BY DEF Total, Totals, AreTotals, Pick, MapThenSumSet, MapThenFoldSet

LEMMA TotalsAgree ==
  ASSUME NEW f, NEW S, IsFiniteSet(S), NEW T \in SUBSET S, NEW g, AreTotals(f, S, g),
         NEW k, AreTotals(f, T, k)
  PROVE  \A s \in SUBSET T : g[s] = k[s]
<1> DEFINE bad == {s \in SUBSET T : g[s] # k[s]}
<1> SUFFICES ASSUME bad # {}
             PROVE  FALSE
  OBVIOUS
<1>1. ASSUME NEW s \in SUBSET T
      PROVE  IsFiniteSet(s) /\ Cardinality(s) \in Nat
  BY FS_Subset, FS_CardinalityType
<1>2. {Cardinality(s) : s \in bad} \in SUBSET Nat /\ {Cardinality(s) : s \in bad} # {}
  BY <1>1
<1>3. PICK s \in bad : \A t \in bad : Cardinality(s) <= Cardinality(t)
  <2>1. PICK n \in {Cardinality(s) : s \in bad} : \A m \in {Cardinality(s) : s \in bad} : n <= m
    BY <1>2, LeastExists
  <2> QED BY <2>1
<1>4. /\ g[s] = IF s = {} THEN 0 ELSE f[Pick(s)] + g[s \ {Pick(s)}]
      /\ k[s] = IF s = {} THEN 0 ELSE f[Pick(s)] + k[s \ {Pick(s)}]
  <2>1. s \in SUBSET S /\ s \in SUBSET T
    OBVIOUS
  <2> QED BY <2>1 DEF AreTotals
<1>5. s # {}
  BY <1>4
<1>6. Pick(s) \in s
  BY <1>5 DEF Pick
<1>7. /\ Cardinality(s) \in Nat /\ s \ {Pick(s)} \in SUBSET T
      /\ Cardinality(s \ {Pick(s)}) = Cardinality(s) - 1
  BY <1>1, <1>6, OneLess
<1>8. s \ {Pick(s)} \notin bad
  BY <1>3, <1>7
<1> QED BY <1>4, <1>5, <1>7, <1>8

LEMMA TotalsExist ==
  ASSUME NEW D, NEW f \in [D -> Nat], NEW S \in SUBSET D, IsFiniteSet(S)
  PROVE  AreTotals(f, S, Totals(f, S)) /\ Totals(f, S) \in [SUBSET S -> Nat]
<1> DEFINE h == [s \in SUBSET S |-> Pick(s)]
           F == [p \in S \X Nat |-> f[p[1]] + p[2]]
<1>1. ChoosesIn(S, h)
  BY DEF Pick, ChoosesIn
<1>2. F \in [S \X Nat -> Nat] /\ 0 \in Nat
  OBVIOUS
<1>3. \A x \in S, n \in Nat : F[<<x, n>>] = f[x] + n
  OBVIOUS
<1>4. \A s \in SUBSET S : h[s] = Pick(s)
  OBVIOUS
<1> HIDE DEF h, F
<1>5. PICK g \in [SUBSET S -> Nat] : IsFold(S, 0, F, h, g)
  BY <1>1, <1>2, FoldExists
<1>6. ASSUME NEW s \in SUBSET S
      PROVE  g[s] = IF s = {} THEN 0 ELSE f[Pick(s)] + g[s \ {Pick(s)}]
  <2>1. CASE s # {}
    <3>1. Pick(s) \in S /\ s \ {Pick(s)} \in SUBSET S /\ h[s] = Pick(s)
      BY <1>1, <1>4, <2>1 DEF ChoosesIn
    <3>2. g[s \ {Pick(s)}] \in Nat
      BY <3>1
    <3>3. g[s] = F[<<Pick(s), g[s \ {Pick(s)}]>>]
      BY <1>5, <2>1, <3>1 DEF IsFold
    <3> QED BY <1>3, <2>1, <3>1, <3>2, <3>3
  <2> QED BY <1>5, <2>1 DEF IsFold
<1>7. AreTotals(f, S, g)
  BY <1>6 DEF AreTotals
<1>8. AreTotals(f, S, Totals(f, S))
  BY <1>7 DEF Totals
<1>9. DOMAIN Totals(f, S) = SUBSET S /\ Totals(f, S) = [s \in SUBSET S |-> Totals(f, S)[s]]
  BY <1>8 DEF AreTotals
<1>10. \A s \in SUBSET S : Totals(f, S)[s] = g[s]
  BY <1>7, <1>8, TotalsAgree
<1> QED BY <1>8, <1>9, <1>10

LEMMA TotalEmpty ==
  ASSUME NEW D, NEW f \in [D -> Nat]
  PROVE  Total(f, {}) = 0
<1>1. AreTotals(f, {}, Totals(f, {}))
  BY TotalsExist, FS_EmptySet
<1> QED BY <1>1, TotalUnfolds DEF AreTotals

LEMMA TotalType ==
  ASSUME NEW D, NEW f \in [D -> Nat], NEW S \in SUBSET D, IsFiniteSet(S)
  PROVE  Total(f, S) \in Nat
<1>1. Totals(f, S) \in [SUBSET S -> Nat]
  BY TotalsExist
<1> QED BY <1>1, TotalUnfolds

LEMMA TotalPicks ==
  ASSUME NEW D, NEW f \in [D -> Nat], NEW S \in SUBSET D, IsFiniteSet(S), S # {}
  PROVE  Pick(S) \in S /\ Total(f, S) = f[Pick(S)] + Total(f, S \ {Pick(S)})
<1>1. Pick(S) \in S
  BY DEF Pick
<1> DEFINE T == S \ {Pick(S)}
<1>2. IsFiniteSet(T) /\ T \in SUBSET S /\ T \in SUBSET D
  BY FS_Subset
<1>3. AreTotals(f, S, Totals(f, S)) /\ AreTotals(f, T, Totals(f, T))
  BY <1>2, TotalsExist
<1>4. Totals(f, S)[S] = f[Pick(S)] + Totals(f, S)[T]
  BY <1>3 DEF AreTotals
<1> HIDE DEF T
<1>5. Totals(f, S)[T] = Totals(f, T)[T]
  <2>1. \A s \in SUBSET T : Totals(f, S)[s] = Totals(f, T)[s]
    BY <1>2, <1>3, TotalsAgree
  <2> QED BY <2>1
<1> QED BY <1>1, <1>4, <1>5, TotalUnfolds DEF T

\* The sum is one of a set: it does not matter which element is counted first.
LEMMA TotalAdd ==
  ASSUME NEW D, NEW f \in [D -> Nat], NEW S \in SUBSET D, IsFiniteSet(S), NEW x \in D \ S
  PROVE  Total(f, S \cup {x}) = f[x] + Total(f, S)
<1> DEFINE Holds(n) == \A T \in SUBSET D : IsFiniteSet(T) /\ Cardinality(T) = n =>
                         \A y \in D \ T : Total(f, T \cup {y}) = f[y] + Total(f, T)
           N == {n \in Nat : Holds(n)}
<1>1. ASSUME NEW T \in SUBSET D, IsFiniteSet(T), NEW y \in D \ T,
             \A U \in SUBSET D : IsFiniteSet(U) /\ Cardinality(U) = Cardinality(T) - 1 =>
               \A z \in D \ U : Total(f, U \cup {z}) = f[z] + Total(f, U)
      PROVE  Total(f, T \cup {y}) = f[y] + Total(f, T)
  <2> DEFINE z == Pick(T \cup {y})
  <2>1. IsFiniteSet(T \cup {y})
    BY <1>1, FS_AddElement
  <2>2. z \in T \cup {y} /\ Total(f, T \cup {y}) = f[z] + Total(f, (T \cup {y}) \ {z})
    <3>1. T \cup {y} \in SUBSET D /\ T \cup {y} # {}
      OBVIOUS
    <3> HIDE DEF z
    <3> QED BY <2>1, <3>1, TotalPicks DEF z
  <2> HIDE DEF z
  <2>3. CASE z = y
    BY <2>2, <2>3
  <2>4. CASE z # y
    <3> DEFINE U == T \ {z}
    <3>1. z \in T /\ z \in D \ U /\ y \in D \ U
      BY <2>2, <2>4
    <3>2. U \in SUBSET D /\ IsFiniteSet(U) /\ Cardinality(U) = Cardinality(T) - 1
      BY <1>1, <3>1, OneLess
    <3>3. (T \cup {y}) \ {z} = U \cup {y} /\ T = U \cup {z}
      BY <3>1, <2>4
    <3> HIDE DEF U
    <3>4. Total(f, U \cup {y}) = f[y] + Total(f, U) /\ Total(f, U \cup {z}) = f[z] + Total(f, U)
      BY <1>1, <3>1, <3>2
    <3>5. Total(f, U) \in Nat /\ f[y] \in Nat /\ f[z] \in Nat
      BY <3>1, <3>2, TotalType
    <3>6. Total(f, T \cup {y}) = f[z] + (f[y] + Total(f, U)) /\ Total(f, T) = f[z] + Total(f, U)
      BY <2>2, <3>3, <3>4
    <3> QED BY <3>5, <3>6
  <2> QED BY <2>3, <2>4
<1>2. 0 \in N
  <2>1. ASSUME NEW T \in SUBSET D, IsFiniteSet(T), Cardinality(T) = 0, NEW y \in D \ T
        PROVE  Total(f, T \cup {y}) = f[y] + Total(f, T)
    <3>1. \A U : IsFiniteSet(U) => Cardinality(U) \in Nat
      BY FS_CardinalityType
    <3>2. \A U \in SUBSET D : ~(IsFiniteSet(U) /\ Cardinality(U) = Cardinality(T) - 1)
      BY <2>1, <3>1
    <3> QED BY <1>1, <2>1, <3>2
  <2> QED BY <2>1
<1>3. ASSUME NEW n \in N
      PROVE  n + 1 \in N
  <2>1. ASSUME NEW T \in SUBSET D, IsFiniteSet(T), Cardinality(T) = n + 1, NEW y \in D \ T
        PROVE  Total(f, T \cup {y}) = f[y] + Total(f, T)
    <3>1. n \in Nat /\ Cardinality(T) - 1 = n
      BY <2>1
    <3> QED BY <1>1, <2>1, <3>1
  <2>2. n + 1 \in Nat
    OBVIOUS
  <2> QED BY <2>1, <2>2
<1>4. Cardinality(S) \in Nat
  BY FS_CardinalityType
<1>5. N \in SUBSET Nat
  OBVIOUS
<1> HIDE DEF N
<1>6. Cardinality(S) \in N
  BY <1>2, <1>3, <1>4, <1>5, InductiveSet
<1> QED BY <1>6 DEF N

LEMMA TotalRemove ==
  ASSUME NEW D, NEW f \in [D -> Nat], NEW S \in SUBSET D, IsFiniteSet(S), NEW x \in S
  PROVE  Total(f, S \ {x}) = Total(f, S) - f[x]
<1>1. IsFiniteSet(S \ {x}) /\ S \ {x} \in SUBSET D /\ x \in D \ (S \ {x})
      /\ (S \ {x}) \cup {x} = S
  BY FS_Subset
<1>2. Total(f, S) = f[x] + Total(f, S \ {x})
  BY <1>1, TotalAdd
<1>3. Total(f, S \ {x}) \in Nat /\ f[x] \in Nat
  BY <1>1, TotalType
<1> QED BY <1>2, <1>3
-----------------------------------------------------------------------------
(* Ranks in a finite set of integers: its elements are numbered from one, in *)
(* increasing order and without gaps.                                        *)

Rank(S, x) == Cardinality({y \in S : y <= x})

LEMMA RankInRange ==
  ASSUME NEW S \in SUBSET Int, IsFiniteSet(S), NEW x \in S
  PROVE  Cardinality(S) \in Nat /\ Rank(S, x) \in 1..Cardinality(S)
<1> DEFINE T == {y \in S : y <= x}
<1>1. IsFiniteSet(T) /\ T \in SUBSET S /\ x \in T
  BY FS_Subset
<1>2. Cardinality(S) \in Nat
  BY FS_CardinalityType
<1>3. Rank(S, x) = Cardinality(T)
  BY DEF Rank
<1> HIDE DEF T
<1>4. Cardinality(T) \in Nat /\ Cardinality(T) # 0
  BY <1>1, FS_CardinalityType, FS_EmptySet
<1>5. Cardinality(T) <= Cardinality(S)
  BY <1>1, FS_Subset
<1> QED BY <1>2, <1>3, <1>4, <1>5

LEMMA RankRises ==
  ASSUME NEW S \in SUBSET Int, IsFiniteSet(S), NEW x \in S, NEW y \in S, x < y
  PROVE  Rank(S, x) # Rank(S, y)
<1> DEFINE T == {z \in S : z <= x}
           U == {z \in S : z <= y}
<1>1. \A z \in S : z \in Int
  OBVIOUS
<1>2. IsFiniteSet(U)
  BY FS_Subset
<1>3. T \in SUBSET U
  <2>1. \A z \in S : z <= x => z <= y
    BY <1>1
  <2> QED BY <2>1
<1>4. y \in U /\ y \notin T
  BY <1>1
<1>5. Rank(S, x) = Cardinality(T) /\ Rank(S, y) = Cardinality(U)
  BY DEF Rank
<1> HIDE DEF T, U
<1>6. Cardinality(T) # Cardinality(U)
  BY <1>2, <1>3, <1>4, FS_Subset
<1> QED BY <1>5, <1>6

LEMMA RankInjective ==
  ASSUME NEW S \in SUBSET Int, IsFiniteSet(S), NEW x \in S, NEW y \in S,
         Rank(S, x) = Rank(S, y)
  PROVE  x = y
<1>1. x \in Int /\ y \in Int
  OBVIOUS
<1>2. ~(x < y) /\ ~(y < x)
  BY RankRises
<1> QED BY <1>1, <1>2

\* As many values as elements, all different: every value is taken.
LEMMA AllTaken ==
  ASSUME NEW S, IsFiniteSet(S), NEW f \in [S -> 1..Cardinality(S)],
         \A x, y \in S : f[x] = f[y] => x = y, NEW k \in 1..Cardinality(S)
  PROVE  \E x \in S : f[x] = k
<1> SUFFICES ASSUME \A x \in S : f[x] # k
             PROVE  FALSE
  OBVIOUS
<1> DEFINE n == Cardinality(S)
           T == (1..n) \ {k}
<1>1. n \in Nat
  BY FS_CardinalityType
<1>2. IsFiniteSet(1..n) /\ Cardinality(1..n) = n
  <2>1. n > 0
    BY <1>1
  <2> HIDE DEF n
  <2>2. IsFiniteSet(1..n) /\ Cardinality(1..n) = IF 1 > n THEN 0 ELSE n - 1 + 1
    BY <1>1, FS_Interval
  <2> QED BY <1>1, <2>1, <2>2
<1>3. IsFiniteSet(T) /\ Cardinality(T) = n - 1
  <2>1. k \in 1..n
    OBVIOUS
  <2> HIDE DEF n
  <2> QED BY <1>2, <2>1, FS_RemoveElement
<1>4. f \in [S -> T]
  OBVIOUS
<1> HIDE DEF T
<1>5. Cardinality(T) < Cardinality(S)
  BY <1>1, <1>3
<1>6. \E x, y \in S : x # y /\ f[x] = f[y]
  BY <1>1, <1>3, <1>4, <1>5, FS_PigeonHole
<1> QED BY <1>6

LEMMA RankSurjective ==
  ASSUME NEW S \in SUBSET Int, IsFiniteSet(S), NEW k \in 1..Cardinality(S)
  PROVE  \E x \in S : Rank(S, x) = k
<1> DEFINE f == [x \in S |-> Rank(S, x)]
<1>1. f \in [S -> 1..Cardinality(S)]
  BY RankInRange
<1>2. \A x, y \in S : f[x] = f[y] => x = y
  BY RankInjective
<1> HIDE DEF f
<1>3. \E x \in S : f[x] = k
  BY <1>1, <1>2, AllTaken
<1> QED BY <1>3 DEF f

-----------------------------------------------------------------------------
(* The image of a finite set under a function.                              *)

LEMMA ImageSize ==
  ASSUME NEW S, IsFiniteSet(S), NEW f, f = [x \in S |-> f[x]], NEW T, T = {f[x] : x \in S}
  PROVE  /\ IsFiniteSet(T) /\ Cardinality(T) <= Cardinality(S)
         /\ (\A x, y \in S : f[x] = f[y] => x = y) => Cardinality(T) = Cardinality(S)
<1>1. f \in [S -> T] /\ \A t \in T : \E x \in S : f[x] = t
  OBVIOUS
<1>2. f \in Surjection(S, T)
  BY <1>1 DEF Surjection
<1>3. /\ IsFiniteSet(T) /\ Cardinality(T) <= Cardinality(S)
      /\ Cardinality(T) = Cardinality(S) <=> f \in Injection(S, T)
  BY <1>2, FS_Surjection
<1>4. (\A x, y \in S : f[x] = f[y] => x = y) => f \in Injection(S, T)
  BY <1>1 DEF Injection, IsInjective
<1> QED BY <1>3, <1>4

-----------------------------------------------------------------------------
(* Places in a finite set that a relation orders: one element has none      *)
(* before it, one has one, and so on.                                       *)

Orders(R, S) ==
  /\ \A x \in S : <<x, x>> \notin R
  /\ \A x, y \in S : x = y \/ <<x, y>> \in R \/ <<y, x>> \in R
  /\ \A x, y, z \in S : <<x, y>> \in R /\ <<y, z>> \in R => <<x, z>> \in R

Ahead(R, S, x) == {y \in S : <<y, x>> \in R}

LEMMA AheadIsFinite ==
  ASSUME NEW S, IsFiniteSet(S), NEW R, Orders(R, S), NEW x \in S
  PROVE  /\ IsFiniteSet(Ahead(R, S, x)) /\ Cardinality(Ahead(R, S, x)) \in Nat
         /\ Cardinality(S) \in Nat /\ Cardinality(Ahead(R, S, x)) < Cardinality(S)
<1> DEFINE T == Ahead(R, S, x)
<1>1. T \in SUBSET S /\ x \notin T
  BY DEF Ahead, Orders
<1> HIDE DEF T
<1>2. T # S
  BY <1>1
<1>3. IsFiniteSet(T) /\ Cardinality(T) <= Cardinality(S) /\ Cardinality(T) # Cardinality(S)
  BY <1>1, <1>2, FS_Subset
<1>4. Cardinality(T) \in Nat /\ Cardinality(S) \in Nat
  BY <1>3, FS_CardinalityType
<1> QED BY <1>3, <1>4 DEF T

LEMMA AheadGrows ==
  ASSUME NEW S, IsFiniteSet(S), NEW R, Orders(R, S), NEW x \in S, NEW y \in S
  PROVE  <<x, y>> \in R <=> Cardinality(Ahead(R, S, x)) < Cardinality(Ahead(R, S, y))
<1>1. ASSUME NEW a \in S, NEW b \in S, <<a, b>> \in R
      PROVE  Cardinality(Ahead(R, S, a)) < Cardinality(Ahead(R, S, b))
  <2> DEFINE T == Ahead(R, S, a)
             U == Ahead(R, S, b)
  <2>1. T \in SUBSET U /\ a \in U /\ a \notin T
    BY <1>1 DEF Ahead, Orders
  <2>2. IsFiniteSet(U) /\ Cardinality(U) \in Nat /\ Cardinality(T) \in Nat
    BY AheadIsFinite
  <2> HIDE DEF T, U
  <2>3. T # U
    BY <2>1
  <2>4. Cardinality(T) <= Cardinality(U) /\ Cardinality(T) # Cardinality(U)
    BY <2>1, <2>2, <2>3, FS_Subset
  <2> QED BY <2>2, <2>4 DEF T, U
<1>2. CASE <<x, y>> \in R
  BY <1>1, <1>2
<1>3. CASE x = y
  <2>1. Cardinality(Ahead(R, S, x)) \in Nat
    BY AheadIsFinite
  <2> QED BY <1>3, <2>1 DEF Orders
<1>4. CASE <<y, x>> \in R
  <2>1. Cardinality(Ahead(R, S, y)) < Cardinality(Ahead(R, S, x))
    BY <1>1, <1>4
  <2>2. Cardinality(Ahead(R, S, y)) \in Nat /\ Cardinality(Ahead(R, S, x)) \in Nat
    BY AheadIsFinite
  <2>3. ~(<<x, y>> \in R)
    BY <1>4 DEF Orders
  <2> QED BY <2>1, <2>2, <2>3
<1> QED BY <1>2, <1>3, <1>4 DEF Orders

\* Every place is taken, by one element.
LEMMA EveryPlace ==
  ASSUME NEW S, IsFiniteSet(S), NEW R, Orders(R, S), NEW k \in 1..Cardinality(S)
  PROVE  \E x \in S : Cardinality(Ahead(R, S, x)) = k - 1
<1> DEFINE f == [x \in S |-> Cardinality(Ahead(R, S, x)) + 1]
<1>1. f \in [S -> 1..Cardinality(S)]
  <2>1. ASSUME NEW x \in S
        PROVE  Cardinality(Ahead(R, S, x)) + 1 \in 1..Cardinality(S)
    BY AheadIsFinite
  <2> QED BY <2>1
<1>2. \A x, y \in S : f[x] = f[y] => x = y
  <2>1. ASSUME NEW x \in S, NEW y \in S, f[x] = f[y]
        PROVE  x = y
    <3>1. Cardinality(Ahead(R, S, x)) \in Nat /\ Cardinality(Ahead(R, S, y)) \in Nat
      BY AheadIsFinite
    <3>2. Cardinality(Ahead(R, S, x)) = Cardinality(Ahead(R, S, y))
      BY <2>1, <3>1
    <3>3. <<x, y>> \notin R /\ <<y, x>> \notin R
      BY <3>1, <3>2, AheadGrows
    <3> QED BY <3>3 DEF Orders
  <2> QED BY <2>1
<1> HIDE DEF f
<1>3. PICK x \in S : f[x] = k
  BY <1>1, <1>2, AllTaken
<1>4. Cardinality(Ahead(R, S, x)) \in Nat /\ k = Cardinality(Ahead(R, S, x)) + 1
  BY <1>3, AheadIsFinite DEF f
<1> QED BY <1>4

\* s is S in the order R.
IsListing(s, R, S) ==
  /\ s \in Seq(S) /\ Len(s) = Cardinality(S)
  /\ \A i, j \in 1..Len(s) : i < j <=> <<s[i], s[j]>> \in R
  /\ \A x \in S : \E i \in 1..Len(s) : s[i] = x

LEMMA PlacesList ==
  ASSUME NEW S, IsFiniteSet(S), NEW R, Orders(R, S), NEW s,
         s = [i \in 1..Cardinality(S) |-> s[i]],
         \A i \in 1..Cardinality(S) : s[i] \in S /\ Cardinality(Ahead(R, S, s[i])) = i - 1
  PROVE  IsListing(s, R, S)
<1> DEFINE n == Cardinality(S)
<1>1. n \in Nat
  BY FS_CardinalityType
<1>2. s \in Seq(S) /\ Len(s) = n
  <2> HIDE DEF n
  <2>1. [i \in 1..n |-> s[i]] \in Seq(S) /\ Len([i \in 1..n |-> s[i]]) = n
    BY <1>1 DEF n
  <2> QED BY <2>1 DEF n
<1>3. \A i, j \in 1..n : i < j <=> <<s[i], s[j]>> \in R
  <2>1. ASSUME NEW i \in 1..n, NEW j \in 1..n
        PROVE  i < j <=> <<s[i], s[j]>> \in R
    <3>1. <<s[i], s[j]>> \in R <=> i - 1 < j - 1
      BY AheadGrows
    <3> QED BY <1>1, <3>1
  <2> QED BY <2>1
<1>4. ASSUME NEW x \in S
      PROVE  \E i \in 1..n : s[i] = x
  <2> DEFINE i == Cardinality(Ahead(R, S, x)) + 1
  <2>1. i \in 1..n /\ i - 1 = Cardinality(Ahead(R, S, x)) /\ i - 1 \in Nat
    BY AheadIsFinite
  <2>2. Cardinality(Ahead(R, S, s[i])) = Cardinality(Ahead(R, S, x)) /\ s[i] \in S
    BY <2>1
  <2> HIDE DEF i
  <2>3. <<s[i], x>> \notin R /\ <<x, s[i]>> \notin R
    BY <2>1, <2>2, AheadGrows
  <2> QED BY <2>1, <2>2, <2>3 DEF Orders
<1> QED BY <1>2, <1>3, <1>4 DEF IsListing

\* So a sequence of elements chosen by their places lists the set.
LEMMA ChosenPlacesList ==
  ASSUME NEW S, IsFiniteSet(S), NEW R, Orders(R, S), NEW s,
         s = [i \in 1..Cardinality(S) |->
                CHOOSE x \in S : Cardinality(Ahead(R, S, x)) = i - 1]
  PROVE  IsListing(s, R, S)
<1>1. s = [i \in 1..Cardinality(S) |-> s[i]]
  OBVIOUS
<1>2. ASSUME NEW i \in 1..Cardinality(S)
      PROVE  s[i] \in S /\ Cardinality(Ahead(R, S, s[i])) = i - 1
  <2>1. \E x \in S : Cardinality(Ahead(R, S, x)) = i - 1
    BY EveryPlace
  <2>2. s[i] = CHOOSE x \in S : Cardinality(Ahead(R, S, x)) = i - 1
    OBVIOUS
  <2> QED BY <2>1, <2>2, Zenon
<1>3. \A i \in 1..Cardinality(S) : s[i] \in S /\ Cardinality(Ahead(R, S, s[i])) = i - 1
  BY <1>2
<1> HIDE DEF Ahead
<1> QED BY <1>1, <1>3, PlacesList, Zenon
=============================================================================
