------------------------------ MODULE FoldFacts ------------------------------
(***************************************************************************)
(* Lemmas about data of any size, for the proofs of this project: induction *)
(* over the natural numbers, and what the folds of the community modules    *)
(* compute.                                                                 *)
(*                                                                         *)
(* The library states induction for an operator P(_).  Here it is stated    *)
(* for a set of numbers, the ones for which a claim holds, so that a proof  *)
(* can cite it: it follows from the library's theorem that every set in     *)
(* which the naturals are well-founded has a least element.                 *)
(***************************************************************************)
EXTENDS Integers, FiniteSets, FiniteSetsExt, FiniteSetTheorems, TLAPS

-----------------------------------------------------------------------------
(* Induction. *)

\* A set that has zero, and with each number the next one, has all of them.
LEMMA SetInduction ==
  ASSUME NEW T, 0 \in T, \A n \in Nat : n \in T => n + 1 \in T
  PROVE  Nat \subseteq T
<1> DEFINE R == {ss \in Nat \X Nat : ss[1] < ss[2]}
           B == Nat \ T
<1>1. IsWellFoundedOn(R, Nat)
  BY NatLessThanWellFounded, Zenon DEF OpToRel
<1>2. B \subseteq Nat
  OBVIOUS
<1> SUFFICES ASSUME B # {} PROVE FALSE
  OBVIOUS
<1>3. \A x \in Nat, y \in Nat : y < x => <<y, x>> \in R
  OBVIOUS
<1> HIDE DEF R
<1>4. PICK x \in B : \A y \in B : ~(<<y, x>> \in R)
  <2> HIDE DEF B
  <2> QED
    BY <1>1, <1>2, WFMin
<1>5. x \in Nat /\ x # 0 /\ x \notin T
  OBVIOUS
<1>6. x - 1 \in Nat /\ (x - 1) + 1 = x /\ x - 1 < x
  BY <1>5
<1>7. x - 1 \in B
  BY <1>5, <1>6
<1> QED
  BY <1>3, <1>4, <1>5, <1>6, <1>7

\* Numbers have a least one among them.
LEMMA LeastExists ==
  ASSUME NEW E, E \subseteq Nat, E # {}
  PROVE  \E j \in E : \A y \in E : j <= y
<1> SUFFICES ASSUME \A j \in E : \E y \in E : ~(j <= y) PROVE FALSE
  OBVIOUS
<1> DEFINE T == {n \in Nat : \A m \in 0..n : m \notin E}
<1>1. 0 \in T
  OBVIOUS
<1>2. ASSUME NEW n \in Nat, n \in T PROVE n + 1 \in T
  <2>1. n + 1 \notin E
    <3> SUFFICES ASSUME n + 1 \in E PROVE FALSE
      OBVIOUS
    <3>1. PICK y \in E : ~(n + 1 <= y)
      OBVIOUS
    <3>2. y \in 0..n
      BY <3>1
    <3> QED
      BY <1>2, <3>1, <3>2
  <2> QED
    BY <1>2, <2>1
<1> HIDE DEF T
<1>3. Nat \subseteq T
  BY <1>1, <1>2, SetInduction
<1>4. PICK e \in E : TRUE
  OBVIOUS
<1> QED
  BY <1>3, <1>4 DEF T

\* Recursion over the naturals up to n: f[k] is h[k] of f[k - 1].  There is such a function.
Steps(f, n, b, h) == f[0] = b /\ \A k \in 1..n : f[k] = h[k][f[k - 1]]

LEMMA StepsExist ==
  ASSUME NEW n \in Nat, NEW V, NEW b \in V,
         NEW h \in [1..n -> [V -> V]]
  PROVE  \E f \in [0..n -> V] : Steps(f, n, b, h)
<1> DEFINE P(m, f) == f[0] = b /\ \A k \in 1..n : k <= m => f[k] = h[k][f[k - 1]]
           T == {m \in Nat : \E f \in [0..n -> V] : P(m, f)}
<1>1. 0 \in T
  <2> DEFINE f == [k \in 0..n |-> b]
  <2>1. f \in [0..n -> V] /\ P(0, f)
    OBVIOUS
  <2> QED
    BY <2>1
<1>2. ASSUME NEW m \in Nat, m \in T PROVE m + 1 \in T
  <2>1. PICK f \in [0..n -> V] : P(m, f)
    BY <1>2
  <2>2. m + 1 \in Nat
    OBVIOUS
  <2>3. CASE m + 1 <= n
    <3> DEFINE g == [f EXCEPT ![m + 1] = h[m + 1][f[m]]]
    <3>1. m + 1 \in 1..n /\ m \in 0..n /\ m + 1 \in 0..n /\ (m + 1) - 1 = m /\ m # m + 1 /\ 0 # m + 1
      BY <2>3
    <3>2. h[m + 1][f[m]] \in V
      BY <3>1
    <3>3. g \in [0..n -> V] /\ g[m + 1] = h[m + 1][f[m]]
          /\ \A k \in 0..n : k # m + 1 => g[k] = f[k]
      BY <3>1, <3>2
    <3> HIDE DEF g
    <3>4. g[m] = f[m] /\ g[0] = f[0]
      BY <3>1, <3>3
    <3>5. ASSUME NEW k \in 1..n, k <= m + 1 PROVE g[k] = h[k][g[k - 1]]
      <4>1. CASE k = m + 1
        BY <3>1, <3>3, <3>4, <4>1
      <4>2. CASE k # m + 1
        <5>1. k <= m /\ k \in 0..n /\ k - 1 \in 0..n /\ k - 1 # m + 1
          BY <3>5, <4>2
        <5>2. g[k] = f[k] /\ g[k - 1] = f[k - 1]
          BY <3>3, <4>2, <5>1
        <5> QED
          BY <2>1, <5>1, <5>2
      <4> QED
        BY <4>1, <4>2
    <3>6. P(m + 1, g)
      BY <2>1, <3>4, <3>5
    <3> HIDE DEF P
    <3> QED
      BY <2>2, <3>3, <3>6
  <2>4. CASE ~(m + 1 <= n)
    <3>1. \A k \in 1..n : k <= m + 1 => k <= m
      BY <2>4
    <3>2. P(m + 1, f)
      BY <2>1, <3>1
    <3> HIDE DEF P
    <3> QED
      BY <2>2, <3>2
  <2> QED
    BY <2>3, <2>4
<1>3. n \in T
  <2> HIDE DEF T
  <2> QED
    BY <1>1, <1>2, SetInduction
<1>4. PICK f \in [0..n -> V] : P(n, f)
  BY <1>3
<1> QED
  BY <1>4 DEF Steps

-----------------------------------------------------------------------------
(* Folds over a finite set: f[s] is the value of the fold over s, c[s] the  *)
(* element of s that is taken out next, h one step.                         *)

Folds(f, S, base, c, h) ==
    \A s \in SUBSET S : f[s] = IF s = {} THEN base ELSE h[<<c[s], f[s \ {c[s]}]>>]

\* There is such a function: the recursion of MapThenFoldSet is well-defined.
LEMMA FoldExists ==
  ASSUME NEW S, IsFiniteSet(S), NEW V, NEW base \in V,
         NEW c, \A s \in SUBSET S : s # {} => c[s] \in s,
         NEW h, \A x \in S, v \in V : h[<<x, v>>] \in V
  PROVE  \E f \in [SUBSET S -> V] : Folds(f, S, base, c, h)
<1> DEFINE Step(f, s) == IF s = {} THEN base ELSE h[<<c[s], f[s \ {c[s]}]>>]
           T == {n \in Nat : \E f \in [SUBSET S -> V] :
                               \A s \in SUBSET S : Cardinality(s) <= n => f[s] = Step(f, s)}
<1>1. \A s \in SUBSET S : IsFiniteSet(s) /\ Cardinality(s) \in Nat /\ (Cardinality(s) = 0 <=> s = {})
  BY FS_Subset, FS_CardinalityType, FS_EmptySet
<1>2. \A s \in SUBSET S : s # {} => /\ s \ {c[s]} \in SUBSET S
                                    /\ Cardinality(s \ {c[s]}) = Cardinality(s) - 1
  BY <1>1, FS_RemoveElement
<1>3. \A f \in [SUBSET S -> V], s \in SUBSET S : Step(f, s) \in V
  <2> SUFFICES ASSUME NEW f \in [SUBSET S -> V], NEW s \in SUBSET S PROVE Step(f, s) \in V
    OBVIOUS
  <2>1. CASE s = {}
    BY <2>1
  <2>2. CASE s # {}
    <3>1. c[s] \in S /\ f[s \ {c[s]}] \in V
      BY <1>2, <2>2
    <3> QED
      BY <2>2, <3>1
  <2> QED
    BY <2>1, <2>2
<1>4. 0 \in T
  <2> DEFINE f == [s \in SUBSET S |-> base]
  <2>1. f \in [SUBSET S -> V]
    OBVIOUS
  <2>2. \A s \in SUBSET S : Cardinality(s) <= 0 => f[s] = Step(f, s)
    BY <1>1
  <2> HIDE DEF f, Step
  <2> QED
    BY <2>1, <2>2
<1>5. ASSUME NEW n \in Nat, n \in T PROVE n + 1 \in T
  <2>1. PICK f \in [SUBSET S -> V] : \A s \in SUBSET S : Cardinality(s) <= n => f[s] = Step(f, s)
    BY <1>5
  <2> DEFINE g == [s \in SUBSET S |-> Step(f, s)]
  <2>2. g \in [SUBSET S -> V]
    BY <1>3
  <2>3. ASSUME NEW s \in SUBSET S, Cardinality(s) <= n + 1 PROVE g[s] = Step(g, s)
    <3>1. CASE s = {}
      BY <3>1
    <3>2. CASE s # {}
      <4> DEFINE t == s \ {c[s]}
      <4>1. t \in SUBSET S /\ Cardinality(t) <= n
        BY <1>1, <1>2, <2>3, <3>2
      <4>2. g[t] = Step(f, t) /\ f[t] = Step(f, t)
        <5> HIDE DEF t, Step
        <5> QED
          BY <2>1, <4>1
      <4>3. g[s] = h[<<c[s], f[t]>>]
        BY <3>2
      <4>4. Step(g, s) = h[<<c[s], g[t]>>]
        BY <3>2
      <4> QED
        BY <4>2, <4>3, <4>4
    <3> QED
      BY <3>1, <3>2
  <2> HIDE DEF g, Step
  <2> QED
    BY <2>2, <2>3
<1>6. Cardinality(S) \in T
  <2> HIDE DEF T
  <2> QED
    BY <1>1, <1>4, <1>5, SetInduction
<1>7. PICK f \in [SUBSET S -> V] : \A s \in SUBSET S : Cardinality(s) <= Cardinality(S) => f[s] = Step(f, s)
  BY <1>6
<1>8. \A s \in SUBSET S : Cardinality(s) <= Cardinality(S)
  BY FS_Subset
<1> QED
  BY <1>7, <1>8 DEF Folds

\* And only one value for each set, whatever larger set the recursion began with.
LEMMA FoldUnique ==
  ASSUME NEW S, NEW T, NEW U, U \subseteq S, U \subseteq T, IsFiniteSet(U), NEW base,
         NEW c, NEW d, NEW h, NEW f, NEW g,
         Folds(f, S, base, c, h), Folds(g, T, base, d, h),
         \A s \in SUBSET U : s # {} => c[s] \in s /\ d[s] = c[s]
  PROVE  f[U] = g[U]
<1> DEFINE A == {n \in Nat : \A s \in SUBSET U : Cardinality(s) <= n => f[s] = g[s]}
<1>1. \A s \in SUBSET U : IsFiniteSet(s) /\ Cardinality(s) \in Nat /\ (Cardinality(s) = 0 <=> s = {})
  BY FS_Subset, FS_CardinalityType, FS_EmptySet
<1>2. \A s \in SUBSET U : s \in SUBSET S /\ s \in SUBSET T
  OBVIOUS
<1>3. 0 \in A
  <2> SUFFICES ASSUME NEW s \in SUBSET U, Cardinality(s) <= 0 PROVE f[s] = g[s]
    OBVIOUS
  <2>1. s = {} /\ s \in SUBSET S /\ s \in SUBSET T
    BY <1>1, <1>2
  <2> QED
    BY <2>1 DEF Folds
<1>4. ASSUME NEW n \in Nat, n \in A PROVE n + 1 \in A
  <2> SUFFICES ASSUME NEW s \in SUBSET U, Cardinality(s) <= n + 1 PROVE f[s] = g[s]
    OBVIOUS
  <2>1. s \in SUBSET S /\ s \in SUBSET T /\ IsFiniteSet(s) /\ Cardinality(s) \in Nat
    BY <1>1, <1>2
  <2>2. CASE s = {}
    BY <2>1, <2>2 DEF Folds
  <2>3. CASE s # {}
    <3> DEFINE t == s \ {c[s]}
    <3>1. c[s] \in s /\ d[s] = c[s]
      BY <2>3
    <3>2. Cardinality(t) = Cardinality(s) - 1
      <4> DEFINE x == c[s]
      <4>1. x \in s
        BY <3>1
      <4> HIDE DEF x
      <4>2. Cardinality(s \ {x}) = Cardinality(s) - 1
        BY <2>1, <4>1, FS_RemoveElement
      <4> QED
        BY <4>2 DEF x
    <3>3. t \in SUBSET U /\ Cardinality(t) <= n
      BY <2>1, <3>2
    <3>4. f[t] = g[t]
      <4> HIDE DEF t
      <4> QED
        BY <1>4, <3>3
    <3>5. f[s] = h[<<c[s], f[t]>>] /\ g[s] = h[<<c[s], g[t]>>]
      BY <2>1, <2>3, <3>1 DEF Folds
    <3> QED
      BY <3>4, <3>5
  <2> QED
    BY <2>2, <2>3
<1>5. Cardinality(U) \in A
  <2> HIDE DEF A
  <2> QED
    BY <1>1, <1>3, <1>4, SetInduction
<1> QED
  BY <1>1, <1>5

-----------------------------------------------------------------------------
(* Sums. *)

\* The sum of the values of g on S, as MapThenSumSet adds them up.
SumOver(g, S) == MapThenSumSet(LAMBDA x : g[x], S)

\* The element that MapThenSumSet takes out first.
Pick(S) == CHOOSE x \in S : TRUE

LEMMA Picked == \A S : S # {} => Pick(S) \in S
  BY DEF Pick

SumIter(g, S) ==
    CHOOSE iter : iter = [s \in SUBSET S |->
                            IF s = {} THEN 0
                            ELSE g[Pick(s)] + iter[s \ {Pick(s)}]]

LEMMA SumUnfold == ASSUME NEW g, NEW S PROVE SumOver(g, S) = SumIter(g, S)[S]
  BY DEF SumOver, SumIter, Pick, MapThenSumSet, MapThenFoldSet

LEMMA SumRecursion ==
  ASSUME NEW S, IsFiniteSet(S), NEW g, \A x \in S : g[x] \in Int
  PROVE  /\ SumIter(g, S) \in [SUBSET S -> Int]
         /\ \A s \in SUBSET S :
              SumIter(g, S)[s] = IF s = {} THEN 0
                                 ELSE g[Pick(s)]
                                      + SumIter(g, S)[s \ {Pick(s)}]
<1> DEFINE c == [s \in SUBSET S |-> Pick(s)]
           h == [p \in S \X Int |-> g[p[1]] + p[2]]
           Step(f, s) == IF s = {} THEN 0
                         ELSE g[Pick(s)] + f[s \ {Pick(s)}]
<1>1. \A s \in SUBSET S : s # {} => c[s] \in s /\ c[s] = Pick(s)
  BY Picked
<1>2. \A x \in S, v \in Int : h[<<x, v>>] = g[x] + v /\ h[<<x, v>>] \in Int
  OBVIOUS
<1>3. PICK f \in [SUBSET S -> Int] : Folds(f, S, 0, c, h)
  <2> HIDE DEF c, h
  <2>1. 0 \in Int
    OBVIOUS
  <2> QED
    BY <1>1, <1>2, <2>1, FoldExists
<1>4. ASSUME NEW s \in SUBSET S PROVE f[s] = Step(f, s)
  <2>1. CASE s = {}
    BY <1>3, <2>1 DEF Folds
  <2>2. CASE s # {}
    <3>1. c[s] \in S /\ s \ {c[s]} \in SUBSET S /\ c[s] = Pick(s)
      BY <1>1, <2>2
    <3>2. f[s \ {c[s]}] \in Int
      <4> HIDE DEF c
      <4> QED
        BY <3>1
    <3>3. f[s] = h[<<c[s], f[s \ {c[s]}]>>]
      BY <1>3, <2>2 DEF Folds
    <3>4. f[s] = g[c[s]] + f[s \ {c[s]}]
      <4> HIDE DEF c, h
      <4> QED
        BY <1>2, <3>1, <3>2, <3>3
    <3> QED
      BY <2>2, <3>1, <3>4
  <2> QED
    BY <2>1, <2>2
<1>5. f = [s \in SUBSET S |-> Step(f, s)]
  <2> HIDE DEF Step
  <2> QED
    BY <1>4
<1>6. SumIter(g, S) = [s \in SUBSET S |-> Step(SumIter(g, S), s)]
  BY <1>5 DEF SumIter
<1>7. \A s \in SUBSET S : SumIter(g, S)[s] = Step(SumIter(g, S), s)
  <2> HIDE DEF Step
  <2> QED
    BY <1>6
<1>8. \A s \in SUBSET S : IsFiniteSet(s) /\ Cardinality(s) \in Nat /\ (Cardinality(s) = 0 <=> s = {})
  BY FS_Subset, FS_CardinalityType, FS_EmptySet
<1> DEFINE I == SumIter(g, S)
           A == {n \in Nat : \A s \in SUBSET S : Cardinality(s) <= n => I[s] \in Int}
<1>9. 0 \in A
  <2> SUFFICES ASSUME NEW s \in SUBSET S, Cardinality(s) <= 0 PROVE I[s] \in Int
    OBVIOUS
  <2>1. s = {}
    BY <1>8
  <2>2. I[s] = 0
    BY <1>7, <2>1
  <2> QED
    BY <2>2
<1>10. ASSUME NEW n \in Nat, n \in A PROVE n + 1 \in A
  <2> SUFFICES ASSUME NEW s \in SUBSET S, Cardinality(s) <= n + 1 PROVE I[s] \in Int
    OBVIOUS
  <2>1. CASE s = {}
    <3>1. I[s] = 0
      BY <1>7, <2>1
    <3> HIDE DEF I
    <3> QED
      BY <3>1
  <2>2. CASE s # {}
    <3> DEFINE x == Pick(s)
               t == s \ {x}
    <3>1. x \in s
      BY <2>2, Picked
    <3>2. t \in SUBSET S /\ Cardinality(t) = Cardinality(s) - 1
      BY <1>8, <3>1, FS_RemoveElement
    <3>3. I[s] = g[x] + I[t]
      BY <1>7, <2>2
    <3> HIDE DEF I, x, t
    <3>4. Cardinality(t) <= n /\ g[x] \in Int
      BY <1>8, <3>1, <3>2
    <3>5. I[t] \in Int
      BY <1>10, <3>2, <3>4
    <3> QED
      BY <3>3, <3>4, <3>5
  <2> QED
    BY <2>1, <2>2
<1>11. Nat \subseteq A
  <2> HIDE DEF A
  <2> QED
    BY <1>9, <1>10, SetInduction
<1>12. \A s \in SUBSET S : I[s] \in Int
  BY <1>8, <1>11
<1>13. I \in [SUBSET S -> Int]
  <2>1. I = [s \in SUBSET S |-> Step(I, s)]
    BY <1>6
  <2>2. \A s \in SUBSET S : I[s] \in Int
    BY <1>12
  <2> HIDE DEF I, Step
  <2> QED
    BY <2>1, <2>2
<1> QED
  BY <1>7, <1>13

\* A sum over a part is the same in the recursion that began with the whole.
LEMMA SumOfPart ==
  ASSUME NEW S, IsFiniteSet(S), NEW g, \A x \in S : g[x] \in Int, NEW U \in SUBSET S
  PROVE  SumIter(g, S)[U] = SumOver(g, U)
<1> DEFINE I == SumIter(g, S)
           J == SumIter(g, U)
           A == {n \in Nat : \A s \in SUBSET U : Cardinality(s) <= n => I[s] = J[s]}
<1>1. \A s \in SUBSET U : /\ s \in SUBSET S
                          /\ IsFiniteSet(s) /\ Cardinality(s) \in Nat /\ (Cardinality(s) = 0 <=> s = {})
  BY FS_Subset, FS_CardinalityType, FS_EmptySet
<1>2. IsFiniteSet(U) /\ \A x \in U : g[x] \in Int
  BY <1>1
<1>3. \A s \in SUBSET U : s # {} => I[s] = g[Pick(s)] + I[s \ {Pick(s)}]
  <2>1. \A s \in SUBSET S : s # {} => I[s] = g[Pick(s)] + I[s \ {Pick(s)}]
    BY SumRecursion
  <2> HIDE DEF I
  <2> QED
    BY <1>1, <2>1
<1>4. \A s \in SUBSET U : s # {} => J[s] = g[Pick(s)] + J[s \ {Pick(s)}]
  BY <1>2, SumRecursion
<1>5. I[{}] = 0 /\ J[{}] = 0
  BY <1>2, SumRecursion
<1> HIDE DEF I, J
<1>6. 0 \in A
  BY <1>1, <1>5
<1>7. ASSUME NEW n \in Nat, n \in A PROVE n + 1 \in A
  <2> SUFFICES ASSUME NEW s \in SUBSET U, Cardinality(s) <= n + 1 PROVE I[s] = J[s]
    OBVIOUS
  <2>1. CASE s = {}
    BY <1>5, <2>1
  <2>2. CASE s # {}
    <3> DEFINE x == Pick(s)
               t == s \ {x}
    <3>1. x \in s
      BY <2>2, Picked
    <3>2. t \in SUBSET U /\ Cardinality(t) = Cardinality(s) - 1
      BY <1>1, <3>1, FS_RemoveElement
    <3>3. I[s] = g[x] + I[t] /\ J[s] = g[x] + J[t]
      BY <1>3, <1>4, <2>2
    <3> HIDE DEF x, t
    <3>4. Cardinality(t) <= n
      BY <1>1, <3>2
    <3>5. I[t] = J[t]
      BY <1>7, <3>2, <3>4
    <3> QED
      BY <3>3, <3>5
  <2> QED
    BY <2>1, <2>2
<1>8. Nat \subseteq A
  <2> HIDE DEF A
  <2> QED
    BY <1>6, <1>7, SetInduction
<1>9. I[U] = J[U]
  BY <1>1, <1>8
<1>10. SumOver(g, U) = J[U]
  BY SumUnfold DEF J
<1>11. SumIter(g, S)[U] = I[U]
  BY DEF I
<1> QED
  BY <1>9, <1>10, <1>11

LEMMA SumType ==
  ASSUME NEW S, IsFiniteSet(S), NEW g, \A x \in S : g[x] \in Int
  PROVE  SumOver(g, S) \in Int
<1>1. SumIter(g, S) \in [SUBSET S -> Int]
  BY SumRecursion
<1> QED
  BY <1>1, SumUnfold

LEMMA SumEmpty ==
  ASSUME NEW g
  PROVE  SumOver(g, {}) = 0
<1>1. IsFiniteSet({})
  BY FS_EmptySet
<1>2. SumIter(g, {})[{}] = 0
  BY <1>1, SumRecursion
<1> QED
  BY <1>2, SumUnfold

\* Any element can be taken out first.
LEMMA SumTakeOut ==
  ASSUME NEW S, IsFiniteSet(S), NEW g, \A x \in S : g[x] \in Int, NEW y \in S
  PROVE  SumOver(g, S) = g[y] + SumOver(g, S \ {y})
<1> DEFINE I == SumIter(g, S)
           A == {n \in Nat : \A s \in SUBSET S : Cardinality(s) <= n
                               => \A z \in s : I[s] = g[z] + I[s \ {z}]}
<1>1. \A s \in SUBSET S : IsFiniteSet(s) /\ Cardinality(s) \in Nat /\ (Cardinality(s) = 0 <=> s = {})
  BY FS_Subset, FS_CardinalityType, FS_EmptySet
<1>2. \A s \in SUBSET S : s # {} => I[s] = g[Pick(s)] + I[s \ {Pick(s)}]
  BY SumRecursion
<1>3. \A s \in SUBSET S : I[s] \in Int
  <2>1. I \in [SUBSET S -> Int]
    BY SumRecursion
  <2> HIDE DEF I
  <2> QED
    BY <2>1
<1> HIDE DEF I
<1>4. 0 \in A
  BY <1>1
<1>5. ASSUME NEW n \in Nat, n \in A PROVE n + 1 \in A
  <2> SUFFICES ASSUME NEW s \in SUBSET S, Cardinality(s) <= n + 1, NEW z \in s
               PROVE  I[s] = g[z] + I[s \ {z}]
    OBVIOUS
  <2> DEFINE x == Pick(s)
  <2>1. x \in s /\ I[s] = g[x] + I[s \ {x}]
    BY <1>2, Picked
  <2> HIDE DEF x
  <2>2. CASE z = x
    BY <2>1, <2>2
  <2>3. CASE z # x
    <3> DEFINE t == s \ {x}
               u == s \ {z}
               v == (s \ {x}) \ {z}
    <3>1. t \in SUBSET S /\ u \in SUBSET S /\ v \in SUBSET S /\ z \in t /\ x \in u
          /\ v = t \ {z} /\ v = u \ {x}
      BY <2>1, <2>3
    <3>2. Cardinality(t) = Cardinality(s) - 1 /\ Cardinality(u) = Cardinality(s) - 1
      BY <1>1, <2>1, FS_RemoveElement
    <3>3. I[s] = g[x] + I[t]
      BY <2>1
    <3> HIDE DEF t, u, v
    <3>4. Cardinality(t) <= n /\ Cardinality(u) <= n
      BY <1>1, <3>2
    <3>5. I[t] = g[z] + I[v] /\ I[u] = g[x] + I[v]
      BY <1>5, <3>1, <3>4
    <3>6. g[x] \in Int /\ g[z] \in Int /\ I[v] \in Int
      BY <1>3, <2>1, <3>1
    <3>7. I[s] = g[z] + I[u]
      BY <3>3, <3>5, <3>6
    <3> QED
      BY <3>7 DEF u
  <2> QED
    BY <2>2, <2>3
<1>6. Nat \subseteq A
  <2> HIDE DEF A
  <2> QED
    BY <1>4, <1>5, SetInduction
<1>7. I[S] = g[y] + I[S \ {y}]
  BY <1>1, <1>6
<1>8. I[S] = SumOver(g, S) /\ I[S \ {y}] = SumOver(g, S \ {y})
  BY SumOfPart DEF I
<1> QED
  BY <1>7, <1>8

\* Smaller values, on a part, have a smaller sum, where what is left out is not negative.
LEMMA SumMonotone ==
  ASSUME NEW S, IsFiniteSet(S), NEW g, NEW h, NEW U \in SUBSET S,
         \A x \in U : g[x] \in Int /\ g[x] <= h[x],
         \A x \in S : h[x] \in Nat
  PROVE  SumOver(g, U) <= SumOver(h, S)
<1> DEFINE A == {n \in Nat : \A s \in SUBSET S : Cardinality(s) <= n
                               => SumOver(g, s \cap U) <= SumOver(h, s)}
<1>1. \A s \in SUBSET S : IsFiniteSet(s) /\ Cardinality(s) \in Nat /\ (Cardinality(s) = 0 <=> s = {})
  BY FS_Subset, FS_CardinalityType, FS_EmptySet
<1>2. \A s \in SUBSET S : /\ IsFiniteSet(s \cap U)
                          /\ SumOver(g, s \cap U) \in Int /\ SumOver(h, s) \in Int
  <2> SUFFICES ASSUME NEW s \in SUBSET S
               PROVE  /\ IsFiniteSet(s \cap U)
                      /\ SumOver(g, s \cap U) \in Int /\ SumOver(h, s) \in Int
    OBVIOUS
  <2>1. IsFiniteSet(s \cap U) /\ IsFiniteSet(s)
    BY <1>1
  <2> QED
    BY <2>1, SumType
<1>3. 0 \in A
  <2> SUFFICES ASSUME NEW s \in SUBSET S, Cardinality(s) <= 0
               PROVE  SumOver(g, s \cap U) <= SumOver(h, s)
    OBVIOUS
  <2>1. s = {} /\ s \cap U = {}
    BY <1>1
  <2> QED
    BY <2>1, SumEmpty
<1>4. ASSUME NEW n \in Nat, n \in A PROVE n + 1 \in A
  <2> SUFFICES ASSUME NEW s \in SUBSET S, Cardinality(s) <= n + 1
               PROVE  SumOver(g, s \cap U) <= SumOver(h, s)
    OBVIOUS
  <2>1. CASE s = {}
    <3>1. s \cap U = {}
      BY <2>1
    <3> QED
      BY <2>1, <3>1, SumEmpty
  <2>2. CASE s # {}
    <3>1. PICK x \in s : TRUE
      BY <2>2
    <3> DEFINE t == s \ {x}
    <3>2. t \in SUBSET S /\ Cardinality(t) <= n
      <4>1. Cardinality(t) = Cardinality(s) - 1
        BY <1>1, FS_RemoveElement
      <4> QED
        BY <1>1, <4>1
    <3>3. SumOver(g, t \cap U) <= SumOver(h, t)
      <4> HIDE DEF t
      <4> QED
        BY <1>4, <3>2
    <3>4. SumOver(h, s) = h[x] + SumOver(h, t)
      BY <1>1, SumTakeOut
    <3>5. SumOver(h, t) \in Int /\ SumOver(g, t \cap U) \in Int /\ h[x] \in Nat
      BY <1>2, <3>2
    <3>6. CASE x \in U
      <4>1. x \in s \cap U /\ (s \cap U) \ {x} = t \cap U
        BY <3>6
      <4>2. SumOver(g, s \cap U) = g[x] + SumOver(g, t \cap U)
        <5> DEFINE p == s \cap U
        <5>1. IsFiniteSet(p) /\ (\A y \in p : g[y] \in Int) /\ x \in p
          BY <1>2, <4>1
        <5>2. SumOver(g, p) = g[x] + SumOver(g, p \ {x})
          <6> HIDE DEF p
          <6> QED
            BY <5>1, SumTakeOut
        <5> QED
          BY <4>1, <5>2
      <4>3. g[x] \in Int /\ g[x] <= h[x]
        BY <3>6
      <4> DEFINE a == SumOver(g, t \cap U)
                 b == SumOver(h, t)
                 gx == g[x]
                 hx == h[x]
      <4>4. a \in Int /\ b \in Int /\ gx \in Int /\ hx \in Int /\ a <= b /\ gx <= hx
        BY <3>3, <3>5, <4>3
      <4>5. SumOver(g, s \cap U) = gx + a /\ SumOver(h, s) = hx + b
        BY <3>4, <4>2
      <4> HIDE DEF a, b, gx, hx
      <4>6. gx + a <= hx + b
        BY <4>4
      <4> QED
        BY <4>5, <4>6
    <3>7. CASE x \notin U
      <4>1. s \cap U = t \cap U
        BY <3>7
      <4> HIDE DEF t
      <4> QED
        BY <3>3, <3>4, <3>5, <4>1
    <3> QED
      BY <3>6, <3>7
  <2> QED
    BY <2>1, <2>2
<1>5. Nat \subseteq A
  <2> HIDE DEF A
  <2> QED
    BY <1>3, <1>4, SetInduction
<1>6. SumOver(g, S \cap U) <= SumOver(h, S)
  BY <1>1, <1>5
<1>7. S \cap U = U
  OBVIOUS
<1> QED
  BY <1>6, <1>7

\* Equal values have equal sums.
LEMMA SumSame ==
  ASSUME NEW S, IsFiniteSet(S), NEW g, NEW h,
         \A x \in S : g[x] \in Nat /\ h[x] = g[x]
  PROVE  SumOver(g, S) = SumOver(h, S)
<1>1. SumOver(g, S) <= SumOver(h, S) /\ SumOver(h, S) <= SumOver(g, S)
  BY SumMonotone
<1>2. SumOver(g, S) \in Int /\ SumOver(h, S) \in Int
  BY SumType
<1> QED
  BY <1>1, <1>2
=============================================================================
