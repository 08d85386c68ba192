---------------------------- MODULE ShareProofs -----------------------------
(***************************************************************************)
(* That each variant gets the share of its weight, for any numbers of      *)
(* buckets, variants and weights: first what a sum over a set is, then     *)
(* where the bands of choose_variant lie, and how many users are in each.  *)
(***************************************************************************)
EXTENDS ServingProofs

-----------------------------------------------------------------------------
(* Sums over finite sets                                                    *)

\* Induction on the naturals, with a set in place of the predicate.
LEMMA SetInduction ==
    ASSUME NEW S, 0 \in S, \A n \in Nat : n \in S => n + 1 \in S
    PROVE  \A n \in Nat : n \in S
<1> SUFFICES ASSUME NEW m \in Nat, m \notin S PROVE FALSE
  OBVIOUS
<1> DEFINE n == Least(Nat \ S)
<1>1. n \in Nat \ S /\ \A j \in Nat \ S : n <= j
  BY LeastIsIn
<1> HIDE DEF n
<1>2. n # 0
  BY <1>1
<1>3. n - 1 \in Nat /\ n - 1 \in S
  BY <1>1, <1>2
<1> QED BY <1>1, <1>3

Sum(f, T) == FoldFunctionOnSet(+, 0, f, T)

Pick(s) == CHOOSE x \in s : TRUE

\* One step of the fold, and the function it is the fixed point of.
SumOf(f, g, s) == IF s = {} THEN 0 ELSE f[Pick(s)] + g[s \ {Pick(s)}]

Iter(f, T) == CHOOSE g : g = [s \in SUBSET T |-> SumOf(f, g, s)]

LEMMA SumIsIter == ASSUME NEW f, NEW T PROVE Sum(f, T) = Iter(f, T)[T]
BY DEF Sum, FoldFunctionOnSet, MapThenFoldSet, Iter, Pick, SumOf

LEMMA PickIsIn == ASSUME NEW s, s # {} PROVE Pick(s) \in s
BY DEF Pick

\* A set without one of its elements is smaller.
LEMMA Smaller ==
    ASSUME NEW s, IsFiniteSet(s), NEW x \in s, NEW n \in Nat, Cardinality(s) <= n + 1
    PROVE  IsFiniteSet(s \ {x}) /\ Cardinality(s \ {x}) <= n
<1>1. IsFiniteSet(s \ {x}) /\ Cardinality(s \ {x}) = Cardinality(s) - 1
  BY FS_RemoveElement
<1>2. Cardinality(s) \in Nat
  BY FS_CardinalityType
<1> QED BY <1>1, <1>2

\* The recursion has a solution.
LEMMA IterUnfolds ==
    ASSUME NEW f, NEW T, IsFiniteSet(T)
    PROVE  \A s \in SUBSET T : Iter(f, T)[s] = SumOf(f, Iter(f, T), s)
<1> DEFINE Solves(g, n) == \A s \in SUBSET T : Cardinality(s) <= n =>
                               g[s] = SumOf(f, g, s)
           Solved == {n \in Nat : \E g : g = [s \in SUBSET T |-> g[s]] /\ Solves(g, n)}
<1>0. \A s \in SUBSET T : IsFiniteSet(s) /\ Cardinality(s) \in Nat
                          /\ Cardinality(s) <= Cardinality(T)
  BY FS_Subset, FS_CardinalityType
<1>1. 0 \in Solved
  <2> DEFINE g == [s \in SUBSET T |-> 0]
  <2>1. ASSUME NEW s \in SUBSET T, Cardinality(s) <= 0 PROVE g[s] = SumOf(f, g, s)
    <3>1. Cardinality(s) = 0
      BY <1>0, <2>1
    <3>2. s = {}
      BY <1>0, <3>1, FS_EmptySet
    <3> QED BY <3>2 DEF SumOf
  <2>2. g = [s \in SUBSET T |-> g[s]]
    OBVIOUS
  <2> HIDE DEF g
  <2> QED BY <2>1, <2>2
<1>2. ASSUME NEW n \in Nat, n \in Solved PROVE n + 1 \in Solved
  <2>1. PICK g : g = [s \in SUBSET T |-> g[s]] /\ Solves(g, n)
    BY <1>2
  <2> DEFINE h == [s \in SUBSET T |-> SumOf(f, g, s)]
  <2>2. ASSUME NEW s \in SUBSET T, Cardinality(s) <= n PROVE h[s] = g[s]
    BY <2>1, <2>2
  <2>3. ASSUME NEW s \in SUBSET T, Cardinality(s) <= n + 1 PROVE h[s] = SumOf(f, h, s)
    <3>1. CASE s = {}
      BY <3>1 DEF SumOf
    <3>2. CASE s # {}
      <4>1. s \ {Pick(s)} \in SUBSET T
        OBVIOUS
      <4>2. Cardinality(s \ {Pick(s)}) <= n
        BY <1>0, <2>3, <3>2, PickIsIn, Smaller
      <4>3. h[s \ {Pick(s)}] = g[s \ {Pick(s)}]
        BY <2>2, <4>1, <4>2
      <4> QED BY <4>3 DEF SumOf
    <3> QED BY <3>1, <3>2
  <2>4. h = [s \in SUBSET T |-> h[s]]
    OBVIOUS
  <2> HIDE DEF h
  <2>5. Solves(h, n + 1)
    BY <2>3
  <2> HIDE DEF Solves
  <2> QED BY <2>4, <2>5
<1>3. Cardinality(T) \in Solved
  <2>1. Cardinality(T) \in Nat
    BY FS_CardinalityType
  <2> HIDE DEF Solved
  <2> QED BY <1>1, <1>2, <2>1, SetInduction
<1>4. PICK g : g = [s \in SUBSET T |-> g[s]] /\ Solves(g, Cardinality(T))
  BY <1>3
<1>5. g = [s \in SUBSET T |-> SumOf(f, g, s)]
  BY <1>0, <1>4
<1>6. Iter(f, T) = [s \in SUBSET T |-> SumOf(f, Iter(f, T), s)]
  BY <1>5 DEF Iter
<1> DEFINE it == Iter(f, T)
<1>7. it = [s \in SUBSET T |-> SumOf(f, it, s)]
  BY <1>6
<1> HIDE DEF it
<1>8. \A s \in SUBSET T : it[s] = SumOf(f, it, s)
  BY <1>7
<1> QED BY <1>8 DEF it

\* Whatever the set it started from, the recursion gives the same.
LEMMA IterIsSum ==
    ASSUME NEW f, NEW T, IsFiniteSet(T), NEW s \in SUBSET T
    PROVE  Iter(f, T)[s] = Sum(f, s)
<1> DEFINE Same == {n \in Nat : \A u \in SUBSET s : Cardinality(u) <= n =>
                                    Iter(f, T)[u] = Iter(f, s)[u]}
<1>0. IsFiniteSet(s) /\ \A u \in SUBSET s : IsFiniteSet(u) /\ Cardinality(u) \in Nat
  BY FS_Subset, FS_CardinalityType
<1>1. \A u \in SUBSET s : /\ Iter(f, T)[u] = SumOf(f, Iter(f, T), u)
                          /\ Iter(f, s)[u] = SumOf(f, Iter(f, s), u)
  BY <1>0, IterUnfolds
<1>2. 0 \in Same
  <2>1. ASSUME NEW u \in SUBSET s, Cardinality(u) <= 0 PROVE Iter(f, T)[u] = Iter(f, s)[u]
    <3>1. Cardinality(u) = 0
      BY <1>0, <2>1
    <3>2. u = {}
      BY <1>0, <3>1, FS_EmptySet
    <3> QED BY <1>1, <3>2 DEF SumOf
  <2> QED BY <2>1
<1>3. ASSUME NEW n \in Nat, n \in Same PROVE n + 1 \in Same
  <2>1. ASSUME NEW u \in SUBSET s, Cardinality(u) <= n + 1
        PROVE  Iter(f, T)[u] = Iter(f, s)[u]
    <3>1. CASE u = {}
      BY <1>1, <3>1 DEF SumOf
    <3>2. CASE u # {}
      <4>1. Cardinality(u \ {Pick(u)}) <= n
        BY <1>0, <2>1, <3>2, PickIsIn, Smaller
      <4>2. Iter(f, T)[u \ {Pick(u)}] = Iter(f, s)[u \ {Pick(u)}]
        BY <1>3, <4>1
      <4> QED BY <1>1, <4>2 DEF SumOf
    <3> QED BY <3>1, <3>2
  <2> QED BY <2>1
<1>4. Cardinality(s) \in Same
  <2>1. Cardinality(s) \in Nat
    BY <1>0
  <2> HIDE DEF Same
  <2> QED BY <1>2, <1>3, <2>1, SetInduction
<1>5. Iter(f, T)[s] = Iter(f, s)[s]
  BY <1>0, <1>4
<1> QED BY <1>5, SumIsIter

LEMMA SumUnfolds ==
    ASSUME NEW f, NEW s, IsFiniteSet(s)
    PROVE  Sum(f, s) = IF s = {} THEN 0 ELSE f[Pick(s)] + Sum(f, s \ {Pick(s)})
<1>1. Iter(f, s)[s] = SumOf(f, Iter(f, s), s)
  BY IterUnfolds
<1>2. Iter(f, s)[s \ {Pick(s)}] = Sum(f, s \ {Pick(s)})
  BY IterIsSum
<1> QED BY <1>1, <1>2, SumIsIter DEF SumOf

\* A sum of naturals is one, and any element can be taken out of it.
LEMMA SumRemoves ==
    ASSUME NEW s, IsFiniteSet(s), NEW f, \A x \in s : f[x] \in Nat
    PROVE  /\ Sum(f, s) \in Nat
           /\ \A x \in s : Sum(f, s) = f[x] + Sum(f, s \ {x})
<1> DEFINE Fine(u)  == /\ Sum(f, u) \in Nat
                       /\ \A x \in u : Sum(f, u) = f[x] + Sum(f, u \ {x})
           Done == {n \in Nat : \A u \in SUBSET s : Cardinality(u) <= n => Fine(u)}
<1>0. \A u \in SUBSET s : IsFiniteSet(u) /\ Cardinality(u) \in Nat
  BY FS_Subset, FS_CardinalityType
<1>1. Fine({})
  <2>1. Sum(f, {}) = 0
    BY FS_EmptySet, SumUnfolds
  <2> QED BY <2>1
<1>2. 0 \in Done
  <2>1. ASSUME NEW u \in SUBSET s, Cardinality(u) <= 0 PROVE u = {}
    <3>1. Cardinality(u) = 0
      BY <1>0, <2>1
    <3> QED BY <1>0, <3>1, FS_EmptySet
  <2> HIDE DEF Fine
  <2> QED BY <1>1, <2>1
<1>3. ASSUME NEW n \in Nat, n \in Done PROVE n + 1 \in Done
  <2>1. ASSUME NEW u \in SUBSET s, Cardinality(u) <= n + 1, u # {} PROVE Fine(u)
    <3> DEFINE p == Pick(u)
    <3>1. p \in u /\ Sum(f, u) = f[p] + Sum(f, u \ {p})
      BY <1>0, <2>1, PickIsIn, SumUnfolds
    <3> HIDE DEF p
    <3>2. ASSUME NEW x \in u PROVE Fine(u \ {x})
      <4>1. Cardinality(u \ {x}) <= n /\ u \ {x} \in SUBSET s
        BY <1>0, <2>1, Smaller
      <4> HIDE DEF Fine
      <4> QED BY <1>3, <4>1
    <3>3. ASSUME NEW x \in u, x # p PROVE Sum(f, u) = f[x] + Sum(f, u \ {x})
      <4>1. /\ Sum(f, u \ {p}) = f[x] + Sum(f, (u \ {p}) \ {x})
            /\ Sum(f, u \ {x}) = f[p] + Sum(f, (u \ {x}) \ {p})
        BY <3>1, <3>2, <3>3
      <4>2. (u \ {p}) \ {x} = (u \ {x}) \ {p}
        OBVIOUS
      <4> DEFINE rest == Sum(f, (u \ {x}) \ {p})
      <4>3. Sum(f, u \ {p}) = f[x] + rest /\ Sum(f, u \ {x}) = f[p] + rest
        BY <4>1, <4>2
      <4>4. rest \in Nat
        <5>1. Cardinality(u \ {x}) <= n /\ u \ {x} \in SUBSET s
          BY <1>0, <2>1, Smaller
        <5>2. IsFiniteSet(u \ {x}) /\ p \in u \ {x}
          BY <1>0, <3>1, <3>3
        <5>3. Cardinality((u \ {x}) \ {p}) <= n
          <6>1. Cardinality((u \ {x}) \ {p}) = Cardinality(u \ {x}) - 1
            BY <5>2, FS_RemoveElement
          <6>2. Cardinality(u \ {x}) \in Nat
            BY <5>2, FS_CardinalityType
          <6> QED BY <5>1, <6>1, <6>2
        <5>4. (u \ {x}) \ {p} \in SUBSET s
          OBVIOUS
        <5> QED BY <1>3, <5>3, <5>4
      <4> HIDE DEF rest
      <4>5. f[x] \in Nat /\ f[p] \in Nat
        BY <3>1
      <4> QED BY <3>1, <4>3, <4>4, <4>5
    <3>4. Sum(f, u) \in Nat
      BY <3>1, <3>2
    <3> QED BY <3>1, <3>3, <3>4
  <2>2. ASSUME NEW u \in SUBSET s, Cardinality(u) <= n + 1 PROVE Fine(u)
    <3> HIDE DEF Fine
    <3> QED BY <1>1, <2>1, <2>2
  <2> HIDE DEF Fine
  <2> QED BY <2>2
<1>4. Cardinality(s) \in Done
  <2>1. Cardinality(s) \in Nat
    BY <1>0
  <2> HIDE DEF Done
  <2> QED BY <1>2, <1>3, <2>1, SetInduction
<1>5. Fine(s)
  <2> HIDE DEF Fine
  <2> QED BY <1>0, <1>4
<1> QED BY <1>5

\* Of two sets, one within the other, the smaller sums up to no more.
LEMMA SumGrows ==
    ASSUME NEW s, IsFiniteSet(s), NEW f, \A x \in s : f[x] \in Nat, NEW t \in SUBSET s
    PROVE  Sum(f, t) <= Sum(f, s)
<1> DEFINE Done == {n \in Nat : \A u \in SUBSET s : Cardinality(u) <= n =>
                                    \A v \in SUBSET u : Sum(f, v) <= Sum(f, u)}
<1>0. \A u \in SUBSET s : IsFiniteSet(u) /\ Cardinality(u) \in Nat /\ Sum(f, u) \in Nat
  BY FS_Subset, FS_CardinalityType, SumRemoves
<1>1. 0 \in Done
  <2>1. ASSUME NEW u \in SUBSET s, Cardinality(u) <= 0, NEW v \in SUBSET u
        PROVE  Sum(f, v) <= Sum(f, u)
    <3>1. Cardinality(u) = 0
      BY <1>0, <2>1
    <3>2. u = {} /\ v = u
      BY <1>0, <3>1, FS_EmptySet
    <3> QED BY <1>0, <3>2
  <2> QED BY <2>1
<1>2. ASSUME NEW n \in Nat, n \in Done PROVE n + 1 \in Done
  <2>1. ASSUME NEW u \in SUBSET s, Cardinality(u) <= n + 1, NEW v \in SUBSET u
        PROVE  Sum(f, v) <= Sum(f, u)
    <3>1. CASE v = u
      BY <1>0, <3>1
    <3>2. CASE v # u
      <4>1. PICK x \in u : v \in SUBSET (u \ {x})
        BY <3>2
      <4>2. u \ {x} \in SUBSET s /\ Cardinality(u \ {x}) <= n
        BY <1>0, <2>1, Smaller
      <4>3. Sum(f, v) <= Sum(f, u \ {x})
        BY <1>2, <4>1, <4>2
      <4>4. Sum(f, u) = f[x] + Sum(f, u \ {x}) /\ f[x] \in Nat
        BY <1>0, SumRemoves
      <4>5. Sum(f, u \ {x}) \in Nat /\ Sum(f, v) \in Nat /\ Sum(f, u) \in Nat
        BY <1>0, <4>2
      <4> QED BY <4>3, <4>4, <4>5
    <3> QED BY <3>1, <3>2
  <2> QED BY <2>1
<1>3. Cardinality(s) \in Done
  <2>1. Cardinality(s) \in Nat
    BY <1>0
  <2> HIDE DEF Done
  <2> QED BY <1>1, <1>2, <2>1, SetInduction
<1> QED BY <1>0, <1>3

-----------------------------------------------------------------------------
(* The bands of choose_variant                                              *)

\* The buckets of one per cent.
Step == BucketCount \div Whole

LEMMA Divides ==
    ASSUME NEW m \in Nat \ {0}, NEW n \in Nat \ {0}, m % n = 0
    PROVE  m \div n \in Nat \ {0} /\ m = (m \div n) * n
<1>1. m \div n \in Nat /\ m = (m \div n) * n
  OBVIOUS
<1>2. m \div n # 0
  OBVIOUS
<1> QED BY <1>1, <1>2

LEMMA StepDivides == Step \in Nat \ {0} /\ BucketCount = Step * Whole
BY Divides, BucketAssumption DEF Step, BucketAssumption

LEMMA ProductsCompare ==
    ASSUME NEW m \in Int, NEW n \in Int, NEW p \in Nat \ {0}
    PROVE  m * p < n * p <=> m < n
OBVIOUS

LEMMA Associates ==
    ASSUME NEW m \in Int, NEW n \in Int, NEW p \in Int
    PROVE  m * (n * p) = (m * n) * p
OBVIOUS

LEMMA Commutes == ASSUME NEW m \in Int, NEW n \in Int PROVE m * n = n * m
OBVIOUS

\* What begins below the band of a variant.
Before(weights, k) == Sum(weights, {j \in DOMAIN weights : j < k})

\* The weights of a flag that has variants.
Weighted(weights) ==
    /\ DOMAIN weights \subseteq VariantNames
    /\ DOMAIN weights # {}
    /\ \A k \in DOMAIN weights : weights[k] \in Nat
    /\ Total(weights) = Whole

LEMMA VariantsAreFinite ==
    ASSUME NEW weights, Weighted(weights), NEW T \in SUBSET DOMAIN weights
    PROVE  IsFiniteSet(T) /\ T \subseteq Int
<1>1. 1 \in Int /\ Names \in Int
  BY NamesAssumption DEF NamesAssumption
<1>2. IsFiniteSet(VariantNames) /\ VariantNames \subseteq Int
  BY <1>1, FS_Interval DEF VariantNames
<1>3. T \subseteq VariantNames
  BY DEF Weighted
<1> QED BY <1>2, <1>3, FS_Subset

LEMMA Bands ==
    ASSUME NEW weights, Weighted(weights), NEW k \in DOMAIN weights
    PROVE  /\ Before(weights, k) \in Nat
           /\ Cumulative(weights, k) = Before(weights, k) + weights[k]
           /\ Cumulative(weights, k) <= Whole
           /\ \A j \in DOMAIN weights : j < k => Cumulative(weights, j) <= Before(weights, k)
<1> DEFINE UpTo(i) == {j \in DOMAIN weights : j <= i}
           below   == {j \in DOMAIN weights : j < k}
<1>0. DOMAIN weights \subseteq Int /\ k \in Int /\ \A i \in DOMAIN weights : weights[i] \in Nat
  BY VariantsAreFinite DEF Weighted
<1>1. IsFiniteSet(DOMAIN weights) /\ IsFiniteSet(below) /\ IsFiniteSet(UpTo(k))
  BY VariantsAreFinite
<1>2. \A i \in DOMAIN weights : Cumulative(weights, i) = Sum(weights, UpTo(i))
  BY DEF Cumulative, Sum
<1>3. Sum(weights, DOMAIN weights) = Whole
  BY DEF Weighted, Total, Sum
<1>4. Before(weights, k) = Sum(weights, below)
  BY DEF Before
<1>5. UpTo(k) \ {k} = below /\ k \in UpTo(k)
  BY <1>0
<1>6. \A j \in DOMAIN weights : j < k => UpTo(j) \subseteq below
  BY <1>0
<1>7. UpTo(k) \subseteq DOMAIN weights /\ below \subseteq DOMAIN weights
  OBVIOUS
<1> HIDE DEF UpTo, below
<1>8. Sum(weights, below) \in Nat
  BY <1>0, <1>1, <1>7, SumRemoves
<1>9. Sum(weights, UpTo(k)) = weights[k] + Sum(weights, below)
  BY <1>0, <1>1, <1>5, <1>7, SumRemoves
<1>10. Sum(weights, UpTo(k)) <= Whole
  BY <1>0, <1>1, <1>3, <1>7, SumGrows
<1>11. \A j \in DOMAIN weights : j < k => Sum(weights, UpTo(j)) <= Sum(weights, below)
  BY <1>0, <1>1, <1>6, <1>7, SumGrows
<1> QED BY <1>0, <1>2, <1>4, <1>8, <1>9, <1>10, <1>11

\* Who is above nothing is below: a band ends where the next one begins.
LEMMA BeforeIsReached ==
    ASSUME NEW weights, Weighted(weights), NEW k \in DOMAIN weights
    PROVE  \/ Before(weights, k) = 0
           \/ \E j \in DOMAIN weights : j < k /\ Cumulative(weights, j) = Before(weights, k)
<1> DEFINE below == {j \in DOMAIN weights : j < k}
<1>1. CASE below = {}
  BY <1>1, SumUnfolds, FS_EmptySet DEF Before
<1>2. CASE below # {}
  <2>1. below \in SUBSET VariantNames
    BY DEF Weighted
  <2>2. Last(below) \in below /\ \A j \in below : j <= Last(below)
    BY <1>2, <2>1, LastIsIn
  <2>3. below = {j \in DOMAIN weights : j <= Last(below)}
    <3>1. DOMAIN weights \subseteq Int /\ k \in Int
      BY VariantsAreFinite
    <3> QED BY <2>2, <3>1
  <2> QED BY <2>2, <2>3 DEF Before, Cumulative, Sum
<1> QED BY <1>1, <1>2

\* The bucket of a user lies in the band of his variant, and in no other.
LEMMA BandIsBetween ==
    ASSUME NEW weights, Weighted(weights), NEW k \in DOMAIN weights, NEW b \in Buckets
    PROVE  Banded(weights, b) = k
             <=> Before(weights, k) * Step <= b /\ b < Cumulative(weights, k) * Step
<1> DEFINE above == Above(weights, b)
<1>0. /\ DOMAIN weights \subseteq Nat /\ DOMAIN weights # {}
      /\ \A i \in DOMAIN weights : /\ weights[i] \in Nat
                                   /\ Before(weights, i) \in Nat
                                   /\ Cumulative(weights, i) \in Nat
  BY Bands DEF Weighted, VariantNames
<1>1. \A i \in DOMAIN weights : i \in above <=> b < Cumulative(weights, i) * Step
  <2> SUFFICES ASSUME NEW i \in DOMAIN weights
               PROVE  b * Whole < Cumulative(weights, i) * BucketCount
                        <=> b < Cumulative(weights, i) * Step
    BY DEF Above, Weighted
  <2> DEFINE n == Cumulative(weights, i)
  <2>1. n \in Nat /\ b \in Nat
    BY <1>0 DEF Buckets
  <2> HIDE DEF n
  <2>2. n * BucketCount = (n * Step) * Whole
    BY <2>1, StepDivides, Associates, BucketAssumption DEF BucketAssumption
  <2>3. b * Whole < (n * Step) * Whole <=> b < n * Step
    BY <2>1, StepDivides, ProductsCompare, BucketAssumption DEF BucketAssumption
  <2> QED BY <2>2, <2>3 DEF n
<1>2. above \subseteq DOMAIN weights
  BY DEF Above
<1>3. above # {}
  <2> DEFINE last == Last(DOMAIN weights)
  <2>1. last \in DOMAIN weights /\ \A j \in DOMAIN weights : j <= last
    BY LastIsIn DEF Weighted
  <2>2. {j \in DOMAIN weights : j <= last} = DOMAIN weights
    BY <2>1
  <2>3. Cumulative(weights, last) = Whole
    BY <2>2 DEF Cumulative, Weighted, Total
  <2>4. b < Whole * Step
    BY StepDivides, Commutes, BucketAssumption DEF Buckets, BucketAssumption
  <2> QED BY <1>1, <2>1, <2>3, <2>4
<1>4. Banded(weights, b) = Least(above)
  BY <1>3, BucketAssumption DEF Banded, Weighted, BucketAssumption
<1>5. Least(above) \in above /\ \A j \in above : Least(above) <= j
  BY <1>0, <1>2, <1>3, LeastIsIn
<1> HIDE DEF above
<1>6. ASSUME Least(above) = k
      PROVE  Before(weights, k) * Step <= b /\ b < Cumulative(weights, k) * Step
  <2>1. CASE Before(weights, k) = 0
    BY <1>1, <1>5, <1>6, <2>1, StepDivides DEF Buckets
  <2>2. CASE \E j \in DOMAIN weights : j < k /\ Cumulative(weights, j) = Before(weights, k)
    <3>1. PICK j \in DOMAIN weights : j < k /\ Cumulative(weights, j) = Before(weights, k)
      BY <2>2
    <3>2. j \notin above
      BY <1>0, <1>5, <1>6, <3>1
    <3> DEFINE m == Cumulative(weights, j) * Step
    <3>3. ~ (b < m)
      BY <1>1, <3>2
    <3>4. m \in Int /\ b \in Int
      BY <1>0, StepDivides DEF Buckets
    <3> HIDE DEF m
    <3>5. m <= b
      BY <3>3, <3>4
    <3> QED BY <1>1, <1>5, <1>6, <3>1, <3>5 DEF m
  <2> QED BY <2>1, <2>2, BeforeIsReached
<1>7. ASSUME Before(weights, k) * Step <= b, b < Cumulative(weights, k) * Step
      PROVE  Least(above) = k
  <2>1. k \in above
    BY <1>1, <1>7
  <2>2. ASSUME NEW j \in DOMAIN weights, j < k PROVE j \notin above
    <3> DEFINE m == Cumulative(weights, j)
               n == Before(weights, k)
    <3>1. m \in Nat /\ n \in Nat /\ m <= n
      BY <1>0, <2>2, Bands
    <3>2. n * Step <= b
      BY <1>7
    <3>3. b \in Int /\ Step \in Nat
      BY StepDivides DEF Buckets
    <3>4. j \in above <=> b < m * Step
      BY <1>1
    <3> HIDE DEF m, n
    <3>5. m * Step <= n * Step
      BY <3>1, <3>3, ThresholdGrows
    <3>6. m * Step \in Int /\ n * Step \in Int
      BY <3>1, <3>3
    <3>7. ~ (b < m * Step)
      BY <3>2, <3>3, <3>5, <3>6
    <3> QED BY <3>4, <3>7
  <2> QED BY <1>0, <1>2, <1>5, <2>1, <2>2
<1> QED BY <1>4, <1>6, <1>7

-----------------------------------------------------------------------------
(* How many buckets                                                         *)

LEMMA BucketsBetween ==
    ASSUME NEW m \in Nat, NEW n \in Nat, m <= n, n <= BucketCount
    PROVE  LET between == {b \in Buckets : m <= b /\ b < n}
           IN  IsFiniteSet(between) /\ Cardinality(between) = n - m
<1> DEFINE between == {b \in Buckets : m <= b /\ b < n}
<1>1. BucketCount \in Nat /\ m \in Int /\ n - 1 \in Int
  BY BucketAssumption DEF BucketAssumption
<1>2. between = m .. (n - 1)
  BY <1>1 DEF Buckets
<1>3. IsFiniteSet(m .. (n - 1)) /\ Cardinality(m .. (n - 1)) = IF m > n - 1 THEN 0 ELSE (n - 1) - m + 1
  BY <1>1, FS_Interval
<1> HIDE DEF between
<1>4. Cardinality(between) = n - m
  BY <1>1, <1>2, <1>3
<1> QED BY <1>2, <1>3, <1>4 DEF between

\* Those of a variant, among all that there are.
LEMMA BandCounts ==
    ASSUME NEW weights, Weighted(weights), NEW k \in DOMAIN weights
    PROVE  LET band == {b \in Buckets : Banded(weights, b) = k}
           IN  IsFiniteSet(band) /\ Cardinality(band) = weights[k] * Step
<1> DEFINE m == Before(weights, k) * Step
           n == Cumulative(weights, k) * Step
           p == weights[k] * Step
<1>0. /\ Before(weights, k) \in Nat /\ weights[k] \in Nat
      /\ Cumulative(weights, k) = Before(weights, k) + weights[k]
      /\ Cumulative(weights, k) <= Whole
      /\ Step \in Nat /\ Whole \in Nat /\ BucketCount = Whole * Step
  <2>1. Whole \in Nat \ {0}
    BY BucketAssumption DEF BucketAssumption
  <2> QED BY <2>1, Bands, StepDivides, Commutes DEF Weighted
<1>1. {b \in Buckets : Banded(weights, b) = k} = {b \in Buckets : m <= b /\ b < n}
  BY BandIsBetween
<1>2. m \in Nat /\ p \in Nat /\ n = m + p
  BY <1>0
<1>3. n <= BucketCount
  BY <1>0, ThresholdGrows
<1> HIDE DEF m, n, p
<1>4. n \in Nat /\ m <= n /\ n - m = p
  BY <1>2
<1> QED BY <1>1, <1>2, <1>3, <1>4, BucketsBetween DEF p

LEMMA RolloutCounts ==
    ASSUME NEW flag \in FlagType, NEW context, NEW vbucket
    PROVE  LET included == {b \in Buckets :
                   InRollout(flag, [bucket |-> b, vbucket |-> vbucket, context |-> context])}
           IN  IsFiniteSet(included) /\ Cardinality(included) = flag.rollout * Step
<1> DEFINE n == flag.rollout * Step
           user(b) == [bucket |-> b, vbucket |-> vbucket, context |-> context]
<1>0. /\ flag.rollout \in 0 .. Whole
      /\ Whole \in Nat /\ Step \in Nat /\ BucketCount = Whole * Step /\ Threshold(flag) = n
  <2>1. Whole \in Nat \ {0}
    BY BucketAssumption DEF BucketAssumption
  <2> QED BY <2>1, StepDivides, Commutes DEF FlagType, Threshold, Step
<1>1. n \in Nat /\ n <= BucketCount
  BY <1>0, ThresholdGrows
<1>2. ASSUME NEW b \in Buckets PROVE InRollout(flag, user(b)) <=> 0 <= b /\ b < n
  <2>1. InRollout(flag, user(b)) <=> flag.rollout > 0 /\ (flag.rollout >= Whole \/ b < n)
    BY <1>0 DEF InRollout
  <2>2. flag.rollout = 0 => n = 0
    BY <1>0
  <2>3. flag.rollout >= Whole => n = BucketCount
    BY <1>0
  <2> HIDE DEF n
  <2> QED BY <1>0, <1>1, <2>1, <2>2, <2>3 DEF Buckets
<1> HIDE DEF n
<1>3. {b \in Buckets : InRollout(flag, user(b))} = {b \in Buckets : 0 <= b /\ b < n}
  BY <1>2
<1>4. 0 <= n /\ n - 0 = n
  BY <1>1
<1> QED BY <1>1, <1>3, <1>4, BucketsBetween DEF n

-----------------------------------------------------------------------------
(* Each gets its share                                                      *)

\* Nobody whom a rule matches, and the bucket of the rollout does not tell the
\* variant: whom it includes and whom the variant gets make up a product.
LEMMA IncludedIsAProduct ==
    ASSUME NEW flag \in FlagType, NEW context, NEW variant, flag.enabled,
           ~ \E i \in DOMAIN flag.rules : RuleMatches(flag.rules[i], context)
    PROVE  Included(flag, context, variant) =
             {b \in Buckets :
                 InRollout(flag, [bucket |-> b, vbucket |-> 0, context |-> context])}
             \X {b \in Buckets :
                    ChooseVariant(flag, [bucket |-> 0, vbucket |-> b, context |-> context])
                        = variant}
<1> DEFINE user(b, v) == [bucket |-> b, vbucket |-> v, context |-> context]
<1>1. ASSUME NEW b, NEW v
      PROVE  /\ InRollout(flag, user(b, v)) <=> InRollout(flag, user(b, 0))
             /\ ChooseVariant(flag, user(b, v)) = ChooseVariant(flag, user(0, v))
  BY DEF InRollout, ChooseVariant
<1>2. ASSUME NEW b, NEW v
      PROVE  Evaluate(flag, user(b, v)) = Served("rollout_included", variant)
               <=> InRollout(flag, user(b, v)) /\ ChooseVariant(flag, user(b, v)) = variant
  <2>1. Matching(flag, user(b, v)) = {}
    BY DEF Matching
  <2> QED BY <2>1 DEF Evaluate, Served, OffResult
<1>3. ASSUME NEW b, NEW v
      PROVE  Evaluate(flag, user(b, v)) = Served("rollout_included", variant)
               <=> InRollout(flag, user(b, 0)) /\ ChooseVariant(flag, user(0, v)) = variant
  BY <1>1, <1>2
<1> QED BY <1>3 DEF Included

LEMMA Arithmetic ==
    ASSUME NEW r \in Nat, NEW w \in Nat, NEW s \in Nat, NEW n \in Nat
    PROVE  ((r * s) * (w * s)) * n * n = w * r * (s * n) * (s * n)
OBVIOUS

\* The share of any variant, of any flag whose weights sum up.
LEMMA SharesOfAFlag ==
    ASSUME NEW flag \in FlagType, SharesAll(flag.variants), NEW context, flag.enabled,
           ~ \E i \in DOMAIN flag.rules : RuleMatches(flag.rules[i], context),
           NEW variant \in IF VariantKeys(flag) = {} THEN {NoVariant} ELSE VariantKeys(flag)
    PROVE  Cardinality(Included(flag, context, variant)) * Whole * Whole =
               Share(flag, variant) * flag.rollout * BucketCount * BucketCount
<1> DEFINE included ==
               {b \in Buckets :
                   InRollout(flag, [bucket |-> b, vbucket |-> 0, context |-> context])}
           band ==
               {b \in Buckets :
                   ChooseVariant(flag, [bucket |-> 0, vbucket |-> b, context |-> context])
                       = variant}
           share == Share(flag, variant)
<1>1. /\ Whole \in Nat /\ Step \in Nat /\ BucketCount = Step * Whole
      /\ BucketCount = Whole * Step
  <2>1. Whole \in Nat \ {0}
    BY BucketAssumption DEF BucketAssumption
  <2> QED BY <2>1, StepDivides, Commutes
<1>2. IsFiniteSet(included) /\ Cardinality(included) = flag.rollout * Step
  BY RolloutCounts
<1>3. IsFiniteSet(band) /\ Cardinality(band) = share * Step /\ share \in Nat
  <2>1. CASE VariantKeys(flag) = {}
    <3>1. variant = NoVariant /\ share = Whole
      BY <2>1 DEF Share
    <3>2. band = {b \in Buckets : 0 <= b /\ b < BucketCount}
      BY <2>1, <3>1, <1>1 DEF ChooseVariant, Buckets
    <3>3. BucketCount \in Nat /\ 0 <= BucketCount /\ BucketCount <= BucketCount
      BY BucketAssumption DEF BucketAssumption
    <3>4. IsFiniteSet(band) /\ Cardinality(band) = BucketCount - 0
      <4> HIDE DEF band
      <4> QED BY <3>2, <3>3, BucketsBetween
    <3> HIDE DEF band, share
    <3> QED BY <1>1, <3>1, <3>3, <3>4
  <2>2. CASE VariantKeys(flag) # {}
    <3>1. variant \in DOMAIN flag.variants
      BY <2>2 DEF VariantKeys
    <3>2. flag.variants \in VariantSets
      BY DEF FlagType
    <3>3. Weighted(flag.variants)
      <4>1. DOMAIN flag.variants \subseteq VariantNames
        BY <3>2, ListsAssumption DEF ListsAssumption
      <4>2. \A k \in DOMAIN flag.variants : flag.variants[k] \in 0 .. Whole
        BY <3>2, ListsAssumption DEF ListsAssumption
      <4>3. \A k \in DOMAIN flag.variants : flag.variants[k] \in Nat
        BY <4>2, <1>1
      <4> QED BY <2>2, <4>1, <4>3 DEF Weighted, SharesAll, VariantKeys
    <3>4. band = {b \in Buckets : Banded(flag.variants, b) = variant}
      BY <2>2 DEF ChooseVariant
    <3>5. variant # NoVariant
      BY <3>1, <3>3, NamesAssumption DEF Weighted, VariantNames, NamesAssumption
    <3>6. share = flag.variants[variant]
      BY <3>5 DEF Share
    <3> HIDE DEF band, share
    <3> QED BY <3>1, <3>3, <3>4, <3>6, BandCounts DEF Weighted
  <2> QED BY <2>1, <2>2
<1>4. Included(flag, context, variant) = included \X band
  BY IncludedIsAProduct
<1>5. flag.rollout \in Nat
  BY <1>1 DEF FlagType
<1> HIDE DEF included, band, share
<1>6. Cardinality(Included(flag, context, variant)) = (flag.rollout * Step) * (share * Step)
  BY <1>2, <1>3, <1>4, FS_Product
<1>7. ((flag.rollout * Step) * (share * Step)) * Whole * Whole
        = share * flag.rollout * BucketCount * BucketCount
  BY <1>1, <1>3, <1>5, Arithmetic
<1> QED BY <1>6, <1>7 DEF share

\* Whatever the load, the variants of the spec are those of one coherent row,
\* or none.
WeightsAreWhole == SharesAll(spec.variants)

LEMMA WeightsInductive == TypeOK /\ WeightsAreWhole /\ [Next]_vars => WeightsAreWhole'
<1> SUFFICES ASSUME TypeOK, WeightsAreWhole, [Next]_vars PROVE WeightsAreWhole'
  OBVIOUS
<1> USE DEF WeightsAreWhole
<1>1. \A new \in Rows : new \in FlagType /\ SharesAll(new.variants)
  BY RowsType DEF IsCoherent
<1>2. row \in FlagType /\ SharesAll(row.variants)
  BY DEF TypeOK, IsCoherent
<1>3. ASSUME NEW new \in Rows, Replace(new) PROVE WeightsAreWhole'
  BY <1>1, <1>3 DEF Replace
<1>4. ASSUME NEW new \in Rows, Edit(new) PROVE WeightsAreWhole'
  BY <1>1, <1>4 DEF Edit, FlagType
<1>5. ASSUME NEW new \in Rows, TornLoad(new) PROVE WeightsAreWhole'
  BY <1>1, <1>2, <1>5 DEF TornLoad, FlagType
<1>6. ASSUME NEW new \in Rows, TornByDeletion(new) PROVE WeightsAreWhole'
  <2>1. spec'.variants = NoWeights
    BY <1>2, <1>6 DEF TornByDeletion, FlagType
  <2> QED BY <2>1 DEF SharesAll, NoWeights
<1>7. ASSUME Load PROVE WeightsAreWhole'
  BY <1>2, <1>7 DEF Load, FlagType
<1>8. ASSUME UNCHANGED vars PROVE WeightsAreWhole'
  BY <1>8 DEF vars
<1> QED BY <1>3, <1>4, <1>5, <1>6, <1>7, <1>8 DEF Next

\* Among the users no rule matches, a variant gets the share of its weight, to
\* the user, for any rollout and any numbers of buckets and of variants.
THEOREM ShareTheorem == Spec => []SharesMatchWeights
<1>1. Init => WeightsAreWhole
  BY RowsType DEF Init, WeightsAreWhole, IsCoherent
<1>2. TypeOK /\ WeightsAreWhole => SharesMatchWeights
  BY SharesOfAFlag DEF TypeOK, WeightsAreWhole, SharesMatchWeights
<1> QED BY <1>1, <1>2, WeightsInductive, TypeTheorem, PTL DEF Spec
=============================================================================
