------------------------- MODULE RecommenderProofs -------------------------
(***************************************************************************)
(* The readout of the decaying histogram for every set of pods, usages,    *)
(* buckets, percentile and order of delivery: its weights are those of the *)
(* samples counted, in a unit that each rescaling changes exactly, so the  *)
(* bucket read out is the smallest that covers the configured percentile.  *)
(*                                                                         *)
(* Induction is over sets of naturals, from their well-foundedness; powers *)
(* of two are counted as subsets of an interval.                           *)
(***************************************************************************)
EXTENDS Recommender, FiniteSetTheorems, WellFoundedInduction, TLAPS

---------------------------------------------------------------------------
(* Naturals.                                                               *)

\* A nonempty set of naturals has a minimum, which Min returns.
LEMMA MinOfNaturals ==
  ASSUME NEW T, T \subseteq Nat, T # {}
  PROVE  Min(T) \in T /\ \A y \in T : Min(T) <= y
<1> DEFINE R == {ss \in Nat \X Nat : ss[1] < ss[2]}
<1>1. IsWellFoundedOn(R, Nat)
  BY NatLessThanWellFounded DEF OpToRel
<1> HIDE DEF R
<1>2. PICK x \in T : \A y \in T : <<y, x>> \notin R
  BY <1>1, WFMin, Zenon
<1>3. ASSUME NEW y \in T PROVE x <= y
  <2>1. ~(y < x)
    BY <1>2 DEF R
  <2> QED
    BY <2>1
<1> QED
  BY <1>3 DEF Min

\* A set that holds 0, and up to n the successor of each of its members, holds
\* every natural up to n.
LEMMA InductionUpTo ==
  ASSUME NEW n \in Nat, NEW T, 0 \in T, \A i \in 0..n : i > 0 /\ i - 1 \in T => i \in T
  PROVE  0..n \subseteq T
<1> SUFFICES ASSUME (0..n) \ T # {} PROVE FALSE
  OBVIOUS
<1> DEFINE m == Min((0..n) \ T)
<1>1. m \in (0..n) \ T /\ \A y \in (0..n) \ T : m <= y
  BY MinOfNaturals
<1> HIDE DEF m
<1>2. m > 0 /\ m - 1 \in 0..n
  BY <1>1
<1>3. m - 1 \in T
  BY <1>1, <1>2
<1> QED
  BY <1>1, <1>2, <1>3

\* 2^n counts the subsets of 1..n.
LEMMA PowerCounts ==
  ASSUME NEW n \in Nat
  PROVE  /\ IsFiniteSet(SUBSET (1..n)) /\ Cardinality(SUBSET (1..n)) = 2^n
         /\ 2^n \in Nat
<1>1. IsFiniteSet(1..n) /\ Cardinality(1..n) = n
  BY FS_Interval
<1>2. IsFiniteSet(SUBSET (1..n)) /\ Cardinality(SUBSET (1..n)) = 2^n
  BY <1>1, FS_SUBSET
<1> QED
  BY <1>2, FS_CardinalityType

\* The next power of two is twice the last: a subset has the new element or not.
LEMMA Doubles ==
  ASSUME NEW n \in Nat
  PROVE  2^(n + 1) = 2 * 2^n
<1> DEFINE A == SUBSET (1..n)
           B == {X \cup {n + 1} : X \in A}
           f == [X \in A |-> X \cup {n + 1}]
<1>1. SUBSET (1..(n + 1)) = A \cup B
  <2>1. ASSUME NEW X \in SUBSET (1..(n + 1)) PROVE X \in A \cup B
    <3>1. CASE n + 1 \in X
      <4>1. X \ {n + 1} \in A
        OBVIOUS
      <4>2. X = (X \ {n + 1}) \cup {n + 1}
        BY <3>1
      <4> QED
        BY <4>1, <4>2
    <3>2. CASE n + 1 \notin X
      BY <3>2
    <3> QED
      BY <3>1, <3>2
  <2>2. ASSUME NEW X \in A \cup B PROVE X \in SUBSET (1..(n + 1))
    OBVIOUS
  <2> QED
    BY <2>1, <2>2
<1>2. A \cap B = {}
  OBVIOUS
<1>3. f \in Bijection(A, B)
  <2>1. f \in [A -> B]
    BY Zenon
  <2>2. ASSUME NEW X \in A, NEW Y \in A, f[X] = f[Y] PROVE X = Y
    <3>1. X \cup {n + 1} = Y \cup {n + 1}
      BY <2>2
    <3>2. n + 1 \notin X /\ n + 1 \notin Y
      OBVIOUS
    <3>3. X = (X \cup {n + 1}) \ {n + 1} /\ Y = (Y \cup {n + 1}) \ {n + 1}
      BY <3>2
    <3> QED
      BY <3>1, <3>3, Zenon
  <2>3. \A Y \in B : \E X \in A : f[X] = Y
    BY Zenon
  <2> QED
    BY <2>1, <2>2, <2>3, Zenon DEF Bijection, Injection, Surjection, IsInjective
<1>4. IsFiniteSet(A) /\ Cardinality(A) = 2^n /\ 2^n \in Nat
  BY PowerCounts
<1>5. IsFiniteSet(B) /\ Cardinality(B) = 2^n
  <2>1. ExistsBijection(A, B)
    BY <1>3, Zenon DEF ExistsBijection
  <2> QED
    BY <1>4, <2>1, FS_Bijection, Zenon
<1>6. Cardinality(A \cup B) = 2^n + 2^n - Cardinality(A \cap B)
  BY <1>4, <1>5, FS_Union, Zenon
<1>7. Cardinality(A \cap B) = 0
  BY <1>2, FS_EmptySet, Zenon
<1>8. Cardinality(SUBSET (1..(n + 1))) = 2^(n + 1)
  BY PowerCounts
<1>9. 2^(n + 1) = 2^n + 2^n - 0
  BY <1>1, <1>6, <1>7, <1>8, Zenon
<1> DEFINE p == 2^n
           q == 2^(n + 1)
<1>10. p \in Nat /\ q = p + p - 0
  BY <1>4, <1>9, Zenon
<1> HIDE DEF p, q
<1>11. q = 2 * p
  BY <1>10
<1> QED
  BY <1>11, Zenon DEF p, q

\* Powers of two are positive, and their exponents add.
LEMMA PowerPositive ==
  ASSUME NEW n \in Nat
  PROVE  2^n \in Nat /\ 2^n > 0
<1>1. {} \in SUBSET (1..n)
  OBVIOUS
<1>2. Cardinality(SUBSET (1..n)) # 0
  BY <1>1, PowerCounts, FS_EmptySet, Zenon
<1> DEFINE p == 2^n
<1>3. p \in Nat /\ p # 0
  BY <1>2, PowerCounts, Zenon
<1> HIDE DEF p
<1>4. p \in Nat /\ p > 0
  BY <1>3
<1> QED
  BY <1>4 DEF p

LEMMA PowerZero == 2^0 = 1
<1>1. 0 \in Nat /\ SUBSET (1..0) = {{}}
  OBVIOUS
<1>2. Cardinality(SUBSET (1..0)) = 2^0
  BY <1>1, PowerCounts, Zenon
<1>3. Cardinality({{}}) = 1
  BY FS_Singleton, Zenon
<1> QED
  BY <1>1, <1>2, <1>3, Zenon

LEMMA PowerAdds ==
  ASSUME NEW m \in Nat, NEW n \in Nat
  PROVE  2^(m + n) = 2^m * 2^n
<1> DEFINE T == {i \in Nat : 2^(m + i) = 2^m * 2^i}
<1>1. 0 \in T
  <2> DEFINE p == 2^m
  <2>1. p \in Nat
    BY PowerPositive, Zenon
  <2> HIDE DEF p
  <2>2. p * 1 = p
    BY <2>1
  <2>3. 2^m = 2^m * 1
    BY <2>2, Zenon DEF p
  <2>4. m + 0 = m
    OBVIOUS
  <2> QED
    BY <2>3, <2>4, PowerZero, Zenon
<1>2. ASSUME NEW i \in 0..n, i > 0, i - 1 \in T PROVE i \in T
  <2> DEFINE j == i - 1
             p == 2^m
             q == 2^j
             r == 2^(m + j)
  <2>1. j \in Nat /\ i = j + 1 /\ m + i = (m + j) + 1 /\ m + j \in Nat /\ i \in Nat
    BY <1>2
  <2>2. r = p * q
    BY <1>2
  <2>3. 2^((m + j) + 1) = 2 * 2^(m + j) /\ 2^(j + 1) = 2 * 2^j
    BY <2>1, Doubles, Zenon
  <2>4. 2^(m + i) = 2 * r /\ 2^i = 2 * q
    BY <2>1, <2>3, Zenon
  <2>5. p \in Nat /\ q \in Nat
    BY <2>1, PowerPositive, Zenon
  <2> HIDE DEF p, q, r
  <2>6. 2 * r = p * (2 * q)
    BY <2>2, <2>5
  <2>7. 2^(m + i) = p * 2^i
    BY <2>4, <2>6, Zenon
  <2> QED
    BY <2>1, <2>7 DEF p
<1> HIDE DEF T
<1>3. 0..n \subseteq T
  BY <1>1, <1>2, InductionUpTo
<1>4. n \in T
  BY <1>3
<1> QED
  BY <1>4 DEF T
\* A larger exponent is a larger power.
LEMMA PowerMonotonic ==
  ASSUME NEW m \in Nat, NEW n \in Nat, m <= n
  PROVE  2^m <= 2^n
<1> DEFINE d == n - m
           p == 2^m
           q == 2^d
<1>1. d \in Nat /\ n = m + d
  OBVIOUS
<1>2. 2^n = p * q
  BY <1>1, PowerAdds, Zenon
<1>3. p \in Nat /\ q \in Nat /\ q > 0
  BY <1>1, PowerPositive, Zenon
<1> HIDE DEF p, q
<1>4. p <= p * q
  BY <1>3
<1> QED
  BY <1>2, <1>4, Zenon DEF p

\* A product is divided by its factor exactly.
LEMMA ExactQuotient ==
  ASSUME NEW a \in Nat, NEW k \in Nat, k > 0
  PROVE  (a * k) \div k = a
OBVIOUS

---------------------------------------------------------------------------
(* The decayed weight of a set of samples.                                 *)

\* Fewer samples have fewer units.
LEMMA FewerUnits ==
  ASSUME NEW T, IsFiniteSet(Units(T)), NEW S, S \subseteq T
  PROVE  IsFiniteSet(Units(S)) /\ Decayed(S) \in Nat /\ Decayed(S) <= Decayed(T)
<1>1. Units(S) \in SUBSET Units(T)
  BY DEF Units
<1>2. IsFiniteSet(Units(S)) /\ Cardinality(Units(S)) <= Cardinality(Units(T))
  BY <1>1, FS_Subset, Zenon
<1> QED
  BY <1>2, FS_CardinalityType, Zenon DEF Decayed

\* The weights of different samples add up.
LEMMA DecayedAdds ==
  ASSUME NEW S, NEW T, S \cap T = {}, IsFiniteSet(Units(S)), IsFiniteSet(Units(T))
  PROVE  /\ IsFiniteSet(Units(S \cup T))
         /\ Decayed(S) \in Nat /\ Decayed(T) \in Nat
         /\ Decayed(S \cup T) = Decayed(S) + Decayed(T)
<1>1. Units(S \cup T) = Units(S) \cup Units(T)
  BY DEF Units
<1>2. Units(S) \cap Units(T) = {}
  <2>1. ASSUME NEW x \in Units(S), x \in Units(T) PROVE FALSE
    <3>1. PICK s \in S : x \in {s} \X (1..2^s[2])
      BY DEF Units
    <3>2. PICK t \in T : x \in {t} \X (1..2^t[2])
      BY <2>1 DEF Units
    <3>3. x[1] = s /\ x[1] = t
      BY <3>1, <3>2
    <3> QED
      BY <3>3
  <2> QED
    BY <2>1
<1>3. Cardinality(Units(S)) \in Nat /\ Cardinality(Units(T)) \in Nat
  BY FS_CardinalityType, Zenon
<1>4. Cardinality(Units(S) \cap Units(T)) = 0
  BY <1>2, FS_EmptySet, Zenon
<1>5. /\ IsFiniteSet(Units(S \cup T))
      /\ Cardinality(Units(S \cup T)) = Cardinality(Units(S)) + Cardinality(Units(T)) - 0
  BY <1>1, <1>4, FS_Union, Zenon
<1> QED
  BY <1>3, <1>5 DEF Decayed

\* No sample has no weight, and a sample at t has 2^t units.
LEMMA DecayedNone == IsFiniteSet(Units({})) /\ Decayed({}) = 0
<1>1. Units({}) = {}
  BY DEF Units
<1> QED
  BY <1>1, FS_EmptySet, Zenon DEF Decayed

LEMMA DecayedOne ==
  ASSUME NEW s, s[2] \in Nat
  PROVE  IsFiniteSet(Units({s})) /\ Decayed({s}) = 2^s[2]
<1> DEFINE n == 2^s[2]
<1>1. Units({s}) = {s} \X (1..n)
  BY Zenon DEF Units
<1>2. n \in Nat /\ n > 0
  BY PowerPositive, Zenon
<1> HIDE DEF n
<1>3. IsFiniteSet(1..n) /\ Cardinality(1..n) = n
  BY <1>2, FS_Interval
<1>4. IsFiniteSet({s}) /\ Cardinality({s}) = 1
  BY FS_Singleton, Zenon
<1>5. IsFiniteSet({s} \X (1..n)) /\ Cardinality({s} \X (1..n)) = 1 * n
  BY <1>3, <1>4, FS_Product, Zenon
<1>6. 1 * n = n
  BY <1>2
<1> QED
  BY <1>1, <1>5, <1>6, Zenon DEF Decayed, n

\* A sample has weight.
LEMMA DecayedSome ==
  ASSUME NEW T, IsFiniteSet(Units(T)), NEW s \in T, s[2] \in Nat
  PROVE  Decayed(T) > 0
<1> DEFINE n == 2^s[2]
<1>1. n \in Nat /\ n > 0
  BY PowerPositive, Zenon
<1>2. 1 \in 1..n
  BY <1>1
<1> HIDE DEF n
<1>3. <<s, 1>> \in Units(T)
  BY <1>2 DEF Units, n
<1>4. Decayed(T) # 0
  BY <1>3, FS_EmptySet, Zenon DEF Decayed
<1> QED
  BY <1>4, FewerUnits

---------------------------------------------------------------------------
(* Buckets.                                                                *)

\* The bounds of the buckets grow.
LEMMA UpperBounds ==
  /\ \A b \in Buckets : UpperBound(b) \in Nat
  /\ \A b, c \in Buckets : b <= c => UpperBound(b) <= UpperBound(c)
<1>1. ASSUME NEW b \in Buckets PROVE UpperBound(b) \in Nat
  <2> DEFINE p == 2^b
  <2>1. b \in Nat
    BY RecommenderAssumption DEF Buckets
  <2>2. p \in Nat
    BY <2>1, PowerPositive, Zenon
  <2> HIDE DEF p
  <2>3. Base * p \in Nat
    BY <2>2, RecommenderAssumption
  <2> QED
    BY <2>3 DEF UpperBound, p
<1>2. ASSUME NEW b \in Buckets, NEW c \in Buckets, b <= c
      PROVE  UpperBound(b) <= UpperBound(c)
  <2> DEFINE p == 2^b
             q == 2^c
  <2>1. b \in Nat /\ c \in Nat
    BY RecommenderAssumption DEF Buckets
  <2>2. p \in Nat /\ q \in Nat /\ p <= q
    BY <1>2, <2>1, PowerPositive, PowerMonotonic, Zenon
  <2> HIDE DEF p, q
  <2>3. Base * p <= Base * q
    BY <2>2, RecommenderAssumption
  <2> QED
    BY <2>3, Zenon DEF UpperBound, p, q
<1> QED
  BY <1>1, <1>2

\* A usage falls in a bucket, and below the last one in that bucket or a lower one
\* exactly when it is within the bound.
LEMMA BucketForBounds ==
  ASSUME NEW v \in Nat
  PROVE  /\ BucketFor(v) \in Buckets
         /\ \A b \in Buckets : b < LastBucket => (BucketFor(v) <= b <=> v <= UpperBound(b))
<1> DEFINE T == {b \in Buckets : v <= UpperBound(b)}
<1>1. LastBucket \in Nat /\ Buckets \subseteq Nat /\ LastBucket \in Buckets
  BY RecommenderAssumption DEF Buckets
<1>2. CASE T # {}
  <2>1. BucketFor(v) = Min(T) /\ Min(T) \in T /\ \A b \in T : Min(T) <= b
    BY <1>1, <1>2, MinOfNaturals DEF BucketFor
  <2>2. ASSUME NEW b \in Buckets, Min(T) <= b PROVE v <= UpperBound(b)
    <3>1. UpperBound(Min(T)) <= UpperBound(b) /\ v <= UpperBound(Min(T))
      BY <2>1, <2>2, UpperBounds
    <3>2. UpperBound(Min(T)) \in Nat /\ UpperBound(b) \in Nat
      BY <2>1, UpperBounds
    <3> QED
      BY <3>1, <3>2
  <2> QED
    BY <2>1, <2>2
<1>3. CASE T = {}
  <2>1. BucketFor(v) = LastBucket
    BY <1>3 DEF BucketFor
  <2>2. \A b \in Buckets : ~(v <= UpperBound(b))
    BY <1>3
  <2> QED
    BY <1>1, <2>1, <2>2
<1> QED
  BY <1>2, <1>3

---------------------------------------------------------------------------
(* The running sum of percentile.                                          *)

\* The recursive definition has a solution, which is what it defines.
LEMMA CumulativeSums ==
  ASSUME weights \in [Buckets -> Nat]
  PROVE  \A b \in Buckets :
           Cumulative[b] = IF b = 0 THEN weights[0] ELSE Cumulative[b - 1] + weights[b]
<1> DEFINE Sums(f, n) ==
             f = [b \in 0..n |-> IF b = 0 THEN weights[0] ELSE f[b - 1] + weights[b]]
           T == {n \in 0..LastBucket : \E f : Sums(f, n)}
<1>1. LastBucket \in Nat /\ Buckets = 0..LastBucket
  BY RecommenderAssumption DEF Buckets
<1>2. 0 \in T
  <2> DEFINE f == [b \in 0..0 |-> weights[0]]
  <2>1. f = [b \in 0..0 |-> IF b = 0 THEN weights[0] ELSE f[b - 1] + weights[b]]
    OBVIOUS
  <2>2. Sums(f, 0)
    BY <2>1, Zenon
  <2>3. 0 \in 0..LastBucket
    BY <1>1
  <2> HIDE DEF f, Sums
  <2> QED
    BY <2>2, <2>3
<1>3. ASSUME NEW n \in 0..LastBucket, n > 0, n - 1 \in T PROVE n \in T
  <2>1. PICK f : Sums(f, n - 1)
    BY <1>3
  <2> DEFINE g == [b \in 0..n |-> IF b = n THEN f[n - 1] + weights[n] ELSE f[b]]
  <2>2. ASSUME NEW b \in 0..n
        PROVE  g[b] = IF b = 0 THEN weights[0] ELSE g[b - 1] + weights[b]
    <3>1. CASE b = n
      BY <1>1, <1>3, <3>1
    <3>2. CASE b # n
      <4>1. b \in 0..(n - 1) /\ g[b] = f[b]
        BY <1>1, <1>3, <3>2
      <4>2. f[b] = IF b = 0 THEN weights[0] ELSE f[b - 1] + weights[b]
        BY <2>1, <4>1
      <4>3. b # 0 => g[b - 1] = f[b - 1]
        BY <1>1, <1>3, <3>2
      <4> QED
        BY <4>1, <4>2, <4>3
    <3> QED
      BY <3>1, <3>2
  <2>3. g = [b \in 0..n |-> g[b]]
    OBVIOUS
  <2> HIDE DEF g
  <2>4. Sums(g, n)
    BY <2>2, <2>3
  <2> QED
    BY <1>3, <2>4
<1> HIDE DEF T
<1>4. LastBucket \in T
  <2>1. 0..LastBucket \subseteq T
    BY <1>1, <1>2, <1>3, InductionUpTo
  <2> QED
    BY <1>1, <2>1
<1>5. \E f : f = [b \in Buckets |-> IF b = 0 THEN weights[0] ELSE f[b - 1] + weights[b]]
  BY <1>1, <1>4 DEF T
<1>6. Cumulative =
        [b \in Buckets |-> IF b = 0 THEN weights[0] ELSE Cumulative[b - 1] + weights[b]]
  BY <1>5, Zenon DEF Cumulative
<1> QED
  BY <1>6, Zenon
---------------------------------------------------------------------------
(* The invariant: the histogram holds the samples counted.                 *)

\* The samples of a bucket, and of a bucket and those below it.
Bucketed(b) == {s \in counted : BucketFor(s[3]) = b}
UpToBucket(b) == {s \in counted : BucketFor(s[3]) <= b}

\* Weights with reference ref are the decayed weights of the samples, in a unit
\* that depends on the reference alone.
HoldsSamples(w, total, ref) ==
  /\ w \in [Buckets -> Nat] /\ total \in Nat
  /\ \A b \in Buckets : w[b] = 2^(MaxTime - ref) * Decayed(Bucketed(b))
  /\ total = 2^(MaxTime - ref) * Decayed(counted)

Inv ==
  /\ TypeOK
  /\ IsFiniteSet(Units(counted))
  /\ refTime = Unset => counted = {}
  /\ \A s \in counted : s[2] <= lastSample[s[1]]
  /\ HoldsSamples(weights, totalWeight, refTime)

\* Fewer of the samples remembered weigh no more.
LEMMA FewerCounted ==
  ASSUME Inv, NEW T, T \subseteq counted, NEW S, S \subseteq T
  PROVE  /\ Decayed(S) \in Nat /\ Decayed(T) \in Nat /\ Decayed(S) <= Decayed(T)
         /\ Decayed(counted) \in Nat
<1>1. IsFiniteSet(Units(counted))
  BY DEF Inv
<1>2. IsFiniteSet(Units(T)) /\ Decayed(T) \in Nat
  BY <1>1, FewerUnits
<1>3. Decayed(counted) \in Nat
  BY <1>1, FewerUnits
<1> QED
  BY <1>2, <1>3, FewerUnits

\* Samples are triples with a time and a usage, and their weights are finite.
LEMMA SampleFacts ==
  ASSUME Inv
  PROVE  /\ Decayed(counted) \in Nat
         /\ \A s \in counted : s[2] \in Nat /\ s[3] \in Nat /\ BucketFor(s[3]) \in Buckets
         /\ \A b \in Buckets : /\ Decayed(Bucketed(b)) \in Nat
                               /\ IsFiniteSet(Units(Bucketed(b)))
                               /\ Decayed(UpToBucket(b)) \in Nat
                               /\ IsFiniteSet(Units(UpToBucket(b)))
<1>1. IsFiniteSet(Units(counted))
  BY DEF Inv
<1>2. \A S : S \subseteq counted => Decayed(S) \in Nat /\ IsFiniteSet(Units(S))
  BY <1>1, FewerUnits
<1>3. ASSUME NEW b PROVE Bucketed(b) \subseteq counted /\ UpToBucket(b) \subseteq counted
  BY DEF Bucketed, UpToBucket
<1>4. ASSUME NEW s \in counted
      PROVE  s[2] \in Nat /\ s[3] \in Nat /\ BucketFor(s[3]) \in Buckets
  <2>1. s \in Pods \X Times \X Values
    BY DEF Inv, TypeOK
  <2>2. s[2] \in Times /\ s[3] \in Values
    BY <2>1
  <2>3. s[2] \in Nat /\ s[3] \in Nat
    <3>1. Times \subseteq Nat /\ Values \subseteq Nat
      BY RecommenderAssumption DEF Times
    <3> QED
      BY <2>2, <3>1
  <2> DEFINE v == s[3]
  <2>4. v \in Nat
    BY <2>3
  <2> HIDE DEF v
  <2>5. BucketFor(v) \in Buckets
    BY <2>4, BucketForBounds
  <2> QED
    BY <2>3, <2>5 DEF v
<1> QED
  BY <1>2, <1>3, <1>4

\* The unit: positive, and that of an earlier reference is a multiple.
LEMMA UnitFacts ==
  ASSUME NEW ref \in Times \cup {Unset}
  PROVE  /\ 2^(MaxTime - ref) \in Nat /\ 2^(MaxTime - ref) > 0
         /\ \A t \in Times : Weight(t, ref) = 2^(MaxTime - ref) * 2^t
         /\ \A now \in Times : ref <= now =>
              2^(MaxTime - ref) = 2^(MaxTime - now) * 2^(now - ref)
<1>1. MaxTime - ref \in Nat /\ ref \in Nat
  BY RecommenderAssumption DEF Times, Unset
<1>2. ASSUME NEW t \in Times PROVE Weight(t, ref) = 2^(MaxTime - ref) * 2^t
  <2>1. t \in Nat /\ MaxTime + t - ref = (MaxTime - ref) + t
    BY <1>1, RecommenderAssumption DEF Times
  <2>2. 2^((MaxTime - ref) + t) = 2^(MaxTime - ref) * 2^t
    BY <1>1, <2>1, PowerAdds, Zenon
  <2> QED
    BY <2>1, <2>2, Zenon DEF Weight
<1>3. ASSUME NEW now \in Times, ref <= now
      PROVE  2^(MaxTime - ref) = 2^(MaxTime - now) * 2^(now - ref)
  <2>1. MaxTime - now \in Nat /\ now - ref \in Nat /\ MaxTime - ref = (MaxTime - now) + (now - ref)
    BY <1>1, <1>3, RecommenderAssumption DEF Times
  <2> QED
    BY <2>1, PowerAdds, Zenon
<1> QED
  BY <1>1, <1>2, <1>3, PowerPositive, Zenon

\* Rescaling changes the unit and loses nothing: every weight is a multiple.
LEMMA PreparedHolds ==
  ASSUME Inv, NEW t \in Times
  PROVE  /\ Prepared(t).ref \in Times
         /\ HoldsSamples(Prepared(t).weights, Prepared(t).total, Prepared(t).ref)
<1> DEFINE ref == IF refTime = Unset THEN t ELSE refTime
<1>1. ref \in Times
  BY DEF Inv, TypeOK
<1>2. HoldsSamples(weights, totalWeight, ref)
  <2>1. CASE refTime = Unset
    <3>1. counted = {} /\ \A b \in Buckets : Bucketed(b) = {}
      BY <2>1 DEF Inv, Bucketed
    <3>2. Decayed(counted) = 0 /\ \A b \in Buckets : Decayed(Bucketed(b)) = 0
      BY <3>1, DecayedNone
    <3>3. \A r \in Times \cup {Unset} : 2^(MaxTime - r) * 0 = 0
      <4> SUFFICES ASSUME NEW r \in Times \cup {Unset} PROVE 2^(MaxTime - r) * 0 = 0
        OBVIOUS
      <4> DEFINE p == 2^(MaxTime - r)
      <4>1. p \in Nat
        BY UnitFacts, Zenon
      <4> HIDE DEF p
      <4>2. p * 0 = 0
        BY <4>1
      <4> QED
        BY <4>2 DEF p
    <3>4. totalWeight = 0 /\ \A b \in Buckets : weights[b] = 0
      BY <2>1, <3>2, <3>3, Zenon DEF Inv, HoldsSamples, Unset
    <3>5. weights \in [Buckets -> Nat] /\ totalWeight \in Nat
      BY DEF Inv, HoldsSamples
    <3> HIDE DEF ref
    <3> QED
      BY <1>1, <3>2, <3>3, <3>4, <3>5, Zenon DEF HoldsSamples
  <2>2. CASE refTime # Unset
    BY <2>2 DEF Inv
  <2> QED
    BY <2>1, <2>2
<1> HIDE DEF ref
<1>3. Prepared(t) = IF t - ref > MaxExp THEN Rescaled(t, ref)
                    ELSE [weights |-> weights, total |-> totalWeight, ref |-> ref]
  BY DEF Prepared, ref
<1>4. CASE t - ref > MaxExp
  <2> DEFINE k == 2^(t - ref)
             u == 2^(MaxTime - ref)
             v == 2^(MaxTime - t)
  <2>1. ref <= t /\ t - ref \in Nat
    BY <1>1, <1>4, RecommenderAssumption DEF Times
  <2>2. u = v * k /\ k \in Nat /\ k > 0 /\ v \in Nat
    BY <1>1, <2>1, UnitFacts, PowerPositive, Zenon
  <2>3. /\ weights \in [Buckets -> Nat] /\ totalWeight \in Nat
        /\ \A b \in Buckets : weights[b] = u * Decayed(Bucketed(b))
        /\ totalWeight = u * Decayed(counted)
    BY <1>2 DEF HoldsSamples
  <2> HIDE DEF k, u, v
  <2>4. ASSUME NEW d \in Nat PROVE (u * d) \div k = v * d /\ v * d \in Nat
    <3>1. v * d \in Nat /\ u * d = (v * d) * k
      BY <2>2
    <3> QED
      BY <2>2, <3>1, ExactQuotient
  <2>5. /\ \A b \in Buckets : /\ weights[b] \div k = v * Decayed(Bucketed(b))
                              /\ weights[b] \div k \in Nat
        /\ totalWeight \div k = v * Decayed(counted)
        /\ totalWeight \div k \in Nat
    BY <2>3, <2>4, SampleFacts
  <2>6. Prepared(t) = [weights |-> [b \in Buckets |-> weights[b] \div k],
                       total |-> totalWeight \div k, ref |-> t]
    BY <1>3, <1>4 DEF Rescaled, k
  <2>7. /\ Prepared(t).weights = [b \in Buckets |-> weights[b] \div k]
        /\ Prepared(t).total = totalWeight \div k
        /\ Prepared(t).ref = t
    BY <2>6
  <2>8. /\ Prepared(t).weights \in [Buckets -> Nat]
        /\ \A b \in Buckets : Prepared(t).weights[b] = v * Decayed(Bucketed(b))
    BY <2>5, <2>7
  <2> QED
    BY <2>5, <2>7, <2>8, Zenon DEF HoldsSamples, v
<1>5. CASE ~(t - ref > MaxExp)
  BY <1>1, <1>2, <1>3, <1>5
<1> QED
  BY <1>4, <1>5

\* A new sample adds its decayed weight to the total and to its bucket.
LEMMA ObserveHolds ==
  ASSUME Inv, NEW p \in Pods, NEW t \in Times, NEW v \in Values, Observe(p, t, v)
  PROVE  Inv'
<1> DEFINE s == <<p, t, v>>
           h == Prepared(t)
           k == BucketFor(v)
           u == 2^(MaxTime - h.ref)
           n == 2^t
           b0(b) == Bucketed(b)
<1>1. h.ref \in Times /\ HoldsSamples(h.weights, h.total, h.ref)
  BY PreparedHolds
<1>2. /\ v \in Nat /\ k \in Buckets /\ t \in Nat /\ s[1] = p /\ s[2] = t /\ s[3] = v
      /\ s \in Pods \X Times \X Values /\ t # Unset
  BY BucketForBounds, RecommenderAssumption DEF Times, Unset
<1>3. ASSUME NEW x PROVE <<p, t, x>> \notin counted
  <2>1. \A y \in counted : y[2] <= lastSample[y[1]]
    BY DEF Inv
  <2>2. <<p, t, x>> \in counted => t <= lastSample[p]
    BY <2>1
  <2>3. Newer(p, t)
    BY DEF Observe
  <2>4. lastSample[p] \in Nat /\ (lastSample[p] = Unset => ~(t <= lastSample[p]))
    BY RecommenderAssumption DEF Inv, TypeOK, Times, Unset
  <2> QED
    BY <1>2, <2>2, <2>3, <2>4 DEF Newer
<1>4. counted' = counted \cup {s} /\ s \notin counted
  BY <1>3 DEF Observe
<1>5. IsFiniteSet(Units({s})) /\ Decayed({s}) = n /\ n \in Nat
  BY <1>2, DecayedOne, PowerPositive, Zenon
<1>6. Weight(t, h.ref) = u * n /\ u \in Nat
  BY <1>1, UnitFacts, Zenon
<1>7. /\ weights' = [h.weights EXCEPT ![k] = @ + u * n]
      /\ totalWeight' = h.total + u * n
      /\ refTime' = h.ref
      /\ lastSample' = [lastSample EXCEPT ![p] = t]
      /\ rec' = None
  BY <1>6 DEF Observe
<1>8. /\ h.weights \in [Buckets -> Nat] /\ h.total \in Nat
      /\ \A b \in Buckets : h.weights[b] = u * Decayed(Bucketed(b))
      /\ h.total = u * Decayed(counted)
  BY <1>1 DEF HoldsSamples
<1> HIDE DEF h, u, n, k
<1>9. u * n \in Nat
  BY <1>5, <1>6
<1>10. /\ IsFiniteSet(Units(counted)) /\ counted \cap {s} = {}
       /\ Decayed(counted) \in Nat
  BY <1>4, SampleFacts DEF Inv
<1>11. IsFiniteSet(Units(counted')) /\ Decayed(counted') = Decayed(counted) + n
  BY <1>4, <1>5, <1>10, DecayedAdds
<1>12. totalWeight' = u * Decayed(counted') /\ totalWeight' \in Nat
  BY <1>5, <1>6, <1>7, <1>8, <1>9, <1>10, <1>11
<1>13. ASSUME NEW b \in Buckets
       PROVE  weights'[b] = u * Decayed(Bucketed(b)')
  <2>1. Decayed(Bucketed(b)) \in Nat /\ IsFiniteSet(Units(Bucketed(b)))
    BY SampleFacts
  <2>2. CASE b = k
    <3>1. Bucketed(b)' = Bucketed(b) \cup {s} /\ Bucketed(b) \cap {s} = {}
      <4>1. Bucketed(b)' = {x \in counted' : BucketFor(x[3]) = b}
        BY DEF Bucketed, BucketFor, UpperBound
      <4> QED
        BY <1>2, <1>4, <2>2, <4>1 DEF Bucketed, k
    <3>2. Decayed(Bucketed(b)') = Decayed(Bucketed(b)) + n
      BY <1>5, <2>1, <3>1, DecayedAdds
    <3>3. weights'[b] = h.weights[b] + u * n
      BY <1>7, <1>8, <2>2
    <3> QED
      BY <1>5, <1>6, <1>8, <2>1, <3>2, <3>3
  <2>3. CASE b # k
    <3>1. Bucketed(b)' = Bucketed(b)
      <4>1. Bucketed(b)' = {x \in counted' : BucketFor(x[3]) = b}
        BY DEF Bucketed, BucketFor, UpperBound
      <4> QED
        BY <1>2, <1>4, <2>3, <4>1 DEF Bucketed, k
    <3>2. weights'[b] = h.weights[b]
      BY <1>7, <1>8, <2>3
    <3> QED
      BY <1>8, <3>1, <3>2
  <2> QED
    BY <2>2, <2>3
<1>14. weights' \in [Buckets -> Nat]
  BY <1>2, <1>7, <1>8, <1>9
<1>15. HoldsSamples(weights, totalWeight, refTime)'
  BY <1>7, <1>12, <1>13, <1>14 DEF HoldsSamples, u, Decayed, Units
<1>16. TypeOK'
  BY <1>1, <1>2, <1>4, <1>7, <1>12, <1>14 DEF Inv, TypeOK, h
<1>17. \A x \in counted' : x[2] <= lastSample'[x[1]]
  <2> SUFFICES ASSUME NEW x \in counted' PROVE x[2] <= lastSample'[x[1]]
    OBVIOUS
  <2>1. lastSample \in [Pods -> Times \cup {Unset}] /\ Newer(p, t)
    BY DEF Inv, TypeOK, Observe
  <2>2. CASE x = s
    BY <1>2, <1>7, <2>1, <2>2
  <2>3. CASE x \in counted
    <3>1. x[1] \in Pods /\ x[2] \in Nat /\ x[2] <= lastSample[x[1]]
      <4>1. x \in Pods \X Times \X Values
        BY <2>3 DEF Inv, TypeOK
      <4> QED
        BY <2>3, <4>1, SampleFacts DEF Inv
    <3>2. CASE x[1] = p
      <4>1. x[2] \in Times
        BY <2>3 DEF Inv, TypeOK
      <4>2. lastSample[p] # Unset
        BY <3>1, <3>2, <4>1, RecommenderAssumption DEF Times, Unset
      <4>3. t > lastSample[p] /\ lastSample[p] \in Nat
        BY <2>1, <4>2, RecommenderAssumption DEF Newer, Times
      <4> QED
        BY <1>2, <1>7, <2>1, <3>1, <3>2, <4>3
    <3>3. CASE x[1] # p
      BY <1>7, <2>1, <3>1, <3>3
    <3> QED
      BY <3>2, <3>3
  <2> QED
    BY <1>4, <2>2, <2>3
<1>18. refTime' # Unset
  BY <1>1, <1>7, RecommenderAssumption DEF h, Times, Unset
<1>19. IsFiniteSet(Units(counted))'
  BY <1>11 DEF Units
<1> QED
  BY <1>15, <1>16, <1>17, <1>18, <1>19 DEF Inv
\* The histogram starts empty, and again after a restart.
LEMMA EmptyHolds ==
  /\ Init => Inv
  /\ Restart => Inv'
<1>1. IsFiniteSet(Units({})) /\ Decayed({}) = 0 /\ 2^(MaxTime - Unset) * 0 = 0
  <2> DEFINE p == 2^(MaxTime - Unset)
  <2>1. p \in Nat
    BY UnitFacts, Zenon
  <2> HIDE DEF p
  <2>2. p * 0 = 0
    BY <2>1
  <2> QED
    BY <2>2, DecayedNone DEF p
<1> DEFINE none == [b \in Buckets |-> 0]
<1>2. none \in [Buckets -> Nat] /\ \A b \in Buckets : none[b] = 0
  OBVIOUS
<1>3. /\ [p \in Pods |-> Unset] \in [Pods -> Times \cup {Unset}]
      /\ {} \subseteq Pods \X Times \X Values
      /\ None \in Buckets \cup {None} /\ 0 \in Nat /\ Unset \in Times \cup {Unset}
  OBVIOUS
<1> HIDE DEF none
<1>4. ASSUME Init PROVE Inv
  <2>1. weights = none /\ totalWeight = 0 /\ refTime = Unset /\ counted = {}
    BY <1>4 DEF Init, none
  <2>2. \A b \in Buckets : Bucketed(b) = {}
    BY <2>1 DEF Bucketed
  <2>3. HoldsSamples(weights, totalWeight, refTime)
    BY <1>1, <1>2, <1>3, <2>1, <2>2, Zenon DEF HoldsSamples
  <2>4. TypeOK
    BY <1>2, <1>3, <1>4, <2>1 DEF Init, TypeOK
  <2> QED
    BY <1>1, <2>1, <2>3, <2>4 DEF Inv
<1>5. ASSUME Restart PROVE Inv'
  <2>1. weights' = none /\ totalWeight' = 0 /\ refTime' = Unset /\ counted' = {}
    BY <1>5 DEF Restart, none
  <2>2. \A b \in Buckets : Bucketed(b)' = {}
    BY <2>1 DEF Bucketed
  <2>3. Decayed(counted)' = 0 /\ \A b \in Buckets : Decayed(Bucketed(b))' = 0
    <3>1. Decayed(counted)' = Decayed(counted') /\ \A b \in Buckets : Decayed(Bucketed(b))' = Decayed(Bucketed(b)')
      BY DEF Decayed, Units
    <3> QED
      BY <1>1, <2>1, <2>2, <3>1
  <2>4. HoldsSamples(weights, totalWeight, refTime)'
    BY <1>1, <1>2, <1>3, <2>1, <2>3, Zenon DEF HoldsSamples
  <2>5. TypeOK'
    BY <1>2, <1>3, <1>5, <2>1 DEF Restart, TypeOK
  <2>6. IsFiniteSet(Units(counted))'
    <3>1. Units(counted)' = Units({})
      BY <2>1 DEF Units
    <3> QED
      BY <1>1, <3>1
  <2> QED
    BY <2>1, <2>4, <2>5, <2>6 DEF Inv
<1> QED
  BY <1>4, <1>5

\* The running sum at a bucket is the decayed weight up to that bucket.
LEMMA CumulativeWeight ==
  ASSUME Inv
  PROVE  \A b \in Buckets : Cumulative[b] = 2^(MaxTime - refTime) * Decayed(UpToBucket(b))
<1> DEFINE u == 2^(MaxTime - refTime)
           T == {b \in Buckets : Cumulative[b] = u * Decayed(UpToBucket(b))}
<1>1. LastBucket \in Nat /\ Buckets = 0..LastBucket
  BY RecommenderAssumption DEF Buckets
<1>2. u \in Nat
  BY UnitFacts, Zenon DEF Inv, TypeOK
<1>3. /\ weights \in [Buckets -> Nat]
      /\ \A b \in Buckets : weights[b] = u * Decayed(Bucketed(b))
  BY DEF Inv, HoldsSamples
<1>4. \A b \in Buckets :
        Cumulative[b] = IF b = 0 THEN weights[0] ELSE Cumulative[b - 1] + weights[b]
  BY <1>3, CumulativeSums
<1> HIDE DEF u
<1>5. 0 \in T
  <2>1. UpToBucket(0) = Bucketed(0)
    <3>1. \A s \in counted : BucketFor(s[3]) <= 0 <=> BucketFor(s[3]) = 0
      BY <1>1, SampleFacts
    <3> QED
      BY <3>1 DEF UpToBucket, Bucketed
  <2>2. 0 \in Buckets
    BY <1>1
  <2> QED
    BY <1>3, <1>4, <2>1, <2>2
<1>6. ASSUME NEW b \in 0..LastBucket, b > 0, b - 1 \in T PROVE b \in T
  <2>1. b \in Buckets /\ b - 1 \in Buckets /\ b # 0
    BY <1>1, <1>6
  <2>2. UpToBucket(b) = UpToBucket(b - 1) \cup Bucketed(b) /\ UpToBucket(b - 1) \cap Bucketed(b) = {}
    <3>1. \A s \in counted :
            /\ BucketFor(s[3]) <= b <=> (BucketFor(s[3]) <= b - 1 \/ BucketFor(s[3]) = b)
            /\ ~(BucketFor(s[3]) <= b - 1 /\ BucketFor(s[3]) = b)
      BY <1>1, <2>1, SampleFacts
    <3> QED
      BY <3>1 DEF UpToBucket, Bucketed
  <2>3. /\ IsFiniteSet(Units(UpToBucket(b - 1))) /\ IsFiniteSet(Units(Bucketed(b)))
        /\ Decayed(UpToBucket(b - 1)) \in Nat /\ Decayed(Bucketed(b)) \in Nat
    BY <2>1, SampleFacts
  <2>4. Decayed(UpToBucket(b)) = Decayed(UpToBucket(b - 1)) + Decayed(Bucketed(b))
    BY <2>2, <2>3, DecayedAdds
  <2>5. Cumulative[b] = u * Decayed(UpToBucket(b - 1)) + u * Decayed(Bucketed(b))
    BY <1>3, <1>4, <1>6, <2>1
  <2>6. Cumulative[b] = u * Decayed(UpToBucket(b))
    BY <1>2, <2>3, <2>4, <2>5
  <2> QED
    BY <2>1, <2>6
<1> HIDE DEF T
<1>7. 0..LastBucket \subseteq T
  BY <1>1, <1>5, <1>6, InductionUpTo
<1> QED
  BY <1>1, <1>7 DEF T, u

\* What reaches the threshold covers the percentile, and what does not, does not
\* cover more: the unit cancels.
LEMMA ReachesCovers ==
  ASSUME Inv, NEW b \in Buckets, NEW slip \in BOOLEAN
  PROVE  LET d == Decayed(UpToBucket(b))
             total == Decayed(counted)
         IN  /\ Reaches(b, slip) => d * 100 >= Percentile * total
             /\ ~Reaches(b, slip) => d * 100 <= Percentile * total
             /\ d * 100 > Percentile * total => Reaches(b, slip)
<1> DEFINE u == 2^(MaxTime - refTime)
           d == Decayed(UpToBucket(b))
           total == Decayed(counted)
<1>1. u \in Nat /\ u > 0
  BY UnitFacts, Zenon DEF Inv, TypeOK
<1>2. d \in Nat /\ total \in Nat /\ Percentile \in Nat
  BY SampleFacts, RecommenderAssumption
<1>3. Cumulative[b] = u * d /\ totalWeight = u * total
  BY CumulativeWeight DEF Inv, HoldsSamples
<1>4. Reaches(b, slip) <=> \/ Cumulative[b] * 100 > Percentile * totalWeight
                           \/ ~slip /\ Cumulative[b] * 100 = Percentile * totalWeight
  BY DEF Reaches
<1> HIDE DEF u, d, total
<1> DEFINE x == d * 100
           y == Percentile * total
<1>5. /\ Cumulative[b] * 100 = u * x /\ Percentile * totalWeight = u * y
      /\ x \in Nat /\ y \in Nat
  BY <1>1, <1>2, <1>3
<1> HIDE DEF x, y
<1>6. (u * x > u * y <=> x > y) /\ (u * x = u * y <=> x = y)
  BY <1>1, <1>5
<1>7. /\ Reaches(b, slip) => x >= y
      /\ ~Reaches(b, slip) => x <= y
      /\ x > y => Reaches(b, slip)
  BY <1>4, <1>5, <1>6
<1> QED
  BY <1>7 DEF d, total, x, y

\* The bucket read out is the first that reaches the threshold, or the last one.
LEMMA ReadOutFirst ==
  ASSUME NEW slip
  PROVE  /\ ReadOut(slip) \in Buckets
         /\ ReadOut(slip) # LastBucket => Reaches(ReadOut(slip), slip)
         /\ \A b \in Buckets : b < ReadOut(slip) => ~Reaches(b, slip)
<1> DEFINE T == {b \in Buckets : Reaches(b, slip)}
<1>1. LastBucket \in Buckets /\ Buckets \subseteq Nat
  BY RecommenderAssumption DEF Buckets
<1>2. CASE T # {}
  <2>1. ReadOut(slip) = Min(T) /\ Min(T) \in T /\ \A b \in T : Min(T) <= b
    BY <1>1, <1>2, MinOfNaturals DEF ReadOut
  <2> HIDE DEF T
  <2>2. \A b \in Buckets : b < Min(T) => b \notin T
    <3> DEFINE m == Min(T)
    <3>1. m \in Nat /\ \A b \in T : m <= b
      BY <1>1, <2>1 DEF T
    <3> HIDE DEF m
    <3>2. \A b \in Buckets : b < m => b \notin T
      BY <1>1, <3>1
    <3> QED
      BY <3>2 DEF m
  <2> QED
    BY <2>1, <2>2 DEF T
<1>3. CASE T = {}
  BY <1>1, <1>3 DEF ReadOut
<1> QED
  BY <1>2, <1>3

\* Below the last bucket, the samples up to a bucket are those up to its bound.
LEMMA UpToBound ==
  ASSUME Inv, NEW b \in Buckets, b < LastBucket
  PROVE  UpToBucket(b) = UpTo(UpperBound(b))
<1>1. \A s \in counted : BucketFor(s[3]) <= b <=> s[3] <= UpperBound(b)
  BY SampleFacts, BucketForBounds
<1> QED
  BY <1>1 DEF UpToBucket, UpTo
\* Every step keeps the histogram in line with the samples counted.
LEMMA InvStep == Inv /\ [Next]_vars => Inv'
<1> SUFFICES ASSUME Inv, [Next]_vars PROVE Inv'
  OBVIOUS
<1>1. ASSUME NEW p \in Pods, NEW t \in Times, NEW v \in Values, Observe(p, t, v)
      PROVE  Inv'
  BY <1>1, ObserveHolds
<1>2. ASSUME UNCHANGED <<lastSample, weights, totalWeight, refTime, counted>>,
             rec' \in Buckets \cup {None}
      PROVE  Inv'
  <2>1. TypeOK'
    BY <1>2 DEF Inv, TypeOK
  <2>2. HoldsSamples(weights, totalWeight, refTime)'
    BY <1>2 DEF Inv, HoldsSamples, Bucketed, Decayed, Units, BucketFor, UpperBound
  <2>3. IsFiniteSet(Units(counted))'
    BY <1>2 DEF Inv, Units
  <2>4. (refTime = Unset => counted = {})' /\ (\A s \in counted : s[2] <= lastSample[s[1]])'
    BY <1>2 DEF Inv
  <2> QED
    BY <2>1, <2>2, <2>3, <2>4 DEF Inv
<1>3. ASSUME NEW slip \in BOOLEAN, Recommend(slip)
      PROVE  Inv'
  BY <1>2, <1>3, ReadOutFirst DEF Recommend
<1>4. CASE Restart
  BY <1>4, EmptyHolds
<1>5. CASE UNCHANGED vars
  BY <1>2, <1>5 DEF vars, Inv, TypeOK
<1> QED
  BY <1>1, <1>3, <1>4, <1>5 DEF Next

LEMMA Invariance == Spec => []Inv
<1>1. Init => Inv
  BY EmptyHolds
<1> QED
  BY <1>1, InvStep, PTL DEF Spec

---------------------------------------------------------------------------
(* Theorems.                                                               *)

\* The histogram keeps its types: a readout is always one of the buckets.
THEOREM TypeCorrect == Spec => []TypeOK
<1>1. Inv => TypeOK
  BY DEF Inv
<1> QED
  BY <1>1, Invariance, PTL

\* What is covered depends on the samples and on the readout.
LEMMA ReadOutKept ==
  ASSUME UNCHANGED <<rec, counted>>
  PROVE  /\ Covers => Covers'
         /\ Smallest => Smallest'
BY DEF Covers, Smallest, Decayed, Units, UpTo, UpperBound, BucketFor

\* A sample drops the readout, and so does a restart.
LEMMA OnlyRecommendReads ==
  ASSUME [Next]_vars
  PROVE  \/ rec' = None
         \/ UNCHANGED <<rec, counted>>
         \/ \E slip \in BOOLEAN : Recommend(slip)
BY DEF Next, Observe, Restart, vars

\* Whatever is delivered late or twice, and however often weights are rescaled,
\* the bucket read out covers the configured percentile of the decayed samples.
THEOREM CoversHolds == Spec => []Covers
<1>1. Init => Covers
  BY DEF Init, Covers, None, Buckets
<1>2. Inv /\ Covers /\ [Next]_vars => Covers'
  <2> SUFFICES ASSUME Inv, Covers, [Next]_vars PROVE Covers'
    OBVIOUS
  <2>1. CASE rec' = None
    BY <2>1 DEF Covers, None, Buckets
  <2>2. CASE UNCHANGED <<rec, counted>>
    BY <2>2, ReadOutKept
  <2>3. ASSUME NEW slip \in BOOLEAN, Recommend(slip) PROVE Covers'
    <3>1. rec' = ReadOut(slip) /\ counted' = counted
      BY <2>3 DEF Recommend
    <3> DEFINE r == ReadOut(slip)
    <3>2. ASSUME r # LastBucket
          PROVE  Decayed(UpTo(UpperBound(r))) * 100 >= Percentile * Decayed(counted)
      <4>1. r \in Buckets /\ Reaches(r, slip)
        BY <3>2, ReadOutFirst
      <4> HIDE DEF r
      <4>2. r < LastBucket
        BY <3>2, <4>1, RecommenderAssumption DEF Buckets
      <4> QED
        BY <4>1, <4>2, ReachesCovers, UpToBound
    <3>3. Covers' <=> (r \in Buckets \ {LastBucket} =>
            Decayed(UpTo(UpperBound(r))) * 100 >= Percentile * Decayed(counted))
      <4> HIDE DEF r
      <4>1. rec' = r
        BY <3>1 DEF r
      <4> QED
        BY <3>1, <4>1 DEF Covers, Decayed, Units, UpTo, UpperBound, Buckets
    <3> QED
      BY <3>2, <3>3
  <2> QED
    BY <2>1, <2>2, <2>3, OnlyRecommendReads
<1> QED
  BY <1>1, <1>2, Invariance, PTL DEF Spec

\* Below 100 percent it is the smallest such bucket, and never beyond the one of
\* the largest sample.  At 100 a rounding error of the sums may pass over it.
THEOREM SmallestHolds ==
  ASSUME Percentile < 100
  PROVE  Spec => []Smallest
<1>1. Init => Smallest
  BY DEF Init, Smallest, None, Buckets
<1>2. Inv /\ Smallest /\ [Next]_vars => Smallest'
  <2> SUFFICES ASSUME Inv, Smallest, [Next]_vars PROVE Smallest'
    OBVIOUS
  <2>1. CASE rec' = None
    BY <2>1 DEF Smallest, None, Buckets
  <2>2. CASE UNCHANGED <<rec, counted>>
    BY <2>2, ReadOutKept
  <2>3. ASSUME NEW slip \in BOOLEAN, Recommend(slip) PROVE Smallest'
    <3> DEFINE r == ReadOut(slip)
    <3>1. rec' = r /\ counted' = counted /\ totalWeight > 0
      BY <2>3 DEF Recommend
    <3>2. r \in Buckets /\ \A b \in Buckets : b < r => ~Reaches(b, slip)
      BY ReadOutFirst
    <3> HIDE DEF r
    <3>3. Decayed(counted) \in Nat /\ Decayed(counted) > 0 /\ counted # {}
      <4> DEFINE u == 2^(MaxTime - refTime)
                 d == Decayed(counted)
      <4>1. u \in Nat /\ d \in Nat /\ totalWeight = u * d
        BY UnitFacts, SampleFacts, Zenon DEF Inv, TypeOK, HoldsSamples
      <4>2. counted = {} => d = 0
        BY DecayedNone
      <4> HIDE DEF u, d
      <4>3. d > 0 /\ counted # {}
        BY <3>1, <4>1, <4>2
      <4> QED
        BY <4>1, <4>3 DEF d
    <3>4. ASSUME r > 0
          PROVE  /\ r - 1 \in Buckets
                 /\ Decayed(UpToBucket(r - 1)) * 100 <= Percentile * Decayed(counted)
                 /\ Decayed(UpTo(UpperBound(r - 1))) * 100 <= Percentile * Decayed(counted)
      <4>1. r - 1 \in Buckets /\ r - 1 < r /\ r - 1 < LastBucket
        BY <3>2, <3>4, RecommenderAssumption DEF Buckets
      <4>2. ~Reaches(r - 1, slip)
        BY <3>2, <4>1
      <4>3. Decayed(UpToBucket(r - 1)) * 100 <= Percentile * Decayed(counted)
        BY <4>1, <4>2, ReachesCovers
      <4>4. UpToBucket(r - 1) = UpTo(UpperBound(r - 1))
        BY <4>1, UpToBound
      <4> QED
        BY <4>1, <4>3, <4>4
    <3>5. \E s \in counted : r <= BucketFor(s[3])
      <4> SUFFICES ASSUME \A s \in counted : ~(r <= BucketFor(s[3])) PROVE FALSE
        OBVIOUS
      <4>1. \A s \in counted : BucketFor(s[3]) \in Nat /\ r \in Nat
        BY <3>2, SampleFacts, RecommenderAssumption DEF Buckets
      <4>2. r > 0 /\ UpToBucket(r - 1) = counted
        BY <3>3, <4>1 DEF UpToBucket
      <4>3. Decayed(counted) * 100 <= Percentile * Decayed(counted)
        BY <3>4, <4>2
      <4> DEFINE d == Decayed(counted)
      <4>4. d \in Nat /\ d > 0 /\ d * 100 <= Percentile * d
        BY <3>3, <4>3
      <4> HIDE DEF d
      <4> QED
        BY <4>4, RecommenderAssumption
    <3>6. Smallest' <=> (r \in Buckets =>
            /\ r > 0 => Decayed(UpTo(UpperBound(r - 1))) * 100 <= Percentile * Decayed(counted)
            /\ \E s \in counted : r <= BucketFor(s[3]))
      BY <3>1 DEF Smallest, Decayed, Units, UpTo, UpperBound, BucketFor, Buckets
    <3> QED
      BY <3>4, <3>5, <3>6
  <2> QED
    BY <2>1, <2>2, <2>3, OnlyRecommendReads
<1> QED
  BY <1>1, <1>2, Invariance, PTL DEF Spec
============================================================================
