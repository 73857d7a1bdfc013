------------------------- MODULE WindowMetricsProofs -------------------------
(***************************************************************************)
(* Proofs about WindowMetrics for every event and every number of events,  *)
(* every rule and every precision: what the sums and the percentile of a   *)
(* window are, that metrics, parameters and bars keep their ranges, and    *)
(* what silence does.                                                      *)
(***************************************************************************)
EXTENDS WindowMetrics, FiniteSetTheorems, TLAPS

---------------------------------------------------------------------------
(* Induction and sums over finite sets.                                   *)

\* A set of naturals has a least element: the intervals 0..n are ordered by
\* inclusion, which is well-founded on finite sets.
LEMMA LeastNatural ==
    ASSUME NEW G \in SUBSET Nat, G # {}
    PROVE  \E n \in G : \A k \in G : n <= k
<1>. DEFINE T == {0..n : n \in G}
<1>1. T \subseteq FiniteSubsetsOf(Nat)
  <2>1. \A n \in G : IsFiniteSet(0..n)
    BY FS_Interval
  <2>2. \A n \in G : 0..n \subseteq Nat
    OBVIOUS
  <2>. QED  BY <2>1, <2>2 DEF FiniteSubsetsOf
<1>2. T # {}
  OBVIOUS
<1>3. \E x \in T : \A y \in T : <<y, x>> \notin StrictSubsetOrdering(Nat)
  <2>. HIDE DEF T
  <2>. QED  BY <1>1, <1>2, FS_StrictSubsetOrderingWellFounded, WFMin
<1>4. PICK n \in G : \A k \in G : <<0..k, 0..n>> \notin StrictSubsetOrdering(Nat)
  BY <1>3
<1>5. ASSUME NEW k \in G, k < n
      PROVE  FALSE
  <2>1. 0..k \subseteq 0..n /\ n \in 0..n /\ n \notin 0..k
    BY <1>5
  <2>2. <<0..k, 0..n>> \in (SUBSET Nat) \X (SUBSET Nat)
    OBVIOUS
  <2>. QED  BY <1>4, <2>1, <2>2 DEF StrictSubsetOrdering
<1>. QED  BY <1>5

\* The element the folds of the community modules take off first.
Pick(s) == CHOOSE x \in s : TRUE

\* Induction over the subsets of a finite set; G is the set of those for which
\* the claim holds.
LEMMA SetInduction ==
    ASSUME NEW S, IsFiniteSet(S), NEW G,
           \A T \in SUBSET S : (\A x \in T : T \ {x} \in G) => T \in G
    PROVE  \A T \in SUBSET S : T \in G
<1>. DEFINE Bad == {T \in SUBSET S : T \notin G}
            Sizes == {Cardinality(T) : T \in Bad}
<1>1. \A T \in SUBSET S : IsFiniteSet(T)
  BY FS_Subset
<1>2. \A T \in SUBSET S : Cardinality(T) \in Nat
  BY <1>1, FS_CardinalityType
<1>3. ASSUME NEW T \in SUBSET S, T \notin G
      PROVE  FALSE
  <2>1. Sizes \in SUBSET Nat /\ Sizes # {}
    BY <1>2, <1>3
  <2>2. PICK n \in Sizes : \A k \in Sizes : n <= k
    <3>. HIDE DEF Sizes
    <3>. QED  BY <2>1, LeastNatural
  <2>3. PICK B \in Bad : n = Cardinality(B)
    BY <2>2
  <2>4. PICK x \in B : B \ {x} \notin G
    BY <2>3
  <2>5. Cardinality(B \ {x}) = n - 1 /\ n \in Nat
    BY <1>1, <1>2, <2>3, <2>4, FS_RemoveElement
  <2>6. n - 1 \in Sizes
    BY <2>4, <2>5
  <2>. QED  BY <2>2, <2>5, <2>6
<1>. QED  BY <1>3

\* it is the sum of the weights w on the sets of D, as those folds define it.
SumOf(it, w, D) ==
    it = [s \in D |-> IF s = {} THEN 0 ELSE w[Pick(s)] + it[s \ {Pick(s)}]]

Sum(w, S) == (CHOOSE it : SumOf(it, w, SUBSET S))[S]

\* Such a function exists on the subsets of a finite set: one step of the
\* recursion is added for each size.
LEMMA SumsExist ==
    ASSUME NEW S, IsFiniteSet(S), NEW w
    PROVE  \E it : SumOf(it, w, SUBSET S)
<1>. DEFINE L(n) == {s \in SUBSET S : Cardinality(s) < n}
            G == {n \in Nat : \E it : SumOf(it, w, L(n))}
<1>1. \A s \in SUBSET S : Cardinality(s) \in Nat
  BY FS_Subset, FS_CardinalityType
<1>2. \A s \in SUBSET S : s # {} => Pick(s) \in s
  BY DEF Pick
<1>3. \A s \in SUBSET S : \A x \in s : Cardinality(s \ {x}) = Cardinality(s) - 1
  BY FS_Subset, FS_RemoveElement
<1>4. 0 \in G
  <2>1. L(0) = {}
    BY <1>1
  <2>2. SumOf([s \in L(0) |-> 0], w, L(0))
    BY <2>1 DEF SumOf
  <2>. QED  BY <2>2
<1>5. ASSUME NEW n \in Nat, n \in G
      PROVE  n + 1 \in G
  <2>1. PICK it : SumOf(it, w, L(n))
    BY <1>5
  <2>. DEFINE up == [s \in L(n + 1) |-> IF s = {} THEN 0
                                        ELSE w[Pick(s)] + it[s \ {Pick(s)}]]
  <2>2. \A s \in L(n) : it[s] = IF s = {} THEN 0 ELSE w[Pick(s)] + it[s \ {Pick(s)}]
    BY <2>1 DEF SumOf
  <2>3. \A s \in L(n) : s \in L(n + 1)
    BY <1>1
  <2>4. \A s \in L(n) : up[s] = it[s]
    BY <2>2, <2>3
  <2>5. \A s \in L(n + 1) : s # {} => s \ {Pick(s)} \in L(n)
    BY <1>1, <1>2, <1>3
  <2>6. \A s \in L(n + 1) : s # {} => up[s \ {Pick(s)}] = it[s \ {Pick(s)}]
    BY <2>4, <2>5
  <2>7. up = [s \in L(n + 1) |-> IF s = {} THEN 0
                                 ELSE w[Pick(s)] + up[s \ {Pick(s)}]]
    <3>. HIDE DEF L
    <3>. QED  BY <2>6
  <2>8. SumOf(up, w, L(n + 1))
    BY <2>7 DEF SumOf
  <2>. QED  BY <2>8
<1>6. \A n \in Nat : n \in G
  <2>. HIDE DEF G
  <2>. SUFFICES ASSUME {n \in Nat : n \notin G} # {} PROVE FALSE
    OBVIOUS
  <2>1. PICK n \in {m \in Nat : m \notin G} : \A k \in {m \in Nat : m \notin G} : n <= k
    BY LeastNatural
  <2>2. n # 0 /\ n - 1 \in Nat
    BY <1>4, <2>1
  <2>3. n - 1 \in G
    BY <2>1, <2>2
  <2>. QED  BY <1>5, <2>1, <2>2, <2>3
<1>7. L(Cardinality(S) + 1) = SUBSET S
  <2>1. \A s \in SUBSET S : Cardinality(s) <= Cardinality(S)
    BY FS_Subset
  <2>. QED  BY <1>1, <2>1
<1>8. Cardinality(S) + 1 \in G
  <2>. HIDE DEF G
  <2>. QED  BY <1>1, <1>6
<1>. QED  BY <1>7, <1>8

\* Two such functions agree where both are defined.
LEMMA SumsAgree ==
    ASSUME NEW S, IsFiniteSet(S), NEW w, NEW T \in SUBSET S, NEW f, NEW g,
           SumOf(f, w, SUBSET S), SumOf(g, w, SUBSET T)
    PROVE  f[T] = g[T]
<1>. DEFINE G == {U \in SUBSET T : f[U] = g[U]}
<1>1. ASSUME NEW U \in SUBSET T, \A x \in U : U \ {x} \in G
      PROVE  U \in G
  <2>1. /\ f[U] = IF U = {} THEN 0 ELSE w[Pick(U)] + f[U \ {Pick(U)}]
        /\ g[U] = IF U = {} THEN 0 ELSE w[Pick(U)] + g[U \ {Pick(U)}]
    BY DEF SumOf
  <2>2. U # {} => Pick(U) \in U
    BY DEF Pick
  <2>. QED  BY <1>1, <2>1, <2>2
<1>2. IsFiniteSet(T)
  BY FS_Subset
<1>3. \A U \in SUBSET T : U \in G
  <2>. HIDE DEF G
  <2>. QED  BY <1>1, <1>2, SetInduction
<1>. QED  BY <1>3

\* So a sum is unfolded by one element, and by any element it has.
LEMMA SumStep ==
    ASSUME NEW S, IsFiniteSet(S), NEW w
    PROVE  Sum(w, S) = IF S = {} THEN 0 ELSE w[Pick(S)] + Sum(w, S \ {Pick(S)})
<1>. DEFINE T == S \ {Pick(S)}
            f == CHOOSE it : SumOf(it, w, SUBSET S)
            g == CHOOSE it : SumOf(it, w, SUBSET T)
<1>1. IsFiniteSet(T) /\ T \in SUBSET S
  BY FS_Subset
<1>2. SumOf(f, w, SUBSET S) /\ SumOf(g, w, SUBSET T)
  <2>. HIDE DEF T
  <2>. QED  BY <1>1, SumsExist
<1>3. f[T] = g[T]
  <2>. HIDE DEF T, f, g
  <2>. QED  BY <1>1, <1>2, SumsAgree
<1>4. f[S] = IF S = {} THEN 0 ELSE w[Pick(S)] + f[T]
  <2>. HIDE DEF f, g
  <2>. QED  BY <1>2 DEF SumOf
<1>. QED  BY <1>3, <1>4 DEF Sum

LEMMA SumNatural ==
    ASSUME NEW S, IsFiniteSet(S), NEW w, \A x \in S : w[x] \in Nat
    PROVE  Sum(w, S) \in Nat
<1>. DEFINE G == {T \in SUBSET S : Sum(w, T) \in Nat}
<1>1. ASSUME NEW T \in SUBSET S, \A x \in T : T \ {x} \in G
      PROVE  T \in G
  <2>1. /\ Sum(w, T) = IF T = {} THEN 0 ELSE w[Pick(T)] + Sum(w, T \ {Pick(T)})
        /\ T # {} => Pick(T) \in T
    BY FS_Subset, SumStep DEF Pick
  <2>. QED  BY <1>1, <2>1
<1>2. \A T \in SUBSET S : T \in G
  <2>. HIDE DEF G
  <2>. QED  BY <1>1, SetInduction
<1>. QED  BY <1>2

LEMMA SumTakesOut ==
    ASSUME NEW S, IsFiniteSet(S), NEW w, \A x \in S : w[x] \in Nat
    PROVE  \A x \in S : Sum(w, S) = w[x] + Sum(w, S \ {x})
<1>. DEFINE G == {T \in SUBSET S : \A x \in T : Sum(w, T) = w[x] + Sum(w, T \ {x})}
<1>1. \A T \in SUBSET S : Sum(w, T) \in Nat
  BY FS_Subset, SumNatural
<1>2. ASSUME NEW T \in SUBSET S, \A x \in T : T \ {x} \in G
      PROVE  T \in G
  <2>1. /\ Sum(w, T) = IF T = {} THEN 0 ELSE w[Pick(T)] + Sum(w, T \ {Pick(T)})
        /\ T # {} => Pick(T) \in T
    BY FS_Subset, SumStep DEF Pick
  <2>2. ASSUME NEW x \in T, x # Pick(T)
        PROVE  Sum(w, T) = w[x] + Sum(w, T \ {x})
    <3>. DEFINE p == Pick(T)
    <3>1. /\ p \in T \ {x} /\ x \in T \ {p}
          /\ (T \ {x}) \ {p} = (T \ {p}) \ {x}
      BY <2>1, <2>2
    <3>2. /\ Sum(w, T) = w[p] + Sum(w, T \ {p})
          /\ Sum(w, T \ {p}) = w[x] + Sum(w, (T \ {p}) \ {x})
          /\ Sum(w, T \ {x}) = w[p] + Sum(w, (T \ {p}) \ {x})
      BY <1>2, <2>1, <3>1
    <3>3. /\ w[p] \in Nat /\ w[x] \in Nat /\ Sum(w, (T \ {p}) \ {x}) \in Nat
      BY <1>1, <3>1
    <3>. QED  BY <3>2, <3>3
  <2>. QED  BY <2>1, <2>2
<1>3. \A T \in SUBSET S : T \in G
  <2>. HIDE DEF G
  <2>. QED  BY <1>2, SetInduction
<1>. QED  BY <1>3

\* The sums of a subset and of the rest make the whole.
LEMMA SumSplits ==
    ASSUME NEW S, IsFiniteSet(S), NEW w, \A x \in S : w[x] \in Nat,
           NEW T \in SUBSET S
    PROVE  Sum(w, S) = Sum(w, T) + Sum(w, S \ T)
<1>. DEFINE G == {U \in SUBSET S : Sum(w, S) = Sum(w, U) + Sum(w, S \ U)}
<1>1. \A U \in SUBSET S : IsFiniteSet(U) /\ Sum(w, U) \in Nat
  BY FS_Subset, SumNatural
<1>2. ASSUME NEW U \in SUBSET S, \A x \in U : U \ {x} \in G
      PROVE  U \in G
  <2>1. CASE U = {}
    <3>1. Sum(w, U) = 0 /\ S \ U = S
      BY <1>1, <2>1, SumStep
    <3>. QED  BY <1>1, <3>1
  <2>2. ASSUME NEW x \in U
        PROVE  U \in G
    <3>. DEFINE V == S \ (U \ {x})
    <3>1. /\ V \in SUBSET S /\ x \in V /\ V \ {x} = S \ U
      OBVIOUS
    <3>2. /\ Sum(w, V) = w[x] + Sum(w, V \ {x})
          /\ Sum(w, U) = w[x] + Sum(w, U \ {x})
      <4>. HIDE DEF V
      <4>. QED  BY <1>1, <3>1, SumTakesOut
    <3>3. Sum(w, S) = Sum(w, U \ {x}) + Sum(w, V)
      BY <1>2
    <3>4. /\ Sum(w, U \ {x}) \in Nat /\ Sum(w, S \ U) \in Nat /\ w[x] \in Nat
      BY <1>1
    <3>. QED  BY <3>1, <3>2, <3>3, <3>4
  <2>. QED  BY <2>1, <2>2
<1>3. \A U \in SUBSET S : U \in G
  <2>. HIDE DEF G
  <2>. QED  BY <1>2, SetInduction
<1>. QED  BY <1>3

LEMMA SumZero ==
    ASSUME NEW S, IsFiniteSet(S), NEW w, \A x \in S : w[x] \in Nat
    PROVE  (Sum(w, S) = 0) <=> (\A x \in S : w[x] = 0)
<1>1. ASSUME NEW x \in S
      PROVE  w[x] <= Sum(w, S)
  <2>1. Sum(w, S) = w[x] + Sum(w, S \ {x})
    BY SumTakesOut
  <2>2. Sum(w, S \ {x}) \in Nat /\ w[x] \in Nat
    BY FS_Subset, SumNatural
  <2>. QED  BY <2>1, <2>2
<1>2. ASSUME \A x \in S : w[x] = 0
      PROVE  Sum(w, S) = 0
  <2>. DEFINE G == {T \in SUBSET S : Sum(w, T) = 0}
  <2>1. ASSUME NEW T \in SUBSET S, \A x \in T : T \ {x} \in G
        PROVE  T \in G
    <3>1. /\ Sum(w, T) = IF T = {} THEN 0 ELSE w[Pick(T)] + Sum(w, T \ {Pick(T)})
          /\ T # {} => Pick(T) \in T
      BY FS_Subset, SumStep DEF Pick
    <3>. QED  BY <1>2, <2>1, <3>1
  <2>2. \A T \in SUBSET S : T \in G
    <3>. HIDE DEF G
    <3>. QED  BY <2>1, SetInduction
  <2>. QED  BY <2>2
<1>. QED  BY <1>1, <1>2

---------------------------------------------------------------------------
(* Quotients, and the range of a normalised metric.                       *)

\* Bounds of a quotient.
LEMMA DivBound ==
    ASSUME NEW a \in Int, NEW b \in Nat \ {0}, NEW n \in Int
    PROVE  /\ a < (n + 1) * b => a \div b <= n
           /\ n * b <= a => n <= a \div b
           /\ a \div b \in Int
<1>. DEFINE q == a \div b
<1>1. q \in Int /\ b * q <= a /\ a < b * q + b
  BY SMT
<1>2. ASSUME a < (n + 1) * b, q > n
      PROVE  FALSE
  <2>1. (n + 1) * b <= q * b
    BY <1>1, <1>2, SMT
  <2>. QED  BY <1>1, <1>2, <2>1, SMT
<1>3. ASSUME n * b <= a, q < n
      PROVE  FALSE
  <2>1. (q + 1) * b <= n * b
    BY <1>1, <1>3, SMT
  <2>. QED  BY <1>1, <1>3, <2>1, SMT
<1>. QED  BY <1>1, <1>2, <1>3

LEMMA DivGrows ==
    ASSUME NEW a \in Int, NEW b \in Int, NEW d \in Nat \ {0}, a <= b
    PROVE  a \div d <= b \div d
<1>. DEFINE q == a \div d
<1>1. q \in Int /\ q * d <= a
  BY SMT
<1>2. q * d <= b
  BY <1>1, SMT
<1>. HIDE DEF q
<1>3. q <= b \div d
  BY <1>1, <1>2, DivBound
<1>. QED  BY <1>3 DEF q

LEMMA TimesGrows ==
    ASSUME NEW a \in Int, NEW b \in Int, NEW c \in Nat, a <= b
    PROVE  a * c <= b * c /\ c * a <= c * b
BY SMT

LEMMA MaxOfTwo ==
    ASSUME NEW a \in Int, NEW b \in Int
    PROVE  /\ Max({a, b}) \in {a, b} /\ a <= Max({a, b}) /\ b <= Max({a, b})
           /\ Min({a, b}) \in {a, b} /\ a >= Min({a, b}) /\ b >= Min({a, b})
BY DEF Max, Min

LEMMA LimitsOrdered ==
    \A m \in Metrics : /\ Limits[m][1] \in Nat /\ Limits[m][2] \in Nat
                        /\ Limits[m][1] < Limits[m][2]
BY DEF Metrics, Limits

\* Whatever an average is, the metric made of it lies in [0, 1].
LEMMA NormalizeInRange ==
    ASSUME NEW m \in Metrics, NEW x \in Int
    PROVE  Normalize(m, x) \in 0..One
<1>. DEFINE lo == Limits[m][1]
            hi == Limits[m][2]
            w == WithinLimits(m, x)
<1>1. lo \in Nat /\ hi \in Nat /\ lo < hi /\ One \in Nat \ {0}
  BY LimitsOrdered, MetricsAssumption
<1>2. lo * One <= hi * One /\ lo * One \in Int /\ hi * One \in Int
  <2>. HIDE DEF lo, hi
  <2>. QED  BY <1>1, TimesGrows
<1>3. w \in Int /\ lo * One <= w /\ w <= hi * One
  BY <1>2 DEF WithinLimits, Clamp
<1>4. /\ w - lo * One \in Int /\ 0 <= w - lo * One
      /\ w - lo * One <= One * (hi - lo)
  <2>. HIDE DEF lo, hi, w
  <2>1. One * (hi - lo) = hi * One - lo * One
    BY <1>1
  <2>. QED  BY <1>1, <1>2, <1>3, <2>1
<1>5. Normalize(m, x) = (w - lo * One) \div (hi - lo)
  BY DEF Normalize
<1>6. /\ hi - lo \in Nat \ {0} /\ 0 * (hi - lo) = 0
      /\ One * (hi - lo) < (One + 1) * (hi - lo)
  <2>. HIDE DEF lo, hi, w
  <2>. QED  BY <1>1
<1>. HIDE DEF lo, hi, w
<1>. QED  BY <1>1, <1>4, <1>5, <1>6, DivBound

\* The higher the average, the higher the metric.
LEMMA NormalizeGrows ==
    ASSUME NEW m \in Metrics, NEW x \in Int, NEW y \in Int, x <= y
    PROVE  Normalize(m, x) <= Normalize(m, y)
<1>. DEFINE lo == Limits[m][1]
            hi == Limits[m][2]
            a == WithinLimits(m, x) - lo * One
            b == WithinLimits(m, y) - lo * One
<1>1. lo \in Nat /\ hi \in Nat /\ hi - lo \in Nat \ {0} /\ One \in Nat
  BY LimitsOrdered, MetricsAssumption
<1>2. lo * One \in Int /\ hi * One \in Int /\ lo * One <= hi * One
  <2>. HIDE DEF lo, hi
  <2>. QED  BY <1>1, TimesGrows
<1>3. a \in Int /\ b \in Int /\ a <= b
  BY <1>2 DEF WithinLimits, Clamp
<1>4. a \div (hi - lo) <= b \div (hi - lo)
  <2>. HIDE DEF lo, hi, a, b
  <2>. QED  BY <1>1, <1>3, DivGrows
<1>. QED  BY <1>4 DEF Normalize

---------------------------------------------------------------------------
(* The sums of a window.                                                   *)

\* Whichever way the sum is chosen, it is the same.
LEMMA FoldIsSum ==
    ASSUME NEW S, IsFiniteSet(S), NEW w, NEW it, SumOf(it, w, SUBSET S)
    PROVE  it[S] = Sum(w, S)
<1>. DEFINE f == CHOOSE c : SumOf(c, w, SUBSET S)
<1>1. SumOf(f, w, SUBSET S)
  BY SumsExist
<1>2. f[S] = it[S]
  <2>. HIDE DEF f
  <2>. QED  BY <1>1, SumsAgree
<1>. QED  BY <1>2 DEF Sum

\* The numbers and totals of a window are sums.
LEMMA NumberIsSum ==
    ASSUME NEW S
    PROVE  Number(S) = Sum(window, S)
BY Zenon DEF Number, MapThenSumSet, MapThenFoldSet, Sum, SumOf, Pick

InWeights == [e \in Payloads |-> window[e] * e.in]
OutWeights == [e \in Payloads |-> window[e] * e.out]

LEMMA TotalIn ==
    ASSUME NEW S \in SUBSET Payloads, IsFiniteSet(S)
    PROVE  Total(LAMBDA e : e.in, S) = Sum(InWeights, S)
<1>. DEFINE Eq(it) == it = [s \in SUBSET S |-> IF s = {} THEN 0
                            ELSE window[Pick(s)] * Pick(s).in + it[s \ {Pick(s)}]]
<1>1. \A it : Eq(it) <=> SumOf(it, InWeights, SUBSET S)
  <2>1. \A s \in SUBSET S : s # {} => InWeights[Pick(s)] = window[Pick(s)] * Pick(s).in
    BY DEF Pick, InWeights
  <2>. QED  BY <2>1 DEF SumOf
<1>2. Total(LAMBDA e : e.in, S) = (CHOOSE it : Eq(it))[S]
  BY Zenon DEF Total, MapThenSumSet, MapThenFoldSet, Pick
<1>3. Eq(CHOOSE it : Eq(it))
  <2>1. \E it : Eq(it)
    <3>. HIDE DEF Eq
    <3>. QED  BY <1>1, SumsExist
  <2>. HIDE DEF Eq
  <2>. QED  BY <2>1
<1>. HIDE DEF Eq
<1>. QED  BY <1>1, <1>2, <1>3, FoldIsSum

LEMMA TotalOut ==
    ASSUME NEW S \in SUBSET Payloads, IsFiniteSet(S)
    PROVE  Total(LAMBDA e : e.out, S) = Sum(OutWeights, S)
<1>. DEFINE Eq(it) == it = [s \in SUBSET S |-> IF s = {} THEN 0
                            ELSE window[Pick(s)] * Pick(s).out + it[s \ {Pick(s)}]]
<1>1. \A it : Eq(it) <=> SumOf(it, OutWeights, SUBSET S)
  <2>1. \A s \in SUBSET S :
          s # {} => OutWeights[Pick(s)] = window[Pick(s)] * Pick(s).out
    BY DEF Pick, OutWeights
  <2>. QED  BY <2>1 DEF SumOf
<1>2. Total(LAMBDA e : e.out, S) = (CHOOSE it : Eq(it))[S]
  BY Zenon DEF Total, MapThenSumSet, MapThenFoldSet, Pick
<1>3. Eq(CHOOSE it : Eq(it))
  <2>1. \E it : Eq(it)
    <3>. HIDE DEF Eq
    <3>. QED  BY <1>1, SumsExist
  <2>. HIDE DEF Eq
  <2>. QED  BY <2>1
<1>. HIDE DEF Eq
<1>. QED  BY <1>1, <1>2, <1>3, FoldIsSum

LEMMA PayloadsFinite == IsFiniteSet(Payloads)
<1>. DEFINE f == [a \in Arrivals |-> a[1]]
<1>1. f \in Surjection(Arrivals, Payloads)
  BY DEF Payloads, Surjection
<1>. QED  BY <1>1, FS_Surjection, MetricsAssumption

\* Numbers of events add up, and none are counted only where there are none.
LEMMA EventsCounted ==
    ASSUME window \in [Payloads -> Nat], NEW S \in SUBSET Payloads
    PROVE  /\ Number(S) \in Nat
           /\ (Number(S) = 0) <=> (\A e \in S : window[e] = 0)
           /\ \A T \in SUBSET S : Number(S) = Number(T) + Number(S \ T)
<1>1. IsFiniteSet(S) /\ \A e \in S : window[e] \in Nat
  BY PayloadsFinite, FS_Subset
<1>2. Sum(window, S) \in Nat
  BY <1>1, SumNatural
<1>3. (Sum(window, S) = 0) <=> (\A e \in S : window[e] = 0)
  BY <1>1, SumZero
<1>4. \A T \in SUBSET S : Sum(window, S) = Sum(window, T) + Sum(window, S \ T)
  BY <1>1, SumSplits
<1>. QED  BY <1>2, <1>3, <1>4, NumberIsSum

LEMMA TotalsCounted ==
    ASSUME window \in [Payloads -> Nat], NEW S \in SUBSET Payloads
    PROVE  /\ Total(LAMBDA e : e.in, S) \in Nat /\ Total(LAMBDA e : e.out, S) \in Nat
           /\ (\A e \in S : window[e] = 0) =>
                 Total(LAMBDA e : e.in, S) = 0 /\ Total(LAMBDA e : e.out, S) = 0
<1>1. IsFiniteSet(S)
  BY PayloadsFinite, FS_Subset
<1>2. \A e \in S : InWeights[e] = window[e] * e.in /\ OutWeights[e] = window[e] * e.out
  BY DEF InWeights, OutWeights
<1>3. \A e \in S : window[e] \in Nat /\ e.in \in Nat /\ e.out \in Nat
  BY MetricsAssumption
<1>4. \A e \in S : InWeights[e] \in Nat /\ OutWeights[e] \in Nat
  BY <1>2, <1>3
<1>5. (\A e \in S : window[e] = 0) => \A e \in S : InWeights[e] = 0 /\ OutWeights[e] = 0
  BY <1>2, <1>3
<1>6. /\ Sum(InWeights, S) \in Nat /\ Sum(OutWeights, S) \in Nat
      /\ (\A e \in S : InWeights[e] = 0) => Sum(InWeights, S) = 0
      /\ (\A e \in S : OutWeights[e] = 0) => Sum(OutWeights, S) = 0
  BY <1>1, <1>4, SumNatural, SumZero
<1>. QED  BY <1>1, <1>5, <1>6, TotalIn, TotalOut

---------------------------------------------------------------------------
(* The percentile.                                                         *)

Above(v) == {e \in Samples : e.in >= v}
UpTo(v) == {e \in Samples : e.in <= v}
Below(v) == {e \in Samples : e.in < v}

LEMMA SamplesCounted ==
    ASSUME window \in [Payloads -> Nat]
    PROVE  /\ Samples \in SUBSET Payloads
           /\ \A e \in Samples : e.in \in Nat /\ window[e] > 0
           /\ Samples # {} => Number(Samples) > 0
<1>1. Samples \in SUBSET Payloads /\ \A e \in Samples : window[e] > 0
  BY DEF Samples, Of
<1>2. \A e \in Payloads : e.in \in Nat /\ window[e] \in Nat
  BY MetricsAssumption
<1>3. /\ Number(Samples) \in Nat
      /\ (Number(Samples) = 0) <=> (\A e \in Samples : window[e] = 0)
  BY <1>1, EventsCounted
<1>. QED  BY <1>1, <1>2, <1>3

\* The samples below a latency and the ones from there on are all there are.
LEMMA SamplesSplit ==
    ASSUME window \in [Payloads -> Nat], NEW v \in Nat
    PROVE  /\ Number(UpTo(v)) \in Nat /\ Number(Below(v)) \in Nat
           /\ Number(Above(v)) \in Nat
           /\ Number(Samples) = Number(Below(v)) + Number(Above(v))
           /\ Number(UpTo(v)) <= Number(Samples)
           /\ (\A e \in Samples : e.in # v) => UpTo(v) = Below(v)
           /\ v > 0 => Below(v) = UpTo(v - 1)
           /\ v = 0 => Number(Below(v)) = 0
<1>1. /\ Samples \in SUBSET Payloads /\ \A e \in Samples : e.in \in Nat
  BY SamplesCounted
<1>2. /\ UpTo(v) \in SUBSET Samples /\ Below(v) \in SUBSET Samples
      /\ Above(v) = Samples \ Below(v)
  BY <1>1 DEF UpTo, Below, Above
<1>3. /\ Number(UpTo(v)) \in Nat /\ Number(Below(v)) \in Nat /\ Number(Above(v)) \in Nat
      /\ Number(Samples \ UpTo(v)) \in Nat
  BY <1>1, <1>2, EventsCounted
<1>4. /\ Number(Samples) = Number(Below(v)) + Number(Above(v))
      /\ Number(Samples) = Number(UpTo(v)) + Number(Samples \ UpTo(v))
  BY <1>1, <1>2, EventsCounted
<1>5. (\A e \in Samples : e.in # v) => UpTo(v) = Below(v)
  BY <1>1 DEF UpTo, Below
<1>6. v > 0 => Below(v) = UpTo(v - 1)
  BY <1>1 DEF UpTo, Below
<1>7. v = 0 => Number(Below(v)) = 0
  <2>1. v = 0 => Below(v) = {}
    BY <1>1 DEF Below
  <2>. QED  BY <2>1, EventsCounted
<1>. QED  BY <1>3, <1>4, <1>5, <1>6, <1>7

\* A finite, non-empty set of samples has a greatest latency.
LEMMA GreatestLatency ==
    ASSUME window \in [Payloads -> Nat], Samples # {}
    PROVE  \E v \in Nat : UpTo(v) = Samples
<1>. DEFINE G == {T \in SUBSET Samples : \E v \in Nat : \A e \in T : e.in <= v}
<1>1. IsFiniteSet(Samples) /\ \A e \in Samples : e.in \in Nat
  BY SamplesCounted, PayloadsFinite, FS_Subset
<1>2. ASSUME NEW T \in SUBSET Samples, \A e \in T : T \ {e} \in G
      PROVE  T \in G
  <2>1. CASE T = {}
    BY <2>1
  <2>2. ASSUME NEW e \in T
        PROVE  T \in G
    <3>1. PICK v \in Nat : \A d \in T \ {e} : d.in <= v
      BY <1>2
    <3>2. \A d \in T : d.in <= v + e.in
      BY <1>1, <3>1
    <3>. QED  BY <1>1, <3>2
  <2>. QED  BY <2>1, <2>2
<1>3. \A T \in SUBSET Samples : T \in G
  <2>. HIDE DEF G
  <2>. QED  BY <1>1, <1>2, SetInduction
<1>. QED  BY <1>3 DEF UpTo

\* The latency P95 chooses exists: the least one up to which there are more
\* samples than the index.
LEMMA P95Chosen ==
    ASSUME window \in [Payloads -> Nat], Samples # {}
    PROVE  /\ P95 \in Nat
           /\ Number(Below(P95)) <= P95Index(Number(Samples))
           /\ P95Index(Number(Samples)) < Number(UpTo(P95))
<1>. DEFINE n == Number(Samples)
            idx == P95Index(n)
            G == {v \in Nat : idx < Number(UpTo(v))}
            Latencies == {e.in : e \in Samples}
<1>1. n \in Nat /\ n > 0
  BY SamplesCounted, EventsCounted
<1>2. idx \in Int /\ 0 <= idx /\ idx <= n - 1
  <2>. HIDE DEF n
  <2>. QED  BY <1>1 DEF P95Index
<1>3. Clamp(idx, 0, n - 1) = idx
  <2>. HIDE DEF n, idx
  <2>. QED  BY <1>1, <1>2 DEF Clamp
<1>4. \E v \in G : v \in Latencies /\ Number(Below(v)) <= idx
  <2>1. G # {}
    <3>1. PICK v \in Nat : UpTo(v) = Samples
      BY GreatestLatency
    <3>2. idx < Number(UpTo(v))
      <4>. HIDE DEF idx
      <4>. QED  BY <1>1, <1>2, <3>1
    <3>. QED  BY <3>2
  <2>2. PICK v \in G : \A u \in G : v <= u
    <3>1. G \in SUBSET Nat
      OBVIOUS
    <3>. HIDE DEF G
    <3>. QED  BY <2>1, <3>1, LeastNatural
  <2>. HIDE DEF idx, n
  <2>3. Number(Below(v)) <= idx
    <3>1. CASE v = 0
      BY <1>2, <3>1, SamplesSplit
    <3>2. CASE v > 0
      <4>1. v - 1 \in Nat /\ v - 1 \notin G
        BY <2>2, <3>2
      <4>2. Number(UpTo(v - 1)) \in Nat
        BY <4>1, SamplesSplit
      <4>3. Number(UpTo(v - 1)) <= idx
        BY <1>2, <4>1, <4>2
      <4>. QED  BY <3>2, <4>3, SamplesSplit
    <3>. QED  BY <3>1, <3>2
  <2>4. v \in Latencies
    <3>1. idx < Number(UpTo(v)) /\ Number(Below(v)) \in Nat
      BY SamplesSplit
    <3>2. UpTo(v) # Below(v)
      BY <1>2, <2>3, <3>1
    <3>. QED  BY <3>2, SamplesSplit
  <2>. QED  BY <2>2, <2>3, <2>4
<1>5. P95 = CHOOSE v \in Latencies : /\ Number(Below(v)) <= Clamp(idx, 0, n - 1)
                                    /\ Clamp(idx, 0, n - 1) < Number(UpTo(v))
  <2>1. n # 0
    BY <1>1
  <2>. QED  BY <2>1, Zenon DEF P95, Below, UpTo
<1>6. /\ P95 \in Latencies
      /\ Number(Below(P95)) <= idx /\ idx < Number(UpTo(P95))
  <2>. HIDE DEF idx, n, Latencies
  <2>. QED  BY <1>3, <1>4, <1>5
<1>7. \A v \in Latencies : v \in Nat
  BY SamplesCounted
<1>. QED  BY <1>6, <1>7

\* At least 95 % of the samples lie at or below it, and at least 5 % at or above.
LEMMA PercentileCovers ==
    ASSUME window \in [Payloads -> Nat]
    PROVE  P95Covers
<1>. SUFFICES ASSUME Samples # {} PROVE P95Covers
  BY DEF P95Covers
<1>. DEFINE n == Number(Samples)
<1>1. /\ P95 \in Nat /\ n \in Nat
      /\ Number(Below(P95)) <= P95Index(n) /\ P95Index(n) < Number(UpTo(P95))
  BY P95Chosen, SamplesCounted, EventsCounted
<1>2. /\ Number(Below(P95)) \in Nat /\ Number(UpTo(P95)) \in Nat
      /\ Number(Above(P95)) \in Nat
      /\ n = Number(Below(P95)) + Number(Above(P95))
  BY <1>1, SamplesSplit
<1>3. /\ P95Index(n) \in Int /\ 100 * P95Index(n) <= 95 * n
      /\ 95 * n < 100 * P95Index(n) + 100
  <2>. HIDE DEF n
  <2>. QED  BY <1>1 DEF P95Index
<1>4. 100 * Number(UpTo(P95)) >= 95 * n /\ 100 * Number(Above(P95)) >= 5 * n
  <2>. HIDE DEF n
  <2>. QED  BY <1>1, <1>2, <1>3
<1>. QED  BY <1>4, Zenon DEF P95Covers, UpTo, Above

---------------------------------------------------------------------------
(* The raw values and the averages.                                        *)

\* No raw value is negative, and those of an empty window are zero.
LEMMA RawValues ==
    ASSUME window \in [Payloads -> Nat]
    PROVE  /\ \A m \in Metrics : Raw[m] \in Nat
           /\ (\A e \in Payloads : window[e] = 0) => \A m \in Metrics : Raw[m] = 0
<1>1. \A kind : Of(kind) \in SUBSET Payloads
  BY DEF Of
<1>2. P95 \in Nat /\ ((\A e \in Payloads : window[e] = 0) => P95 = 0)
  <2>1. Samples \in SUBSET Payloads
    BY SamplesCounted
  <2>2. CASE Samples # {}
    <3>1. \E e \in Payloads : window[e] # 0
      BY <2>1, <2>2, SamplesCounted
    <3>. QED  BY <2>2, <3>1, P95Chosen
  <2>3. CASE Samples = {}
    <3>1. Number(Samples) = 0
      BY <2>1, <2>3, EventsCounted
    <3>. QED  BY <3>1 DEF P95
  <2>. QED  BY <2>2, <2>3
<1>3. \A kind : /\ Number(Of(kind)) \in Nat
                /\ (\A e \in Payloads : window[e] = 0) => Number(Of(kind)) = 0
  BY <1>1, EventsCounted
<1>4. \A kind : /\ Total(LAMBDA e : e.in, Of(kind)) \in Nat
                /\ Total(LAMBDA e : e.out, Of(kind)) \in Nat
                /\ (\A e \in Payloads : window[e] = 0) =>
                      /\ Total(LAMBDA e : e.in, Of(kind)) = 0
                      /\ Total(LAMBDA e : e.out, Of(kind)) = 0
  BY <1>1, TotalsCounted
<1>5. /\ Raw["latency"] = P95 /\ Raw["rate"] = Number(Of("cpu"))
      /\ Raw["pressure"] = Total(LAMBDA e : e.in, Of("mem"))
      /\ Raw["tx"] = Total(LAMBDA e : e.out, Of("net"))
      /\ Raw["rx"] = Total(LAMBDA e : e.in, Of("net"))
      /\ Raw["exec"] = Number(Of("exec"))
  BY DEF Raw
<1>6. Metrics = {"latency", "rate", "pressure", "tx", "rx", "exec"}
  BY DEF Metrics, Limits
<1>. QED  BY <1>2, <1>3, <1>4, <1>5, <1>6

---------------------------------------------------------------------------
(* The inductive invariant.                                                *)

\* What k empty windows have left of the highest average.
RemnantInv ==
    \A m \in Metrics :
        /\ ema[m] <= peak[m]
        /\ empty >= 1 => 10 * ema[m] <= 7 * peak[m]
        /\ empty >= 2 => 100 * ema[m] <= 49 * peak[m]
        /\ empty >= 3 => 1000 * ema[m] <= 343 * peak[m]
        /\ empty >= 4 => 10000 * ema[m] <= 2401 * peak[m]
        /\ empty >= 5 => 100000 * ema[m] <= 16807 * peak[m]

\* A snapshot is what the averages make, and nothing has come since a tick
\* unless fresh says so.
MetricsInv ==
    /\ TypeOK /\ RemnantInv /\ StaleRemnant
    /\ \A m \in Metrics : shared.metrics[m] = Normalize(m, ema[m])
    /\ ~fresh => \A e \in Payloads : window[e] = 0

LEMMA MetricsInit == Init => MetricsInv
<1>. SUFFICES ASSUME Init PROVE MetricsInv
  OBVIOUS
<1>1. \A m \in Metrics : Normalize(m, 0) = 0
  <2>. SUFFICES ASSUME NEW m \in Metrics PROVE Normalize(m, 0) = 0
    OBVIOUS
  <2>1. /\ Limits[m][1] \in Nat /\ Limits[m][2] - Limits[m][1] \in Nat \ {0}
        /\ Limits[m][2] \in Nat /\ One \in Nat
    BY LimitsOrdered, MetricsAssumption
  <2>2. /\ Limits[m][1] * One \in Nat /\ Limits[m][1] * One <= Limits[m][2] * One
        /\ Limits[m][2] * One \in Nat
    BY <2>1, TimesGrows
  <2>3. WithinLimits(m, 0) - Limits[m][1] * One = 0
    BY <2>2 DEF WithinLimits, Clamp
  <2>. QED  BY <2>1, <2>3 DEF Normalize
<1>2. TypeOK
  <2>1. MaxArrivals \in Nat /\ MaxEmpty \in Nat /\ 0 \in 0..One
    BY MetricsAssumption
  <2>2. shared \in [stale : BOOLEAN, metrics : [Metrics -> 0..One]]
    BY <2>1 DEF Init
  <2>3. /\ window \in [Payloads -> Nat] /\ ema \in [Metrics -> Nat]
        /\ peak \in [Metrics -> Nat]
    BY DEF Init
  <2>4. arrived = 0 /\ empty = 0 /\ fresh \in BOOLEAN
    BY Zenon DEF Init
  <2>5. arrived \in 0..MaxArrivals /\ empty \in 0..MaxEmpty
    BY <2>1, <2>4
  <2>. QED  BY <2>2, <2>3, <2>4, <2>5 DEF TypeOK
<1>3. RemnantInv /\ StaleRemnant
  BY DEF Init, RemnantInv, StaleRemnant
<1>4. \A m \in Metrics : shared.metrics[m] = Normalize(m, ema[m])
  BY <1>1 DEF Init
<1>. QED  BY <1>2, <1>3, <1>4 DEF Init, MetricsInv

LEMMA ReceiveKeeps ==
    ASSUME MetricsInv, NEW a \in Arrivals, Receive(a)
    PROVE  MetricsInv'
<1>1. a[1] \in Payloads /\ a[2] \in Nat
  BY MetricsAssumption DEF Payloads
<1>2. TypeOK'
  BY <1>1, MetricsAssumption DEF MetricsInv, TypeOK, Receive
<1>. QED  BY <1>2 DEF MetricsInv, RemnantInv, StaleRemnant, Receive

\* One average at a tick: a natural number, and after an empty window at most
\* seven tenths of what it was.
LEMMA EmaSteps ==
    ASSUME TypeOK, NEW m \in Metrics
    PROVE  /\ ComputeEma(Raw[m] * One, ema[m]) \in Nat
           /\ (\A e \in Payloads : window[e] = 0) =>
                  10 * ComputeEma(Raw[m] * One, ema[m]) <= 7 * ema[m]
<1>1. Raw[m] \in Nat /\ ((\A e \in Payloads : window[e] = 0) => Raw[m] = 0)
  BY RawValues DEF TypeOK
<1>2. Raw[m] * One \in Nat /\ ema[m] \in Nat
  BY <1>1, MetricsAssumption DEF TypeOK
<1>3. Raw[m] = 0 => Raw[m] * One = 0
  BY MetricsAssumption
<1>. HIDE DEF Raw
<1>. QED  BY <1>1, <1>2, <1>3 DEF ComputeEma

LEMMA TickKeeps ==
    ASSUME MetricsInv, Tick
    PROVE  /\ MetricsInv'
           /\ ~fresh => \A m \in Metrics : shared'.metrics[m] <= shared.metrics[m]
<1>. DEFINE smooth(m) == ComputeEma(Raw[m] * One, ema[m])
            silent == \A e \in Payloads : window[e] = 0
            count == IF silent THEN empty + 1 ELSE 0
<1>1. \A m \in Metrics : smooth(m) \in Nat /\ (silent => 10 * smooth(m) <= 7 * ema[m])
  BY EmaSteps DEF MetricsInv
<1>2. /\ empty < MaxEmpty /\ UNCHANGED arrived /\ fresh' = FALSE
      /\ ema' = [m \in Metrics |-> smooth(m)] /\ empty' = count
      /\ shared' = [stale |-> IsStale(count),
                    metrics |-> [m \in Metrics |-> Normalize(m, smooth(m))]]
      /\ window' = [e \in Payloads |-> 0]
      /\ peak' = [m \in Metrics |-> Max({peak[m], smooth(m)})]
  BY DEF Tick, WindowAfter
<1>. HIDE DEF smooth, silent
<1>3. /\ empty \in 0..MaxEmpty /\ MaxEmpty \in Nat /\ fresh \in BOOLEAN
      /\ arrived \in 0..MaxArrivals
      /\ \A m \in Metrics : ema[m] \in Nat /\ peak[m] \in Nat
  BY MetricsAssumption DEF MetricsInv, TypeOK
<1>4. \A m \in Metrics : /\ peak'[m] \in Nat /\ peak[m] <= peak'[m]
                         /\ smooth(m) <= peak'[m]
  <2>1. \A m \in Metrics : peak'[m] = Max({peak[m], smooth(m)})
    BY <1>2
  <2>2. \A m \in Metrics : smooth(m) \in Nat /\ peak[m] \in Nat
    BY <1>1, <1>3
  <2>3. \A a, b \in Nat : Max({a, b}) \in Nat /\ a <= Max({a, b}) /\ b <= Max({a, b})
    BY MaxOfTwo
  <2>. QED  BY <2>1, <2>2, <2>3
<1>5. TypeOK'
  <2>1. \A m \in Metrics : Normalize(m, smooth(m)) \in 0..One
    BY <1>1, NormalizeInRange
  <2>2. shared' \in [stale : BOOLEAN, metrics : [Metrics -> 0..One]]
    BY <1>2, <2>1 DEF IsStale
  <2>3. empty' \in 0..MaxEmpty
    BY <1>2, <1>3
  <2>. QED  BY <1>1, <1>2, <1>3, <1>4, <2>2, <2>3 DEF TypeOK
<1>6. RemnantInv'
  <2>. SUFFICES ASSUME NEW m \in Metrics
       PROVE  /\ ema'[m] <= peak'[m]
              /\ empty' >= 1 => 10 * ema'[m] <= 7 * peak'[m]
              /\ empty' >= 2 => 100 * ema'[m] <= 49 * peak'[m]
              /\ empty' >= 3 => 1000 * ema'[m] <= 343 * peak'[m]
              /\ empty' >= 4 => 10000 * ema'[m] <= 2401 * peak'[m]
              /\ empty' >= 5 => 100000 * ema'[m] <= 16807 * peak'[m]
    BY DEF RemnantInv
  <2>1. ema'[m] = smooth(m) /\ smooth(m) \in Nat
    BY <1>1, <1>2
  <2>2. CASE ~silent
    BY <1>2, <1>4, <2>1, <2>2
  <2>3. CASE silent
    <3>1. empty' = empty + 1 /\ 10 * smooth(m) <= 7 * ema[m]
      BY <1>1, <1>2, <2>3
    <3>2. /\ ema[m] <= peak[m]
          /\ empty >= 1 => 10 * ema[m] <= 7 * peak[m]
          /\ empty >= 2 => 100 * ema[m] <= 49 * peak[m]
          /\ empty >= 3 => 1000 * ema[m] <= 343 * peak[m]
          /\ empty >= 4 => 10000 * ema[m] <= 2401 * peak[m]
      BY DEF MetricsInv, RemnantInv
    <3>3. /\ ema[m] \in Nat /\ peak[m] \in Nat /\ peak'[m] \in Nat
          /\ peak[m] <= peak'[m]
          /\ smooth(m) <= peak'[m] /\ empty \in Nat
      BY <1>3, <1>4
    <3>. QED  BY <2>1, <3>1, <3>2, <3>3
  <2>. QED  BY <2>2, <2>3
<1>7. StaleRemnant'
  <2>1. ASSUME shared'.stale, NEW m \in Metrics
        PROVE  100 * ema'[m] <= 17 * peak'[m]
    <3>1. empty' >= 5 /\ empty' \in Nat
      <4>1. IsStale(count)
        BY <1>2, <2>1
      <4>2. count \in Nat
        BY <1>3
      <4>. QED  BY <1>2, <4>1, <4>2 DEF IsStale
    <3>2. 100000 * ema'[m] <= 16807 * peak'[m]
      BY <1>6, <3>1 DEF RemnantInv
    <3>3. ema'[m] \in Nat /\ peak'[m] \in Nat
      BY <1>1, <1>2, <1>4
    <3>. QED  BY <3>2, <3>3
  <2>. QED  BY <2>1 DEF StaleRemnant
<1>8. ASSUME ~fresh, NEW m \in Metrics
      PROVE  shared'.metrics[m] <= shared.metrics[m]
  <2>1. silent
    BY <1>8 DEF MetricsInv, silent
  <2>2. smooth(m) \in Int /\ ema[m] \in Int /\ smooth(m) <= ema[m]
    BY <1>1, <1>3, <2>1
  <2>3. Normalize(m, smooth(m)) <= Normalize(m, ema[m])
    BY <2>2, NormalizeGrows
  <2>. QED  BY <1>2, <2>3 DEF MetricsInv
<1>9. /\ \A m \in Metrics : shared'.metrics[m] = Normalize(m, ema'[m])
      /\ \A e \in Payloads : window'[e] = 0
  BY <1>2
<1>10. (\A m \in Metrics : shared.metrics[m] = Normalize(m, ema[m]))'
  BY <1>9 DEF Normalize, WithinLimits, Clamp
<1>. QED  BY <1>5, <1>6, <1>7, <1>8, <1>9, <1>10 DEF MetricsInv

LEMMA MetricsCorrect == Spec => []MetricsInv
<1>1. ASSUME MetricsInv, [Next]_vars
      PROVE  MetricsInv'
  <2>1. CASE UNCHANGED vars
    BY <1>1, <2>1 DEF vars, MetricsInv, TypeOK, RemnantInv, StaleRemnant
  <2>. QED  BY <1>1, <2>1, ReceiveKeeps, TickKeeps DEF Next
<1>. QED  BY <1>1, MetricsInit, PTL DEF Spec

---------------------------------------------------------------------------
(* Parameters and bars.                                                    *)

\* Each of the five transforms shapes a ratio of [0, 1] into one.
LEMMA ShapedInRange ==
    ASSUME NEW r \in Rules, NEW ratio \in 0..One
    PROVE  Shaped(r, ratio) \in 0..One
<1>1. One \in Nat \ {0}
  BY MetricsAssumption
<1>2. (ratio * ratio) \div One \in 0..One
  <2>1. ratio * ratio <= One * One /\ 0 <= ratio * ratio /\ ratio * ratio \in Int
    BY <1>1
  <2>2. One * One < (One + 1) * One /\ 0 * One = 0
    BY <1>1
  <2>. QED  BY <1>1, <2>1, <2>2, DivBound
<1>3. (((ratio * 5) \div One) * One) \div 5 \in 0..One
  <2>. DEFINE k == (ratio * 5) \div One
  <2>1. k \in 0..5
    <3>1. ratio * 5 < (5 + 1) * One /\ 0 * One <= ratio * 5 /\ ratio * 5 \in Int
      BY <1>1
    <3>. QED  BY <1>1, <3>1, DivBound
  <2>2. k * One \in Int /\ 0 <= k * One /\ k * One <= 5 * One
    <3>. HIDE DEF k
    <3>. QED  BY <1>1, <2>1, TimesGrows
  <2>3. (k * One) \div 5 \in 0..One
    <3>. HIDE DEF k
    <3>. QED  BY <1>1, <2>2
  <2>. QED  BY <2>3
<1>4. LogCurve[ratio] \in 0..One /\ PowerCurve[r][ratio] \in 0..One
  BY RulesAssumption DEF Curves
<1>. QED  BY <1>2, <1>3, <1>4 DEF Shaped

LEMMA RatioInRange ==
    ASSUME NEW r \in Rules, r.inMin < r.inMax, NEW x \in Int
    PROVE  Ratio(r, x) \in 0..One
<1>. DEFINE width == r.inMax - r.inMin
            over == Heard(r, x) - r.inMin
<1>1. /\ width \in Nat \ {0} /\ over \in 0..width /\ One \in Nat \ {0}
  BY MetricsAssumption, RulesAssumption DEF Heard, Clamp
<1>. HIDE DEF width, over
<1>2. /\ over * One \in Int /\ 0 <= over * One /\ over * One <= width * One
      /\ width * One = One * width /\ 0 * width = 0
      /\ One * width < (One + 1) * width
  BY <1>1, TimesGrows
<1>3. (over * One) \div width \in 0..One
  BY <1>1, <1>2, DivBound
<1>. QED  BY <1>3 DEF Ratio, width, over

\* What a rule makes of any value lies between the ends of its output range.
LEMMA MappedBetween ==
    ASSUME NEW r \in Rules, NEW x \in Int
    PROVE  /\ Min({r.outMin, r.outMax}) <= Mapped(r, x)
           /\ Mapped(r, x) <= Max({r.outMin, r.outMax})
<1>1. /\ r.outMin \in Int /\ r.outMax \in Int /\ r.inMin \in Int /\ r.inMax \in Int
      /\ One \in Nat \ {0}
  BY MetricsAssumption, RulesAssumption
<1>. DEFINE low == Min({r.outMin, r.outMax})
            high == Max({r.outMin, r.outMax})
<1>2. /\ low \in {r.outMin, r.outMax} /\ low <= r.outMin /\ low <= r.outMax
      /\ high \in {r.outMin, r.outMax} /\ r.outMin <= high /\ r.outMax <= high
  BY <1>1, MaxOfTwo
<1>. HIDE DEF low, high
<1>3. CASE r.inMin >= r.inMax
  <2>1. Mapped(r, x) = r.outMin
    BY <1>3 DEF Mapped
  <2>. QED  BY <1>2, <2>1 DEF low, high
<1>4. CASE r.inMin < r.inMax
  <2>. DEFINE d == r.outMax - r.outMin
              s == Shaped(r, Ratio(r, x))
              step == (d * s) \div One
  <2>1. s \in 0..One /\ d \in Int
    BY <1>1, <1>4, RatioInRange, ShapedInRange
  <2>2. Mapped(r, x) = r.outMin + step
    BY <1>1, <1>4 DEF Mapped
  <2>3. /\ d >= 0 => 0 <= step /\ step <= d
        /\ d < 0 => d <= step /\ step <= 0
        /\ step \in Int
    <3>. HIDE DEF d, s
    <3>1. /\ d * s \in Int
          /\ d >= 0 => 0 <= d * s /\ d * s <= d * One
          /\ d < 0 => d * One <= d * s /\ d * s <= 0
      BY <1>1, <2>1
    <3>2. d * One < (d + 1) * One /\ 0 * One = 0 /\ 0 < (0 + 1) * One
      BY <1>1, <2>1
    <3>3. d * One \in Int
      BY <1>1, <2>1
    <3>4. step \in Int
      BY <1>1, <3>1, DivBound
    <3>5. CASE d >= 0
      <4>1. 0 * One <= d * s /\ d * s < (d + 1) * One
        BY <3>1, <3>2, <3>3, <3>5, <1>1, <2>1
      <4>. QED  BY <1>1, <2>1, <3>1, <3>4, <3>5, <4>1, DivBound
    <3>6. CASE d < 0
      <4>1. d * One <= d * s /\ d * s < (0 + 1) * One
        BY <3>1, <3>2, <3>6, <1>1
      <4>. QED  BY <1>1, <2>1, <3>1, <3>4, <3>6, <4>1, DivBound
    <3>. QED  BY <2>1, <3>4, <3>5, <3>6
  <2>4. d = r.outMax - r.outMin
    OBVIOUS
  <2>. HIDE DEF d, s, step
  <2>5. low <= Mapped(r, x) /\ Mapped(r, x) <= high
    BY <1>1, <1>2, <2>2, <2>3, <2>4
  <2>. QED  BY <2>5 DEF low, high
<1>. QED  BY <1>1, <1>3, <1>4

LEMMA ShapedGrows ==
    ASSUME NEW r \in Rules, NEW a \in 0..One, NEW b \in 0..One, a <= b
    PROVE  Shaped(r, a) <= Shaped(r, b)
<1>1. One \in Nat \ {0} /\ a \in Nat /\ b \in Nat
  BY MetricsAssumption
<1>2. (a * a) \div One <= (b * b) \div One
  <2>1. a * a <= b * a /\ b * a <= b * b /\ a * a \in Int /\ b * a \in Int
        /\ b * b \in Int
    BY <1>1, TimesGrows
  <2>. QED  BY <1>1, <2>1, DivGrows
<1>3. (((a * 5) \div One) * One) \div 5 <= (((b * 5) \div One) * One) \div 5
  <2>. DEFINE k == (a * 5) \div One
              l == (b * 5) \div One
  <2>1. k \in Int /\ l \in Int
    BY <1>1, DivBound
  <2>2. k <= l
    <3>1. a * 5 <= b * 5 /\ a * 5 \in Int /\ b * 5 \in Int
      BY <1>1
    <3>. QED  BY <1>1, <3>1, DivGrows
  <2>3. k * One <= l * One /\ k * One \in Int /\ l * One \in Int
    <3>. HIDE DEF k, l
    <3>. QED  BY <1>1, <2>1, <2>2, TimesGrows
  <2>4. (k * One) \div 5 <= (l * One) \div 5
    <3>. HIDE DEF k, l
    <3>. QED  BY <2>3, DivGrows
  <2>. QED  BY <2>4
<1>4. LogCurve[a] <= LogCurve[b] /\ PowerCurve[r][a] <= PowerCurve[r][b]
  BY RulesAssumption DEF Curves
<1>. QED  BY <1>1, <1>2, <1>3, <1>4 DEF Shaped

LEMMA RatioGrows ==
    ASSUME NEW r \in Rules, r.inMin < r.inMax,
           NEW x \in Int, NEW y \in Int, x <= y
    PROVE  Ratio(r, x) <= Ratio(r, y)
<1>. DEFINE width == r.inMax - r.inMin
            a == Heard(r, x) - r.inMin
            b == Heard(r, y) - r.inMin
<1>1. /\ width \in Nat \ {0} /\ a \in Int /\ b \in Int /\ a <= b /\ One \in Nat
  BY MetricsAssumption, RulesAssumption DEF Heard, Clamp
<1>. HIDE DEF width, a, b
<1>2. a * One <= b * One /\ a * One \in Int /\ b * One \in Int
  BY <1>1, TimesGrows
<1>3. (a * One) \div width <= (b * One) \div width
  BY <1>1, <1>2, DivGrows
<1>. QED  BY <1>3 DEF Ratio, width, a, b

\* A rule maps a higher value to a higher parameter or, with a falling output
\* range, to a lower one.
LEMMA MappedGrows ==
    ASSUME NEW r \in Rules, NEW x \in Int, NEW y \in Int, x <= y
    PROVE  IF r.outMin <= r.outMax THEN Mapped(r, x) <= Mapped(r, y)
                                   ELSE Mapped(r, y) <= Mapped(r, x)
<1>1. /\ r.outMin \in Int /\ r.outMax \in Int /\ r.inMin \in Int /\ r.inMax \in Int
      /\ One \in Nat \ {0}
  BY MetricsAssumption, RulesAssumption
<1>2. CASE r.inMin >= r.inMax
  <2>1. Mapped(r, x) = r.outMin /\ Mapped(r, y) = r.outMin
    BY <1>2 DEF Mapped
  <2>. QED  BY <1>1, <2>1
<1>3. CASE r.inMin < r.inMax
  <2>. DEFINE d == r.outMax - r.outMin
              s == Shaped(r, Ratio(r, x))
              u == Shaped(r, Ratio(r, y))
  <2>1. s \in Nat /\ u \in Nat /\ s <= u
    BY <1>1, <1>3, RatioInRange, ShapedInRange, RatioGrows, ShapedGrows
  <2>2. /\ Mapped(r, x) = r.outMin + (d * s) \div One
        /\ Mapped(r, y) = r.outMin + (d * u) \div One
    BY <1>1, <1>3 DEF Mapped
  <2>3. d \in Int /\ (r.outMin <= r.outMax <=> d >= 0)
    BY <1>1
  <2>. HIDE DEF d, s, u
  <2>4. d * s \in Int /\ d * u \in Int
    BY <2>1, <2>3
  <2>5. (d * s) \div One \in Int /\ (d * u) \div One \in Int
    BY <1>1, <2>4, DivBound
  <2>6. CASE d >= 0
    <3>1. d * s <= d * u
      BY <2>1, <2>3, <2>6, TimesGrows
    <3>2. (d * s) \div One <= (d * u) \div One
      BY <1>1, <2>4, <3>1, DivGrows
    <3>. QED  BY <1>1, <2>2, <2>3, <2>5, <2>6, <3>2
  <2>7. CASE d < 0
    <3>1. (-d) * s <= (-d) * u
      BY <2>1, <2>3, <2>7, TimesGrows
    <3>2. d * u <= d * s
      BY <2>1, <2>3, <3>1
    <3>3. (d * u) \div One <= (d * s) \div One
      BY <1>1, <2>4, <3>2, DivGrows
    <3>. QED  BY <1>1, <2>2, <2>3, <2>5, <2>7, <3>3
  <2>. QED  BY <2>3, <2>6, <2>7
<1>. QED  BY <1>1, <1>2, <1>3

---------------------------------------------------------------------------
(* Theorems.                                                               *)

\* The variables keep their types, and every metric of a snapshot lies in
\* [0, 1], whatever the events and however long the windows.
THEOREM TypeCorrect == Spec => []TypeOK
<1>1. MetricsInv => TypeOK
  BY DEF MetricsInv
<1>. QED  BY <1>1, MetricsCorrect, PTL

\* The latency that a window counts with is its 95th percentile, for every
\* number of samples of every value.
THEOREM PercentileCorrect == Spec => []P95Covers
<1>1. MetricsInv => P95Covers
  BY PercentileCovers DEF MetricsInv, TypeOK
<1>. QED  BY <1>1, MetricsCorrect, PTL

\* No snapshot makes the dashboard draw a bar wider than its frame.
THEOREM BarsNeverOverflow == Spec => []BarsFit
<1>1. ASSUME MetricsInv
      PROVE  BarsFit
  <2>1. \A m \in Metrics : shared.metrics[m] \in 0..One
    BY <1>1 DEF MetricsInv, TypeOK
  <2>2. ASSUME NEW x \in 0..One
        PROVE  Filled(x) <= Width
    <3>1. One \in Nat \ {0}
      BY MetricsAssumption
    <3>. DEFINE a == 2 * x * Width + One
    <3>2. /\ a \in Int /\ 2 * One \in Nat \ {0} /\ Width \in Int
          /\ a < (Width + 1) * (2 * One)
      BY <3>1 DEF Width
    <3>3. a \div (2 * One) <= Width
      <4>. HIDE DEF a
      <4>. QED  BY <3>2, DivBound
    <3>. QED  BY <3>3 DEF Filled
  <2>. QED  BY <2>1, <2>2 DEF BarsFit
<1>. QED  BY <1>1, MetricsCorrect, PTL

\* Every parameter lies in the output range of its rule, for all transforms, all
\* finite bounds and every precision of the fixed-point numbers.
THEOREM ParametersInRange == Spec => []MappedInRange
<1>1. ASSUME MetricsInv
      PROVE  MappedInRange
  <2>1. \A r \in Rules : shared.metrics[r.source] \in Int
    BY <1>1, RulesAssumption, MetricsAssumption DEF MetricsInv, TypeOK
  <2>. QED  BY <2>1, MappedBetween DEF MappedInRange
<1>. QED  BY <1>1, MetricsCorrect, PTL

\* Every rule is monotone, for all transforms, all finite bounds and every
\* precision of the fixed-point numbers.
THEOREM RulesAreMonotone == RulesKeepOrder
BY MappedGrows, MetricsAssumption DEF RulesKeepOrder

\* A stale snapshot holds at most 17 % of the highest average.
THEOREM StaleHoldsLittle == Spec => []StaleRemnant
<1>1. MetricsInv => StaleRemnant
  BY DEF MetricsInv
<1>. QED  BY <1>1, MetricsCorrect, PTL

\* A tick before which nothing arrived raises no metric.
THEOREM SilenceNeverRaises == Spec => SilenceFades
<1>1. MetricsInv /\ [Next]_vars =>
        [(Tick /\ ~fresh) =>
             \A m \in Metrics : shared'.metrics[m] <= shared.metrics[m]]_vars
  BY TickKeeps
<1>. QED  BY <1>1, MetricsCorrect, PTL DEF Spec, SilenceFades
=============================================================================
