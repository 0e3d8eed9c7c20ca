---------------------------- MODULE ForecastProofs ----------------------------
(***************************************************************************)
(* Lemmas about the arithmetic of a prediction: what a choice from a       *)
(* finite set, a statistic of a sample, a curve and an expected low are,   *)
(* whatever the history.                                                   *)
(***************************************************************************)
EXTENDS Forecast, FiniteSetTheorems, SequenceTheorems, WellFoundedInduction, TLAPS

(***************************************************************************)
(* Choosing from a finite set.                                             *)
(***************************************************************************)

LEMMA LeastNatural ==
    ASSUME NEW F \in SUBSET Nat, F # {}
    PROVE  \E m \in F : \A k \in F : m <= k
<1> DEFINE R == OpToRel(<, Nat)
<1>1. IsWellFoundedOn(R, Nat)
  BY NatLessThanWellFounded
<1>2. \A x, y \in Nat : <<y, x>> \in R <=> y < x
  BY DEF OpToRel
<1>3. PICK m \in F : \A k \in F : ~ (<<k, m>> \in R)
  <2> HIDE DEF R
  <2> QED BY <1>1, WFMin
<1>4. \A k \in F : ~ (k < m)
  <2> HIDE DEF R
  <2> QED BY <1>2, <1>3
<1> QED BY <1>4

(* What no number of steps leads to, starting from what is so of 0. *)
LEMMA UpTo ==
    ASSUME NEW S \in SUBSET Nat, 0 \in S, \A k \in Nat : k \in S => k + 1 \in S
    PROVE  \A k \in Nat : k \in S
<1> SUFFICES ASSUME Nat \ S # {} PROVE FALSE
  OBVIOUS
<1>1. PICK m \in Nat \ S : \A k \in Nat \ S : m <= k
  BY LeastNatural
<1>2. m # 0 /\ m - 1 \in Nat /\ ~ (m <= m - 1)
  BY <1>1
<1>3. m - 1 \in S
  BY <1>1, <1>2
<1>4. (m - 1) + 1 \in S
  BY <1>2, <1>3
<1> QED BY <1>1, <1>4

(* A strict order on a finite set has an element with nothing before it. *)
LEMMA FirstExists ==
    ASSUME NEW S, IsFiniteSet(S), S # {}, NEW R,
           \A x \in S : <<x, x>> \notin R,
           \A x, y, z \in S : <<x, y>> \in R /\ <<y, z>> \in R => <<x, z>> \in R
    PROVE  \E x \in S : \A y \in S : <<y, x>> \notin R
<1> DEFINE Before(x) == {y \in S : <<y, x>> \in R}
           sizes == {Cardinality(Before(x)) : x \in S}
<1>1. \A x \in S : IsFiniteSet(Before(x)) /\ Cardinality(Before(x)) \in Nat
  BY FS_Subset, FS_CardinalityType
<1>2. sizes \subseteq Nat /\ sizes # {}
  <2> HIDE DEF Before
  <2> QED BY <1>1
<1>3. PICK m \in sizes : \A k \in sizes : m <= k
  BY <1>2, LeastNatural
<1>4. PICK x \in S : m = Cardinality(Before(x))
  BY <1>3
<1>5. ASSUME NEW y \in S, <<y, x>> \in R PROVE FALSE
  <2>1. Before(y) \subseteq Before(x) /\ y \in Before(x) /\ y \notin Before(y)
    BY <1>5
  <2>2. Before(y) # Before(x) /\ Cardinality(Before(y)) <= Cardinality(Before(x))
        /\ Cardinality(Before(y)) # Cardinality(Before(x))
    BY <2>1, <1>1, FS_Subset
  <2>3. Cardinality(Before(y)) \in sizes
    OBVIOUS
  <2> HIDE DEF Before, sizes
  <2> QED BY <2>2, <2>3, <1>1, <1>3, <1>4
<1> QED BY <1>5

LEMMA LeastExists ==
    ASSUME NEW S, IsFiniteSet(S), S # {}, S \subseteq Int
    PROVE  \E x \in S : \A y \in S : x <= y
<1> DEFINE R == {p \in S \X S : p[1] < p[2]}
<1>1. \A x, y \in S : <<x, y>> \in R <=> x < y
  OBVIOUS
<1>2. \A x, y \in S : x \in Int /\ y \in Int
  OBVIOUS
<1> HIDE DEF R
<1>3. \A x \in S : <<x, x>> \notin R
  BY <1>1, <1>2
<1>4. \A x, y, z \in S : <<x, y>> \in R /\ <<y, z>> \in R => <<x, z>> \in R
  BY <1>1, <1>2
<1>5. PICK x \in S : \A y \in S : <<y, x>> \notin R
  BY <1>3, <1>4, FirstExists
<1>6. ASSUME NEW y \in S PROVE x <= y
  <2>1. ~ (y < x)
    BY <1>1, <1>5
  <2>2. x \in Int /\ y \in Int
    BY <1>2
  <2> QED BY <2>1, <2>2
<1> QED BY <1>6

LEMMA GreatestExists ==
    ASSUME NEW S, IsFiniteSet(S), S # {}, S \subseteq Int
    PROVE  \E x \in S : \A y \in S : y <= x
<1> DEFINE R == {p \in S \X S : p[2] < p[1]}
<1>1. \A x, y \in S : <<x, y>> \in R <=> y < x
  OBVIOUS
<1>2. \A x, y \in S : x \in Int /\ y \in Int
  OBVIOUS
<1> HIDE DEF R
<1>3. \A x \in S : <<x, x>> \notin R
  BY <1>1, <1>2
<1>4. \A x, y, z \in S : <<x, y>> \in R /\ <<y, z>> \in R => <<x, z>> \in R
  BY <1>1, <1>2
<1>5. PICK x \in S : \A y \in S : <<y, x>> \notin R
  BY <1>3, <1>4, FirstExists
<1>6. ASSUME NEW y \in S PROVE y <= x
  <2>1. ~ (x < y)
    BY <1>1, <1>5
  <2>2. x \in Int /\ y \in Int
    BY <1>2
  <2> QED BY <2>1, <2>2
<1> QED BY <1>6

LEMMA MinIs ==
    ASSUME NEW S, IsFiniteSet(S), S # {}, S \subseteq Int
    PROVE  Min(S) \in S /\ \A y \in S : Min(S) <= y
BY LeastExists DEF Min

LEMMA MaxIs ==
    ASSUME NEW S, IsFiniteSet(S), S # {}, S \subseteq Int
    PROVE  Max(S) \in S /\ \A y \in S : y <= Max(S)
BY GreatestExists DEF Max

LEMMA MaxOfTwo ==
    ASSUME NEW a \in Int, NEW b \in Int
    PROVE  Max({a, b}) \in {a, b} /\ Max({a, b}) >= a /\ Max({a, b}) >= b
<1>1. IsFiniteSet({a} \cup {b}) /\ {a} \cup {b} = {a, b}
  BY FS_Singleton, FS_Union
<1> QED BY <1>1, MaxIs

(***************************************************************************)
(* Buckets, for lists of every length with every bound and name.           *)
(***************************************************************************)

NamedBuckets(names) == [name : names, min : Nat, max : Nat \cup {Unbounded}]

(* A non-empty set of positions has a first one. *)
LEMMA FirstIsFirst ==
    ASSUME NEW S \in SUBSET Nat, S # {}
    PROVE  First(S) \in S /\ \A j \in S : First(S) <= j
  BY LeastNatural DEF First

(* The positions and the fields of a list of buckets. *)
LEMMA ListFields ==
    ASSUME NEW names, NEW buckets \in Seq(NamedBuckets(names))
    PROVE  /\ DOMAIN buckets = 1..Len(buckets)
           /\ Len(buckets) \in Nat
           /\ buckets # << >> => Len(buckets) # 0
           /\ \A j \in DOMAIN buckets : /\ buckets[j].name \in names
                                        /\ buckets[j].min \in Nat
                                        /\ buckets[j].max \in Nat \cup {Unbounded}
  <1>1. /\ DOMAIN buckets = 1..Len(buckets) /\ Len(buckets) \in Nat
        /\ buckets # << >> => Len(buckets) # 0
    BY LenProperties, EmptySeq
  <1>2. \A j \in DOMAIN buckets : buckets[j] \in NamedBuckets(names)
    BY <1>1, ElementOfSeq
  <1> QED
    BY <1>1, <1>2 DEF NamedBuckets

(* Buckets of an admitted list do not overlap: one that comes later starts
   after every earlier one ends. *)
LEMMA LaterStartsAfter ==
    ASSUME NEW names, NEW buckets \in Seq(NamedBuckets(names)), Tiles(buckets),
           NEW k \in DOMAIN buckets, NEW i \in DOMAIN buckets, k < i
    PROVE  buckets[k].max \in Nat /\ buckets[i].min > buckets[k].max
  <1> DEFINE Bad == {j \in DOMAIN buckets : k < j /\ ~(buckets[j].min > buckets[k].max)}
  <1>1. /\ DOMAIN buckets = 1..Len(buckets)
        /\ Len(buckets) \in Nat
        /\ \A j \in DOMAIN buckets : /\ buckets[j].min \in Nat
                                     /\ buckets[j].max \in Nat \cup {Unbounded}
    BY ListFields
  <1>2. \A j \in DOMAIN buckets :
           /\ j < Len(buckets) => /\ buckets[j].max \in Nat
                                  /\ buckets[j].min <= buckets[j].max
           /\ j > 1 => buckets[j].min = buckets[j - 1].max + 1
    BY <1>1, BucketsAssumption DEF Tiles, ExpectedMin
  <1>3. buckets[k].max \in Nat
    BY <1>1, <1>2
  <1>4. SUFFICES ASSUME Bad # {} PROVE FALSE
    BY <1>3
  <1>5. Bad \in SUBSET Nat
    BY <1>1
  <1>6. PICK j \in Bad : \A n \in Bad : j <= n
    BY <1>4, <1>5, LeastNatural
  <1>7. j - 1 \in DOMAIN buckets /\ j - 1 >= k /\ j - 1 < Len(buckets)
    BY <1>1
  <1>8. buckets[j].min = buckets[j - 1].max + 1 /\ buckets[j - 1].max \in Nat
    <2>1. j \in DOMAIN buckets /\ j > 1
      BY <1>1, <1>7
    <2>2. buckets[j].min = buckets[j - 1].max + 1
      BY <1>2, <2>1
    <2>3. buckets[j - 1].max \in Nat
      BY <1>2, <1>7
    <2> QED
      BY <2>2, <2>3
  <1>9. CASE j - 1 = k
    BY <1>1, <1>3, <1>8, <1>9
  <1>10. CASE j - 1 > k
    <2>1. j - 1 \notin Bad
      BY <1>1, <1>6
    <2>2. buckets[j - 1].min > buckets[k].max
      BY <1>7, <1>10, <2>1
    <2>3. buckets[j - 1].min <= buckets[j - 1].max
      BY <1>2, <1>7
    <2> QED
      BY <1>1, <1>3, <1>7, <1>8, <2>2, <2>3
  <1> QED
    BY <1>1, <1>7, <1>9, <1>10

(* The first bucket of an admitted list that does not end before day d holds
   d, and no other bucket does. *)
LEMMA OneHolds ==
    ASSUME NEW names, NEW buckets \in Seq(NamedBuckets(names)), Tiles(buckets), NEW d \in Nat
    PROVE  \E k \in DOMAIN buckets :
             /\ {i \in DOMAIN buckets : Holds(buckets[i], d)} = {k}
             /\ EndsAtOrAfter(buckets[k], d)
             /\ \A i \in DOMAIN buckets : EndsAtOrAfter(buckets[i], d) => k <= i
  <1> DEFINE Ends == {i \in DOMAIN buckets : EndsAtOrAfter(buckets[i], d)}
  <1>1. /\ DOMAIN buckets = 1..Len(buckets)
        /\ Len(buckets) \in Nat \ {0}
        /\ \A j \in DOMAIN buckets : /\ buckets[j].min \in Nat
                                     /\ buckets[j].max \in Nat \cup {Unbounded}
    BY ListFields DEF Tiles
  <1>2. Len(buckets) \in Ends
    BY <1>1 DEF Tiles, EndsAtOrAfter
  <1>3. PICK k \in Ends : \A i \in Ends : k <= i
    <2>1. Ends \in SUBSET Nat
      BY <1>1
    <2> QED
      BY <1>2, <2>1, LeastNatural
  <1>4. Holds(buckets[k], d)
    <2>1. CASE k = 1
      BY <1>1, <1>3, <2>1 DEF Tiles, ExpectedMin, Holds
    <2>2. CASE k > 1
      <3>1. k - 1 \in DOMAIN buckets /\ k - 1 \notin Ends
        BY <1>1, <1>3, <2>2
      <3>2. buckets[k - 1].max \in Nat /\ d > buckets[k - 1].max
        BY <1>1, <3>1 DEF EndsAtOrAfter
      <3>3. buckets[k].min = buckets[k - 1].max + 1
        BY <1>1, <2>2 DEF Tiles, ExpectedMin
      <3> QED
        BY <1>1, <3>2, <3>3 DEF Holds
    <2> QED
      BY <1>1, <2>1, <2>2
  <1>5. ASSUME NEW i \in DOMAIN buckets, Holds(buckets[i], d)
        PROVE  i = k
    <2>1. k <= i
      BY <1>3, <1>5 DEF Holds
    <2>2. ASSUME k < i PROVE FALSE
      <3>1. buckets[k].max \in Nat /\ buckets[i].min > buckets[k].max
        BY <2>2, LaterStartsAfter
      <3>2. d <= buckets[k].max
        BY <3>1, BucketsAssumption DEF EndsAtOrAfter
      <3> QED
        BY <1>1, <1>5, <3>1, <3>2 DEF Holds
    <2> QED
      BY <1>1, <2>1, <2>2
  <1> QED
    BY <1>3, <1>4, <1>5

(* Under an admitted list ap_bucket and ap_bucket_expr name the same bucket. *)
LEMMA OneBucket ==
    ASSUME NEW names, NEW buckets \in Seq(NamedBuckets(names)), Tiles(buckets), NEW d \in Nat
    PROVE  /\ ApBucket(buckets, d) = ApBucketExpr(buckets, d)
           /\ ApBucket(buckets, d) \in names
  <1>1. PICK k \in DOMAIN buckets :
             /\ {i \in DOMAIN buckets : Holds(buckets[i], d)} = {k}
             /\ EndsAtOrAfter(buckets[k], d)
             /\ \A i \in DOMAIN buckets : EndsAtOrAfter(buckets[i], d) => k <= i
    BY OneHolds
  <1> DEFINE Ends == {i \in DOMAIN buckets : EndsAtOrAfter(buckets[i], d)}
  <1>2. Ends \in SUBSET Nat /\ k \in Ends
    BY <1>1
  <1>3. First(Ends) = k
    <2>1. First(Ends) \in Ends /\ \A j \in Ends : First(Ends) <= j
      BY <1>2, FirstIsFirst
    <2>2. First(Ends) <= k /\ k <= First(Ends) /\ First(Ends) \in Nat /\ k \in Nat
      BY <1>1, <1>2, <2>1
    <2> QED
      BY <2>2
  <1>4. First({k}) = k
    <2>1. {k} \in SUBSET Nat /\ {k} # {}
      BY <1>2
    <2> QED
      BY <2>1, FirstIsFirst
  <1>5. buckets[k].name \in names
    BY ListFields
  <1>6. ApBucket(buckets, d) = buckets[k].name
    BY <1>2, <1>3 DEF ApBucket, NameOfFirst
  <1>7. ApBucketExpr(buckets, d) = buckets[k].name
    BY <1>1, <1>4 DEF ApBucketExpr, NameOfFirst
  <1> QED
    BY <1>5, <1>6, <1>7


(***************************************************************************)
(* The statistics of a sample.                                             *)
(***************************************************************************)

(* A sample: a finite set of observations with a price. *)
IsSample(S) == IsFiniteSet(S) /\ \A row \in S : row.amount \in Nat \ {0}

LEMMA PartOfSample ==
    ASSUME NEW S, IsSample(S), NEW T \in SUBSET S
    PROVE  IsSample(T) /\ Cardinality(T) \in Nat /\ Cardinality(T) <= Cardinality(S)
BY FS_Subset, FS_CardinalityType DEF IsSample

(* There is a k-th smallest amount. *)
LEMMA OrderStatisticIs ==
    ASSUME NEW S, IsSample(S), NEW k \in Nat, 1 <= k, k <= Cardinality(S)
    PROVE  OrderStatistic(S, k) \in Nat \ {0}
<1> DEFINE amounts == {row.amount : row \in S}
           Under(x) == {row \in S : row.amount < x}
           To(x) == {row \in S : row.amount <= x}
           late == {x \in amounts : k <= Cardinality(To(x))}
<1>1. \A x : /\ Under(x) \subseteq S /\ To(x) \subseteq S
             /\ Cardinality(Under(x)) \in Nat /\ Cardinality(To(x)) \in Nat
  BY PartOfSample
<1>2. amounts \subseteq Nat \ {0} /\ IsFiniteSet(amounts)
  <2> DEFINE f == [row \in S |-> row.amount]
  <2>1. f \in Surjection(S, amounts)
    BY DEF Surjection
  <2>2. amounts \subseteq Nat \ {0}
    BY DEF IsSample
  <2> HIDE DEF f, amounts
  <2> QED BY <2>1, <2>2, FS_Surjection DEF IsSample
<1>3. S # {}
  BY FS_EmptySet DEF IsSample
<1>4. \A T \in SUBSET amounts : IsFiniteSet(T) /\ T \subseteq Int
  <2> HIDE DEF amounts
  <2> TAKE T \in SUBSET amounts
  <2>1. IsFiniteSet(T)
    BY <1>2, FS_Subset
  <2>2. \A x \in amounts : x \in Int
    BY <1>2
  <2> QED BY <2>1, <2>2
<1>5. late # {}
  <2>1. amounts # {}
    BY <1>3
  <2>2. PICK top \in amounts : \A x \in amounts : x <= top
    <3> HIDE DEF amounts
    <3> QED BY <2>1, <1>4, GreatestExists
  <2>3. To(top) = S
    BY <2>2
  <2>4. top \in late
    BY <2>2, <2>3
  <2> QED BY <2>4
<1>6. PICK x \in late : \A y \in late : x <= y
  <2> HIDE DEF late, amounts
  <2>1. late \in SUBSET amounts
    BY DEF late
  <2> QED BY <2>1, <1>4, <1>5, LeastExists
<1>7. Cardinality(Under(x)) < k
  <2> SUFFICES ASSUME k <= Cardinality(Under(x)) PROVE FALSE
    BY <1>1
  <2> DEFINE lower == {y \in amounts : y < x}
  <2>1. Under(x) # {}
    <3>1. Cardinality(Under(x)) # 0
      <4> HIDE DEF Under
      <4> QED BY <1>1
    <3> HIDE DEF Under
    <3> QED BY <3>1, FS_EmptySet
  <2>2. lower # {} /\ lower \in SUBSET amounts
    BY <2>1
  <2>3. PICK y \in lower : \A z \in lower : z <= y
    <3> HIDE DEF lower, amounts
    <3> QED BY <2>2, <1>4, GreatestExists
  <2>4. To(y) = Under(x)
    <3>1. \A row \in S : row.amount \in amounts
      OBVIOUS
    <3>2. y \in Nat /\ x \in Nat /\ y < x /\ \A a \in amounts : a \in Nat
      BY <1>2, <2>3
    <3>3. ASSUME NEW row \in S PROVE row.amount <= y <=> row.amount < x
      <4>1. row.amount \in Nat /\ row.amount \in amounts
        BY <3>1, <3>2
      <4>2. row.amount < x => row.amount <= y
        BY <4>1, <2>3
      <4> HIDE DEF amounts
      <4> QED BY <4>1, <4>2, <3>2
    <3> HIDE DEF amounts, lower
    <3> QED BY <3>3
  <2>5. y \in late
    BY <2>4, <2>3
  <2>6. y \in Nat /\ x \in Nat /\ y < x
    BY <1>2, <2>3
  <2> QED BY <2>5, <2>6, <1>6
<1>8. OrderStatistic(S, k) \in amounts
  <2>1. x \in amounts /\ Cardinality({row \in S : row.amount < x}) < k
                      /\ k <= Cardinality({row \in S : row.amount <= x})
    BY <1>6, <1>7
  <2> QED BY <2>1 DEF OrderStatistic
<1> QED BY <1>2, <1>8

LEMMA Median2Is ==
    ASSUME NEW S, IsSample(S), S # {}
    PROVE  Median2(S) \in Nat \ {0}
<1> DEFINE n == Cardinality(S)
<1>1. n \in Nat /\ n # 0
  BY FS_CardinalityType, FS_EmptySet DEF IsSample
<1> HIDE DEF n
<1>2. /\ (n + 1) \div 2 \in Nat /\ 1 <= (n + 1) \div 2 /\ (n + 1) \div 2 <= n
      /\ n \div 2 + 1 \in Nat /\ 1 <= n \div 2 + 1 /\ n \div 2 + 1 <= n
  BY <1>1
<1>3. /\ OrderStatistic(S, (n + 1) \div 2) \in Nat \ {0}
      /\ OrderStatistic(S, n \div 2 + 1) \in Nat \ {0}
  BY <1>2, OrderStatisticIs DEF n
<1>4. Median2(S) = OrderStatistic(S, (n + 1) \div 2) + OrderStatistic(S, n \div 2 + 1)
  BY DEF Median2, n
<1> QED BY <1>3, <1>4

(* round_half_up((below + equal / 2) * 100 / n) is a percentile. *)
LEMMA PercentileIs ==
    ASSUME NEW S, IsSample(S), S # {}, NEW amount \in Nat
    PROVE  PercentileOf(amount, S) \in 0..100
<1> DEFINE n == Cardinality(S)
           B == {row \in S : row.amount < amount}
           E == {row \in S : row.amount = amount}
           b == Cardinality(B)
           e == Cardinality(E)
           num == 2 * (200 * b + 100 * e) + 2 * n
           q == num \div (2 * (2 * n))
<1>1. n \in Nat /\ n # 0
  BY FS_CardinalityType, FS_EmptySet DEF IsSample
<1>2. IsFiniteSet(B) /\ IsFiniteSet(E) /\ b \in Nat /\ e \in Nat
  <2> HIDE DEF B, E
  <2>1. B \in SUBSET S /\ E \in SUBSET S
    BY DEF B, E
  <2> QED BY <2>1, PartOfSample DEF IsSample
<1>3. b + e <= n
  <2>1. B \cap E = {} /\ B \cup E \in SUBSET S
    BY DEF IsSample
  <2> HIDE DEF B, E
  <2>2. Cardinality(B \cup E) = b + e - Cardinality(B \cap E)
    BY <1>2, FS_Union
  <2>3. Cardinality(B \cap E) = 0
    BY <2>1, FS_EmptySet
  <2>4. Cardinality(B \cup E) <= n
    BY <2>1, PartOfSample
  <2> HIDE DEF b, e, n
  <2> QED BY <2>2, <2>3, <2>4, <1>2
<1>4. PercentileOf(amount, S) = num \div (2 * (2 * n))
  BY DEF PercentileOf, RoundHalfUp
<1> HIDE DEF b, e, n, B, E
<1>5. num \in Nat /\ 2 * (2 * n) = 4 * n /\ 4 * n \in Nat /\ 4 * n > 0 /\ num < 4 * n * 101
  BY <1>1, <1>2, <1>3
<1> HIDE DEF num
<1>6. num \div (4 * n) \in 0..100
  <2> DEFINE d == 4 * n
  <2>1. d \in Nat /\ d > 0 /\ num < d * 101
    BY <1>5
  <2> HIDE DEF d
  <2>2. num \div d \in Nat /\ num \div d <= 100
    BY <2>1, <1>5
  <2> QED BY <2>2 DEF d
<1> QED BY <1>4, <1>5, <1>6

(***************************************************************************)
(* Folds and sums over a finite set.                                       *)
(***************************************************************************)

(* What holds of a set whenever it holds of the smaller ones holds of every
   part of a finite set. *)
LEMMA BySize ==
    ASSUME NEW S, IsFiniteSet(S), NEW F,
           \A s \in SUBSET S :
              (\A t \in SUBSET S : Cardinality(t) < Cardinality(s) => t \in F) => s \in F
    PROVE  \A s \in SUBSET S : s \in F
<1> DEFINE bad == {Cardinality(s) : s \in {t \in SUBSET S : t \notin F}}
<1>1. \A s \in SUBSET S : Cardinality(s) \in Nat
  BY FS_Subset, FS_CardinalityType
<1>2. SUFFICES ASSUME bad # {} PROVE FALSE
  OBVIOUS
<1>3. PICK m \in bad : \A k \in bad : m <= k
  <2>1. bad \in SUBSET Nat
    BY <1>1
  <2> HIDE DEF bad
  <2> QED BY <1>2, <2>1, LeastNatural
<1>4. PICK s \in SUBSET S : s \notin F /\ m = Cardinality(s)
  BY <1>3
<1>5. ASSUME NEW t \in SUBSET S, Cardinality(t) < Cardinality(s), t \notin F PROVE FALSE
  <2>1. m <= Cardinality(t)
    BY <1>3, <1>5
  <2> QED BY <2>1, <1>1, <1>4, <1>5
<1> QED BY <1>4, <1>5

LEMMA OneLess ==
    ASSUME NEW S, IsFiniteSet(S), NEW s \in SUBSET S, NEW x \in s
    PROVE  /\ s \ {x} \in SUBSET S /\ Cardinality(s \ {x}) < Cardinality(s)
           /\ x \in S \ (s \ {x}) /\ (s \ {x}) \cup {x} = s
<1>1. IsFiniteSet(s) /\ Cardinality(s) \in Nat
  BY FS_Subset, FS_CardinalityType
<1>2. Cardinality(s \ {x}) = Cardinality(s) - 1
  BY <1>1, FS_RemoveElement
<1> QED BY <1>1, <1>2

(* What holds of the empty set, and of a set with one more element whenever it
   holds of the set, holds of a finite set. *)
LEMMA AddingUp ==
    ASSUME NEW S, IsFiniteSet(S), NEW F, {} \in F,
           \A s \in SUBSET S : \A x \in S \ s : s \in F => s \cup {x} \in F
    PROVE  S \in F
<1>1. ASSUME NEW s \in SUBSET S, \A t \in SUBSET S : Cardinality(t) < Cardinality(s) => t \in F
      PROVE  s \in F
  <2>1. CASE s # {}
    <3>1. PICK x \in s : TRUE
      BY <2>1
    <3> DEFINE t == s \ {x}
    <3>2. t \in SUBSET S /\ Cardinality(t) < Cardinality(s) /\ x \in S \ t /\ t \cup {x} = s
      BY OneLess
    <3> HIDE DEF t
    <3>3. t \in F
      BY <1>1, <3>2
    <3> QED BY <3>2, <3>3
  <2> QED BY <2>1
<1>2. \A s \in SUBSET S : s \in F
  BY <1>1, BySize
<1> QED BY <1>2

(* What a fold over a set recurs by. *)
FoldStep(op, base, h, S, g) ==
    [s \in SUBSET S |->
        IF s = {} THEN base
        ELSE op[<<h[CHOOSE x \in s : TRUE], g[s \ {CHOOSE x \in s : TRUE}]>>]]

IsFold(op, base, h, S, V, g) == g \in [SUBSET S -> V] /\ g = FoldStep(op, base, h, S, g)

FoldOf(op, base, h, S, V) == CHOOSE g : IsFold(op, base, h, S, V, g)

LEMMA FoldExists ==
    ASSUME NEW S, IsFiniteSet(S), NEW V, NEW op, NEW base \in V, NEW h,
           \A e \in S, v \in V : op[<<h[e], v>>] \in V
    PROVE  IsFold(op, base, h, S, V, FoldOf(op, base, h, S, V))
<1> DEFINE Small(k) == {s \in SUBSET S : Cardinality(s) <= k}
           x(s) == CHOOSE e \in s : TRUE
           Folds(k, g) == \A s \in Small(k) :
                            g[s] = IF s = {} THEN base ELSE op[<<h[x(s)], g[s \ {x(s)}]>>]
           Done == {k \in Nat : \E g \in [SUBSET S -> V] : Folds(k, g)}
<1>1. \A s \in SUBSET S : IsFiniteSet(s) /\ Cardinality(s) \in Nat
  BY FS_Subset, FS_CardinalityType
<1>2. ASSUME NEW s \in SUBSET S, s # {}
      PROVE  /\ x(s) \in S /\ x(s) \in s /\ s \ {x(s)} \in SUBSET S
             /\ Cardinality(s \ {x(s)}) = Cardinality(s) - 1
  <2>1. x(s) \in s
    BY <1>2
  <2> HIDE DEF x
  <2> QED BY <2>1, <1>1, FS_RemoveElement
<1>3. 0 \in Done
  <2> DEFINE g == [s \in SUBSET S |-> base]
  <2>1. \A s \in Small(0) : s = {}
    <3> SUFFICES ASSUME NEW s \in SUBSET S, Cardinality(s) <= 0 PROVE s = {}
      OBVIOUS
    <3>1. Cardinality(s) = 0
      BY <1>1
    <3> QED BY <3>1, <1>1, FS_EmptySet
  <2>2. g \in [SUBSET S -> V] /\ Folds(0, g)
    BY <2>1
  <2> QED BY <2>2
<1>4. ASSUME NEW k \in Nat, k \in Done PROVE k + 1 \in Done
  <2>1. PICK g \in [SUBSET S -> V] : Folds(k, g)
    BY <1>4
  <2> DEFINE f == [s \in SUBSET S |-> IF s = {} THEN base ELSE op[<<h[x(s)], g[s \ {x(s)}]>>]]
  <2>2. f \in [SUBSET S -> V]
    <3> SUFFICES ASSUME NEW s \in SUBSET S, s # {} PROVE op[<<h[x(s)], g[s \ {x(s)}]>>] \in V
      OBVIOUS
    <3>1. x(s) \in S /\ g[s \ {x(s)}] \in V
      <4> HIDE DEF x, Folds
      <4> QED BY <1>2
    <3> HIDE DEF x
    <3> QED BY <3>1
  <2>3. ASSUME NEW s \in Small(k) PROVE f[s] = g[s]
    <3>1. s \in SUBSET S
      OBVIOUS
    <3> HIDE DEF x
    <3> QED BY <3>1, <2>1
  <2>4. ASSUME NEW s \in Small(k + 1)
        PROVE  f[s] = IF s = {} THEN base ELSE op[<<h[x(s)], f[s \ {x(s)}]>>]
    <3>1. CASE s = {}
      BY <3>1
    <3>2. CASE s # {}
      <4>1. s \in SUBSET S /\ Cardinality(s) <= k + 1
        OBVIOUS
      <4>2. s \ {x(s)} \in SUBSET S /\ Cardinality(s \ {x(s)}) <= k
        <5> HIDE DEF x
        <5> QED BY <4>1, <3>2, <1>1, <1>2
      <4>3. f[s \ {x(s)}] = g[s \ {x(s)}]
        BY <4>2, <2>3
      <4>4. f[s] = op[<<h[x(s)], g[s \ {x(s)}]>>]
        BY <4>1, <3>2
      <4> HIDE DEF f, x
      <4> QED BY <4>3, <4>4, <3>2
    <3> QED BY <3>1, <3>2
  <2>5. Folds(k + 1, f)
    <3> HIDE DEF f, x, Small
    <3> QED BY <2>4
  <2>6. k + 1 \in Nat
    OBVIOUS
  <2> HIDE DEF Folds, f
  <2> QED BY <2>2, <2>5, <2>6
<1>5. Cardinality(S) \in Done
  <2>1. Done \in SUBSET Nat
    OBVIOUS
  <2>2. S \in SUBSET S
    OBVIOUS
  <2> HIDE DEF Done
  <2> QED BY <2>1, <2>2, <1>1, <1>3, <1>4, UpTo
<1>6. PICK g \in [SUBSET S -> V] : Folds(Cardinality(S), g)
  <2> HIDE DEF Folds
  <2> QED BY <1>5
<1>7. SUBSET S = Small(Cardinality(S))
  BY FS_Subset
<1>8. g = FoldStep(op, base, h, S, g)
  <2>1. \A s \in SUBSET S : g[s] = FoldStep(op, base, h, S, g)[s]
    <3> HIDE DEF Small
    <3> QED BY <1>6, <1>7 DEF FoldStep
  <2> QED BY <2>1 DEF FoldStep
<1> QED BY <1>8 DEF FoldOf, IsFold

(* A relation between a set and what it folds to. *)
Carried(op, h, S, R) ==
    \A s \in SUBSET S : \A v : \A x \in S \ s :
        <<s, v>> \in R => <<s \cup {x}, op[<<h[x], v>>]>> \in R

LEMMA FoldIs ==
    ASSUME NEW S, IsFiniteSet(S), NEW V, NEW op, NEW base, NEW h, NEW g,
           IsFold(op, base, h, S, V, g), NEW R, <<{}, base>> \in R, Carried(op, h, S, R)
    PROVE  <<S, g[S]>> \in R
<1> DEFINE x(s) == CHOOSE e \in s : TRUE
           F == {s \in SUBSET S : <<s, g[s]>> \in R}
<1>1. \A s \in SUBSET S : g[s] = IF s = {} THEN base ELSE op[<<h[x(s)], g[s \ {x(s)}]>>]
  BY DEF FoldStep, IsFold
<1>2. \A s : s # {} => x(s) \in s
  OBVIOUS
<1> HIDE DEF x
<1>3. ASSUME NEW s \in SUBSET S, \A t \in SUBSET S : Cardinality(t) < Cardinality(s) => t \in F
      PROVE  s \in F
  <2>1. CASE s = {}
    BY <1>1, <2>1
  <2>2. CASE s # {}
    <3> DEFINE t == s \ {x(s)}
    <3>1. t \in SUBSET S /\ Cardinality(t) < Cardinality(s) /\ x(s) \in S \ t /\ t \cup {x(s)} = s
      BY <1>2, <2>2, OneLess
    <3>2. g[s] = op[<<h[x(s)], g[t]>>]
      BY <1>1, <2>2
    <3> HIDE DEF t
    <3>3. <<t, g[t]>> \in R
      BY <1>3, <3>1
    <3>4. <<t \cup {x(s)}, op[<<h[x(s)], g[t]>>]>> \in R
      BY <3>1, <3>3 DEF Carried
    <3> QED BY <3>1, <3>2, <3>4
  <2> QED BY <2>1, <2>2
<1>4. \A s \in SUBSET S : s \in F
  <2> HIDE DEF F
  <2> QED BY <1>3, BySize
<1> QED BY <1>4

Plus == [p \in Int \X Int |-> p[1] + p[2]]

(* A sum, as MapThenSumSet and FoldFunction make it. *)
SumOver(h, S) ==
    MapThenFoldSet(LAMBDA a, b : a + b, 0, LAMBDA e : h[e], LAMBDA s : CHOOSE x \in s : TRUE, S)

LEMMA SumFolds ==
    ASSUME NEW S, IsFiniteSet(S), NEW h, \A e \in S : h[e] \in Int
    PROVE  LET g == FoldOf(Plus, 0, h, S, Int)
           IN  /\ g \in [SUBSET S -> Int] /\ g = FoldStep(Plus, 0, h, S, g)
               /\ \A T \in SUBSET S : SumOver(h, T) = g[T]
<1> DEFINE g == FoldOf(Plus, 0, h, S, Int)
           x(s) == CHOOSE e \in s : TRUE
<1>1. \A s \in SUBSET S : s # {} => x(s) \in s
  OBVIOUS
<1>2. g \in [SUBSET S -> Int] /\ g = FoldStep(Plus, 0, h, S, g)
  <2>1. \A e \in S, v \in Int : Plus[<<h[e], v>>] \in Int
    BY DEF Plus
  <2> DEFINE zero == 0
  <2>2. zero \in Int
    OBVIOUS
  <2> HIDE DEF zero, x
  <2>3. IsFold(Plus, zero, h, S, Int, FoldOf(Plus, zero, h, S, Int))
    BY <2>1, <2>2, FoldExists
  <2> QED BY <2>3 DEF zero, IsFold
<1>3. \A s \in SUBSET S : g[s] = IF s = {} THEN 0 ELSE Plus[<<h[x(s)], g[s \ {x(s)}]>>]
  BY <1>2 DEF FoldStep
<1> HIDE DEF x, g
<1>4. ASSUME NEW s \in SUBSET S, s # {}
      PROVE  Plus[<<h[x(s)], g[s \ {x(s)}]>>] = h[x(s)] + g[s \ {x(s)}]
  <2>1. x(s) \in S /\ s \ {x(s)} \in SUBSET S
    BY <1>1, <1>4
  <2> QED BY <2>1, <1>2 DEF Plus
<1>6. \A s \in SUBSET S : g[s] = IF s = {} THEN 0 ELSE h[x(s)] + g[s \ {x(s)}]
  BY <1>3, <1>4
<1>7. ASSUME NEW T \in SUBSET S PROVE SumOver(h, T) = g[T]
  <2> DEFINE Step(k) == [s \in SUBSET T |-> IF s = {} THEN 0 ELSE h[x(s)] + k[s \ {x(s)}]]
             part == [s \in SUBSET T |-> g[s]]
             sum == CHOOSE k : k = Step(k)
             F == {s \in SUBSET T : sum[s] = g[s]}
  <2>1. part = Step(part)
    <3>1. \A s \in SUBSET T : s \in SUBSET S /\ s \ {x(s)} \in SUBSET T
      OBVIOUS
    <3> QED BY <3>1, <1>6
  <2>2. sum = Step(sum)
    <3> HIDE DEF Step
    <3> QED BY <2>1
  <2>3. SumOver(h, T) = sum[T]
    BY DEF SumOver, MapThenFoldSet, x
  <2> HIDE DEF sum
  <2>4. ASSUME NEW s \in SUBSET T,
               \A t \in SUBSET T : Cardinality(t) < Cardinality(s) => t \in F
        PROVE  s \in F
    <3>1. /\ sum[s] = IF s = {} THEN 0 ELSE h[x(s)] + sum[s \ {x(s)}]
          /\ g[s] = IF s = {} THEN 0 ELSE h[x(s)] + g[s \ {x(s)}]
      BY <1>6, <2>2
    <3>2. ASSUME s # {} PROVE sum[s \ {x(s)}] = g[s \ {x(s)}]
      <4>1. IsFiniteSet(T) /\ x(s) \in s
        BY <1>1, <3>2, FS_Subset
      <4>2. s \ {x(s)} \in SUBSET T /\ Cardinality(s \ {x(s)}) < Cardinality(s)
        BY <4>1, OneLess
      <4> QED BY <4>2, <2>4
    <3> QED BY <3>1, <3>2
  <2>5. \A s \in SUBSET T : s \in F
    <3>1. IsFiniteSet(T)
      BY FS_Subset
    <3> HIDE DEF F
    <3> QED BY <3>1, <2>4, BySize
  <2> QED BY <2>3, <2>5
<1> QED BY <1>2, <1>7 DEF g

(* A sum does not depend on the order of the summands. *)
LEMMA SumIs ==
    ASSUME NEW S, IsFiniteSet(S), NEW h, \A e \in S : h[e] \in Int
    PROVE  /\ SumOver(h, {}) = 0 /\ SumOver(h, S) \in Int
           /\ \A e \in S : SumOver(h, S) = h[e] + SumOver(h, S \ {e})
<1> DEFINE g == FoldOf(Plus, 0, h, S, Int)
<1>1. /\ g \in [SUBSET S -> Int] /\ g = FoldStep(Plus, 0, h, S, g)
      /\ \A T \in SUBSET S : SumOver(h, T) = g[T]
  BY SumFolds
<1> HIDE DEF g
<1> DEFINE Sum(s) == SumOver(h, s)
           F == {s \in SUBSET S : \A e \in s : Sum(s) = h[e] + Sum(s \ {e})}
           x(s) == CHOOSE e \in s : TRUE
<1>2. \A s : s # {} => x(s) \in s
  OBVIOUS
<1>3. \A s \in SUBSET S : g[s] = IF s = {} THEN 0 ELSE Plus[<<h[x(s)], g[s \ {x(s)}]>>]
  BY <1>1 DEF FoldStep
<1> HIDE DEF x
<1>4. ASSUME NEW s \in SUBSET S
      PROVE  Sum(s) \in Int /\ Sum(s) = IF s = {} THEN 0 ELSE h[x(s)] + Sum(s \ {x(s)})
  <2>1. Sum(s) \in Int /\ Sum(s) = g[s]
    BY <1>1
  <2>2. ASSUME s # {} PROVE Plus[<<h[x(s)], g[s \ {x(s)}]>>] = h[x(s)] + Sum(s \ {x(s)})
    <3>1. h[x(s)] \in Int /\ s \ {x(s)} \in SUBSET S
      BY <1>2, <2>2
    <3>2. g[s \ {x(s)}] = Sum(s \ {x(s)}) /\ g[s \ {x(s)}] \in Int
      BY <3>1, <1>1
    <3> HIDE DEF Sum
    <3> QED BY <3>1, <3>2 DEF Plus
  <2> HIDE DEF Sum
  <2> QED BY <2>1, <2>2, <1>3
<1> HIDE DEF Sum
<1>5. ASSUME NEW s \in SUBSET S,
             \A t \in SUBSET S : Cardinality(t) < Cardinality(s) => t \in F
      PROVE  s \in F
  <2> SUFFICES ASSUME NEW e \in s PROVE Sum(s) = h[e] + Sum(s \ {e})
    OBVIOUS
  <2> DEFINE c == x(s)
             t == s \ {c}
             u == s \ {e}
             v == t \ {e}
  <2>1. c \in s /\ t \in SUBSET S /\ u \in SUBSET S /\ v \in SUBSET S
    BY <1>2
  <2>2. Sum(s) = h[c] + Sum(t) /\ h[c] \in Int /\ h[e] \in Int
    BY <1>4, <2>1
  <2>3. CASE c = e
    BY <2>2, <2>3
  <2>4. CASE c # e
    <3>1. e \in t /\ c \in u /\ u \ {c} = v
      BY <2>1, <2>4
    <3>2. t \in F /\ u \in F
      <4>1. Cardinality(t) < Cardinality(s) /\ Cardinality(u) < Cardinality(s)
        BY <2>1, OneLess
      <4> QED BY <4>1, <1>5, <2>1
    <3>3. Sum(t) = h[e] + Sum(v) /\ Sum(u) = h[c] + Sum(v)
      BY <3>1, <3>2
    <3>4. Sum(v) \in Int
      BY <1>4, <2>1
    <3> HIDE DEF c, t, u, v
    <3>5. Sum(s) = h[e] + Sum(u)
      BY <2>2, <3>3, <3>4
    <3> QED BY <3>5 DEF u
  <2> QED BY <2>3, <2>4
<1>6. \A s \in SUBSET S : s \in F
  <2> HIDE DEF F
  <2> QED BY <1>5, BySize
<1>7. S \in SUBSET S /\ {} \in SUBSET S
  OBVIOUS
<1> QED BY <1>4, <1>6, <1>7 DEF Sum

LEMMA SumAdds ==
    ASSUME NEW S, IsFiniteSet(S), NEW h, \A e \in S : h[e] \in Int,
           NEW s \in SUBSET S, NEW x \in S \ s
    PROVE  /\ SumOver(h, s) \in Int /\ h[x] \in Int
           /\ SumOver(h, s \cup {x}) = h[x] + SumOver(h, s)
<1> DEFINE t == s \cup {x}
<1>1. t \ {x} = s /\ x \in t /\ h[x] \in Int /\ t \in SUBSET S
  OBVIOUS
<1>2. IsFiniteSet(s) /\ IsFiniteSet(t) /\ \A e \in s : h[e] \in Int
  BY <1>1, FS_Subset
<1>3. \A e \in t : h[e] \in Int
  OBVIOUS
<1> HIDE DEF t
<1>4. SumOver(h, t) = h[x] + SumOver(h, t \ {x})
  BY <1>1, <1>2, <1>3, SumIs
<1> QED BY <1>1, <1>2, <1>4, SumIs DEF t

LEMMA SumLess ==
    ASSUME NEW S, IsFiniteSet(S), NEW h, NEW k,
           \A e \in S : h[e] \in Int /\ k[e] \in Int /\ h[e] <= k[e]
    PROVE  SumOver(h, S) <= SumOver(k, S)
<1> DEFINE F == {s \in SUBSET S : SumOver(h, s) <= SumOver(k, s)}
<1>1. {} \in F
  <2>1. SumOver(h, {}) = 0 /\ SumOver(k, {}) = 0
    BY SumIs
  <2> QED BY <2>1
<1>2. ASSUME NEW s \in SUBSET S, NEW x \in S \ s, s \in F PROVE s \cup {x} \in F
  <2>1. /\ SumOver(h, s) \in Int /\ h[x] \in Int
        /\ SumOver(h, s \cup {x}) = h[x] + SumOver(h, s)
    BY SumAdds
  <2>2. /\ SumOver(k, s) \in Int /\ k[x] \in Int
        /\ SumOver(k, s \cup {x}) = k[x] + SumOver(k, s)
    BY SumAdds
  <2>3. SumOver(h, s) <= SumOver(k, s)
    BY <1>2
  <2>4. h[x] <= k[x]
    OBVIOUS
  <2>5. SumOver(h, s \cup {x}) <= SumOver(k, s \cup {x})
    BY <2>1, <2>2, <2>3, <2>4
  <2> QED BY <2>5
<1>3. S \in F
  <2> HIDE DEF F
  <2> QED BY <1>1, <1>2, AddingUp
<1> QED BY <1>3

(* Equal summands have equal sums. *)
LEMMA SumSame ==
    ASSUME NEW S, IsFiniteSet(S), NEW h, NEW k, \A e \in S : h[e] \in Int /\ k[e] = h[e]
    PROVE  SumOver(h, S) = SumOver(k, S)
<1>1. \A e \in S : h[e] \in Int /\ k[e] \in Int /\ h[e] <= k[e] /\ k[e] <= h[e]
  OBVIOUS
<1>2. SumOver(h, S) <= SumOver(k, S) /\ SumOver(k, S) <= SumOver(h, S)
  BY <1>1, SumLess
<1>3. SumOver(h, S) \in Int /\ SumOver(k, S) \in Int
  BY <1>1, SumIs
<1> QED BY <1>2, <1>3

LEMMA SumDiffers ==
    ASSUME NEW S, IsFiniteSet(S), NEW h, NEW k, NEW d,
           \A e \in S : h[e] \in Int /\ k[e] \in Int /\ d[e] = h[e] - k[e]
    PROVE  SumOver(d, S) = SumOver(h, S) - SumOver(k, S)
<1> DEFINE F == {s \in SUBSET S : SumOver(d, s) = SumOver(h, s) - SumOver(k, s)}
<1>1. {} \in F
  <2>1. SumOver(h, {}) = 0 /\ SumOver(k, {}) = 0 /\ SumOver(d, {}) = 0
    BY SumIs
  <2> QED BY <2>1
<1>2. ASSUME NEW s \in SUBSET S, NEW x \in S \ s, s \in F PROVE s \cup {x} \in F
  <2>1. /\ SumOver(h, s) \in Int /\ h[x] \in Int
        /\ SumOver(h, s \cup {x}) = h[x] + SumOver(h, s)
    BY SumAdds
  <2>2. /\ SumOver(k, s) \in Int /\ k[x] \in Int
        /\ SumOver(k, s \cup {x}) = k[x] + SumOver(k, s)
    BY SumAdds
  <2>3. /\ SumOver(d, s) \in Int /\ d[x] \in Int
        /\ SumOver(d, s \cup {x}) = d[x] + SumOver(d, s)
    <3>1. \A e \in S : d[e] \in Int
      OBVIOUS
    <3> HIDE DEF F
    <3>2. SumOver(d, s) \in Int
      BY <3>1, SumAdds
    <3>3. d[x] \in Int
      BY <3>1
    <3>4. SumOver(d, s \cup {x}) = d[x] + SumOver(d, s)
      BY <3>1, SumAdds
    <3> QED BY <3>2, <3>3, <3>4
  <2>4. SumOver(d, s) = SumOver(h, s) - SumOver(k, s) /\ d[x] = h[x] - k[x]
    BY <1>2
  <2>5. SumOver(d, s \cup {x}) = SumOver(h, s \cup {x}) - SumOver(k, s \cup {x})
    BY <2>1, <2>2, <2>3, <2>4
  <2> QED BY <2>5
<1>3. S \in F
  <2> HIDE DEF F
  <2> QED BY <1>1, <1>2, AddingUp
<1> QED BY <1>3

(* What adds nothing can be left out. *)
LEMMA SumOfPart ==
    ASSUME NEW S, IsFiniteSet(S), NEW h, \A e \in S : h[e] \in Int,
           NEW W \in SUBSET S, \A e \in S \ W : h[e] = 0
    PROVE  SumOver(h, S) = SumOver(h, W)
<1> DEFINE F == {s \in SUBSET S : SumOver(h, s) = SumOver(h, s \cap W)}
<1>1. {} \in F
  <2>1. {} \cap W = {}
    OBVIOUS
  <2> QED BY <2>1
<1>2. ASSUME NEW s \in SUBSET S, NEW x \in S \ s, s \in F PROVE s \cup {x} \in F
  <2> DEFINE t == s \cap W
  <2>1. /\ SumOver(h, s) \in Int /\ h[x] \in Int
        /\ SumOver(h, s \cup {x}) = h[x] + SumOver(h, s)
    BY SumAdds
  <2>2. SumOver(h, s) = SumOver(h, t)
    BY <1>2
  <2>3. CASE x \in W
    <3>1. (s \cup {x}) \cap W = t \cup {x} /\ t \in SUBSET S /\ x \in S \ t
      BY <2>3
    <3>2. s \cup {x} \in SUBSET S
      OBVIOUS
    <3> HIDE DEF t
    <3>3. SumOver(h, t \cup {x}) = h[x] + SumOver(h, t)
      BY <3>1, SumAdds
    <3>4. SumOver(h, s \cup {x}) = SumOver(h, (s \cup {x}) \cap W)
      BY <3>1, <3>3, <2>1, <2>2
    <3> QED BY <3>2, <3>4
  <2>4. CASE x \notin W
    <3>1. (s \cup {x}) \cap W = t /\ h[x] = 0 /\ s \cup {x} \in SUBSET S
      BY <2>4
    <3> HIDE DEF t
    <3>2. SumOver(h, s \cup {x}) = SumOver(h, (s \cup {x}) \cap W)
      <4>1. h[x] = 0 /\ SumOver(h, t) \in Int
        BY <3>1, <2>1, <2>2
      <4>2. SumOver(h, s \cup {x}) = SumOver(h, t)
        BY <4>1, <2>1, <2>2
      <4> QED BY <3>1, <4>2
    <3> QED BY <3>1, <3>2
  <2> QED BY <2>3, <2>4
<1>3. S \in F
  <2> HIDE DEF F
  <2> QED BY <1>1, <1>2, AddingUp
<1>4. S \cap W = W
  OBVIOUS
<1> QED BY <1>3, <1>4

(* The parts of a partition count up to what is in them. *)
LEMMA SumOfParts ==
    ASSUME NEW S, IsFiniteSet(S), NEW key, NEW K, IsFiniteSet(K), NEW n,
           \A v \in K : n[v] = Cardinality({e \in S : key[e] = v})
    PROVE  SumOver(n, K) = Cardinality({e \in S : key[e] \in K})
<1> DEFINE Part(s) == {e \in S : key[e] \in s}
           F == {s \in SUBSET K : SumOver(n, s) = Cardinality(Part(s))}
<1>1. \A T \in SUBSET S : IsFiniteSet(T) /\ Cardinality(T) \in Nat
  BY FS_Subset, FS_CardinalityType
<1>2. \A v \in K : n[v] \in Int
  <2> TAKE v \in K
  <2>1. Cardinality({e \in S : key[e] = v}) \in Nat
    BY <1>1
  <2> QED BY <2>1
<1>3. {} \in F
  <2>1. Part({}) = {}
    OBVIOUS
  <2>2. SumOver(n, {}) = 0
    BY <1>2, SumIs
  <2> QED BY <2>1, <2>2, FS_EmptySet
<1>4. ASSUME NEW s \in SUBSET K, NEW x \in K \ s, s \in F PROVE s \cup {x} \in F
  <2> DEFINE A == Part(s)
             B == {e \in S : key[e] = x}
  <2>1. Part(s \cup {x}) = A \cup B /\ A \cap B = {}
    OBVIOUS
  <2>2. A \in SUBSET S /\ B \in SUBSET S
    OBVIOUS
  <2>3. SumOver(n, s \cup {x}) = n[x] + SumOver(n, s)
    BY <1>2, SumAdds
  <2>4. SumOver(n, s) = Cardinality(A) /\ n[x] = Cardinality(B)
    BY <1>4
  <2> HIDE DEF A, B, Part, F
  <2>5. Cardinality(A \cup B) = Cardinality(A) + Cardinality(B)
    <3>1. Cardinality(A \cap B) = 0
      BY <2>1, FS_EmptySet
    <3>2. Cardinality(A \cup B) = Cardinality(A) + Cardinality(B) - Cardinality(A \cap B)
      BY <1>1, <2>2, FS_Union
    <3> QED BY <3>1, <3>2, <1>1, <2>2
  <2>6. SumOver(n, s \cup {x}) = Cardinality(Part(s \cup {x}))
    <3>1. Cardinality(A) \in Nat /\ Cardinality(B) \in Nat
      BY <1>1, <2>2
    <3> QED BY <3>1, <2>1, <2>3, <2>4, <2>5
  <2> QED BY <2>6 DEF F
<1>5. K \in F
  <2> HIDE DEF F
  <2> QED BY <1>3, <1>4, AddingUp
<1> QED BY <1>5

(* A sum is between the bounds of its summands. *)
LEMMA SumIsBetween ==
    ASSUME NEW S, IsFiniteSet(S), NEW h, NEW lo \in Nat, NEW hi \in Nat,
           \A e \in S : h[e] \in Nat /\ lo <= h[e] /\ h[e] <= hi
    PROVE  /\ SumOver(h, S) \in Nat
           /\ lo * Cardinality(S) <= SumOver(h, S) /\ SumOver(h, S) <= hi * Cardinality(S)
<1> DEFINE Fine(s) == /\ SumOver(h, s) \in Nat
                      /\ lo * Cardinality(s) <= SumOver(h, s)
                      /\ SumOver(h, s) <= hi * Cardinality(s)
           F == {s \in SUBSET S : Fine(s)}
<1>1. \A e \in S : h[e] \in Int
  OBVIOUS
<1>2. {} \in F
  <2>1. SumOver(h, {}) = 0 /\ Cardinality({}) = 0
    BY <1>1, SumIs, FS_EmptySet
  <2>2. lo * 0 = 0 /\ hi * 0 = 0
    OBVIOUS
  <2> QED BY <2>1, <2>2
<1>3. ASSUME NEW s \in SUBSET S, NEW x \in S \ s, s \in F PROVE s \cup {x} \in F
  <2> DEFINE c == Cardinality(s)
             t == s \cup {x}
  <2>1. SumOver(h, t) = h[x] + SumOver(h, s)
    BY <1>1, SumAdds
  <2>2. c \in Nat /\ Cardinality(t) = c + 1 /\ t \in SUBSET S
    <3>1. IsFiniteSet(s)
      BY FS_Subset
    <3> QED BY <3>1, FS_AddElement, FS_CardinalityType
  <2>3. Fine(s) /\ h[x] \in Nat /\ lo <= h[x] /\ h[x] <= hi
    BY <1>3
  <2> HIDE DEF c, t
  <2>4. lo * (c + 1) = lo * c + lo /\ hi * (c + 1) = hi * c + hi
        /\ lo * c \in Nat /\ hi * c \in Nat
    BY <2>2
  <2>5. Fine(t)
    BY <2>1, <2>2, <2>3, <2>4 DEF c
  <2> HIDE DEF Fine
  <2> QED BY <2>2, <2>5 DEF t
<1>4. S \in F
  <2> HIDE DEF F
  <2> QED BY <1>2, <1>3, AddingUp
<1> QED BY <1>4

(* The sum that a point of the curve is the mean of. *)
CurveSum(cfg, index, S) == MapThenSumSet(LAMBDA e : Raw2(cfg, index, e), S)

LEMMA CurveSumIs ==
    ASSUME NEW cfg, NEW index, NEW S, IsFiniteSet(S), NEW lo \in Nat, NEW hi \in Nat,
           \A e \in S : /\ Raw2(cfg, index, e) \in Nat
                        /\ lo <= Raw2(cfg, index, e) /\ Raw2(cfg, index, e) <= hi
    PROVE  /\ CurveSum(cfg, index, S) \in Nat
           /\ lo * Cardinality(S) <= CurveSum(cfg, index, S)
           /\ CurveSum(cfg, index, S) <= hi * Cardinality(S)
<1> DEFINE h == [e \in S |-> Raw2(cfg, index, e)]
           x(s) == CHOOSE x \in s : TRUE
           Step(g) == [s \in SUBSET S |->
               IF s = {} THEN 0 ELSE Raw2(cfg, index, x(s)) + g[s \ {x(s)}]]
           sum == CHOOSE g : g = Step(g)
           all == [s \in SUBSET S |-> SumOver(h, s)]
<1>1. CurveSum(cfg, index, S) = sum[S]
  BY DEF CurveSum, MapThenSumSet, MapThenFoldSet
<1>2. \A e \in S : h[e] = Raw2(cfg, index, e) /\ h[e] \in Nat /\ h[e] \in Int
  OBVIOUS
<1>3. \A s \in SUBSET S : s # {} => x(s) \in s
  OBVIOUS
<1> HIDE DEF h, x
<1>4. ASSUME NEW s \in SUBSET S, s # {}
      PROVE  SumOver(h, s) = Raw2(cfg, index, x(s)) + SumOver(h, s \ {x(s)})
  <2>1. IsFiniteSet(s) /\ x(s) \in s /\ \A e \in s : h[e] \in Int
    BY <1>2, <1>3, <1>4, FS_Subset
  <2> QED BY <2>1, <1>2, SumIs
<1>5. all = Step(all)
  <2>1. SumOver(h, {}) = 0
    BY <1>2, SumIs
  <2>2. \A s \in SUBSET S : s \ {x(s)} \in SUBSET S
    OBVIOUS
  <2> QED BY <2>1, <2>2, <1>4
<1>6. sum = Step(sum)
  <2> HIDE DEF Step, all
  <2> QED BY <1>5
<1> HIDE DEF sum
<1> DEFINE F == {s \in SUBSET S : sum[s] = SumOver(h, s)}
<1>7. ASSUME NEW s \in SUBSET S, \A t \in SUBSET S : Cardinality(t) < Cardinality(s) => t \in F
      PROVE  s \in F
  <2>1. CASE s = {}
    BY <1>2, <1>6, <2>1, SumIs
  <2>2. CASE s # {}
    <3>1. /\ s \ {x(s)} \in SUBSET S /\ Cardinality(s \ {x(s)}) < Cardinality(s)
      BY <1>3, <2>2, OneLess
    <3>2. sum[s \ {x(s)}] = SumOver(h, s \ {x(s)})
      BY <3>1, <1>7
    <3> QED BY <3>2, <1>4, <1>6, <2>2
  <2> QED BY <2>1, <2>2
<1>8. \A s \in SUBSET S : s \in F
  <2> HIDE DEF F
  <2> QED BY <1>7, BySize
<1>9. sum[S] = SumOver(h, S)
  BY <1>8
<1>10. \A e \in S : h[e] \in Nat /\ lo <= h[e] /\ h[e] <= hi
  BY <1>2
<1> HIDE DEF F
<1>11. /\ SumOver(h, S) \in Nat
       /\ lo * Cardinality(S) <= SumOver(h, S) /\ SumOver(h, S) <= hi * Cardinality(S)
  BY <1>10, SumIsBetween
<1> QED BY <1>1, <1>9, <1>11

(***************************************************************************)
(* The curve of a trip.                                                    *)
(***************************************************************************)

(* What the validators of a configuration leave of its curve. *)
IsCurveConfig(cfg) ==
    /\ cfg.buckets \in Seq([name : BucketNames(cfg), min : Nat, max : Int \cup {Unbounded}])
    /\ Tiles(cfg.buckets)
    /\ cfg.horizon \in Nat /\ cfg.smoothing \in Nat \ {0}

(* An index of medians, with holes. *)
IsIndex(cfg, index) ==
    \A b \in BucketNames(cfg) :
        /\ index.cell[b] # NoData => index.cell[b].median \in Nat
        /\ index.bucket[b] # NoData => index.bucket[b] \in Nat

(* The buckets cover the day line: no day to come raises. *)
LEMMA ApBucketIs ==
    ASSUME NEW cfg, IsCurveConfig(cfg), NEW d \in Nat
    PROVE  ApBucket(cfg.buckets, d) \in BucketNames(cfg)
<1> DEFINE B == cfg.buckets
           n == Len(B)
           S == {i \in DOMAIN B : EndsAtOrAfter(B[i], d)}
<1>1. n \in Nat /\ DOMAIN B = 1..n /\ n # 0
  <2>1. B \in Seq([name : BucketNames(cfg), min : Nat, max : Int \cup {Unbounded}]) /\ B # << >>
    BY DEF Tiles, IsCurveConfig
  <2> HIDE DEF B
  <2> QED BY <2>1
<1>2. n \in S
  <2>1. n \in DOMAIN B
    BY <1>1
  <2>2. B[n].max = Unbounded
    BY <2>1 DEF Tiles, IsCurveConfig
  <2> QED BY <2>1, <2>2 DEF EndsAtOrAfter
<1>3. \E i \in S : \A j \in S : i <= j
  <2>1. S \in SUBSET Nat
    BY <1>1
  <2> HIDE DEF S
  <2> QED BY <2>1, <1>2, LeastNatural
<1>4. First(S) \in S
  <2> HIDE DEF S
  <2> QED BY <1>3 DEF First
<1>5. ApBucket(B, d) = B[First(S)].name
  <2>1. ~ (d < 0) /\ S # {}
    BY <1>2
  <2> QED BY <2>1 DEF ApBucket, NameOfFirst
<1> QED BY <1>4, <1>5 DEF BucketNames

(* The days of a curve, and what there is a raw value for. *)
LEMMA RawIs ==
    ASSUME NEW cfg, IsCurveConfig(cfg), NEW index, IsIndex(cfg, index), NEW now \in Nat
    PROVE  /\ \E lo \in Nat : lo <= now /\ CurveDays(cfg, now) = lo..now
           /\ RawDays(cfg, index, now) \subseteq 0..now
           /\ IsFiniteSet(RawDays(cfg, index, now))
           /\ \A d \in RawDays(cfg, index, now) : Raw2(cfg, index, d) \in Nat
<1> DEFINE days == RawDays(cfg, index, now)
           lo == Max({0, now - cfg.horizon})
<1>1. lo \in Nat /\ lo <= now /\ CurveDays(cfg, now) = lo..now
  <2> DEFINE first == now - cfg.horizon
  <2>1. first \in Int /\ first <= now
    BY DEF IsCurveConfig
  <2> HIDE DEF first
  <2>2. Max({0, first}) \in {0, first} /\ Max({0, first}) >= 0
    <3>1. 0 \in Int
      OBVIOUS
    <3> QED BY <3>1, <2>1, MaxOfTwo
  <2>3. Max({0, first}) \in Nat /\ Max({0, first}) <= now
    BY <2>1, <2>2
  <2> QED BY <2>3 DEF CurveDays, first
<1>2. days \subseteq 0..now
  <2>1. days \subseteq lo..now
    BY <1>1 DEF RawDays
  <2> HIDE DEF days, lo
  <2> QED BY <1>1, <2>1
<1>3. IsFiniteSet(days)
  <2>1. IsFiniteSet(0..now)
    <3>1. 0 \in Int /\ now \in Int
      OBVIOUS
    <3> QED BY <3>1, FS_Interval, Zenon
  <2> HIDE DEF days
  <2> QED BY <2>1, <1>2, FS_Subset
<1>4. ASSUME NEW d \in days PROVE Raw2(cfg, index, d) \in Nat
  <2> DEFINE b == ApBucket(cfg.buckets, d)
  <2>1. d \in Nat
    <3> HIDE DEF days
    <3> QED BY <1>2
  <2>2. b \in BucketNames(cfg)
    BY <2>1, ApBucketIs
  <2>3. CellIsThick(cfg, index, b) \/ index.bucket[b] # NoData
    BY DEF RawDays
  <2>4. CellIsThick(cfg, index, b) => index.cell[b] # NoData
    BY DEF CellIsThick
  <2>5. Raw2(cfg, index, d) = IF CellIsThick(cfg, index, b) THEN index.cell[b].median
                              ELSE index.bucket[b]
    BY DEF Raw2
  <2> HIDE DEF b
  <2> QED BY <2>2, <2>3, <2>4, <2>5 DEF IsIndex
<1> HIDE DEF days, lo
<1> QED BY <1>1, <1>2, <1>3, <1>4 DEF days

(* The days a point is averaged over are some of the curve's, itself among them. *)
LEMMA ChunkIs ==
    ASSUME NEW cfg, IsCurveConfig(cfg), NEW days, IsFiniteSet(days), NEW d \in days
    PROVE  /\ Chunk(cfg, days, d) \subseteq days /\ d \in Chunk(cfg, days, d)
           /\ IsFiniteSet(Chunk(cfg, days, d))
           /\ Cardinality(Chunk(cfg, days, d)) \in Nat \ {0}
<1> DEFINE part == Chunk(cfg, days, d)
<1>1. part \subseteq days
  BY DEF Chunk
<1>2. d \in part
  <2> DEFINE p == Cardinality({f \in days : f < d})
  <2>1. p \in Nat
    BY FS_Subset, FS_CardinalityType
  <2>2. (cfg.smoothing - 1) \div 2 >= 0 /\ (cfg.smoothing - 1) \div 2 \in Int
        /\ cfg.smoothing \div 2 >= 0 /\ cfg.smoothing \div 2 \in Int
    <3>1. cfg.smoothing \in Nat \ {0}
      BY DEF IsCurveConfig
    <3> QED BY <3>1
  <2>3. p >= p - (cfg.smoothing - 1) \div 2 /\ p <= p + cfg.smoothing \div 2
    <3> HIDE DEF p
    <3> QED BY <2>1, <2>2
  <2> QED BY <2>3 DEF Chunk
<1> HIDE DEF part
<1>3. IsFiniteSet(part) /\ Cardinality(part) \in Nat
  BY <1>1, FS_Subset, FS_CardinalityType
<1>4. Cardinality(part) # 0
  BY <1>2, <1>3, FS_EmptySet
<1> QED BY <1>1, <1>2, <1>3, <1>4 DEF part

(* A point is a mean, rounded half-up to a whole minor unit and never zero. *)
LEMMA PointIs ==
    ASSUME NEW cfg, IsCurveConfig(cfg), NEW index, IsIndex(cfg, index), NEW now \in Nat,
           NEW d \in RawDays(cfg, index, now), NEW lo \in Nat, NEW hi \in Nat,
           \A e \in Chunk(cfg, RawDays(cfg, index, now), d) :
              lo <= Raw2(cfg, index, e) /\ Raw2(cfg, index, e) <= hi
    PROVE  LET point == Curve(cfg, index, now)[d] IN
             /\ point \in Nat \ {0}
             /\ lo <= 2 * point
             /\ 2 * point <= 2 \/ 2 * point <= hi + 1
<1> DEFINE days == RawDays(cfg, index, now)
           part == Chunk(cfg, days, d)
           sum == CurveSum(cfg, index, part)
           n == Cardinality(part)
           mean == RoundHalfUp(sum, 2 * n)
           point == Curve(cfg, index, now)[d]
<1>1. point = Max({1, mean})
  BY DEF Curve, CurveSum
<1>2. part \subseteq days /\ IsFiniteSet(part) /\ n \in Nat \ {0}
  <2>1. IsFiniteSet(days)
    BY RawIs
  <2> HIDE DEF days
  <2> QED BY <2>1, ChunkIs DEF days
<1>3. sum \in Nat /\ lo * n <= sum /\ sum <= hi * n
  <2>1. \A e \in part : Raw2(cfg, index, e) \in Nat /\ lo <= Raw2(cfg, index, e)
                                                  /\ Raw2(cfg, index, e) <= hi
    BY <1>2, RawIs
  <2> HIDE DEF part
  <2> QED BY <2>1, <1>2, CurveSumIs
<1> HIDE DEF sum, n, point
<1>4. mean \in Int /\ lo <= 2 * mean /\ 2 * mean <= hi + 1
  <2> DEFINE num == 2 * sum + 2 * n
             den == 4 * n
  <2>1. mean = num \div den
    <3>1. 2 * (2 * n) = 4 * n
      BY <1>2
    <3> QED BY <3>1 DEF RoundHalfUp
  <2>2. num \in Nat /\ den \in Nat \ {0}
    BY <1>2, <1>3
  <2>3. mean \in Int /\ den * mean <= num /\ num < den * (mean + 1)
    <3> HIDE DEF mean, num, den
    <3> QED BY <2>1, <2>2
  <2> HIDE DEF mean
  <2>4. 2 * (lo * n) + 2 * n <= num /\ num <= 2 * (hi * n) + 2 * n
    <3>1. lo * n \in Nat /\ hi * n \in Nat
      BY <1>2
    <3> QED BY <3>1, <1>2, <1>3
  <2>5. lo <= 2 * mean
    <3> SUFFICES ASSUME 2 * mean + 1 <= lo PROVE FALSE
      BY <2>3
    <3>1. (2 * mean + 1) * n <= lo * n
      BY <1>2, <2>3
    <3>2. (2 * mean + 1) * n = 2 * (n * mean) + n /\ den * (mean + 1) = 4 * (n * mean) + 4 * n
      BY <1>2, <2>3
    <3>3. n * mean \in Int /\ lo * n \in Nat
      BY <1>2, <2>3
    <3> HIDE DEF num, den
    <3> QED BY <1>2, <2>2, <2>3, <2>4, <3>1, <3>2, <3>3
  <2>6. 2 * mean <= hi + 1
    <3> SUFFICES ASSUME hi + 2 <= 2 * mean PROVE FALSE
      BY <2>3
    <3>1. (hi + 2) * n <= (2 * mean) * n
      BY <1>2, <2>3
    <3>2. (hi + 2) * n = hi * n + 2 * n /\ (2 * mean) * n = 2 * (n * mean) /\ den * mean = 4 * (n * mean)
      BY <1>2, <2>3
    <3>3. n * mean \in Int /\ hi * n \in Nat
      BY <1>2, <2>3
    <3> HIDE DEF num, den
    <3> QED BY <1>2, <2>2, <2>3, <2>4, <3>1, <3>2, <3>3
  <2> QED BY <2>3, <2>5, <2>6
<1> HIDE DEF mean
<1>5. Max({1, mean}) \in {1, mean} /\ Max({1, mean}) >= 1 /\ Max({1, mean}) >= mean
  <2>1. 1 \in Int
    OBVIOUS
  <2> QED BY <1>4, <2>1, MaxOfTwo
<1>6. /\ point \in Nat \ {0} /\ lo <= 2 * point
      /\ 2 * point <= 2 \/ 2 * point <= hi + 1
  BY <1>1, <1>4, <1>5
<1> QED BY <1>6 DEF point

(* Expected prices are prices, and of days to come. *)
LEMMA CurveIs ==
    ASSUME NEW cfg, IsCurveConfig(cfg), NEW index, IsIndex(cfg, index), NEW now \in Nat
    PROVE  LET curve == Curve(cfg, index, now) IN
             /\ DOMAIN curve = RawDays(cfg, index, now)
             /\ DOMAIN curve \subseteq 0..now /\ IsFiniteSet(DOMAIN curve)
             /\ \A d \in DOMAIN curve : curve[d] \in Nat \ {0}
<1> DEFINE days == RawDays(cfg, index, now)
           curve == Curve(cfg, index, now)
<1>1. DOMAIN curve = days
  BY DEF Curve
<1>2. days \subseteq 0..now /\ IsFiniteSet(days) /\ \A d \in days : Raw2(cfg, index, d) \in Nat
  BY RawIs
<1>3. ASSUME NEW d \in days PROVE curve[d] \in Nat \ {0}
  <2> DEFINE raw == {Raw2(cfg, index, e) : e \in days}
  <2>1. raw \subseteq Nat /\ raw # {} /\ IsFiniteSet(raw)
    <3> DEFINE f == [e \in days |-> Raw2(cfg, index, e)]
    <3>1. f \in Surjection(days, raw)
      BY DEF Surjection
    <3>2. raw \subseteq Nat /\ raw # {}
      BY <1>2
    <3> HIDE DEF f, raw, days
    <3> QED BY <3>1, <3>2, <1>2, FS_Surjection
  <2>2. PICK hi \in raw : \A r \in raw : r <= hi
    <3>1. raw \subseteq Int
      BY <1>2
    <3> HIDE DEF raw
    <3> QED BY <2>1, <3>1, GreatestExists
  <2>3. \A e \in Chunk(cfg, days, d) : e \in days
    BY DEF Chunk
  <2>4. \A e \in days : 0 <= Raw2(cfg, index, e) /\ Raw2(cfg, index, e) <= hi
    BY <1>2, <2>2
  <2>5. 0 \in Nat /\ hi \in Nat
    BY <2>1, <2>2
  <2> HIDE DEF raw
  <2> QED BY <2>3, <2>4, <2>5, PointIs
<1> HIDE DEF days, curve
<1> QED BY <1>1, <1>2, <1>3 DEF days, curve

(* Where there is a day worth waiting for there is an expected low: a run of
   days in the band of the lowest, with a lowest in it, that cannot be extended. *)
LEMMA ExpectedLowIs ==
    ASSUME NEW cfg, NEW curve, NEW now \in Nat, DOMAIN curve \subseteq 0..now,
           IsFiniteSet(DOMAIN curve), \A d \in DOMAIN curve : curve[d] \in Nat \ {0},
           WaitCandidates(cfg, curve, now) # {}
    PROVE  LET low == ExpectedLow(cfg, curve, now)
               days == WaitCandidates(cfg, curve, now) IN
             /\ low # NoData /\ low.amount \in Nat \ {0} /\ low.amount = Lowest(curve, days)
             /\ low.from \in Int /\ low.to \in Int /\ low.to <= low.from
             /\ low.to..low.from \subseteq InBand(curve, days)
             /\ \E d \in low.to..low.from : d \in days /\ curve[d] = low.amount
             /\ \A d \in days : low.amount <= curve[d]
             /\ low.from + 1 \notin InBand(curve, days) /\ low.to - 1 \notin InBand(curve, days)
<1> DEFINE days == WaitCandidates(cfg, curve, now)
           amounts == {curve[d] : d \in days}
           lowest == Lowest(curve, days)
           band == InBand(curve, days)
           minima == {d \in days : curve[d] = lowest}
           at == Argmin(curve, days)
           up == {d \in band : at <= d /\ at..d \subseteq band}
           down == {d \in band : d <= at /\ d..at \subseteq band}
<1>1. /\ days \subseteq DOMAIN curve /\ days # {} /\ \A T \in SUBSET days : IsFiniteSet(T)
      /\ \A d \in days : d \in Int /\ curve[d] \in Nat \ {0}
  <2>1. days \subseteq DOMAIN curve
    BY DEF WaitCandidates
  <2> HIDE DEF days
  <2> QED BY <2>1, FS_Subset DEF days
<1> HIDE DEF days
<1>2. lowest \in amounts /\ \A d \in days : lowest <= curve[d]
  <2>1. IsFiniteSet(amounts)
    <3> DEFINE f == [d \in days |-> curve[d]]
    <3>1. f \in Surjection(days, amounts)
      BY DEF Surjection
    <3>2. IsFiniteSet(days)
      BY <1>1
    <3> HIDE DEF f, amounts
    <3> QED BY <3>1, <3>2, FS_Surjection
  <2>2. amounts # {} /\ amounts \subseteq Int
    BY <1>1
  <2>3. Min(amounts) \in amounts /\ \A a \in amounts : Min(amounts) <= a
    <3> HIDE DEF amounts
    <3> QED BY <2>1, <2>2, MinIs
  <2> QED BY <2>3 DEF Lowest
<1>3. lowest \in Nat \ {0}
  BY <1>1, <1>2
<1>4. at \in minima
  <2>1. minima # {} /\ minima \subseteq days
    BY <1>2
  <2>2. IsFiniteSet(minima) /\ minima \subseteq Int
    BY <2>1, <1>1
  <2> HIDE DEF minima
  <2>3. Max(minima) \in minima
    BY <2>1, <2>2, MaxIs
  <2> QED BY <2>3 DEF Argmin, minima
<1>5. at \in band /\ band \subseteq days /\ at \in Int
  <2>1. curve[at] * 100 <= lowest * (100 + BandPct)
    <3>1. curve[at] = lowest
      BY <1>4
    <3> HIDE DEF lowest
    <3> QED BY <3>1, <1>3 DEF BandPct
  <2> QED BY <2>1, <1>4, <1>1 DEF InBand
<1> HIDE DEF at, band, lowest
<1>6. at..at = {at} /\ at <= at
  BY <1>5
<1>7. at \in up /\ at \in down
  BY <1>5, <1>6
<1>8. IsFiniteSet(up) /\ IsFiniteSet(down) /\ up \subseteq Int /\ down \subseteq Int
  <2>1. up \in SUBSET days /\ down \in SUBSET days
    BY <1>5
  <2> HIDE DEF up, down
  <2> QED BY <2>1, <1>1
<1>9. Max(up) \in up /\ \A d \in up : d <= Max(up)
  <2> HIDE DEF up
  <2> QED BY <1>7, <1>8, MaxIs
<1>10. Min(down) \in down /\ \A d \in down : Min(down) <= d
  <2> HIDE DEF down
  <2> QED BY <1>7, <1>8, MinIs
<1>11. ExpectedLow(cfg, curve, now) = [amount |-> lowest, from |-> Max(up), to |-> Min(down)]
  BY <1>1 DEF ExpectedLow, days, at, band, lowest
<1> DEFINE from == Max(up)
           to == Min(down)
<1>12. /\ from \in band /\ from \in Int /\ at <= from /\ at..from \subseteq band
       /\ to \in band /\ to \in Int /\ to <= at /\ to..at \subseteq band
  BY <1>1, <1>5, <1>9, <1>10
<1>13. ASSUME from + 1 \in band PROVE FALSE
  <2>1. at <= from + 1 /\ at..(from + 1) \subseteq band
    <3>1. \A d \in at..(from + 1) : d \in at..from \/ d = from + 1
      <4> HIDE DEF from
      <4> QED BY <1>5, <1>12
    <3> HIDE DEF from
    <3> QED BY <3>1, <1>5, <1>12, <1>13
  <2>2. from + 1 \in up
    BY <2>1, <1>13
  <2>3. from + 1 <= from
    BY <2>2, <1>9
  <2> HIDE DEF from
  <2> QED BY <2>3, <1>12
<1>14. ASSUME to - 1 \in band PROVE FALSE
  <2>1. to - 1 <= at /\ (to - 1)..at \subseteq band
    <3>1. \A d \in (to - 1)..at : d \in to..at \/ d = to - 1
      <4> HIDE DEF to
      <4> QED BY <1>5, <1>12
    <3> HIDE DEF to
    <3> QED BY <3>1, <1>5, <1>12, <1>14
  <2>2. to - 1 \in down
    BY <2>1, <1>14
  <2>3. to <= to - 1
    BY <2>2, <1>10
  <2> HIDE DEF to
  <2> QED BY <2>3, <1>12
<1> HIDE DEF up, down, from, to
<1>15. [amount |-> lowest, from |-> from, to |-> to] # NoData
  BY <1>3, <1>12, ForecastAssumption
<1>16. to..from \subseteq band
  <2>1. \A d \in to..from : d \in to..at \/ d \in at..from
    BY <1>5, <1>12
  <2> QED BY <2>1, <1>12
<1>17. at \in to..from /\ at \in days /\ curve[at] = lowest
  BY <1>4, <1>5, <1>12
<1>18. ExpectedLow(cfg, curve, now) = [amount |-> lowest, from |-> from, to |-> to]
  BY <1>11 DEF from, to
<1> DEFINE low == [amount |-> lowest, from |-> from, to |-> to]
<1>19. low.amount = lowest /\ low.from = from /\ low.to = to
  OBVIOUS
<1> HIDE DEF low
<1>20. /\ low # NoData /\ low.amount \in Nat \ {0} /\ low.amount = lowest
       /\ low.from \in Int /\ low.to \in Int /\ low.to <= low.from
       /\ low.to..low.from \subseteq band
       /\ \E d \in low.to..low.from : d \in days /\ curve[d] = low.amount
       /\ \A d \in days : low.amount <= curve[d]
       /\ low.from + 1 \notin band /\ low.to - 1 \notin band
  BY <1>2, <1>3, <1>5, <1>12, <1>13, <1>14, <1>15, <1>16, <1>17, <1>19 DEF low
<1> QED BY <1>18, <1>20 DEF low, days, band, lowest

=============================================================================
