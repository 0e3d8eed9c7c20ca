---------------------------- MODULE FareViewProofs ----------------------------
(***************************************************************************)
(* Theorems about FareView: what the dedup window keeps.                   *)
(***************************************************************************)
EXTENDS FareView, FiniteSetTheorems, WellFoundedInduction, TLAPS

(* A non-empty set of positions has a last one. *)
LEMMA HasLast ==
    ASSUME NEW n \in Nat, NEW S \in SUBSET (1..n), S # {}
    PROVE  \E m \in S : \A k \in S : k <= m
<1> DEFINE T == {k \in Nat : n - k \in S}
           R == OpToRel(<, Nat)
<1>1. T \subseteq Nat /\ T # {}
  <2>1. PICK k \in S : TRUE
    OBVIOUS
  <2>2. n - k \in Nat /\ n - (n - k) = k
    OBVIOUS
  <2> QED BY <2>1, <2>2
<1>2. IsWellFoundedOn(R, Nat)
  BY NatLessThanWellFounded
<1>3. \A x, y \in Nat : <<y, x>> \in R <=> y < x
  BY DEF OpToRel
<1>4. PICK t \in T : \A y \in T : ~ (<<y, t>> \in R)
  <2> HIDE DEF R, T
  <2> QED BY <1>1, <1>2, WFMin
<1>5. \A y \in T : ~ (y < t)
  BY <1>1, <1>3, <1>4
<1>6. n - t \in S
  BY <1>4
<1>7. ASSUME NEW k \in S PROVE k <= n - t
  <2>1. k \in Nat /\ n - k \in Nat /\ n - (n - k) = k
    OBVIOUS
  <2>2. n - k \in T /\ t \in Nat
    BY <2>1, <1>1, <1>4
  <2>3. ~ (n - k < t)
    BY <2>2, <1>5
  <2> HIDE DEF T
  <2> QED BY <2>1, <2>2, <2>3
<1> QED BY <1>6, <1>7

(* A property of the naturals that fails somewhere fails at a least one. *)
LEMMA LeastFailure ==
    ASSUME NEW F \in SUBSET Nat, F # {}
    PROVE  \E m \in F : \A k \in F : m <= k
<1> DEFINE R == OpToRel(<, Nat)
<1>1. IsWellFoundedOn(R, Nat)
  BY NatLessThanWellFounded
<1>2. \A x, y \in Nat : <<y, x>> \in R <=> y < x
  BY DEF OpToRel
<1>3. PICK m \in F : \A k \in F : ~ (<<k, m>> \in R)
  <2> HIDE DEF R
  <2> QED BY <1>1, WFMin
<1>4. \A k \in F : ~ (k < m)
  <2> HIDE DEF R
  <2> QED BY <1>2, <1>3
<1> QED BY <1>4

(* write()'s dict, built by a left fold over the batch, has the rows no later
   row of the batch has the id of (lines 112-115): what is left of a row is
   what the rows after it leave. *)
LEMMA LastOfIsFinal ==
    ASSUME NEW batch \in Seq(Rows)
    PROVE  LastOf(batch) = Final(batch)
<1> DEFINE n == Len(batch)
           Dom == DOMAIN batch
           Step(g) == [s \in SUBSET Dom |->
                  IF s = {} THEN {}
                  ELSE LET x == Max(s)
                       IN {kept \in g[s \ {x}] : kept.id # batch[x].id} \cup {batch[x]}]
           iter == CHOOSE g : g = Step(g)
           Stays(s) == {j \in s : \A k \in s : k > j => batch[k].id # batch[j].id}
           closed == [s \in SUBSET Dom |-> {batch[i] : i \in Stays(s)}]
<1>1. LastOf(batch) = iter[Dom]
  BY DEF LastOf, FoldLeft, MapThenFoldSet
<1>2. n \in Nat /\ Dom = 1..n
  OBVIOUS
<1>3. ASSUME NEW s \in SUBSET Dom, s # {}
      PROVE  Max(s) \in s /\ \A k \in s : k <= Max(s)
  <2>1. \E m \in s : \A k \in s : m >= k
    <3>1. \E m \in s : \A k \in s : k <= m
      <4> HIDE DEF n, Dom
      <4> QED BY <1>2, <1>3, HasLast
    <3> QED BY <3>1, <1>2
  <2> QED BY <2>1, <1>2 DEF Max
<1>4. ASSUME NEW s \in SUBSET Dom, s # {}
      PROVE  {batch[i] : i \in Stays(s)} =
               {kept \in {batch[i] : i \in Stays(s \ {Max(s)})} : kept.id # batch[Max(s)].id}
                 \cup {batch[Max(s)]}
  <2> DEFINE x == Max(s)
  <2>1. x \in s /\ x \in Nat /\ s \subseteq Nat /\ \A k \in s : k <= x
    BY <1>2, <1>3, <1>4
  <2> HIDE DEF x, Dom
  <2>2. x \in Stays(s)
    BY <2>1
  <2>3. ASSUME NEW i \in s, i # x
        PROVE  i \in Stays(s) <=> i \in Stays(s \ {x}) /\ batch[i].id # batch[x].id
    <3>1. x > i
      BY <2>1, <2>3
    <3> QED BY <3>1, <2>1, <2>3
  <2> HIDE DEF Stays
  <2>4. \A i \in Stays(s) : i \in s
    BY DEF Stays
  <2>5. \A i \in Stays(s \ {x}) : i \in s /\ i # x
    BY DEF Stays
  <2>6. {batch[i] : i \in Stays(s)} =
          {kept \in {batch[i] : i \in Stays(s \ {x})} : kept.id # batch[x].id} \cup {batch[x]}
    BY <2>1, <2>2, <2>3, <2>4, <2>5
  <2> QED BY <2>6 DEF x
<1>5. closed = Step(closed)
  <2>1. ASSUME NEW s \in SUBSET Dom PROVE closed[s] = Step(closed)[s]
    <3>1. CASE s = {}
      BY <3>1
    <3>2. CASE s # {}
      <4>1. s \ {Max(s)} \in SUBSET Dom
        OBVIOUS
      <4> DEFINE r == s \ {Max(s)}
      <4>2. closed[r] = {batch[i] : i \in Stays(r)}
        BY <4>1
      <4>3. closed[s] = {batch[i] : i \in Stays(s)}
        OBVIOUS
      <4>4. Step(closed)[s] =
              {kept \in closed[r] : kept.id # batch[Max(s)].id} \cup {batch[Max(s)]}
        <5> HIDE DEF closed, Dom
        <5> QED BY <3>2
      <4> HIDE DEF closed, Step, Stays, Dom
      <4> QED BY <1>4, <3>2, <4>2, <4>3, <4>4
    <3> QED BY <3>1, <3>2
  <2>2. /\ closed = [s \in SUBSET Dom |-> closed[s]]
        /\ Step(closed) = [s \in SUBSET Dom |-> Step(closed)[s]]
    OBVIOUS
  <2> HIDE DEF closed, Step, Dom
  <2> QED BY <2>1, <2>2
<1>6. iter = Step(iter)
  <2> HIDE DEF closed, Step
  <2> QED BY <1>5
<1>7. ASSUME NEW i \in 1..n, iter[1..(i - 1)] = {batch[j] : j \in Stays(1..(i - 1))}
      PROVE  iter[1..i] = {batch[j] : j \in Stays(1..i)}
  <2> DEFINE s == 1..i
  <2>1. s \in SUBSET Dom /\ s # {} /\ i \in s /\ \A k \in s : k <= i
    <3> HIDE DEF iter, Dom, Stays, n
    <3> QED BY <1>2, <1>7
  <2>2. Max(s) = i
    <3>1. Max(s) \in s /\ i <= Max(s)
      <4> HIDE DEF Dom, n, s
      <4> QED BY <1>3, <2>1
    <3> QED BY <3>1, <1>2
  <2>3. s \ {Max(s)} = 1..(i - 1)
    BY <2>2, <1>2
  <2>4. iter[s] = {kept \in iter[s \ {Max(s)}] : kept.id # batch[Max(s)].id} \cup {batch[Max(s)]}
    <3>1. Step(iter)[s] =
            {kept \in iter[s \ {Max(s)}] : kept.id # batch[Max(s)].id} \cup {batch[Max(s)]}
      <4> HIDE DEF iter, Dom, s
      <4> QED BY <2>1
    <3> HIDE DEF iter, Step
    <3> QED BY <3>1, <1>6
  <2> HIDE DEF iter, Step, Stays, Dom
  <2> QED BY <1>4, <1>7, <2>1, <2>3, <2>4
<1>8. iter[1..0] = {batch[j] : j \in Stays(1..0)}
  <2>1. 1..0 = {} /\ {} \in SUBSET Dom
    OBVIOUS
  <2>2. Step(iter)[{}] = {}
    <3> HIDE DEF iter, Dom
    <3> QED BY <2>1
  <2>3. iter[{}] = {}
    <3> HIDE DEF iter, Step
    <3> QED BY <2>2, <1>6
  <2> HIDE DEF iter
  <2> QED BY <2>1, <2>3
<1>9. iter[1..n] = {batch[j] : j \in Stays(1..n)}
  <2> DEFINE Fails == {i \in 0..n : iter[1..i] # {batch[j] : j \in Stays(1..i)}}
  <2>1. SUFFICES ASSUME Fails # {} PROVE FALSE
    <3> HIDE DEF iter, Stays, n
    <3> QED BY <1>2
  <2>2. PICK m \in Fails : \A k \in Fails : m <= k
    <3>1. Fails \in SUBSET Nat
      BY <1>2
    <3> HIDE DEF Fails
    <3> QED BY <2>1, <3>1, LeastFailure
  <2> HIDE DEF iter, Stays, n
  <2>3. m \in 1..n
    BY <1>2, <1>8
  <2>4. m - 1 \in 0..n /\ m - 1 \notin Fails
    <3>1. m - 1 \in 0..n /\ m \in Nat
      BY <2>3, <1>2
    <3>2. ASSUME m - 1 \in Fails PROVE FALSE
      <4>1. m <= m - 1
        BY <2>2, <3>2
      <4> QED BY <4>1, <3>1
    <3> QED BY <3>1, <3>2
  <2> QED BY <1>7, <2>3, <2>4
<1> HIDE DEF iter
<1> QED BY <1>1, <1>2, <1>9 DEF Final

(***************************************************************************)
(* What the dedup window keeps.                                            *)
(***************************************************************************)

(* A set of rows a scan can return: finitely many, with ordered columns. *)
Scannable(S) ==
    /\ IsFiniteSet(S)
    /\ \A row \in S : row.at \in Nat /\ row.run \in Nat

(* R has one row of each observation of S, one that nothing supersedes. *)
IsResolution(S, R) ==
    /\ R \subseteq S
    /\ \A row \in R : \A other \in S : other.id = row.id => ~Supersedes(other, row)
    /\ \A row \in S : \E kept \in R : kept.id = row.id
    /\ \A a, b \in R : a.id = b.id => a = b

(* The window ranks one of finitely many versions first. *)
LEMMA SomeRankedFirst ==
    ASSUME NEW S, Scannable(S), NEW row \in S
    PROVE  \E first \in RankedFirst(S, row.id) : TRUE
<1> DEFINE T == {other \in S : other.id = row.id}
<1>1. IsFiniteSet(T) /\ row \in T /\ \A a \in T : a.at \in Nat /\ a.run \in Nat
  BY FS_Subset DEF Scannable
<1>2. PICK n \in Nat : ExistsSurjection(1..n, T)
  <2> HIDE DEF T
  <2> QED BY <1>1, FS_NatSurjection
<1>3. PICK f \in [1..n -> T] : \A a \in T : \E i \in 1..n : f[i] = a
  <2> HIDE DEF T
  <2> QED BY <1>2 DEF ExistsSurjection, Surjection
<1> DEFINE Best(m, i) == \A j \in 1..i : ~Supersedes(f[j], f[m])
           Fails == {i \in 1..n : ~ \E m \in 1..i : Best(m, i)}
<1>4. Fails = {}
  <2>1. SUFFICES ASSUME Fails # {} PROVE FALSE
    OBVIOUS
  <2>2. PICK i \in Fails : \A k \in Fails : i <= k
    <3>1. Fails \in SUBSET Nat
      OBVIOUS
    <3> HIDE DEF Fails
    <3> QED BY <2>1, <3>1, LeastFailure
  <2>3. \A a, b, c \in T : ~Supersedes(a, b) /\ ~Supersedes(b, c) => ~Supersedes(a, c)
    <3> HIDE DEF T
    <3> QED BY <1>1 DEF Supersedes
  <2>4. \A a, b \in T : ~Supersedes(a, b) \/ ~Supersedes(b, a)
    <3> HIDE DEF T
    <3> QED BY <1>1 DEF Supersedes
  <2>5. i \in 1..n /\ ~ \E m \in 1..i : Best(m, i)
    OBVIOUS
  <2>6. \A j \in 1..n : f[j] \in T
    <3> HIDE DEF T
    <3> QED BY <1>3
  <2>7. CASE i = 1
    <3>1. Best(1, 1)
      <4>1. ~Supersedes(f[1], f[1])
        BY <2>4, <2>5, <2>6, <2>7
      <4> QED BY <4>1
    <3> HIDE DEF Best
    <3> QED BY <3>1, <2>5, <2>7
  <2>8. CASE i # 1
    <3>1. i - 1 \in 1..n /\ i - 1 \notin Fails /\ i \in Nat
      <4>1. i - 1 \in 1..n /\ i \in Nat
        BY <2>5, <2>8
      <4>2. ASSUME i - 1 \in Fails PROVE FALSE
        <5>1. i <= i - 1
          BY <2>2, <4>2
        <5> QED BY <4>1, <5>1
      <4> QED BY <4>1, <4>2
    <3>2. PICK m \in 1..(i - 1) : Best(m, i - 1)
      BY <3>1
    <3>3. m \in 1..i /\ i \in 1..i /\ \A j \in 1..i : j = i \/ j \in 1..(i - 1)
      BY <3>1
    <3>4. f[i] \in T /\ f[m] \in T /\ \A j \in 1..(i - 1) : f[j] \in T
      BY <2>6, <3>1, <3>3
    <3>5. CASE ~Supersedes(f[i], f[m])
      <4>1. Best(m, i)
        BY <3>2, <3>3, <3>5
      <4> HIDE DEF Best
      <4> QED BY <4>1, <2>5, <3>3
    <3>6. CASE Supersedes(f[i], f[m])
      <4>1. Best(i, i)
        <5>1. ~Supersedes(f[m], f[i]) /\ ~Supersedes(f[i], f[i])
          BY <3>6, <2>4, <3>4
        <5>2. \A j \in 1..(i - 1) : ~Supersedes(f[j], f[i])
          BY <3>2, <5>1, <2>3, <3>4
        <5> QED BY <3>3, <5>1, <5>2
      <4> HIDE DEF Best
      <4> QED BY <4>1, <2>5, <3>3
    <3> QED BY <3>5, <3>6
  <2> QED BY <2>7, <2>8
<1>5. n \in 1..n
  BY <1>1, <1>3
<1>6. PICK m \in 1..n : Best(m, n)
  BY <1>4, <1>5
<1>7. f[m] \in RankedFirst(S, row.id)
  <2>1. f[m] \in T
    BY <1>3
  <2>2. ASSUME NEW other \in S, other.id = row.id PROVE ~Supersedes(other, f[m])
    <3>1. other \in T
      BY <2>2
    <3>2. PICK j \in 1..n : f[j] = other
      BY <3>1, <1>3
    <3> QED BY <3>2, <1>6
  <2> QED BY <2>1, <2>2 DEF RankedFirst
<1> QED BY <1>7

(* Resolutions(S), by what it asks of its members. *)
LEMMA ResolutionsAre ==
    ASSUME NEW S, Scannable(S), NEW R
    PROVE  R \in Resolutions(S) <=> IsResolution(S, R)
<1> DEFINE first == UNION {RankedFirst(S, row.id) : row \in S}
<1>1. \A row : row \in first <=>
        row \in S /\ \A other \in S : other.id = row.id => ~Supersedes(other, row)
  BY DEF RankedFirst
<1>2. R \in Resolutions(S) <=>
        /\ R \subseteq first
        /\ \A row \in first : Cardinality({kept \in R : kept.id = row.id}) = 1
  BY DEF Resolutions
<1>3. \A row \in S : \E best \in first : best.id = row.id
  BY SomeRankedFirst DEF RankedFirst
<1> HIDE DEF first
<1>4. ASSUME R \subseteq first, NEW row \in S
      PROVE  Cardinality({kept \in R : kept.id = row.id}) = 1 <=>
               /\ \E kept \in R : kept.id = row.id
               /\ \A a, b \in R : a.id = row.id /\ b.id = row.id => a = b
  <2> DEFINE K == {kept \in R : kept.id = row.id}
  <2>1. IsFiniteSet(K)
    BY <1>1, <1>4, FS_Subset DEF Scannable
  <2>2. Cardinality(K) = 1 <=> \E x : K = {x}
    <3> HIDE DEF K
    <3> QED BY <2>1, FS_Singleton
  <2>3. (\E x : K = {x}) <=>
               /\ \E kept \in R : kept.id = row.id
               /\ \A a, b \in R : a.id = row.id /\ b.id = row.id => a = b
    <3>1. ASSUME NEW x, K = {x}
          PROVE  /\ \E kept \in R : kept.id = row.id
                 /\ \A a, b \in R : a.id = row.id /\ b.id = row.id => a = b
      BY <3>1
    <3>2. ASSUME NEW kept \in R, kept.id = row.id,
                 \A a, b \in R : a.id = row.id /\ b.id = row.id => a = b
          PROVE  K = {kept}
      BY <3>2
    <3> HIDE DEF K
    <3> QED BY <3>1, <3>2
  <2> QED BY <2>2, <2>3
<1>5. ASSUME R \in Resolutions(S) PROVE IsResolution(S, R)
  <2>1. R \subseteq first
    BY <1>2, <1>5
  <2>2. \A row \in S : /\ \E kept \in R : kept.id = row.id
                       /\ \A a, b \in R : a.id = row.id /\ b.id = row.id => a = b
    <3> TAKE row \in S
    <3>1. PICK best \in first : best.id = row.id
      BY <1>3
    <3>2. Cardinality({kept \in R : kept.id = row.id}) = 1
      BY <1>2, <1>5, <3>1
    <3> QED BY <3>2, <1>4, <2>1
  <2> QED BY <1>1, <2>1, <2>2 DEF IsResolution
<1>6. ASSUME IsResolution(S, R) PROVE R \in Resolutions(S)
  <2>1. R \subseteq first
    BY <1>1, <1>6 DEF IsResolution
  <2>2. \A row \in first : Cardinality({kept \in R : kept.id = row.id}) = 1
    BY <1>1, <1>4, <1>6, <2>1 DEF IsResolution
  <2> QED BY <1>2, <2>1, <2>2
<1> QED BY <1>5, <1>6

(* Finitely many rows can always be resolved. *)
LEMMA SomeResolution ==
    ASSUME NEW S, Scannable(S)
    PROVE  \E R : IsResolution(S, R)
<1> DEFINE Pick(id) == CHOOSE row : row \in RankedFirst(S, id)
           R == {Pick(row.id) : row \in S}
<1>1. \A row \in S : Pick(row.id) \in RankedFirst(S, row.id)
  BY SomeRankedFirst
<1>2. \A row \in S : /\ Pick(row.id) \in S /\ Pick(row.id).id = row.id
                     /\ \A other \in S : other.id = row.id => ~Supersedes(other, Pick(row.id))
  <2> HIDE DEF Pick
  <2> QED BY <1>1 DEF RankedFirst
<1>3. IsResolution(S, R)
  <2> HIDE DEF Pick
  <2> QED BY <1>2 DEF IsResolution
<1> QED BY <1>3

(* A condition on the observation_id can be asked before the window or after
   it: the rows kept are the same (_build_query puts it before). *)
LEMMA IdFiltersCommute ==
    ASSUME NEW S, Scannable(S), NEW P
    PROVE  Resolutions({row \in S : row.id \in P}) =
             {{row \in R : row.id \in P} : R \in Resolutions(S)}
<1> DEFINE SP == {row \in S : row.id \in P}
           Part(R) == {row \in R : row.id \in P}
<1>1. Scannable(SP)
  BY FS_Subset DEF Scannable
<1>2. ASSUME NEW R, IsResolution(S, R) PROVE IsResolution(SP, Part(R))
  BY <1>2 DEF IsResolution
<1>3. ASSUME NEW R, IsResolution(SP, R)
      PROVE  \E Q : IsResolution(S, Q) /\ Part(Q) = R
  <2>1. PICK Rest : IsResolution(S, Rest)
    BY SomeResolution
  <2> DEFINE Q == R \cup {row \in Rest : row.id \notin P}
  <2>2. IsResolution(S, Q)
    BY <1>3, <2>1 DEF IsResolution
  <2>3. Part(Q) = R
    BY <1>3 DEF IsResolution
  <2> QED BY <2>2, <2>3
<1>4. \A R : R \in Resolutions(S) <=> IsResolution(S, R)
  BY ResolutionsAre
<1>5. \A R : R \in Resolutions(SP) <=> IsResolution(SP, R)
  BY <1>1, ResolutionsAre
<1> HIDE DEF SP, Part
<1>6. Resolutions(SP) = {Part(R) : R \in Resolutions(S)}
  BY <1>2, <1>3, <1>4, <1>5
<1> QED BY <1>6 DEF SP, Part

(***************************************************************************)
(* The history.                                                            *)
(***************************************************************************)

(* The history is a finite set of rows that were submitted, each with the
   suffix of its file.  The filters are asked of columns that validation has
   tied to the observation_id, and the window orders finitely many rows. *)
IsHistory(H) ==
    /\ IsFiniteSet(H)
    /\ \A row \in H : Submitted(row) \in Rows /\ row.suffix \in Nat

HistoryInv == IsHistory(history)

(* What write() has left to publish is a finite set of the batch's rows. *)
LEMMA LastOfIsFinite ==
    ASSUME NEW batch \in Seq(Rows)
    PROVE  LastOf(batch) \subseteq Rows /\ IsFiniteSet(LastOf(batch))
<1> DEFINE n == Len(batch)
           all == {batch[i] : i \in DOMAIN batch}
<1>1. n \in Nat /\ DOMAIN batch = 1..n /\ batch \in [1..n -> Rows]
  OBVIOUS
<1>2. IsFiniteSet(1..n)
  BY <1>1, FS_Interval
<1>3. batch \in Surjection(1..n, all)
  BY <1>1 DEF Surjection
<1>4. IsFiniteSet(all)
  <2> HIDE DEF n, all
  <2> QED BY <1>2, <1>3, FS_Surjection
<1>5. LastOf(batch) \subseteq all /\ all \subseteq Rows
  BY <1>1, LastOfIsFinal DEF Final
<1> QED BY <1>4, <1>5, FS_Subset

LEMMA SubmittedStoredAs ==
    ASSUME NEW row \in Rows, NEW n
    PROVE  Submitted(StoredAs(row, n)) = row /\ StoredAs(row, n).suffix = n
BY ViewAssumption DEF Submitted, StoredAs

(* Suffixes are counted from 1. *)
LEMMA SuffixIsPositive ==
    ASSUME HistoryInv, NEW g
    PROVE  NextSuffix(g) \in Nat /\ NextSuffix(g) > 0
<1> DEFINE mates == {stored \in history : stored.suffix > 0 /\ Group(stored) = g}
           taken == {row.suffix : row \in mates}
           f == [row \in mates |-> row.suffix]
<1>1. IsFiniteSet(mates)
  BY FS_Subset DEF HistoryInv, IsHistory
<1>2. f \in Surjection(mates, taken)
  BY DEF Surjection
<1>3. Cardinality(taken) \in Nat
  <2> HIDE DEF mates, taken, f
  <2> QED BY <1>1, <1>2, FS_Surjection, FS_CardinalityType
<1> QED BY <1>3 DEF NextSuffix

(* A group of rows is published under a suffix. *)
LEMMA PublishKeepsHistory ==
    ASSUME HistoryInv, NEW rows \in SUBSET Rows, IsFiniteSet(rows), Publish(rows)
    PROVE  HistoryInv'
<1> DEFINE Next1(row) == NextSuffix(Group(row))
           new == {StoredAs(row, Next1(row)) : row \in rows}
<1>1. \A g : NextSuffix(g) \in Nat
  BY SuffixIsPositive
<1>2. IsFiniteSet(new)
  <2> DEFINE f == [row \in rows |-> StoredAs(row, Next1(row))]
  <2>1. f \in Surjection(rows, new)
    BY DEF Surjection
  <2> HIDE DEF f, new
  <2> QED BY <2>1, FS_Surjection
<1>3. \A row \in new : Submitted(row) \in Rows /\ row.suffix \in Nat
  <2> TAKE row \in new
  <2>1. PICK r \in rows : row = StoredAs(r, Next1(r))
    OBVIOUS
  <2> HIDE DEF Next1, new
  <2> QED BY <2>1, <1>1, SubmittedStoredAs DEF Next1
<1>4. history' = history \cup new
  BY DEF Publish
<1> HIDE DEF new
<1> QED BY <1>2, <1>3, <1>4, FS_Union DEF HistoryInv, IsHistory

LEMMA HistoryInvInit == Init => HistoryInv
<1> SUFFICES ASSUME Init PROVE HistoryInv
  OBVIOUS
<1>1. CASE history = {}
  BY <1>1, FS_EmptySet DEF HistoryInv, IsHistory
<1>2. CASE history = {StoredAs(row, 0) : row \in FixtureRows}
  <2> DEFINE f == [row \in FixtureRows |-> StoredAs(row, 0)]
  <2>1. f \in Surjection(FixtureRows, history)
    BY <1>2 DEF Surjection
  <2>2. IsFiniteSet(history)
    <3> HIDE DEF f
    <3> QED BY <2>1, FS_Surjection, ViewAssumption
  <2>3. \A row \in history : Submitted(row) \in Rows /\ row.suffix \in Nat
    BY <1>2, SubmittedStoredAs, ViewAssumption
  <2> QED BY <2>2, <2>3 DEF HistoryInv, IsHistory
<1> QED BY <1>1, <1>2 DEF Init

LEMMA HistoryInvNext == HistoryInv /\ [Next]_vars => HistoryInv'
<1> SUFFICES ASSUME HistoryInv, [Next]_vars PROVE HistoryInv'
  OBVIOUS
<1>1. CASE Write
  <2>1. PICK batch \in Batches : Publish(LastOf(batch))
    BY <1>1 DEF Write
  <2> QED BY <2>1, LastOfIsFinite, PublishKeepsHistory, ViewAssumption
<1>2. CASE FailedWrite
  <2>1. PICK batch \in Batches : \E done \in SUBSET LastOf(batch) : Publish(done)
    BY <1>2 DEF FailedWrite
  <2>2. PICK done \in SUBSET LastOf(batch) : Publish(done)
    BY <2>1
  <2>3. LastOf(batch) \subseteq Rows /\ IsFiniteSet(LastOf(batch))
    BY LastOfIsFinite, ViewAssumption
  <2>4. done \in SUBSET Rows /\ IsFiniteSet(done)
    BY <2>3, FS_Subset
  <2> QED BY <2>2, <2>4, PublishKeepsHistory
<1>3. CASE UNCHANGED vars
  BY <1>3 DEF vars, HistoryInv
<1> QED BY <1>1, <1>2, <1>3 DEF Next

(* The history stays a finite set of submitted rows. *)
THEOREM HistoryIsSubmitted == Spec => []HistoryInv
BY HistoryInvInit, HistoryInvNext, PTL DEF Spec

(* What a row of the history holds. *)
LEMMA RowsOfHistory ==
    ASSUME NEW H, IsHistory(H), NEW row \in H
    PROVE  /\ row.id \in Ids /\ row.at \in Nat /\ row.run \in Nat
           /\ DayOf(row.at) = Key[row.id].day /\ Key[row.id].day \in Nat
<1> DEFINE r == Submitted(row)
<1>1. r \in Rows /\ r.id = row.id /\ r.at = row.at /\ r.run = row.run
  BY DEF IsHistory, Submitted
<1> HIDE DEF r
<1>2. r \in [id : Ids, at : Nat, run : Runs, q : Qualities, v : Nat]
      /\ DayOf(r.at) = Key[r.id].day
  BY <1>1, ViewAssumption
<1>3. r.id \in Ids /\ r.at \in Nat /\ r.run \in Runs
  BY <1>2
<1> QED BY <1>1, <1>2, <1>3, ViewAssumption

LEMMA ScansAreScannable ==
    ASSUME NEW H, IsHistory(H), NEW S \in SUBSET H
    PROVE  Scannable(S)
BY FS_Subset, RowsOfHistory DEF Scannable, IsHistory

(* A view is a resolution of its scan. *)
LEMMA ViewsResolve ==
    ASSUME NEW H, IsHistory(H), NEW f, NEW R
    PROVE  R \in Views(H, f) <=> IsResolution(Scanned(H, f), R)
<1>1. Scannable(Scanned(H, f))
  BY ScansAreScannable DEF Scanned
<1> QED BY <1>1, ResolutionsAre DEF Views

(***************************************************************************)
(* FiltersCommute.                                                         *)
(***************************************************************************)

(* A filter on natural-key columns is a condition on the observation_id. *)
LEMMA KeyFilters == HistoryInv => KeyFiltersCommute
<1> SUFFICES ASSUME HistoryInv, NEW f \in Filters, KeyOnly(f)
             PROVE  Views(history, f) =
                      {{row \in R : AdmitsKey(f, row.id)} : R \in Resolutions(history)}
  BY DEF KeyFiltersCommute
<1> DEFINE P == {id \in Ids : AdmitsKey(f, id)}
<1>1. \A row : Admits(f, row) <=> AdmitsKey(f, row.id)
  BY DEF KeyOnly, Admits, AdmitsVersion, Listed, Within
<1>2. \A row \in history : row.id \in Ids
  BY RowsOfHistory DEF HistoryInv
<1>3. Scanned(history, f) = {row \in history : row.id \in P}
  BY <1>1, <1>2 DEF Scanned
<1>4. Resolutions({row \in history : row.id \in P}) =
        {{row \in R : row.id \in P} : R \in Resolutions(history)}
  <2> HIDE DEF P
  <2> QED BY IdFiltersCommute, ScansAreScannable DEF HistoryInv
<1>5. \A R \in Resolutions(history) : R \subseteq history
  BY ResolutionsAre, ScansAreScannable DEF HistoryInv, IsResolution
<1>6. \A R \in Resolutions(history) :
        {row \in R : row.id \in P} = {row \in R : AdmitsKey(f, row.id)}
  BY <1>2, <1>5
<1> HIDE DEF P
<1> QED BY <1>3, <1>4, <1>6 DEF Views

(* The window of the health query is one too: an observation_id is computed
   from the fetched_date of its rows. *)
LEMMA RecentIsRead == HistoryInv => RecentAgreesWithRead
<1> SUFFICES ASSUME HistoryInv, NEW within \in 0..2, NEW asOf \in 0..3
             PROVE  RecentSources(history, within, asOf) =
                      {LastDays({row \in R : DayOf(row.at) \in (asOf - within)..asOf}) :
                          R \in Views(history, NoFilter)}
  BY DEF RecentAgreesWithRead
<1> DEFINE f == RecentWindow(within, asOf)
           P == {id \in Ids : Key[id].day \in (asOf - within)..asOf}
           S == Scanned(history, NoFilter)
           ById(R) == {row \in R : row.id \in P}
           ByDay(R) == {row \in R : DayOf(row.at) \in (asOf - within)..asOf}
<1>1. \A row : Admits(NoFilter, row) <=> row.q # "rejected"
  BY DEF Admits, AdmitsKey, AdmitsVersion, Listed, Within, NoFilter
<1>2. \A row \in history : Admits(f, row) <=> Admits(NoFilter, row) /\ row.id \in P
  <2> TAKE row \in history
  <2>1. /\ f.source = Unset /\ f.route = Unset /\ f.kind = Unset /\ f.quality = Unset
        /\ ~f.includeRejected
        /\ f.dayFrom = asOf - within /\ f.dayTo = asOf
        /\ f.atFrom = Unset /\ f.atTo = Unset
        /\ f.departFrom = Unset /\ f.departTo = Unset
    BY DEF RecentWindow, NoFilter
  <2>2. Within(f.dayFrom, Key[row.id].day, f.dayTo)
          <=> Key[row.id].day \in (asOf - within)..asOf
    <3>1. Key[row.id].day \in Nat /\ asOf - within \in Int /\ asOf \in Int
      BY RowsOfHistory DEF HistoryInv
    <3> HIDE DEF f
    <3> QED BY <3>1, <2>1, ViewAssumption DEF Within
  <2>3. Admits(f, row) <=> row.q # "rejected" /\ Within(f.dayFrom, Key[row.id].day, f.dayTo)
    <3> HIDE DEF f
    <3> QED BY <2>1 DEF Admits, AdmitsKey, AdmitsVersion, Listed, Within
  <2> HIDE DEF f
  <2> QED BY <1>1, <2>2, <2>3, RowsOfHistory DEF HistoryInv
<1>3. Scanned(history, f) = {row \in S : row.id \in P}
  <2> HIDE DEF f, P
  <2> QED BY <1>2 DEF Scanned
<1>4. Scannable(S)
  BY ScansAreScannable DEF HistoryInv, Scanned
<1>5. Views(history, f) = {{row \in R : row.id \in P} : R \in Views(history, NoFilter)}
  <2> HIDE DEF f, P, S
  <2>1. Resolutions({row \in S : row.id \in P}) = {{row \in R : row.id \in P} : R \in Resolutions(S)}
    BY <1>4, IdFiltersCommute
  <2>2. Views(history, NoFilter) = Resolutions(S)
    BY DEF Views, S
  <2> QED BY <1>3, <2>1, <2>2 DEF Views
<1>6. \A R \in Views(history, NoFilter) :
        ById(R) = ByDay(R)
  <2> TAKE R \in Views(history, NoFilter)
  <2>1. R \subseteq history
    BY ViewsResolve DEF HistoryInv, IsResolution, Scanned
  <2> QED BY <2>1, RowsOfHistory DEF HistoryInv
<1>7. Views(history, f) = {ById(R) : R \in Views(history, NoFilter)}
  BY <1>5
<1> HIDE DEF ById, ByDay, P, S
<1>8. {LastDays(R) : R \in Views(history, f)} =
        {LastDays(ByDay(R)) : R \in Views(history, NoFilter)}
  <2> HIDE DEF f
  <2> QED BY <1>6, <1>7
<1> QED BY <1>8 DEF RecentSources, ByDay

(* Neither a caller's filter on natural-key columns nor the window of the
   health query changes which version of an observation is shown: both are
   applied below the dedup window (_build_query, lines 239-280), for any rows,
   filters and writes. *)
THEOREM FiltersArePushedDown == Spec => []FiltersCommute
<1>1. HistoryInv => FiltersCommute
  BY KeyFilters, RecentIsRead DEF FiltersCommute
<1> QED BY <1>1, HistoryIsSubmitted, PTL

(***************************************************************************)
(* What a step of the history does to a read.                              *)
(***************************************************************************)

LEMMA HistoryGrows == [Next]_vars => history \subseteq history'
BY DEF Next, Write, FailedWrite, Publish, vars

(* A read with an upper bound on fetched_at does not see what was fetched
   after it, whenever that is written. *)
THEOREM PastReadsStandStill == Spec => CutoffHidesTheFuture
<1> DEFINE Step == \A f \in Filters :
                     (f.atTo # Unset /\ \A row \in history' \ history : row.at > f.atTo)
                       => Views(history', f) = Views(history, f)
<1>1. HistoryInv' /\ [Next]_vars => Step
  <2> SUFFICES ASSUME HistoryInv', [Next]_vars, NEW f \in Filters, f.atTo # Unset,
                      \A row \in history' \ history : row.at > f.atTo
               PROVE  Views(history', f) = Views(history, f)
    OBVIOUS
  <2>1. f.atTo \in Nat
    BY FiltersAssumption
  <2>2. \A row \in history' \ history : ~Admits(f, row)
    <3> TAKE row \in history' \ history
    <3>1. row.at \in Nat /\ row.at > f.atTo
      BY RowsOfHistory DEF HistoryInv
    <3> QED BY <2>1, <3>1 DEF Admits, AdmitsVersion, Within
  <2>3. Scanned(history', f) = Scanned(history, f)
    BY <2>2, HistoryGrows DEF Scanned
  <2> QED BY <2>3 DEF Views
<1> HIDE DEF Step
<1>2. Spec => [][Step]_vars
  BY <1>1, HistoryIsSubmitted, PTL DEF Spec
<1> QED BY <1>2 DEF CutoffHidesTheFuture, Step

(***************************************************************************)
(* StaleOnlyBehindRejection.                                               *)
(***************************************************************************)

(* No run fetches one observation twice at the same instant with different
   results: where one does, row_number() orders the two rows at will. *)
NoTies ==
    \A a, b \in Rows : a.id = b.id /\ a.at = b.at /\ a.run = b.run => a = b

LEMMA TiesAreCopies ==
    ASSUME NoTies, NEW H, IsHistory(H), NEW a \in H, NEW b \in H, a.id = b.id,
           ~Supersedes(a, b), ~Supersedes(b, a)
    PROVE  Submitted(a) = Submitted(b)
<1>1. a.at \in Nat /\ b.at \in Nat /\ a.run \in Nat /\ b.run \in Nat
  BY RowsOfHistory
<1>2. a.at = b.at /\ a.run = b.run
  BY <1>1 DEF Supersedes
<1> DEFINE r == Submitted(a)
           s == Submitted(b)
<1>3. r \in Rows /\ s \in Rows /\ r.id = s.id /\ r.at = s.at /\ r.run = s.run
  BY <1>2 DEF IsHistory, Submitted
<1> HIDE DEF r, s
<1>4. r = s
  BY <1>3 DEF NoTies
<1> QED BY <1>4 DEF r, s

(* Leaving rejected rows out of a read hides no observation that has another
   version, and brings an older version back only where a rejected one
   supersedes it (_build_query, lines 256-262): for any history, if no run
   fetches one observation twice at one instant. *)
THEOREM RejectionsHideNothingElse ==
    ASSUME NoTies
    PROVE  Spec => []StaleOnlyBehindRejection
<1> DEFINE all == [NoFilter EXCEPT !.includeRejected = TRUE]
<1>1. \A row : Admits(NoFilter, row) <=> row.q # "rejected"
  BY DEF Admits, AdmitsKey, AdmitsVersion, Listed, Within, NoFilter
<1>2. \A row : Admits(all, row)
  BY DEF Admits, AdmitsKey, AdmitsVersion, Listed, Within, NoFilter
<1> HIDE DEF all
<1>3. HistoryInv => StaleOnlyBehindRejection
  <2> SUFFICES ASSUME HistoryInv, NEW R \in Views(history, NoFilter), NEW S \in Views(history, all)
               PROVE  /\ \A row \in history :
                            row.q # "rejected" => \E shown \in R : shown.id = row.id
                      /\ \A shown \in R :
                            \/ shown.q # "rejected" /\ Submitted(shown) \in {Submitted(row) : row \in S}
                            \/ \E row \in S : /\ row.id = shown.id /\ row.q = "rejected"
                                              /\ shown.q # "rejected" /\ Supersedes(row, shown)
    BY DEF StaleOnlyBehindRejection, all
  <2> DEFINE kept == {row \in history : row.q # "rejected"}
  <2>1. IsResolution(kept, R) /\ IsResolution(history, S)
    <3>1. Scanned(history, NoFilter) = kept /\ Scanned(history, all) = history
      BY <1>1, <1>2 DEF Scanned
    <3> QED BY <3>1, ViewsResolve DEF HistoryInv
  <2>2. ASSUME NEW row \in history, row.q # "rejected" PROVE \E shown \in R : shown.id = row.id
    BY <2>1, <2>2 DEF IsResolution
  <2>3. ASSUME NEW shown \in R
        PROVE  \/ shown.q # "rejected" /\ Submitted(shown) \in {Submitted(row) : row \in S}
               \/ \E row \in S : /\ row.id = shown.id /\ row.q = "rejected"
                                 /\ shown.q # "rejected" /\ Supersedes(row, shown)
    <3>1. shown \in history /\ shown.q # "rejected"
      BY <2>1 DEF IsResolution
    <3>2. PICK best \in S : best.id = shown.id
      BY <2>1, <3>1 DEF IsResolution
    <3>3. best \in history /\ ~Supersedes(shown, best)
      BY <2>1, <3>1, <3>2 DEF IsResolution
    <3>4. CASE Supersedes(best, shown)
      <4>1. best.q = "rejected"
        BY <2>1, <3>2, <3>3, <3>4 DEF IsResolution
      <4> QED BY <4>1, <3>1, <3>2, <3>4
    <3>5. CASE ~Supersedes(best, shown)
      <4>1. Submitted(shown) = Submitted(best)
        BY <3>1, <3>2, <3>3, <3>5, TiesAreCopies DEF HistoryInv
      <4> QED BY <4>1, <3>1, <3>2
    <3> QED BY <3>4, <3>5
  <2> QED BY <2>2, <2>3
<1> QED BY <1>3, HistoryIsSubmitted, PTL

(***************************************************************************)
(* The frame: the rows kept, in the order of the query.                    *)
(***************************************************************************)

(* A set a read can keep: finitely many rows, one of each observation. *)
Keepable(R) ==
    /\ IsFiniteSet(R)
    /\ \A row \in R : row.at \in Nat /\ row.id \in Nat
    /\ \A a, b \in R : a.id = b.id => a = b

Enumerates(frame, R) == frame \in [1..Cardinality(R) -> R] /\ Ascends(frame)

(* Of the rows kept, one is last in the order. *)
LEMMA SomeLast ==
    ASSUME NEW R, Keepable(R), R # {}
    PROVE  \E last \in R : \A row \in R : row # last => SortsBefore(row, last)
<1>1. PICK n \in Nat : ExistsSurjection(1..n, R)
  BY FS_NatSurjection DEF Keepable
<1>2. PICK f \in [1..n -> R] : \A a \in R : \E i \in 1..n : f[i] = a
  BY <1>1 DEF ExistsSurjection, Surjection
<1> DEFINE Best(m, i) == \A j \in 1..i : f[j] # f[m] => SortsBefore(f[j], f[m])
           Fails == {i \in 1..n : ~ \E m \in 1..i : Best(m, i)}
<1>3. \A a, b, c \in R : SortsBefore(a, b) /\ SortsBefore(b, c) => SortsBefore(a, c)
  BY DEF SortsBefore, Keepable
<1>4. \A a, b \in R : a = b \/ SortsBefore(a, b) \/ SortsBefore(b, a)
  BY DEF SortsBefore, Keepable
<1>5. \A j \in 1..n : f[j] \in R
  BY <1>2
<1>6. Fails = {}
  <2>1. SUFFICES ASSUME Fails # {} PROVE FALSE
    OBVIOUS
  <2>2. PICK i \in Fails : \A k \in Fails : i <= k
    <3>1. Fails \in SUBSET Nat
      OBVIOUS
    <3> HIDE DEF Fails
    <3> QED BY <2>1, <3>1, LeastFailure
  <2>3. i \in 1..n /\ ~ \E m \in 1..i : Best(m, i)
    OBVIOUS
  <2>4. CASE i = 1
    <3>1. Best(1, 1)
      OBVIOUS
    <3> HIDE DEF Best
    <3> QED BY <3>1, <2>3, <2>4
  <2>5. CASE i # 1
    <3>1. i - 1 \in 1..n /\ i - 1 \notin Fails /\ i \in Nat
      <4>1. i - 1 \in 1..n /\ i \in Nat
        BY <2>3, <2>5
      <4>2. ASSUME i - 1 \in Fails PROVE FALSE
        <5>1. i <= i - 1
          BY <2>2, <4>2
        <5> QED BY <4>1, <5>1
      <4> QED BY <4>1, <4>2
    <3>2. PICK m \in 1..(i - 1) : Best(m, i - 1)
      BY <3>1
    <3>3. m \in 1..i /\ i \in 1..i /\ \A j \in 1..i : j = i \/ j \in 1..(i - 1)
      BY <3>1
    <3>4. f[i] \in R /\ f[m] \in R /\ \A j \in 1..(i - 1) : f[j] \in R
      BY <1>5, <3>1, <3>3
    <3>5. CASE f[i] = f[m] \/ SortsBefore(f[i], f[m])
      <4>1. Best(m, i)
        BY <3>2, <3>3, <3>5
      <4> HIDE DEF Best
      <4> QED BY <4>1, <2>3, <3>3
    <3>6. CASE SortsBefore(f[m], f[i])
      <4>1. Best(i, i)
        <5>1. \A j \in 1..(i - 1) : f[j] # f[i] => SortsBefore(f[j], f[i])
          BY <3>2, <3>6, <1>3, <3>4
        <5> QED BY <3>3, <5>1
      <4> HIDE DEF Best
      <4> QED BY <4>1, <2>3, <3>3
    <3> QED BY <3>4, <3>5, <3>6, <1>4
  <2> QED BY <2>4, <2>5
<1>7. n \in 1..n
  BY <1>2
<1>8. PICK m \in 1..n : Best(m, n)
  BY <1>6, <1>7
<1>9. f[m] \in R /\ \A row \in R : row # f[m] => SortsBefore(row, f[m])
  <2>1. f[m] \in R
    BY <1>5
  <2>2. ASSUME NEW row \in R, row # f[m] PROVE SortsBefore(row, f[m])
    <3>1. PICK j \in 1..n : f[j] = row
      BY <1>2
    <3> QED BY <3>1, <1>8, <2>2
  <2> QED BY <2>1, <2>2
<1> QED BY <1>9

(* Any rows a read keeps can be put in the order of the query. *)
LEMMA SomeFrame ==
    ASSUME NEW R, Keepable(R)
    PROVE  \E frame : Enumerates(frame, R)
<1> DEFINE Sortable(T) == \E frame : Enumerates(frame, T)
           Fails == {n \in Nat : \E T \in SUBSET R : Cardinality(T) = n /\ ~Sortable(T)}
<1>1. \A T \in SUBSET R : Keepable(T) /\ Cardinality(T) \in Nat
  BY FS_Subset, FS_CardinalityType DEF Keepable
<1>2. Fails = {}
  <2>1. SUFFICES ASSUME Fails # {} PROVE FALSE
    OBVIOUS
  <2>2. PICK n \in Fails : \A k \in Fails : n <= k
    <3>1. Fails \in SUBSET Nat
      OBVIOUS
    <3> HIDE DEF Fails
    <3> QED BY <2>1, <3>1, LeastFailure
  <2>3. n \in Nat /\ \E T \in SUBSET R : Cardinality(T) = n /\ ~Sortable(T)
    <3> HIDE DEF Sortable
    <3> QED OBVIOUS
  <2>4. PICK T \in SUBSET R : Cardinality(T) = n /\ ~Sortable(T)
    <3> HIDE DEF Sortable
    <3> QED BY <2>3
  <2>5. T # {}
    <3>1. ASSUME T = {} PROVE Sortable(T)
      <4>1. Cardinality(T) = 0
        BY <3>1, FS_EmptySet
      <4> DEFINE frame == [i \in 1..0 |-> i]
      <4>2. Enumerates(frame, T)
        BY <3>1, <4>1 DEF Enumerates, Ascends
      <4> QED BY <4>2
    <3> HIDE DEF Sortable
    <3> QED BY <3>1, <2>4
  <2>6. PICK last \in T : \A row \in T : row # last => SortsBefore(row, last)
    BY <1>1, <2>5, SomeLast
  <2> DEFINE U == T \ {last}
  <2>7. U \in SUBSET R /\ Cardinality(U) = n - 1 /\ n - 1 \in Nat
    <3>1. IsFiniteSet(T)
      BY <1>1 DEF Keepable
    <3>2. Cardinality(U) = n - 1
      BY <2>4, <3>1, FS_RemoveElement
    <3>3. Cardinality(U) \in Nat
      BY <1>1
    <3> QED BY <3>2, <3>3
  <2>8. Sortable(U)
    <3> HIDE DEF Sortable, U
    <3>1. n - 1 \notin Fails
      <4>1. ASSUME n - 1 \in Fails PROVE FALSE
        <5> HIDE DEF Fails
        <5>1. n <= n - 1
          BY <2>2, <4>1
        <5> QED BY <5>1, <2>3
      <4> QED BY <4>1
    <3> QED BY <3>1, <2>7
  <2>9. PICK g : Enumerates(g, U)
    BY <2>8
  <2> DEFINE frame == [i \in 1..n |-> IF i = n THEN last ELSE g[i]]
  <2>10. g \in [1..(n - 1) -> U] /\ Ascends(g)
    BY <2>7, <2>9 DEF Enumerates
  <2>11. \A i \in 1..(n - 1) : frame[i] = g[i] /\ g[i] \in U
    BY <2>3, <2>10
  <2>12. n \in 1..n /\ frame[n] = last /\ \A i \in 1..n : i = n \/ i \in 1..(n - 1)
    BY <2>7
  <2>13. Enumerates(frame, T)
    <3>1. frame \in [1..n -> T]
      <4>1. \A i \in 1..n : frame[i] \in T
        <5> HIDE DEF frame
        <5> QED BY <2>11, <2>12
      <4>2. frame = [i \in 1..n |-> frame[i]]
        OBVIOUS
      <4> HIDE DEF frame
      <4> QED BY <4>1, <4>2
    <3>2. ASSUME NEW i \in 1..n, NEW j \in 1..n, i < j
          PROVE  SortsBefore(frame[i], frame[j])
      <4>1. i \in 1..(n - 1)
        BY <2>3, <3>2
      <4>2. CASE j = n
        <5> HIDE DEF frame
        <5>1. frame[i] \in T /\ frame[i] # last
          BY <2>11, <4>1
        <5> QED BY <5>1, <2>6, <2>12, <4>2
      <4>3. CASE j # n
        <5>1. j \in 1..(n - 1)
          BY <2>12, <4>3
        <5> HIDE DEF frame
        <5> QED BY <5>1, <4>1, <2>10, <2>11, <3>2 DEF Ascends
      <4> QED BY <4>2, <4>3
    <3> HIDE DEF frame
    <3>3. Ascends(frame)
      BY <3>1, <3>2 DEF Ascends
    <3> QED BY <3>1, <3>3, <2>4 DEF Enumerates
  <2> QED BY <2>4, <2>13
<1>3. ASSUME ~Sortable(R) PROVE FALSE
  <2>1. Cardinality(R) \in Fails
    BY <1>1, <1>3
  <2> QED BY <2>1, <1>2
<1> QED BY <1>3

(* A frame shows each of its rows once. *)
LEMMA EachRowOnce ==
    ASSUME NEW R, Keepable(R), NEW h, Enumerates(h, R)
    PROVE  /\ \A i, j \in 1..Cardinality(R) : h[i] = h[j] => i = j
           /\ \A row \in R : \E i \in 1..Cardinality(R) : h[i] = row
<1> DEFINE n == Cardinality(R)
<1>1. n \in Nat /\ h \in [1..n -> R] /\ Ascends(h)
  BY FS_CardinalityType DEF Keepable, Enumerates
<1>2. \A a \in R : ~SortsBefore(a, a)
  BY DEF SortsBefore, Keepable
<1>3. \A i, j \in 1..n : h[i] = h[j] => i = j
  <2> TAKE i, j \in 1..n
  <2> HAVE h[i] = h[j]
  <2>1. ~ (i < j) /\ ~ (j < i)
    BY <1>1, <1>2 DEF Ascends
  <2> QED BY <2>1, <1>1
<1>4. h \in Injection(1..n, R)
  BY <1>1, <1>3 DEF Injection, IsInjective
<1>5. IsFiniteSet(1..n) /\ Cardinality(1..n) = n /\ IsFiniteSet(R)
  BY <1>1, FS_Interval DEF Keepable
<1>6. h \in Surjection(1..n, R)
  BY <1>4, <1>5, FS_Injection
<1> QED BY <1>3, <1>6 DEF Surjection

(* There is only one such frame. *)
LEMMA FramesAreUnique ==
    ASSUME NEW R, Keepable(R), NEW f, NEW g, Enumerates(f, R), Enumerates(g, R)
    PROVE  f = g
<1> DEFINE n == Cardinality(R)
           Fails == {i \in 1..n : f[i] # g[i]}
<1>1. n \in Nat /\ f \in [1..n -> R] /\ g \in [1..n -> R]
  BY FS_CardinalityType DEF Keepable, Enumerates
<1>2. \A a, b \in R : ~ (SortsBefore(a, b) /\ SortsBefore(b, a)) /\ ~SortsBefore(a, a)
  BY DEF SortsBefore, Keepable
<1>3. ASSUME NEW h \in [1..n -> R], Ascends(h)
      PROVE  /\ \A i, j \in 1..n : h[i] = h[j] => i = j
             /\ \A row \in R : \E i \in 1..n : h[i] = row
  BY <1>3, EachRowOnce DEF Enumerates
<1>4. Fails = {}
  <2>1. SUFFICES ASSUME Fails # {} PROVE FALSE
    OBVIOUS
  <2>2. PICK i \in Fails : \A k \in Fails : i <= k
    <3>1. Fails \in SUBSET Nat
      OBVIOUS
    <3> HIDE DEF Fails
    <3> QED BY <2>1, <3>1, LeastFailure
  <2>3. i \in 1..n /\ f[i] # g[i] /\ \A k \in 1..n : k < i => f[k] = g[k]
    <3>1. ASSUME NEW k \in 1..n, k < i, f[k] # g[k] PROVE FALSE
      <4>1. i <= k
        BY <2>2, <3>1
      <4> QED BY <4>1, <3>1, <1>1
    <3> QED BY <3>1
  <2>4. ASSUME NEW a \in [1..n -> R], NEW b \in [1..n -> R], Ascends(a), Ascends(b),
               a[i] # b[i], \A k \in 1..n : k < i => a[k] = b[k]
        PROVE  SortsBefore(b[i], a[i])
    <3>1. PICK j \in 1..n : b[j] = a[i]
      BY <1>3, <2>3, <2>4
    <3>2. ~ (j < i)
      <4>1. ASSUME j < i PROVE FALSE
        <5>1. a[j] = a[i]
          BY <2>4, <3>1, <4>1
        <5>2. j = i
          BY <5>1, <1>3, <2>3, <2>4
        <5> QED BY <5>2, <4>1, <1>1
      <4> QED BY <4>1
    <3>3. i < j
      BY <3>1, <3>2, <2>3, <2>4, <1>1
    <3> QED BY <2>3, <2>4, <3>1, <3>3 DEF Ascends
  <2>5. SortsBefore(g[i], f[i]) /\ SortsBefore(f[i], g[i])
    BY <1>1, <2>3, <2>4 DEF Enumerates
  <2>6. f[i] \in R /\ g[i] \in R
    BY <1>1, <2>3
  <2> QED BY <1>2, <2>5, <2>6
<1>5. \A i \in 1..n : f[i] = g[i]
  BY <1>4
<1> HIDE DEF n
<1> QED BY <1>1, <1>5

(* So the frame is that one. *)
LEMMA SortedEnumerates ==
    ASSUME NEW R, Keepable(R)
    PROVE  Enumerates(Sorted(R), R)
<1>1. \E frame \in [1..Cardinality(R) -> R] : Ascends(frame)
  BY SomeFrame DEF Enumerates
<1> QED BY <1>1 DEF Sorted, Enumerates

(***************************************************************************)
(* FrameNeverGoesBack.                                                     *)
(***************************************************************************)

(* A set of rows one of which each view shows is one a frame can hold. *)
LEMMA KeepableResolution ==
    ASSUME NEW S, Scannable(S), \A row \in S : row.id \in Nat, NEW R, IsResolution(S, R)
    PROVE  Keepable(R)
BY FS_Subset DEF Keepable, IsResolution, Scannable

LEMMA ViewsAreKeepable ==
    ASSUME NEW H, IsHistory(H), NEW f, NEW R \in Views(H, f)
    PROVE  Keepable(R)
<1>1. IsResolution(Scanned(H, f), R) /\ Scannable(Scanned(H, f))
  BY ViewsResolve, ScansAreScannable DEF Scanned
<1>2. \A row \in Scanned(H, f) : row.id \in Nat
  BY RowsOfHistory, ViewAssumption DEF Scanned
<1> QED BY <1>1, <1>2, KeepableResolution

(* A frame holds rows that were kept, and each of them that the limit does not
   cut off behind a full frame of rows that sort before it. *)
LEMMA FrameHolds ==
    ASSUME NEW R, Keepable(R), NEW f \in Filters
    PROVE  LET frame == FrameOf(R, f) IN
             /\ \A j \in DOMAIN frame : frame[j] \in R
             /\ \A row \in R :
                  \/ \E j \in DOMAIN frame : frame[j] = row
                  \/ /\ Len(frame) = f.limit
                     /\ \A j \in DOMAIN frame : SortsBefore(frame[j], row)
<1> DEFINE n == Cardinality(R)
           rows == Sorted(R)
           limit == f.limit
           frame == Limited(rows, limit)
<1>1. n \in Nat /\ rows \in [1..n -> R] /\ Ascends(rows)
  BY SortedEnumerates, FS_CardinalityType DEF Enumerates, Keepable
<1>2. \A row \in R : \E i \in 1..n : rows[i] = row
  BY SortedEnumerates, EachRowOnce
<1>3. limit \in Nat \cup {Unset}
  BY FiltersAssumption
<1> HIDE DEF n, rows, limit
<1>4. DOMAIN rows = 1..n /\ Len(rows) = n
  BY <1>1
<1>5. CASE limit = Unset \/ limit >= n
  <2>1. frame = rows
    BY <1>4, <1>5 DEF Limited
  <2> QED BY <1>1, <1>2, <1>4, <2>1 DEF FrameOf, rows, limit
<1>6. CASE limit # Unset /\ ~ (limit >= n)
  <2>1. limit \in Nat /\ limit < n /\ \A i \in 1..limit : i \in 1..n
    BY <1>1, <1>3, <1>6
  <2>2. frame = [i \in 1..limit |-> rows[i]]
    <3>1. frame = SubSeq(rows, 1, limit)
      BY <1>4, <1>6 DEF Limited
    <3> QED BY <3>1, <2>1, <1>1
  <2>3. DOMAIN frame = 1..limit /\ Len(frame) = limit /\ \A i \in 1..limit : frame[i] = rows[i]
    BY <2>1, <2>2
  <2> HIDE DEF frame
  <2>4. ASSUME NEW row \in R
        PROVE  \/ \E j \in DOMAIN frame : frame[j] = row
               \/ \A j \in DOMAIN frame : SortsBefore(frame[j], row)
    <3>1. PICK k \in 1..n : rows[k] = row
      BY <1>2
    <3>2. CASE k <= limit
      <4>1. k \in 1..limit
        BY <2>1, <3>2
      <4> QED BY <2>3, <3>1, <4>1
    <3>3. CASE ~ (k <= limit)
      <4>1. \A j \in 1..limit : j \in 1..n /\ j < k
        BY <2>1, <3>3
      <4>2. \A j \in 1..limit : SortsBefore(rows[j], row)
        BY <1>1, <1>4, <3>1, <4>1 DEF Ascends
      <4> QED BY <2>3, <4>2
    <3> QED BY <3>2, <3>3
  <2>5. \A j \in DOMAIN frame : frame[j] \in R
    BY <1>1, <2>1, <2>3
  <2> QED BY <2>3, <2>4, <2>5 DEF FrameOf, frame, rows, limit
<1> QED BY <1>3, <1>5, <1>6

(* What a step may do to a view, limit or none: no observation of it leaves
   or returns to an earlier fetched_at. *)
LEMMA ViewsKeepObservations ==
    ASSUME HistoryInv, HistoryInv', [Next]_vars, NEW f \in Filters,
           NEW R \in Views(history, f), NEW S \in Views(history', f), NEW row \in R
    PROVE  \E new \in S : new.id = row.id /\ new.at >= row.at
<1>1. IsResolution(Scanned(history, f), R) /\ IsResolution(Scanned(history', f), S)
  BY ViewsResolve DEF HistoryInv
<1>2. row \in Scanned(history', f)
  BY <1>1, HistoryGrows DEF IsResolution, Scanned
<1>3. PICK new \in S : new.id = row.id
  BY <1>1, <1>2 DEF IsResolution
<1>4. ~Supersedes(row, new)
  BY <1>1, <1>2, <1>3 DEF IsResolution
<1>5. row.at \in Nat /\ new.at \in Nat
  <2>1. row \in history' /\ new \in history'
    BY <1>1, <1>2 DEF IsResolution, Scanned
  <2> QED BY <2>1, RowsOfHistory DEF HistoryInv
<1> QED BY <1>3, <1>4, <1>5 DEF Supersedes

(* An observation in the frame of a read stays in that read, at the same or a
   later fetched_at, or the limit has cut it off behind a full frame of rows
   that sort before it: for any filters, limited or not. *)
THEOREM ReadsNeverGoBack == Spec => FrameNeverGoesBack
<1> DEFINE Kept(f, R, S) ==
             LET before == FrameOf(R, f)
                 after == FrameOf(S, f)
             IN  \A i \in DOMAIN before : \E new \in S :
                   /\ new.id = before[i].id /\ new.at >= before[i].at
                   /\ \/ \E j \in DOMAIN after : after[j] = new
                      \/ /\ Len(after) = f.limit
                         /\ \A j \in DOMAIN after : SortsBefore(after[j], new)
           Step == \A f \in Filters : \A R \in Views(history, f), S \in Views(history', f) :
                     Kept(f, R, S)
<1>1. HistoryInv /\ HistoryInv' /\ [Next]_vars => Step
  <2> SUFFICES ASSUME HistoryInv, HistoryInv', [Next]_vars, NEW f \in Filters,
                      NEW R \in Views(history, f), NEW S \in Views(history', f)
               PROVE  Kept(f, R, S)
    OBVIOUS
  <2>1. Keepable(R) /\ Keepable(S)
    BY ViewsAreKeepable DEF HistoryInv
  <2> DEFINE before == FrameOf(R, f)
             after == FrameOf(S, f)
  <2>2. \A i \in DOMAIN before : before[i] \in R
    BY <2>1, FrameHolds
  <2>3. \A new \in S :
           \/ \E j \in DOMAIN after : after[j] = new
           \/ /\ Len(after) = f.limit
              /\ \A j \in DOMAIN after : SortsBefore(after[j], new)
    BY <2>1, FrameHolds
  <2> HIDE DEF before, after
  <2>4. \A i \in DOMAIN before : \E new \in S :
           new.id = before[i].id /\ new.at >= before[i].at
    BY <2>2, ViewsKeepObservations
  <2> QED BY <2>3, <2>4 DEF before, after
<1> HIDE DEF Step
<1>2. Spec => [][Step]_vars
  BY <1>1, HistoryIsSubmitted, PTL DEF Spec
<1> QED BY <1>2 DEF FrameNeverGoesBack, Step

(***************************************************************************)
(* OneAnswerWhateverFailed.                                                *)
(***************************************************************************)

(* Some rows without the suffix of their files. *)
Shown(R) == {Submitted(row) : row \in R}

ShownFrame(frame) == [i \in DOMAIN frame |-> Submitted(frame[i])]

(* What a filter, the window and the order look at is in the row itself. *)
LEMMA SuffixIsInvisible ==
    ASSUME NEW a, NEW b
    PROVE  /\ \A f : Admits(f, Submitted(a)) <=> Admits(f, a)
           /\ Supersedes(Submitted(a), Submitted(b)) <=> Supersedes(a, b)
           /\ SortsBefore(Submitted(a), Submitted(b)) <=> SortsBefore(a, b)
           /\ Submitted(a).id = a.id /\ Submitted(a).at = a.at /\ Submitted(a).run = a.run
<1>1. /\ Submitted(a).id = a.id /\ Submitted(a).at = a.at /\ Submitted(a).run = a.run
      /\ Submitted(a).q = a.q
      /\ Submitted(b).id = b.id /\ Submitted(b).at = b.at /\ Submitted(b).run = b.run
  BY DEF Submitted
<1> QED BY <1>1 DEF Admits, AdmitsVersion, Supersedes, SortsBefore

LEMMA ShownIsFinite ==
    ASSUME NEW R, IsFiniteSet(R)
    PROVE  IsFiniteSet(Shown(R))
<1> DEFINE f == [row \in R |-> Submitted(row)]
<1>1. f \in Surjection(R, Shown(R))
  BY DEF Surjection, Shown
<1> HIDE DEF f
<1> QED BY <1>1, FS_Surjection

LEMMA ShownIsScannable ==
    ASSUME NEW H, Scannable(H)
    PROVE  Scannable(Shown(H))
<1>1. IsFiniteSet(Shown(H))
  BY ShownIsFinite DEF Scannable
<1>2. \A row \in Shown(H) : row.at \in Nat /\ row.run \in Nat
  BY SuffixIsInvisible DEF Shown, Scannable
<1> QED BY <1>1, <1>2 DEF Scannable

LEMMA ShownScan ==
    ASSUME NEW H, NEW f
    PROVE  Scanned(Shown(H), f) = Shown(Scanned(H, f))
BY SuffixIsInvisible DEF Scanned, Shown

(* The rows a window keeps of copies are copies of rows it keeps. *)
LEMMA ShownResolutions ==
    ASSUME NEW S, Scannable(S), NEW Q
    PROVE  IsResolution(Shown(S), Q) <=> \E R : IsResolution(S, R) /\ Shown(R) = Q
<1>1. ASSUME NEW R, IsResolution(S, R)
      PROVE  IsResolution(Shown(S), Shown(R))
  <2>1. Shown(R) \subseteq Shown(S)
    BY <1>1 DEF IsResolution, Shown
  <2>2. \A row \in Shown(R) : \A other \in Shown(S) :
          other.id = row.id => ~Supersedes(other, row)
    BY <1>1, SuffixIsInvisible DEF IsResolution, Shown
  <2>3. \A row \in Shown(S) : \E kept \in Shown(R) : kept.id = row.id
    BY <1>1, SuffixIsInvisible DEF IsResolution, Shown
  <2>4. \A a, b \in Shown(R) : a.id = b.id => a = b
    BY <1>1, SuffixIsInvisible DEF IsResolution, Shown
  <2> QED BY <2>1, <2>2, <2>3, <2>4 DEF IsResolution
<1>2. ASSUME IsResolution(Shown(S), Q)
      PROVE  \E R : IsResolution(S, R) /\ Shown(R) = Q
  <2> DEFINE Copy(q) == CHOOSE row : row \in S /\ Submitted(row) = q
             R == {Copy(q) : q \in Q}
  <2>1. \A q \in Q : Copy(q) \in S /\ Submitted(Copy(q)) = q
    BY <1>2 DEF IsResolution, Shown
  <2> HIDE DEF Copy
  <2>2. Shown(R) = Q
    BY <2>1 DEF Shown
  <2>3. \A q \in Q : Copy(q).id = q.id
    BY <2>1, SuffixIsInvisible
  <2>4. R \subseteq S
    BY <2>1
  <2>5. ASSUME NEW row \in R, NEW other \in S, other.id = row.id
        PROVE  ~Supersedes(other, row)
    <3>1. PICK q \in Q : row = Copy(q)
      OBVIOUS
    <3>2. Submitted(other) \in Shown(S) /\ Submitted(other).id = q.id
      BY <2>3, <2>5, <3>1, SuffixIsInvisible DEF Shown
    <3>3. ~Supersedes(Submitted(other), Submitted(row))
      BY <1>2, <2>1, <3>1, <3>2 DEF IsResolution
    <3> QED BY <3>3, SuffixIsInvisible
  <2>6. ASSUME NEW row \in S PROVE \E kept \in R : kept.id = row.id
    <3>1. Submitted(row) \in Shown(S) /\ Submitted(row).id = row.id
      BY SuffixIsInvisible DEF Shown
    <3>2. PICK q \in Q : q.id = row.id
      BY <1>2, <3>1 DEF IsResolution
    <3> QED BY <3>2, <2>3
  <2>7. \A a, b \in R : a.id = b.id => a = b
    BY <1>2, <2>3 DEF IsResolution
  <2> QED BY <2>2, <2>4, <2>5, <2>6, <2>7 DEF IsResolution
<1> QED BY <1>1, <1>2

LEMMA ShownSorted ==
    ASSUME NEW R, Keepable(R)
    PROVE  Keepable(Shown(R)) /\ ShownFrame(Sorted(R)) = Sorted(Shown(R))
<1> DEFINE n == Cardinality(R)
           copy == [row \in R |-> Submitted(row)]
<1>1. Keepable(Shown(R))
  <2>1. IsFiniteSet(Shown(R))
    BY ShownIsFinite DEF Keepable
  <2>2. \A row \in Shown(R) : row.at \in Nat /\ row.id \in Nat
    BY SuffixIsInvisible DEF Shown, Keepable
  <2>3. \A a, b \in Shown(R) : a.id = b.id => a = b
    BY SuffixIsInvisible DEF Shown, Keepable
  <2> QED BY <2>1, <2>2, <2>3 DEF Keepable
<1>2. Cardinality(Shown(R)) = n
  <2>1. copy \in Injection(R, Shown(R))
    <3>1. \A a, b \in R : Submitted(a) = Submitted(b) => a = b
      <4> TAKE a, b \in R
      <4> HAVE Submitted(a) = Submitted(b)
      <4>1. a.id = b.id
        BY SuffixIsInvisible
      <4> QED BY <4>1 DEF Keepable
    <3>2. copy \in [R -> Shown(R)]
      BY DEF Shown
    <3> QED BY <3>1, <3>2 DEF Injection, IsInjective
  <2>2. copy \in Surjection(R, Shown(R))
    BY DEF Surjection, Shown
  <2>3. ExistsBijection(R, Shown(R))
    BY <2>1, <2>2 DEF Bijection, ExistsBijection
  <2> HIDE DEF copy
  <2> QED BY <2>3, FS_Bijection DEF Keepable
<1> DEFINE frame == Sorted(R)
<1>3. frame \in [1..n -> R] /\ Ascends(frame)
  BY SortedEnumerates DEF Enumerates
<1> HIDE DEF frame, n
<1>4. ShownFrame(frame) \in [1..n -> Shown(R)]
  BY <1>3 DEF ShownFrame, Shown
<1>5. Ascends(ShownFrame(frame))
  <2>1. DOMAIN frame = 1..n /\ DOMAIN ShownFrame(frame) = 1..n
    BY <1>3 DEF ShownFrame
  <2>2. \A i \in 1..n : ShownFrame(frame)[i] = Submitted(frame[i])
    BY <2>1 DEF ShownFrame
  <2> QED BY <1>3, <2>1, <2>2, SuffixIsInvisible DEF Ascends
<1>6. Enumerates(ShownFrame(frame), Shown(R))
  BY <1>2, <1>4, <1>5 DEF Enumerates, n
<1>7. Enumerates(Sorted(Shown(R)), Shown(R))
  BY <1>1, SortedEnumerates
<1> QED BY <1>1, <1>6, <1>7, FramesAreUnique DEF frame

(* A limit cuts a frame and its copy alike. *)
LEMMA ShownLimited ==
    ASSUME NEW n \in Nat, NEW R, NEW frame \in [1..n -> R], NEW limit \in Nat \cup {Unset}
    PROVE  ShownFrame(Limited(frame, limit)) = Limited(ShownFrame(frame), limit)
<1>1. DOMAIN frame = 1..n /\ Len(frame) = n
  OBVIOUS
<1>2. DOMAIN ShownFrame(frame) = 1..n /\ Len(ShownFrame(frame)) = n
  BY <1>1 DEF ShownFrame
<1>3. CASE limit = Unset \/ limit >= n
  BY <1>1, <1>2, <1>3 DEF Limited
<1>4. CASE limit # Unset /\ ~ (limit >= n)
  <2>1. limit \in Nat /\ \A i \in 1..limit : i \in 1..n
    BY <1>4
  <2>2. Limited(frame, limit) = [i \in 1..limit |-> frame[i]]
    <3>1. Limited(frame, limit) = SubSeq(frame, 1, limit)
      BY <1>1, <1>4 DEF Limited
    <3> QED BY <3>1, <2>1, <1>1
  <2>3. Limited(ShownFrame(frame), limit) = [i \in 1..limit |-> ShownFrame(frame)[i]]
    <3>1. Limited(ShownFrame(frame), limit) = SubSeq(ShownFrame(frame), 1, limit)
      BY <1>2, <1>4 DEF Limited
    <3> QED BY <3>1, <2>1, <1>2
  <2>4. \A i \in 1..limit : ShownFrame(frame)[i] = Submitted(frame[i])
    BY <2>1, <1>1 DEF ShownFrame
  <2> QED BY <2>2, <2>3, <2>4 DEF ShownFrame
<1> QED BY <1>3, <1>4

(* The frames a caller sees depend on the rows stored and not on the files
   that hold them, nor on how many do. *)
LEMMA FramesOfCopies ==
    ASSUME NEW H, IsHistory(H), NEW f \in Filters
    PROVE  FramesShown(H, f) = ReadFrame(Shown(H), f)
<1>1. f.limit \in Nat \cup {Unset}
  BY FiltersAssumption
<1>2. FramesShown(H, f) = {ShownFrame(frame) : frame \in ReadFrame(H, f)}
  BY DEF FramesShown, ShownFrame
<1>3. H = {} <=> Shown(H) = {}
  BY DEF Shown
<1>4. CASE H = {} \/ SelectsNothing(f)
  <2>1. ReadFrame(H, f) = {<< >>} /\ ReadFrame(Shown(H), f) = {<< >>}
    BY <1>3, <1>4 DEF ReadFrame
  <2>2. ShownFrame(<< >>) = << >>
    BY DEF ShownFrame
  <2> QED BY <1>2, <2>1, <2>2
<1>5. CASE ~ (H = {} \/ SelectsNothing(f))
  <2>1. ReadFrame(H, f) = {FrameOf(R, f) : R \in Views(H, f)}
    BY <1>5 DEF ReadFrame
  <2>2. ReadFrame(Shown(H), f) = {FrameOf(Q, f) : Q \in Views(Shown(H), f)}
    BY <1>3, <1>5 DEF ReadFrame
  <2>3. \A Q : Q \in Views(Shown(H), f) <=> \E R \in Views(H, f) : Shown(R) = Q
    <3> TAKE Q
    <3>1. Scannable(Scanned(H, f)) /\ Scannable(Shown(Scanned(H, f)))
      BY ScansAreScannable, ShownIsScannable DEF Scanned
    <3>2. Q \in Views(Shown(H), f) <=> IsResolution(Shown(Scanned(H, f)), Q)
      BY <3>1, ResolutionsAre, ShownScan DEF Views
    <3> QED BY <3>1, <3>2, ShownResolutions, ViewsResolve
  <2>4. ASSUME NEW R \in Views(H, f) PROVE ShownFrame(FrameOf(R, f)) = FrameOf(Shown(R), f)
    <3>1. Keepable(R)
      BY <2>4, ViewsAreKeepable
    <3>2. ShownFrame(Sorted(R)) = Sorted(Shown(R))
      BY <3>1, ShownSorted
    <3>3. Sorted(R) \in [1..Cardinality(R) -> R] /\ Cardinality(R) \in Nat
      BY <3>1, SortedEnumerates, FS_CardinalityType DEF Enumerates, Keepable
    <3> QED BY <1>1, <3>2, <3>3, ShownLimited DEF FrameOf
  <2> QED BY <1>2, <2>1, <2>2, <2>3, <2>4
<1> QED BY <1>4, <1>5

(* A scan with no ties resolves in one way. *)
LEMMA OneResolution ==
    ASSUME NEW S, Scannable(S),
           \A a, b \in S : a.id = b.id /\ a.at = b.at /\ a.run = b.run => a = b,
           NEW Q, NEW R, IsResolution(S, Q), IsResolution(S, R)
    PROVE  Q \subseteq R
<1> SUFFICES ASSUME NEW row \in Q PROVE row \in R
  OBVIOUS
<1>1. PICK other \in R : other.id = row.id
  BY DEF IsResolution
<1>2. ~Supersedes(row, other) /\ ~Supersedes(other, row) /\ row \in S /\ other \in S
  BY <1>1 DEF IsResolution
<1>3. row.at = other.at /\ row.run = other.run
  BY <1>2 DEF Supersedes, Scannable
<1> QED BY <1>1, <1>2, <1>3

LEMMA ReadsDeterministic == HistoryInv => ReadsAreDeterministic
<1> SUFFICES ASSUME HistoryInv,
                    \A a, b \in history :
                      a.id = b.id /\ a.at = b.at /\ a.run = b.run => Submitted(a) = Submitted(b),
                    NEW f \in Filters
             PROVE  Cardinality(FramesShown(history, f)) = 1
  BY DEF ReadsAreDeterministic
<1> DEFINE T == Shown(history)
           S == Scanned(T, f)
<1>1. Scannable(T) /\ Scannable(S)
  <2>1. Scannable(history)
    BY ScansAreScannable DEF HistoryInv
  <2>2. Scannable(T)
    BY <2>1, ShownIsScannable
  <2> QED BY <2>2, FS_Subset DEF Scannable, Scanned
<1>2. \A a, b \in S : a.id = b.id /\ a.at = b.at /\ a.run = b.run => a = b
  BY SuffixIsInvisible DEF Scanned, Shown
<1> HIDE DEF T
<1>3. PICK R : IsResolution(S, R)
  BY <1>1, SomeResolution
<1>4. Views(T, f) = {R}
  <2>1. \A Q : IsResolution(S, Q) => Q \subseteq R /\ R \subseteq Q
    <3> HIDE DEF S
    <3> QED BY <1>1, <1>2, <1>3, OneResolution
  <2>2. \A Q : Q \in Views(T, f) <=> IsResolution(S, Q)
    BY <1>1, ResolutionsAre DEF Views
  <2> HIDE DEF S
  <2> QED BY <1>3, <2>1, <2>2
<1>5. \E frame : ReadFrame(T, f) = {frame}
  BY <1>4 DEF ReadFrame
<1>6. FramesShown(history, f) = ReadFrame(T, f)
  BY FramesOfCopies DEF HistoryInv, T
<1> QED BY <1>5, <1>6, FS_Singleton

(* Every row on disk with a suffix is owed to a batch that was acknowledged or
   is to be written again, and every acknowledged row is on disk. *)
AckInv ==
    /\ IsFiniteSet(acked) /\ acked \subseteq Rows
    /\ pending \subseteq Batches
    /\ \A row \in acked : \E stored \in history : stored.suffix > 0 /\ Submitted(stored) = row
    /\ \A stored \in history :
         stored.suffix > 0 =>
           \/ Submitted(stored) \in acked
           \/ \E batch \in pending : Submitted(stored) \in Final(batch)

LEMMA AckInvInit == Init => AckInv
<1> SUFFICES ASSUME Init PROVE AckInv
  OBVIOUS
<1>1. \A row \in history : row.suffix = 0
  BY SubmittedStoredAs, ViewAssumption DEF Init
<1> QED BY <1>1, FS_EmptySet DEF Init, AckInv

(* What is published is owed to its batch. *)
LEMMA Published ==
    ASSUME HistoryInv, NEW rows \in SUBSET Rows, Publish(rows)
    PROVE  /\ history \subseteq history'
           /\ \A row \in rows : \E stored \in history' : stored.suffix > 0 /\ Submitted(stored) = row
           /\ \A stored \in history' : stored \in history \/ Submitted(stored) \in rows
<1>1. \A g : NextSuffix(g) > 0
  BY SuffixIsPositive
<1> DEFINE Copy(row) == StoredAs(row, NextSuffix(Group(row)))
<1>2. \A row \in rows : Submitted(Copy(row)) = row /\ Copy(row).suffix > 0
  BY <1>1, SubmittedStoredAs
<1>3. history' = history \cup {Copy(row) : row \in rows}
  BY DEF Publish
<1> HIDE DEF Copy
<1> QED BY <1>2, <1>3

LEMMA AckInvNext == HistoryInv /\ AckInv /\ [Next]_vars => AckInv'
<1> SUFFICES ASSUME HistoryInv, AckInv, [Next]_vars PROVE AckInv'
  OBVIOUS
<1>1. CASE Write
  <2>1. PICK batch \in Batches : /\ Publish(LastOf(batch))
                                 /\ acked' = acked \cup Final(batch)
                                 /\ pending' = pending \ {batch}
    BY <1>1 DEF Write
  <2>2. Final(batch) = LastOf(batch) /\ Final(batch) \subseteq Rows /\ IsFiniteSet(Final(batch))
    BY LastOfIsFinal, LastOfIsFinite, ViewAssumption
  <2>3. IsFiniteSet(acked') /\ acked' \subseteq Rows /\ pending' \subseteq Batches
    BY <2>1, <2>2, FS_Union DEF AckInv
  <2>4. /\ history \subseteq history'
        /\ \A row \in Final(batch) : \E stored \in history' : stored.suffix > 0 /\ Submitted(stored) = row
        /\ \A stored \in history' : stored \in history \/ Submitted(stored) \in Final(batch)
    BY <2>1, <2>2, Published
  <2>5. \A row \in acked' : \E stored \in history' : stored.suffix > 0 /\ Submitted(stored) = row
    BY <2>1, <2>4 DEF AckInv
  <2>6. \A stored \in history' :
          stored.suffix > 0 =>
            \/ Submitted(stored) \in acked'
            \/ \E other \in pending' : Submitted(stored) \in Final(other)
    BY <2>1, <2>4 DEF AckInv
  <2> QED BY <2>3, <2>5, <2>6 DEF AckInv
<1>2. CASE FailedWrite
  <2>1. PICK batch \in Batches : /\ \E done \in SUBSET LastOf(batch) : Publish(done)
                                 /\ pending' = pending \cup {batch}
    BY <1>2 DEF FailedWrite
  <2>2. PICK done \in SUBSET LastOf(batch) : Publish(done)
    BY <2>1
  <2>3. acked' = acked
    BY <1>2 DEF FailedWrite
  <2>4. done \subseteq Final(batch) /\ done \subseteq Rows
    BY LastOfIsFinal, LastOfIsFinite, ViewAssumption
  <2>5. /\ history \subseteq history'
        /\ \A stored \in history' : stored \in history \/ Submitted(stored) \in done
    BY <2>2, <2>4, Published
  <2>6. \A row \in acked' : \E stored \in history' : stored.suffix > 0 /\ Submitted(stored) = row
    BY <2>3, <2>5 DEF AckInv
  <2>7. \A stored \in history' :
          stored.suffix > 0 =>
            \/ Submitted(stored) \in acked'
            \/ \E other \in pending' : Submitted(stored) \in Final(other)
    BY <2>1, <2>3, <2>4, <2>5 DEF AckInv
  <2> QED BY <2>1, <2>3, <2>6, <2>7 DEF AckInv
<1>3. CASE UNCHANGED vars
  BY <1>3 DEF vars, AckInv
<1> QED BY <1>1, <1>2, <1>3 DEF Next

LEMMA RetriesInvisible == HistoryInv /\ AckInv => RetryIsInvisible
<1> SUFFICES ASSUME HistoryInv, AckInv, pending = {}, NEW f \in Filters
             PROVE  FramesShown(history, f) =
                      FramesShown({row \in history : row.suffix = 0}
                                    \cup {StoredAs(row, 1) : row \in acked}, f)
  BY DEF RetryIsInvisible
<1> DEFINE fixtures == {row \in history : row.suffix = 0}
           copies == {StoredAs(row, 1) : row \in acked}
           once == fixtures \cup copies
<1>1. \A row \in acked : Submitted(StoredAs(row, 1)) = row /\ StoredAs(row, 1).suffix = 1
  BY SubmittedStoredAs DEF AckInv
<1>2. IsHistory(once)
  <2>1. IsFiniteSet(copies)
    <3> DEFINE g == [row \in acked |-> StoredAs(row, 1)]
    <3>1. g \in Surjection(acked, copies)
      BY DEF Surjection
    <3> HIDE DEF g, copies
    <3> QED BY <3>1, FS_Surjection DEF AckInv
  <2>2. IsFiniteSet(fixtures)
    BY FS_Subset DEF HistoryInv, IsHistory
  <2>3. \A row \in once : Submitted(row) \in Rows /\ row.suffix \in Nat
    BY <1>1 DEF HistoryInv, IsHistory, AckInv
  <2> HIDE DEF fixtures, copies
  <2> QED BY <2>1, <2>2, <2>3, FS_Union DEF IsHistory
<1>3. Shown(history) = Shown(once)
  <2>1. \A row \in history : Submitted(row) \in Shown(once)
    <3> TAKE row \in history
    <3>1. CASE row.suffix = 0
      BY <3>1 DEF Shown
    <3>2. CASE row.suffix # 0
      <4>1. row.suffix > 0
        BY <3>2 DEF HistoryInv, IsHistory
      <4>2. Submitted(row) \in acked
        BY <4>1 DEF AckInv
      <4> QED BY <4>2, <1>1 DEF Shown
    <3> QED BY <3>1, <3>2
  <2>2. \A row \in once : Submitted(row) \in Shown(history)
    BY <1>1 DEF AckInv, Shown
  <2> HIDE DEF once
  <2> QED BY <2>1, <2>2 DEF Shown
<1> HIDE DEF once
<1>4. FramesShown(history, f) = FramesShown(once, f)
  BY <1>2, <1>3, FramesOfCopies DEF HistoryInv
<1> QED BY <1>4 DEF once

(* A read has one answer, rows, order and limit included, where no run fetched
   one observation twice at one instant; and once every failed batch has been
   written again it is the answer there would be had no call failed
   (read_frame, lines 254-270, with write()'s dedup and retries). *)
THEOREM ReadsHaveOneAnswer == Spec => []OneAnswerWhateverFailed
<1>1. Init => HistoryInv /\ AckInv
  BY HistoryInvInit, AckInvInit
<1>2. HistoryInv /\ AckInv /\ [Next]_vars => (HistoryInv /\ AckInv)'
  BY HistoryInvNext, AckInvNext
<1>3. HistoryInv /\ AckInv => OneAnswerWhateverFailed
  BY ReadsDeterministic, RetriesInvisible DEF OneAnswerWhateverFailed
<1> QED BY <1>1, <1>2, <1>3, PTL DEF Spec

=============================================================================
