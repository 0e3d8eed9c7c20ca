---------------------------- MODULE IntakeProofs ----------------------------
(***************************************************************************)
(* Theorems about Intake: what reaches the disk was checked row by row,    *)
(* and what a report counts.                                               *)
(***************************************************************************)
EXTENDS Intake, FiniteSetTheorems, WellFoundedInduction, TLAPS

(* A set of naturals that has 0, and with a number the next one, has all up to n. *)
LEMMA UpTo ==
    ASSUME NEW n \in Nat, NEW S, 0 \in S, \A k \in 0..(n - 1) : k \in S => k + 1 \in S
    PROVE  \A k \in 0..n : k \in S
<1> DEFINE F == {k \in 0..n : k \notin S}
           R == OpToRel(<, Nat)
<1>1. SUFFICES F = {}
  OBVIOUS
<1>2. SUFFICES ASSUME F # {} PROVE FALSE
  OBVIOUS
<1>3. IsWellFoundedOn(R, Nat)
  BY NatLessThanWellFounded
<1>4. \A x, y \in Nat : <<y, x>> \in R <=> y < x
  BY DEF OpToRel
<1>5. F \subseteq Nat
  OBVIOUS
<1>6. PICK m \in F : \A k \in F : ~ (<<k, m>> \in R)
  <2> HIDE DEF R, F
  <2> QED BY <1>2, <1>3, <1>5, WFMin
<1>7. m # 0 /\ m \in 1..n
  OBVIOUS
<1>8. m - 1 \in S
  <2>1. m - 1 \in 0..n /\ m - 1 < m
    BY <1>7
  <2>2. m - 1 \notin F
    <3> HIDE DEF R, F
    <3> QED BY <2>1, <1>4, <1>5, <1>6
  <2> QED BY <2>1, <2>2
<1>9. m - 1 \in 0..(n - 1) /\ (m - 1) + 1 = m
  BY <1>7
<1> QED BY <1>6, <1>8, <1>9

(* A non-empty set of positions has a greatest one. *)
LEMMA MaxIs ==
    ASSUME NEW n \in Nat, NEW S \in SUBSET (1..n), S # {}
    PROVE  Max(S) \in S /\ \A k \in S : k <= Max(S)
<1>1. PICK s \in S : TRUE
  OBVIOUS
<1>2. SUFFICES \E x \in S : \A y \in S : x >= y
  BY DEF Max
<1>3. SUFFICES ASSUME \A x \in S : \E y \in S : ~ (x >= y) PROVE FALSE
  BY <1>2
<1> DEFINE U == {m \in 0..n : \E x \in S : x >= m}
<1>4. 0 \in U
  BY <1>1
<1>5. \A k \in 0..(n - 1) : k \in U => k + 1 \in U
  <2> SUFFICES ASSUME NEW k \in 0..(n - 1), NEW x \in S, x >= k PROVE k + 1 \in U
    OBVIOUS
  <2>1. PICK y \in S : ~ (x >= y)
    BY <1>3
  <2>2. y >= k + 1
    BY <2>1
  <2> QED BY <2>2
<1>6. n \in U
  <2>1. \A k \in 0..n : k \in U
    <3> HIDE DEF U
    <3> QED BY <1>4, <1>5, UpTo
  <2> QED BY <2>1
<1>7. PICK x \in S : x >= n
  BY <1>6
<1>8. PICK y \in S : ~ (x >= y)
  BY <1>3
<1> QED BY <1>7, <1>8

IsStep(step, A, n) == step \in [A \X (1..n) -> A]

(* What a left fold runs: h is its value on every set of positions. *)
IsLoop(h, base, step, A, n) ==
    /\ h \in [SUBSET (1..n) -> A]
    /\ \A s \in SUBSET (1..n) :
         h[s] = IF s = {} THEN base ELSE step[<<h[s \ {Max(s)}], Max(s)>>]

(* A left fold of a typed step exists: the loop it stands for can be run. *)
LEMMA FoldExists ==
    ASSUME NEW A, NEW n \in Nat, NEW base \in A, NEW step, IsStep(step, A, n)
    PROVE  \E h : IsLoop(h, base, step, A, n)
<1> DEFINE Runs(m, h) == \A s \in SUBSET (1..m) :
                h[s] = IF s = {} THEN base ELSE step[<<h[s \ {Max(s)}], Max(s)>>]
           CanRun(m) == \E h \in [SUBSET (1..m) -> A] : Runs(m, h)
           S == {m \in 0..n : CanRun(m)}
<1>0. step \in [A \X (1..n) -> A]
  BY DEF IsStep
<1>1. 0 \in S
  <2> DEFINE h == [s \in SUBSET (1..0) |-> base]
  <2>1. \A s \in SUBSET (1..0) : s = {}
    OBVIOUS
  <2>2. Runs(0, h)
    BY <2>1
  <2>3. h \in [SUBSET (1..0) -> A]
    OBVIOUS
  <2> HIDE DEF Runs, h
  <2>4. CanRun(0)
    BY <2>2, <2>3
  <2> HIDE DEF CanRun
  <2> QED BY <2>4
<1>2. ASSUME NEW m \in 0..(n - 1), m \in S PROVE m + 1 \in S
  <2>1. PICK h \in [SUBSET (1..m) -> A] : Runs(m, h)
    BY <1>2
  <2> DEFINE g == [s \in SUBSET (1..(m + 1)) |->
                     IF m + 1 \in s THEN step[<<h[s \ {m + 1}], m + 1>>] ELSE h[s]]
  <2>2. ASSUME NEW s \in SUBSET (1..(m + 1))
        PROVE  s \ {m + 1} \in SUBSET (1..m)
    OBVIOUS
  <2>3. ASSUME NEW s \in SUBSET (1..(m + 1)), m + 1 \notin s PROVE s \in SUBSET (1..m)
    BY <2>3
  <2>4. m + 1 \in 1..n
    OBVIOUS
  <2>5. g \in [SUBSET (1..(m + 1)) -> A]
    <3>1. ASSUME NEW s \in SUBSET (1..(m + 1)) PROVE g[s] \in A
      <4>1. CASE m + 1 \in s
        <5>1. h[s \ {m + 1}] \in A
          BY <2>2
        <5> QED BY <4>1, <5>1, <2>4, <1>0
      <4>2. CASE m + 1 \notin s
        BY <4>2, <2>3
      <4> QED BY <4>1, <4>2
    <3> QED BY <3>1
  <2>6. ASSUME NEW s \in SUBSET (1..(m + 1)), s # {}
        PROVE  Max(s) \in s /\ \A k \in s : k <= Max(s)
    BY <2>6, m + 1 \in Nat, MaxIs
  <2>7. ASSUME NEW s \in SUBSET (1..(m + 1))
        PROVE  g[s] = IF s = {} THEN base ELSE step[<<g[s \ {Max(s)}], Max(s)>>]
    <3>1. CASE m + 1 \in s
      <4>1. Max(s) = m + 1
        <5>1. Max(s) \in s /\ m + 1 <= Max(s) /\ Max(s) \in 1..(m + 1)
          BY <3>1, <2>6
        <5> QED BY <5>1
      <4>2. s \ {m + 1} \in SUBSET (1..(m + 1)) /\ m + 1 \notin s \ {m + 1}
        OBVIOUS
      <4>3. g[s \ {m + 1}] = h[s \ {m + 1}]
        BY <4>2
      <4>4. g[s] = step[<<h[s \ {m + 1}], m + 1>>]
        BY <3>1
      <4> HIDE DEF g
      <4> QED BY <3>1, <4>1, <4>3, <4>4
    <3>2. CASE m + 1 \notin s
      <4>1. s \in SUBSET (1..m)
        BY <3>2, <2>3
      <4>2. h[s] = IF s = {} THEN base ELSE step[<<h[s \ {Max(s)}], Max(s)>>]
        BY <2>1, <4>1
      <4>3. g[s] = h[s]
        BY <3>2
      <4>4. s \ {Max(s)} \in SUBSET (1..(m + 1)) /\ m + 1 \notin s \ {Max(s)}
        BY <3>2
      <4>5. g[s \ {Max(s)}] = h[s \ {Max(s)}]
        BY <4>4
      <4> HIDE DEF g
      <4> QED BY <4>2, <4>3, <4>5
    <3> QED BY <3>1, <3>2
  <2>8. Runs(m + 1, g)
    BY <2>7
  <2> HIDE DEF Runs, g
  <2>9. CanRun(m + 1)
    BY <2>5, <2>8
  <2>10. m + 1 \in 0..n
    OBVIOUS
  <2> HIDE DEF CanRun
  <2> QED BY <2>9, <2>10
<1>3. n \in S
  <2>1. \A k \in 0..n : k \in S
    <3> HIDE DEF S
    <3> QED BY <1>1, <1>2, UpTo
  <2>2. n \in 0..n
    OBVIOUS
  <2> HIDE DEF S
  <2> QED BY <2>1, <2>2
<1>4. CanRun(n)
  BY <1>3
<1> QED BY <1>4 DEF IsLoop

-----------------------------------------------------------------------------
(* What a report is made of.                                               *)

Violation == [field : ToSet(FieldOrder), code : Codes]

Tallies == [total : Nat, invalid : Nat, counts : [Codes -> Nat], sample : Seq(Nat \X Violation)]

Lesser(a, b) == IF a <= b THEN a ELSE b

(* The tally t after the first m of the violations vs of the row at index. *)
After(t, index, vs, m) ==
    [total |-> t.total, invalid |-> t.invalid,
     counts |-> [code \in Codes |->
        t.counts[code] + Cardinality({n \in 1..m : vs[n].code = code})],
     sample |-> [k \in 1..Lesser(SampleLimit, Len(t.sample) + m) |->
        IF k <= Len(t.sample) THEN t.sample[k] ELSE <<index, vs[k - Len(t.sample)]>>]]

LEMMA CountViolationKeepsTallies ==
    ASSUME NEW t \in Tallies, NEW index \in Nat, NEW v \in Violation
    PROVE  CountViolation(t, index, v) \in Tallies
<1>1. v.code \in Codes
  BY DEF Violation
<1>2. <<index, v>> \in Nat \X Violation
  OBVIOUS
<1>3. Append(t.sample, <<index, v>>) \in Seq(Nat \X Violation)
  BY <1>2 DEF Tallies
<1>4. t.counts[v.code] + 1 \in Nat
  BY <1>1 DEF Tallies
<1>5. [t.counts EXCEPT ![v.code] = @ + 1] \in [Codes -> Nat]
  BY <1>1, <1>4 DEF Tallies
<1> HIDE DEF Codes, Violation
<1> QED BY <1>3, <1>5 DEF Tallies, CountViolation

(* One violation more is counted under its code, and kept while there is room. *)
LEMMA AfterGoesOn ==
    ASSUME NEW t \in Tallies, NEW index \in Nat, NEW vs \in Seq(Violation),
           NEW m \in 1..Len(vs), Len(t.sample) <= SampleLimit
    PROVE  /\ After(t, index, vs, m - 1) \in Tallies
           /\ After(t, index, vs, m) = CountViolation(After(t, index, vs, m - 1), index, vs[m])
<1> DEFINE before == After(t, index, vs, m - 1)
           after == After(t, index, vs, m)
           Of(j, code) == {n \in 1..j : vs[n].code = code}
<1> USE DEF Lesser
<1>0. SampleLimit \in Nat
  BY IntakeAssumption
<1> DEFINE l == Len(t.sample)
<1>1. /\ vs[m] \in Violation /\ vs[m].code \in Codes /\ Len(vs) \in Nat
      /\ m \in Nat /\ m - 1 \in Nat /\ m \in 0..Len(vs) /\ m - 1 \in 0..Len(vs)
  <2>1. Len(vs) \in Nat /\ vs[m] \in Violation
    OBVIOUS
  <2>2. vs[m].code \in Codes
    BY <2>1 DEF Violation
  <2> QED BY <2>1, <2>2
<1>2. ASSUME NEW j \in 0..Len(vs), NEW code
      PROVE  IsFiniteSet(Of(j, code)) /\ Cardinality(Of(j, code)) \in Nat
  <2>1. j \in Int
    BY <1>1
  <2>2. IsFiniteSet(1..j)
    BY <2>1, FS_Interval
  <2>3. IsFiniteSet(Of(j, code))
    BY <2>2, FS_Subset
  <2> QED BY <2>3, FS_CardinalityType
<1>3. \A code \in Codes : Cardinality(Of(m, code)) =
        IF vs[m].code = code THEN Cardinality(Of(m - 1, code)) + 1 ELSE Cardinality(Of(m - 1, code))
  <2> TAKE code \in Codes
  <2>1. CASE vs[m].code = code
    <3>1. Of(m, code) = Of(m - 1, code) \cup {m} /\ m \notin Of(m - 1, code)
      BY <2>1
    <3>2. IsFiniteSet(Of(m - 1, code))
      <4> HIDE DEF Of
      <4> QED BY <1>2, <1>1
    <3> HIDE DEF Of
    <3> QED BY <2>1, <3>1, <3>2, FS_AddElement
  <2>2. CASE vs[m].code # code
    <3>1. Of(m, code) = Of(m - 1, code)
      BY <2>2
    <3> HIDE DEF Of
    <3> QED BY <2>2, <3>1
  <2> QED BY <2>1, <2>2
<1>4. l \in Nat /\ l <= SampleLimit /\ t.counts \in [Codes -> Nat] /\ t.total \in Nat
      /\ t.invalid \in Nat /\ t.sample \in Seq(Nat \X Violation)
  BY DEF Tallies
<1>5. before.counts \in [Codes -> Nat]
  <2>1. \A code \in Codes : Cardinality(Of(m - 1, code)) \in Nat
    <3> HIDE DEF Of
    <3> QED BY <1>1, <1>2
  <2>2. before.counts = [code \in Codes |-> t.counts[code] + Cardinality(Of(m - 1, code))]
    BY DEF After
  <2> HIDE DEF before, Of, Codes
  <2> QED BY <2>1, <2>2, <1>4
<1>6. /\ before.sample \in Seq(Nat \X Violation)
      /\ Len(before.sample) = Lesser(SampleLimit, l + (m - 1))
  <2> DEFINE Entry(k) == IF k <= l THEN t.sample[k] ELSE <<index, vs[k - l]>>
  <2>1. before.sample = [k \in 1..Lesser(SampleLimit, l + (m - 1)) |-> Entry(k)]
    BY DEF After
  <2>2. ASSUME NEW k \in 1..Lesser(SampleLimit, l + (m - 1)) PROVE Entry(k) \in Nat \X Violation
    <3>1. CASE k <= l
      BY <3>1, <1>4
    <3>2. CASE ~ (k <= l)
      <4>1. k - l \in 1..Len(vs)
        <5> HIDE DEF l
        <5> QED BY <3>2, <1>0, <1>4, <1>1
      <4>2. vs[k - l] \in Violation
        BY <4>1
      <4> HIDE DEF Violation
      <4> QED BY <3>2, <4>2
    <3> QED BY <3>1, <3>2
  <2>3. Lesser(SampleLimit, l + (m - 1)) \in Nat
    BY <1>0, <1>4, <1>1
  <2> HIDE DEF Entry, before, l, Violation, Lesser
  <2> QED BY <2>1, <2>2, <2>3
<1>7. before.total = t.total /\ before.invalid = t.invalid
  BY DEF After
<1>8. before = [total |-> before.total, invalid |-> before.invalid,
                counts |-> before.counts, sample |-> before.sample]
  BY DEF After
<1>9. before \in Tallies
  <2> HIDE DEF before, Violation, Codes
  <2> QED BY <1>4, <1>5, <1>6, <1>7, <1>8 DEF Tallies
<1>10. after.counts = [before.counts EXCEPT ![vs[m].code] = @ + 1]
  <2>1. after.counts = [code \in Codes |-> t.counts[code] + Cardinality(Of(m, code))]
    BY DEF After
  <2>2. before.counts = [code \in Codes |-> t.counts[code] + Cardinality(Of(m - 1, code))]
    BY DEF After
  <2>3. \A code \in Codes : Cardinality(Of(m - 1, code)) \in Nat
    <3> HIDE DEF Of
    <3> QED BY <1>1, <1>2
  <2> DEFINE next == [before.counts EXCEPT ![vs[m].code] = @ + 1]
  <2>4. next = [code \in Codes |-> next[code]]
    <3> HIDE DEF before
    <3> QED BY <1>5
  <2>5. ASSUME NEW code \in Codes
        PROVE  next[code] = t.counts[code] + Cardinality(Of(m, code))
    <3>1. t.counts[code] \in Nat
      BY <1>4
    <3>2. before.counts[code] = t.counts[code] + Cardinality(Of(m - 1, code))
      BY <2>2
    <3>3. Cardinality(Of(m - 1, code)) \in Nat
      BY <2>3
    <3>4. next[code] = IF vs[m].code = code THEN before.counts[code] + 1 ELSE before.counts[code]
      <4> HIDE DEF before
      <4> QED BY <1>5
    <3> HIDE DEF Of, before, next
    <3> QED BY <3>1, <3>2, <3>3, <3>4, <1>3
  <2>6. after.counts = next
    <3> HIDE DEF after, before, Of, next
    <3> QED BY <2>1, <2>4, <2>5
  <2> QED BY <2>6
<1>11. after.sample = IF Len(before.sample) < SampleLimit
                        THEN Append(before.sample, <<index, vs[m]>>) ELSE before.sample
  <2> DEFINE Entry(k) == IF k <= l THEN t.sample[k] ELSE <<index, vs[k - l]>>
  <2>1. before.sample = [k \in 1..Lesser(SampleLimit, l + (m - 1)) |-> Entry(k)]
    BY DEF After
  <2>2. after.sample = [k \in 1..Lesser(SampleLimit, l + m) |-> Entry(k)]
    BY DEF After
  <2>3. CASE l + (m - 1) < SampleLimit
    <3>1. Lesser(SampleLimit, l + m) = l + m /\ Lesser(SampleLimit, l + (m - 1)) = l + (m - 1)
      <4> HIDE DEF l
      <4> QED BY <2>3, <1>0, <1>4, <1>1
    <3>2. Entry(l + m) = <<index, vs[m]>>
      BY <1>1, <1>4
    <3> DEFINE more == Append(before.sample, <<index, vs[m]>>)
    <3>3. Len(before.sample) = l + (m - 1) /\ Len(before.sample) + 1 = l + m
      <4> HIDE DEF before, l
      <4> QED BY <3>1, <1>1, <1>6, <1>4
    <3>4. /\ more = [k \in 1..(l + m) |-> more[k]]
          /\ more[l + m] = <<index, vs[m]>>
          /\ \A k \in 1..(l + (m - 1)) : more[k] = before.sample[k]
      <4> HIDE DEF before, l, Violation
      <4> QED BY <3>3, <1>1, <1>4, <1>6
    <3>5. ASSUME NEW k \in 1..(l + m) PROVE more[k] = Entry(k)
      <4>1. CASE k = l + m
        BY <4>1, <3>2, <3>4
      <4>2. CASE k # l + m
        <5>1. k \in 1..(l + (m - 1))
          <6> HIDE DEF l
          <6> QED BY <4>2, <1>1, <1>4
        <5> HIDE DEF Entry, before, l, more
        <5> QED BY <5>1, <3>4, <2>1, <3>1
      <4> QED BY <4>1, <4>2
    <3>6. after.sample = [k \in 1..(l + m) |-> Entry(k)]
      BY <2>2, <3>1
    <3>7. after.sample = more
      <4> HIDE DEF Entry, before, after, l, more
      <4> QED BY <3>4, <3>5, <3>6
    <3>8. Len(before.sample) < SampleLimit
      BY <3>3, <2>3
    <3> HIDE DEF before, after
    <3> QED BY <3>7, <3>8
  <2>4. CASE ~ (l + (m - 1) < SampleLimit)
    <3>1. Lesser(SampleLimit, l + m) = SampleLimit /\ Lesser(SampleLimit, l + (m - 1)) = SampleLimit
      <4> HIDE DEF l
      <4> QED BY <2>4, <1>0, <1>4, <1>1
    <3>2. after.sample = before.sample
      <4> HIDE DEF Entry, before, after, l
      <4> QED BY <2>1, <2>2, <3>1
    <3>3. Len(before.sample) = SampleLimit
      BY <1>6, <3>1
    <3> HIDE DEF before, after
    <3> QED BY <3>2, <3>3, <1>0
  <2> QED BY <2>3, <2>4
<1>12. after.total = t.total /\ after.invalid = t.invalid
  BY DEF After
<1>13. after = [total |-> after.total, invalid |-> after.invalid,
                counts |-> after.counts, sample |-> after.sample]
  BY DEF After
<1>14. after = CountViolation(before, index, vs[m])
  <2> HIDE DEF before, after, Violation, Codes
  <2> QED BY <1>7, <1>8, <1>10, <1>11, <1>12, <1>13 DEF CountViolation
<1> QED BY <1>9, <1>14

(* The tally with which the loop over the violations vs of one more row begins. *)
Opened(t, vs) ==
    [t EXCEPT !.total = @ + 1, !.invalid = IF vs = << >> THEN @ ELSE @ + 1]

LEMMA OpenedIs ==
    ASSUME NEW t \in Tallies, NEW vs
    PROVE  /\ Opened(t, vs) \in Tallies
           /\ Opened(t, vs).total = t.total + 1
           /\ Opened(t, vs).invalid = IF vs = << >> THEN t.invalid ELSE t.invalid + 1
           /\ Opened(t, vs).counts = t.counts
           /\ Opened(t, vs).sample = t.sample
<1> DEFINE inv == IF vs = << >> THEN t.invalid ELSE t.invalid + 1
<1>1. /\ t = [total |-> t.total, invalid |-> t.invalid, counts |-> t.counts, sample |-> t.sample]
      /\ t.total \in Nat /\ t.invalid \in Nat /\ t.counts \in [Codes -> Nat]
      /\ t.sample \in Seq(Nat \X Violation)
  BY DEF Tallies
<1>2. Opened(t, vs) = [t EXCEPT !.total = t.total + 1, !.invalid = inv]
  BY DEF Opened
<1>3. inv \in Nat
  BY <1>1
<1> HIDE DEF inv
<1>4. Opened(t, vs) = [total |-> t.total + 1, invalid |-> inv, counts |-> t.counts,
                       sample |-> t.sample]
  BY <1>1, <1>2
<1>5. Opened(t, vs) \in Tallies
  BY <1>1, <1>3, <1>4 DEF Tallies
<1> QED BY <1>4, <1>5 DEF inv

LEMMA AfterNone ==
    ASSUME NEW t \in Tallies, NEW index, NEW vs, Len(t.sample) <= SampleLimit
    PROVE  After(t, index, vs, 0) = t
<1> DEFINE none == After(t, index, vs, 0)
           l == Len(t.sample)
<1>0. SampleLimit \in Nat
  BY IntakeAssumption
<1>1. t.sample \in Seq(Nat \X Violation) /\ t.counts \in [Codes -> Nat] /\ l \in Nat
  BY DEF Tallies
<1>2. \A code : {n \in 1..0 : vs[n].code = code} = {}
  OBVIOUS
<1>3. Cardinality({}) = 0
  BY FS_EmptySet
<1>4. none.counts = [code \in Codes |-> t.counts[code] + 0]
  <2>1. none.counts = [code \in Codes |->
                t.counts[code] + Cardinality({n \in 1..0 : vs[n].code = code})]
    BY DEF After
  <2> QED BY <2>1, <1>2, <1>3
<1>5. none.counts = t.counts
  <2>1. \A code \in Codes : t.counts[code] + 0 = t.counts[code]
    BY <1>1
  <2> HIDE DEF none
  <2> QED BY <1>1, <1>4, <2>1
<1>6. Lesser(SampleLimit, l + 0) = l
  BY <1>0, <1>1 DEF Lesser
<1>7. none.sample = [k \in 1..l |-> t.sample[k]]
  <2>1. none.sample = [k \in 1..Lesser(SampleLimit, l + 0) |->
                        IF k <= l THEN t.sample[k] ELSE <<index, vs[k - l]>>]
    BY DEF After
  <2>2. none.sample = [k \in 1..l |-> IF k <= l THEN t.sample[k] ELSE <<index, vs[k - l]>>]
    BY <2>1, <1>6
  <2>3. \A k \in 1..l : k <= l
    OBVIOUS
  <2> HIDE DEF none, l
  <2> QED BY <2>2, <2>3
<1>8. none.sample = t.sample
  <2>1. t.sample = [k \in 1..l |-> t.sample[k]]
    <3> HIDE DEF none
    <3> QED BY <1>1
  <2> HIDE DEF none, l
  <2> QED BY <2>1, <1>7
<1>9. none = [total |-> t.total, invalid |-> t.invalid, counts |-> none.counts,
              sample |-> none.sample]
  BY DEF After
<1> HIDE DEF none
<1>10. none = t
  BY <1>5, <1>8, <1>9 DEF Tallies
<1> QED BY <1>10 DEF none

(* _Accumulator.add: the loop over the violations of one row, in closed form. *)
LEMMA CountRowIs ==
    ASSUME NEW t \in Tallies, NEW index \in Nat, NEW vs \in Seq(Violation),
           Len(t.sample) <= SampleLimit
    PROVE  /\ CountRow(t, index, vs) = After(Opened(t, vs), index, vs, Len(vs))
           /\ CountRow(t, index, vs) \in Tallies
<1> DEFINE n == Len(vs)
           base == Opened(t, vs)
           Step(g) == [s \in SUBSET (1..n) |->
                IF s = {} THEN base
                ELSE LET x == Max(s) IN CountViolation(g[s \ {x}], index, vs[x])]
           iter == CHOOSE g : g = Step(g)
           step == [p \in Tallies \X (1..n) |-> CountViolation(p[1], index, vs[p[2]])]
<1>1. n \in Nat /\ DOMAIN vs = 1..n /\ base \in Tallies /\ Len(base.sample) <= SampleLimit
  BY OpenedIs
<1>2. CountRow(t, index, vs) = iter[1..n]
  BY <1>1 DEF CountRow, FoldLeft, MapThenFoldSet, Opened
<1>3. IsStep(step, Tallies, n)
  <2>1. ASSUME NEW p \in Tallies \X (1..n) PROVE step[p] \in Tallies
    <3>1. p[1] \in Tallies /\ p[2] \in 1..n
      OBVIOUS
    <3>2. vs[p[2]] \in Violation
      BY <3>1
    <3>3. step[p] = CountViolation(p[1], index, vs[p[2]])
      OBVIOUS
    <3> HIDE DEF step
    <3> QED BY <3>1, <3>2, <3>3, CountViolationKeepsTallies
  <2> QED BY <2>1 DEF IsStep
<1>4. PICK h : IsLoop(h, base, step, Tallies, n)
  <2> HIDE DEF n, base, step, iter, Step
  <2> QED BY <1>1, <1>3, FoldExists
<1>5. ASSUME NEW s \in SUBSET (1..n), s # {} PROVE Max(s) \in s /\ \A k \in s : k <= Max(s)
  <2> HIDE DEF n
  <2> QED BY <1>1, <1>5, MaxIs
<1>6. h = Step(h)
  <2> USE <1>4 DEF IsLoop
  <2>1. ASSUME NEW s \in SUBSET (1..n) PROVE h[s] = Step(h)[s]
    <3>1. CASE s = {}
      BY <3>1, <1>4
    <3>2. CASE s # {}
      <4>1. Max(s) \in 1..n /\ s \ {Max(s)} \in SUBSET (1..n)
        BY <3>2, <1>5
      <4>2. h[s] = step[<<h[s \ {Max(s)}], Max(s)>>]
        BY <3>2, <1>4
      <4>3. h[s \ {Max(s)}] \in Tallies
        BY <4>1
      <4>4. <<h[s \ {Max(s)}], Max(s)>> \in Tallies \X (1..n)
        BY <4>1, <4>3
      <4>5. h[s] = CountViolation(h[s \ {Max(s)}], index, vs[Max(s)])
        BY <4>2, <4>4
      <4>6. Step(h)[s] = CountViolation(h[s \ {Max(s)}], index, vs[Max(s)])
        BY <3>2
      <4> QED BY <4>5, <4>6
    <3> QED BY <3>1, <3>2
  <2>2. Step(h) = [s \in SUBSET (1..n) |-> Step(h)[s]]
    OBVIOUS
  <2>3. h = [s \in SUBSET (1..n) |-> h[s]]
    OBVIOUS
  <2> HIDE DEF Step
  <2> QED BY <2>1, <2>2, <2>3
<1>7. iter = Step(iter)
  <2> HIDE DEF Step
  <2> QED BY <1>6
<1> HIDE DEF iter
<1>8. iter[{}] = base
  <2>1. {} \in SUBSET (1..n)
    OBVIOUS
  <2>2. Step(iter)[{}] = base
    BY <2>1
  <2> HIDE DEF Step
  <2> QED BY <2>2, <1>7
<1>9. ASSUME NEW m \in 1..n
      PROVE  iter[1..m] = CountViolation(iter[1..(m - 1)], index, vs[m])
  <2>1. 1..m \in SUBSET (1..n) /\ 1..m # {} /\ m \in 1..m /\ (1..m) \ {m} = 1..(m - 1)
    <3> HIDE DEF n, Step, step, base
    <3>1. m \in Nat /\ 1 <= m /\ m <= n
      BY <1>1
    <3>2. 1..m \in SUBSET (1..n)
      BY <3>1, <1>1
    <3>3. (1..m) \ {m} = 1..(m - 1)
      BY <3>1
    <3>4. m \in 1..m
      BY <3>1
    <3> QED BY <3>2, <3>3, <3>4
  <2>2. Max(1..m) = m
    <3>1. Max(1..m) \in 1..m /\ m <= Max(1..m)
      BY <2>1, <1>5
    <3> QED BY <3>1
  <2>3. Step(iter)[1..m] = CountViolation(iter[(1..m) \ {Max(1..m)}], index, vs[Max(1..m)])
    BY <2>1
  <2> HIDE DEF Step
  <2> QED BY <2>1, <2>2, <2>3, <1>7
<1> HIDE DEF Step, step, base
<1> DEFINE S == {k \in 0..n : iter[1..k] = After(base, index, vs, k)}
<1>10. 0 \in S
  <2>1. 1..0 = {}
    OBVIOUS
  <2> QED BY <2>1, <1>1, <1>8, AfterNone
<1>11. ASSUME NEW k \in 0..(n - 1), k \in S PROVE k + 1 \in S
  <2>1. k + 1 \in 1..n /\ (k + 1) - 1 = k /\ k + 1 \in 0..n
    BY <1>1
  <2>2. iter[1..(k + 1)] = CountViolation(iter[1..k], index, vs[k + 1])
    BY <2>1, <1>9
  <2>3. After(base, index, vs, k + 1) = CountViolation(After(base, index, vs, k), index, vs[k + 1])
    BY <2>1, <1>1, AfterGoesOn
  <2> QED BY <2>1, <2>2, <2>3, <1>11
<1>12. n \in S
  <2>1. \A k \in 0..n : k \in S
    <3> HIDE DEF S, n
    <3> QED BY <1>1, <1>10, <1>11, UpTo
  <2>2. n \in 0..n
    BY <1>1
  <2> HIDE DEF S
  <2> QED BY <2>1, <2>2
<1>13. CountRow(t, index, vs) = After(base, index, vs, n)
  BY <1>2, <1>12
<1>14. After(base, index, vs, n) \in Tallies
  <2>1. CASE n = 0
    BY <2>1, <1>1, AfterNone
  <2>2. CASE n # 0
    <3>1. n \in 1..Len(vs)
      BY <2>2, <1>1
    <3>2. After(base, index, vs, n - 1) \in Tallies
      BY <3>1, <1>1, AfterGoesOn
    <3>3. After(base, index, vs, n) = CountViolation(After(base, index, vs, n - 1), index, vs[n])
      BY <3>1, <1>1, AfterGoesOn
    <3>4. vs[n] \in Violation
      BY <3>1
    <3> QED BY <3>2, <3>3, <3>4, CountViolationKeepsTallies
  <2> QED BY <2>1, <2>2
<1> QED BY <1>13, <1>14 DEF base

-----------------------------------------------------------------------------
(* The violations of a row.                                                *)

LEMMA FieldsAre ==
    /\ Len(FieldOrder) = 13 /\ DOMAIN FieldOrder = 1..13
    /\ \A i \in 1..13 : FieldOrder[i] \in ToSet(FieldOrder)
BY DEF FieldOrder, ToSet

(* The first code of a message is one of its codes. *)
LEMMA CodeInIs ==
    ASSUME NEW mentioned, \E i \in 1..5 : MessageCodes[i] \in mentioned
    PROVE  CodeIn(mentioned) \in Codes
<1> DEFINE S == {i \in 1..5 : MessageCodes[i] \in mentioned}
           IsFirst(i) == \A j \in S : i <= j
<1>1. DOMAIN MessageCodes = 1..5
  BY DEF MessageCodes
<1>2. \E i \in S : IsFirst(i)
  <2>1. 1..5 = {1, 2, 3, 4, 5}
    OBVIOUS
  <2>2. CASE 1 \in S
    BY <2>2
  <2>3. CASE 1 \notin S /\ 2 \in S
    BY <2>1, <2>3
  <2>4. CASE 1 \notin S /\ 2 \notin S /\ 3 \in S
    BY <2>1, <2>4
  <2>5. CASE 1 \notin S /\ 2 \notin S /\ 3 \notin S /\ 4 \in S
    BY <2>1, <2>5
  <2>6. CASE 1 \notin S /\ 2 \notin S /\ 3 \notin S /\ 4 \notin S /\ 5 \in S
    BY <2>1, <2>6
  <2>7. \E i \in {1, 2, 3, 4, 5} : i \in S
    BY <2>1
  <2> QED BY <2>2, <2>3, <2>4, <2>5, <2>6, <2>7
<1> DEFINE i == CHOOSE k \in S : IsFirst(k)
<1>3. i \in 1..5
  BY <1>2
<1>4. CodeIn(mentioned) = MessageCodes[i]
  BY <1>1 DEF CodeIn, Min
<1>5. \A k \in 1..5 : MessageCodes[k] \in Codes
  BY DEF MessageCodes, Codes
<1> QED BY <1>3, <1>4, <1>5

(* Whatever a row holds, each field is fine or has a code. *)
LEMMA FieldCodesAre ==
    ASSUME NEW row, NEW f
    PROVE  FieldCode(row, f) \in Codes \cup {Fine}
<1>1. CodeIn({IF row[f].zone = "naive" THEN "naive_timestamp" ELSE "non_utc_timestamp"}) \in Codes
  <2>1. MessageCodes[1] = "naive_timestamp" /\ MessageCodes[2] = "non_utc_timestamp"
    BY DEF MessageCodes
  <2> QED BY <2>1, CodeInIs
<1>2. CodeIn({"bad_ingest_run_id", row[f].spelling}) \in Codes
  <2>1. MessageCodes[5] = "bad_ingest_run_id"
    BY DEF MessageCodes
  <2> QED BY <2>1, CodeInIs
<1>3. {"missing_required", "wrong_type", "bad_enum", "bad_iata", "bad_route_key",
       "nonpositive_amount", "out_of_range"} \subseteq Codes
  BY DEF Codes
<1> QED BY <1>1, <1>2, <1>3 DEF FieldCode

LEMMA FineIsNoCode == Fine \notin Codes
BY DEF Fine, Codes

(* The n-th smallest of a set of positions. *)
LEMMA NthExists ==
    ASSUME NEW m \in Nat, NEW S \in SUBSET (1..m), NEW n \in 1..Cardinality(S)
    PROVE  \E i \in S : Cardinality({j \in S : j < i}) = n - 1
<1> DEFINE Below(k) == {j \in S : j <= k}
           U == {k \in 0..m : Cardinality(Below(k)) < n}
<1>0. \A j \in S : j \in Nat /\ 1 <= j /\ j <= m
  OBVIOUS
<1>1. ASSUME NEW k \in 0..m PROVE IsFiniteSet(Below(k)) /\ Cardinality(Below(k)) \in Nat
  <2>1. IsFiniteSet(1..m)
    BY FS_Interval
  <2>2. IsFiniteSet(S)
    BY <2>1, FS_Subset
  <2>3. IsFiniteSet(Below(k))
    BY <2>2, FS_Subset
  <2> QED BY <2>3, FS_CardinalityType
<1>2. 0 \in U
  <2>1. Below(0) = {}
    <3>1. \A j \in S : ~ (j <= 0)
      BY <1>0
    <3> QED BY <3>1
  <2>2. Cardinality(Below(0)) = 0
    BY <2>1, FS_EmptySet
  <2>3. 0 < n
    OBVIOUS
  <2> HIDE DEF Below
  <2> QED BY <2>2, <2>3
<1>3. m \notin U
  <2>1. Below(m) = S
    BY <1>0
  <2>2. Cardinality(S) \in Nat
    BY <1>1, <2>1
  <2> HIDE DEF Below
  <2> QED BY <2>1, <2>2
<1>4. PICK k \in 0..(m - 1) : k \in U /\ k + 1 \notin U
  <2>1. SUFFICES ASSUME \A k \in 0..(m - 1) : k \in U => k + 1 \in U PROVE FALSE
    OBVIOUS
  <2>2. m \in 0..m
    OBVIOUS
  <2> HIDE DEF U
  <2>3. \A k \in 0..m : k \in U
    BY <1>2, <2>1, UpTo
  <2> QED BY <2>2, <2>3, <1>3
<1>5. k + 1 \in 0..m /\ k \in 0..m /\ k \in Nat
  OBVIOUS
<1>12. \A j \in S : (j <= k + 1 <=> j <= k \/ j = k + 1) /\ (j < k + 1 <=> j <= k) /\ ~ (k + 1 <= k)
  <2> HIDE DEF U, Below
  <2> QED BY <1>0, <1>5
<1>6. Cardinality(Below(k)) < n /\ ~ (Cardinality(Below(k + 1)) < n)
  BY <1>4, <1>5
<1>7. k + 1 \in S
  <2>1. SUFFICES ASSUME k + 1 \notin S PROVE FALSE
    OBVIOUS
  <2>2. Below(k + 1) = Below(k)
    BY <2>1, <1>12
  <2> HIDE DEF Below
  <2> QED BY <2>2, <1>6
<1>8. Below(k + 1) = Below(k) \cup {k + 1} /\ k + 1 \notin Below(k)
  BY <1>12, <1>7
<1>9. Cardinality(Below(k + 1)) = Cardinality(Below(k)) + 1
  <2>1. IsFiniteSet(Below(k))
    BY <1>1, <1>5
  <2> HIDE DEF Below
  <2> QED BY <2>1, <1>8, FS_AddElement
<1>10. Cardinality(Below(k)) = n - 1
  <2>1. Cardinality(Below(k)) \in Nat
    BY <1>1, <1>5
  <2> HIDE DEF Below
  <2> QED BY <2>1, <1>6, <1>9
<1>11. {j \in S : j < k + 1} = Below(k)
  BY <1>12
<1> QED BY <1>7, <1>10, <1>11

(* model_validate reports the broken fields: none iff every field is fine. *)
LEMMA FieldViolationsAre ==
    ASSUME NEW row
    PROVE  /\ FieldViolations(row) \in Seq(Violation)
           /\ Len(FieldViolations(row)) <= 13
           /\ FieldViolations(row) = << >>
                <=> \A f \in ToSet(FieldOrder) : FieldCode(row, f) = Fine
<1> DEFINE broken == {i \in 1..13 : FieldCode(row, FieldOrder[i]) # Fine}
           c == Cardinality(broken)
           Pos(n) == CHOOSE i \in broken : Cardinality({j \in broken : j < i}) = n - 1
           Entry(n) == [field |-> FieldOrder[Pos(n)], code |-> FieldCode(row, FieldOrder[Pos(n)])]
<1>1. FieldViolations(row) = [n \in 1..c |-> Entry(n)]
  BY FieldsAre DEF FieldViolations
<1>2. IsFiniteSet(broken) /\ c \in Nat /\ c <= 13
  <2>1. IsFiniteSet(1..13) /\ Cardinality(1..13) = 13
    <3>1. 1 \in Int /\ 13 \in Int /\ ~ (1 > 13) /\ 13 - 1 + 1 = 13
      OBVIOUS
    <3> QED BY <3>1, FS_Interval, Zenon
  <2>2. broken \subseteq 1..13
    OBVIOUS
  <2> HIDE DEF broken
  <2> QED BY <2>1, <2>2, FS_Subset, FS_CardinalityType
<1>3. ASSUME NEW n \in 1..c PROVE Entry(n) \in Violation
  <2>1. \E i \in broken : Cardinality({j \in broken : j < i}) = n - 1
    <3>1. broken \in SUBSET (1..13) /\ 13 \in Nat
      OBVIOUS
    <3> HIDE DEF broken
    <3> QED BY <3>1, NthExists
  <2>2. Pos(n) \in broken
    <3> HIDE DEF broken
    <3> QED BY <2>1
  <2> HIDE DEF Pos
  <2>3. Pos(n) \in 1..13 /\ FieldCode(row, FieldOrder[Pos(n)]) # Fine
    BY <2>2
  <2>4. FieldOrder[Pos(n)] \in ToSet(FieldOrder)
    BY <2>3, FieldsAre
  <2>5. FieldCode(row, FieldOrder[Pos(n)]) \in Codes
    BY <2>3, FieldCodesAre
  <2> QED BY <2>4, <2>5 DEF Violation
<1>4. FieldViolations(row) \in Seq(Violation) /\ Len(FieldViolations(row)) = c
  <2> HIDE DEF Entry, c, Violation
  <2> QED BY <1>1, <1>2, <1>3
<1>5. FieldViolations(row) = << >> <=> c = 0
  BY <1>4, <1>2
<1>6. c = 0 <=> broken = {}
  <2> HIDE DEF broken
  <2> QED BY <1>2, FS_EmptySet
<1>7. broken = {} <=> \A f \in ToSet(FieldOrder) : FieldCode(row, f) = Fine
  <2>1. ToSet(FieldOrder) = {FieldOrder[i] : i \in 1..13}
    BY FieldsAre DEF ToSet
  <2> QED BY <2>1
<1> QED BY <1>2, <1>4, <1>5, <1>6, <1>7

LEMMA ViolationsAre ==
    ASSUME NEW row
    PROVE  /\ Violations(row) \in Seq(Violation)
           /\ Len(Violations(row)) <= 13
<1> DEFINE built == Canonical(row)
<1>1. \A field \in ToSet(FieldOrder), code \in Codes : [field |-> field, code |-> code] \in Violation
  BY DEF Violation
<1>2. /\ {"route_key", "return_date", "observation_id", "schema_version"} \subseteq ToSet(FieldOrder)
      /\ {"bad_route_key", "return_date_mismatch", "observation_id_mismatch",
          "bad_schema_version"} \subseteq Codes
  <2>1. FieldOrder[6] = "route_key" /\ FieldOrder[7] = "return_date"
        /\ FieldOrder[1] = "observation_id" /\ FieldOrder[13] = "schema_version"
    BY DEF FieldOrder
  <2>2. {"bad_route_key", "return_date_mismatch", "observation_id_mismatch",
          "bad_schema_version"} \subseteq Codes
    BY DEF Codes
  <2> QED BY <2>1, <2>2, FieldsAre
<1>3. ASSUME NEW v \in Violation PROVE << v >> \in Seq(Violation) /\ Len(<< v >>) = 1
  <2> HIDE DEF Violation
  <2> QED OBVIOUS
<1>4. << >> \in Seq(Violation) /\ Len(<< >>) = 0
  OBVIOUS
<1>5. ModelViolations(built) \in Seq(Violation) /\ Len(ModelViolations(built)) <= 1
  <2> DEFINE v1 == [field |-> "route_key", code |-> "bad_route_key"]
             v2 == [field |-> "return_date", code |-> "return_date_mismatch"]
  <2>1. v1 \in Violation /\ v2 \in Violation
    BY <1>1, <1>2
  <2>2. ModelViolations(built) \in {<< v1 >>, << v2 >>, << >>}
    BY DEF ModelViolations
  <2> HIDE DEF v1, v2, built, Violation
  <2>3. CASE ModelViolations(built) = << v1 >>
    BY <2>1, <2>3, <1>3
  <2>4. CASE ModelViolations(built) = << v2 >>
    BY <2>1, <2>4, <1>3
  <2>5. CASE ModelViolations(built) = << >>
    BY <2>5, <1>4
  <2> QED BY <2>2, <2>3, <2>4, <2>5
<1>6. LogicalViolations(built) \in Seq(Violation) /\ Len(LogicalViolations(built)) <= 2
  <2> DEFINE v1 == [field |-> "observation_id", code |-> "observation_id_mismatch"]
             v2 == [field |-> "schema_version", code |-> "bad_schema_version"]
             p1 == IF built.observation_id = NaturalKey(built) THEN << >> ELSE << v1 >>
             p2 == IF built.schema_version = SchemaVersion THEN << >> ELSE << v2 >>
  <2>1. v1 \in Violation /\ v2 \in Violation
    BY <1>1, <1>2
  <2>2. p1 \in Seq(Violation) /\ Len(p1) <= 1
    <3> HIDE DEF v1, built
    <3> QED BY <2>1, <1>3, <1>4
  <2>3. p2 \in Seq(Violation) /\ Len(p2) <= 1
    <3> HIDE DEF v2, built
    <3> QED BY <2>1, <1>3, <1>4
  <2>4. LogicalViolations(built) = p1 \o p2
    BY DEF LogicalViolations
  <2> HIDE DEF p1, p2, built, Violation
  <2> QED BY <2>2, <2>3, <2>4
<1>7. Violations(row) \in {FieldViolations(row), ModelViolations(built), LogicalViolations(built)}
  BY DEF Violations
<1> HIDE DEF built
<1> QED BY <1>5, <1>6, <1>7, FieldViolationsAre

-----------------------------------------------------------------------------
(* What a report counts.                                                   *)

(* The places of the violations of the first i rows. *)
PlacesUpTo(rows, i) ==
    {p \in (1..i) \X (1..13) : p[2] \in DOMAIN Violations(rows[p[1]])}

At(rows, p) == Violations(rows[p[1]])[p[2]]

Before(places, p) == {q \in places : q[1] < p[1] \/ (q[1] = p[1] /\ q[2] < p[2])}

OfCode(rows, places, code) == {p \in places : At(rows, p).code = code}

InvalidUpTo(rows, i) == {j \in 1..i : Violations(rows[j]) # << >>}

(* What the tally says after the first i rows. *)
IsReportOf(rows, i, t) ==
    LET places == PlacesUpTo(rows, i) IN
      /\ t \in Tallies
      /\ t.total = i
      /\ t.invalid = Cardinality(InvalidUpTo(rows, i))
      /\ \A code \in Codes : t.counts[code] = Cardinality(OfCode(rows, places, code))
      /\ Len(t.sample) = Lesser(SampleLimit, Cardinality(places))
      /\ \A k \in DOMAIN t.sample : \E p \in places :
           /\ t.sample[k] = <<p[1], At(rows, p)>>
           /\ k = 1 + Cardinality(Before(places, p))

LEMMA CardinalityOfBoth ==
    ASSUME NEW A, NEW B, IsFiniteSet(A), IsFiniteSet(B), A \cap B = {}
    PROVE  /\ IsFiniteSet(A \cup B)
           /\ Cardinality(A \cup B) = Cardinality(A) + Cardinality(B)
<1>1. Cardinality(A) \in Nat /\ Cardinality(B) \in Nat
  BY FS_CardinalityType
<1>2. Cardinality(A \cap B) = 0
  BY FS_EmptySet
<1>3. /\ IsFiniteSet(A \cup B)
      /\ Cardinality(A \cup B) = Cardinality(A) + Cardinality(B) - Cardinality(A \cap B)
  BY FS_Union, Zenon
<1> QED BY <1>1, <1>2, <1>3

(* The places in one row. *)
InRow(i, T) == {<<i, n>> : n \in T}

LEMMA InRowCounts ==
    ASSUME NEW i, NEW T, IsFiniteSet(T)
    PROVE  /\ IsFiniteSet(InRow(i, T))
           /\ Cardinality(InRow(i, T)) = Cardinality(T)
<1> DEFINE f == [n \in T |-> <<i, n>>]
<1>1. f \in [T -> InRow(i, T)]
  BY DEF InRow
<1>2. \A a, b \in T : f[a] = f[b] => a = b
  OBVIOUS
<1>3. \A p \in InRow(i, T) : \E n \in T : f[n] = p
  BY DEF InRow
<1>4. f \in Bijection(T, InRow(i, T))
  BY <1>1, <1>2, <1>3 DEF Bijection, Injection, Surjection, IsInjective
<1>5. ExistsBijection(T, InRow(i, T))
  BY <1>4 DEF ExistsBijection
<1> QED BY <1>5, FS_Bijection

LEMMA PlacesGrow ==
    ASSUME NEW rows, NEW i \in Nat, i # 0
    PROVE  LET L == Len(Violations(rows[i])) IN
           /\ L \in Nat /\ L <= 13 /\ DOMAIN Violations(rows[i]) = 1..L
           /\ IsFiniteSet(PlacesUpTo(rows, i - 1)) /\ IsFiniteSet(1..L)
           /\ PlacesUpTo(rows, i) = PlacesUpTo(rows, i - 1) \cup InRow(i, 1..L)
           /\ \A p \in PlacesUpTo(rows, i - 1) :
                p = <<p[1], p[2]>> /\ p[1] \in 1..(i - 1) /\ p[2] \in 1..13
<1> DEFINE vs == Violations(rows[i])
           L == Len(vs)
           old == PlacesUpTo(rows, i - 1)
<1>1. L \in Nat /\ L <= 13 /\ DOMAIN vs = 1..L
  <2>1. vs \in Seq(Violation) /\ Len(vs) <= 13
    BY ViolationsAre
  <2> HIDE DEF vs, Violation
  <2> QED BY <2>1
<1>2. IsFiniteSet(1..L)
  <2>1. L \in Int /\ 1 \in Int
    BY <1>1
  <2> QED BY <2>1, FS_Interval, Zenon
<1>3. i - 1 \in Nat /\ i - 1 \in Int /\ 13 \in Int /\ 1 \in Int
  OBVIOUS
<1>4. IsFiniteSet(old)
  <2>1. IsFiniteSet(1..(i - 1)) /\ IsFiniteSet(1..13)
    BY <1>3, FS_Interval, Zenon
  <2>2. IsFiniteSet((1..(i - 1)) \X (1..13))
    BY <2>1, FS_Product
  <2>3. old \in SUBSET ((1..(i - 1)) \X (1..13))
    BY DEF PlacesUpTo
  <2> QED BY <2>2, <2>3, FS_Subset
<1>5. ASSUME NEW p \in old
      PROVE  p = <<p[1], p[2]>> /\ p[1] \in 1..(i - 1) /\ p[2] \in 1..13
  BY DEF PlacesUpTo
<1>6. PlacesUpTo(rows, i) \subseteq old \cup InRow(i, 1..L)
  <2> SUFFICES ASSUME NEW p \in PlacesUpTo(rows, i) PROVE p \in old \/ p \in InRow(i, 1..L)
    OBVIOUS
  <2>1. p = <<p[1], p[2]>> /\ p[1] \in 1..i /\ p[2] \in 1..13
        /\ p[2] \in DOMAIN Violations(rows[p[1]])
    BY DEF PlacesUpTo
  <2>2. CASE p[1] = i
    <3>1. p[2] \in 1..L
      <4> HIDE DEF L
      <4> QED BY <2>1, <2>2, <1>1
    <3> HIDE DEF L
    <3> QED BY <3>1, <2>1, <2>2 DEF InRow
  <2>3. CASE p[1] # i
    <3>1. p[1] \in 1..(i - 1)
      BY <2>1, <2>3
    <3> QED BY <3>1, <2>1 DEF PlacesUpTo
  <2> QED BY <2>2, <2>3
<1>7. old \subseteq PlacesUpTo(rows, i)
  <2> SUFFICES ASSUME NEW p \in old PROVE p \in PlacesUpTo(rows, i)
    OBVIOUS
  <2>1. p = <<p[1], p[2]>> /\ p[1] \in 1..i /\ p[2] \in 1..13
    BY <1>5
  <2>2. p[2] \in DOMAIN Violations(rows[p[1]])
    BY DEF PlacesUpTo
  <2> HIDE DEF old
  <2> QED BY <2>1, <2>2 DEF PlacesUpTo
<1>8. InRow(i, 1..L) \subseteq PlacesUpTo(rows, i)
  <2> SUFFICES ASSUME NEW n \in 1..L PROVE <<i, n>> \in PlacesUpTo(rows, i)
    BY DEF InRow
  <2> DEFINE p == <<i, n>>
  <2>1. i \in 1..i /\ n \in 1..13 /\ n \in DOMAIN vs
    <3> HIDE DEF L, vs
    <3> QED BY <1>1
  <2>2. p \in (1..i) \X (1..13) /\ p[1] = i /\ p[2] = n
    BY <2>1
  <2>3. p[2] \in DOMAIN Violations(rows[p[1]])
    BY <2>1, <2>2
  <2> HIDE DEF p
  <2>4. p \in PlacesUpTo(rows, i)
    BY <2>2, <2>3 DEF PlacesUpTo
  <2> QED BY <2>4 DEF p
<1> HIDE DEF old, L, vs
<1>9. PlacesUpTo(rows, i) = old \cup InRow(i, 1..L)
  BY <1>6, <1>7, <1>8
<1> QED BY <1>1, <1>2, <1>4, <1>5, <1>9 DEF old, L, vs

(* One row more. *)
LEMMA ReportGoesOn ==
    ASSUME NEW rows, NEW i \in Nat, i # 0, NEW t, IsReportOf(rows, i - 1, t)
    PROVE  IsReportOf(rows, i, CountRow(t, i, Violations(rows[i])))
<1> DEFINE vs == Violations(rows[i])
           L == Len(vs)
           old == PlacesUpTo(rows, i - 1)
           new == InRow(i, 1..L)
           places == PlacesUpTo(rows, i)
           base == Opened(t, vs)
           next == CountRow(t, i, vs)
           l == Len(t.sample)
           C == Cardinality(old)
<1>0. SampleLimit \in Nat
  BY IntakeAssumption
<1>1. /\ L \in Nat /\ L <= 13 /\ DOMAIN vs = 1..L
      /\ IsFiniteSet(old) /\ IsFiniteSet(1..L)
      /\ places = old \cup new
      /\ \A p \in old : p = <<p[1], p[2]>> /\ p[1] \in 1..(i - 1) /\ p[2] \in 1..13
  BY PlacesGrow
<1>2. vs \in Seq(Violation)
  BY ViolationsAre
<1>3. /\ t \in Tallies /\ t.total = i - 1
      /\ t.invalid = Cardinality(InvalidUpTo(rows, i - 1))
      /\ \A code \in Codes : t.counts[code] = Cardinality(OfCode(rows, old, code))
      /\ l = Lesser(SampleLimit, C)
      /\ \A k \in DOMAIN t.sample : \E p \in old :
           /\ t.sample[k] = <<p[1], At(rows, p)>>
           /\ k = 1 + Cardinality(Before(old, p))
  BY DEF IsReportOf
<1>4. C \in Nat
  BY <1>1, FS_CardinalityType
<1>5. l \in Nat /\ l <= SampleLimit /\ DOMAIN t.sample = 1..l
  BY <1>0, <1>3, <1>4 DEF Lesser, Tallies
<1>6. next = After(base, i, vs, L) /\ next \in Tallies
  BY <1>2, <1>3, <1>5, CountRowIs
<1>7. /\ base \in Tallies /\ base.total = t.total + 1
      /\ base.invalid = IF vs = << >> THEN t.invalid ELSE t.invalid + 1
      /\ base.counts = t.counts /\ base.sample = t.sample
  BY <1>3, OpenedIs
<1> DEFINE Entry(k) == IF k <= l THEN t.sample[k] ELSE <<i, vs[k - l]>>
<1>8. /\ next.total = t.total + 1 /\ next.invalid = base.invalid
      /\ next.counts = [code \in Codes |->
            t.counts[code] + Cardinality({n \in 1..L : vs[n].code = code})]
      /\ next.sample = [k \in 1..Lesser(SampleLimit, l + L) |-> Entry(k)]
  <2> HIDE DEF base, next, L, vs
  <2> QED BY <1>6, <1>7 DEF After
<1>9. ASSUME NEW n \in 1..L
      PROVE  /\ <<i, n>> \in new /\ <<i, n>>[1] = i /\ <<i, n>>[2] = n
             /\ At(rows, <<i, n>>) = vs[n]
  BY DEF InRow, At
<1>10. \A p \in new : p = <<i, p[2]>> /\ p[1] = i /\ p[2] \in 1..L
  BY DEF InRow
<1>11. ASSUME NEW T \in SUBSET (1..L)
       PROVE  /\ IsFiniteSet(T) /\ IsFiniteSet(InRow(i, T))
              /\ Cardinality(InRow(i, T)) = Cardinality(T)
  <2>1. IsFiniteSet(T)
    <3> HIDE DEF L
    <3> QED BY <1>1, FS_Subset
  <2> QED BY <2>1, InRowCounts
<1>12. ASSUME NEW S \in SUBSET old, NEW T \in SUBSET (1..L)
       PROVE  Cardinality(S \cup InRow(i, T)) = Cardinality(S) + Cardinality(T)
  <2>1. IsFiniteSet(S)
    <3> HIDE DEF old
    <3> QED BY <1>1, FS_Subset
  <2>2. S \cap InRow(i, T) = {}
    <3>1. \A p \in S : p[1] \in 1..(i - 1)
      BY <1>1
    <3>2. \A p \in S : p[1] # i
      <4> HIDE DEF old
      <4> QED BY <3>1
    <3>3. \A p \in InRow(i, T) : p[1] = i
      BY DEF InRow
    <3> QED BY <3>2, <3>3
  <2> QED BY <2>1, <2>2, <1>11, CardinalityOfBoth
<1> HIDE DEF L, vs, old, new, places, base, next, l, C, Entry
<1>13. next.total = i
  BY <1>3, <1>8
<1>14. next.invalid = Cardinality(InvalidUpTo(rows, i))
  <2> DEFINE was == InvalidUpTo(rows, i - 1)
  <2>1. IsFiniteSet(was)
    <3>1. i - 1 \in Int /\ 1 \in Int
      OBVIOUS
    <3>2. IsFiniteSet(1..(i - 1))
      BY <3>1, FS_Interval, Zenon
    <3>3. was \in SUBSET (1..(i - 1))
      BY DEF InvalidUpTo
    <3> QED BY <3>2, <3>3, FS_Subset
  <2>2. i \notin was
    BY DEF InvalidUpTo
  <2>3. CASE vs = << >>
    <3>1. InvalidUpTo(rows, i) = was
      BY <2>3 DEF InvalidUpTo, vs
    <3> QED BY <3>1, <2>3, <1>3, <1>7, <1>8
  <2>4. CASE vs # << >>
    <3>1. InvalidUpTo(rows, i) = was \cup {i}
      BY <2>4 DEF InvalidUpTo, vs
    <3> HIDE DEF was
    <3>2. Cardinality(was \cup {i}) = Cardinality(was) + 1
      BY <2>1, <2>2, FS_AddElement
    <3> QED BY <3>1, <3>2, <2>4, <1>3, <1>7, <1>8 DEF was
  <2> QED BY <2>3, <2>4
<1>15. ASSUME NEW code \in Codes
       PROVE  next.counts[code] = Cardinality(OfCode(rows, places, code))
  <2> DEFINE T == {n \in 1..L : vs[n].code = code}
             S == OfCode(rows, old, code)
  <2>1. OfCode(rows, places, code) = S \cup InRow(i, T)
    <3>1. OfCode(rows, places, code) = S \cup OfCode(rows, new, code)
      BY <1>1 DEF OfCode
    <3>2. OfCode(rows, new, code) = InRow(i, T)
      <4>1. ASSUME NEW p \in OfCode(rows, new, code) PROVE p \in InRow(i, T)
        <5>1. p \in new /\ At(rows, p).code = code
          BY DEF OfCode
        <5>2. p = <<i, p[2]>> /\ p[2] \in 1..L
          BY <5>1, <1>10
        <5>3. vs[p[2]].code = code
          BY <5>1, <5>2, <1>9
        <5> QED BY <5>2, <5>3 DEF InRow
      <4>2. ASSUME NEW n \in T PROVE <<i, n>> \in OfCode(rows, new, code)
        <5>1. n \in 1..L /\ vs[n].code = code
          OBVIOUS
        <5>2. <<i, n>> \in new /\ At(rows, <<i, n>>) = vs[n]
          BY <5>1, <1>9
        <5> QED BY <5>1, <5>2 DEF OfCode
      <4> HIDE DEF T
      <4>3. \A p \in InRow(i, T) : p \in OfCode(rows, new, code)
        BY <4>2 DEF InRow
      <4> QED BY <4>1, <4>3
    <3> QED BY <3>1, <3>2
  <2>2. S \in SUBSET old /\ T \in SUBSET (1..L)
    BY DEF OfCode
  <2>3. Cardinality(S \cup InRow(i, T)) = Cardinality(S) + Cardinality(T)
    <3> HIDE DEF S, T
    <3> QED BY <2>2, <1>12
  <2>4. next.counts[code] = t.counts[code] + Cardinality(T)
    BY <1>8
  <2>5. t.counts[code] = Cardinality(S)
    BY <1>3
  <2> HIDE DEF S, T
  <2> QED BY <2>1, <2>3, <2>4, <2>5
<1>16. Cardinality(places) = C + L
  <2>1. old \in SUBSET old /\ 1..L \in SUBSET (1..L)
    OBVIOUS
  <2>2. Cardinality(old \cup InRow(i, 1..L)) = Cardinality(old) + Cardinality(1..L)
    BY <2>1, <1>12
  <2>3. Cardinality(1..L) = L
    <3>1. L \in Int /\ 1 \in Int /\ (IF 1 > L THEN 0 ELSE L - 1 + 1) = L
      BY <1>1
    <3> QED BY <3>1, FS_Interval, Zenon
  <2> QED BY <2>2, <2>3, <1>1 DEF C, new
<1>17. Lesser(SampleLimit, l + L) = Lesser(SampleLimit, C + L)
  BY <1>0, <1>1, <1>3, <1>4 DEF Lesser
<1>18. Len(next.sample) = Lesser(SampleLimit, Cardinality(places))
  <2>1. Lesser(SampleLimit, l + L) \in Nat
    BY <1>0, <1>1, <1>5 DEF Lesser
  <2> QED BY <2>1, <1>8, <1>16, <1>17
<1>19. ASSUME NEW k \in DOMAIN next.sample
       PROVE  \E p \in places : /\ next.sample[k] = <<p[1], At(rows, p)>>
                                /\ k = 1 + Cardinality(Before(places, p))
  <2>1. k \in 1..Lesser(SampleLimit, l + L) /\ next.sample[k] = Entry(k)
    BY <1>8
  <2>2. CASE k <= l
    <3>1. k \in 1..l
      BY <2>1, <2>2, <1>0, <1>1, <1>5 DEF Lesser
    <3>2. PICK p \in old : t.sample[k] = <<p[1], At(rows, p)>> /\ k = 1 + Cardinality(Before(old, p))
      BY <3>1, <1>3, <1>5
    <3>3. Before(places, p) = Before(old, p)
      <4>1. p[1] \in 1..(i - 1)
        BY <1>1
      <4>2. ASSUME NEW q \in new PROVE ~ (q[1] < p[1] \/ (q[1] = p[1] /\ q[2] < p[2]))
        <5>1. q[1] = i
          BY <1>10
        <5> QED BY <4>1, <5>1
      <4> QED BY <4>2, <1>1 DEF Before
    <3>4. next.sample[k] = t.sample[k]
      BY <2>1, <2>2 DEF Entry
    <3> QED BY <3>2, <3>3, <3>4, <1>1
  <2>3. CASE ~ (k <= l)
    <3> DEFINE n == k - l
               p == <<i, n>>
    <3>1. n \in 1..L /\ l = C /\ k \in Nat
      BY <2>1, <2>3, <1>0, <1>1, <1>3, <1>4, <1>5 DEF Lesser
    <3>2. next.sample[k] = <<i, vs[n]>>
      BY <2>1, <2>3 DEF Entry
    <3> HIDE DEF n
    <3>3. p \in new /\ p[1] = i /\ p[2] = n /\ At(rows, p) = vs[n]
      BY <3>1, <1>9
    <3>4. Before(places, p) = old \cup InRow(i, 1..(n - 1))
      <4> HIDE DEF p
      <4>1. ASSUME NEW q \in old PROVE q \in Before(places, p)
        <5>1. q[1] < i
          BY <1>1
        <5> QED BY <5>1, <3>3, <1>1 DEF Before
      <4>2. ASSUME NEW j \in 1..(n - 1) PROVE <<i, j>> \in Before(places, p)
        <5>1. j \in 1..L /\ j < n
          BY <3>1, <1>1
        <5>2. <<i, j>> \in new /\ <<i, j>>[1] = i /\ <<i, j>>[2] = j
          BY <5>1, <1>9
        <5> QED BY <5>1, <5>2, <3>3, <1>1 DEF Before
      <4>3. ASSUME NEW q \in Before(places, p), q \notin old PROVE q \in InRow(i, 1..(n - 1))
        <5>1. q \in new /\ (q[1] < i \/ (q[1] = i /\ q[2] < n))
          BY <4>3, <3>3, <1>1 DEF Before
        <5>2. q = <<i, q[2]>> /\ q[1] = i /\ q[2] \in 1..L
          BY <5>1, <1>10
        <5>3. q[2] \in 1..(n - 1)
          BY <5>1, <5>2, <3>1, <1>1
        <5> QED BY <5>2, <5>3 DEF InRow
      <4>4. \A q \in InRow(i, 1..(n - 1)) : q \in Before(places, p)
        BY <4>2 DEF InRow
      <4> QED BY <4>1, <4>3, <4>4
    <3>5. 1..(n - 1) \in SUBSET (1..L) /\ old \in SUBSET old
      BY <3>1, <1>1
    <3>6. Cardinality(1..(n - 1)) = n - 1
      <4>1. n - 1 \in Int /\ 1 \in Int /\ (IF 1 > n - 1 THEN 0 ELSE n - 1 - 1 + 1) = n - 1
        BY <3>1, <1>1
      <4> QED BY <4>1, FS_Interval, Zenon
    <3>7. Cardinality(Before(places, p)) = C + (n - 1)
      BY <3>4, <3>5, <3>6, <1>12 DEF C
    <3>8. k = 1 + Cardinality(Before(places, p))
      <4> HIDE DEF p
      <4> QED BY <3>7, <3>1, <1>1, <1>4 DEF n
    <3>9. p \in places
      BY <3>3, <1>1
    <3> HIDE DEF p
    <3> QED BY <3>2, <3>3, <3>8, <3>9
  <2> QED BY <2>2, <2>3
<1>20. IsReportOf(rows, i, next)
  BY <1>6, <1>13, <1>14, <1>15, <1>18, <1>19 DEF IsReportOf, places
<1> QED BY <1>20 DEF next, vs

Fitting == {t \in Tallies : Len(t.sample) <= SampleLimit}

LEMMA CountRowFits ==
    ASSUME NEW t \in Fitting, NEW i \in Nat, NEW row
    PROVE  CountRow(t, i, Violations(row)) \in Fitting
<1> DEFINE vs == Violations(row)
           next == CountRow(t, i, vs)
           base == Opened(t, vs)
           m == Lesser(SampleLimit, Len(base.sample) + Len(vs))
<1>1. t \in Tallies /\ Len(t.sample) <= SampleLimit
  BY DEF Fitting
<1>2. vs \in Seq(Violation)
  BY ViolationsAre
<1>3. next \in Tallies /\ next = After(base, i, vs, Len(vs))
  BY <1>1, <1>2, CountRowIs
<1>4. DOMAIN next.sample = 1..m
  <2> HIDE DEF next, base, vs
  <2> QED BY <1>3 DEF After, m
<1>5. SampleLimit \in Nat /\ Len(base.sample) \in Nat /\ Len(vs) \in Nat
  <2>1. base \in Tallies
    BY <1>1, OpenedIs
  <2>2. base.sample \in Seq(Nat \X Violation)
    BY <2>1 DEF Tallies
  <2> HIDE DEF vs, base, Violation
  <2> QED BY <1>2, <2>2, IntakeAssumption
<1>6. m \in Nat /\ m <= SampleLimit
  <2> HIDE DEF vs, base
  <2> QED BY <1>5 DEF Lesser
<1>7. next.sample \in Seq(Nat \X Violation)
  BY <1>3 DEF Tallies
<1>8. Len(next.sample) = m
  <2> HIDE DEF next, m, Violation
  <2> QED BY <1>4, <1>6, <1>7
<1> HIDE DEF next, m
<1>9. next \in Fitting
  BY <1>3, <1>6, <1>8 DEF Fitting
<1> QED BY <1>9 DEF next

(* An empty report. *)
LEMMA NothingReported ==
    ASSUME NEW rows
    PROVE  NoTally \in Fitting /\ IsReportOf(rows, 0, NoTally)
<1>0. SampleLimit \in Nat
  BY IntakeAssumption
<1>1. PlacesUpTo(rows, 0) = {} /\ InvalidUpTo(rows, 0) = {}
  BY DEF PlacesUpTo, InvalidUpTo
<1>2. /\ NoTally.total = 0 /\ NoTally.invalid = 0 /\ NoTally.sample = << >>
      /\ NoTally.counts = [code \in Codes |-> 0]
      /\ NoTally = [total |-> NoTally.total, invalid |-> NoTally.invalid,
                    counts |-> NoTally.counts, sample |-> NoTally.sample]
  BY DEF NoTally
<1>3. Len(NoTally.sample) = 0 /\ NoTally.sample \in Seq(Nat \X Violation)
      /\ DOMAIN NoTally.sample = {}
  BY <1>2
<1>10. NoTally.counts \in [Codes -> Nat]
  BY <1>2
<1>4. NoTally \in Tallies
  <2>1. /\ NoTally.total \in Nat /\ NoTally.invalid \in Nat
    BY <1>2
  <2> HIDE DEF Violation, Codes
  <2> QED BY <2>1, <1>2, <1>3, <1>10 DEF Tallies
<1>5. Cardinality({}) = 0
  BY FS_EmptySet
<1>6. \A code : OfCode(rows, {}, code) = {}
  BY DEF OfCode
<1>7. Lesser(SampleLimit, 0) = 0
  BY <1>0 DEF Lesser
<1>8. NoTally \in Fitting
  BY <1>0, <1>3, <1>4 DEF Fitting
<1>9. IsReportOf(rows, 0, NoTally)
  BY <1>1, <1>2, <1>3, <1>4, <1>5, <1>6, <1>7 DEF IsReportOf
<1> QED BY <1>8, <1>9

(* validate_batch: the loop over the rows. *)
LEMMA ReportIs ==
    ASSUME NEW n \in Nat, NEW rows, DOMAIN rows = 1..n
    PROVE  IsReportOf(rows, n, Report(rows))
<1> DEFINE Step(g) == [s \in SUBSET (1..n) |->
                IF s = {} THEN NoTally
                ELSE LET x == Max(s) IN CountRow(g[s \ {x}], x, Violations(rows[x]))]
           iter == CHOOSE g : g = Step(g)
           step == [p \in Fitting \X (1..n) |-> CountRow(p[1], p[2], Violations(rows[p[2]]))]
<1>1. \A s \in SUBSET (1..n) : s # {} => Max(s) \in 1..n
  <2> SUFFICES ASSUME NEW s \in SUBSET (1..n), s # {} PROVE Max(s) \in 1..n
    OBVIOUS
  <2>1. Max(s) \in s
    BY MaxIs
  <2> QED BY <2>1
<1>2. Report(rows) = iter[1..n]
  <2> DEFINE ids == [i \in DOMAIN rows |-> i]
             Loop(g) == [s \in SUBSET (1..n) |->
                IF s = {} THEN NoTally
                ELSE LET x == Max(s) IN CountRow(g[s \ {x}], ids[x], Violations(rows[ids[x]]))]
  <2>1. Report(rows) = (CHOOSE g : g = Loop(g))[1..n]
    BY DEF Report, FoldLeftDomain, FoldLeft, MapThenFoldSet
  <2>2. \A g : Loop(g) = Step(g)
    <3> TAKE g
    <3>1. ASSUME NEW s \in SUBSET (1..n) PROVE Loop(g)[s] = Step(g)[s]
      <4>1. CASE s = {}
        BY <4>1
      <4>2. CASE s # {}
        <5>1. Max(s) \in 1..n
          BY <4>2, <1>1
        <5>2. ids[Max(s)] = Max(s)
          BY <5>1
        <5>3. Loop(g)[s] = CountRow(g[s \ {Max(s)}], ids[Max(s)], Violations(rows[ids[Max(s)]]))
          BY <4>2
        <5>4. Step(g)[s] = CountRow(g[s \ {Max(s)}], Max(s), Violations(rows[Max(s)]))
          BY <4>2
        <5> QED BY <5>2, <5>3, <5>4
      <4> QED BY <4>1, <4>2
    <3>2. Loop(g) = [s \in SUBSET (1..n) |-> Loop(g)[s]] /\ Step(g) = [s \in SUBSET (1..n) |-> Step(g)[s]]
      OBVIOUS
    <3> HIDE DEF Loop, Step
    <3> QED BY <3>1, <3>2
  <2> HIDE DEF Loop, Step
  <2>3. (CHOOSE g : g = Loop(g)) = iter
    BY <2>2, Zenon
  <2> QED BY <2>1, <2>3
<1>3. IsStep(step, Fitting, n)
  <2>1. ASSUME NEW p \in Fitting \X (1..n) PROVE step[p] \in Fitting
    <3>1. p[1] \in Fitting /\ p[2] \in Nat
      OBVIOUS
    <3>2. step[p] = CountRow(p[1], p[2], Violations(rows[p[2]]))
      OBVIOUS
    <3> HIDE DEF step
    <3> QED BY <3>1, <3>2, CountRowFits
  <2> QED BY <2>1 DEF IsStep
<1>4. PICK h : IsLoop(h, NoTally, step, Fitting, n)
  <2> HIDE DEF iter, Step, step
  <2> QED BY <1>3, NothingReported, FoldExists
<1>5. h = Step(h)
  <2> USE <1>4 DEF IsLoop
  <2>1. ASSUME NEW s \in SUBSET (1..n) PROVE h[s] = Step(h)[s]
    <3>1. CASE s = {}
      BY <3>1
    <3>2. CASE s # {}
      <4>1. Max(s) \in 1..n /\ s \ {Max(s)} \in SUBSET (1..n)
        BY <3>2, <1>1
      <4>2. h[s] = step[<<h[s \ {Max(s)}], Max(s)>>]
        BY <3>2
      <4>3. h[s \ {Max(s)}] \in Fitting
        BY <4>1
      <4>4. <<h[s \ {Max(s)}], Max(s)>> \in Fitting \X (1..n)
        BY <4>1, <4>3
      <4>5. h[s] = CountRow(h[s \ {Max(s)}], Max(s), Violations(rows[Max(s)]))
        BY <4>2, <4>4
      <4>6. Step(h)[s] = CountRow(h[s \ {Max(s)}], Max(s), Violations(rows[Max(s)]))
        BY <3>2
      <4> QED BY <4>5, <4>6
    <3> QED BY <3>1, <3>2
  <2>2. Step(h) = [s \in SUBSET (1..n) |-> Step(h)[s]]
    OBVIOUS
  <2>3. h = [s \in SUBSET (1..n) |-> h[s]]
    OBVIOUS
  <2> HIDE DEF Step
  <2> QED BY <2>1, <2>2, <2>3
<1>6. iter = Step(iter)
  <2> HIDE DEF Step
  <2> QED BY <1>5
<1> HIDE DEF iter
<1>7. iter[{}] = NoTally
  <2>1. Step(iter)[{}] = NoTally
    OBVIOUS
  <2> HIDE DEF Step
  <2> QED BY <2>1, <1>6
<1>8. ASSUME NEW m \in 1..n
      PROVE  iter[1..m] = CountRow(iter[1..(m - 1)], m, Violations(rows[m]))
  <2>1. m \in Nat /\ 1 <= m /\ m <= n
    OBVIOUS
  <2>2. 1..m \in SUBSET (1..n) /\ m \in 1..m
    BY <2>1
  <2>3. (1..m) \ {m} = 1..(m - 1)
    BY <2>1
  <2>4. Max(1..m) = m
    <3>1. Max(1..m) \in 1..m /\ m <= Max(1..m)
      BY <2>2, MaxIs
    <3> QED BY <3>1, <2>1
  <2>5. Step(iter)[1..m] = CountRow(iter[(1..m) \ {Max(1..m)}], Max(1..m), Violations(rows[Max(1..m)]))
    BY <2>2
  <2> HIDE DEF Step
  <2> QED BY <2>3, <2>4, <2>5, <1>6
<1> HIDE DEF Step, step
<1> DEFINE S == {k \in 0..n : IsReportOf(rows, k, iter[1..k])}
<1>9. 0 \in S
  <2>1. 1..0 = {}
    OBVIOUS
  <2> QED BY <2>1, <1>7, NothingReported
<1>10. ASSUME NEW k \in 0..(n - 1), k \in S PROVE k + 1 \in S
  <2>1. k + 1 \in 1..n /\ (k + 1) - 1 = k /\ k + 1 \in 0..n /\ k + 1 \in Nat /\ k + 1 # 0
    OBVIOUS
  <2>2. iter[1..(k + 1)] = CountRow(iter[1..k], k + 1, Violations(rows[k + 1]))
    BY <2>1, <1>8
  <2>3. IsReportOf(rows, (k + 1) - 1, iter[1..k])
    BY <2>1, <1>10
  <2>4. IsReportOf(rows, k + 1, iter[1..(k + 1)])
    BY <2>1, <2>2, <2>3, ReportGoesOn
  <2> QED BY <2>1, <2>4
<1>11. n \in S
  <2>1. \A k \in 0..n : k \in S
    <3> HIDE DEF S
    <3> QED BY <1>9, <1>10, UpTo
  <2>2. n \in 0..n
    OBVIOUS
  <2> HIDE DEF S
  <2> QED BY <2>1, <2>2
<1> QED BY <1>2, <1>11

(* A report is ok iff every row is. *)
LEMMA OkMeansValid ==
    ASSUME NEW n \in Nat, NEW rows, DOMAIN rows = 1..n
    PROVE  Ok(Report(rows)) <=> \A i \in 1..n : Violations(rows[i]) = << >>
<1>1. Report(rows).invalid = Cardinality(InvalidUpTo(rows, n))
  BY ReportIs DEF IsReportOf
<1>2. IsFiniteSet(InvalidUpTo(rows, n))
  <2>1. n \in Int /\ 1 \in Int
    OBVIOUS
  <2>2. IsFiniteSet(1..n)
    BY <2>1, FS_Interval, Zenon
  <2>3. InvalidUpTo(rows, n) \in SUBSET (1..n)
    BY DEF InvalidUpTo
  <2> QED BY <2>2, <2>3, FS_Subset
<1>3. Ok(Report(rows)) <=> InvalidUpTo(rows, n) = {}
  BY <1>1, <1>2, FS_EmptySet DEF Ok
<1> QED BY <1>3 DEF InvalidUpTo

-----------------------------------------------------------------------------
(* What the fields hold.                                                   *)

Fields == ToSet(FieldOrder)

LEMMA FieldNames ==
    Fields = {"observation_id", "source", "fetched_at", "origin", "destination", "route_key",
              "return_date", "trip_type", "carrier_primary", "amount_minor", "data_quality",
              "ingest_run_id", "schema_version"}
<1>1. Fields = {FieldOrder[i] : i \in 1..13}
  BY FieldsAre DEF Fields, ToSet
<1>2. 1..13 = {1, 2, 3, 4, 5, 6, 7, 8, 9, 10, 11, 12, 13}
  OBVIOUS
<1>3. Fields = {FieldOrder[1], FieldOrder[2], FieldOrder[3], FieldOrder[4], FieldOrder[5],
                FieldOrder[6], FieldOrder[7], FieldOrder[8], FieldOrder[9], FieldOrder[10],
                FieldOrder[11], FieldOrder[12], FieldOrder[13]}
  BY <1>1, <1>2, Zenon
<1> QED BY <1>3 DEF FieldOrder

(* A record, as far as the annotations go. *)
IsRecord(r) ==
    /\ r = [f \in Fields |-> r[f]]
    /\ \A f \in Fields : IsTyped(f, r[f])

(* What model_validate makes of the value of one field. *)
Cleaned(f, v) ==
    IF f \in {"origin", "destination", "carrier_primary"} THEN Strip(v)
    ELSE IF f = "route_key" THEN StripRoute(v)
    ELSE IF f = "ingest_run_id" THEN [v EXCEPT !.spelling = "canonical"]
    ELSE v

LEMMA StripIs ==
    ASSUME NEW t, t = None \/ IsText(t)
    PROVE  /\ Strip(Strip(t)) = Strip(t)
           /\ IsText(t) => IsText(Strip(t))
           /\ Strip(t) = None \/ IsText(Strip(t))
           /\ t # None => Strip(t).core = t.core /\ Strip(t).pad = "none"
<1>1. CASE t = None
  BY <1>1 DEF Strip
<1>2. CASE t # None
  <2> DEFINE s == [t EXCEPT !.pad = "none"]
  <2>1. Strip(t) = s
    BY <1>2 DEF Strip
  <2>2. t \in [core : {t.core}, pad : {"none", "left", "right"}]
    BY <1>2 DEF IsText
  <2>3. s = [core |-> t.core, pad |-> "none"]
    BY <2>2
  <2> HIDE DEF s
  <2>4. IsText(s) /\ s.core = t.core /\ s.pad = "none"
    BY <2>3 DEF IsText
  <2>5. [s EXCEPT !.pad = "none"] = s
    BY <2>3
  <2>6. Strip(s) = s
    BY <2>5 DEF Strip
  <2> QED BY <2>1, <2>4, <2>6
<1> QED BY <1>1, <1>2

IsRoute(v) ==
    /\ v \in [from : {v.from}, to : {v.to}]
    /\ IsText(v.from) /\ IsText(v.to)

LEMMA StripRouteIs ==
    ASSUME NEW v, IsRoute(v)
    PROVE  /\ StripRoute(StripRoute(v)) = StripRoute(v)
           /\ IsRoute(StripRoute(v))
<1> DEFINE from == IF v.from.pad = "left" THEN Strip(v.from) ELSE v.from
           to == IF v.to.pad = "right" THEN Strip(v.to) ELSE v.to
           s == StripRoute(v)
<1>1. s = [from |-> from, to |-> to]
  BY DEF StripRoute
<1>2. IsText(from) /\ IsText(to)
  BY StripIs DEF IsRoute
<1>3. (IF from.pad = "left" THEN Strip(from) ELSE from) = from
  <2>1. CASE v.from.pad = "left"
    BY <2>1, StripIs DEF IsRoute
  <2>2. CASE v.from.pad # "left"
    BY <2>2
  <2> QED BY <2>1, <2>2
<1>4. (IF to.pad = "right" THEN Strip(to) ELSE to) = to
  <2>1. CASE v.to.pad = "right"
    BY <2>1, StripIs DEF IsRoute
  <2>2. CASE v.to.pad # "right"
    BY <2>2
  <2> QED BY <2>1, <2>2
<1> HIDE DEF from, to, s
<1>5. s.from = from /\ s.to = to
  BY <1>1
<1>6. StripRoute(s) = s
  BY <1>1, <1>3, <1>4, <1>5 DEF StripRoute
<1>7. IsRoute(s)
  BY <1>1, <1>2, <1>5 DEF IsRoute
<1> QED BY <1>6, <1>7 DEF s

IsRunId(v) == v \in [uuid : {v.uuid}, spelling : {v.spelling}]

(* Cleaning keeps the type of a field, and cleans what is clean no further. *)
LEMMA CleanedIs ==
    ASSUME NEW f \in Fields, NEW v, IsTyped(f, v)
    PROVE  IsTyped(f, Cleaned(f, v)) /\ Cleaned(f, Cleaned(f, v)) = Cleaned(f, v)
<1>1. CASE f \in {"origin", "destination"}
  <2>1. IsText(v)
    BY <1>1 DEF IsTyped
  <2>2. Cleaned(f, v) = Strip(v) /\ Cleaned(f, Strip(v)) = Strip(Strip(v))
    BY <1>1 DEF Cleaned
  <2>3. IsTyped(f, Strip(v)) = IsText(Strip(v))
    BY <1>1 DEF IsTyped
  <2> QED BY <2>1, <2>2, <2>3, StripIs
<1>2. CASE f = "carrier_primary"
  <2>1. v = None \/ IsText(v)
    BY <1>2 DEF IsTyped
  <2>2. Cleaned(f, v) = Strip(v) /\ Cleaned(f, Strip(v)) = Strip(Strip(v))
    BY <1>2 DEF Cleaned
  <2>3. Strip(v) = None \/ IsText(Strip(v)) => IsTyped(f, Strip(v))
    BY <1>2 DEF IsTyped
  <2> QED BY <2>1, <2>2, <2>3, StripIs
<1>3. CASE f = "route_key"
  <2>1. IsRoute(v)
    BY <1>3 DEF IsTyped, IsRoute
  <2>2. Cleaned(f, v) = StripRoute(v) /\ Cleaned(f, StripRoute(v)) = StripRoute(StripRoute(v))
    BY <1>3 DEF Cleaned
  <2>3. IsRoute(StripRoute(v)) => IsTyped(f, StripRoute(v))
    BY <1>3 DEF IsTyped, IsRoute
  <2> QED BY <2>1, <2>2, <2>3, StripRouteIs
<1>4. CASE f = "ingest_run_id"
  <2>1. IsRunId(v)
    BY <1>4 DEF IsTyped, IsRunId
  <2> DEFINE c == [v EXCEPT !.spelling = "canonical"]
  <2>2. c = [uuid |-> v.uuid, spelling |-> "canonical"]
    BY <2>1 DEF IsRunId
  <2>3. Cleaned(f, v) = c
    BY <1>4 DEF Cleaned
  <2> HIDE DEF c
  <2>4. IsRunId(c) /\ [c EXCEPT !.spelling = "canonical"] = c
    BY <2>2 DEF IsRunId
  <2>5. Cleaned(f, c) = c
    BY <1>4, <2>4 DEF Cleaned
  <2>6. IsTyped(f, c)
    BY <1>4, <2>4 DEF IsTyped, IsRunId
  <2> QED BY <2>3, <2>5, <2>6
<1>5. CASE f \notin {"origin", "destination", "carrier_primary", "route_key", "ingest_run_id"}
  <2>1. Cleaned(f, v) = v
    BY <1>5 DEF Cleaned
  <2> QED BY <2>1
<1> QED BY <1>1, <1>2, <1>3, <1>4, <1>5

(* Canonical cleans every field of a record, and gives a record. *)
LEMMA CanonicalIs ==
    ASSUME NEW r, IsRecord(r)
    PROVE  /\ \A f \in Fields : Canonical(r)[f] = Cleaned(f, r[f])
           /\ IsRecord(Canonical(r))
           /\ Canonical(Canonical(r)) = Canonical(r)
<1> DEFINE Cleans(x, c) == /\ c = [f \in Fields |-> c[f]]
                           /\ \A f \in Fields : c[f] = Cleaned(f, x[f])
<1>1. ASSUME NEW x, x = [f \in Fields |-> x[f]]
      PROVE  Cleans(x, Canonical(x))
  <2> DEFINE full == [f \in Fields |-> IF f \in DOMAIN x THEN x[f] ELSE Defaults[f]]
  <2>1. full = x
    <3>1. DOMAIN x = Fields
      BY <1>1
    <3>2. full = [f \in Fields |-> x[f]]
      BY <3>1
    <3> HIDE DEF full
    <3> QED BY <3>2, <1>1
  <2>2. Canonical(x) = [full EXCEPT !.origin = Strip(@), !.destination = Strip(@),
                          !.route_key = StripRoute(@), !.carrier_primary = Strip(@),
                          !.ingest_run_id.spelling = "canonical"]
    BY DEF Canonical, Fields
  <2>3. Canonical(x) = [x EXCEPT !.origin = Strip(@), !.destination = Strip(@),
                          !.route_key = StripRoute(@), !.carrier_primary = Strip(@),
                          !.ingest_run_id.spelling = "canonical"]
    BY <2>1, <2>2
  <2>4. DOMAIN x = Fields /\ {"origin", "destination", "route_key", "carrier_primary",
                              "ingest_run_id"} \subseteq Fields
    BY <1>1, FieldNames
  <2>5. Canonical(x) = [f \in Fields |-> Canonical(x)[f]]
    BY <2>3, <2>4
  <2>6. ASSUME NEW f \in Fields PROVE Canonical(x)[f] = Cleaned(f, x[f])
    BY <2>3, <2>4 DEF Cleaned
  <2> QED BY <2>5, <2>6
<1> DEFINE c == Canonical(r)
<1>2. Cleans(r, c)
  BY <1>1 DEF IsRecord
<1>3. IsRecord(c)
  <2>1. ASSUME NEW f \in Fields PROVE IsTyped(f, c[f])
    <3>1. IsTyped(f, r[f])
      BY DEF IsRecord
    <3> HIDE DEF c
    <3> QED BY <3>1, <1>2, CleanedIs
  <2> HIDE DEF c
  <2> QED BY <2>1, <1>2 DEF IsRecord
<1>4. Cleans(c, Canonical(c))
  BY <1>1, <1>3 DEF IsRecord
<1>5. \A f \in Fields : Cleaned(f, c[f]) = c[f]
  <2> TAKE f \in Fields
  <2>1. IsTyped(f, r[f])
    BY DEF IsRecord
  <2> HIDE DEF c
  <2> QED BY <2>1, <1>2, CleanedIs
<1> HIDE DEF c
<1>6. Canonical(c) = c
  BY <1>2, <1>4, <1>5
<1> QED BY <1>2, <1>3, <1>6 DEF c

(* A field that was fine is fine once it is clean. *)
LEMMA FineStaysFine ==
    ASSUME NEW r, IsRecord(r), NEW f \in Fields, FieldCode(r, f) = Fine
    PROVE  FieldCode(Canonical(r), f) = Fine
<1> DEFINE c == Canonical(r)
           v == r[f]
<1>1. /\ DOMAIN r = Fields /\ DOMAIN c = Fields /\ c[f] = Cleaned(f, v) /\ IsTyped(f, v)
  <2>1. IsRecord(c) /\ c[f] = Cleaned(f, v)
    BY CanonicalIs
  <2> HIDE DEF c
  <2> QED BY <2>1 DEF IsRecord
<1>2. f \in DOMAIN r /\ f \in DOMAIN c
  BY <1>1
<1> HIDE DEF c
<1>3. CASE f \in {"origin", "destination"}
  <2>1. Strip(Strip(v)) = Strip(v)
    BY <1>1, <1>3, StripIs DEF IsTyped
  <2>2. c[f] = Strip(v)
    BY <1>1, <1>3 DEF Cleaned
  <2>3. FieldCode(r, f) = IF IsIata(Strip(v)) THEN Fine ELSE "bad_iata"
    BY <1>2, <1>3 DEF FieldCode
  <2>4. FieldCode(c, f) = IF IsIata(Strip(c[f])) THEN Fine ELSE "bad_iata"
    BY <1>2, <1>3 DEF FieldCode
  <2> QED BY <2>1, <2>2, <2>3, <2>4 DEF c
<1>4. CASE f = "route_key"
  <2>1. StripRoute(StripRoute(v)) = StripRoute(v)
    <3>1. IsRoute(v)
      BY <1>1, <1>4 DEF IsTyped, IsRoute
    <3> QED BY <3>1, StripRouteIs
  <2>2. c[f] = StripRoute(v)
    BY <1>1, <1>4 DEF Cleaned
  <2>3. FieldCode(r, f) = IF IsIata(StripRoute(v).from) /\ IsIata(StripRoute(v).to)
                            THEN Fine ELSE "bad_route_key"
    BY <1>2, <1>4 DEF FieldCode
  <2>4. FieldCode(c, f) = IF IsIata(StripRoute(c[f]).from) /\ IsIata(StripRoute(c[f]).to)
                            THEN Fine ELSE "bad_route_key"
    BY <1>2, <1>4 DEF FieldCode
  <2> QED BY <2>1, <2>2, <2>3, <2>4 DEF c
<1>5. CASE f = "carrier_primary"
  <2>1. Strip(Strip(v)) = Strip(v) /\ (v = None => Strip(v) = None)
    BY <1>1, <1>5, StripIs DEF IsTyped, Strip
  <2>2. c[f] = Strip(v)
    BY <1>1, <1>5 DEF Cleaned
  <2>3. FieldCode(r, f) = IF v = None \/ Strip(v).core \in CarrierCodes THEN Fine ELSE "wrong_type"
    BY <1>2, <1>5 DEF FieldCode
  <2>4. FieldCode(c, f) = IF c[f] = None \/ Strip(c[f]).core \in CarrierCodes
                            THEN Fine ELSE "wrong_type"
    BY <1>2, <1>5 DEF FieldCode
  <2> QED BY <2>1, <2>2, <2>3, <2>4 DEF c
<1>6. CASE f = "ingest_run_id"
  <2>1. v \in [uuid : {v.uuid}, spelling : {v.spelling}]
    BY <1>1, <1>6 DEF IsTyped
  <2>2. c[f] = [v EXCEPT !.spelling = "canonical"]
    BY <1>1, <1>6 DEF Cleaned
  <2>3. c[f].uuid = v.uuid
    BY <2>1, <2>2
  <2>4. FieldCode(r, f) = IF v.uuid # None THEN Fine ELSE CodeIn({"bad_ingest_run_id", v.spelling})
    BY <1>2, <1>6 DEF FieldCode
  <2>5. FieldCode(c, f) = IF c[f].uuid # None THEN Fine
                          ELSE CodeIn({"bad_ingest_run_id", c[f].spelling})
    BY <1>2, <1>6 DEF FieldCode
  <2>6. CodeIn({"bad_ingest_run_id", v.spelling}) \in Codes
    <3>1. MessageCodes[5] = "bad_ingest_run_id"
      BY DEF MessageCodes
    <3> QED BY <3>1, CodeInIs
  <2>7. v.uuid # None
    BY <2>4, <2>6, FineIsNoCode
  <2> QED BY <2>3, <2>5, <2>7 DEF c
<1>7. CASE f \notin {"origin", "destination", "carrier_primary", "route_key", "ingest_run_id"}
  <2>1. c[f] = v
    BY <1>1, <1>7 DEF Cleaned
  <2>2. FieldCode(c, f) = FieldCode(r, f)
    BY <1>2, <1>7, <2>1 DEF FieldCode
  <2> QED BY <2>2 DEF c
<1> QED BY <1>3, <1>4, <1>5, <1>6, <1>7

LEMMA ConstructedIsFine ==
    ASSUME NEW r, IsRecord(r), Constructs(r)
    PROVE  /\ FieldViolations(Canonical(r)) = << >>
           /\ ModelViolations(Canonical(r)) = << >>
           /\ Violations(Canonical(r)) = LogicalViolations(Canonical(r))
<1> DEFINE c == Canonical(r)
<1>1. \A f \in Fields : FieldCode(r, f) = Fine
  BY FieldViolationsAre DEF Constructs, Fields
<1>2. \A f \in Fields : FieldCode(c, f) = Fine
  BY <1>1, FineStaysFine
<1>3. FieldViolations(c) = << >>
  BY <1>2, FieldViolationsAre DEF Fields
<1>4. ModelViolations(c) = << >>
  BY DEF Constructs
<1>5. Canonical(c) = c
  BY CanonicalIs
<1> HIDE DEF c
<1>6. Violations(c) = LogicalViolations(c)
  BY <1>3, <1>4, <1>5 DEF Violations
<1> QED BY <1>3, <1>4, <1>6 DEF c

LEMMA LogicalViolationsAre ==
    ASSUME NEW r
    PROVE  LogicalViolations(r) = << >>
             <=> r.observation_id = NaturalKey(r) /\ r.schema_version = SchemaVersion
<1> DEFINE v1 == [field |-> "observation_id", code |-> "observation_id_mismatch"]
           v2 == [field |-> "schema_version", code |-> "bad_schema_version"]
           p1 == IF r.observation_id = NaturalKey(r) THEN << >> ELSE << v1 >>
           p2 == IF r.schema_version = SchemaVersion THEN << >> ELSE << v2 >>
<1>1. LogicalViolations(r) = p1 \o p2
  BY DEF LogicalViolations
<1> HIDE DEF v1, v2
<1>2. p1 \in Seq({v1}) /\ p2 \in Seq({v2})
  <2>1. << v1 >> \in Seq({v1}) /\ << v2 >> \in Seq({v2})
    OBVIOUS
  <2>2. \A S : << >> \in Seq(S)
    OBVIOUS
  <2>3. p1 \in {<< v1 >>, << >>} /\ p2 \in {<< v2 >>, << >>}
    OBVIOUS
  <2> HIDE DEF p1, p2
  <2> QED BY <2>1, <2>2, <2>3
<1>3. p1 = << >> <=> r.observation_id = NaturalKey(r)
  OBVIOUS
<1>4. p2 = << >> <=> r.schema_version = SchemaVersion
  OBVIOUS
<1> HIDE DEF p1, p2
<1>5. p1 \in Seq({v1, v2}) /\ p2 \in Seq({v1, v2})
  BY <1>2
<1>6. p1 \o p2 = << >> <=> p1 = << >> /\ p2 = << >>
  BY <1>5
<1> QED BY <1>1, <1>3, <1>4, <1>6

(* A valid row is rebuilt to a row that is valid as it stands. *)
LEMMA ValidStaysValid ==
    ASSUME NEW r, IsRecord(r), Violations(r) = << >>
    PROVE  Violations(Canonical(r)) = << >>
<1>1. Constructs(r) /\ LogicalViolations(Canonical(r)) = << >>
  BY DEF Violations, Constructs
<1> QED BY <1>1, ConstructedIsFine

-----------------------------------------------------------------------------
(* The invariants.                                                         *)

(* Records are typed, and what write() published was valid and is canonical. *)
DataInv ==
    /\ \A r \in held : IsRecord(r)
    /\ \A row \in disk : IsRecord(row) /\ Violations(row) = << >> /\ Canonical(row) = row
    /\ IsFiniteSet(disk) /\ IsFiniteSet(imported)

(* A call that returned a record, or a report, returned that of what it was given. *)
CallInv ==
    /\ call.kind = "built" =>
         LET a == call.given[1] IN
           /\ a \in Arguments /\ Constructs(FromArguments(a))
           /\ call.result[1] = Canonical(FromArguments(a))
    /\ call.kind \in {"written", "refused", "validated", "read", "unread"} =>
         /\ call.given \in Seq(ToSet(call.given))
         /\ call.report = Report(call.given)

LEMMA FromArgumentsIsRecord ==
    ASSUME NEW a \in Arguments
    PROVE  IsRecord(FromArguments(a))
<1> DEFINE r == FromArguments(a)
<1>1. r = [f \in Fields |-> r[f]]
  BY FieldNames DEF FromArguments
<1>2. /\ r.origin = a.origin /\ r.destination = a.destination
      /\ r.carrier_primary = a.carrier_primary /\ r.ingest_run_id = a.ingest_run_id
      /\ r.route_key = [from |-> a.origin, to |-> a.destination]
  BY DEF FromArguments
<1>3. /\ IsTyped("origin", a.origin) /\ IsTyped("destination", a.destination)
      /\ IsTyped("carrier_primary", a.carrier_primary)
      /\ IsTyped("ingest_run_id", a.ingest_run_id)
  BY IntakeAssumption
<1> HIDE DEF r
<1>4. ASSUME NEW f \in Fields PROVE IsTyped(f, r[f])
  <2>1. CASE f \in {"origin", "destination", "carrier_primary", "ingest_run_id"}
    BY <2>1, <1>2, <1>3
  <2>2. CASE f = "route_key"
    <3>1. IsText(a.origin) /\ IsText(a.destination)
      BY <1>3 DEF IsTyped
    <3>2. IsRoute(r.route_key)
      BY <3>1, <1>2 DEF IsRoute
    <3> QED BY <2>2, <3>2 DEF IsTyped, IsRoute
  <2>3. CASE f \notin {"origin", "destination", "carrier_primary", "ingest_run_id", "route_key"}
    BY <2>3 DEF IsTyped
  <2> QED BY <2>1, <2>2, <2>3
<1>5. IsRecord(r)
  BY <1>1, <1>4 DEF IsRecord
<1> QED BY <1>5 DEF r

LEMMA UpdateKeepsRecords ==
    ASSUME NEW r, IsRecord(r), NEW g \in Fields, NEW v, IsTyped(g, v)
    PROVE  IsRecord([r EXCEPT ![g] = v])
<1> DEFINE c == [r EXCEPT ![g] = v]
<1>1. DOMAIN r = Fields
  BY DEF IsRecord
<1>2. c = [f \in Fields |-> c[f]] /\ \A f \in Fields : c[f] = IF f = g THEN v ELSE r[f]
  BY <1>1
<1> HIDE DEF c
<1>3. \A f \in Fields : IsTyped(f, c[f])
  BY <1>2 DEF IsRecord
<1>4. IsRecord(c)
  BY <1>2, <1>3 DEF IsRecord
<1> QED BY <1>4 DEF c

LEMMA QualityKeepsRecords ==
    ASSUME NEW r, IsRecord(r), NEW q
    PROVE  IsRecord([r EXCEPT !.data_quality = q])
<1>1. "data_quality" \in Fields
  BY FieldNames
<1>2. IsTyped("data_quality", q)
  BY DEF IsTyped
<1>3. IsRecord([r EXCEPT !["data_quality"] = q])
  BY <1>1, <1>2, UpdateKeepsRecords
<1> QED BY <1>3

LEMMA DataInvInit == Init => DataInv
BY FS_EmptySet, IntakeAssumption DEF Init, DataInv

LEMMA DataInvNext == DataInv /\ [Next]_vars => DataInv'
<1> SUFFICES ASSUME DataInv, [Next]_vars PROVE DataInv'
  OBVIOUS
<1>1. CASE UNCHANGED <<held, disk, imported>>
  BY <1>1 DEF DataInv
<1>2. ASSUME NEW r, IsRecord(r), held' = held \cup {r}, UNCHANGED <<disk, imported>>
      PROVE  DataInv'
  BY <1>2 DEF DataInv
<1>3. CASE Build
  <2>1. PICK a \in Arguments : Hold(Canonical(FromArguments(a)))
    BY <1>3 DEF Build
  <2>2. IsRecord(Canonical(FromArguments(a)))
    BY FromArgumentsIsRecord, CanonicalIs
  <2> QED BY <2>1, <2>2, <1>2, <1>3 DEF Build, Hold
<1>4. CASE Copy
  <2>1. PICK r \in held, u \in Updates : Hold([r EXCEPT ![u.field] = u.value])
    BY <1>4 DEF Copy
  <2>2. IsRecord(r) /\ u.field \in Fields /\ IsTyped(u.field, u.value)
    BY IntakeAssumption DEF DataInv, Fields
  <2>3. IsRecord([r EXCEPT ![u.field] = u.value])
    BY <2>2, UpdateKeepsRecords
  <2> QED BY <2>1, <2>3, <1>2, <1>4 DEF Copy, Hold
<1>5. CASE Stamp
  <2>1. PICK r \in held, quality \in {"ok", "suspect", "rejected"} :
          \/ Hold(Stamped(r, quality))
          \/ UNCHANGED held
    BY <1>5 DEF Stamp
  <2>2. IsRecord(Stamped(r, quality))
    <3>1. IsRecord(r)
      BY DEF DataInv
    <3> QED BY <3>1, QualityKeepsRecords, CanonicalIs DEF Stamped
  <2>3. UNCHANGED <<disk, imported>>
    BY <1>5 DEF Stamp
  <2> QED BY <2>1, <2>2, <2>3, <1>1, <1>2 DEF Hold
<1>6. CASE Write
  <2>1. PICK batch \in Batches :
          disk' = IF Ok(Report(batch)) THEN disk \cup Published(batch) ELSE disk
    BY <1>6 DEF Write
  <2>2. UNCHANGED <<held, imported>>
    BY <1>6 DEF Write
  <2>3. CASE ~ Ok(Report(batch))
    BY <2>1, <2>2, <2>3, <1>1
  <2>4. CASE Ok(Report(batch))
    <3>1. PICK n \in 1..2 : batch \in [1..n -> held]
      BY DEF Batches
    <3>2. DOMAIN batch = 1..n /\ n \in Nat
      BY <3>1
    <3>3. \A i \in 1..n : Violations(batch[i]) = << >>
      BY <2>4, <3>2, OkMeansValid
    <3>4. ASSUME NEW row \in Published(batch)
          PROVE  IsRecord(row) /\ Violations(row) = << >> /\ Canonical(row) = row
      <4>1. PICK i \in 1..n : row = Canonical(batch[i])
        BY <3>2 DEF Published
      <4>2. IsRecord(batch[i])
        BY <3>1 DEF DataInv
      <4>3. Violations(batch[i]) = << >>
        BY <3>3
      <4> QED BY <4>1, <4>2, <4>3, CanonicalIs, ValidStaysValid
    <3>5. IsFiniteSet(Published(batch))
      <4> DEFINE T == {Canonical(batch[i]) : i \in 1..n}
                 f == [i \in 1..n |-> Canonical(batch[i])]
      <4>1. n \in Int /\ 1 \in Int
        BY <3>2
      <4>2. IsFiniteSet(1..n)
        BY <4>1, FS_Interval, Zenon
      <4>3. f \in Surjection(1..n, T)
        BY DEF Surjection
      <4>4. IsFiniteSet(T)
        <5> HIDE DEF f, T
        <5> QED BY <4>2, <4>3, FS_Surjection
      <4>5. Published(batch) \in SUBSET T
        BY <3>2 DEF Published
      <4> HIDE DEF T
      <4> QED BY <4>4, <4>5, FS_Subset
    <3>6. IsFiniteSet(disk \cup Published(batch))
      BY <3>5, FS_Union DEF DataInv
    <3>7. disk' = disk \cup Published(batch)
      BY <2>1, <2>4
    <3> QED BY <2>2, <3>4, <3>6, <3>7 DEF DataInv
  <2> QED BY <2>3, <2>4
<1>7. CASE BuildRaises \/ Validate \/ Read \/ UNCHANGED vars
  BY <1>1, <1>7 DEF BuildRaises, Validate, Read, vars
<1> QED BY <1>3, <1>4, <1>5, <1>6, <1>7 DEF Next

THEOREM DataIsValid == Spec => []DataInv
BY DataInvInit, DataInvNext, PTL DEF Spec

(* Whatever was built, copied, stamped or submitted, and in what order, the
   rows write() published are valid as they stand and are their own canonical
   form (validated_batch; SnapshotStore.write). *)
THEOREM PublishedRowsStayValid == Spec => []PublishedRowsAreCanonical
<1>1. DataInv => PublishedRowsAreCanonical
  BY DEF DataInv, PublishedRowsAreCanonical
<1> QED BY <1>1, DataIsValid, PTL

(* Two published rows have one id iff they are of one trip shape and one UTC
   date (identity.py, natural_key; logical_violations). *)
THEOREM IdsAreShapesAndDays == Spec => []OneIdPerShapeAndDay
<1>1. DataInv => OneIdPerShapeAndDay
  <2> SUFFICES ASSUME DataInv, NEW a \in disk, NEW b \in disk
               PROVE  a.observation_id = b.observation_id
                        <=> SameShape(a, b) /\ FetchedDate(a.fetched_at) = FetchedDate(b.fetched_at)
    BY DEF OneIdPerShapeAndDay
  <2>1. ASSUME NEW r \in disk PROVE r.observation_id = NaturalKey(r)
    <3>1. Violations(r) = << >> /\ Canonical(r) = r
      BY DEF DataInv
    <3>2. LogicalViolations(r) = << >>
      BY <3>1 DEF Violations
    <3> QED BY <3>2, LogicalViolationsAre
  <2>2. a.observation_id = NaturalKey(a) /\ b.observation_id = NaturalKey(b)
    BY <2>1
  <2>3. NaturalKey(a) = NaturalKey(b)
          <=> SameShape(a, b) /\ FetchedDate(a.fetched_at) = FetchedDate(b.fetched_at)
    BY DEF NaturalKey, SameShape
  <2> QED BY <2>2, <2>3
<1> QED BY <1>1, DataIsValid, PTL

LEMMA CallInvInit == Init => CallInv
BY DEF Init, CallInv, Called

(* The rows of a frame, listed. *)
LEMMA ListedRows ==
    ASSUME NEW S, IsFiniteSet(S)
    PROVE  SetToSeq(S) \in Seq(ToSet(SetToSeq(S)))
<1> DEFINE n == Cardinality(S)
           f == SetToSeq(S)
<1>1. n \in Nat /\ ExistsBijection(1..n, S)
  BY FS_CardinalityType
<1>2. PICK g : g \in Bijection(1..n, S)
  BY <1>1 DEF ExistsBijection
<1>3. g \in [1..n -> S] /\ \A a, b \in DOMAIN g : g[a] = g[b] => a = b
  BY <1>2 DEF Bijection, Injection, Surjection, IsInjective
<1>4. f \in [1..n -> S]
  <2>1. \E h \in [1..n -> S] : IsInjective(h)
    BY <1>3 DEF IsInjective
  <2>2. f = CHOOSE h \in [1..n -> S] : IsInjective(h)
    BY DEF SetToSeq
  <2> HIDE DEF f, n
  <2> QED BY <2>1, <2>2
<1> HIDE DEF f, n
<1>5. f = [i \in 1..n |-> f[i]] /\ ToSet(f) = {f[i] : i \in 1..n}
  BY <1>4 DEF ToSet
<1>6. f \in Seq(ToSet(f))
  BY <1>1, <1>5
<1> QED BY <1>6 DEF f

LEMMA CallInvNext == DataInv /\ CallInv /\ [Next]_vars => CallInv'
<1> SUFFICES ASSUME DataInv, CallInv, [Next]_vars PROVE CallInv'
  OBVIOUS
<1>1. ASSUME NEW kind, NEW given, NEW result, NEW report, call' = Called(kind, given, result, report)
      PROVE  /\ call'.kind = kind /\ call'.given = given
             /\ call'.result = result /\ call'.report = report
  BY <1>1 DEF Called
<1>2. ASSUME NEW kind \in {"unbuilt", "copied", "stamped", "unstamped"}, NEW given, NEW result,
             call' = Called(kind, given, result, NoTally)
      PROVE  CallInv'
  <2>1. call'.kind = kind
    BY <1>1, <1>2
  <2> QED BY <2>1 DEF CallInv
<1>3. ASSUME NEW kind \in {"written", "refused", "validated", "read", "unread"},
             NEW rows, NEW result, rows \in Seq(ToSet(rows)),
             call' = Called(kind, rows, result, Report(rows))
      PROVE  CallInv'
  <2>1. call'.kind = kind /\ call'.given = rows /\ call'.report = Report(rows)
    BY <1>1, <1>3
  <2> QED BY <1>3, <2>1 DEF CallInv
<1>4. CASE Build
  <2>1. PICK a \in Arguments :
          /\ Constructs(FromArguments(a))
          /\ call' = Called("built", << a >>, << Canonical(FromArguments(a)) >>, NoTally)
    BY <1>4 DEF Build
  <2>2. /\ call'.kind = "built" /\ call'.given[1] = a
        /\ call'.result[1] = Canonical(FromArguments(a))
    BY <2>1, <1>1
  <2> QED BY <2>1, <2>2 DEF CallInv
<1>5. CASE BuildRaises
  BY <1>5, <1>2 DEF BuildRaises
<1>6. CASE Copy
  BY <1>6, <1>2 DEF Copy
<1>7. CASE Stamp
  BY <1>7, <1>2 DEF Stamp
<1>8. CASE Write
  <2>1. PICK batch \in Batches :
          call' = Called(IF Ok(Report(batch)) THEN "written" ELSE "refused", batch, << >>,
                         Report(batch))
    BY <1>8 DEF Write
  <2>2. PICK n \in 1..2 : batch \in [1..n -> held]
    BY DEF Batches
  <2>3. batch = [i \in 1..n |-> batch[i]] /\ ToSet(batch) = {batch[i] : i \in 1..n}
    BY <2>2 DEF ToSet
  <2>4. batch \in Seq(ToSet(batch))
    BY <2>3
  <2>5. (IF Ok(Report(batch)) THEN "written" ELSE "refused") \in {"written", "refused"}
    OBVIOUS
  <2> QED BY <2>1, <2>4, <2>5, <1>3
<1>9. CASE Validate
  <2>1. PICK rows \in RawBatches : call' = Called("validated", rows, << >>, Report(rows))
    BY <1>9 DEF Validate
  <2> QED BY <2>1, <1>3, IntakeAssumption
<1>10. CASE Read
  <2>1. PICK S \in Frames :
          \/ call' = Called("read", SetToSeq(S), Rebuilt(SetToSeq(S)), Report(SetToSeq(S)))
          \/ call' = Called("unread", SetToSeq(S), << >>, Report(SetToSeq(S)))
    BY <1>10 DEF Read
  <2>2. IsFiniteSet(S)
    <3>1. IsFiniteSet(disk \cup imported)
      BY FS_Union DEF DataInv
    <3>2. S \in SUBSET (disk \cup imported)
      BY DEF Frames
    <3> QED BY <3>1, <3>2, FS_Subset
  <2>3. SetToSeq(S) \in Seq(ToSet(SetToSeq(S)))
    BY <2>2, ListedRows
  <2> QED BY <2>1, <2>3, <1>3
<1>11. CASE UNCHANGED vars
  BY <1>11 DEF vars, CallInv
<1> QED BY <1>4, <1>5, <1>6, <1>7, <1>8, <1>9, <1>10, <1>11 DEF Next

THEOREM CallsAreAnswered == Spec => []CallInv
<1>1. Init => DataInv /\ CallInv
  BY DataInvInit, CallInvInit
<1>2. DataInv /\ CallInv /\ [Next]_vars => DataInv' /\ CallInv'
  BY DataInvNext, CallInvNext
<1> QED BY <1>1, <1>2, PTL DEF Spec

(* What build_observation returns will pass write() iff no part of the natural
   key had to be stripped (record.py, build_observation; identity.py). *)
THEOREM BuiltRecordsAreValid == Spec => []BuiltFromCleanArgumentsIsValid
<1>1. CallInv => BuiltFromCleanArgumentsIsValid
  <2> SUFFICES ASSUME CallInv, call.kind = "built"
               PROVE  Violations(call.result[1]) = << >>
                        <=> \A f \in {"origin", "destination", "carrier_primary"} :
                              call.given[1][f] = Strip(call.given[1][f])
    BY DEF BuiltFromCleanArgumentsIsValid
  <2> DEFINE a == call.given[1]
             r == FromArguments(a)
             c == Canonical(r)
  <2>1. a \in Arguments /\ Constructs(r) /\ call.result[1] = c
    BY DEF CallInv
  <2>2. IsRecord(r)
    BY <2>1, FromArgumentsIsRecord
  <2>3. Violations(c) = LogicalViolations(c)
    BY <2>1, <2>2, ConstructedIsFine
  <2>4. \A f \in Fields : c[f] = Cleaned(f, r[f])
    BY <2>2, CanonicalIs
  <2>5. /\ c.observation_id = r.observation_id /\ c.schema_version = r.schema_version
        /\ c.source = r.source /\ c.fetched_at = r.fetched_at
        /\ c.origin = Strip(r.origin) /\ c.destination = Strip(r.destination)
        /\ c.return_date = r.return_date /\ c.trip_type = r.trip_type
        /\ c.carrier_primary = Strip(r.carrier_primary)
    <3> HIDE DEF c, r
    <3> QED BY <2>4, FieldNames DEF Cleaned
  <2>6. /\ r.observation_id = NaturalKey(a) /\ r.schema_version = SchemaVersion
        /\ r.source = a.source /\ r.fetched_at = a.fetched_at
        /\ r.origin = a.origin /\ r.destination = a.destination
        /\ r.return_date = a.return_date /\ r.trip_type = a.trip_type
        /\ r.carrier_primary = a.carrier_primary
    BY DEF FromArguments
  <2> HIDE DEF c, r, a
  <2>7. NaturalKey(a) = NaturalKey(c)
          <=> \A f \in {"origin", "destination", "carrier_primary"} : a[f] = Strip(a[f])
    BY <2>5, <2>6 DEF NaturalKey
  <2> QED BY <2>1, <2>3, <2>5, <2>6, <2>7, LogicalViolationsAre DEF a
<1> QED BY <1>1, CallsAreAnswered, PTL

(* A report counts every violation of every row, and samples the first of them
   in order, for batches of any length and any SampleLimit (validation.py,
   _Accumulator; validate_batch). *)
THEOREM ReportsAreExact == Spec => []ReportIsExact
<1>1. CallInv => ReportIsExact
  <2> SUFFICES ASSUME CallInv, call.kind \in {"written", "refused", "validated", "unread"}
               PROVE  ReportIsExact
    BY DEF ReportIsExact
  <2> DEFINE rows == call.given
             report == call.report
             n == Len(rows)
             places == Places(rows)
  <2>1. rows \in Seq(ToSet(rows)) /\ report = Report(rows)
    BY DEF CallInv
  <2>2. n \in Nat /\ DOMAIN rows = 1..n
    <3> HIDE DEF rows
    <3> QED BY <2>1
  <2>3. IsReportOf(rows, n, report)
    <3> HIDE DEF rows, n
    <3> QED BY <2>1, <2>2, ReportIs
  <2>4. places = PlacesUpTo(rows, n)
    <3> HIDE DEF rows, n
    <3> QED BY <2>2, FieldsAre DEF Places, PlacesUpTo
  <2>5. {p[1] : p \in places} = InvalidUpTo(rows, n)
    <3>1. ASSUME NEW p \in places PROVE p[1] \in InvalidUpTo(rows, n)
      <4>1. p[1] \in 1..n /\ p[2] \in DOMAIN Violations(rows[p[1]])
        <5> HIDE DEF rows, n
        <5> QED BY <2>4 DEF PlacesUpTo
      <4>2. Violations(rows[p[1]]) # << >>
        BY <4>1
      <4> QED BY <4>1, <4>2 DEF InvalidUpTo
    <3>2. ASSUME NEW j \in InvalidUpTo(rows, n) PROVE \E p \in places : p[1] = j
      <4> DEFINE vs == Violations(rows[j])
      <4>1. j \in 1..n /\ vs # << >> /\ vs \in Seq(Violation)
        BY ViolationsAre DEF InvalidUpTo
      <4>2. 1 \in DOMAIN vs
        <5> HIDE DEF vs, Violation
        <5> QED BY <4>1
      <4>3. <<j, 1>> \in PlacesUpTo(rows, n)
        <5>1. <<j, 1>> \in (1..n) \X (1..13) /\ <<j, 1>>[1] = j /\ <<j, 1>>[2] = 1
          BY <4>1
        <5> QED BY <5>1, <4>2 DEF PlacesUpTo
      <4> QED BY <4>3, <2>4
    <3> HIDE DEF rows, n, places
    <3> QED BY <3>1, <3>2
  <2>6. \A code \in Codes : {p \in places : Violations(rows[p[1]])[p[2]].code = code}
                              = OfCode(rows, places, code)
    BY DEF OfCode, At
  <2> HIDE DEF rows, report, n, places
  <2>8. /\ report.total = n
        /\ report.invalid = Cardinality({p[1] : p \in places})
        /\ \A code \in Codes : report.counts[code]
             = Cardinality({p \in places : Violations(rows[p[1]])[p[2]].code = code})
        /\ Len(report.sample) = Lesser(SampleLimit, Cardinality(places))
        /\ \A k \in DOMAIN report.sample : \E p \in places :
             /\ report.sample[k] = <<p[1], Violations(rows[p[1]])[p[2]]>>
             /\ k = 1 + Cardinality({q \in places :
                            q[1] < p[1] \/ (q[1] = p[1] /\ q[2] < p[2])})
    <3>1. /\ report.total = n
          /\ report.invalid = Cardinality(InvalidUpTo(rows, n))
          /\ \A code \in Codes : report.counts[code] = Cardinality(OfCode(rows, places, code))
          /\ Len(report.sample) = Lesser(SampleLimit, Cardinality(places))
          /\ \A k \in DOMAIN report.sample : \E p \in places :
               report.sample[k] = <<p[1], At(rows, p)>> /\ k = 1 + Cardinality(Before(places, p))
      BY <2>3, <2>4, Zenon DEF IsReportOf
    <3>2. report.invalid = Cardinality({p[1] : p \in places})
      BY <3>1, <2>5
    <3>3. ASSUME NEW code \in Codes
          PROVE  report.counts[code]
                   = Cardinality({p \in places : Violations(rows[p[1]])[p[2]].code = code})
      BY <3>1, <2>6, Zenon
    <3>4. ASSUME NEW k \in DOMAIN report.sample
          PROVE  \E p \in places :
                   /\ report.sample[k] = <<p[1], Violations(rows[p[1]])[p[2]]>>
                   /\ k = 1 + Cardinality({q \in places :
                                  q[1] < p[1] \/ (q[1] = p[1] /\ q[2] < p[2])})
      <4>1. PICK p \in places :
              report.sample[k] = <<p[1], At(rows, p)>> /\ k = 1 + Cardinality(Before(places, p))
        BY <3>1, <3>4, Zenon
      <4> QED BY <4>1, Zenon DEF At, Before
    <3> QED BY <3>1, <3>2, <3>3, <3>4, Zenon
  <2>9. Lesser(SampleLimit, Cardinality(places))
          = IF Cardinality(places) < SampleLimit THEN Cardinality(places) ELSE SampleLimit
    <3>1. IsFiniteSet(places)
      <4>1. n + 1 \in Nat /\ n + 1 # 0 /\ (n + 1) - 1 = n
        BY <2>2 DEF n
      <4> QED BY <4>1, <2>4, PlacesGrow
    <3>2. Cardinality(places) \in Nat /\ SampleLimit \in Nat
      BY <3>1, FS_CardinalityType, IntakeAssumption
    <3> QED BY <3>2 DEF Lesser
  <2> QED BY <2>8, <2>9 DEF ReportIsExact, rows, report, n, places
<1> QED BY <1>1, CallsAreAnswered, PTL


=============================================================================
