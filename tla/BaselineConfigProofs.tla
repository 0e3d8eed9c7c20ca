------------------------ MODULE BaselineConfigProofs ------------------------
(***************************************************************************)
(* For bucket lists of every length, with every bound and name: a list the *)
(* validator admits gives each day exactly one bucket, and ap_bucket and   *)
(* ap_bucket_expr name the same one; no process ever holds another list.   *)
(***************************************************************************)
EXTENDS BaselineConfig, ForecastProofs

(* Under a list the validator admits, the scalar path and the frame path name
   the same bucket for every day, and it is a bucket (buckets.py, "so the
   frame path and the scalar path cannot drift"). *)
THEOREM ScalarAndFrameAgree ==
    ASSUME NEW buckets \in Seq(NamedBuckets(Names)), Tiles(buckets), NEW d \in Nat
    PROVE  /\ ApBucket(buckets, d) = ApBucketExpr(buckets, d)
           /\ ApBucket(buckets, d) # NoBucket
BY OneBucket, ConfigAssumption

-----------------------------------------------------------------------------
(* What every process holds, in every reachable state, is a list the         *)
(* validator admitted.  The file itself may hold anything.                   *)

AdmittedOnly ==
    /\ file \in Seq(BucketSpecs)
    /\ cache \in [Processes -> Seq(NamedBuckets(Names))]
    /\ \A p \in Processes : cache[p] # << >> => Tiles(cache[p])

LEMMA SpecsBounds == BucketSpecs \subseteq NamedBuckets(Names)
  BY ConfigAssumption DEF BucketSpecs, NamedBuckets

LEMMA ListsAreSeqs == Lists \subseteq Seq(BucketSpecs)
  <1> SUFFICES ASSUME NEW buckets \in Lists PROVE buckets \in Seq(BucketSpecs)
    OBVIOUS
  <1>1. PICK n \in 0..MaxBuckets : buckets \in [1..n -> BucketSpecs]
    BY DEF Lists
  <1>2. n \in Nat
    BY ConfigAssumption
  <1> QED
    BY <1>1, <1>2, SeqDef

LEMMA InitAdmitted == Init => AdmittedOnly
  BY ListsAreSeqs, EmptySeq DEF Init, AdmittedOnly

LEMMA StepAdmitted == AdmittedOnly /\ [Next]_vars => AdmittedOnly'
  <1> SUFFICES ASSUME AdmittedOnly, [Next]_vars PROVE AdmittedOnly'
    OBVIOUS
  <1> USE DEF AdmittedOnly
  <1>1. CASE Edit
    <2>1. CASE \E i \in DOMAIN file, b \in BucketSpecs : file' = [file EXCEPT ![i] = b]
      <3>1. PICK i \in DOMAIN file, b \in BucketSpecs : file' = [file EXCEPT ![i] = b]
        BY <2>1
      <3>2. file' \in Seq(BucketSpecs)
        BY <3>1, ExceptSeq, LenProperties
      <3> QED
        BY <1>1, <3>2 DEF Edit
    <2>2. CASE \E b \in BucketSpecs : file' = Append(file, b)
      BY <1>1, <2>2 DEF Edit
    <2>3. CASE file # << >> /\ file' = SubSeq(file, 1, Len(file) - 1)
      <3>1. Len(file) \in Nat
        BY LenProperties
      <3>2. \A i \in 1..(Len(file) - 1) : file[i] \in BucketSpecs
        BY <3>1, ElementOfSeq
      <3>3. file' \in Seq(BucketSpecs)
        BY <2>3, <3>1, SubSeqProperties
      <3> QED
        BY <1>1, <3>3 DEF Edit
    <2> QED
      BY <1>1, <2>1, <2>2, <2>3 DEF Edit
  <1>2. ASSUME NEW p \in Processes, Load(p) PROVE AdmittedOnly'
    <2>1. file \in Seq(NamedBuckets(Names))
      BY SpecsBounds
    <2> QED
      BY <1>2, <2>1 DEF Load
  <1>3. ASSUME NEW p \in Processes, Restart(p) PROVE AdmittedOnly'
    BY <1>3, EmptySeq DEF Restart
  <1>4. CASE UNCHANGED vars
    BY <1>4 DEF vars
  <1> QED
    BY <1>1, <1>2, <1>3, <1>4 DEF Next

(* Whatever people edit and whenever processes load and restart, in every
   process the label the history carries and the one a prediction asks for are
   the same for every day. *)
THEOREM PathsAlwaysAgree == Spec => []PathsAgree
  <1>1. AdmittedOnly => PathsAgree
    <2> SUFFICES ASSUME AdmittedOnly, NEW p \in Processes, cache[p] # << >>, NEW d \in Days
                 PROVE  /\ ApBucket(cache[p], d) = ApBucketExpr(cache[p], d)
                        /\ ApBucket(cache[p], d) # NoBucket
      BY DEF PathsAgree
    <2>1. d \in Nat
      BY ConfigAssumption DEF Days
    <2> QED
      BY <2>1, ScalarAndFrameAgree DEF AdmittedOnly
  <1> QED
    BY <1>1, InitAdmitted, StepAdmitted, PTL DEF Spec

(* A process that has loaded a list uses that one until it restarts. *)
THEOREM OneConfigAlways == Spec => OneConfigPerRun
  <1>1. AdmittedOnly /\ [Next]_vars =>
           [\A p \in Processes :
              cache[p] # << >> /\ cache'[p] # << >> => cache'[p] = cache[p]]_vars
    <2> SUFFICES ASSUME AdmittedOnly, Next, NEW p \in Processes,
                        cache[p] # << >>, cache'[p] # << >>
                 PROVE  cache'[p] = cache[p]
      OBVIOUS
    <2> USE DEF AdmittedOnly
    <2>1. CASE Edit
      BY <2>1 DEF Edit
    <2>2. ASSUME NEW q \in Processes, Load(q) PROVE cache'[p] = cache[p]
      BY <2>2 DEF Load
    <2>3. ASSUME NEW q \in Processes, Restart(q) PROVE cache'[p] = cache[p]
      BY <2>3 DEF Restart
    <2> QED
      BY <2>1, <2>2, <2>3 DEF Next
  <1> QED
    BY <1>1, InitAdmitted, StepAdmitted, PTL DEF Spec, OneConfigPerRun

-----------------------------------------------------------------------------
(* The validator admits the tilings of the day line, and nothing else.       *)

(* A list the validator admits gives every day one bucket, runs upwards and
   has no empty bucket. *)
LEMMA AdmittedTiles ==
    ASSUME NEW buckets \in Seq(BucketSpecs), Tiles(buckets), \A b \in Bounds : b < LastDay
    PROVE  /\ OneBucketPerDay(buckets) /\ Upwards(buckets)
           /\ NoneEmpty(buckets) /\ UniqueNames(buckets)
  <1>1. buckets \in Seq(NamedBuckets(Names))
    BY SpecsBounds
  <1>2. /\ DOMAIN buckets = 1..Len(buckets) /\ Len(buckets) \in Nat
        /\ \A i \in DOMAIN buckets : /\ buckets[i].min \in Nat
                                     /\ buckets[i].max \in Nat \cup {Unbounded}
    BY <1>1, ListFields
  <1>3. \A i \in DOMAIN buckets : buckets[i].min \in Bounds
    <2>1. \A i \in DOMAIN buckets : buckets[i] \in BucketSpecs
      BY <1>2, ElementOfSeq
    <2> QED BY <2>1 DEF BucketSpecs
  <1>4. OneBucketPerDay(buckets)
    <2> SUFFICES ASSUME NEW d \in Days
                 PROVE  \E i \in DOMAIN buckets :
                          /\ Holds(buckets[i], d)
                          /\ \A j \in DOMAIN buckets : Holds(buckets[j], d) => j = i
      BY DEF OneBucketPerDay
    <2>1. d \in Nat
      BY ConfigAssumption DEF Days
    <2>2. PICK k \in DOMAIN buckets : {i \in DOMAIN buckets : Holds(buckets[i], d)} = {k}
      BY <1>1, <2>1, OneHolds
    <2> QED BY <2>2
  <1>5. ASSUME NEW i \in DOMAIN buckets
        PROVE  buckets[i].max = Unbounded \/ buckets[i].min <= buckets[i].max
    BY <1>2 DEF Tiles
  <1>6. Upwards(buckets)
    <2> SUFFICES ASSUME NEW i \in DOMAIN buckets, NEW j \in DOMAIN buckets, i < j
                 PROVE  buckets[i].min < buckets[j].min
      BY DEF Upwards
    <2>1. buckets[i].max \in Nat /\ buckets[j].min > buckets[i].max
      BY <1>1, LaterStartsAfter
    <2>2. buckets[i].min <= buckets[i].max
      BY <1>5, <2>1, BucketsAssumption
    <2> QED BY <1>2, <2>1, <2>2
  <1>7. NoneEmpty(buckets)
    <2> SUFFICES ASSUME NEW i \in DOMAIN buckets
                 PROVE  \E d \in Days : Holds(buckets[i], d)
      BY DEF NoneEmpty
    <2>1. buckets[i].min \in Days
      BY <1>2, <1>3, ConfigAssumption DEF Days
    <2>2. Holds(buckets[i], buckets[i].min)
      BY <1>2, <1>5 DEF Holds, EndsAtOrAfter
    <2> QED BY <2>1, <2>2
  <1> QED BY <1>4, <1>6, <1>7 DEF Tiles

(* In a list that runs upwards, gives every day at most one bucket and has no
   empty one, a bucket ends before the next begins. *)
LEMMA EndsBeforeNext ==
    ASSUME NEW buckets \in Seq(BucketSpecs), \A b \in Bounds : b < LastDay,
           OneBucketPerDay(buckets), Upwards(buckets), NoneEmpty(buckets),
           NEW k \in DOMAIN buckets, NEW i \in DOMAIN buckets, k < i
    PROVE  buckets[k].max \in Nat /\ buckets[k].max < buckets[i].min
  <1>1. buckets \in Seq(NamedBuckets(Names))
    BY SpecsBounds
  <1>2. /\ DOMAIN buckets = 1..Len(buckets) /\ Len(buckets) \in Nat
        /\ \A j \in DOMAIN buckets : /\ buckets[j].min \in Nat
                                     /\ buckets[j].max \in Nat \cup {Unbounded}
    BY <1>1, ListFields
  <1>3. \A j \in DOMAIN buckets : buckets[j].min \in Bounds
    <2>1. \A j \in DOMAIN buckets : buckets[j] \in BucketSpecs
      BY <1>2, ElementOfSeq
    <2> QED BY <2>1 DEF BucketSpecs
  <1> DEFINE day == buckets[i].min
  <1>4. day \in Days /\ day \in Nat /\ buckets[k].min < day
    BY <1>2, <1>3, ConfigAssumption DEF Days, Upwards
  <1>5. Holds(buckets[i], day)
    <2>1. PICK d \in Days : Holds(buckets[i], d)
      BY DEF NoneEmpty
    <2>2. d \in Nat
      BY ConfigAssumption DEF Days
    <2> QED BY <1>2, <2>1, <2>2, BucketsAssumption DEF Holds, EndsAtOrAfter
  <1>6. ~Holds(buckets[k], day)
    <2>1. PICK h \in DOMAIN buckets : \A j \in DOMAIN buckets : Holds(buckets[j], day) => j = h
      BY <1>4 DEF OneBucketPerDay
    <2>2. i # k
      BY <1>2
    <2> QED BY <1>5, <2>1, <2>2
  <1> QED BY <1>2, <1>4, <1>6 DEF Holds, EndsAtOrAfter

(* The validator admits such a list. *)
LEMMA TilesAreAdmitted ==
    ASSUME NEW buckets \in Seq(BucketSpecs), \A b \in Bounds : b < LastDay,
           OneBucketPerDay(buckets), Upwards(buckets), NoneEmpty(buckets),
           UniqueNames(buckets)
    PROVE  Tiles(buckets)
  <1> DEFINE n == Len(buckets)
  <1>1. buckets \in Seq(NamedBuckets(Names))
    BY SpecsBounds
  <1>2. /\ DOMAIN buckets = 1..n /\ n \in Nat
        /\ \A j \in DOMAIN buckets : /\ buckets[j].min \in Nat
                                     /\ buckets[j].max \in Nat \cup {Unbounded}
    BY <1>1, ListFields
  <1>3. \A j \in DOMAIN buckets : buckets[j].max = Unbounded \/ buckets[j].max \in Bounds
    <2>1. \A j \in DOMAIN buckets : buckets[j] \in BucketSpecs
      BY <1>2, ElementOfSeq
    <2> QED BY <2>1 DEF BucketSpecs
  <1>4. PICK first \in DOMAIN buckets : Holds(buckets[first], 0)
    <2>1. 0 \in Days
      BY ConfigAssumption DEF Days
    <2> QED BY <2>1 DEF OneBucketPerDay
  <1>5. n # 0 /\ 1 \in DOMAIN buckets /\ n \in DOMAIN buckets
    BY <1>2, <1>4
  <1>6. buckets[1].min = 0
    <2>1. buckets[first].min = 0
      BY <1>2, <1>4 DEF Holds
    <2>2. first = 1
      <3>1. ~(1 < first)
        BY <1>2, <1>5, <2>1 DEF Upwards
      <3> QED BY <1>2, <3>1
    <2> QED BY <2>1, <2>2
  <1>7. \A k, i \in DOMAIN buckets :
            k < i => buckets[k].max \in Nat /\ buckets[k].max < buckets[i].min
    BY EndsBeforeNext
  <1>8. \A i \in DOMAIN buckets : buckets[i].max \in Nat => buckets[i].min <= buckets[i].max
    <2> SUFFICES ASSUME NEW i \in DOMAIN buckets, buckets[i].max \in Nat
                 PROVE  buckets[i].min <= buckets[i].max
      OBVIOUS
    <2>1. PICK d \in Days : Holds(buckets[i], d)
      BY DEF NoneEmpty
    <2>2. d \in Nat
      BY ConfigAssumption DEF Days
    <2> QED BY <1>2, <2>1, <2>2, BucketsAssumption DEF Holds, EndsAtOrAfter
  <1> HIDE DEF n
  <1>9. buckets[n].max = Unbounded
    <2> SUFFICES ASSUME buckets[n].max \in Nat PROVE FALSE
      BY <1>2, <1>5
    <2>1. buckets[n].max < LastDay
      BY <1>3, <1>5, BucketsAssumption
    <2>2. LastDay \in Days /\ LastDay \in Nat
      BY ConfigAssumption DEF Days
    <2>3. PICK k \in DOMAIN buckets : Holds(buckets[k], LastDay)
      BY <2>2 DEF OneBucketPerDay
    <2>4. k < n \/ k = n
      BY <1>2
    <2>5. CASE k = n
      BY <2>1, <2>2, <2>3, <2>5, BucketsAssumption DEF Holds, EndsAtOrAfter
    <2>6. CASE k < n
      <3>1. buckets[k].max \in Nat /\ buckets[k].max < buckets[n].min
        BY <1>5, <1>7, <2>6
      <3>2. buckets[n].min <= buckets[n].max /\ buckets[n].min \in Nat
        BY <1>2, <1>5, <1>8
      <3>3. LastDay <= buckets[k].max
        BY <2>3, <3>1, BucketsAssumption DEF Holds, EndsAtOrAfter
      <3> QED BY <2>1, <2>2, <3>1, <3>2, <3>3
    <2> QED BY <2>4, <2>5, <2>6
  <1>10. ASSUME NEW i \in DOMAIN buckets, i > 1
         PROVE  buckets[i].min = buckets[i - 1].max + 1
    <2>1. i - 1 \in DOMAIN buckets /\ i - 1 < i
      BY <1>2, <1>10
    <2> DEFINE end == buckets[i - 1].max
    <2>2. end \in Nat /\ end < buckets[i].min /\ buckets[i].min \in Nat
      BY <1>2, <1>7, <2>1
    <2>3. SUFFICES ASSUME end + 1 < buckets[i].min PROVE FALSE
      BY <2>2
    <2>4. end < LastDay
      BY <1>3, <2>1, <2>2, BucketsAssumption
    <2> HIDE DEF end
    <2>5. end + 1 \in Days
      BY <2>2, <2>4, ConfigAssumption DEF Days
    <2>6. PICK k \in DOMAIN buckets : Holds(buckets[k], end + 1)
      BY <2>5 DEF OneBucketPerDay
    <2>7. k < i - 1 \/ k = i - 1 \/ k = i \/ i < k
      BY <1>2, <2>1
    <2>8. CASE k < i - 1
      <3>1. buckets[k].max \in Nat /\ buckets[k].max < buckets[i - 1].min
        BY <1>7, <2>1, <2>8
      <3>2. buckets[i - 1].min <= end /\ buckets[i - 1].min \in Nat
        BY <1>2, <1>8, <2>1, <2>2 DEF end
      <3>3. end + 1 <= buckets[k].max
        BY <2>6, <3>1, BucketsAssumption DEF Holds, EndsAtOrAfter
      <3> QED BY <2>2, <3>1, <3>2, <3>3
    <2>9. CASE k = i - 1
      <3>1. end = Unbounded \/ end + 1 <= end
        BY <2>6, <2>9 DEF Holds, EndsAtOrAfter, end
      <3> QED BY <2>2, <3>1, BucketsAssumption
    <2>10. CASE k = i
      BY <2>2, <2>3, <2>6, <2>10 DEF Holds
    <2>11. CASE i < k
      <3>1. buckets[i].min < buckets[k].min
        BY <2>11 DEF Upwards
      <3>2. buckets[k].min \in Nat /\ buckets[k].min <= end + 1
        BY <1>2, <2>6 DEF Holds
      <3> QED BY <2>2, <2>3, <3>1, <3>2
    <2> QED BY <2>7, <2>8, <2>9, <2>10, <2>11
  <1>11. ASSUME NEW i \in DOMAIN buckets, i < n
         PROVE  buckets[i].max \in Nat
    BY <1>5, <1>7, <1>11
  <1>12. ASSUME NEW i \in DOMAIN buckets
         PROVE  buckets[i].min = ExpectedMin(buckets, i)
    <2>1. i = 1 \/ i > 1
      BY <1>2
    <2> QED BY <1>6, <1>10, <2>1 DEF ExpectedMin
  <1>13. buckets # << >>
    BY <1>4
  <1>14. \A i \in DOMAIN buckets : i < n => buckets[i].max # Unbounded /\ buckets[i].min <= buckets[i].max
    BY <1>8, <1>11, BucketsAssumption
  <1>15. \A i \in DOMAIN buckets : i = n => buckets[i].max = Unbounded
    BY <1>9
  <1> QED BY <1>12, <1>13, <1>14, <1>15 DEF Tiles, n

(* _buckets_tile_the_day_line admits exactly the lists in which every day has
   one bucket and no bucket is empty, for lists of any length: bounded by the
   days the model looks at, which have to reach past the bounds in the file. *)
THEOREM TilingsAreAccepted ==
    ASSUME \A b \in Bounds : b < LastDay
    PROVE  Spec => []AcceptsExactlyTheTilings
  <1>1. AdmittedOnly => AcceptsExactlyTheTilings
    BY AdmittedTiles, TilesAreAdmitted DEF AdmittedOnly, AcceptsExactlyTheTilings
  <1> QED
    BY <1>1, InitAdmitted, StepAdmitted, PTL DEF Spec

=============================================================================
