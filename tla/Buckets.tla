------------------------------ MODULE Buckets ------------------------------
(***************************************************************************)
(* Advance-purchase buckets (models/features/buckets.py) and the validator *)
(* that admits a list of them (models/baseline/config.py).  A list of      *)
(* buckets is a sequence of [name, min, max]; max is Unbounded for the     *)
(* YAML null.  ap_bucket is the scalar path of predict(), ap_bucket_expr   *)
(* the polars path the history is labelled with; nothing but the validator *)
(* makes them agree.                                                       *)
(***************************************************************************)
EXTENDS Integers, Sequences

CONSTANTS
    Unbounded,    \* max_days: null
    NoBucket      \* ap_bucket raises; ap_bucket_expr gives null

ASSUME BucketsAssumption == Unbounded \notin Int

(* The first of a set of positions in the list. *)
First(S) == CHOOSE i \in S : \A j \in S : i <= j

NameOfFirst(buckets, S) == IF S = {} THEN NoBucket ELSE buckets[First(S)].name

(* bucket.max_days is None or d <= bucket.max_days *)
EndsAtOrAfter(bucket, d) == bucket.max = Unbounded \/ d <= bucket.max

Holds(bucket, d) == bucket.min <= d /\ EndsAtOrAfter(bucket, d)

(* Mutant: a bucket ends the day before its max_days. *)
ApBucketExclusive(buckets, d) ==
    IF d < 0 THEN NoBucket
    ELSE NameOfFirst(buckets, {i \in DOMAIN buckets :
                                  buckets[i].max = Unbounded \/ d < buckets[i].max})

(* ap_bucket: the first bucket that does not end before day d; a negative d
   and running off the end of the list both raise. *)
ApBucket(buckets, d) ==
    IF d < 0 THEN NoBucket
    ELSE NameOfFirst(buckets, {i \in DOMAIN buckets : EndsAtOrAfter(buckets[i], d)})

(* ap_bucket_expr: when/then built so that the first bucket holding d wins. *)
ApBucketExpr(buckets, d) ==
    NameOfFirst(buckets, {i \in DOMAIN buckets : Holds(buckets[i], d)})

(* expected_min at position i of the validator's loop. *)
ExpectedMin(buckets, i) == IF i = 1 THEN 0 ELSE buckets[i - 1].max + 1

UniqueNames(buckets) ==
    \A i, j \in DOMAIN buckets : buckets[i].name = buckets[j].name => i = j

(* Mutant: only adjacent buckets are compared; the first may start anywhere. *)
TilesFromAnywhere(buckets) ==
    /\ buckets # << >>
    /\ \A i \in DOMAIN buckets :
         /\ i < Len(buckets) => /\ buckets[i].max # Unbounded
                                /\ buckets[i].min <= buckets[i].max
         /\ i = Len(buckets) => buckets[i].max = Unbounded
         /\ i > 1 => buckets[i].min = ExpectedMin(buckets, i)
    /\ UniqueNames(buckets)

(* _buckets_tile_the_day_line accepts the list. *)
Tiles(buckets) ==
    /\ buckets # << >>
    /\ \A i \in DOMAIN buckets :
         /\ i < Len(buckets) => /\ buckets[i].max # Unbounded
                                /\ buckets[i].min <= buckets[i].max
         /\ i = Len(buckets) => buckets[i].max = Unbounded
         /\ buckets[i].min = ExpectedMin(buckets, i)
    /\ UniqueNames(buckets)

=============================================================================
