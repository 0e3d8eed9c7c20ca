--------------------------- MODULE BaselineConfig ---------------------------
(***************************************************************************)
(* load_baseline_config (models/baseline/config.py): one YAML file, edited *)
(* by people while processes run, parsed and validated by each process on  *)
(* first use and cached by it from then on.  lru_cache keeps a result and  *)
(* forgets an exception, so a process that met a broken file tries again.  *)
(* Of the file only the bucket list is modelled: it is the one part whose  *)
(* validation is more than a bound on one number.                          *)
(***************************************************************************)
EXTENDS Buckets

CONSTANTS
    Processes,    \* the predictor, the backtest, ...: each has its own cache
    Names, Bounds,\* bucket names and day numbers the file may hold
    MaxBuckets,   \* bound on the length of the list
    LastDay,      \* bound on the days checked
    MaxEdits      \* bound on the number of edits

ASSUME ConfigAssumption ==
    /\ NoBucket \notin Names
    /\ Bounds \subseteq Nat /\ MaxBuckets \in Nat /\ LastDay \in Nat /\ MaxEdits \in Nat

VARIABLES
    file,         \* the bucket list in config/baseline.yaml
    cache,        \* process -> the list it has loaded, or << >>
    raised,       \* process -> the last load raised
    edits

vars == <<file, cache, raised, edits>>

Days == 0..LastDay

(* min_days is ge=0; max_days has no bound of its own. *)
BucketSpecs == [name : Names, min : Bounds, max : Bounds \cup {Unbounded}]

Lists == UNION {[1..n -> BucketSpecs] : n \in 0..MaxBuckets}

Init ==
    /\ file \in Lists
    /\ cache = [p \in Processes |-> << >>]
    /\ raised = [p \in Processes |-> FALSE]
    /\ edits = 0

(* Somebody edits the file: one entry is replaced, added at the end or cut. *)
Edit ==
    /\ edits < MaxEdits
    /\ edits' = edits + 1
    /\ \/ \E i \in DOMAIN file, b \in BucketSpecs : file' = [file EXCEPT ![i] = b]
       \/ Len(file) < MaxBuckets /\ \E b \in BucketSpecs : file' = Append(file, b)
       \/ file # << >> /\ file' = SubSeq(file, 1, Len(file) - 1)
    /\ UNCHANGED <<cache, raised>>

(* Mutant: the file is read again on every call. *)
ReloadAlways(p) ==
    /\ IF Tiles(file)
         THEN cache' = [cache EXCEPT ![p] = file] /\ raised' = [raised EXCEPT ![p] = FALSE]
         ELSE UNCHANGED cache /\ raised' = [raised EXCEPT ![p] = TRUE]
    /\ UNCHANGED <<file, edits>>

(* A cached list is returned whatever the file says now. *)
Load(p) ==
    /\ IF cache[p] # << >> THEN UNCHANGED <<cache, raised>>
       ELSE IF Tiles(file)
         THEN cache' = [cache EXCEPT ![p] = file] /\ raised' = [raised EXCEPT ![p] = FALSE]
         ELSE UNCHANGED cache /\ raised' = [raised EXCEPT ![p] = TRUE]
    /\ UNCHANGED <<file, edits>>

Restart(p) ==
    /\ cache' = [cache EXCEPT ![p] = << >>]
    /\ raised' = [raised EXCEPT ![p] = FALSE]
    /\ UNCHANGED <<file, edits>>

Next == Edit \/ \E p \in Processes : Load(p) \/ Restart(p)

Spec == Init /\ [][Next]_vars

-----------------------------------------------------------------------------
(* Properties.                                                             *)

(* What the validator is for ("otherwise some days-to-departure value has no
   bucket, or two"): it admits a list exactly when the names differ, the list
   runs upwards and every day is held by one bucket. *)
OneBucketPerDay(buckets) ==
    \A d \in Days : \E i \in DOMAIN buckets :
        /\ Holds(buckets[i], d)
        /\ \A j \in DOMAIN buckets : Holds(buckets[j], d) => j = i

Upwards(buckets) ==
    \A i, j \in DOMAIN buckets : i < j => buckets[i].min < buckets[j].min

NoneEmpty(buckets) == \A i \in DOMAIN buckets : \E d \in Days : Holds(buckets[i], d)

AcceptsExactlyTheTilings ==
    Tiles(file) <=> /\ OneBucketPerDay(file) /\ Upwards(file)
                    /\ NoneEmpty(file) /\ UniqueNames(file)

(* The label the history carries and the one a prediction asks for are the
   same for every day, under any configuration a process can have loaded. *)
PathsAgree ==
    \A p \in Processes : cache[p] # << >> =>
        \A d \in Days : /\ ApBucket(cache[p], d) = ApBucketExpr(cache[p], d)
                        /\ ApBucket(cache[p], d) # NoBucket

(* A process never changes its mind: once it has loaded a list, that list is
   the one it uses until it restarts, edits of the file or not. *)
OneConfigPerRun ==
    [][\A p \in Processes :
         cache[p] # << >> /\ cache'[p] # << >> => cache'[p] = cache[p]]_vars

=============================================================================
