------------------------ MODULE SnapshotStoreProofs ------------------------
(***************************************************************************)
(* Theorems about SnapshotStore, in three parts: what holds whoever shares *)
(* a run with whom; what holds under the discipline that no two processes  *)
(* share an ingest_run_id; and that the store then implements the append-  *)
(* only history of FareHistory. They hold for any writers, readers,        *)
(* partitions, runs, batches and bounds.                                   *)
(***************************************************************************)
EXTENDS SnapshotStore, FiniteSetTheorems, WellFoundedInduction, TLAPS

-----------------------------------------------------------------------------
(***************************************************************************)
(* Part 1. What the locals of a call of write() are at each of its points, *)
(* the types, what a WriteResult reports and which rows reach which file,  *)
(* whoever shares a run with whom.                                         *)
(***************************************************************************)

(* What a batch deduplicates to is a finite set of rows of the batch, no
   larger than the batch (write(), lines 112-115). *)
LEMMA LastOfIsFinite ==
    ASSUME NEW batch \in Seq(Rows)
    PROVE  /\ LastOf(batch) \subseteq Rows
           /\ IsFiniteSet(LastOf(batch))
           /\ Cardinality(LastOf(batch)) <= Len(batch)
<1> DEFINE n == Len(batch)
           all == BatchRows(batch)
<1>1. n \in Nat /\ DOMAIN batch = 1..n /\ batch \in [1..n -> Rows]
  OBVIOUS
<1>2. IsFiniteSet(1..n) /\ Cardinality(1..n) = n
  BY <1>1, FS_Interval
<1>3. batch \in Surjection(1..n, all)
  BY <1>1 DEF Surjection, BatchRows
<1>4. IsFiniteSet(all) /\ Cardinality(all) <= n
  <2> HIDE DEF n, all
  <2> QED BY <1>2, <1>3, FS_Surjection
<1>5. LastOf(batch) \subseteq all /\ all \subseteq Rows
  BY <1>1 DEF LastOf, BatchRows
<1>6. IsFiniteSet(LastOf(batch)) /\ Cardinality(LastOf(batch)) <= Cardinality(all)
  BY <1>4, <1>5, FS_Subset
<1>7. Cardinality(LastOf(batch)) \in Nat /\ Cardinality(all) \in Nat
  BY <1>4, <1>6, FS_CardinalityType
<1> QED BY <1>1, <1>4, <1>5, <1>6, <1>7

(* A non-empty set of positions has a last one. *)
LEMMA HasLast ==
    ASSUME NEW n \in Nat, NEW S \in SUBSET (1..n), S # {}
    PROVE  \E m \in S : \A k \in S : k <= m
<1> DEFINE T == {k \in Nat : n - k \in S}
           R == OpToRel(<, Nat)
<1>1. T \subseteq Nat /\ T # {}
  <2>1. PICK k \in S : TRUE
    OBVIOUS
  <2>2. n - k \in Nat /\ n - (n - k) = k
    OBVIOUS
  <2> QED BY <2>1, <2>2
<1>2. IsWellFoundedOn(R, Nat)
  BY NatLessThanWellFounded
<1>3. \A x, y \in Nat : <<y, x>> \in R <=> y < x
  BY DEF OpToRel
<1>4. PICK t \in T : \A y \in T : ~ (<<y, t>> \in R)
  <2> HIDE DEF R, T
  <2> QED BY <1>1, <1>2, WFMin
<1>5. \A y \in T : ~ (y < t)
  BY <1>1, <1>3, <1>4
<1>6. n - t \in S
  BY <1>4
<1>7. ASSUME NEW k \in S PROVE k <= n - t
  <2>1. k \in Nat /\ n - k \in Nat /\ n - (n - k) = k
    OBVIOUS
  <2>2. n - k \in T /\ t \in Nat
    BY <2>1, <1>1, <1>4
  <2>3. ~ (n - k < t)
    BY <2>2, <1>5
  <2> HIDE DEF T
  <2> QED BY <2>1, <2>2, <2>3
<1> QED BY <1>6, <1>7

(* The dict of write() has one row for each id of the batch (lines 112-115). *)
LEMMA LastOfIsOnePerId ==
    ASSUME NEW batch \in Seq(Rows)
    PROVE  /\ {row.id : row \in LastOf(batch)} = {row.id : row \in BatchRows(batch)}
           /\ \A row, other \in LastOf(batch) : row.id = other.id => row = other
<1> DEFINE n == Len(batch)
<1>1. n \in Nat /\ DOMAIN batch = 1..n
  OBVIOUS
<1>2. ASSUME NEW i \in 1..n
      PROVE  \E row \in LastOf(batch) : row.id = batch[i].id
  <2> DEFINE S == {j \in 1..n : batch[j].id = batch[i].id}
  <2>1. PICK m \in S : \A k \in S : k <= m
    <3>1. S \in SUBSET (1..n) /\ i \in S
      OBVIOUS
    <3> HIDE DEF S, n
    <3> QED BY <1>1, <3>1, HasLast
  <2>2. \A k \in 1..n : k > m => batch[k].id # batch[m].id
    <3>1. m \in Nat /\ batch[m].id = batch[i].id
      OBVIOUS
    <3>2. ASSUME NEW k \in 1..n, k > m, batch[k].id = batch[m].id PROVE FALSE
      <4>1. k \in S
        BY <3>1, <3>2
      <4>2. k <= m
        BY <2>1, <4>1
      <4> QED BY <3>1, <3>2, <4>2
    <3> QED BY <3>2
  <2>3. batch[m] \in LastOf(batch)
    BY <1>1, <2>2 DEF LastOf
  <2> QED BY <2>3
<1>3. LastOf(batch) \subseteq BatchRows(batch)
  BY DEF LastOf, BatchRows
<1>4. ASSUME NEW row \in LastOf(batch), NEW other \in LastOf(batch), row.id = other.id
      PROVE  row = other
  <2>1. PICK i \in 1..n : /\ row = batch[i]
                          /\ \A k \in 1..n : k > i => batch[k].id # batch[i].id
    BY <1>1 DEF LastOf
  <2>2. PICK j \in 1..n : /\ other = batch[j]
                          /\ \A k \in 1..n : k > j => batch[k].id # batch[j].id
    BY <1>1 DEF LastOf
  <2>3. ~ (j > i) /\ ~ (i > j)
    BY <1>4, <2>1, <2>2
  <2>4. i = j
    BY <2>3, <1>1
  <2> QED BY <2>1, <2>2, <2>4
<1> QED BY <1>1, <1>2, <1>3, <1>4 DEF BatchRows

(* A batch has as many ids as its dict has rows. *)
LEMMA OneRecordPerId ==
    ASSUME NEW batch \in Seq(Rows)
    PROVE  Cardinality(LastOf(batch)) = Cardinality({row.id : row \in BatchRows(batch)})
<1> DEFINE rows == LastOf(batch)
           ids == {row.id : row \in LastOf(batch)}
           IdOf == [row \in rows |-> row.id]
<1>1. IsFiniteSet(rows)
  BY LastOfIsFinite
<1>2. IdOf \in Bijection(rows, ids)
  <2>1. IdOf \in Injection(rows, ids)
    BY LastOfIsOnePerId DEF Injection, IsInjective
  <2>2. IdOf \in Surjection(rows, ids)
    BY DEF Surjection
  <2> QED BY <2>1, <2>2 DEF Bijection
<1>3. Cardinality(rows) = Cardinality(ids)
  <2>1. ExistsBijection(rows, ids)
    BY <1>2 DEF ExistsBijection
  <2> HIDE DEF rows, ids
  <2> QED BY <1>1, <2>1, FS_Bijection
<1> QED BY <1>3, LastOfIsOnePerId

(* The groups of a batch partition what it deduplicates to (lines 118-125). *)
LEMMA GroupsPartitionTheBatch ==
    ASSUME NEW batch
    PROVE  /\ UNION {GroupRows(batch, key) : key \in Groups(batch)} = LastOf(batch)
           /\ \A g, h : g # h => GroupRows(batch, g) \cap GroupRows(batch, h) = {}
<1>1. \A row \in LastOf(batch) : KeyOf(row) \in Groups(batch)
  BY DEF Groups
<1>2. \A row \in LastOf(batch) : row \in GroupRows(batch, KeyOf(row))
  BY DEF GroupRows
<1>3. \A key : GroupRows(batch, key) \subseteq LastOf(batch)
  BY DEF GroupRows
<1>4. UNION {GroupRows(batch, key) : key \in Groups(batch)} = LastOf(batch)
  BY <1>1, <1>2, <1>3
<1>5. \A g, h : g # h => GroupRows(batch, g) \cap GroupRows(batch, h) = {}
  BY DEF GroupRows
<1> QED BY <1>4, <1>5

(* A batch that is not empty has a group: its last row is in the dict. *)
LEMMA SomeGroup ==
    ASSUME NEW batch \in Seq(Rows), batch # <<>>
    PROVE  Groups(batch) # {}
<1>1. Len(batch) \in DOMAIN batch /\ DOMAIN batch = 1..Len(batch) /\ Len(batch) \in Nat
  OBVIOUS
<1>2. \A k \in DOMAIN batch : ~ (k > Len(batch))
  BY <1>1
<1>3. batch[Len(batch)] \in LastOf(batch)
  BY <1>1, <1>2 DEF LastOf
<1> QED BY <1>3 DEF Groups

-----------------------------------------------------------------------------
(* What a call is about.                                                   *)

PathKey(p) == <<p.part, p.run>>

(* What the locals of a call are, at each point of write(). *)
LocalsAreConsistent(w) ==
    /\ pc[w] = "idle" => call[w] = NoCall
    /\ pc[w] = "planning" => call[w].done = 0 /\ call[w].todo # {}
    /\ pc[w] \in {"publishing", "writing"} => call[w].todo = {}
    /\ call[w].done <= Len(call[w].plan)
    /\ pc[w] = "writing" => call[w].done < Len(call[w].plan)

(* A call plans each group of its batch once, under a path of its own key. *)
PlanIsConsistent(w) ==
    /\ \A key \in call[w].todo : key[2] \in RunsOf(w)
    /\ \A i \in DOMAIN call[w].plan :
         /\ call[w].plan[i].path.run \in RunsOf(w)
         /\ PathKey(call[w].plan[i].path) \notin call[w].todo
         /\ call[w].plan[i].rows = GroupRows(call[w].batch, PathKey(call[w].plan[i].path))
    /\ \A i, j \in DOMAIN call[w].plan :
         i # j => PathKey(call[w].plan[i].path) # PathKey(call[w].plan[j].path)

(* The batch was validated, and each of its groups is planned or to be planned. *)
BatchIsCovered(w) ==
    /\ AllValid(call[w].batch)
    /\ Groups(call[w].batch) =
         call[w].todo \cup {PathKey(call[w].plan[i].path) : i \in DOMAIN call[w].plan}

CallInv(w) ==
    /\ LocalsAreConsistent(w)
    /\ PlanIsConsistent(w)
    /\ BatchIsCovered(w)

LInv == TypeOK /\ \A w \in Writers : CallInv(w)

-----------------------------------------------------------------------------
(* Type correctness.                                                       *)

(* Every batch is a sequence of rows. *)
LEMMA BatchesAreSequences == AnyBatch \subseteq Seq(Rows)
<1>1. ASSUME NEW w \in Writers PROVE Batches[w] \subseteq Seq(Rows)
  <2>1. Batches[w] \in SUBSET Seq(Rows)
    BY ConstantsAssumption
  <2> QED BY <2>1
<1>2. <<>> \in Seq(Rows)
  OBVIOUS
<1> QED BY <1>1, <1>2 DEF AnyBatch

LEMMA NoCallType == NoCall \in Calls
<1>1. <<>> \in Seq([path : Paths, rows : SUBSET Rows])
  OBVIOUS
<1> QED BY <1>1, ConstantsAssumption DEF NoCall, Calls, AnyBatch

FileOfPlan == [path : Paths, rows : SUBSET Rows]
Answers == [ok : BOOLEAN, rows : SUBSET Rows]

(* The locals of a call, field by field. *)
LEMMA CallFields ==
    ASSUME TypeOK, NEW w \in Writers
    PROVE  /\ call[w] \in Calls
           /\ call[w].batch \in AnyBatch /\ call[w].batch \in Seq(Rows)
           /\ call[w].todo \in SUBSET GroupKeys
           /\ call[w].attempt \in 1..MaxAttempt
           /\ call[w].plan \in Seq(FileOfPlan)
           /\ call[w].done \in Nat
<1>1. call[w] \in Calls
  BY DEF TypeOK
<1> QED BY <1>1, BatchesAreSequences DEF Calls, FileOfPlan

(* Replacing the locals of one call by well-typed locals. *)
LEMMA CallUpdate ==
    ASSUME TypeOK, NEW w \in Writers, NEW c \in Calls, call' = [call EXCEPT ![w] = c]
    PROVE  call' \in [Writers -> Calls]
BY DEF TypeOK

Scans == [floor : SUBSET (Paths \X SUBSET Rows), todo : SUBSET Paths, rows : SUBSET Rows]

(* Replacing what one reader is still to read, and what it has read. *)
LEMMA ScanUpdate ==
    ASSUME TypeOK, NEW r \in Readers, NEW todo \in SUBSET Paths, NEW rows \in SUBSET Rows,
           scan' = [scan EXCEPT ![r].todo = todo, ![r].rows = rows]
    PROVE  scan' \in [Readers -> Scans]
<1>1. scan \in [Readers -> Scans]
  BY DEF TypeOK, Scans
<1>2. scan' = [scan EXCEPT ![r] = [scan[r] EXCEPT !.todo = todo, !.rows = rows]]
  BY <1>1 DEF Scans
<1>3. [scan[r] EXCEPT !.todo = todo, !.rows = rows] \in Scans
  BY <1>1 DEF Scans
<1> HIDE DEF Scans
<1> QED BY <1>1, <1>2, <1>3

(* The rows of a file are rows, and only complete files have any. *)
LEMMA FileRows ==
    ASSUME TypeOK, NEW p \in Paths
    PROVE  disk[p].rows \in SUBSET Rows
<1>1. disk[p] \in Files
  BY DEF TypeOK
<1>2. CASE disk[p] \in {Absent, Torn}
  BY <1>2 DEF Absent, Torn
<1>3. CASE disk[p] \in {Whole(rows) : rows \in SUBSET Rows}
  BY <1>3 DEF Whole
<1> QED BY <1>1, <1>2, <1>3 DEF Files

(* Ending a read keeps the types of the reader's variables. *)
LEMMA EndReadType ==
    ASSUME TypeOK, NEW r \in Readers, NEW a \in Answers, EndRead(r, a)
    PROVE  /\ answers' \in [Readers -> Seq(Answers)]
           /\ rpc' \in [Readers -> {"idle", "targets", "glob", "files"}]
<1>1. answers \in [Readers -> Seq(Answers)]
  BY DEF TypeOK, Answers
<1>2. Append(answers[r], a) \in Seq(Answers)
  BY <1>1
<1> QED BY <1>1, <1>2 DEF EndRead, TypeOK

(* Ending a call keeps the types of the writer's variables. *)
LEMMA EndCallType ==
    ASSUME TypeOK, NEW w \in Writers, NEW o \in Outcomes, EndCall(w, o)
    PROVE  /\ returned' \in [Writers -> Seq(Outcomes)]
           /\ pc' \in [Writers -> {"idle", "planning", "publishing", "writing", "dead"}]
           /\ call' \in [Writers -> Calls]
BY NoCallType DEF TypeOK, EndCall

(* The rows a consistent call has planned are rows of its deduped batch. *)
LEMMA RowsPlannedFinite ==
    ASSUME TypeOK, NEW w \in Writers, PlanIsConsistent(w)
    PROVE  /\ Cardinality(RowsPlanned(call[w])) \in Nat
           /\ Len(call[w].batch) - Cardinality(LastOf(call[w].batch)) \in Int
<1>1. call[w].batch \in Seq(Rows)
  <2>1. call[w].batch \in AnyBatch
    BY DEF TypeOK, Calls
  <2> QED BY <2>1, BatchesAreSequences
<1>2. RowsPlanned(call[w]) \subseteq LastOf(call[w].batch)
  BY DEF RowsPlanned, PlanIsConsistent, GroupRows
<1>3. IsFiniteSet(LastOf(call[w].batch))
  BY <1>1, LastOfIsFinite
<1>4. IsFiniteSet(RowsPlanned(call[w]))
  BY <1>2, <1>3, FS_Subset
<1>5. Cardinality(LastOf(call[w].batch)) \in Nat /\ Cardinality(RowsPlanned(call[w])) \in Nat
  BY <1>3, <1>4, FS_CardinalityType
<1>6. Len(call[w].batch) \in Nat
  BY <1>1
<1> QED BY <1>5, <1>6

(* Every step keeps the types, one case per action. *)
LEMMA TypeNext ==
    ASSUME LInv, [Next]_vars
    PROVE  TypeOK'
<1>0. TypeOK /\ \A w \in Writers : LocalsAreConsistent(w) /\ PlanIsConsistent(w)
  BY DEF LInv, CallInv
<1> USE <1>0
<1>1. ASSUME NEW w \in Writers, WriteNothing(w) PROVE TypeOK'
  <2>1. Outcome("written", NoCall, 0, 0) \in Outcomes
    BY DEF Outcome, NoCall, Outcomes, AnyBatch
  <2> QED BY <1>1, <2>1, EndCallType DEF WriteNothing, TypeOK, readerVars
<1>2. ASSUME NEW w \in Writers, RefuseBatch(w) PROVE TypeOK'
  <2>1. PICK batch \in Batches[w] :
          EndCall(w, Outcome("invalid", [NoCall EXCEPT !.batch = batch], 0, 0))
    BY <1>2 DEF RefuseBatch
  <2>2. Outcome("invalid", [NoCall EXCEPT !.batch = batch], 0, 0) \in Outcomes
    BY DEF Outcome, NoCall, Outcomes, AnyBatch
  <2> QED BY <1>2, <2>1, <2>2, EndCallType DEF RefuseBatch, TypeOK, readerVars
<1>3. ASSUME NEW w \in Writers, AcceptBatch(w) PROVE TypeOK'
  <2>1. PICK batch \in Batches[w] :
          call' = [call EXCEPT ![w] = [NoCall EXCEPT !.batch = batch,
                                                     !.todo = Groups(batch)]]
    BY <1>3 DEF AcceptBatch
  <2>2. batch \in Seq(Rows)
    BY BatchesAreSequences DEF AnyBatch
  <2>3. Groups(batch) \in SUBSET GroupKeys
    BY <2>2, LastOfIsFinite, ConstantsAssumption DEF Groups, KeyOf, GroupKeys
  <2>4. [NoCall EXCEPT !.batch = batch, !.todo = Groups(batch)] \in Calls
    <3>1. NoCall \in Calls
      BY NoCallType
    <3>2. batch \in AnyBatch
      BY DEF AnyBatch
    <3> QED BY <2>3, <3>1, <3>2 DEF Calls
  <2>5. call' \in [Writers -> Calls]
    BY <2>1, <2>4, CallUpdate
  <2> QED BY <1>3, <2>5 DEF AcceptBatch, TypeOK, readerVars
<1>4. ASSUME NEW w \in Writers, Progress(w) PROVE TypeOK'
  <2>1. CASE ProbeTaken(w)
    <3>1. call[w].attempt + 1 \in 1..MaxAttempt
      BY <2>1, CallFields, ConstantsAssumption DEF ProbeTaken
    <3>2. call' = [call EXCEPT ![w] = [call[w] EXCEPT !.attempt = call[w].attempt + 1]]
      BY <2>1 DEF ProbeTaken
    <3>3. [call[w] EXCEPT !.attempt = call[w].attempt + 1] \in Calls
      BY <3>1, CallFields DEF Calls
    <3>4. call' \in [Writers -> Calls]
      BY <3>2, <3>3, CallUpdate
    <3> QED BY <2>1, <3>4 DEF ProbeTaken, TypeOK, readerVars
  <2>2. CASE PlanGroup(w)
    <3>1. PICK key \in GroupKeys :
            /\ call' = [call EXCEPT
                 ![w].plan = Append(@, [path |-> PartPath(key, call[w].attempt),
                                        rows |-> GroupRows(call[w].batch, key)]),
                 ![w].todo = @ \ {key},
                 ![w].attempt = 1]
            /\ pc' = [pc EXCEPT ![w] = IF call[w].todo = {key} THEN "publishing" ELSE @]
      BY <2>2 DEF PlanGroup
    <3>2. call[w] \in Calls /\ call[w].batch \in Seq(Rows)
      BY BatchesAreSequences DEF TypeOK, Calls
    <3>3. GroupRows(call[w].batch, key) \subseteq Rows
      BY <3>2, LastOfIsFinite DEF GroupRows
    <3>4. PartPath(key, call[w].attempt) \in Paths
      BY <3>2 DEF PartPath, Paths, GroupKeys, Calls
    <3> DEFINE file == [path |-> PartPath(key, call[w].attempt),
                        rows |-> GroupRows(call[w].batch, key)]
    <3>5. file \in [path : Paths, rows : SUBSET Rows]
      BY <3>3, <3>4
    <3> DEFINE c == [call[w] EXCEPT !.plan = Append(call[w].plan, file),
                                    !.todo = call[w].todo \ {key}, !.attempt = 1]
    <3>6. c \in Calls
      <4>1. Append(call[w].plan, file) \in Seq(FileOfPlan)
        <5>1. file \in FileOfPlan
          BY <3>5 DEF FileOfPlan
        <5> HIDE DEF file
        <5> QED BY <5>1, CallFields
      <4>2. call[w].todo \ {key} \in SUBSET GroupKeys /\ 1 \in 1..MaxAttempt
        BY CallFields, ConstantsAssumption
      <4> HIDE DEF file
      <4> QED BY <4>1, <4>2, <3>2 DEF Calls, FileOfPlan
    <3>7. call' \in [Writers -> Calls]
      <4>1. call' = [call EXCEPT ![w] = c]
        BY <3>1, <3>2 DEF TypeOK
      <4> HIDE DEF c, file
      <4> QED BY <3>6, <4>1, CallUpdate
    <3>8. pc' \in [Writers -> {"idle", "planning", "publishing", "writing", "dead"}]
      BY <3>1 DEF TypeOK
    <3> QED BY <2>2, <3>7, <3>8 DEF PlanGroup, TypeOK, readerVars
  <2>3. CASE OpenPart(w)
    BY <2>3 DEF OpenPart, TypeOK, readerVars, Files
  <2>4. CASE ClosePart(w)
    <3>1. LocalsAreConsistent(w)
      OBVIOUS
    <3>2. Current(w) \in [path : Paths, rows : SUBSET Rows]
      <4>1. call[w].plan \in Seq(FileOfPlan) /\ call[w].done \in Nat
        BY CallFields
      <4>2. call[w].done < Len(call[w].plan)
        BY <2>4, <3>1 DEF ClosePart, LocalsAreConsistent
      <4>3. call[w].plan[call[w].done + 1] \in FileOfPlan
        BY <4>1, <4>2
      <4> QED BY <4>3 DEF Current, FileOfPlan
    <3>3. disk' \in [Paths -> Files]
      BY <2>4, <3>2 DEF ClosePart, TypeOK, Files
    <3>4. call' \in [Writers -> Calls]
      <4>1. call' = [call EXCEPT ![w] = [call[w] EXCEPT !.done = call[w].done + 1]]
        BY <2>4 DEF ClosePart
      <4>2. [call[w] EXCEPT !.done = call[w].done + 1] \in Calls
        <5>1. call[w].done + 1 \in Nat
          BY CallFields
        <5> QED BY <5>1, CallFields DEF Calls
      <4> QED BY <4>1, <4>2, CallUpdate
    <3> QED BY <2>4, <3>3, <3>4 DEF ClosePart, TypeOK, readerVars
  <2>5. CASE Return(w)
    <3> DEFINE o == Outcome("written", call[w], Cardinality(RowsPlanned(call[w])),
                      Len(call[w].batch) - Cardinality(LastOf(call[w].batch)))
    <3>1. o \in Outcomes
      BY RowsPlannedFinite, CallFields DEF Outcome, Outcomes, FileOfPlan
    <3>2. EndCall(w, o) /\ UNCHANGED <<disk, handle, readerVars>>
      BY <2>5 DEF Return
    <3> HIDE DEF o
    <3> QED BY <3>1, <3>2, EndCallType DEF TypeOK, readerVars
  <2> QED BY <1>4, <2>1, <2>2, <2>3, <2>4, <2>5 DEF Progress
<1>5. ASSUME NEW w \in Writers, Failure(w) PROVE TypeOK'
  <2>1. \A kind \in {"unplanned", "failed"} : Outcome(kind, call[w], 0, 0) \in Outcomes
    <3>1. call[w].batch \in AnyBatch /\ call[w].plan \in Seq([path : Paths, rows : SUBSET Rows])
      BY CallFields DEF FileOfPlan
    <3> QED BY <3>1 DEF Outcome, Outcomes
  <2>2. CASE PlanFails(w)
    BY <2>1, <2>2, EndCallType DEF PlanFails, TypeOK, readerVars
  <2>3. CASE MkdirFails(w)
    BY <2>1, <2>3, EndCallType DEF MkdirFails, TypeOK, readerVars
  <2>4. CASE PartFails(w)
    <3>1. disk' \in [Paths -> Files]
      BY <2>4 DEF PartFails, TypeOK, Files
    <3>2. handle' \in [Writers -> {"none", "sole", "mixed", "unlinked"}]
      BY <2>4 DEF PartFails, TypeOK
    <3> QED BY <2>1, <2>4, <3>1, <3>2, EndCallType DEF PartFails, TypeOK, readerVars
  <2>5. CASE Crash(w)
    BY <2>5 DEF Crash, TypeOK, readerVars
  <2> QED BY <1>5, <2>2, <2>3, <2>4, <2>5 DEF Failure
<1>6. ASSUME NEW r \in Readers, BeginRead(r) PROVE TypeOK'
  <2>1. Published \subseteq Paths \X SUBSET Rows
    BY FileRows DEF Published
  <2> QED BY <1>6, <2>1 DEF BeginRead, TypeOK, NoScan, writerVars
<1>7. ASSUME NEW r \in Readers, ReaderStep(r) PROVE TypeOK'
  <2>1. Failed \in Answers /\ \A rows \in SUBSET Rows : Found(rows) \in Answers
    BY DEF Failed, Found, Answers
  <2>2. CASE NoTargets(r)
    BY <2>1, <2>2, EndReadType, ConstantsAssumption
       DEF NoTargets, TypeOK, writerVars, Answers
  <2>3. CASE SomeTargets(r)
    BY <2>3 DEF SomeTargets, TypeOK, writerVars
  <2>4. CASE ExpandGlob(r)
    <3>1. CASE PartFiles = {}
      BY <2>1, <2>4, <3>1, EndReadType DEF ExpandGlob, TypeOK, writerVars, Answers
    <3>2. CASE PartFiles # {}
      <4>1. PartFiles \subseteq Paths
        BY DEF PartFiles
      <4>2. scan' \in [Readers -> Scans]
        BY <2>4, <3>2, <4>1, ScanUpdate, ConstantsAssumption DEF ExpandGlob
      <4> QED BY <2>4, <3>2, <4>2 DEF ExpandGlob, TypeOK, writerVars, Scans
    <3> QED BY <3>1, <3>2
  <2>5. CASE ReadPart(r)
    <3>1. PICK p \in scan[r].todo :
            IF disk[p].state = "whole"
              THEN /\ scan' = [scan EXCEPT ![r].todo = @ \ {p},
                                           ![r].rows = @ \cup disk[p].rows]
                   /\ UNCHANGED <<rpc, answers>>
              ELSE EndRead(r, Failed) /\ UNCHANGED scan
      BY <2>5 DEF ReadPart
    <3>2. disk[p].rows \in SUBSET Rows
      BY FileRows DEF TypeOK
    <3>3. CASE disk[p].state = "whole"
      <4>1. /\ scan[r].todo \ {p} \in SUBSET Paths
            /\ scan[r].rows \cup disk[p].rows \in SUBSET Rows
        BY <3>2 DEF TypeOK
      <4>2. scan' = [scan EXCEPT ![r].todo = scan[r].todo \ {p},
                                 ![r].rows = scan[r].rows \cup disk[p].rows]
        BY <3>1, <3>3 DEF TypeOK
      <4>3. scan' \in [Readers -> Scans]
        BY <4>1, <4>2, ScanUpdate
      <4> QED BY <2>5, <3>1, <3>3, <4>3 DEF ReadPart, TypeOK, writerVars, Scans
    <3>4. CASE disk[p].state # "whole"
      BY <2>1, <2>5, <3>1, <3>4, EndReadType DEF ReadPart, TypeOK, writerVars, Answers
    <3> QED BY <3>3, <3>4
  <2>6. CASE FinishRead(r)
    <3>1. scan[r].rows \in SUBSET Rows
      BY DEF TypeOK
    <3> QED BY <2>1, <2>6, <3>1, EndReadType DEF FinishRead, TypeOK, writerVars, Answers
  <2> QED BY <1>7, <2>2, <2>3, <2>4, <2>5, <2>6 DEF ReaderStep
<1>8. ASSUME UNCHANGED vars PROVE TypeOK'
  BY <1>8 DEF TypeOK, vars, writerVars, readerVars
<1> QED BY <1>1, <1>2, <1>3, <1>4, <1>5, <1>6, <1>7, <1>8 DEF Next

-----------------------------------------------------------------------------
(* The locals of a call, step by step.                                     *)

(* A writer whose locals a step leaves alone. *)
LEMMA CallStays ==
    ASSUME NEW x \in Writers, CallInv(x), call'[x] = call[x], pc'[x] = pc[x]
    PROVE  CallInv(x)'
BY DEF CallInv, LocalsAreConsistent, PlanIsConsistent, BatchIsCovered

(* A writer whose call ends. *)
LEMMA CallIsOver ==
    ASSUME TypeOK, NEW x \in Writers, NEW o, EndCall(x, o)
    PROVE  CallInv(x)'
<1>1. call'[x] = NoCall /\ pc'[x] = "idle"
  BY DEF EndCall, TypeOK
<1>2. AllValid(<<>>) /\ Groups(<<>>) = {}
  BY DEF AllValid, BatchRows, Groups, LastOf
<1> QED BY <1>1, <1>2
        DEF CallInv, LocalsAreConsistent, PlanIsConsistent, BatchIsCovered, NoCall

(* What PlanGroup does to the locals: a group of todo is appended to the plan,
   under the candidate path, which is free. *)
PlansOne(x, key, file, n) ==
    /\ file.path = PartPath(key, call[x].attempt) /\ PathKey(file.path) = key
    /\ file.path.run = key[2] /\ disk[file.path] = Absent
    /\ file.rows = GroupRows(call[x].batch, key)
    /\ call'[x].todo = call[x].todo \ {key}
    /\ call'[x].done = call[x].done /\ call'[x].batch = call[x].batch
    /\ pc'[x] = IF call[x].todo = {key} THEN "publishing" ELSE "planning"
    /\ n \in Nat /\ DOMAIN call[x].plan = 1..n
    /\ call'[x].plan = Append(call[x].plan, file)
    /\ DOMAIN call'[x].plan = 1..(n + 1) /\ Len(call'[x].plan) = n + 1
    /\ \A i \in 1..n : call'[x].plan[i] = call[x].plan[i]
    /\ call'[x].plan[n + 1] = file

LEMMA PlanGroupLocals ==
    ASSUME TypeOK, NEW x \in Writers, PlanGroup(x), NEW n, n = Len(call[x].plan)
    PROVE  \E key \in call[x].todo, file \in FileOfPlan : PlansOne(x, key, file, n)
<1>1. PICK key \in GroupKeys :
        /\ IsNextGroup(x, key)
        /\ ~Exists(PartPath(key, call[x].attempt))
        /\ call' = [call EXCEPT
             ![x].plan = Append(@, [path |-> PartPath(key, call[x].attempt),
                                    rows |-> GroupRows(call[x].batch, key)]),
             ![x].todo = @ \ {key},
             ![x].attempt = 1]
        /\ pc' = [pc EXCEPT ![x] = IF call[x].todo = {key} THEN "publishing" ELSE @]
  BY DEF PlanGroup
<1> DEFINE file == [path |-> PartPath(key, call[x].attempt),
                    rows |-> GroupRows(call[x].batch, key)]
<1>2. key \in call[x].todo /\ pc[x] = "planning"
  BY <1>1 DEF IsNextGroup, PlanGroup
<1>3. file \in FileOfPlan
  <2>1. PartPath(key, call[x].attempt) \in Paths
    BY CallFields DEF PartPath, Paths, GroupKeys
  <2>2. GroupRows(call[x].batch, key) \subseteq Rows
    BY CallFields, LastOfIsFinite DEF GroupRows
  <2> QED BY <2>1, <2>2 DEF FileOfPlan
<1>4. /\ call'[x].plan = Append(call[x].plan, file)
      /\ call'[x].todo = call[x].todo \ {key}
      /\ call'[x].done = call[x].done /\ call'[x].batch = call[x].batch
      /\ pc'[x] = IF call[x].todo = {key} THEN "publishing" ELSE "planning"
  BY <1>1, <1>2 DEF TypeOK, Calls
<1>5. call[x].plan \in Seq(FileOfPlan)
  BY CallFields
<1>6. /\ n \in Nat /\ DOMAIN call[x].plan = 1..n
      /\ DOMAIN call'[x].plan = 1..(n + 1) /\ Len(call'[x].plan) = n + 1
      /\ \A i \in 1..n : call'[x].plan[i] = call[x].plan[i]
      /\ call'[x].plan[n + 1] = file
  <2> HIDE DEF file
  <2> QED BY <1>3, <1>4, <1>5
<1>7. /\ file.path = PartPath(key, call[x].attempt) /\ PathKey(file.path) = key
      /\ file.path.run = key[2] /\ disk[file.path] = Absent
      /\ file.rows = GroupRows(call[x].batch, key)
  BY <1>1 DEF PathKey, PartPath, GroupKeys, Exists
<1> HIDE DEF file
<1> QED BY <1>2, <1>3, <1>4, <1>6, <1>7 DEF PlansOne

(* Planning a group keeps the account of which groups are planned. *)
LEMMA PlanGroupKeepsCall ==
    ASSUME TypeOK, NEW x \in Writers, CallInv(x), PlanGroup(x)
    PROVE  CallInv(x)'
<1>1. LocalsAreConsistent(x) /\ PlanIsConsistent(x) /\ BatchIsCovered(x)
  BY DEF CallInv
<1> PICK n : n = Len(call[x].plan)
  OBVIOUS
<1>2. PICK key \in call[x].todo, file \in FileOfPlan : PlansOne(x, key, file, n)
  BY PlanGroupLocals
<1> USE <1>2 DEF PlansOne
<1>3. \A i \in 1..(n + 1) : i \in 1..n \/ i = n + 1
  BY <1>2
<1>4. n + 1 \in 1..(n + 1) /\ 1..n \subseteq 1..(n + 1)
  BY <1>2
<1>5. LocalsAreConsistent(x)'
  <2>1. call[x].done = 0
    BY <1>1 DEF PlanGroup, LocalsAreConsistent
  <2> QED BY <1>2, <2>1 DEF LocalsAreConsistent
<1>6. \A i \in 1..n : PathKey(call[x].plan[i].path) # key
  BY <1>1, <1>2 DEF PlanIsConsistent
<1>7. PlanIsConsistent(x)'
  <2>1. \A g \in call'[x].todo : g[2] \in RunsOf(x)
    BY <1>1, <1>2 DEF PlanIsConsistent
  <2>2. ASSUME NEW i \in 1..n
        PROVE  /\ call'[x].plan[i].path.run \in RunsOf(x)
               /\ PathKey(call'[x].plan[i].path) \notin call'[x].todo
               /\ call'[x].plan[i].rows =
                    GroupRows(call'[x].batch, PathKey(call'[x].plan[i].path))
    BY <1>1, <1>2 DEF PlanIsConsistent
  <2>3. key[2] \in RunsOf(x)
    BY <1>1 DEF PlanIsConsistent
  <2>4. ASSUME NEW i \in 1..n, NEW j \in 1..n, i # j
        PROVE  PathKey(call'[x].plan[i].path) # PathKey(call'[x].plan[j].path)
    BY <1>1, <1>2, <2>4 DEF PlanIsConsistent
  <2>5. \A i \in DOMAIN call'[x].plan :
          /\ call'[x].plan[i].path.run \in RunsOf(x)
          /\ PathKey(call'[x].plan[i].path) \notin call'[x].todo
          /\ call'[x].plan[i].rows =
               GroupRows(call'[x].batch, PathKey(call'[x].plan[i].path))
    BY <1>2, <1>3, <2>2, <2>3
  <2>6. \A i, j \in DOMAIN call'[x].plan :
          i # j => PathKey(call'[x].plan[i].path) # PathKey(call'[x].plan[j].path)
    BY <1>2, <1>3, <1>6, <2>4
  <2> QED BY <2>1, <2>5, <2>6 DEF PlanIsConsistent
<1>8. BatchIsCovered(x)'
  <2>1. {PathKey(call'[x].plan[i].path) : i \in DOMAIN call'[x].plan} =
          {PathKey(call[x].plan[i].path) : i \in DOMAIN call[x].plan} \cup {key}
    BY <1>2, <1>3, <1>4
  <2> QED BY <1>1, <1>2, <2>1 DEF BatchIsCovered
<1> QED BY <1>5, <1>7, <1>8 DEF CallInv

(* Every step keeps the account of every call, one case per action. *)
LEMMA CallInvNext ==
    ASSUME LInv, [Next]_vars, NEW x \in Writers
    PROVE  CallInv(x)'
<1>0. TypeOK /\ CallInv(x)
  BY DEF LInv
<1>1. CASE UNCHANGED writerVars
  BY <1>0, <1>1, CallStays DEF writerVars
<1>2. ASSUME NEW r \in Readers, BeginRead(r) \/ ReaderStep(r)
      PROVE  CallInv(x)'
  <2>1. UNCHANGED writerVars
    BY <1>2 DEF BeginRead, ReaderStep, NoTargets, SomeTargets, ExpandGlob, ReadPart, FinishRead
  <2> QED BY <1>1, <2>1
<1>3. ASSUME NEW w \in Writers \ {x},
             \/ WriteNothing(w) \/ RefuseBatch(w) \/ AcceptBatch(w)
             \/ Progress(w) \/ Failure(w)
      PROVE  CallInv(x)'
  <2>1. call'[x] = call[x] /\ pc'[x] = pc[x]
    BY <1>0, <1>3 DEF WriteNothing, RefuseBatch, AcceptBatch, Progress, Failure, ProbeTaken,
       PlanGroup, OpenPart, ClosePart, Return, PlanFails, MkdirFails, PartFails, Crash,
       EndCall, TypeOK
  <2> QED BY <1>0, <2>1, CallStays
<1>4. ASSUME \/ WriteNothing(x) \/ RefuseBatch(x) \/ Return(x)
             \/ PlanFails(x) \/ MkdirFails(x) \/ PartFails(x)
      PROVE  CallInv(x)'
  <2>1. PICK o : EndCall(x, o)
    BY <1>4 DEF WriteNothing, RefuseBatch, Return, PlanFails, MkdirFails, PartFails
  <2> QED BY <1>0, <2>1, CallIsOver
<1>5. ASSUME AcceptBatch(x) PROVE CallInv(x)'
  <2>1. PICK batch \in Batches[x] :
          /\ batch # <<>> /\ AllValid(batch)
          /\ call' = [call EXCEPT ![x] = [NoCall EXCEPT !.batch = batch,
                                                        !.todo = Groups(batch)]]
    BY <1>5 DEF AcceptBatch
  <2>2. /\ call'[x].todo = Groups(batch) /\ call'[x].plan = << >> /\ call'[x].done = 0
        /\ call'[x].batch = batch /\ pc'[x] = "planning"
    BY <1>0, <1>5, <2>1 DEF AcceptBatch, NoCall, TypeOK
  <2>3. \A key \in Groups(batch) : key[2] \in RunsOf(x)
    <3>1. LastOf(batch) \subseteq BatchRows(batch)
      BY DEF LastOf, BatchRows
    <3> QED BY <3>1 DEF Groups, KeyOf, RunsOf
  <2>4. Groups(batch) # {}
    <3>1. batch \in Seq(Rows)
      BY BatchesAreSequences DEF AnyBatch
    <3> QED BY <2>1, <3>1, SomeGroup
  <2> QED BY <2>1, <2>2, <2>3, <2>4
          DEF CallInv, LocalsAreConsistent, PlanIsConsistent, BatchIsCovered
<1>6. ASSUME ProbeTaken(x) \/ OpenPart(x) \/ ClosePart(x) \/ Crash(x)
      PROVE  CallInv(x)'
  <2>1. /\ call'[x].todo = call[x].todo /\ call'[x].plan = call[x].plan
        /\ call'[x].batch = call[x].batch
    BY <1>0, <1>6 DEF ProbeTaken, OpenPart, ClosePart, Crash, TypeOK, Calls
  <2>2. PlanIsConsistent(x)' /\ BatchIsCovered(x)'
    BY <1>0, <2>1 DEF CallInv, PlanIsConsistent, BatchIsCovered
  <2>3. LocalsAreConsistent(x)'
    <3>0. LocalsAreConsistent(x) /\ call[x].done \in Nat /\ call[x].plan \in Seq(FileOfPlan)
      BY <1>0, CallFields DEF CallInv
    <3>1. CASE ProbeTaken(x)
      <4>1. call'[x].done = call[x].done /\ pc' = pc /\ pc[x] = "planning"
        BY <1>0, <3>1 DEF ProbeTaken, TypeOK, Calls
      <4> QED BY <2>1, <3>0, <4>1 DEF LocalsAreConsistent
    <3>2. CASE OpenPart(x)
      BY <1>0, <3>0, <3>2 DEF OpenPart, MorePlanned, TypeOK, LocalsAreConsistent
    <3>3. CASE ClosePart(x)
      <4>1. call'[x].done = call[x].done + 1 /\ pc'[x] = "publishing" /\ pc[x] = "writing"
        BY <1>0, <3>3 DEF ClosePart, TypeOK, Calls
      <4> QED BY <2>1, <3>0, <4>1 DEF LocalsAreConsistent
    <3>4. CASE Crash(x)
      BY <1>0, <3>0, <3>4 DEF Crash, TypeOK, LocalsAreConsistent
    <3> QED BY <1>6, <3>1, <3>2, <3>3, <3>4
  <2> QED BY <2>2, <2>3 DEF CallInv
<1>7. ASSUME PlanGroup(x) PROVE CallInv(x)'
  BY <1>0, <1>7, PlanGroupKeepsCall
<1>8. CASE UNCHANGED vars
  BY <1>1, <1>8 DEF vars
<1> QED
  BY <1>2, <1>3, <1>4, <1>5, <1>6, <1>7, <1>8 DEF Next, Progress, Failure

LEMMA InitLInv == Init => LInv
<1> SUFFICES ASSUME Init PROVE LInv
  OBVIOUS
<1>1. TypeOK
  BY NoCallType, ConstantsAssumption DEF Init, TypeOK, Files, Absent, NoScan
<1>2. AllValid(<<>>) /\ Groups(<<>>) = {}
  BY DEF AllValid, BatchRows, Groups, LastOf
<1>3. ASSUME NEW w \in Writers PROVE CallInv(w)
  BY <1>2 DEF Init, NoCall, CallInv, LocalsAreConsistent, PlanIsConsistent, BatchIsCovered
<1> QED BY <1>1, <1>3 DEF LInv

(* In every reachable state a call has planned what its batch and its
   position in write() say, whoever else writes. *)
THEOREM CallsAreConsistent == Spec => []LInv
<1>1. Init => LInv
  BY InitLInv
<1>2. LInv /\ [Next]_vars => LInv'
  BY TypeNext, CallInvNext DEF LInv
<1> QED BY <1>1, <1>2, PTL DEF Spec

(* Every variable of the store keeps its type, whatever the writers do. *)
THEOREM TypeCorrect == Spec => []TypeOK
<1>1. LInv => TypeOK
  BY DEF LInv
<1> QED BY <1>1, CallsAreConsistent, PTL

-----------------------------------------------------------------------------
(* What a WriteResult reports.                                             *)

(* A call that has published everything it planned accounts for its batch. *)
LEMMA PlanAccountsForBatch ==
    ASSUME LInv, NEW w \in Writers, call[w].todo = {}, NEW c, c = call[w]
    PROVE  /\ \A i, j \in DOMAIN c.plan :
                i # j => /\ c.plan[i].path # c.plan[j].path
                         /\ c.plan[i].rows \cap c.plan[j].rows = {}
           /\ RowsPlanned(c) = LastOf(c.batch)
           /\ c.batch \in Seq(Rows)
<1>1. PlanIsConsistent(w) /\ BatchIsCovered(w) /\ TypeOK
  BY DEF LInv, CallInv
<1>2. \A i, j \in DOMAIN c.plan : i # j => PathKey(c.plan[i].path) # PathKey(c.plan[j].path)
  BY <1>1 DEF PlanIsConsistent
<1>3. \A i \in DOMAIN c.plan : c.plan[i].rows = GroupRows(c.batch, PathKey(c.plan[i].path))
  BY <1>1 DEF PlanIsConsistent
<1>4. Groups(c.batch) = {PathKey(c.plan[i].path) : i \in DOMAIN c.plan}
  BY <1>1 DEF BatchIsCovered
<1>5. RowsPlanned(c) = UNION {GroupRows(c.batch, key) : key \in Groups(c.batch)}
  BY <1>3, <1>4 DEF RowsPlanned
<1>6. RowsPlanned(c) = LastOf(c.batch)
  BY <1>5, GroupsPartitionTheBatch
<1>7. \A i, j \in DOMAIN c.plan :
        i # j => /\ c.plan[i].path # c.plan[j].path
                 /\ c.plan[i].rows \cap c.plan[j].rows = {}
  BY <1>2, <1>3, GroupsPartitionTheBatch
<1> QED BY <1>1, <1>6, <1>7, CallFields

(* AckAccountsForBatch, of one outcome. *)
Accounts(o) ==
    /\ \A i, j \in DOMAIN o.plan :
          i # j => /\ o.plan[i].path # o.plan[j].path
                   /\ o.plan[i].rows \cap o.plan[j].rows = {}
    /\ RowsPlanned(o) = LastOf(o.batch)
    /\ {row.id : row \in RowsPlanned(o)} = {row.id : row \in BatchRows(o.batch)}
    /\ o.records = Cardinality({row.id : row \in BatchRows(o.batch)})
    /\ o.records + o.dropped = Len(o.batch)

(* The result Return builds, and the one of an empty batch, account. *)
LEMMA ReturnedAccounts ==
    ASSUME LInv, NEW w \in Writers, pc[w] = "publishing"
    PROVE  Accounts(Outcome("written", call[w], Cardinality(RowsPlanned(call[w])),
                       Len(call[w].batch) - Cardinality(LastOf(call[w].batch))))
<1> DEFINE c == call[w]
           o == Outcome("written", c, Cardinality(RowsPlanned(c)),
                        Len(c.batch) - Cardinality(LastOf(c.batch)))
<1>1. call[w].todo = {}
  BY DEF LInv, CallInv, LocalsAreConsistent
<1>2. /\ \A i, j \in DOMAIN c.plan :
            i # j => /\ c.plan[i].path # c.plan[j].path
                     /\ c.plan[i].rows \cap c.plan[j].rows = {}
      /\ RowsPlanned(c) = LastOf(c.batch) /\ c.batch \in Seq(Rows)
  BY <1>1, PlanAccountsForBatch
<1>3. /\ o.plan = c.plan /\ o.batch = c.batch
      /\ o.records = Cardinality(RowsPlanned(c))
      /\ o.dropped = Len(c.batch) - Cardinality(LastOf(c.batch))
      /\ RowsPlanned(o) = RowsPlanned(c)
  BY DEF Outcome, RowsPlanned
<1>4. Cardinality(LastOf(c.batch)) \in Nat /\ Len(c.batch) \in Nat
  BY <1>2, LastOfIsFinite, FS_CardinalityType
<1> HIDE DEF o, c
<1>5. o.records + o.dropped = Len(o.batch)
  BY <1>2, <1>3, <1>4
<1>6. /\ {row.id : row \in RowsPlanned(o)} = {row.id : row \in BatchRows(o.batch)}
      /\ o.records = Cardinality({row.id : row \in BatchRows(o.batch)})
  BY <1>2, <1>3, LastOfIsOnePerId, OneRecordPerId
<1>7. Accounts(o)
  BY <1>2, <1>3, <1>5, <1>6 DEF Accounts
<1> QED BY <1>7 DEF o, c

LEMMA NothingAccounts == Accounts(Outcome("written", NoCall, 0, 0))
<1> DEFINE o == Outcome("written", NoCall, 0, 0)
<1>1. o.plan = <<>> /\ o.batch = <<>> /\ o.records = 0 /\ o.dropped = 0
  BY DEF Outcome, NoCall
<1> HIDE DEF o
<1>2. RowsPlanned(o) = {} /\ LastOf(o.batch) = {} /\ BatchRows(o.batch) = {}
  BY <1>1 DEF RowsPlanned, LastOf, BatchRows
<1>3. Cardinality({row.id : row \in BatchRows(o.batch)}) = 0
  <2>1. {row.id : row \in BatchRows(o.batch)} = {}
    BY <1>2
  <2> QED BY <2>1, FS_EmptySet
<1>4. Accounts(o)
  BY <1>1, <1>2, <1>3 DEF Accounts
<1> QED BY <1>4 DEF o

(* A call that ends adds its outcome to those of its writer. *)
LEMMA CallEndsInOutcome ==
    ASSUME TypeOK, NEW x \in Writers, NEW o, EndCall(x, o)
    PROVE  OutcomesOf(x)' = OutcomesOf(x) \cup {o}
<1>1. returned'[x] = Append(returned[x], o) /\ returned[x] \in Seq(Outcomes)
  BY DEF EndCall, TypeOK
<1>2. /\ DOMAIN returned'[x] = 1..(Len(returned[x]) + 1)
      /\ \A i \in 1..Len(returned[x]) : returned'[x][i] = returned[x][i]
      /\ returned'[x][Len(returned[x]) + 1] = o
      /\ DOMAIN returned[x] = 1..Len(returned[x]) /\ Len(returned[x]) \in Nat
  BY <1>1
<1>3. \A i \in 1..(Len(returned[x]) + 1) :
        i \in 1..Len(returned[x]) \/ i = Len(returned[x]) + 1
  BY <1>2
<1>4. Len(returned[x]) + 1 \in 1..(Len(returned[x]) + 1)
      /\ 1..Len(returned[x]) \subseteq 1..(Len(returned[x]) + 1)
  BY <1>2
<1> QED BY <1>2, <1>3, <1>4 DEF OutcomesOf

(* How a step changes what a writer has returned. *)
LEMMA ReturnedGrows ==
    ASSUME LInv, [Next]_vars, NEW x \in Writers
    PROVE  \/ returned'[x] = returned[x]
           \/ \E o : /\ OutcomesOf(x)' = OutcomesOf(x) \cup {o}
                     /\ EndCall(x, o)
                     /\ \/ WriteNothing(x) /\ o = Outcome("written", NoCall, 0, 0)
                        \/ /\ Return(x)
                           /\ o = Outcome("written", call[x], Cardinality(RowsPlanned(call[x])),
                                Len(call[x].batch) - Cardinality(LastOf(call[x].batch)))
                        \/ (MkdirFails(x) \/ PartFails(x)) /\ o = Outcome("failed", call[x], 0, 0)
                        \/ PlanFails(x) /\ o.kind = "unplanned"
                        \/ RefuseBatch(x) /\ o.kind = "invalid"
<1>0. TypeOK /\ returned[x] \in Seq(Outcomes)
  BY DEF LInv, TypeOK
<1>1. ASSUME NEW o, EndCall(x, o)
      PROVE  OutcomesOf(x)' = OutcomesOf(x) \cup {o}
  BY <1>0, <1>1, CallEndsInOutcome
<1>2. ASSUME NEW r \in Readers, BeginRead(r) \/ ReaderStep(r)
      PROVE  returned'[x] = returned[x]
  BY <1>2 DEF BeginRead, ReaderStep, NoTargets, SomeTargets, ExpandGlob, ReadPart, FinishRead,
              writerVars
<1>3. ASSUME NEW w \in Writers \ {x},
             \/ WriteNothing(w) \/ RefuseBatch(w) \/ AcceptBatch(w)
             \/ Progress(w) \/ Failure(w)
      PROVE  returned'[x] = returned[x]
  BY <1>0, <1>3 DEF WriteNothing, RefuseBatch, AcceptBatch, Progress, Failure, ProbeTaken,
     PlanGroup, OpenPart, ClosePart, Return, PlanFails, MkdirFails, PartFails, Crash,
     EndCall, TypeOK
<1>4. ASSUME \/ AcceptBatch(x) \/ ProbeTaken(x) \/ PlanGroup(x) \/ OpenPart(x)
             \/ ClosePart(x) \/ Crash(x)
      PROVE  returned'[x] = returned[x]
  BY <1>4 DEF AcceptBatch, ProbeTaken, PlanGroup, OpenPart, ClosePart, Crash
<1>5. ASSUME RefuseBatch(x) PROVE \E o : EndCall(x, o) /\ o.kind = "invalid"
  <2>1. PICK batch : EndCall(x, Outcome("invalid", [NoCall EXCEPT !.batch = batch], 0, 0))
    BY <1>5 DEF RefuseBatch
  <2>2. Outcome("invalid", [NoCall EXCEPT !.batch = batch], 0, 0).kind = "invalid"
    BY DEF Outcome
  <2> QED BY <2>1, <2>2
<1>6. ASSUME PlanFails(x) PROVE \E o : EndCall(x, o) /\ o.kind = "unplanned"
  <2>1. Outcome("unplanned", call[x], 0, 0).kind = "unplanned"
    BY DEF Outcome
  <2> QED BY <1>6, <2>1 DEF PlanFails
<1>7. CASE UNCHANGED vars
  BY <1>7 DEF vars, writerVars
<1>8. CASE WriteNothing(x)
  BY <1>1, <1>8 DEF WriteNothing
<1>9. CASE Return(x)
  BY <1>1, <1>9 DEF Return
<1>10. CASE MkdirFails(x) \/ PartFails(x)
  BY <1>1, <1>10 DEF MkdirFails, PartFails
<1>11. CASE PlanFails(x)
  BY <1>1, <1>6, <1>11
<1>12. CASE RefuseBatch(x)
  BY <1>1, <1>5, <1>12
<1> QED
  BY <1>2, <1>3, <1>4, <1>7, <1>8, <1>9, <1>10, <1>11, <1>12 DEF Next, Progress, Failure

(* A WriteResult adds up: files distinct, every id of the batch in one of
   them, records_written plus duplicates_dropped the size of the batch. *)
THEOREM ResultsAddUp == Spec => []AckAccountsForBatch
<1>1. Init => AckAccountsForBatch
  BY DEF Init, AckAccountsForBatch, WrittenBy, OutcomesOf
<1>2. LInv /\ AckAccountsForBatch /\ [Next]_vars => AckAccountsForBatch'
  <2> SUFFICES ASSUME LInv, AckAccountsForBatch, [Next]_vars,
                      NEW x \in Writers, NEW a \in WrittenBy(x)'
               PROVE  Accounts(a)
    BY DEF AckAccountsForBatch, Accounts, RowsPlanned
  <2>1. CASE a \in WrittenBy(x)
    BY <2>1 DEF AckAccountsForBatch, Accounts
  <2>2. CASE a \notin WrittenBy(x)
    <3>1. a \in OutcomesOf(x)' /\ a.kind = "written" /\ a \notin OutcomesOf(x)
      BY <2>2 DEF WrittenBy
    <3>2. returned'[x] # returned[x]
      BY <3>1 DEF OutcomesOf
    <3>3. PICK o :
            /\ OutcomesOf(x)' = OutcomesOf(x) \cup {o}
            /\ \/ WriteNothing(x) /\ o = Outcome("written", NoCall, 0, 0)
               \/ /\ Return(x)
                  /\ o = Outcome("written", call[x], Cardinality(RowsPlanned(call[x])),
                                Len(call[x].batch) - Cardinality(LastOf(call[x].batch)))
               \/ o.kind \in {"failed", "unplanned", "invalid"}
      BY <3>2, ReturnedGrows DEF Outcome
    <3>4. o = a
      BY <3>1, <3>3
    <3> QED BY <3>1, <3>3, <3>4, ReturnedAccounts, NothingAccounts DEF Return
  <2> QED BY <2>1, <2>2
<1> QED BY <1>1, <1>2, CallsAreConsistent, PTL DEF Spec

-----------------------------------------------------------------------------
(* Which batches reach the disk, and which rows which file.                *)

(* The step that changes a file is one of the writer that is at it. *)
LEMMA WhoChangesAFile ==
    ASSUME LInv, [Next]_vars, NEW p \in Paths, disk'[p] # disk[p]
    PROVE  \E w \in Writers :
             /\ pc[w] \in {"publishing", "writing"}
             /\ call[w].done + 1 \in DOMAIN call[w].plan /\ p = Target(w)
             /\ \/ OpenPart(w) /\ disk'[p] = Torn
                \/ ClosePart(w) /\ disk'[p] \in {Torn, Whole(Current(w).rows)}
                \/ PartFails(w) /\ disk'[p] = Absent
<1>0. TypeOK
  BY DEF LInv
<1>1. ASSUME NEW w \in Writers,
             \/ WriteNothing(w) \/ RefuseBatch(w) \/ AcceptBatch(w)
             \/ ProbeTaken(w) \/ PlanGroup(w) \/ Return(w)
             \/ PlanFails(w) \/ MkdirFails(w) \/ Crash(w)
      PROVE  FALSE
  BY <1>1 DEF WriteNothing, RefuseBatch, AcceptBatch, ProbeTaken, PlanGroup, Return,
              PlanFails, MkdirFails, Crash
<1>2. ASSUME NEW r \in Readers, BeginRead(r) \/ ReaderStep(r)
      PROVE  FALSE
  BY <1>2 DEF BeginRead, ReaderStep, NoTargets, SomeTargets, ExpandGlob, ReadPart, FinishRead
<1>3. CASE UNCHANGED vars
  BY <1>3 DEF vars
<1>4. PICK w \in Writers : OpenPart(w) \/ ClosePart(w) \/ PartFails(w)
  BY <1>1, <1>2, <1>3 DEF Next, Progress, Failure
<1>5. pc[w] \in {"publishing", "writing"} /\ call[w].done < Len(call[w].plan)
  BY <1>4 DEF OpenPart, ClosePart, PartFails, MorePlanned, LInv, CallInv, LocalsAreConsistent
<1>6. call[w].done + 1 \in DOMAIN call[w].plan
  BY <1>0, <1>5, CallFields
<1>7. CASE OpenPart(w)
  <2>1. disk' = [disk EXCEPT ![Target(w)] = Torn]
    BY <1>7 DEF OpenPart
  <2> QED BY <1>0, <1>5, <1>6, <1>7, <2>1 DEF TypeOK
<1>8. CASE ClosePart(w)
  <2>1. \/ disk' = [disk EXCEPT ![Target(w)] = Whole(Current(w).rows)]
        \/ disk' = [disk EXCEPT ![Target(w)] = Torn]
        \/ disk' = disk
    BY <1>8 DEF ClosePart
  <2> QED BY <1>0, <1>5, <1>6, <1>8, <2>1 DEF TypeOK
<1>9. CASE PartFails(w)
  <2>1. disk' = [disk EXCEPT ![Target(w)] = Absent] \/ disk' = disk
    BY <1>9 DEF PartFails
  <2> QED BY <1>0, <1>5, <1>6, <1>9, <2>1 DEF TypeOK
<1> QED BY <1>4, <1>7, <1>8, <1>9

(* A call, or an outcome of one, that a part file at p can come from. *)
Vouches(w, p) ==
    \/ /\ p \in PathsOf(call[w])
       /\ call[w].todo = {}
       /\ AllValid(call[w].batch)
    \/ \E o \in OutcomesOf(w) :
          p \in PathsOf(o) /\ o.kind \in {"written", "failed"} /\ AllValid(o.batch)

LEMMA VouchStays ==
    ASSUME LInv, [Next]_vars, NEW x \in Writers, NEW p, Vouches(x, p)
    PROVE  Vouches(x, p)'
<1>0. TypeOK /\ CallInv(x)
  BY DEF LInv
<1>1. OutcomesOf(x) \subseteq OutcomesOf(x)'
  BY ReturnedGrows DEF OutcomesOf
<1>2. CASE \E o \in OutcomesOf(x) :
             p \in PathsOf(o) /\ o.kind \in {"written", "failed"} /\ AllValid(o.batch)
  BY <1>1, <1>2 DEF Vouches, PathsOf, AllValid, BatchRows
<1>3. CASE /\ p \in PathsOf(call[x])
           /\ call[x].todo = {}
           /\ AllValid(call[x].batch)
  <2>1. pc[x] # "idle" /\ pc[x] # "planning"
    BY <1>0, <1>3 DEF CallInv, LocalsAreConsistent, PathsOf, NoCall
  <2>2. CASE /\ call'[x].plan = call[x].plan /\ call'[x].todo = call[x].todo
             /\ call'[x].batch = call[x].batch
    BY <1>3, <2>2 DEF Vouches, PathsOf
  <2>3. ASSUME NEW kind \in {"written", "failed"}, NEW m, NEW n,
               Outcome(kind, call[x], m, n) \in OutcomesOf(x)'
        PROVE  Vouches(x, p)'
    <3> DEFINE o == Outcome(kind, call[x], m, n)
    <3>1. o.plan = call[x].plan /\ o.batch = call[x].batch /\ o.kind = kind
      BY DEF Outcome
    <3>2. p \in PathsOf(o) /\ AllValid(o.batch)
      BY <1>3, <3>1 DEF PathsOf
    <3>3. o \in OutcomesOf(x)'
      BY <2>3
    <3> HIDE DEF o
    <3> QED BY <3>1, <3>2, <3>3 DEF Vouches, PathsOf, AllValid, BatchRows
  <2>4. CASE returned'[x] # returned[x]
    <3>1. PICK o :
            /\ OutcomesOf(x)' = OutcomesOf(x) \cup {o}
            /\ \/ o = Outcome("written", call[x], Cardinality(RowsPlanned(call[x])),
                        Len(call[x].batch) - Cardinality(LastOf(call[x].batch)))
               \/ o = Outcome("failed", call[x], 0, 0)
      BY <2>1, <2>4, ReturnedGrows DEF WriteNothing, RefuseBatch, PlanFails, CanCall
    <3> QED BY <2>3, <3>1
  <2>5. ASSUME NEW w \in Writers \ {x},
               \/ WriteNothing(w) \/ RefuseBatch(w) \/ AcceptBatch(w)
               \/ Progress(w) \/ Failure(w)
        PROVE  call'[x] = call[x]
    BY <1>0, <2>5 DEF WriteNothing, RefuseBatch, AcceptBatch, Progress, Failure, ProbeTaken,
       PlanGroup, OpenPart, ClosePart, Return, PlanFails, MkdirFails, PartFails, Crash,
       EndCall, TypeOK
  <2>6. ASSUME NEW r \in Readers, BeginRead(r) \/ ReaderStep(r)
        PROVE  call'[x] = call[x]
    BY <2>6 DEF BeginRead, ReaderStep, NoTargets, SomeTargets, ExpandGlob, ReadPart,
                FinishRead, writerVars
  <2>7. CASE OpenPart(x) \/ ClosePart(x) \/ Crash(x)
    <3>1. /\ call'[x].plan = call[x].plan /\ call'[x].todo = call[x].todo
          /\ call'[x].batch = call[x].batch
      BY <1>0, <2>7 DEF OpenPart, ClosePart, Crash, TypeOK, Calls
    <3> QED BY <2>2, <3>1
  <2>8. CASE WriteNothing(x) \/ RefuseBatch(x) \/ AcceptBatch(x) \/ ProbeTaken(x)
             \/ PlanGroup(x) \/ PlanFails(x)
    BY <2>1, <2>8 DEF WriteNothing, RefuseBatch, AcceptBatch, CanCall, ProbeTaken, PlanGroup,
                      PlanFails
  <2>9. CASE Return(x) \/ MkdirFails(x) \/ PartFails(x)
    <3>1. PICK kind \in {"written", "failed"} :
            \E m, n : EndCall(x, Outcome(kind, call[x], m, n))
      BY <2>9 DEF Return, MkdirFails, PartFails
    <3> PICK m, n : EndCall(x, Outcome(kind, call[x], m, n))
      BY <3>1
    <3>2. returned'[x] = Append(returned[x], Outcome(kind, call[x], m, n))
          /\ returned[x] \in Seq(Outcomes)
      BY <1>0 DEF EndCall, TypeOK
    <3>3. Len(returned'[x]) # Len(returned[x])
      BY <3>2
    <3> QED BY <2>4, <3>3
  <2>10. CASE UNCHANGED vars
    BY <2>2, <2>10 DEF vars, writerVars
  <2> QED BY <2>2, <2>5, <2>6, <2>7, <2>8, <2>9, <2>10 DEF Next, Progress, Failure
<1> QED BY <1>2, <1>3 DEF Vouches

(* A part file, even a torn one, is where a batch that validated as a whole
   and was planned to its last group put it - also when several processes
   share a run. *)
THEOREM RefusedBatchesLeaveNothing == Spec => []OnlyWholeBatchesReachDisk
<1>1. Init => OnlyWholeBatchesReachDisk
  BY DEF Init, OnlyWholeBatchesReachDisk, PartFiles
<1>2. LInv /\ OnlyWholeBatchesReachDisk /\ [Next]_vars => OnlyWholeBatchesReachDisk'
  <2> SUFFICES ASSUME LInv, OnlyWholeBatchesReachDisk, [Next]_vars, NEW p \in PartFiles'
               PROVE  \E w \in Writers : Vouches(w, p)'
    BY DEF OnlyWholeBatchesReachDisk, Vouches, PathsOf, AllValid, BatchRows
  <2>1. CASE p \in PartFiles
    BY <2>1, VouchStays DEF OnlyWholeBatchesReachDisk, Vouches
  <2>2. CASE p \notin PartFiles
    <3>1. p \in Paths /\ disk'[p] # Absent /\ disk'[p] # disk[p]
      BY <2>2 DEF PartFiles
    <3>2. PICK w \in Writers :
            /\ pc[w] \in {"publishing", "writing"}
            /\ call[w].done + 1 \in DOMAIN call[w].plan /\ p = Target(w)
      BY <3>1, WhoChangesAFile
    <3>3. Vouches(w, p)
      BY <3>2 DEF Vouches, PathsOf, Target, Current, LInv, CallInv, LocalsAreConsistent,
                  BatchIsCovered
    <3> QED BY <3>3, VouchStays
  <2> QED BY <2>1, <2>2
<1> QED BY <1>1, <1>2, CallsAreConsistent, PTL DEF Spec

(* A complete file holds one group of one batch, the group of its path. *)
FilesHoldGroups ==
    \A p \in Paths : disk[p].state = "whole" =>
        \E batch \in Seq(Rows) : disk[p].rows = GroupRows(batch, PathKey(p))

LEMMA FilesHoldGroupsNext ==
    ASSUME LInv, FilesHoldGroups, [Next]_vars
    PROVE  FilesHoldGroups'
<1> SUFFICES ASSUME NEW p \in Paths, disk'[p].state = "whole"
             PROVE  \E batch \in Seq(Rows) : disk'[p].rows = GroupRows(batch, PathKey(p))
  BY DEF FilesHoldGroups
<1>1. CASE disk'[p] = disk[p]
  BY <1>1 DEF FilesHoldGroups
<1>2. CASE disk'[p] # disk[p]
  <2>1. PICK w \in Writers :
          /\ call[w].done + 1 \in DOMAIN call[w].plan /\ p = Target(w)
          /\ disk'[p] \in {Torn, Absent, Whole(Current(w).rows)}
    BY <1>2, WhoChangesAFile
  <2>2. disk'[p].rows = Current(w).rows
    BY <2>1 DEF Torn, Absent, Whole
  <2>3. Current(w).rows = GroupRows(call[w].batch, PathKey(p))
    BY <2>1 DEF Current, Target, LInv, CallInv, PlanIsConsistent
  <2>4. call[w].batch \in Seq(Rows)
    BY CallFields DEF LInv
  <2> QED BY <2>2, <2>3, <2>4
<1> QED BY <1>1, <1>2

(* Every row of a complete file belongs to the partition and run of its path
   and is the only one there with its id - also when several processes share
   a run and write into the same file. *)
THEOREM PathsDescribeTheirRows == Spec => []RowsAreWhereTheirPathSays
<1>1. Init => FilesHoldGroups
  BY DEF Init, FilesHoldGroups, Absent
<1>2. LInv /\ FilesHoldGroups /\ [Next]_vars => FilesHoldGroups'
  BY FilesHoldGroupsNext
<1>3. FilesHoldGroups => RowsAreWhereTheirPathSays
  <2> SUFFICES ASSUME FilesHoldGroups, NEW part \in Published, NEW row \in part[2]
               PROVE  /\ PartOf[row.id] = part[1].part /\ row.run = part[1].run
                      /\ \A other \in part[2] : other.id = row.id => other = row
    BY DEF RowsAreWhereTheirPathSays
  <2>1. PICK p \in Paths : disk[p].state = "whole" /\ part = <<p, disk[p].rows>>
    BY DEF Published
  <2>2. PICK batch \in Seq(Rows) : disk[p].rows = GroupRows(batch, PathKey(p))
    BY <2>1 DEF FilesHoldGroups
  <2>3. \A r \in part[2] : r \in LastOf(batch) /\ KeyOf(r) = PathKey(p)
    BY <2>1, <2>2 DEF GroupRows
  <2>4. PartOf[row.id] = p.part /\ row.run = p.run
    BY <2>3 DEF KeyOf, PathKey
  <2> QED BY <2>1, <2>3, <2>4, LastOfIsOnePerId
<1> QED BY <1>1, <1>2, <1>3, CallsAreConsistent, PTL DEF Spec

-----------------------------------------------------------------------------
(***************************************************************************)
(* Part 2. Under the discipline that no two processes share an             *)
(* ingest_run_id: what is acknowledged stays on disk, and no step changes  *)
(* a complete file.                                                        *)
(***************************************************************************)

-----------------------------------------------------------------------------
(* The inductive invariant: whose file is whose and what is in it.          *)

(* A writer has its file to itself for as long as it has it open. *)
HandleIsSole(w) == handle[w] = IF pc[w] = "writing" THEN "sole" ELSE "none"

(* The file of a group is complete once written, torn while it is being
   written and absent before. *)
FileState(w, i) ==
    IF i <= call[w].done THEN Whole(call[w].plan[i].rows)
    ELSE IF i = call[w].done + 1 /\ pc[w] = "writing" THEN Torn
    ELSE Absent

FilesAreConsistent(w) ==
    pc[w] # "dead" =>
        \A i \in DOMAIN call[w].plan : disk[call[w].plan[i].path] = FileState(w, i)

AcksAreConsistent(w) ==
    \A o \in WrittenBy(w) : \A i \in DOMAIN o.plan :
        disk[o.plan[i].path] = Whole(o.plan[i].rows)

WriterInv(w) ==
    /\ HandleIsSole(w)
    /\ FilesAreConsistent(w)
    /\ AcksAreConsistent(w)

IInv == LInv /\ \A w \in Writers : WriterInv(w)

-----------------------------------------------------------------------------
(* Whose file is whose.                                                    *)

(* The file a writer is at is its own, is not one it has already written,
   and is either absent or torn. *)
LEMMA TargetIsFresh ==
    ASSUME IInv, NEW w \in Writers, pc[w] \in {"publishing", "writing"}, MorePlanned(w)
    PROVE  /\ call[w].done + 1 \in DOMAIN call[w].plan
           /\ Target(w) \in Paths
           /\ Current(w).rows \in SUBSET Rows
           /\ Target(w).run \in RunsOf(w)
           /\ disk[Target(w)] = IF pc[w] = "writing" THEN Torn ELSE Absent
           /\ \A i \in DOMAIN call[w].plan :
                i # call[w].done + 1 => call[w].plan[i].path # Target(w)
<1> DEFINE k == call[w].done + 1
<1>1. call[w].plan \in Seq(FileOfPlan) /\ call[w].done \in Nat
  BY CallFields DEF IInv, LInv
<1>2. k \in DOMAIN call[w].plan
  BY <1>1 DEF MorePlanned
<1>3. Target(w) = call[w].plan[k].path /\ Current(w) = call[w].plan[k]
  BY DEF Target, Current
<1>4. call[w].plan[k] \in FileOfPlan
  BY <1>1, <1>2
<1>5. PlanIsConsistent(w) /\ FilesAreConsistent(w)
  BY DEF IInv, WriterInv, LInv, CallInv
<1>6. FileState(w, k) = IF pc[w] = "writing" THEN Torn ELSE Absent
  BY <1>1 DEF FileState
<1>7. disk[call[w].plan[k].path] = FileState(w, k)
  BY <1>2, <1>5 DEF FilesAreConsistent
<1> HIDE DEF k
<1>8. call[w].plan[k].path.run \in RunsOf(w)
  BY <1>2, <1>5 DEF PlanIsConsistent
<1>9. \A i \in DOMAIN call[w].plan : i # k => call[w].plan[i].path # call[w].plan[k].path
  BY <1>2, <1>5 DEF PlanIsConsistent
<1>10. QED
  BY <1>2, <1>3, <1>4, <1>6, <1>7, <1>8, <1>9 DEF FileOfPlan, k

(* No other writer plans, or has open, the file a writer is at. *)
LEMMA TargetIsPrivate ==
    ASSUME PrivateRuns, IInv, NEW w \in Writers, pc[w] \in {"publishing", "writing"},
           MorePlanned(w)
    PROVE  /\ \A x \in Writers \ {w} : \A i \in DOMAIN call[x].plan :
                call[x].plan[i].path # Target(w)
           /\ OthersOn(w, Target(w)) = {}
<1>1. ASSUME NEW x \in Writers \ {w}, NEW i \in DOMAIN call[x].plan
      PROVE  call[x].plan[i].path # Target(w)
  <2>1. call[x].plan[i].path.run \in RunsOf(x)
    BY DEF IInv, LInv, CallInv, PlanIsConsistent
  <2>2. Target(w).run \in RunsOf(w)
    BY TargetIsFresh
  <2>3. RunsOf(w) \cap RunsOf(x) = {}
    BY DEF PrivateRuns
  <2> QED BY <2>1, <2>2, <2>3
<1>2. ASSUME NEW x \in Writers \ {w}, handle[x] \in {"sole", "mixed"}
      PROVE  Target(x) # Target(w)
  <2>1. pc[x] = "writing" /\ call[x].done < Len(call[x].plan)
    BY <1>2 DEF IInv, WriterInv, HandleIsSole, LInv, CallInv, LocalsAreConsistent
  <2>2. call[x].done + 1 \in DOMAIN call[x].plan
    BY <2>1, TargetIsFresh DEF MorePlanned
  <2> QED BY <1>1, <2>2 DEF Target, Current
<1> QED BY <1>1, <1>2 DEF OthersOn

(* A step leaves every file alone but the one its writer is at. *)
LEMMA OnlyTargetChanges ==
    ASSUME IInv, [Next]_vars
    PROVE  \/ UNCHANGED disk
           \/ \E w \in Writers :
                /\ pc[w] \in {"publishing", "writing"} /\ MorePlanned(w)
                /\ \A p \in Paths \ {Target(w)} : disk'[p] = disk[p]
<1>0. TypeOK /\ \A w \in Writers : LocalsAreConsistent(w)
  BY DEF IInv, LInv, CallInv
<1>1. ASSUME NEW w \in Writers, OpenPart(w) \/ ClosePart(w) \/ PartFails(w)
      PROVE  /\ pc[w] \in {"publishing", "writing"} /\ MorePlanned(w)
             /\ \A p \in Paths \ {Target(w)} : disk'[p] = disk[p]
  <2>1. pc[w] \in {"publishing", "writing"} /\ MorePlanned(w)
    BY <1>0, <1>1 DEF OpenPart, ClosePart, PartFails, MorePlanned, LocalsAreConsistent
  <2> QED BY <1>0, <1>1, <2>1 DEF OpenPart, ClosePart, PartFails, TypeOK
<1>2. ASSUME NEW w \in Writers,
             \/ WriteNothing(w) \/ RefuseBatch(w) \/ AcceptBatch(w)
             \/ ProbeTaken(w) \/ PlanGroup(w) \/ Return(w)
             \/ PlanFails(w) \/ MkdirFails(w) \/ Crash(w)
      PROVE  UNCHANGED disk
  BY <1>2 DEF WriteNothing, RefuseBatch, AcceptBatch, ProbeTaken, PlanGroup, Return,
              PlanFails, MkdirFails, Crash
<1>3. ASSUME NEW r \in Readers, BeginRead(r) \/ ReaderStep(r)
      PROVE  UNCHANGED disk
  BY <1>3 DEF BeginRead, ReaderStep, NoTargets, SomeTargets, ExpandGlob, ReadPart, FinishRead
<1>4. CASE UNCHANGED vars
  BY <1>4 DEF vars
<1> QED BY <1>1, <1>2, <1>3, <1>4 DEF Next, Progress, Failure

(* Hence no step touches a complete file. *)
LEMMA CompleteStays ==
    ASSUME IInv, [Next]_vars
    PROVE  CompleteIsForever
<1>1. CASE UNCHANGED disk
  BY <1>1 DEF CompleteIsForever
<1>2. ASSUME NEW w \in Writers, pc[w] \in {"publishing", "writing"}, MorePlanned(w),
             \A p \in Paths \ {Target(w)} : disk'[p] = disk[p]
      PROVE  CompleteIsForever
  <2>1. disk[Target(w)].state # "whole"
    BY <1>2, TargetIsFresh DEF Torn, Absent
  <2> QED BY <1>2, <2>1 DEF CompleteIsForever
<1> QED BY <1>1, <1>2, OnlyTargetChanges

-----------------------------------------------------------------------------
(* The invariant of one writer, over a step of another and of its own.     *)

(* An acknowledged file stays as it was acknowledged. *)
LEMMA AckStays ==
    ASSUME IInv, CompleteIsForever, NEW w \in Writers, NEW o \in WrittenBy(w),
           NEW i \in DOMAIN o.plan
    PROVE  disk'[o.plan[i].path] = Whole(o.plan[i].rows)
<1>1. disk[o.plan[i].path] = Whole(o.plan[i].rows)
  BY DEF IInv, WriterInv, AcksAreConsistent
<1>2. o.plan[i].path \in Paths
  <2>1. returned[w] \in Seq(Outcomes)
    BY DEF IInv, LInv, TypeOK
  <2>2. o \in Outcomes
    BY <2>1 DEF WrittenBy, OutcomesOf
  <2>3. o.plan \in Seq(FileOfPlan)
    BY <2>2 DEF Outcomes, FileOfPlan
  <2>4. o.plan[i] \in FileOfPlan
    BY <2>3
  <2> QED BY <2>4 DEF FileOfPlan
<1> QED BY <1>1, <1>2 DEF CompleteIsForever, Whole

(* A writer whose locals and planned files a step leaves alone. *)
LEMMA Bystander ==
    ASSUME IInv, NEW x \in Writers, CompleteIsForever,
           call'[x] = call[x], pc'[x] = pc[x], handle'[x] = handle[x],
           returned'[x] = returned[x],
           \A i \in DOMAIN call[x].plan :
               disk'[call[x].plan[i].path] = disk[call[x].plan[i].path]
    PROVE  WriterInv(x)'
<1>1. WriterInv(x)
  BY DEF IInv
<1>2. HandleIsSole(x)' /\ FilesAreConsistent(x)'
  BY <1>1 DEF WriterInv, HandleIsSole, FilesAreConsistent, FileState
<1>3. AcksAreConsistent(x)'
  <2>1. WrittenBy(x)' = WrittenBy(x)
    BY DEF WrittenBy, OutcomesOf
  <2> QED BY <2>1, AckStays DEF AcksAreConsistent
<1> QED BY <1>2, <1>3 DEF WriterInv

(* A writer whose call ends; what it acknowledges is on disk. *)
LEMMA CallEnds ==
    ASSUME IInv, NEW w \in Writers, NEW o, EndCall(w, o), CompleteIsForever,
           handle'[w] = "none",
           o.kind = "written" => \A i \in DOMAIN o.plan :
                                   disk'[o.plan[i].path] = Whole(o.plan[i].rows)
    PROVE  WriterInv(w)'
<1>1. WriterInv(w) /\ TypeOK
  BY DEF IInv, LInv
<1>2. call'[w] = NoCall /\ pc'[w] = "idle" /\ returned'[w] = Append(returned[w], o)
  BY <1>1 DEF EndCall, TypeOK
<1>3. HandleIsSole(w)' /\ FilesAreConsistent(w)'
  BY <1>2 DEF HandleIsSole, FilesAreConsistent, NoCall
<1>4. AcksAreConsistent(w)'
  <2>1. OutcomesOf(w)' = OutcomesOf(w) \cup {o}
    BY <1>1, CallEndsInOutcome
  <2>2. ASSUME NEW a \in WrittenBy(w)', NEW i \in DOMAIN a.plan
        PROVE  disk'[a.plan[i].path] = Whole(a.plan[i].rows)
    <3>1. CASE a \in WrittenBy(w)
      BY <1>1, <3>1, AckStays DEF WriterInv, AcksAreConsistent
    <3>2. CASE a = o
      BY <2>2, <3>2 DEF WrittenBy
    <3> QED BY <2>1, <2>2, <3>1, <3>2 DEF WrittenBy
  <2> QED BY <2>2 DEF AcksAreConsistent
<1> QED BY <1>3, <1>4 DEF WriterInv

(* The planned files of a writer after its current file was opened or closed. *)
LEMMA OwnFiles ==
    ASSUME IInv, NEW x \in Writers, pc[x] \in {"publishing", "writing"}, MorePlanned(x),
           call'[x].plan = call[x].plan,
           \/ /\ pc[x] = "publishing" /\ pc'[x] = "writing"
              /\ call'[x].done = call[x].done
              /\ disk' = [disk EXCEPT ![Target(x)] = Torn]
           \/ /\ pc[x] = "writing" /\ pc'[x] = "publishing"
              /\ call'[x].done = call[x].done + 1
              /\ disk' = [disk EXCEPT ![Target(x)] = Whole(Current(x).rows)]
    PROVE  FilesAreConsistent(x)'
<1>1. TypeOK /\ FilesAreConsistent(x)
  BY DEF IInv, WriterInv, LInv
<1>2. call[x].plan \in Seq(FileOfPlan) /\ call[x].done \in Nat
  BY <1>1, CallFields
<1> PICK k \in Nat : k = call[x].done + 1
  BY <1>2
<1>3. /\ k \in DOMAIN call[x].plan /\ Target(x) \in Paths
      /\ call[x].plan[k].path = Target(x) /\ call[x].plan[k].rows = Current(x).rows
      /\ \A i \in DOMAIN call[x].plan : i # k => call[x].plan[i].path # Target(x)
  BY TargetIsFresh DEF Target, Current
<1>4. ASSUME NEW i \in DOMAIN call[x].plan, i # k
      PROVE  disk'[call[x].plan[i].path] = FileState(x, i)'
  <2>1. call[x].plan[i] \in FileOfPlan /\ i \in Nat
    BY <1>2
  <2>2. disk'[call[x].plan[i].path] = disk[call[x].plan[i].path]
    BY <1>1, <1>3, <1>4, <2>1 DEF TypeOK, FileOfPlan
  <2>3. disk[call[x].plan[i].path] = FileState(x, i)
    BY <1>1 DEF FilesAreConsistent
  <2>4. FileState(x, i)' = FileState(x, i)
    BY <1>2, <1>4, <2>1 DEF FileState
  <2> QED BY <2>2, <2>3, <2>4
<1>5. disk'[Target(x)] = FileState(x, k)'
  BY <1>1, <1>2, <1>3 DEF FileState, TypeOK
<1> QED BY <1>3, <1>4, <1>5 DEF FilesAreConsistent

(* The inductive step: one case per action, the acting writer apart. *)
LEMMA WriterInvNext ==
    ASSUME PrivateRuns, IInv, [Next]_vars, NEW x \in Writers
    PROVE  WriterInv(x)'
<1>0. TypeOK /\ WriterInv(x) /\ CompleteIsForever
  BY CompleteStays DEF IInv, LInv
(* Steps of readers, and of nobody. *)
<1>1. CASE UNCHANGED <<disk, writerVars>>
  BY <1>0, <1>1, Bystander DEF writerVars
<1>2. ASSUME NEW r \in Readers, BeginRead(r) \/ ReaderStep(r)
      PROVE  WriterInv(x)'
  <2>1. UNCHANGED <<disk, writerVars>>
    BY <1>2 DEF BeginRead, ReaderStep, NoTargets, SomeTargets, ExpandGlob, ReadPart, FinishRead
  <2> QED BY <1>1, <2>1
(* Steps of another writer. *)
<1>3. ASSUME NEW w \in Writers \ {x},
             \/ WriteNothing(w) \/ RefuseBatch(w) \/ AcceptBatch(w)
             \/ Progress(w) \/ Failure(w)
      PROVE  WriterInv(x)'
  <2>1. call'[x] = call[x] /\ pc'[x] = pc[x] /\ returned'[x] = returned[x]
    BY <1>0, <1>3 DEF WriteNothing, RefuseBatch, AcceptBatch, Progress, Failure, ProbeTaken,
       PlanGroup, OpenPart, ClosePart, Return, PlanFails, MkdirFails, PartFails, Crash,
       EndCall, TypeOK
  <2>2. CASE OpenPart(w) \/ PartFails(w) \/ ClosePart(w)
    <3>1. pc[w] \in {"publishing", "writing"} /\ MorePlanned(w)
      BY <2>2 DEF OpenPart, ClosePart, PartFails, MorePlanned, IInv, LInv, CallInv,
                  LocalsAreConsistent
    <3>2. handle'[x] = handle[x]
      BY <1>0, <2>2, <3>1, TargetIsPrivate DEF OpenPart, ClosePart, PartFails, TypeOK
    <3>3. \A i \in DOMAIN call[x].plan :
            call[x].plan[i].path \in Paths \ {Target(w)}
      <4>1. call[x].plan \in Seq(FileOfPlan)
        BY <1>0, CallFields
      <4>2. \A i \in DOMAIN call[x].plan : call[x].plan[i] \in FileOfPlan
        BY <4>1
      <4> QED BY <3>1, <4>2, TargetIsPrivate DEF FileOfPlan
    <3>4. \A p \in Paths \ {Target(w)} : disk'[p] = disk[p]
      BY <1>0, <2>2 DEF OpenPart, ClosePart, PartFails, TypeOK
    <3> QED BY <1>0, <2>1, <3>2, <3>3, <3>4, Bystander
  <2>3. CASE ~(OpenPart(w) \/ PartFails(w) \/ ClosePart(w))
    <3>1. disk' = disk /\ handle'[x] = handle[x]
      BY <1>0, <1>3, <2>3 DEF WriteNothing, RefuseBatch, AcceptBatch, Progress, Failure,
         ProbeTaken, PlanGroup, Return, PlanFails, MkdirFails, Crash, TypeOK
    <3> QED BY <1>0, <2>1, <3>1, Bystander
  <2> QED BY <2>2, <2>3
(* Its own steps. *)
<1>4. ASSUME WriteNothing(x) PROVE WriterInv(x)'
  <2>1. EndCall(x, Outcome("written", NoCall, 0, 0)) /\ pc[x] = "idle" /\ handle' = handle
    BY <1>4 DEF WriteNothing, CanCall
  <2>2. handle'[x] = "none"
    BY <1>0, <2>1 DEF WriterInv, HandleIsSole
  <2>3. Outcome("written", NoCall, 0, 0).plan = << >>
    BY DEF Outcome, NoCall
  <2> QED BY <1>0, <2>1, <2>2, <2>3, CallEnds
<1>5. ASSUME RefuseBatch(x) \/ PlanFails(x) \/ MkdirFails(x) \/ PartFails(x)
      PROVE  WriterInv(x)'
  <2>1. handle'[x] = "none"
    BY <1>0, <1>5 DEF RefuseBatch, CanCall, PlanFails, MkdirFails, PartFails, TypeOK, WriterInv,
                      HandleIsSole
  <2>2. PICK kind \in {"invalid", "unplanned", "failed"} :
          \E c : EndCall(x, Outcome(kind, c, 0, 0))
    BY <1>5 DEF RefuseBatch, PlanFails, MkdirFails, PartFails
  <2> PICK c : EndCall(x, Outcome(kind, c, 0, 0))
    BY <2>2
  <2>3. Outcome(kind, c, 0, 0).kind # "written"
    BY DEF Outcome
  <2> QED BY <1>0, <2>1, <2>2, <2>3, CallEnds
<1>6. ASSUME AcceptBatch(x) PROVE WriterInv(x)'
  <2>1. /\ call'[x].plan = << >> /\ pc'[x] = "planning" /\ pc[x] = "idle"
        /\ handle' = handle /\ returned' = returned /\ disk' = disk
    BY <1>0, <1>6 DEF AcceptBatch, CanCall, NoCall, TypeOK
  <2>2. HandleIsSole(x)' /\ FilesAreConsistent(x)'
    BY <1>0, <2>1 DEF WriterInv, HandleIsSole, FilesAreConsistent
  <2>3. AcksAreConsistent(x)'
    BY <1>0, <2>1 DEF WriterInv, AcksAreConsistent, WrittenBy, OutcomesOf
  <2> QED BY <2>2, <2>3 DEF WriterInv
<1>7. ASSUME ProbeTaken(x) \/ Crash(x) PROVE WriterInv(x)'
  <2>1. /\ call'[x].plan = call[x].plan /\ call'[x].done = call[x].done
        /\ returned' = returned /\ disk' = disk
    BY <1>0, <1>7 DEF ProbeTaken, Crash, TypeOK, Calls
  <2>2. \/ pc'[x] = pc[x] /\ handle'[x] = handle[x]
        \/ pc'[x] = "dead" /\ handle'[x] = "none"
    BY <1>0, <1>7 DEF ProbeTaken, Crash, TypeOK
  <2>3. HandleIsSole(x)'
    BY <1>0, <2>2 DEF WriterInv, HandleIsSole
  <2>4. FilesAreConsistent(x)' /\ AcksAreConsistent(x)'
    BY <1>0, <2>1, <2>2 DEF WriterInv, FilesAreConsistent, FileState, AcksAreConsistent,
                            WrittenBy, OutcomesOf
  <2> QED BY <2>3, <2>4 DEF WriterInv
<1>8. ASSUME PlanGroup(x) PROVE WriterInv(x)'
  <2> PICK n : n = Len(call[x].plan)
    OBVIOUS
  <2>0. PICK key \in call[x].todo, file \in FileOfPlan : PlansOne(x, key, file, n)
    BY <1>0, <1>8, PlanGroupLocals
  <2>1. /\ disk[file.path] = Absent
        /\ call'[x].done = call[x].done /\ pc'[x] \in {"publishing", "planning"}
        /\ n \in Nat /\ DOMAIN call[x].plan = 1..n
        /\ DOMAIN call'[x].plan = 1..(n + 1)
        /\ \A i \in 1..n : call'[x].plan[i] = call[x].plan[i]
        /\ call'[x].plan[n + 1] = file
    BY <2>0 DEF PlansOne
  <2>2. /\ handle' = handle /\ returned' = returned /\ disk' = disk /\ pc[x] = "planning"
    BY <1>8 DEF PlanGroup
  <2>3. call[x].done = 0
    BY <2>2 DEF IInv, LInv, CallInv, LocalsAreConsistent
  <2>4. \A i \in 1..n : disk[call[x].plan[i].path] = Absent
    <3>1. \A i \in 1..n : FileState(x, i) = Absent
      BY <2>1, <2>2, <2>3 DEF FileState
    <3> QED BY <1>0, <2>1, <2>2, <3>1 DEF WriterInv, FilesAreConsistent
  <2>5. \A i \in 1..(n + 1) : (i \in 1..n \/ i = n + 1) /\ ~(i <= 0)
    BY <2>1
  <2>6. \A i \in DOMAIN call'[x].plan : disk'[call'[x].plan[i].path] = Absent
    BY <2>1, <2>2, <2>4, <2>5
  <2>7. \A i \in DOMAIN call'[x].plan : FileState(x, i)' = Absent
    BY <2>1, <2>3, <2>5 DEF FileState
  <2>8. FilesAreConsistent(x)'
    BY <2>6, <2>7 DEF FilesAreConsistent
  <2>9. HandleIsSole(x)' /\ AcksAreConsistent(x)'
    BY <1>0, <2>1, <2>2 DEF WriterInv, HandleIsSole, AcksAreConsistent, WrittenBy, OutcomesOf
  <2> QED BY <2>8, <2>9 DEF WriterInv
<1>9. ASSUME OpenPart(x) PROVE WriterInv(x)'
  <2>1. pc[x] = "publishing" /\ MorePlanned(x)
    BY <1>9 DEF OpenPart
  <2>2. OthersOn(x, Target(x)) = {}
    BY <2>1, TargetIsPrivate
  <2>3. /\ call' = call /\ pc'[x] = "writing" /\ handle'[x] = "sole" /\ returned' = returned
        /\ disk' = [disk EXCEPT ![Target(x)] = Torn]
    BY <1>0, <1>9, <2>2 DEF OpenPart, TypeOK
  <2>4. HandleIsSole(x)'
    BY <2>3 DEF HandleIsSole
  <2>5. FilesAreConsistent(x)'
    BY <2>1, <2>3, OwnFiles
  <2>6. AcksAreConsistent(x)'
    BY <1>0, <2>3, AckStays DEF AcksAreConsistent, WrittenBy, OutcomesOf
  <2> QED BY <2>4, <2>5, <2>6 DEF WriterInv
<1>10. ASSUME ClosePart(x) PROVE WriterInv(x)'
  <2>1. pc[x] = "writing" /\ MorePlanned(x) /\ handle[x] = "sole"
    BY <1>0, <1>10 DEF ClosePart, WriterInv, HandleIsSole, IInv, LInv, CallInv,
                       LocalsAreConsistent, MorePlanned
  <2>2. /\ call'[x].plan = call[x].plan /\ call'[x].done = call[x].done + 1
        /\ pc'[x] = "publishing" /\ handle'[x] = "none" /\ returned' = returned
        /\ disk' = [disk EXCEPT ![Target(x)] = Whole(Current(x).rows)]
    BY <1>0, <1>10, <2>1 DEF ClosePart, TypeOK, Calls
  <2>3. HandleIsSole(x)'
    BY <2>2 DEF HandleIsSole
  <2>4. FilesAreConsistent(x)'
    BY <2>1, <2>2, OwnFiles
  <2>5. AcksAreConsistent(x)'
    BY <1>0, <2>2, AckStays DEF AcksAreConsistent, WrittenBy, OutcomesOf
  <2> QED BY <2>3, <2>4, <2>5 DEF WriterInv
<1>11. ASSUME Return(x) PROVE WriterInv(x)'
  <2> DEFINE o == Outcome("written", call[x], Cardinality(RowsPlanned(call[x])),
                    Len(call[x].batch) - Cardinality(LastOf(call[x].batch)))
  <2>1. EndCall(x, o) /\ disk' = disk /\ handle' = handle /\ pc[x] = "publishing"
        /\ ~MorePlanned(x)
    BY <1>11 DEF Return
  <2>2. handle'[x] = "none"
    BY <1>0, <2>1 DEF WriterInv, HandleIsSole
  <2>3. o.plan = call[x].plan
    BY DEF Outcome
  <2>4. \A i \in DOMAIN call[x].plan :
          disk[call[x].plan[i].path] = Whole(call[x].plan[i].rows)
    <3>1. call[x].plan \in Seq(FileOfPlan) /\ call[x].done \in Nat
      BY <1>0, CallFields
    <3>2. \A i \in DOMAIN call[x].plan : i <= call[x].done
      BY <2>1, <3>1 DEF MorePlanned
    <3> QED BY <1>0, <2>1, <3>2 DEF WriterInv, FilesAreConsistent, FileState
  <2> HIDE DEF o
  <2> QED BY <1>0, <2>1, <2>2, <2>3, <2>4, CallEnds
<1>12. CASE UNCHANGED vars
  BY <1>1, <1>12 DEF vars
<1> QED
  BY <1>2, <1>3, <1>4, <1>5, <1>6, <1>7, <1>8, <1>9, <1>10, <1>11, <1>12
     DEF Next, Progress, Failure

-----------------------------------------------------------------------------
(* The theorems.                                                           *)

LEMMA InitIInv == Init => IInv
<1> SUFFICES ASSUME Init PROVE IInv
  OBVIOUS
<1>1. LInv
  BY InitLInv
<1>2. ASSUME NEW w \in Writers PROVE WriterInv(w)
  BY DEF Init, NoCall, WriterInv, HandleIsSole, FilesAreConsistent, AcksAreConsistent,
         WrittenBy, OutcomesOf
<1> QED BY <1>1, <1>2 DEF IInv

LEMMA IInvInductive ==
    ASSUME PrivateRuns
    PROVE  IInv /\ [Next]_vars => IInv'
BY TypeNext, CallInvNext, WriterInvNext DEF IInv, LInv

(* The inductive invariant holds in every reachable state of processes that
   do not share a run. *)
THEOREM Invariance ==
    ASSUME PrivateRuns
    PROVE  Spec => []IInv
<1>1. Init => IInv
  BY InitIInv
<1>2. IInv /\ [Next]_vars => IInv'
  BY IInvInductive
<1> QED BY <1>1, <1>2, PTL DEF Spec

(* A returned WriteResult stays true: every part it reports is on disk, with
   its rows, in every later state - crashes, failed writes and other runs
   notwithstanding (write(), "never rewrites or deletes an existing file"). *)
THEOREM AckedDurable ==
    ASSUME PrivateRuns
    PROVE  Spec => []AckedPartsAreOnDisk
<1>1. IInv => AckedPartsAreOnDisk
  <2> SUFFICES ASSUME IInv, NEW ack \in AckedParts
               PROVE  disk[ack[1]] = Whole(ack[2])
    BY DEF AckedPartsAreOnDisk
  <2>1. PICK w \in Writers : \E o \in WrittenBy(w) : ack \in Vouched(o)
    BY DEF AckedParts
  <2> PICK o \in WrittenBy(w) : ack \in Vouched(o)
    BY <2>1
  <2>2. PICK i \in DOMAIN o.plan : ack = <<o.plan[i].path, o.plan[i].rows>>
    BY DEF Vouched
  <2> QED BY <2>2 DEF IInv, WriterInv, AcksAreConsistent
<1> QED BY <1>1, Invariance, PTL

(* No step changes or removes a complete part file, as long as no two
   processes share an ingest_run_id: the check-then-open of
   next_free_part_path and write_table is safe under that discipline. *)
THEOREM NoRewrite ==
    ASSUME PrivateRuns
    PROVE  Spec => NeverRewritten
<1>1. IInv /\ [Next]_vars => [CompleteIsForever]_vars
  BY CompleteStays
<1> QED BY <1>1, Invariance, PTL DEF Spec, NeverRewritten

-----------------------------------------------------------------------------
(***************************************************************************)
(* Part 3. The snapshot store implements the append-only history of        *)
(* FareHistory: a part is in the history once its file is complete, an     *)
(* acknowledgement is a returned WriteResult, and a read begins when       *)
(* read_frame() is called. Every other step of the store is a stutter of   *)
(* the history. Proved for any writers that do not share a run.            *)
(***************************************************************************)

(* What a read has collected: the fixtures and the rows of published parts,
   and of those published when it began, all that are no longer to be read. *)
ScanIsConsistent(r) ==
    /\ scan[r].floor \subseteq Published
    /\ rpc[r] = "files" =>
         \E S \in SUBSET Published :
             /\ scan[r].rows = History!RowsOf(S)
             /\ \A part \in scan[r].floor : part \in S \/ part[1] \in scan[r].todo

HInv == IInv /\ \A r \in Readers : ScanIsConsistent(r)

-----------------------------------------------------------------------------
(* How a step changes what is published and what is acknowledged.          *)

(* A published part stays published. *)
LEMMA PublishedStays ==
    ASSUME CompleteIsForever
    PROVE  Published \subseteq Published'
BY DEF CompleteIsForever, Published

(* Closing a file publishes it, under a name no part had; no other step
   changes what is published. *)
LEMMA ClosingPublishes ==
    ASSUME PrivateRuns, IInv, NEW w \in Writers, ClosePart(w)
    PROVE  /\ Published' = Published \cup {<<Target(w), Current(w).rows>>}
           /\ \A part \in Published : part[1] # Target(w)
           /\ Target(w) \in Paths /\ Current(w).rows \in SUBSET Rows
<1>1. pc[w] = "writing" /\ MorePlanned(w) /\ handle[w] = "sole" /\ TypeOK
  BY DEF ClosePart, IInv, WriterInv, HandleIsSole, LInv, CallInv, LocalsAreConsistent,
         MorePlanned
<1>2. Target(w) \in Paths /\ Current(w).rows \in SUBSET Rows /\ disk[Target(w)] = Torn
  BY <1>1, TargetIsFresh
<1>3. disk' = [disk EXCEPT ![Target(w)] = Whole(Current(w).rows)]
  BY <1>1 DEF ClosePart
<1>4. /\ disk'[Target(w)].state = "whole" /\ disk'[Target(w)].rows = Current(w).rows
      /\ disk[Target(w)].state # "whole"
      /\ \A p \in Paths \ {Target(w)} : disk'[p] = disk[p]
  BY <1>1, <1>2, <1>3 DEF TypeOK, Whole, Torn
<1>5. \A p \in Paths : disk'[p].state = "whole" <=> p = Target(w) \/ disk[p].state = "whole"
  BY <1>2, <1>4
<1>6. Published' \subseteq Published \cup {<<Target(w), Current(w).rows>>}
  BY <1>2, <1>4, <1>5 DEF Published
<1>7. <<Target(w), Current(w).rows>> \in Published' /\ Published \subseteq Published'
  BY <1>2, <1>4, <1>5 DEF Published
<1> QED BY <1>2, <1>4, <1>6, <1>7 DEF Published

LEMMA OthersPublishNothing ==
    ASSUME PrivateRuns, IInv, NEW w \in Writers,
           \/ WriteNothing(w) \/ RefuseBatch(w) \/ AcceptBatch(w) \/ Failure(w)
           \/ ProbeTaken(w) \/ PlanGroup(w) \/ OpenPart(w) \/ Return(w)
    PROVE  Published' = Published
<1>0. TypeOK
  BY DEF IInv, LInv
<1>1. CASE disk' = disk
  BY <1>1 DEF Published
<1>2. ASSUME OpenPart(w) \/ PartFails(w), disk' # disk PROVE Published' = Published
  <2>1. pc[w] \in {"publishing", "writing"} /\ MorePlanned(w)
    BY <1>2 DEF OpenPart, PartFails, IInv, LInv, CallInv, LocalsAreConsistent, MorePlanned
  <2>2. Target(w) \in Paths /\ disk[Target(w)] \in {Torn, Absent}
    BY <2>1, TargetIsFresh
  <2>3. /\ \A p \in Paths \ {Target(w)} : disk'[p] = disk[p]
        /\ disk'[Target(w)] \in {Torn, Absent}
    BY <1>0, <1>2, <2>2 DEF OpenPart, PartFails, TypeOK
  <2>4. disk'[Target(w)].state # "whole" /\ disk[Target(w)].state # "whole"
    BY <2>2, <2>3 DEF Torn, Absent
  <2>5. \A p \in Paths : /\ disk'[p].state = "whole" <=> disk[p].state = "whole"
                         /\ disk[p].state = "whole" => disk'[p] = disk[p]
    BY <2>3, <2>4
  <2> QED BY <2>5 DEF Published
<1> QED
  BY <1>1, <1>2 DEF WriteNothing, RefuseBatch, AcceptBatch, Failure, ProbeTaken, PlanGroup,
                    Return, PlanFails, MkdirFails, Crash

(* What is acknowledged changes when a call ends, and only by a WriteResult. *)
LEMMA EndAcknowledges ==
    ASSUME TypeOK, NEW w \in Writers, NEW o, EndCall(w, o)
    PROVE  AckedParts' = AckedParts \cup (IF o.kind = "written" THEN Vouched(o) ELSE {})
<1>1. OutcomesOf(w)' = OutcomesOf(w) \cup {o}
  BY CallEndsInOutcome
<1>2. \A x \in Writers \ {w} : WrittenBy(x)' = WrittenBy(x)
  BY DEF EndCall, TypeOK, WrittenBy, OutcomesOf
<1>3. WrittenBy(w)' = WrittenBy(w) \cup (IF o.kind = "written" THEN {o} ELSE {})
  BY <1>1 DEF WrittenBy
<1>4. AckedParts' = UNION {UNION {Vouched(a) : a \in WrittenBy(x)'} : x \in Writers}
  BY DEF AckedParts, Vouched
<1>5. CASE o.kind = "written"
  <2>1. WrittenBy(w)' = WrittenBy(w) \cup {o}
    BY <1>3, <1>5
  <2>2. AckedParts' \subseteq AckedParts \cup Vouched(o)
    BY <1>2, <1>4, <2>1 DEF AckedParts
  <2>3. AckedParts \subseteq AckedParts'
    BY <1>2, <1>4, <2>1 DEF AckedParts
  <2>4. Vouched(o) \subseteq AckedParts'
    BY <1>4, <2>1
  <2> QED BY <1>5, <2>2, <2>3, <2>4
<1>6. CASE o.kind # "written"
  <2>1. \A x \in Writers : WrittenBy(x)' = WrittenBy(x)
    BY <1>2, <1>3, <1>6
  <2> QED BY <1>4, <1>6, <2>1 DEF AckedParts
<1> QED BY <1>5, <1>6

(* A call that returns vouches for parts that are published. *)
LEMMA ReturnsOverPublished ==
    ASSUME IInv, NEW w \in Writers, Return(w),
           NEW o, o = Outcome("written", call[w], Cardinality(RowsPlanned(call[w])),
                        Len(call[w].batch) - Cardinality(LastOf(call[w].batch)))
    PROVE  Vouched(o) \subseteq Published
<1>1. pc[w] = "publishing" /\ ~MorePlanned(w) /\ o.plan = call[w].plan
  BY DEF Return, Outcome
<1>2. call[w].plan \in Seq(FileOfPlan) /\ call[w].done \in Nat
  BY CallFields DEF IInv, LInv
<1>3. \A i \in DOMAIN call[w].plan : i <= call[w].done /\ call[w].plan[i] \in FileOfPlan
  BY <1>1, <1>2 DEF MorePlanned
<1>4. \A i \in DOMAIN call[w].plan : FileState(w, i) = Whole(call[w].plan[i].rows)
  BY <1>3 DEF FileState
<1>5. \A i \in DOMAIN call[w].plan :
        /\ call[w].plan[i].path \in Paths
        /\ disk[call[w].plan[i].path] = Whole(call[w].plan[i].rows)
  BY <1>1, <1>3, <1>4 DEF IInv, WriterInv, FilesAreConsistent, FileOfPlan
<1>6. ASSUME NEW part \in Vouched(o) PROVE part \in Published
  <2>1. PICK i \in DOMAIN call[w].plan :
          part = <<call[w].plan[i].path, call[w].plan[i].rows>>
    BY <1>1 DEF Vouched
  <2> DEFINE p == call[w].plan[i].path
  <2>2. p \in Paths /\ disk[p] = Whole(call[w].plan[i].rows)
    BY <1>5
  <2>3. disk[p].state = "whole" /\ part = <<p, disk[p].rows>>
    BY <2>1, <2>2 DEF Whole
  <2> HIDE DEF p
  <2> QED BY <2>2, <2>3 DEF Published
<1> QED BY <1>6

-----------------------------------------------------------------------------
(* The rows of some parts and one more. *)
LEMMA RowsOfOneMore ==
    ASSUME NEW S, NEW p, NEW rows
    PROVE  UNION {part[2] : part \in S \cup {<<p, rows>>}}
             = (UNION {part[2] : part \in S}) \cup rows
<1>1. <<p, rows>>[2] = rows
  OBVIOUS
<1> PICK one : one = <<p, rows>> /\ one[2] = rows
  BY <1>1
<1>2. UNION {part[2] : part \in S \cup {one}} = (UNION {part[2] : part \in S}) \cup one[2]
  OBVIOUS
<1> QED BY <1>2

-----------------------------------------------------------------------------
(* The invariant of the reads.                                             *)

(* A read that a step leaves alone, or ends, stays consistent. *)
LEMMA ScanStays ==
    ASSUME CompleteIsForever, NEW r \in Readers, ScanIsConsistent(r),
           scan'[r] = scan[r], rpc'[r] = rpc[r] \/ rpc'[r] # "files"
    PROVE  ScanIsConsistent(r)'
<1>1. Published \subseteq Published'
  BY PublishedStays
<1>2. \A S : History!RowsOf(S)' = History!RowsOf(S)
  BY DEF History!RowsOf
<1> QED BY <1>1, <1>2 DEF ScanIsConsistent

(* Every step keeps every read consistent, one case per reader's action. *)
LEMMA ScanInvNext ==
    ASSUME PrivateRuns, HInv, [Next]_vars, NEW r \in Readers
    PROVE  ScanIsConsistent(r)'
<1>0. CompleteIsForever /\ TypeOK /\ ScanIsConsistent(r)
  BY CompleteStays DEF HInv, IInv, LInv
<1>1. CASE UNCHANGED <<rpc, scan>>
  BY <1>0, <1>1, ScanStays
<1>2. ASSUME NEW w \in Writers,
             \/ WriteNothing(w) \/ RefuseBatch(w) \/ AcceptBatch(w)
             \/ Progress(w) \/ Failure(w)
      PROVE  ScanIsConsistent(r)'
  <2>1. UNCHANGED <<rpc, scan>>
    BY <1>2 DEF WriteNothing, RefuseBatch, AcceptBatch, Progress, Failure, ProbeTaken,
       PlanGroup, OpenPart, ClosePart, Return, PlanFails, MkdirFails, PartFails, Crash,
       readerVars
  <2> QED BY <1>1, <2>1
<1>3. ASSUME NEW s \in Readers \ {r}, BeginRead(s) \/ ReaderStep(s)
      PROVE  ScanIsConsistent(r)'
  <2>1. scan'[r] = scan[r] /\ rpc'[r] = rpc[r]
    BY <1>0, <1>3 DEF BeginRead, ReaderStep, NoTargets, SomeTargets, ExpandGlob, ReadPart,
       FinishRead, EndRead, TypeOK
  <2> QED BY <1>0, <2>1, ScanStays
<1>4. CASE BeginRead(r)
  <2>1. scan'[r].floor = Published /\ rpc'[r] = "targets"
    BY <1>0, <1>4 DEF BeginRead, TypeOK, NoScan
  <2> QED BY <1>0, <2>1, PublishedStays DEF ScanIsConsistent
<1>5. CASE NoTargets(r) \/ SomeTargets(r) \/ FinishRead(r)
  <2>1. scan'[r] = scan[r] /\ rpc'[r] # "files"
    BY <1>0, <1>5 DEF NoTargets, SomeTargets, FinishRead, EndRead, TypeOK
  <2> QED BY <1>0, <2>1, ScanStays
<1>6. CASE ExpandGlob(r)
  <2>1. CASE PartFiles = {}
    <3>1. scan'[r] = scan[r] /\ rpc'[r] # "files"
      BY <1>0, <1>6, <2>1 DEF ExpandGlob, EndRead, TypeOK
    <3> QED BY <1>0, <3>1, ScanStays
  <2>2. CASE PartFiles # {}
    <3>1. /\ scan'[r].floor = scan[r].floor /\ scan'[r].todo = PartFiles
          /\ scan'[r].rows = FixtureRows
      BY <1>0, <1>6, <2>2 DEF ExpandGlob, TypeOK
    <3>2. \A part \in scan[r].floor : part[1] \in PartFiles
      BY <1>0 DEF ScanIsConsistent, Published, PartFiles, Absent
    <3>3. History!RowsOf({}) = FixtureRows
      BY DEF History!RowsOf
    <3>4. scan'[r].floor \subseteq Published'
      BY <1>0, <3>1, PublishedStays DEF ScanIsConsistent
    <3>5. {} \in SUBSET Published' /\ scan'[r].rows = History!RowsOf({})'
      BY <3>1, <3>3
    <3> QED BY <3>1, <3>2, <3>4, <3>5 DEF ScanIsConsistent
  <2> QED BY <2>1, <2>2
<1>7. CASE ReadPart(r)
  <2>1. PICK p \in scan[r].todo :
          IF disk[p].state = "whole"
            THEN /\ scan' = [scan EXCEPT ![r].todo = @ \ {p},
                                         ![r].rows = @ \cup disk[p].rows]
                 /\ UNCHANGED <<rpc, answers>>
            ELSE EndRead(r, Failed) /\ UNCHANGED scan
    BY <1>7 DEF ReadPart
  <2>2. CASE disk[p].state # "whole"
    <3>1. scan'[r] = scan[r] /\ rpc'[r] # "files"
      BY <1>0, <2>1, <2>2 DEF EndRead, TypeOK
    <3> QED BY <1>0, <3>1, ScanStays
  <2>3. CASE disk[p].state = "whole"
    <3>1. PICK S \in SUBSET Published :
            /\ scan[r].rows = History!RowsOf(S)
            /\ \A part \in scan[r].floor : part \in S \/ part[1] \in scan[r].todo
      BY <1>0, <1>7 DEF ReadPart, ScanIsConsistent
    <3>2. /\ scan'[r].floor = scan[r].floor /\ scan'[r].todo = scan[r].todo \ {p}
          /\ scan'[r].rows = scan[r].rows \cup disk[p].rows
      BY <1>0, <2>1, <2>3 DEF TypeOK
    <3> DEFINE T == S \cup {<<p, disk[p].rows>>}
    <3>3. p \in Paths /\ <<p, disk[p].rows>> \in Published
      BY <1>0, <2>3 DEF TypeOK, Published
    <3>4. T \in SUBSET Published' /\ scan[r].floor \subseteq Published'
      BY <1>0, <3>3, PublishedStays DEF ScanIsConsistent
    <3>5. scan'[r].rows = History!RowsOf(T)
      <4>1. UNION {part[2] : part \in T} = (UNION {part[2] : part \in S}) \cup disk[p].rows
        BY RowsOfOneMore
      <4> HIDE DEF T
      <4> QED BY <3>1, <3>2, <4>1 DEF History!RowsOf
    <3>6. \A part \in scan[r].floor : part[1] = p => part = <<p, disk[p].rows>>
      BY <1>0 DEF ScanIsConsistent, Published
    <3>7. \A part \in scan'[r].floor : part \in T \/ part[1] \in scan'[r].todo
      BY <3>1, <3>2, <3>6
    <3>8. History!RowsOf(T)' = History!RowsOf(T)'
      OBVIOUS
    <3>9. \E U \in SUBSET Published' :
            /\ scan'[r].rows = History!RowsOf(U)
            /\ \A part \in scan'[r].floor : part \in U \/ part[1] \in scan'[r].todo
      <4> HIDE DEF T
      <4> QED BY <3>4, <3>5, <3>7
    <3> QED BY <3>2, <3>4, <3>9 DEF ScanIsConsistent, History!RowsOf
  <2> QED BY <2>2, <2>3
<1>8. CASE UNCHANGED vars
  BY <1>1, <1>8 DEF vars, readerVars
<1> QED
  BY <1>2, <1>3, <1>4, <1>5, <1>6, <1>7, <1>8 DEF Next, ReaderStep

-----------------------------------------------------------------------------
(* Every step of the store is a step of the history or a stutter.          *)

LEMMA WriterRefines ==
    ASSUME PrivateRuns, HInv, NEW w \in Writers,
           \/ WriteNothing(w) \/ RefuseBatch(w) \/ AcceptBatch(w)
           \/ Progress(w) \/ Failure(w)
    PROVE  History!Publish \/ History!Acknowledge \/ UNCHANGED History!vars
<1>0. IInv /\ TypeOK
  BY DEF HInv, IInv, LInv
<1>1. UNCHANGED <<scan, answers>>
  BY DEF WriteNothing, RefuseBatch, AcceptBatch, Progress, Failure, ProbeTaken,
       PlanGroup, OpenPart, ClosePart, Return, PlanFails, MkdirFails, PartFails, Crash,
       readerVars
<1>2. CASE ClosePart(w)
  <2>1. /\ Published' = Published \cup {<<Target(w), Current(w).rows>>}
        /\ \A part \in Published : part[1] # Target(w)
        /\ Target(w) \in Paths /\ Current(w).rows \in SUBSET Rows
    BY <1>0, <1>2, ClosingPublishes
  <2>2. AckedParts' = AckedParts
    BY <1>2 DEF ClosePart, AckedParts, Vouched, WrittenBy, OutcomesOf
  <2> QED BY <1>1, <2>1, <2>2 DEF History!Publish
<1>3. CASE Return(w)
  <2> DEFINE o == Outcome("written", call[w], Cardinality(RowsPlanned(call[w])),
                    Len(call[w].batch) - Cardinality(LastOf(call[w].batch)))
  <2>1. EndCall(w, o) /\ o.kind = "written"
    BY <1>3 DEF Return, Outcome
  <2>2. Vouched(o) \subseteq Published
    BY <1>0, <1>3, ReturnsOverPublished
  <2> HIDE DEF o
  <2>3. AckedParts' = AckedParts \cup Vouched(o)
    BY <1>0, <2>1, EndAcknowledges
  <2>4. Published' = Published
    BY <1>0, <1>3, OthersPublishNothing
  <2> QED BY <1>1, <2>2, <2>3, <2>4 DEF History!Acknowledge
<1>4. CASE WriteNothing(w)
  <2> DEFINE o == Outcome("written", NoCall, 0, 0)
  <2>1. EndCall(w, o) /\ o.plan = <<>>
    BY <1>4 DEF WriteNothing, Outcome, NoCall
  <2> HIDE DEF o
  <2>2. Vouched(o) = {}
    BY <2>1 DEF Vouched
  <2>3. AckedParts' = AckedParts
    BY <1>0, <2>1, <2>2, EndAcknowledges
  <2>4. Published' = Published
    BY <1>0, <1>4, OthersPublishNothing
  <2> QED BY <1>1, <2>3, <2>4 DEF History!vars
<1>5. CASE RefuseBatch(w) \/ PlanFails(w) \/ MkdirFails(w) \/ PartFails(w)
  <2>1. PICK kind \in {"invalid", "unplanned", "failed"} :
          \E c : EndCall(w, Outcome(kind, c, 0, 0))
    BY <1>5 DEF RefuseBatch, PlanFails, MkdirFails, PartFails
  <2> PICK c : EndCall(w, Outcome(kind, c, 0, 0))
    BY <2>1
  <2>2. Outcome(kind, c, 0, 0).kind # "written"
    BY DEF Outcome
  <2>3. AckedParts' = AckedParts
    BY <1>0, <2>1, <2>2, EndAcknowledges
  <2>4. Published' = Published
    BY <1>0, <1>5, OthersPublishNothing DEF Failure
  <2> QED BY <1>1, <2>3, <2>4 DEF History!vars
<1>6. CASE AcceptBatch(w) \/ ProbeTaken(w) \/ PlanGroup(w) \/ OpenPart(w) \/ Crash(w)
  <2>1. returned' = returned
    BY <1>6 DEF AcceptBatch, ProbeTaken, PlanGroup, OpenPart, Crash
  <2>2. AckedParts' = AckedParts
    BY <2>1 DEF AckedParts, Vouched, WrittenBy, OutcomesOf
  <2>3. Published' = Published
    BY <1>0, <1>6, OthersPublishNothing DEF Failure
  <2> QED BY <1>1, <2>2, <2>3 DEF History!vars
<1> QED BY <1>2, <1>3, <1>4, <1>5, <1>6 DEF Progress, Failure

LEMMA ReaderRefines ==
    ASSUME HInv, NEW r \in Readers, BeginRead(r) \/ ReaderStep(r)
    PROVE  \/ History!Begin(r) \/ History!Answer(r) \/ History!Fail(r)
           \/ UNCHANGED History!vars
<1>0. TypeOK /\ ScanIsConsistent(r)
  BY DEF HInv, IInv, LInv
<1>1. UNCHANGED <<disk, writerVars>>
  BY DEF BeginRead, ReaderStep, NoTargets, SomeTargets, ExpandGlob, ReadPart, FinishRead
<1>2. Published' = Published /\ AckedParts' = AckedParts
  BY <1>1 DEF Published, AckedParts, Vouched, WrittenBy, OutcomesOf, writerVars
<1> DEFINE floor == [s \in Readers |-> scan[s].floor]
<1>3. CASE BeginRead(r)
  <2>1. answers' = answers /\ floor' = [floor EXCEPT ![r] = Published]
    BY <1>0, <1>3 DEF BeginRead, TypeOK, NoScan
  <2> QED BY <1>2, <2>1 DEF History!Begin
<1>4. CASE NoTargets(r)
  <2>1. floor[r] = {}
    BY <1>0, <1>4 DEF NoTargets, ScanIsConsistent, Published, PartFiles, Absent
  <2>2. History!RowsOf({}) = FixtureRows
    BY DEF History!RowsOf
  <2>3. /\ answers' = [answers EXCEPT ![r] =
                          Append(@, [ok |-> TRUE, rows |-> History!RowsOf({})])]
        /\ floor' = floor
    BY <1>4, <2>2 DEF NoTargets, EndRead, Found
  <2>4. {} \in SUBSET Published /\ floor[r] \subseteq {}
    BY <2>1
  <2> QED BY <1>2, <2>3, <2>4 DEF History!Answer
<1>5. CASE SomeTargets(r)
  BY <1>2, <1>5 DEF SomeTargets, History!vars
<1>6. ASSUME EndRead(r, Failed), scan' = scan PROVE History!Fail(r)
  BY <1>2, <1>6 DEF EndRead, Failed, History!Fail
<1>7. ASSUME answers' = answers, floor' = floor PROVE UNCHANGED History!vars
  BY <1>2, <1>7 DEF History!vars
<1>8. CASE ExpandGlob(r)
  <2>1. CASE PartFiles = {}
    BY <1>6, <1>8, <2>1 DEF ExpandGlob
  <2>2. CASE PartFiles # {}
    <3>1. \A s \in Readers : scan'[s].floor = scan[s].floor
      BY <1>0, <1>8, <2>2 DEF ExpandGlob, TypeOK
    <3> QED BY <1>7, <1>8, <2>2, <3>1 DEF ExpandGlob
  <2> QED BY <2>1, <2>2
<1>9. CASE ReadPart(r)
  <2>1. CASE EndRead(r, Failed) /\ scan' = scan
    BY <1>6, <2>1
  <2>2. CASE ~(EndRead(r, Failed) /\ scan' = scan)
    <3>1. PICK p \in scan[r].todo :
            /\ scan' = [scan EXCEPT ![r].todo = @ \ {p}, ![r].rows = @ \cup disk[p].rows]
            /\ UNCHANGED <<rpc, answers>>
      BY <1>9, <2>2 DEF ReadPart
    <3>2. \A s \in Readers : scan'[s].floor = scan[s].floor
      BY <1>0, <3>1 DEF TypeOK
    <3> QED BY <1>7, <3>1, <3>2
  <2> QED BY <2>1, <2>2
<1>10. CASE FinishRead(r)
  <2>1. PICK S \in SUBSET Published :
          /\ scan[r].rows = History!RowsOf(S)
          /\ \A part \in scan[r].floor : part \in S \/ part[1] \in scan[r].todo
    BY <1>0, <1>10 DEF FinishRead, ScanIsConsistent
  <2>2. floor[r] \subseteq S
    BY <1>10, <2>1 DEF FinishRead
  <2>3. /\ answers' = [answers EXCEPT ![r] =
                          Append(@, [ok |-> TRUE, rows |-> History!RowsOf(S)])]
        /\ floor' = floor
    BY <1>10, <2>1 DEF FinishRead, EndRead, Found
  <2> QED BY <1>2, <2>2, <2>3 DEF History!Answer
<1> QED BY <1>3, <1>4, <1>5, <1>8, <1>9, <1>10 DEF ReaderStep

(* The inductive invariant of the reads holds in every reachable state of
   processes that do not share a run. *)
THEOREM ReadsAreConsistent ==
    ASSUME PrivateRuns
    PROVE  Spec => []HInv
<1>1. Init => HInv
  BY InitIInv DEF Init, HInv, ScanIsConsistent, NoScan
<1>2. HInv /\ [Next]_vars => HInv'
  BY IInvInductive, ScanInvNext DEF HInv
<1> QED BY <1>1, <1>2, PTL DEF Spec

(* Reads and writes of the store are those of an append-only history: a part
   is published once and never changes, an acknowledgement vouches for
   published parts only, and a read returns whole parts, at least all those
   published when it began, or fails (snapshot_store.py, lines 1-10). *)
THEOREM StoreIsAppendOnly ==
    ASSUME PrivateRuns
    PROVE  Spec => IsAppendOnlyHistory
<1>1. Init => History!Init
  BY DEF Init, History!Init, Published, Absent, NoScan, AckedParts, WrittenBy, OutcomesOf
<1>2. HInv /\ [Next]_vars => [History!Next]_(History!vars)
  <2> SUFFICES ASSUME HInv, [Next]_vars
               PROVE  History!Next \/ UNCHANGED History!vars
    OBVIOUS
  <2>1. CASE UNCHANGED vars
    BY <2>1 DEF vars, readerVars, writerVars, History!vars, Published, AckedParts, Vouched,
                WrittenBy, OutcomesOf
  <2>2. ASSUME NEW w \in Writers,
               \/ WriteNothing(w) \/ RefuseBatch(w) \/ AcceptBatch(w)
               \/ Progress(w) \/ Failure(w)
        PROVE  History!Next \/ UNCHANGED History!vars
    BY <2>2, WriterRefines DEF History!Next
  <2>3. ASSUME NEW r \in Readers, BeginRead(r) \/ ReaderStep(r)
        PROVE  History!Next \/ UNCHANGED History!vars
    BY <2>3, ReaderRefines DEF History!Next
  <2> QED BY <2>1, <2>2, <2>3 DEF Next
<1> QED BY <1>1, <1>2, ReadsAreConsistent, PTL DEF Spec, IsAppendOnlyHistory, History!Spec

-----------------------------------------------------------------------------
(***************************************************************************)
(* Part 4.  A torn part file that a dead or failed writer left behind      *)
(* stays, and no read that begins afterwards gets past it.                 *)
(***************************************************************************)

(* A writer that is in pq.write_table after a step was there before it, or
   has just opened its file; its locals are the same. *)
LEMMA WritingBegins ==
    ASSUME TypeOK, [Next]_vars, NEW w \in Writers, pc'[w] = "writing"
    PROVE  /\ call'[w] = call[w]
           /\ OpenPart(w) \/ pc[w] = "writing"
<1>1. CASE UNCHANGED vars \/ \E r \in Readers : BeginRead(r) \/ ReaderStep(r)
  BY <1>1 DEF vars, writerVars, BeginRead, ReaderStep, NoTargets, SomeTargets, ExpandGlob,
              ReadPart, FinishRead
<1>2. ASSUME NEW x \in Writers,
             \/ WriteNothing(x) \/ RefuseBatch(x) \/ PlanFails(x) \/ MkdirFails(x)
             \/ PartFails(x) \/ Return(x)
      PROVE  call'[w] = call[w] /\ pc[w] = "writing"
  <2>1. PICK o : EndCall(x, o)
    BY <1>2 DEF WriteNothing, RefuseBatch, PlanFails, MkdirFails, PartFails, Return
  <2> QED BY <2>1 DEF EndCall, TypeOK
<1>3. ASSUME NEW x \in Writers, AcceptBatch(x) \/ ClosePart(x) \/ Crash(x)
      PROVE  call'[w] = call[w] /\ pc[w] = "writing"
  BY <1>3 DEF AcceptBatch, ClosePart, Crash, TypeOK
<1>4. ASSUME NEW x \in Writers, ProbeTaken(x) \/ PlanGroup(x)
      PROVE  call'[w] = call[w] /\ pc[w] = "writing"
  BY <1>4 DEF ProbeTaken, PlanGroup, TypeOK
<1>5. ASSUME NEW x \in Writers, OpenPart(x)
      PROVE  call'[w] = call[w] /\ (OpenPart(w) \/ pc[w] = "writing")
  BY <1>5 DEF OpenPart, TypeOK
<1> QED BY <1>1, <1>2, <1>3, <1>4, <1>5 DEF Next, Progress, Failure

(* Nothing repairs or removes an abandoned file, and nobody opens it again. *)
LEMMA AbandonedStays ==
    ASSUME IInv, [Next]_vars
    PROVE  Abandoned \subseteq Abandoned'
<1> SUFFICES ASSUME NEW p \in Abandoned PROVE p \in Abandoned'
  OBVIOUS
<1>0. TypeOK /\ LInv
  BY DEF IInv, LInv
<1>1. /\ p \in Paths /\ disk[p] = Torn /\ disk[p] # Absent
      /\ \A w \in Writers : ~(pc[w] = "writing" /\ Target(w) = p)
  BY DEF Abandoned, Torn, Absent
<1>2. ASSUME NEW w \in Writers, pc[w] \in {"publishing", "writing"}, MorePlanned(w)
      PROVE  Target(w) # p
  BY <1>1, <1>2, TargetIsFresh
<1>3. disk'[p] = disk[p]
  <2> SUFFICES ASSUME disk'[p] # disk[p] PROVE FALSE
    OBVIOUS
  <2>1. PICK w \in Writers :
          /\ pc[w] \in {"publishing", "writing"}
          /\ call[w].done + 1 \in DOMAIN call[w].plan /\ p = Target(w)
    BY <1>0, <1>1, WhoChangesAFile
  <2>2. call[w].plan \in Seq(FileOfPlan) /\ call[w].done \in Nat
    BY <1>0, CallFields
  <2> QED BY <1>2, <2>1, <2>2 DEF MorePlanned
<1>4. ASSUME NEW w \in Writers, pc'[w] = "writing"
      PROVE  Target(w)' # p
  <2>1. call'[w] = call[w] /\ (OpenPart(w) \/ pc[w] = "writing")
    BY <1>0, <1>4, WritingBegins
  <2>2. Target(w)' = Target(w)
    BY <2>1 DEF Target, Current
  <2> QED BY <1>1, <1>2, <2>1, <2>2 DEF OpenPart
<1> QED BY <1>1, <1>3, <1>4 DEF Abandoned, Torn

(* Of the answers of reader r, the one after the first n say the read failed. *)
AllFailAfter(r, n) == \A i \in DOMAIN answers[r] : i > n => ~answers[r][i].ok

(* A torn file was left behind when reader r had n answers: what it has been
   told since is that its read failed, and the read it is in still has the
   file ahead of it. *)
IsBlocked(r, n) ==
    /\ Len(answers[r]) >= n
    /\ AllFailAfter(r, n)
    /\ \E p \in Abandoned : rpc[r] = "files" => p \in scan[r].todo

(* One more failed read is one more failure. *)
LEMMA FailureIsNoAnswer ==
    ASSUME TypeOK, NEW r \in Readers, NEW n \in Nat, AllFailAfter(r, n),
           Len(answers[r]) >= n, EndRead(r, Failed)
    PROVE  AllFailAfter(r, n)' /\ Len(answers'[r]) >= n /\ rpc'[r] = "idle"
<1>1. answers[r] \in Seq(Answers) /\ answers \in [Readers -> Seq(Answers)]
  BY DEF TypeOK, Answers
<1>2. answers'[r] = Append(answers[r], Failed) /\ rpc'[r] = "idle"
  BY <1>1 DEF EndRead, TypeOK
<1>3. Failed \in Answers /\ ~Failed.ok
  BY DEF Failed, Answers
<1>4. /\ Len(answers'[r]) = Len(answers[r]) + 1
      /\ DOMAIN answers'[r] = 1..(Len(answers[r]) + 1)
      /\ \A i \in 1..Len(answers[r]) : answers'[r][i] = answers[r][i]
      /\ answers'[r][Len(answers[r]) + 1] = Failed
  BY <1>1, <1>2, <1>3
<1>5. ASSUME NEW i \in DOMAIN answers'[r], i > n PROVE ~answers'[r][i].ok
  <2>1. CASE i = Len(answers[r]) + 1
    BY <1>3, <1>4, <2>1
  <2>2. CASE i # Len(answers[r]) + 1
    <3>1. i \in 1..Len(answers[r]) /\ i \in DOMAIN answers[r]
      BY <1>1, <1>4, <1>5, <2>2
    <3> QED BY <1>4, <1>5, <3>1 DEF AllFailAfter
  <2> QED BY <2>1, <2>2
<1> QED BY <1>1, <1>2, <1>4, <1>5 DEF AllFailAfter

(* A blocked reader stays blocked. *)
LEMMA BlockedStays ==
    ASSUME IInv, [Next]_vars, NEW r \in Readers, NEW n \in Nat, IsBlocked(r, n)
    PROVE  IsBlocked(r, n)'
<1>0. TypeOK
  BY DEF IInv, LInv
<1>1. PICK p \in Abandoned : rpc[r] = "files" => p \in scan[r].todo
  BY DEF IsBlocked
<1>2. p \in Abandoned' /\ p \in Paths /\ disk[p] = Torn /\ p \in PartFiles
  BY AbandonedStays DEF Abandoned, PartFiles, Torn, Absent
<1>3. ASSUME answers'[r] = answers[r], rpc'[r] = "files" => p \in scan'[r].todo
      PROVE  IsBlocked(r, n)'
  BY <1>2, <1>3 DEF IsBlocked, AllFailAfter
<1>4. ASSUME EndRead(r, Failed) PROVE IsBlocked(r, n)'
  BY <1>0, <1>2, <1>4, FailureIsNoAnswer DEF IsBlocked
<1>5. CASE UNCHANGED <<rpc, scan, answers>>
  BY <1>1, <1>3, <1>5
<1>6. ASSUME NEW s \in Readers \ {r}, BeginRead(s) \/ ReaderStep(s)
      PROVE  IsBlocked(r, n)'
  <2>1. rpc'[r] = rpc[r] /\ scan'[r] = scan[r] /\ answers'[r] = answers[r]
    BY <1>0, <1>6 DEF BeginRead, ReaderStep, NoTargets, SomeTargets, ExpandGlob, ReadPart,
                      FinishRead, EndRead, TypeOK
  <2> QED BY <1>1, <1>3, <2>1
<1>7. CASE BeginRead(r) \/ SomeTargets(r)
  BY <1>0, <1>3, <1>7 DEF BeginRead, SomeTargets, TypeOK
<1>8. CASE NoTargets(r)
  BY <1>2, <1>8 DEF NoTargets
<1>9. CASE ExpandGlob(r)
  <2>1. scan'[r].todo = PartFiles /\ answers' = answers
    BY <1>0, <1>2, <1>9 DEF ExpandGlob, TypeOK
  <2> QED BY <1>2, <1>3, <2>1
<1>10. CASE ReadPart(r)
  <2>1. PICK q \in scan[r].todo :
          \/ /\ disk[q].state = "whole" /\ UNCHANGED <<rpc, answers>>
             /\ scan' = [scan EXCEPT ![r].todo = @ \ {q}, ![r].rows = @ \cup disk[q].rows]
          \/ EndRead(r, Failed)
    BY <1>10 DEF ReadPart
  <2>2. CASE EndRead(r, Failed)
    BY <1>4, <2>2
  <2>3. CASE ~EndRead(r, Failed)
    <3>1. q # p
      BY <1>2, <2>1, <2>3 DEF Torn
    <3>2. scan'[r].todo = scan[r].todo \ {q} /\ answers' = answers /\ rpc' = rpc
      BY <1>0, <2>1, <2>3 DEF TypeOK
    <3> QED BY <1>1, <1>3, <3>1, <3>2
  <2> QED BY <2>2, <2>3
<1>11. CASE FinishRead(r)
  BY <1>1, <1>11 DEF FinishRead
<1>12. ASSUME NEW w \in Writers,
              \/ WriteNothing(w) \/ RefuseBatch(w) \/ AcceptBatch(w)
              \/ Progress(w) \/ Failure(w)
       PROVE  UNCHANGED readerVars
  BY <1>12 DEF WriteNothing, RefuseBatch, AcceptBatch, Progress, Failure, ProbeTaken,
               PlanGroup, OpenPart, ClosePart, Return, PlanFails, MkdirFails, PartFails, Crash
<1> QED BY <1>5, <1>6, <1>7, <1>8, <1>9, <1>10, <1>11, <1>12
        DEF Next, ReaderStep, vars, readerVars

(* Nothing ever repairs or skips a torn part file: once a writer died in
   pq.write_table, or failed to remove what it had begun, every read that
   begins afterwards fails (read_frame(): one unreadable file fails the
   query), for any number of reads. *)
THEOREM OneTornPartBlocksEveryRead ==
    ASSUME PrivateRuns
    PROVE  Spec => TornPartBlocksReads
<1>1. ASSUME NEW r \in Readers, NEW n \in 0..MaxReads
      PROVE  Spec => []((Abandoned # {} /\ rpc[r] = "idle" /\ Len(answers[r]) = n)
                          => [](\A i \in DOMAIN answers[r] : i > n => ~answers[r][i].ok))
  <2>1. IInv /\ IsBlocked(r, n) /\ [Next]_vars => IsBlocked(r, n)'
    BY <1>1, BlockedStays DEF IsBlocked
  <2>2. IInv /\ Abandoned # {} /\ rpc[r] = "idle" /\ Len(answers[r]) = n => IsBlocked(r, n)
    BY <1>1 DEF IsBlocked, AllFailAfter, IInv, LInv, TypeOK
  <2>3. IsBlocked(r, n) => \A i \in DOMAIN answers[r] : i > n => ~answers[r][i].ok
    BY DEF IsBlocked, AllFailAfter
  <2> QED BY <2>1, <2>2, <2>3, Invariance, PTL DEF Spec
<1> QED BY <1>1 DEF TornPartBlocksReads

=============================================================================
