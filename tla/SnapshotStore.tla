--------------------------- MODULE SnapshotStore ---------------------------
(***************************************************************************)
(* The Parquet snapshot store (pipeline/store/snapshot_store.py, paths.py) *)
(* as the processes that call it see it.  A writer is a process running    *)
(* one collection run after another call of write(); a reader is a process *)
(* calling read_frame().  The two meet only in the file system, so every   *)
(* system call the code makes on a part file is a step of its own: the     *)
(* exists() of next_free_part_path, the open of pq.write_table, its close, *)
(* the removal of a file it failed to write, the glob of a read and the    *)
(* read of each file.  A process can die between any two of them.          *)
(*                                                                         *)
(* What DuckDB and pyarrow do to a file is external: pq.write_table opens  *)
(* its target for writing, which truncates it, and on an exception unlinks *)
(* it and raises; read_parquet fails on a file that is not complete.       *)
(***************************************************************************)
EXTENDS Integers, Sequences, FiniteSets

CONSTANTS
    Writers,      \* processes that call write()
    Readers,      \* processes that call read_frame()
    Parts,        \* partition directories source=/route_key=/fetched_date=
    Runs,         \* ingest_run_id values; the order is that of the strings
    Ids,          \* observation_id values
    PartOf,       \* [Ids -> Parts]: the id hashes source, route, fetched_date
    Rows,         \* observations: [id, run, ok, v]; ok = survives _rebuild
    Batches,      \* [Writers -> set of sequences of Rows] they may submit
    FixtureRows,  \* the fixture dataset; {} when use_fixtures is off
    MaxAttempt,   \* bound on the numeric suffix of a part file name
    MaxCalls,     \* bound on the calls of write() by one writer
    MaxReads      \* bound on the calls of read_frame() by one reader

ASSUME ConstantsAssumption ==
    /\ Parts \subseteq Nat /\ Runs \subseteq Nat
    /\ PartOf \in [Ids -> Parts]
    /\ Rows \subseteq [id : Ids, run : Runs, ok : BOOLEAN, v : Nat]
    /\ Batches \in [Writers -> SUBSET Seq(Rows)]
    /\ FixtureRows \subseteq Rows
    /\ MaxAttempt \in Nat \ {0} /\ MaxCalls \in Nat /\ MaxReads \in Nat

VARIABLES
    disk,         \* path -> the part file there
    pc,           \* writer -> where it is in write()
    call,         \* writer -> the locals of its write() call
    handle,       \* writer -> its open file
    returned,     \* writer -> the outcomes of its calls so far, in order
    rpc,          \* reader -> where it is in read_frame()
    scan,         \* reader -> the locals of its read_frame() call
    answers       \* reader -> what its reads have returned, in order

writerVars == <<pc, call, handle, returned>>
readerVars == <<rpc, scan, answers>>
vars == <<disk, writerVars, readerVars>>

-----------------------------------------------------------------------------
(* Paths, groups and the dedup of a batch.                                 *)

Paths == [part : Parts, run : Runs, attempt : 1..MaxAttempt]

GroupKeys == Parts \X Runs

(* part_path: attempt 1 is part-{run}.parquet, attempt n part-{run}-00n. *)
PartPath(key, attempt) == [part |-> key[1], run |-> key[2], attempt |-> attempt]

(* The key of the group a row is published in (write, lines 118-125). *)
KeyOf(row) == <<PartOf[row.id], row.run>>

(* sorted(groups.items()): by partition, then by run. *)
SortsBefore(g, h) == g[1] < h[1] \/ (g[1] = h[1] /\ g[2] <= h[2])

BatchRows(batch) == {batch[i] : i \in DOMAIN batch}

(* The rows the dict of write() ends up with: the last one of each id. *)
LastOf(batch) ==
    {batch[i] : i \in {j \in DOMAIN batch :
                         \A k \in DOMAIN batch : k > j => batch[k].id # batch[j].id}}

Groups(batch) == {KeyOf(row) : row \in LastOf(batch)}

(* Mutant: the rows of a group are taken from the batch, not from the dict. *)
UndedupedRows(batch, key) == {row \in BatchRows(batch) : KeyOf(row) = key}

GroupRows(batch, key) == {row \in LastOf(batch) : KeyOf(row) = key}

AllValid(batch) == \A row \in BatchRows(batch) : row.ok

-----------------------------------------------------------------------------
(* Files.                                                                  *)

Absent == [state |-> "absent", rows |-> {}]
Torn == [state |-> "torn", rows |-> {}]
Whole(rows) == [state |-> "whole", rows |-> rows]

Files == {Absent, Torn} \cup {Whole(rows) : rows \in SUBSET Rows}

(* Mutant: the planner does not look whether its candidate is there. *)
NotLooking(p) == FALSE

(* candidate.exists(): a file is there, complete or not. *)
Exists(p) == disk[p] # Absent

(* Mutant: the glob misses the files with a numeric suffix. *)
FirstAttemptsOnly == {p \in Paths : disk[p] # Absent /\ p.attempt = 1}

(* part_files and the glob of a scan: every part file, complete or not. *)
PartFiles == {p \in Paths : disk[p] # Absent}

-----------------------------------------------------------------------------
(* write().                                                                *)

(* Mutant: suffixes are counted from 0; part_path raises on attempt < 1. *)
NoCallFromZero == [batch |-> <<>>, todo |-> {}, attempt |-> 0, plan |-> <<>>, done |-> 0]

NoCall == [batch |-> <<>>, todo |-> {}, attempt |-> 1, plan |-> <<>>, done |-> 0]

Outcome(kind, c, records, dropped) ==
    [kind |-> kind, batch |-> c.batch, plan |-> c.plan,
     records |-> records, dropped |-> dropped]

(* The call ends: its outcome is appended and its locals are gone. *)
EndCall(w, outcome) ==
    /\ returned' = [returned EXCEPT ![w] = Append(@, outcome)]
    /\ pc' = [pc EXCEPT ![w] = "idle"]
    /\ call' = [call EXCEPT ![w] = NoCall]

CanCall(w) == pc[w] = "idle" /\ Len(returned[w]) < MaxCalls

(* An empty batch is a no-op returning zeros. *)
WriteNothing(w) ==
    /\ CanCall(w)
    /\ <<>> \in Batches[w]
    /\ EndCall(w, Outcome("written", NoCall, 0, 0))
    /\ UNCHANGED <<disk, handle, readerVars>>

(* validated_batch raises InvalidBatchError: one bad row refuses the batch. *)
RefuseBatch(w) ==
    /\ CanCall(w)
    /\ \E batch \in Batches[w] :
         /\ ~AllValid(batch)
         /\ EndCall(w, Outcome("invalid", [NoCall EXCEPT !.batch = batch], 0, 0))
    /\ UNCHANGED <<disk, handle, readerVars>>

(* A valid batch is deduplicated and grouped; planning starts. *)
AcceptBatch(w) ==
    /\ CanCall(w)
    /\ \E batch \in Batches[w] :
         /\ batch # <<>>
         /\ AllValid(batch)
         /\ call' = [call EXCEPT ![w] = [NoCall EXCEPT !.batch = batch,
                                                       !.todo = Groups(batch)]]
    /\ pc' = [pc EXCEPT ![w] = "planning"]
    /\ UNCHANGED <<disk, handle, returned, readerVars>>

(* The group the planning loop is at. *)
IsNextGroup(w, key) ==
    /\ key \in call[w].todo
    /\ \A other \in call[w].todo : SortsBefore(key, other)

(* Mutant: the loop tries the same candidate again. *)
ProbeSameAgain(w) ==
    /\ pc[w] = "planning"
    /\ \E key \in GroupKeys : IsNextGroup(w, key) /\ Exists(PartPath(key, call[w].attempt))
    /\ UNCHANGED vars

(* next_free_part_path finds its candidate taken and tries the next suffix. *)
ProbeTaken(w) ==
    /\ pc[w] = "planning"
    /\ \E key \in GroupKeys :
         /\ IsNextGroup(w, key)
         /\ Exists(PartPath(key, call[w].attempt))
    /\ call[w].attempt < MaxAttempt
    /\ call' = [call EXCEPT ![w].attempt = @ + 1]
    /\ UNCHANGED <<disk, pc, handle, returned, readerVars>>

(* Mutant: each group is published as soon as it is planned. *)
PlanAndPublishGroup(w) ==
    /\ pc[w] = "planning"
    /\ \E key \in GroupKeys :
         /\ IsNextGroup(w, key)
         /\ ~Exists(PartPath(key, call[w].attempt))
         /\ call' = [call EXCEPT
                ![w].plan = Append(@, [path |-> PartPath(key, call[w].attempt),
                                       rows |-> GroupRows(call[w].batch, key)]),
                ![w].todo = @ \ {key},
                ![w].attempt = 1]
    /\ pc' = [pc EXCEPT ![w] = "publishing"]
    /\ UNCHANGED <<disk, handle, returned, readerVars>>

(* The candidate is free: the group is planned there and the loop moves on;
   after the last group the publishing loop starts. *)
PlanGroup(w) ==
    /\ pc[w] = "planning"
    /\ \E key \in GroupKeys :
         /\ IsNextGroup(w, key)
         /\ ~Exists(PartPath(key, call[w].attempt))
         /\ call' = [call EXCEPT
                ![w].plan = Append(@, [path |-> PartPath(key, call[w].attempt),
                                       rows |-> GroupRows(call[w].batch, key)]),
                ![w].todo = @ \ {key},
                ![w].attempt = 1]
         /\ pc' = [pc EXCEPT ![w] = IF call[w].todo = {key} THEN "publishing" ELSE @]
    /\ UNCHANGED <<disk, handle, returned, readerVars>>

(* A path check, an exists() or an Arrow conversion raises in the planning loop. *)
PlanFails(w) ==
    /\ pc[w] = "planning"
    /\ EndCall(w, Outcome("unplanned", call[w], 0, 0))
    /\ UNCHANGED <<disk, handle, readerVars>>

(* The file the publishing loop is at. *)
Current(w) == call[w].plan[call[w].done + 1]
Target(w) == Current(w).path

MorePlanned(w) == call[w].done < Len(call[w].plan)

(* The writers other than w with an open file that is still at path p. *)
OthersOn(w, p) ==
    {x \in Writers \ {w} : handle[x] \in {"sole", "mixed"} /\ Target(x) = p}

(* pq.write_table opens its target, creating or truncating it.  If another
   writer has the same file open, both now write into it. *)
OpenPart(w) ==
    /\ pc[w] = "publishing"
    /\ MorePlanned(w)
    /\ disk' = [disk EXCEPT ![Target(w)] = Torn]
    /\ LET others == OthersOn(w, Target(w)) IN
         handle' = [x \in Writers |->
                      IF x = w THEN IF others = {} THEN "sole" ELSE "mixed"
                      ELSE IF x \in others THEN "mixed" ELSE handle[x]]
    /\ pc' = [pc EXCEPT ![w] = "writing"]
    /\ UNCHANGED <<call, returned, readerVars>>

(* pq.write_table returns: the file is complete.  What two writers that
   shared the file leave in it is either one's rows or no Parquet file, and
   a file that was unlinked while open stays unlinked. *)
ClosePart(w) ==
    /\ pc[w] = "writing"
    /\ \/ /\ handle[w] \in {"sole", "mixed"}
          /\ disk' = [disk EXCEPT ![Target(w)] = Whole(Current(w).rows)]
       \/ handle[w] = "mixed" /\ disk' = [disk EXCEPT ![Target(w)] = Torn]
       \/ handle[w] = "unlinked" /\ UNCHANGED disk
    /\ handle' = [handle EXCEPT ![w] = "none"]
    /\ call' = [call EXCEPT ![w].done = @ + 1]
    /\ pc' = [pc EXCEPT ![w] = "publishing"]
    /\ UNCHANGED <<returned, readerVars>>

(* Mutant: a failed write rolls its batch back, published groups included. *)
PartFailsAndRollsBack(w) ==
    /\ pc[w] = "writing"
    /\ disk' = [p \in Paths |->
                   IF \E i \in 1..(call[w].done + 1) : call[w].plan[i].path = p
                     THEN Absent ELSE disk[p]]
    /\ handle' = [handle EXCEPT ![w] = "none"]
    /\ EndCall(w, Outcome("failed", call[w], 0, 0))
    /\ UNCHANGED readerVars

(* The disk is full, say: pq.write_table removes what is at its target (an
   error of the removal is ignored) and raises out of write().  The groups
   published before it stay. *)
PartFails(w) ==
    /\ pc[w] = "writing"
    /\ \/ /\ disk' = [disk EXCEPT ![Target(w)] = Absent]
          /\ handle' = [x \in Writers |->
                          IF x = w THEN "none"
                          ELSE IF x \in OthersOn(w, Target(w)) THEN "unlinked"
                          ELSE handle[x]]
       \/ UNCHANGED disk /\ handle' = [handle EXCEPT ![w] = "none"]
    /\ EndCall(w, Outcome("failed", call[w], 0, 0))
    /\ UNCHANGED readerVars

(* mkdir raises before the file is opened. *)
MkdirFails(w) ==
    /\ pc[w] = "publishing"
    /\ MorePlanned(w)
    /\ EndCall(w, Outcome("failed", call[w], 0, 0))
    /\ UNCHANGED <<disk, handle, readerVars>>

RowsPlanned(c) == UNION {c.plan[i].rows : i \in DOMAIN c.plan}

(* Every file is written: the WriteResult is returned. *)
Return(w) ==
    /\ pc[w] = "publishing"
    /\ ~MorePlanned(w)
    /\ EndCall(w, Outcome("written", call[w], Cardinality(RowsPlanned(call[w])),
                    Len(call[w].batch) - Cardinality(LastOf(call[w].batch))))
    /\ UNCHANGED <<disk, handle, readerVars>>

(* The process is killed.  A file it was writing stays as it is. *)
Crash(w) ==
    /\ pc[w] # "dead"
    /\ pc' = [pc EXCEPT ![w] = "dead"]
    /\ handle' = [handle EXCEPT ![w] = "none"]
    /\ UNCHANGED <<disk, call, returned, readerVars>>

-----------------------------------------------------------------------------
(* read_frame().                                                           *)

NoScan == [floor |-> {}, todo |-> {}, rows |-> {}]

Published == {<<p, disk[p].rows>> : p \in {q \in Paths : disk[q].state = "whole"}}

EndRead(r, answer) ==
    /\ answers' = [answers EXCEPT ![r] = Append(@, answer)]
    /\ rpc' = [rpc EXCEPT ![r] = "idle"]

Found(rows) == [ok |-> TRUE, rows |-> rows]
Failed == [ok |-> FALSE, rows |-> {}]

(* The call.  floor is a history variable: what was published by then. *)
BeginRead(r) ==
    /\ rpc[r] = "idle"
    /\ Len(answers[r]) < MaxReads
    /\ scan' = [scan EXCEPT ![r] = [NoScan EXCEPT !.floor = Published]]
    /\ rpc' = [rpc EXCEPT ![r] = "targets"]
    /\ UNCHANGED <<disk, writerVars, answers>>

(* _scan_targets finds no part file: only the fixtures are scanned, and with
   no fixtures either the answer is the empty frame. *)
NoTargets(r) ==
    /\ rpc[r] = "targets"
    /\ PartFiles = {}
    /\ EndRead(r, Found(FixtureRows))
    /\ UNCHANGED <<disk, writerVars, scan>>

(* _scan_targets finds part files and hands their glob to the query. *)
SomeTargets(r) ==
    /\ rpc[r] = "targets"
    /\ PartFiles # {}
    /\ rpc' = [rpc EXCEPT ![r] = "glob"]
    /\ UNCHANGED <<disk, writerVars, scan, answers>>

(* DuckDB expands the glob again when the query runs; a pattern that matches
   nothing any more is an error. *)
ExpandGlob(r) ==
    /\ rpc[r] = "glob"
    /\ IF PartFiles = {}
         THEN EndRead(r, Failed) /\ UNCHANGED scan
         ELSE /\ scan' = [scan EXCEPT ![r].todo = PartFiles, ![r].rows = FixtureRows]
              /\ rpc' = [rpc EXCEPT ![r] = "files"]
              /\ UNCHANGED answers
    /\ UNCHANGED <<disk, writerVars>>

(* Mutant: files that cannot be read are skipped. *)
ReadPartOrSkip(r) ==
    /\ rpc[r] = "files"
    /\ \E p \in scan[r].todo :
         scan' = [scan EXCEPT ![r].todo = @ \ {p}, ![r].rows = @ \cup disk[p].rows]
    /\ UNCHANGED <<disk, writerVars, rpc, answers>>

(* DuckDB reads one of the files, in no particular order. *)
ReadPart(r) ==
    /\ rpc[r] = "files"
    /\ \E p \in scan[r].todo :
         IF disk[p].state = "whole"
           THEN /\ scan' = [scan EXCEPT ![r].todo = @ \ {p},
                                        ![r].rows = @ \cup disk[p].rows]
                /\ UNCHANGED <<rpc, answers>>
           ELSE EndRead(r, Failed) /\ UNCHANGED scan
    /\ UNCHANGED <<disk, writerVars>>

(* Every file was read: the scanned rows go on to dedup (FareView). *)
FinishRead(r) ==
    /\ rpc[r] = "files"
    /\ scan[r].todo = {}
    /\ EndRead(r, Found(scan[r].rows))
    /\ UNCHANGED <<disk, writerVars, scan>>

-----------------------------------------------------------------------------
Init ==
    /\ disk = [p \in Paths |-> Absent]
    /\ pc = [w \in Writers |-> "idle"]
    /\ call = [w \in Writers |-> NoCall]
    /\ handle = [w \in Writers |-> "none"]
    /\ returned = [w \in Writers |-> <<>>]
    /\ rpc = [r \in Readers |-> "idle"]
    /\ scan = [r \in Readers |-> NoScan]
    /\ answers = [r \in Readers |-> <<>>]

(* What a call does when nothing goes wrong, and what may go wrong with it. *)
Progress(w) ==
    \/ ProbeTaken(w) \/ PlanGroup(w) \/ OpenPart(w) \/ ClosePart(w) \/ Return(w)

Failure(w) == PlanFails(w) \/ MkdirFails(w) \/ PartFails(w) \/ Crash(w)

ReaderStep(r) ==
    \/ NoTargets(r) \/ SomeTargets(r) \/ ExpandGlob(r) \/ ReadPart(r) \/ FinishRead(r)

Next ==
    \/ \E w \in Writers :
         WriteNothing(w) \/ RefuseBatch(w) \/ AcceptBatch(w) \/ Progress(w) \/ Failure(w)
    \/ \E r \in Readers : BeginRead(r) \/ ReaderStep(r)

Spec == Init /\ [][Next]_vars

(* A call that has begun is straight-line Python: its process keeps taking
   the call's steps.  Nothing makes a failure happen. *)
FairSpec ==
    /\ Spec
    /\ \A w \in Writers : WF_vars(Progress(w))
    /\ \A r \in Readers : WF_vars(ReaderStep(r))

-----------------------------------------------------------------------------
(* Properties.                                                             *)

AnyBatch == {<<>>} \cup UNION {Batches[w] : w \in Writers}

Calls ==
    [batch : AnyBatch,
     todo : SUBSET GroupKeys, attempt : 1..MaxAttempt,
     plan : Seq([path : Paths, rows : SUBSET Rows]), done : Nat]

Outcomes ==
    [kind : {"written", "invalid", "unplanned", "failed"},
     batch : AnyBatch,
     plan : Seq([path : Paths, rows : SUBSET Rows]),
     records : Nat, dropped : Int]

(* The type of every variable of the store. *)
TypeOK ==
    /\ disk \in [Paths -> Files]
    /\ pc \in [Writers -> {"idle", "planning", "publishing", "writing", "dead"}]
    /\ call \in [Writers -> Calls]
    /\ handle \in [Writers -> {"none", "sole", "mixed", "unlinked"}]
    /\ returned \in [Writers -> Seq(Outcomes)]
    /\ rpc \in [Readers -> {"idle", "targets", "glob", "files"}]
    /\ scan \in [Readers -> [floor : SUBSET (Paths \X SUBSET Rows),
                              todo : SUBSET Paths, rows : SUBSET Rows]]
    /\ answers \in [Readers -> Seq([ok : BOOLEAN, rows : SUBSET Rows])]

RunsOf(w) == {row.run : row \in UNION {BatchRows(batch) : batch \in Batches[w]}}

(* One ingest_run_id belongs to one collection run (L0 section 3): no two
   processes ever write rows of the same run. *)
PrivateRuns ==
    \A w, x \in Writers : w # x => RunsOf(w) \cap RunsOf(x) = {}

OutcomesOf(w) == {returned[w][i] : i \in DOMAIN returned[w]}

WrittenBy(w) == {o \in OutcomesOf(w) : o.kind = "written"}

Vouched(o) == {<<o.plan[i].path, o.plan[i].rows>> : i \in DOMAIN o.plan}

AckedParts == UNION {UNION {Vouched(o) : o \in WrittenBy(w)} : w \in Writers}

(* Every part a returned WriteResult reports is on disk, complete, with
   exactly the rows of its group - whatever other writers do, crash or fail
   to do afterwards (write(), "never rewrites or deletes an existing file"). *)
AckedPartsAreOnDisk ==
    \A ack \in AckedParts : disk[ack[1]] = Whole(ack[2])

(* No step of any process changes or removes a complete part file. *)
CompleteIsForever ==
    \A p \in Paths : disk[p].state = "whole" => disk'[p] = disk[p]

NeverRewritten == [][CompleteIsForever]_vars

(* A WriteResult adds up: its files are distinct, they hold exactly the last
   row of every id of the batch, none of them twice, and records_written plus
   duplicates_dropped is the size of the batch. *)
AckAccountsForBatch ==
    \A w \in Writers : \A o \in WrittenBy(w) :
        /\ \A i, j \in DOMAIN o.plan :
              i # j => /\ o.plan[i].path # o.plan[j].path
                       /\ o.plan[i].rows \cap o.plan[j].rows = {}
        /\ RowsPlanned(o) = LastOf(o.batch)
        /\ {row.id : row \in RowsPlanned(o)} = {row.id : row \in BatchRows(o.batch)}
        /\ o.records = Cardinality({row.id : row \in BatchRows(o.batch)})
        /\ o.records + o.dropped = Len(o.batch)

PathsOf(c) == {c.plan[i].path : i \in DOMAIN c.plan}

(* A part file, even a torn one, exists only where a batch that validated as
   a whole and was planned to its last group put it: no refused batch leaves
   anything behind (write(), "before ... a single file has been published"). *)
OnlyWholeBatchesReachDisk ==
    \A p \in PartFiles : \E w \in Writers :
        \/ /\ p \in PathsOf(call[w])
           /\ call[w].todo = {}
           /\ AllValid(call[w].batch)
        \/ \E o \in OutcomesOf(w) :
              p \in PathsOf(o) /\ o.kind \in {"written", "failed"} /\ AllValid(o.batch)

(* Every row of a complete file belongs where the file is: the partition and
   run in its path are the row's own, and it is the only row with its id. *)
RowsAreWhereTheirPathSays ==
    \A part \in Published : \A row \in part[2] :
        /\ PartOf[row.id] = part[1].part /\ row.run = part[1].run
        /\ \A other \in part[2] : other.id = row.id => other = row

(* A torn file nobody is writing: its writer died or failed to remove it. *)
Abandoned ==
    {p \in Paths : /\ disk[p] = Torn
                   /\ \A w \in Writers : ~(pc[w] = "writing" /\ Target(w) = p)}

(* Nothing ever repairs or skips a torn part file: once one is left behind no
   read that begins afterwards returns rows. *)
TornPartBlocksReads ==
    \A r \in Readers, n \in 0..MaxReads :
        []((Abandoned # {} /\ rpc[r] = "idle" /\ Len(answers[r]) = n)
             => [](\A i \in DOMAIN answers[r] : i > n => ~answers[r][i].ok))

(* Reads and writes of this store are those of an append-only history. *)
History == INSTANCE FareHistory WITH
    Names <- Paths, Base <- FixtureRows, parts <- Published, acked <- AckedParts,
    floor <- [r \in Readers |-> scan[r].floor]

IsAppendOnlyHistory == History!Spec

(* Every call of write() that begins ends, or its process dies: the search
   for a free suffix and the publishing loop terminate. *)
WritesReturn ==
    \A w \in Writers : pc[w] = "planning" ~> pc[w] \in {"idle", "dead"}

(* Every read that begins ends. *)
ReadsReturn ==
    \A r \in Readers : rpc[r] = "targets" ~> rpc[r] = "idle"

(* No call of either kind hangs, however calls of others get in its way. *)
CallsReturn == WritesReturn /\ ReadsReturn

=============================================================================
