------------------------------ MODULE FareView ------------------------------
(***************************************************************************)
(* What a read of the snapshot store resolves to: the one query of         *)
(* SnapshotStore._build_query, ReadFilters, and sources_with_recent_data,  *)
(* over a history that grows by write() calls, some of which fail after    *)
(* some of their groups were published and are called again with the same  *)
(* batch.  How the groups reach the disk is SnapshotStore's matter; here a *)
(* call is one step, and what varies is the order and the grouping of the  *)
(* rows, and how often one of them is stored.                              *)
(*                                                                         *)
(* A row is [id, at, run, q, v]: the observation_id, fetched_at (a tick,   *)
(* TicksPerDay of them to a UTC date), ingest_run_id, data_quality, and    *)
(* the rest of the payload.  The fields the id is computed from (identity, *)
(* NATURAL_KEY_FIELDS) are Key[id]: validation refuses any other row.  A   *)
(* stored row also has the suffix of its part file, 0 for the fixtures.    *)
(***************************************************************************)
EXTENDS Integers, Sequences, FiniteSets, SequencesExt

CONSTANTS
    Ids,           \* observation_id values; the order is that of the strings
    Runs,          \* ingest_run_id values, likewise
    Key,           \* [Ids -> [part, source, route, kind, day, depart]]
    TicksPerDay,   \* distinct fetched_at values within one UTC date
    Rows,          \* the rows that can be submitted
    FixtureRows,   \* the fixture dataset, scanned with the parts
    Batches,       \* the sequences of rows a write() call may be given
    Filters,       \* the ReadFilters in use
    Unset,         \* a ReadFilters field left at None
    MaxWrites      \* bound on the number of write() calls, failed ones included

Qualities == {"ok", "suspect", "rejected"}

DayOf(at) == at \div TicksPerDay

ASSUME ViewAssumption ==
    /\ Ids \subseteq Nat /\ Runs \subseteq Nat /\ TicksPerDay \in Nat \ {0}
    /\ \A id \in Ids :
         Key[id].part \in Nat /\ Key[id].day \in Nat /\ Key[id].depart \in Nat
    /\ \A id, other \in Ids :
         Key[id].part = Key[other].part <=>
           <<Key[id].source, Key[id].route, Key[id].day>> =
             <<Key[other].source, Key[other].route, Key[other].day>>
    /\ \A row \in Rows :
         /\ row \in [id : Ids, at : Nat, run : Runs, q : Qualities, v : Nat]
         /\ DayOf(row.at) = Key[row.id].day
    /\ FixtureRows \subseteq Rows /\ IsFiniteSet(FixtureRows)
    /\ Batches \subseteq Seq(Rows)
    /\ MaxWrites \in Nat
    /\ Unset \notin Int

VARIABLES
    history,       \* the stored rows, of every part file and of the fixtures
    writes,        \* the number of write() calls so far
    acked,         \* the last version of each id in every batch acknowledged
    pending        \* the batches whose last call of write() failed

vars == <<history, writes, acked, pending>>

-----------------------------------------------------------------------------
(* ReadFilters.                                                            *)

NoFilter ==
    [source |-> Unset, route |-> Unset, kind |-> Unset, quality |-> Unset,
     includeRejected |-> FALSE, dayFrom |-> Unset, dayTo |-> Unset,
     atFrom |-> Unset, atTo |-> Unset, departFrom |-> Unset, departTo |-> Unset,
     limit |-> Unset]

Ordered(low, high) == low = Unset \/ high = Unset \/ low <= high

(* _ranges_are_ordered: a reversed range is an error of the caller. *)
RangesAreOrdered(f) ==
    /\ Ordered(f.dayFrom, f.dayTo)
    /\ Ordered(f.atFrom, f.atTo)
    /\ Ordered(f.departFrom, f.departTo)

ASSUME FiltersAssumption ==
    \A f \in Filters :
        /\ DOMAIN f = DOMAIN NoFilter /\ RangesAreOrdered(f)
        /\ {f.atFrom, f.atTo, f.limit} \subseteq Nat \cup {Unset}

(* An explicitly empty list selects nothing. *)
SelectsNothing(f) == {} \in {f.source, f.route, f.kind, f.quality}

Listed(values, x) == values = Unset \/ x \in values

Within(low, x, high) == (low = Unset \/ low <= x) /\ (high = Unset \/ x <= high)

(* The conditions on columns the observation_id is computed from. *)
AdmitsKey(f, id) ==
    /\ Listed(f.source, Key[id].source)
    /\ Listed(f.route, Key[id].route)
    /\ Listed(f.kind, Key[id].kind)
    /\ Within(f.dayFrom, Key[id].day, f.dayTo)
    /\ Within(f.departFrom, Key[id].depart, f.departTo)

(* The conditions two rows of one observation can answer differently. *)
AdmitsVersion(f, row) ==
    /\ Listed(f.quality, row.q)
    /\ f.quality = Unset /\ ~f.includeRejected => row.q # "rejected"
    /\ Within(f.atFrom, row.at, f.atTo)

Admits(f, row) == AdmitsKey(f, row.id) /\ AdmitsVersion(f, row)

-----------------------------------------------------------------------------
(* The query: scan, rank within each observation_id, keep rank 1, sort.    *)

(* Mutant: the window is ordered by fetched_at ascending. *)
FirstFetched(a, b) == a.at < b.at \/ (a.at = b.at /\ a.run > b.run)

(* Mutant: no tie-breaker. *)
LaterFetched(a, b) == a.at > b.at

(* ORDER BY fetched_at DESC, ingest_run_id DESC: a ranks before b. *)
Supersedes(a, b) == a.at > b.at \/ (a.at = b.at /\ a.run > b.run)

Scanned(rows, f) == {row \in rows : Admits(f, row)}

(* Mutant: the window is partitioned by route. *)
RankedPerRoute(S, id) ==
    {row \in S : /\ row.id = id
                 /\ \A other \in S : Key[other.id].route = Key[id].route
                                       => ~Supersedes(other, row)}

(* The rows row_number() can rank first for an id: those nothing in the scan
   supersedes.  Rows that tie are ranked in no defined order. *)
RankedFirst(S, id) ==
    {row \in S : row.id = id /\ \A other \in S : other.id = id => ~Supersedes(other, row)}

(* Every set of rows the ranking can keep: one per observation_id. *)
Resolutions(S) ==
    LET first == UNION {RankedFirst(S, row.id) : row \in S} IN
      {R \in SUBSET first : \A row \in first : Cardinality({kept \in R : kept.id = row.id}) = 1}

(* Mutant: the latest rows are chosen first and filtered afterwards. *)
FilteredAfterRanking(rows, f) ==
    {{row \in R : Admits(f, row)} : R \in Resolutions(rows)}

(* The filters run before the window. *)
Views(rows, f) == Resolutions(Scanned(rows, f))

(* ORDER BY fetched_at, observation_id. *)
SortsBefore(a, b) == a.at < b.at \/ (a.at = b.at /\ a.id < b.id)

Ascends(frame) ==
    \A i, j \in DOMAIN frame : i < j => SortsBefore(frame[i], frame[j])

Sorted(R) == CHOOSE frame \in [1..Cardinality(R) -> R] : Ascends(frame)

Limited(rows, limit) ==
    IF limit = Unset \/ limit >= Len(rows) THEN rows ELSE SubSeq(rows, 1, limit)

FrameOf(R, f) == Limited(Sorted(R), f.limit)

(* read_frame: the frames it may return; with no target to scan, or nothing
   selected, the empty frame. *)
ReadFrame(rows, f) ==
    IF rows = {} \/ SelectsNothing(f) THEN {<< >>} ELSE {FrameOf(R, f) : R \in Views(rows, f)}

-----------------------------------------------------------------------------
(* sources_with_recent_data.                                               *)

(* The window [as_of - within_days, as_of], inclusive at both ends. *)
RecentWindow(within, asOf) ==
    [NoFilter EXCEPT !.dayFrom = asOf - within, !.dayTo = asOf]

LastDays(R) ==
    LET dated == {<<Key[row.id].source, DayOf(row.at)>> : row \in R} IN
      {last \in dated : \A other \in dated : other[1] = last[1] => other[2] <= last[2]}

(* source -> most recent fetched_date, as a set of pairs. *)
RecentSources(rows, within, asOf) ==
    {LastDays(R) : R \in Views(rows, RecentWindow(within, asOf))}

-----------------------------------------------------------------------------
(* The history.                                                            *)

StoredAs(row, suffix) ==
    [id |-> row.id, at |-> row.at, run |-> row.run, q |-> row.q, v |-> row.v,
     suffix |-> suffix]

Submitted(stored) ==
    [id |-> stored.id, at |-> stored.at, run |-> stored.run, q |-> stored.q,
     v |-> stored.v]

Stored == {StoredAs(row, suffix) : row \in Rows, suffix \in 0..MaxWrites}

Init ==
    /\ history \in {{}, {StoredAs(row, 0) : row \in FixtureRows}}
    /\ writes = 0
    /\ acked = {}
    /\ pending = {}

(* The group a row is published in: (source, route_key, fetched_date, run). *)
Group(row) == <<Key[row.id].part, row.run>>

(* sorted(groups.items()). *)
PublishedBefore(g, h) == g[1] < h[1] \/ (g[1] = h[1] /\ g[2] < h[2])

(* next_free_part_path: suffixes are taken in order and never given back. *)
NextSuffix(g) ==
    1 + Cardinality({row.suffix : row \in {stored \in history :
                                             stored.suffix > 0 /\ Group(stored) = g}})

(* write()'s dict: a row replaces the one that has its id. *)
LastOf(batch) ==
    FoldLeft(LAMBDA dict, row : {kept \in dict : kept.id # row.id} \cup {row},
             {}, batch)

Publish(rows) ==
    history' = history \cup {StoredAs(row, NextSuffix(Group(row))) : row \in rows}

(* The rows of a batch no later row of it has the id of. *)
Final(batch) ==
    {batch[i] : i \in {j \in DOMAIN batch :
                         \A k \in DOMAIN batch : k > j => batch[k].id # batch[j].id}}

(* A call of write() that publishes every group and returns. *)
Write ==
    /\ writes < MaxWrites
    /\ \E batch \in Batches :
         /\ Publish(LastOf(batch))
         /\ acked' = acked \cup Final(batch)
         /\ pending' = pending \ {batch}
    /\ writes' = writes + 1

(* A call that publishes some of its groups, in their order, and raises; its
   caller has the batch still and may call again. *)
FailedWrite ==
    /\ writes < MaxWrites
    /\ \E batch \in Batches :
         /\ \E row \in LastOf(batch) :
              LET last == Group(row)
                  done == {other \in LastOf(batch) : ~PublishedBefore(last, Group(other))} IN
                /\ done # LastOf(batch)
                /\ Publish(done)
         /\ pending' = pending \cup {batch}
    /\ writes' = writes + 1
    /\ UNCHANGED acked

Next == Write \/ FailedWrite

Spec == Init /\ [][Next]_vars

-----------------------------------------------------------------------------
(* Properties.                                                             *)

KeyOnly(f) ==
    f.quality = Unset /\ f.includeRejected /\ f.atFrom = Unset /\ f.atTo = Unset

(* A filter on natural-key columns sees exactly the rows an unfiltered read
   would show of the observations it selects: pushing it below the dedup
   window (_build_query, "filters run before the dedup window") is safe. *)
KeyFiltersCommute ==
    \A f \in Filters : KeyOnly(f) =>
        Views(history, f) =
            {{row \in R : AdmitsKey(f, row.id)} : R \in Resolutions(history)}

(* However the writes arrive, an observation in the frame of a read is in the
   next frame of that read at the same or a later fetched_at, unless the limit
   cuts it off: then the frame is full of rows that sort before the version it
   would show (_build_query, ORDER BY and LIMIT). *)
FrameNeverGoesBack ==
    [][\A f \in Filters : \A R \in Views(history, f), S \in Views(history', f) :
         LET before == FrameOf(R, f)
             after == FrameOf(S, f)
         IN  \A i \in DOMAIN before : \E new \in S :
               /\ new.id = before[i].id /\ new.at >= before[i].at
               /\ \/ \E j \in DOMAIN after : after[j] = new
                  \/ /\ Len(after) = f.limit
                     /\ \A j \in DOMAIN after : SortsBefore(after[j], new)]_vars

(* A read with an upper bound on fetched_at is a read of the past: rows
   fetched after the bound, written whenever, do not change it. *)
CutoffHidesTheFuture ==
    [][\A f \in Filters :
         (f.atTo # Unset /\ \A row \in history' \ history : row.at > f.atTo)
           => Views(history', f) = Views(history, f)]_vars

(* The frames as their caller sees them: a suffix is not a column. *)
FramesShown(rows, f) ==
    {[i \in DOMAIN frame |-> Submitted(frame[i])] : frame \in ReadFrame(rows, f)}

(* Where no run fetched one observation twice at the same instant with
   different results, a read has one possible answer, rows, order and limit
   included, however often the rows were stored. *)
ReadsAreDeterministic ==
    (\A a, b \in history :
        a.id = b.id /\ a.at = b.at /\ a.run = b.run => Submitted(a) = Submitted(b))
        => \A f \in Filters : Cardinality(FramesShown(history, f)) = 1

(* Once every batch whose write failed halfway has been written again, reads
   show what they would had no call ever failed: the fixtures and the last row
   of each id in every batch, once each, and nothing of a row its own batch
   replaced (write(), "keeping the LAST occurrence"). *)
RetryIsInvisible ==
    pending = {} =>
        LET fixtures == {row \in history : row.suffix = 0}
            once == fixtures \cup {StoredAs(row, 1) : row \in acked} IN
        \A f \in Filters : FramesShown(history, f) = FramesShown(once, f)

(* Leaving rejected rows out of a read hides no observation that has another
   version, and shows an older version only in the place of a rejected one
   that supersedes it: a row rejected by a later quality pass comes back as
   it was before (_build_query filters before it ranks). *)
StaleOnlyBehindRejection ==
    \A R \in Views(history, NoFilter),
       S \in Views(history, [NoFilter EXCEPT !.includeRejected = TRUE]) :
      /\ \A row \in history :
            row.q # "rejected" => \E shown \in R : shown.id = row.id
      /\ \A shown \in R :
            \/ shown.q # "rejected" /\ Submitted(shown) \in {Submitted(row) : row \in S}
            \/ \E row \in S : /\ row.id = shown.id /\ row.q = "rejected"
                              /\ shown.q # "rejected" /\ Supersedes(row, shown)

(* sources_with_recent_data reports what an ordinary read shows: a source and
   its last day are in the answer iff they are the last day in the window of
   the rows of an unwindowed default read. *)
RecentAgreesWithRead ==
    \A within \in 0..2, asOf \in 0..3 :
        RecentSources(history, within, asOf) =
            {LastDays({row \in R : DayOf(row.at) \in (asOf - within)..asOf}) :
                R \in Views(history, NoFilter)}

(* Neither the filters of a caller nor the window of the health query change
   which version of an observation is shown. *)
FiltersCommute == KeyFiltersCommute /\ RecentAgreesWithRead

(* A read has one answer, and it is not one a failed call could have changed. *)
OneAnswerWhateverFailed == ReadsAreDeterministic /\ RetryIsInvisible

=============================================================================
