# snap-flights in TLA+

A formal model of the parts of snap-flights that are implemented: the Parquet
snapshot store and the record boundary in front of it, the feature layer that
turns stored fares into a history, the baseline price model that turns a history
into advice, the backtest that scores the model, the scripts that keep the
synthetic dataset, and the clock and settings they all share. TLC checks the
model on small instances; TLAPS proves the results listed below for every value
of the constants.

Every definition is translated from the Python source. `PROJECT.json` says for
each one which lines it stands for, and lists the runs, the mutants (one way to
break the code per property, which the property notices), the findings, the
hazards and the theorems.

    tlc -config StoreWriters.cfg MCSnapshotStore     # one run
    tlapm SnapshotStoreProofs.tla                    # one set of proofs

## The system

Fares are observed by collectors (not implemented at this commit), written as
immutable Parquet part files under `source=/route_key=/fetched_date=`
directories, read back through one DuckDB query, reduced to one price per
departure and fetched day, and summarised into a percentile, an expected curve
and a verdict: `book_now`, `wait` or `neutral`. There is no database, no lock
and no daemon. Processes meet in exactly three places: the snapshot directory,
the fixture file, and `config/baseline.yaml`.

| Component | State it keeps | Operations | What is hard about it |
|---|---|---|---|
| store, writing (`pipeline/store/snapshot_store.py`, `paths.py`) | part files; the locals of a `write()` call | `write` = validate, dedup, group, find a free name per group, then publish group after group | several system calls per file, no lock, no temporary file and rename: another process, an error or a kill between any two |
| store, reading (`snapshot_store.py`, `filters.py`) | none | `read`, `read_frame`, `sources_with_recent_data` | the directory is listed twice and the files opened one by one while writers publish; filters run below the dedup window |
| record, validation, identity, Arrow (`pipeline/schema/`) | records in memory | `build_observation`, `with_quality`, `validate_batch`, `validated_batch`, conversions | a frozen record is not a validated one: copies skip every validator, and the id is taken before the fields are normalised |
| clock and settings (`shared/`, `default_store`) | `SNAP_TODAY`, `SNAP_USE_FIXTURES`; a cache of one settings object, a cache of stores | `today_utc`, `now_utc`, `load_data_settings`, `default_data_settings`, `default_store` | read at one moment and used at another; two caches with different keys |
| baseline configuration (`models/baseline/config.py`) | one cached configuration per process | `load_baseline_config` | the file is edited while processes hold what they loaded |
| buckets (`models/features/buckets.py`) | none | `ap_bucket` (scalar), `ap_bucket_expr` (polars) | two implementations of one mapping |
| route history (`models/features/observations.py`) | none | `load_route_history`, `collapse_observations` | order of the steps: departed, currency, cell |
| distributions, percentile, curve, verdict (`models/features/distributions.py`, `models/baseline/`) | none | `_stats`, `percentile_of`, `curve_from_index`, `find_expected_low`, `decide_verdict`, `decide_confidence`, `build_reason` | ties, halves, thresholds compared unrounded and quoted rounded, holes in the data |
| predictor (`models/baseline/predictor.py`, `types.py`) | none | `predict`, `predict_from_context`, `latest_observed_price` | one clock read and one store read, with midnight and writers between them; must never raise for thin data |
| backtest (`models/backtest/`) | the samples of a run | `verify_dataset`, `run_backtest`, `collect_samples`, `score_wait`, `summarise` | a check followed by many reads of the same mutable store; truth must not leak into predictions; three arms over one list of samples |
| fixture tools (`scripts/`) | `routes.csv`, the fixture file, its README | `generate`, `write_dataset`, `--check`, the validator | three files replaced one after the other; rows overwritten at remembered positions; a copy of the bucket list |
| adapters, quality, scheduler, API, web | – | – | empty directories |

What makes each of them correct is stated by the properties below; what is hard
to test in them is the list of `hazards` in `PROJECT.json`, each at its line.

## The modules

    FareHistory            what the store promises: an append-only history
       ^  refinement
    SnapshotStore          write() and read_frame() system call by system call
       <- SnapshotStoreProofs
    FareView               what the query resolves a history to   <- FareViewProofs
    Intake                 a record from build_observation() to disk and back
       <- IntakeProofs

    Buckets                the two bucket mappings and the validator
       <- BaselineConfig   loading and caching it
             <- BaselineConfigProofs (with ForecastProofs)
       <- Forecast         percentile, curve, low, verdict, sentence
             <- ForecastProofs   lemmas about them and about buckets and sums
             <- Outlook    one trip watched until it departs
                   <- OutlookProofs (with ForecastProofs)
             <- Prediction (with RouteHistory)   predict() as a function
                   <- Predictor   predict() as a process, next to a collector
                   <- Backtest    the walk-forward backtest as a process
                         <- PredictionProofs (with Predictor and ForecastProofs)
             <- Metrics    what the backtest reports of its samples
                   <- Backtest
             <- FixtureData       the rows of the synthetic dataset
                   <- FixtureTools   the scripts and the fixture directory
                         <- Workbench
    ProcessEnv             clock, pin, mode, settings and store caches
       <- Workbench        scripts, environment and backtests in one repository
             <- WorkbenchProofs (with ForecastProofs)

`MCx` modules hold the instances TLC checks; each `.cfg` is one run.

### SnapshotStore and FareHistory

A *writer* is a process running one collection run after another call of
`write()`; a *reader* is a process calling `read_frame()`. `disk` maps each part
path to absent, torn (opened, not closed) or whole with its rows. A path is
`[part, run, attempt]`: `part_path` puts the partition and the run in the name,
`next_free_part_path` counts the attempt.

| Action | Code |
|---|---|
| `WriteNothing`, `RefuseBatch`, `AcceptBatch` | the empty batch; `validated_batch` raising; dedup by id and grouping |
| `ProbeTaken`, `PlanGroup` | one `exists()` of `next_free_part_path`: taken, next suffix; free, the group is planned |
| `PlanFails` | anything raising in the planning loop |
| `OpenPart`, `ClosePart` | `pq.write_table` opening (truncating) its target, and completing it |
| `MkdirFails`, `PartFails` | the publishing loop raising; pyarrow then unlinks its target, or fails to |
| `Return` | the `WriteResult` |
| `Crash` | the process is killed anywhere; an open file stays as it is |
| `BeginRead`, `NoTargets`, `SomeTargets` | `_scan_targets` listing the directory |
| `ExpandGlob`, `ReadPart`, `FinishRead` | DuckDB expanding the glob again, opening each file in any order, failing on a torn one |

Two processes with the same file open are modelled: what is in the file in the
end is either one's rows or nothing readable, and a file unlinked while open is
gone (`handle` says which). `returned`, `answers` and `scan.floor` record what
callers were told; no guard reads them but the bounds on the number of calls.

`FareHistory` is the promise of the module's docstring: part names are used
once, their rows never change, a write is acknowledged only over published
parts, and a read returns all rows of a set of parts that includes everything
published before it began, or fails. `IsAppendOnlyHistory` is its specification
under `parts <- Published, acked <- AckedParts`.

### FareView

The query of `_build_query` over a history of calls: `ReadFilters`, the dedup
window (`Supersedes` is its ORDER BY), sort, limit, and
`sources_with_recent_data`. Where the ORDER BY does not decide, `Resolutions`
has every outcome the engine may produce.

Here `write()` is one step, because what a reader sees *during* a call is
`SnapshotStore`'s matter; what calls leave behind is kept. `Write` publishes the
last row of each id in a batch (`LastOf`, the dict), group by group, each under
the next suffix of its path. `FailedWrite` publishes a proper prefix of the
groups and raises; the caller still has the batch (`pending`) and may call
again, so the parts of both attempts stay. `acked` and `pending` record what
callers were told.

### Intake

Records in memory (`held`), on disk (`disk`) and rows of a fixture file somebody
else made (`imported`). A text is a core and the white space around it, an id is
the tuple of fields it was taken from, a time has a zone.

| Action | Code |
|---|---|
| `Build`, `BuildRaises` | `build_observation`: the key is taken from the arguments, then the model strips and validates |
| `Copy` | `model_copy(update=...)`, which runs no validator |
| `Stamp` | `with_quality`: the dump with the new verdict, through the model again |
| `Write` | `validated_batch`, then publication or `InvalidBatchError` with the report |
| `Validate` | `validate_batch` on raw dicts, fields missing or of a wrong type |
| `Read` | `read()`: any rows a query may return, through `table_to_records` |

`Violations` is `_rebuild` with its order: missing fields, then what the model
reports, then the rules across fields. `Report` is the accumulator with its
counts and its capped sample.

### Buckets, BaselineConfig

`Tiles` is the validator `_buckets_tile_the_day_line`, line by line; `ApBucket`
and `ApBucketExpr` are the two mappings. `BaselineConfig` adds the file (edited
by people), the `lru_cache` of each process (which keeps results and forgets
exceptions) and restarts.

### Forecast, RouteHistory, Prediction

The arithmetic, in integers. A median is a half-integer and kept doubled; a mean
is rounded half-up where the code rounds it; comparisons of floats with a
threshold are made between integer products, which is what they are up to the
error of a float. The thresholds that are floats in `config.py` are fractions,
`[num, den]`. `Curve` keeps that `_smooth` averages *positions* of the list
of days that have a point. `Collapse` keeps the order of the steps of
`collapse_observations`. `PredictFrom` is `predict_from_context` with its
returns in order, `Constructible` the validator of the result type. One route is
enough: the code never looks at two.

### Predictor

`Ask` is the clock read of `predict()`, `Answer` everything after it; `Collect`,
`CollectLate` and `Midnight` may come in between. The store here is the set of
rows a read returns, one per id.

### Metrics, Backtest

One run: `Begin`, `Hash` and `Glob` (the two checks of `verify_dataset`),
`Derive` (the as_of dates of an ad-hoc run), `ReadTruth`, `Walk` once per
as_of with a history read of its own, `Report`. `Publish` and `Regenerate` are
other processes writing the same repository.

`Metrics` is `summarise` as functions of the samples: the three arms, the
wait statistics, the rank bins and the counts. A list
of values is a function of the samples they come from, a ratio a numerator and
a denominator, the mean of nothing `NoData` or zero as the code has it.

### FixtureData, FixtureTools

`FixtureData` is `generate()`: one calendar row per route, day and day to
departure, an itinerary row beside it close to departure, the position of each
calendar row remembered and the error fares written at those positions, then
the sort (stable, written as the row at each rank of the order). The price model, a pure function of the cell in the code too, is a
parameter.

`FixtureTools` has the three files of the fixture directory and the processes
that work on them. `Generate` starts `write_dataset`; `OpenRoutes` ...
`CloseReadme` are its opens, closes and the hash of the file on disk;
`ParquetFails` and `Interrupt` end it anywhere. `BeginTool` starts `--check` or
the validator, `CheckExists` ... `ValidateRows` are their reads. `ChangeCode` is
a checkout: the code changes, the directory stays, a running process goes on
with what it was started with. `quiet` is the set of readers under which
nothing has changed since they began.

### ProcessEnv, Workbench

`ProcessEnv` has the two environment variables, the clock, the one-entry cache
of settings, the cache of stores and the stores in use, with how each was asked
for (`held`). `SetMode`, `SetPin` and `Tick` are the environment;
`DefaultStore` and `OwnStore` are the two ways to a store.

`Workbench` puts one session of that kind beside the fixture scripts and a
collector: `BeginRun` is `run_backtest` with any store in use, for the scenario
or ad hoc; `VerifySettings`, `VerifyHash`, `VerifyGlob` are the checks of
`verify_dataset`, `ReadStore` the walk, `Report` the end, with its `now_utc()`.

## The runs

"states" are distinct states; every passing run is exhaustive within its bounds.

| Run | States | What it shows |
|---|---|---|
| `StoreWriters` | 72 000 | Two processes of different runs, two calls each, three batches (two groups with a duplicate; one bad row; one group meeting an existing path): acknowledged parts are on disk for good (`AckedPartsAreOnDisk`), the result accounts for the batch (`AckAccountsForBatch`), refused and half-planned batches leave nothing (`OnlyWholeBatchesReachDisk`), nothing complete is ever rewritten (`NeverRewritten`) |
| `StoreReaders` | 46 000 | The refinement `IsAppendOnlyHistory`, by which a later read never shows less than an earlier one; a torn part that a dead writer left makes every later read fail (`TornPartBlocksReads`) |
| `StoreSharedRun` | 9 000 | Two writers *of one run* and a reader, under fairness: what a complete file holds still agrees with its path (`RowsAreWhereTheirPathSays`), and every call of either kind ends (`CallsReturn`) |
| `StoreSharedRunRewrites` | violation | the same two writers: `NeverRewritten` fails |
| `ViewReads` | 57 500 | Every history that three calls with up to two rows can build, failed ones and repeated ones among them, fourteen filters. Filters on key columns and the window of the health query commute with the dedup window (`FiltersCommute`), no later write takes an observation out of the frame of a read or ages it, unless a frame full to its `limit` holds only rows that sort before it (`FrameNeverGoesBack`), `fetched_at_to` hides the future. A read has one answer unless one run fetched an id twice at one instant, and after a retry it is the one it would be had no call failed (`OneAnswerWhateverFailed`); an older version is shown only where a rejected one supersedes it (`StaleOnlyBehindRejection`) |
| `Intake` | 24 500 | Twenty ways to call `build_observation`, ten to change a copy, six batches of raw rows, two records in memory: what is on disk passes every check again as it stands and reading it back changes nothing (`PublishedRowsAreCanonical`), two rows have one id iff they are about one trip shape on one day (`OneIdPerShapeAndDay`), what was built of clean arguments is valid and nothing else (`BuiltFromCleanArgumentsIsValid`), the capped report counts everything (`ReportIsExact`) |
| `ConfigLoads` | 55 000 (up to symmetry) | Every list of up to three buckets, one edit, two processes, restarts: the validator admits exactly the lists in which every day has one bucket (`AcceptsExactlyTheTilings`), the two mappings agree under any loaded list, a process does not change its list |
| `OutlookDays` | 180 000 | Every index of medians over four buckets with holes and thin cells, three configurations, one of them with fractional thresholds, each day of a trip: a wait has a window that can be acted on (`WaitCanBeActedOn`), sentences meet the thresholds as they would be quoted themselves (`SentenceMeetsThreshold`), smoothing is local where there are no holes (`SmoothingIsLocalWithoutGaps`) |
| `PredictDays` | 41 000 | Up to three rows out of sixteen, three days, two trips, two currencies, two kinds of price, with or without a price from the caller: the answer can always be constructed (`NeverRaises`), it is about the day the call began and its reasons are true (`AnswerIsTrueOfItsDay`), no cell of the history is lost (`NoCellIsLost`), both ways to the current price agree in one currency (`OneCurrencyOnePrice`), and nothing fetched later changes it (`FutureIsInvisible`) |
| `PredictPrice` | violation | `OnePrice` |
| `BacktestWalk` | 223 000 | Every choice of a price or none for three days and two departures in one currency or two, and a longer dataset in which waits end before their target, at it and after it; one write by others at any point; frozen and ad-hoc runs. No policy beats the oracle (`NoSampleBeatsHindsight`), in one currency the walk says what `predict()` said on the day (`WalkForwardInOneCurrency`), every quote in range, quotes beyond a scenario's `MaxDtd` left out, is scored or counted as skipped, and the arms, waits and counts of the report are about that list of samples (`ReportAccountsForEveryQuote`), and every percentile leaves exactly the share of its cell priced above and half of its ties, to the half point of rounding, and bounds the mean of its bin (`RankMatchesItsCell`) |
| `Workbench` | 177 000 | Five changes of mode and stores; three of pin and clock with two of those, and a backtest at the end; the scripts with four events on the directory from each of three versions of the code; a backtest while the directory changes three times. A pin stops both clock functions and they agree about it (`PinStopsTheClock`), a store keeps the mode it was asked for and the default one is one object per mode (`StoresAreAsAskedFor`), a completed generator leaves three files that fit (`CompletedRunIsConsistent`), `--check` and the validator are right while nothing changes (`ToolsAreExactWhenQuiet`), the file is the grid with error fares where the model's buckets put them (`CommittedDatasetIsTheGrid`), a report says what was scored (`ReportSaysWhatWasScored`), and a scenario scores the frozen dataset (`ScenarioScoresTheFrozenDataset`) |

### Bounds

* *Store.* Two partitions make a batch with two groups, so that a failure can
  fall between them. Three ids, two of them in one partition, give a duplicate,
  a group of several rows and a group alone. Two calls per writer are needed for
  a path that is taken and a suffix; `MaxAttempt = 3` is one more than two
  calls can use on one path. Two reads are needed to compare a later with an
  earlier one. One writer, with two calls, runs beside the reader: a first call
  that failed and left its file torn, followed by a second one, gives the reader
  every combination of absent, torn, growing and whole files that two writers
  of private runs would.
* *View.* Two ticks per day, two runs and three qualities are every way two
  versions of an id can compare; three calls (`MaxWrites`) make a failure, its
  retry and another caller's write, in any order. Ids in three groups let a
  failed call stop after one of two.
* *Intake.* One field stands for each kind of rule; two records
  (`MaxRecords`) are a batch with a duplicate, and a bad row after a good one.
  `SampleLimit = 3` is passed by a batch of two bad rows. Two ticks per day
  separate a time from its date, `Int64Max = 3` has a value above it.
* *Config.* Three buckets have a first, an inner and a last one; bounds up to 2
  (days up to 4) have gaps, overlaps and reversed bounds of every kind.
* *Outlook.* The medians sit on the thresholds and beyond them of the
  committed `config/baseline.yaml` (7 % drop, 5 % rise, 1 % band). With the
  fractional thresholds (8.1 % and 11.9 %) a rise of 8.108 % just passes and is
  quoted as 8, a drop of 11.905 % just passes and is quoted as 12.
* *Predict.* Three rows hold a tie, a cell with two candidates, and two
  currencies with a majority. The window is one day, so that rows leave it.
* *Backtest.* Two departures and three days contain a skipped quote, a wait
  that hits its window, and one that does not; one outside write
  (`MaxChanges`) may fall between any two reads. A third departure is quoted
  four days ahead, which is beyond `MaxDtd = 3` of a scenario and within the
  range of an ad-hoc run; cells of equal prices have nothing but ties.
* *Workbench.* `Starts` gives each behaviour its beginning and a budget, so that
  the long histories of the environment and of the directory are not multiplied
  by each other: the environment does not touch a file, and a backtest's
  outcome depends on the environment through its store and the clock only. Two
  routes, two days and three days to departure on both sides of the end of a
  bucket make the grid; versions 2 and 3 differ from 1 in prices and in schema.
  Three stores (`MaxStores`) are two modes and a return to the first; the clock
  (`LastTick = 3`) passes one midnight.

Deadlock is not checked where the model ends by design: calls, reads and budgets
used up, processes dead, the departure or the report reached.

### Fairness

Only `StoreSharedRun` uses it. `FairSpec` gives weak fairness to `Progress(w)`
and `ReaderStep(r)`: once a call has begun it is straight-line Python that keeps
running as long as its process does, and each of these steps is one system call
that returns. Nothing is assumed of failures, of crashes or of new calls, so a
writer may still fail or die and need not begin. `WritesReturn` is about the
unbounded loop of `next_free_part_path`, whose suffixes other writers use up; in
the model the probe stops at `MaxAttempt`, which the run never reaches.

## Proofs

TLAPS proves, for every value of the constants the named ASSUMEs admit, 39 of
the 40 properties the passing runs check. The ASSUMEs say what the schema, the
validators and Python's types give (amounts and ids are numbers, `None` is no
number, a bucket list has been admitted, a batch is a list of rows); TLC
evaluates them in the runs. Three further hypotheses about the data are stated in
the theorems that need them, and nowhere else:

* `PrivateRuns`: no two processes write rows of one `ingest_run_id`.
  `specs/L0-foundation.md` section 3 makes the id that of one collection run;
  nothing in the store enforces it, and `StoreSharedRunRewrites` shows that the
  theorems are false without it.
* `NoTies`: no run fetches one observation twice at one instant with different
  results. Where one does, the ORDER BY of the dedup window leaves the order to
  the engine.
* `BucketsAreCopied`: the generator's copy of the bucket list
  (`gen_fixtures.py:123`) is the admitted list of `config/baseline.yaml`. They
  are equal at this commit and nothing in the code compares them.

Every invariant below was an INVARIANT of a TLC run before it was proved.

### The store

`SnapshotStoreProofs` has four parts, each with the invariant it adds:

    1  LInv = types, and the locals of each call               (any runs)
    2  IInv = LInv + whose file is whose                       (PrivateRuns)
    3  HInv = IInv + what a scan has read                      (PrivateRuns)
    4  IsBlocked(r, n), kept from where a file was left torn   (PrivateRuns)

* `LInv` needs no discipline. `CallInv(w)` says what the locals of a call are at
  each of its points: the groups of the batch are those planned and those still
  to be planned, and a plan has one entry per (partition, run) with exactly the
  rows of that group. `TypeCorrect`, `ResultsAddUp`,
  `RefusedBatchesLeaveNothing` and `PathsDescribeTheirRows` follow. That a
  result accounts for its batch is a statement about sums over a plan of any
  length; `BatchIsCovered` is the part of the invariant it needs.
* `AckedDurable` and `NoRewrite` are not inductive over `LInv`. A later open may
  truncate a complete file unless the name it was planned under is still free
  when it is opened, which is known only if nobody else can take it. `IInv`
  therefore adds where every file of every unfinished call is
  (`FilesAreConsistent`: complete before position `done`, torn at it while
  writing, absent after it), that a writer has an open file to itself
  (`HandleIsSole`), and that acknowledged parts are complete
  (`AcksAreConsistent`). `TargetIsFresh` and `TargetIsPrivate` then give that
  the file a step changes was absent or torn and is in no other writer's plan;
  `WriterInvNext` goes through the actions once for the writer that moves and
  once, `Bystander`, for all others.
* `StoreIsAppendOnly` is the refinement of `FareHistory`, step by step. Closing
  a file is the history's publication, `Return` its acknowledgement, `BeginRead`
  and `FinishRead` its read; every other step is a stutter. A read is right
  because of what the scan has collected so far: `ScanIsConsistent` says that
  every row of it belongs to a published part and every part published when the
  read began is either collected or still to be opened.
* `OneTornPartBlocksEveryRead` is about all behaviours from the moment a torn
  file was left behind: it stays (`AbandonedStays`: no call opens a name that
  is taken, if it has the name to itself), so the listing finds it, the glob
  finds it, and a scan that has not come to it yet cannot finish (`IsBlocked`).

### The view

`FareViewProofs` shows from `HistoryInv` (the history is a finite set of rows
somebody submitted) that the window keeps a version that nothing supersedes, and from there `FiltersArePushedDown`,
`PastReadsStandStill`, `ReadsNeverGoBack` and `RejectionsHideNothingElse`
(with `NoTies`). `ReadsHaveOneAnswer` needs `AckInv` as well: a row of the
history is acknowledged, or is left from a failed call whose batch is still
`pending`, so that nothing of a failed call survives its retry unseen. That a
sort and a limit have one result is proved for lists of any length.
`ReadsNeverGoBack` is about frames: a view keeps every observation
(`ViewsKeepObservations`), and a frame holds every row of its view that the
limit does not cut off behind rows that sort before it (`FrameHolds`), limited
or not.

### Records

`IntakeProofs` has two invariants: `DataInv` (rows on disk pass `Violations` and
are their own canonical form) and `CallInv` (what a call returned is what its
arguments give). The work is in what normalisation does: stripping twice is
stripping once, a canonical record constructs again, a key taken from stripped
arguments is the key of the row. `PublishedRowsStayValid`,
`IdsAreShapesAndDays` and `BuiltRecordsAreValid` follow. `ReportsAreExact` is
about the accumulator: a batch of any length, counted row by row, gives the
number of violations of each code, and the sample is the first of them.

### Configuration and buckets

`BaselineConfigProofs`, for lists of any length with any natural bounds; the
lemmas about an admitted list are in `ForecastProofs`, since the dataset needs
them too. `ScalarAndFrameAgree`: under every list `Tiles` admits, `ApBucket` and
`ApBucketExpr` give the same name for every natural number of days, and there is
one. The point is `LaterStartsAfter`: in an admitted list a later bucket begins
after an earlier one has ended, which is a statement about all pairs that
follows from one about neighbours. `PathsAlwaysAgree` and `OneConfigAlways` come
from the invariant that whatever is cached was admitted. `TilingsAreAccepted`
is the other direction as well: a list in which every day has one bucket and
none is empty is admitted. Its hypothesis is about a bound of the model, not of
the code: the days looked at (`LastDay`) reach past the numbers in the file.

### Forecasts

`ForecastProofs` has what both the outlook and the predictor need to know of the
arithmetic: an order statistic exists and a median is between amounts of its
sample; a sum over a finite set exists, is a number, and lies between its
number of terms times the least and the greatest of them; the sum over a set is
the sum over its parts, and a term that is less makes it less; in an admitted
bucket list every natural number has one bucket; a curve has a
positive point wherever it has data; an expected low, where there is one,
is a candidate of least price with its window around it.

`OutlookProofs`, for any index of medians, bucket list, horizon, smoothing
window, thresholds and price. `WaitsCanBeActedOn` is what `ExpectedLowIs` says
of the day it names. `SentencesMeetTheThreshold` is about `Percent`: half-up
rounding keeps the order of fractions, whatever their denominators
(`RoundHalfUpMonotone`), so a move that reaches a threshold is quoted as at least
the threshold so rounded, and of a whole threshold as at least it. `SmoothingIsLocal` compares a doubled mean
of doubled medians with the bounds of its window: where no day lacks data,
positions in the list of days with a point *are* days, and the rounded mean is
between the least and the greatest expectation up to the rounding.

### Predictions

`PredictionProofs`, for any set of rows, configuration, trip and price. The
invariant `CallInv` says that the store is a finite set of rows, one per id, and
an answer the prediction from the rows it saw. Everything else is about what
`Predict` returns, in three layers:

1. *statistics*, from `ForecastProofs`;
2. *the history*: a finite store has a modal currency, a cell a preferred row,
   the collapse one row per cell (`CollapseIs`), and the latest price row is
   one of the rows (`LatestRowsAre`);
3. *the outcomes*: a prediction is unavailable for one of four reasons, which
   is true, or complete, and then it passes the type's validators
   (`Constructible`) and has what its sentence quotes.

`PredictNeverRaises`, `AnswersAreOfOneDay`, `CellsAreKept`, `PricesAgree` and
`TheFutureIsInvisible` are the five properties of `PredictDays`.

### The backtest

The second half of `PredictionProofs`, for any datasets, grid of days, horizon
and stride, and any writes and replacements by others. The ASSUME
`BacktestAssumption` has what a read of the store gives: finitely many rows of
the schema, of which no two share an id.

The report depends on every walk, each of which read the store again, so no
property follows from the last step alone. `RunInv` says of a run under way:

* the truth is the collapse of what was read when it was read;
* each sample is the score of a quote of that truth that was due and has a
  window, by the history of *some* store (`IsScore`), whatever others wrote;
* while nothing was changed (`quiet`), the days still to walk are a part of the
  agenda, and the days walked have one sample for each quote scored and one
  count for each quote skipped (`Accounted`).

`SamplesAreScores` is the invariance, one lemma per step of the run
(`WalkKeeps` is the long one: a day adds exactly its quotes, and no quote of
another day). From it:

* `HindsightIsBest`: the arms and the oracle are prices of one window that holds
  the price of the day itself (`WindowIs`, `SettlesIs`);
* `WalkSaysWhatPredictSaid`: in one currency the truth labels a price as its own
  history does, so a sample's advice is what `Predict` gives on the rows of that
  day (`SameAdvice`, with `OneCurrencyCollapse` of the predictor's part);
* `ReportIsComplete`: verdicts, places and arms partition the samples, and the
  report's counts and totals are sums over the parts;
* `RankIsConsistent`: a sample's percentile leaves the share of its cell that is
  priced above it and half of its ties, from both sides to half a point
  (`RankIs`); so it bounds that share, and, for a bin of any size, the mean of
  these shares, which is added over a denominator that grows with every sample
  (`MeanOfFractionsIs`).

### Environment, scripts and backtest together

`WorkbenchProofs` has one invariant for each part that keeps state. `EnvInv`:
the caches hold settings of this repository and stores as asked for. `GenInv`:
at each point of `write_dataset`, which of the three files are already whole
and of which version. `ToolInv` and `RunInv`: what `--check`, the validator and
a backtest have found so far, and that it still holds while `quiet` says
nothing has changed. The properties are not inductive because the verdict of a
reader depends on all its reads, and a generator may be anywhere between them.

`TheDatasetIsTheGrid` is about what a whole file holds, for any grid, price
model and list of error fares. `StepsExist` shows that a function defined by
recursion over the numbers exists, and `InOrderIs` that listing a finite set by
rank meets each element once. With them `LaidIs` says where the rows of each
cell are after the loops (and that a remembered position holds a calendar row of
its own cell, so that no two cells share one), `FaresAre` what the overwriting
leaves, a cell named twice included, and `SortRowsIs` that the sort loses and
adds no row and leaves them in the pinned order. `PeersAre` joins the two bucket
lists: the amounts a fare was taken from are those of the bucket the *model*
puts the cell in, under `BucketsAreCopied`.

### How far it goes

The installed provers cannot instantiate an induction theorem over an operator.
Where a proof is by induction over a number or a finite set it is done by hand,
with a minimal counterexample (`WFMin` on the naturals, or on the sizes of the
subsets of a finite set); a CHOOSE from a finite set is shown to exist in the
same way, an element with fewest others before it. Folds of the community
modules are reasoned about as what they are, a CHOOSE of a function: the
function is built, and is unique. Two operators are out of reach because the
provers treat them as opaque, `SortSeq` and `SelectSeq`; the modules with
theorems that needed them say what the result is instead (`Sorted` in
`FareView`, `CodeIn` and `FieldViolations` in `Intake`, `SortRows` in
`FixtureData`).

**Only model-checked:** `CallsReturn`, which is liveness under fairness.
That every call of the two writers returns is what the run `StoreSharedRun`
shows within its bounds, and no more.

## Findings

Each has a run whose counterexample shows it.

1. **Two writers of one run can rewrite a complete part file**
   (`paths.py:94`, `StoreSharedRunRewrites`). `exists()` and the open are two
   steps; `write()` promises "never rewrites or deletes an existing file".
2. **Two current prices for one trip** (`predictor.py:118`, `PredictPrice`).
   `latest_observed_price` takes the modal currency of one departure's rows over
   all time, `predict()` that of the route within the history window.
   `OneCurrencyOnePrice` is what does hold.

Smaller differences between the code and what is said of it, which the modules
keep as the code has them and no run singles out:

* In one batch the *last* row of an id wins, not the one with the latest
  `fetched_at` (`snapshot_store.py:114`, `specs/L0-foundation.md:241`).
* Two writes of one run with the same `fetched_at` tie in the dedup window, so
  a read may return the earlier one (`snapshot_store.py:223`).
* A version that is rejected later is filtered out before the window, so an
  older version of the observation is shown (`snapshot_store.py:190`).
* A scored price is labelled with the modal currency of *all* rows, later ones
  included (`harness.py:106`), although ground truth is said never to reach the
  model. With two currencies in a dataset the walk can therefore differ from
  what `predict()` said on the day; `WalkForwardInOneCurrency` is what holds.
* `verify_dataset` runs once (`scenario.py:94`) and the store is read again for
  the truth and for each as_of: a dataset that changes after the check is
  scored. `ScenarioScoresTheFrozenDataset` is what holds.
* `build_observation` derives the id from its arguments as they come
  (`record.py:151`), while `identity.py` expects them normalised: a record built
  from a padded code is constructed, and refused when it is written.
* A validator's message is searched for the *first* code whose name it contains
  (`validation.py`, `_violation_from_error`). An `ingest_run_id` whose text is
  the name of another code is reported under that code.
* The generator's README carries the checksum of the file that was there when it
  was rendered. After an interruption between the two the README is the old one,
  and `--check` compares only the Parquet file.
* A malformed `SNAP_TODAY` stops a frozen backtest at its end, in the
  `now_utc()` call of the report, after every prediction has been made.
* Around a bucket without data the smoothing window reaches across the gap
  (`curve.py:97`).
* On a route with rows in two currencies the note "No price history for ... in
  ..." may be given about a currency that has some (`predictor.py:216`).
* A sentence may quote less than a fractional threshold: with
  `min_curve_rise_pct: 5.4` a rise of 5.4 % is enough for a `book_now`, and is
  said to be "about 5%" (`verdict.py`, `_percent`). The committed thresholds are
  whole. `SentenceMeetsThreshold` is what holds.
* A limited read may lose an observation it has shown: a row that was fetched
  earlier and written later sorts before it (`snapshot_store.py:230`).
  `FrameNeverGoesBack` is what holds.
* A fare equal to every observation is called cheaper than half of them
  (`verdict.py:133`): ties count half in the percentile.

## Not modelled

* Of a record: the count, currency and date fields, whose rules are of a kind
  another field represents; pydantic's coercions; the column types of the Arrow
  schema and the refusal of a table of another one; the hash behind an id.
  (`under_root` cannot refuse a path built from validated fields.)
* The numeric settings of `baseline.yaml` one by one; they are fields of `cfg`.
* Of the backtest: `load_scenario`, the command line and `write_report`, which
  parse and print; `by_route`, which repeats the metrics per route.
* Of the fixture scripts: the price formula, the text of the README, two
  generators at once.
* Threads: the caches of settings and stores are `functools` caches, which may
  compute twice under threads. Nothing in the repository starts one.
* Floating point as such, wording, logging, the percentiles other than the
  median.
* Adapters, quality passes, scheduler, API and web: empty directories at this
  commit.

## Left to model

The refusal of a table of another schema in the Arrow conversion, and the
settings of `baseline.yaml` as numbers.
