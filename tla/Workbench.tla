----------------------------- MODULE Workbench -----------------------------
(***************************************************************************)
(* A repository at work: the fixture scripts beside a process that runs    *)
(* backtests (models/backtest/harness.py, scenario.py) with a store of its *)
(* own choosing, and a collector that may publish part files.  What the    *)
(* walk computes is Backtest's matter; here a run is what it reads, when,  *)
(* from which store, and what its report says about that.                  *)
(***************************************************************************)
EXTENDS ProcessEnv, FixtureTools

CONSTANTS
    Frozen,        \* the version whose dataset the scenario's hash is of
    ModelBuckets,  \* advance_purchase_buckets of config/baseline.yaml
    Starts         \* where a behaviour begins, with bounds on what happens in it:
                   \* [mode, pin, code, file, collected, budget]

ASSUME StartsAssumption ==
    \A s \in Starts :
        /\ s.mode \in ModeWords /\ s.pin \in Pins /\ s.code \in Versions
        /\ s.file \in {Absent} \cup {Whole(v) : v \in Versions}
        /\ s.collected \in BOOLEAN
        /\ s.budget \in [{"modes", "clock", "files", "tools", "runs"} -> Nat]

VARIABLES
    collected,     \* part files lie in the snapshot root
    run,           \* the backtest: where it is, its store, what it read
    budget         \* what may still happen

benchVars == <<collected, run>>
vars == <<envVars, toolVars, benchVars, budget>>

Spend(name) ==
    /\ budget[name] > 0
    /\ budget' = [budget EXCEPT ![name] = @ - 1]

NoRun == [pc |-> "done", store |-> Unset, scenario |-> FALSE, fixture |-> NoData,
          parts |-> FALSE, end |-> "none", report |-> NoData]

-----------------------------------------------------------------------------
(* A collector publishes the first part file. *)
Collect ==
    /\ ~collected /\ collected' = TRUE
    /\ quiet' = {}
    /\ UNCHANGED <<code, files, gen, lastRun, tool, run>>

(* run_backtest(store=..., scenario=...). *)
BeginRun ==
    /\ run.pc = "done"
    /\ \E h \in held, scenario \in BOOLEAN :
         run' = [NoRun EXCEPT !.pc = IF scenario THEN "settings" ELSE "read",
                              !.store = h.store, !.scenario = scenario]
    /\ quiet' = quiet \cup {"run"}
    /\ UNCHANGED <<code, files, gen, lastRun, tool, collected>>

RunAt(pc) == run.pc = pc /\ UNCHANGED collected

EndRun(end) == run' = [run EXCEPT !.pc = "done", !.end = end]

(* Mutant: the mode of the store is not looked at. *)
VerifyPathOnly ==
    /\ RunAt("settings")
    /\ IF run.store.settings.root = RepoRoot
         THEN run' = [run EXCEPT !.pc = "hash"] ELSE EndRun("refused")

(* verify_dataset: the store is in fixture mode, and its fixture file is the
   one the scenario was frozen against. *)
VerifySettings ==
    /\ RunAt("settings")
    /\ IF run.store.settings.fixtures /\ run.store.settings.root = RepoRoot
         THEN run' = [run EXCEPT !.pc = "hash"] ELSE EndRun("refused")

(* Its bytes are those of the scenario; hashing a missing file raises. *)
VerifyHash ==
    /\ RunAt("hash")
    /\ IF files.parquet = Absent THEN EndRun("raised")
       ELSE IF SameBytes(files.parquet, Whole(Frozen)) THEN run' = [run EXCEPT !.pc = "glob"]
       ELSE EndRun("refused")

VerifyGlob ==
    /\ RunAt("glob")
    /\ IF collected THEN EndRun("refused") ELSE run' = [run EXCEPT !.pc = "read"]

(* The fixture file is a target of the store's scans, or the parts are. *)
ReadsFixture(store) ==
    store.settings.root = RepoRoot /\ store.settings.fixtures /\ files.parquet # Absent

ReadsParts(store) == store.settings.root = RepoRoot /\ collected

(* The reads of the walk; a torn file raises.  Elsewhere there is nothing. *)
ReadStore ==
    /\ RunAt("read")
    /\ IF ReadsFixture(run.store) /\ files.parquet = Torn THEN EndRun("raised")
       ELSE run' = [run EXCEPT !.pc = "report", !.parts = ReadsParts(run.store),
                      !.fixture = IF ReadsFixture(run.store) THEN files.parquet.of ELSE NoData]

(* Mutant: the mode is read from the environment. *)
ReportEnvironment(store) == EnvUseFixtures

FixtureMode(store) == store.settings.fixtures

(* summarise is given now_utc(), so a bad pin raises here; generated_at is a
   fixed instant or the clock's. *)
Report ==
    /\ RunAt("report")
    /\ IF NowUtc = Raises THEN EndRun("raised")
       ELSE run' = [run EXCEPT !.pc = "done", !.end = "reported",
                      !.report = [fixtureMode |-> FixtureMode(run.store),
                                  frozen |-> run.scenario, generatedAt |-> NowUtc]]

RunStep == VerifySettings \/ VerifyHash \/ VerifyGlob \/ ReadStore \/ Report

-----------------------------------------------------------------------------
Init ==
    /\ \E s \in Starts :
         /\ EnvInit(s.mode, s.pin) /\ ToolsInit(s.code, s.file)
         /\ collected = s.collected
         /\ budget = s.budget
    /\ run = NoRun

(* The session changes its environment and makes stores between its calls; the
   clock, the scripts and the collector wait for nobody. *)
ChangeMode == run.pc = "done" /\ (SetMode \/ DefaultStore \/ OwnStore)

ChangeNow == (run.pc = "done" /\ SetPin) \/ Tick

Next ==
    \/ ChangeMode /\ Spend("modes") /\ UNCHANGED <<toolVars, benchVars>>
    \/ ChangeNow /\ Spend("clock") /\ UNCHANGED <<toolVars, benchVars>>
    \/ Collect /\ Spend("files") /\ UNCHANGED envVars
    \/ (ChangeCode \/ Generate \/ ParquetFails \/ Interrupt)
         /\ Spend("files") /\ UNCHANGED <<envVars, benchVars>>
    \/ GenStep /\ UNCHANGED <<envVars, benchVars, budget>>
    \/ BeginTool /\ Spend("tools") /\ UNCHANGED <<envVars, benchVars>>
    \/ ToolStep /\ UNCHANGED <<envVars, benchVars, budget>>
    \/ BeginRun /\ Spend("runs") /\ UNCHANGED envVars
    \/ RunStep /\ UNCHANGED <<envVars, toolVars, budget>>

Spec == Init /\ [][Next]_vars

-----------------------------------------------------------------------------
(* Properties.                                                             *)

(* A report says what was scored: fixture rows only under fixture mode, and
   with it unless there was no fixture to read, however the environment of the
   process disagrees with the store it was given (review C4). *)
ReportSaysWhatWasScored ==
    run.end = "reported" =>
        /\ run.fixture # NoData => run.report.fixtureMode
        /\ run.report.fixtureMode /\ "run" \in quiet /\ run.fixture = NoData
             => run.store.settings.root # RepoRoot \/ files.parquet = Absent

(* While nothing changes under it, a scenario is scored iff the store reads
   the frozen dataset and nothing else. *)
ScenarioScoresTheFrozenDataset ==
    run.scenario /\ "run" \in quiet =>
        /\ run.end = "reported" =>
             /\ run.fixture # NoData /\ ~run.parts
             /\ Contents[run.fixture] = Contents[Frozen]
        /\ run.end = "refused" =>
             \/ ~ReadsFixture(run.store) \/ collected
             \/ ~SameBytes(files.parquet, Whole(Frozen))

(* The dataset in a complete fixture file. *)
CommittedDatasetIsTheGrid == DatasetIsTheGrid(ModelBuckets)

=============================================================================
