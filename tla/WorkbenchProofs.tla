--------------------------- MODULE WorkbenchProofs ---------------------------
(***************************************************************************)
(* Theorems about Workbench: the pin, the stores of a process, the fixture *)
(* scripts and the backtest that reads what they write, for any versions,  *)
(* pins, roots, budgets and starts.  A reader's answer is right because of *)
(* what it has found so far: the invariants say, for each place it can be  *)
(* at, what it has found and still holds while nothing has changed.  What  *)
(* the file itself holds, the rows of the synthetic dataset, comes last.   *)
(***************************************************************************)
EXTENDS Workbench, ForecastProofs

(* The steps that change each part of the state. *)
LEMMA WhoChangesTheEnvironment ==
    [Next]_vars => UNCHANGED envVars \/ SetMode \/ DefaultStore \/ OwnStore \/ SetPin \/ Tick
BY DEF Next, vars, ChangeMode, ChangeNow

LEMMA WhoChangesTheScripts ==
    [Next]_vars => \/ UNCHANGED toolVars
                   \/ Collect \/ ChangeCode \/ Generate \/ ParquetFails \/ Interrupt
                   \/ GenStep \/ BeginTool \/ ToolStep \/ BeginRun
BY DEF Next, vars, RunStep

LEMMA WhoChangesTheRun ==
    [Next]_vars =>
      \/ UNCHANGED <<benchVars, toolVars>>
      \/ Collect
      \/ /\ ChangeCode \/ Generate \/ ParquetFails \/ Interrupt \/ GenStep \/ BeginTool \/ ToolStep
         /\ UNCHANGED benchVars
      \/ BeginRun /\ UNCHANGED envVars
      \/ RunStep /\ UNCHANGED <<envVars, toolVars>>
BY DEF Next, vars

(***************************************************************************)
(* ProcessEnv.                                                             *)
(***************************************************************************)

SettingsOfRepo(settings) == \E fixtures \in BOOLEAN : settings = Settings(RepoRoot, fixtures)

(* The pin is one of those there are; every store in use was made of what it
   was asked for; the stores default_store() hands out are the ones it knows,
   one for each value of the settings, of which the last is cached. *)
EnvInv ==
    /\ pin \in Pins
    /\ cached = Unset \/ SettingsOfRepo(cached)
    /\ \A s \in stores : SettingsOfRepo(s.settings)
    /\ \A s, t \in stores : s.settings = t.settings => s = t
    /\ \A h \in held :
         /\ h.store.settings = Settings(h.root, IF h.flag = Unset THEN h.env ELSE h.flag)
         /\ h.default => h.store \in stores

LEMMA EnvInvInit == Init => EnvInv
BY StartsAssumption DEF Init, EnvInit, EnvInv

LEMMA DefaultSettingsAre ==
    ASSUME EnvInv
    PROVE  DefaultSettings = Settings(RepoRoot, EnvUseFixtures)
<1>1. CASE cached # Unset /\ cached.root = RepoRoot /\ cached.fixtures = EnvUseFixtures
  <2>1. DefaultSettings = cached
    BY <1>1 DEF DefaultSettings
  <2>2. PICK fixtures \in BOOLEAN : cached = Settings(RepoRoot, fixtures)
    BY <1>1 DEF EnvInv, SettingsOfRepo
  <2>3. cached.fixtures = fixtures
    BY <2>2 DEF Settings
  <2>4. fixtures = EnvUseFixtures
    BY <1>1, <2>3
  <2> QED BY <2>1, <2>2, <2>4
<1>2. CASE ~ (cached # Unset /\ cached.root = RepoRoot /\ cached.fixtures = EnvUseFixtures)
  <2>1. DefaultSettings = LoadDataSettings(RepoRoot, EnvUseFixtures)
    BY <1>2 DEF DefaultSettings
  <2>2. Resolved(EnvUseFixtures) = EnvUseFixtures
    BY DEF Resolved
  <2> QED BY <2>1, <2>2 DEF LoadDataSettings
<1> QED BY <1>1, <1>2

LEMMA EnvInvNext == EnvInv /\ [Next]_vars => EnvInv'
<1> SUFFICES ASSUME EnvInv, [Next]_vars PROVE EnvInv'
  OBVIOUS
<1>1. CASE UNCHANGED envVars
  BY <1>1 DEF EnvInv, envVars
<1>2. CASE SetMode
  BY <1>2 DEF EnvInv, SetMode
<1>3. CASE DefaultStore
  <2> DEFINE settings == Settings(RepoRoot, EnvUseFixtures)
             known == {s \in stores : s.settings = settings}
             store == IF known = {} THEN Constructed(settings) ELSE CHOOSE s \in known : TRUE
  <2>1. /\ cached' = settings
        /\ stores' = stores \cup {store}
        /\ held' = held \cup {[store |-> store, root |-> RepoRoot, flag |-> Unset,
                               env |-> EnvUseFixtures, default |-> TRUE]}
        /\ pin' = pin
    BY <1>3, DefaultSettingsAre DEF DefaultStore, Hold
  <2> HIDE DEF settings
  <2>2. store.settings = settings
    <3>1. CASE known = {}
      BY <3>1 DEF Constructed
    <3>2. CASE known # {}
      BY <3>2
    <3> QED BY <3>1, <3>2
  <2>3. store \in stores \/ \A s \in stores : s.settings # settings
    OBVIOUS
  <2> HIDE DEF store, known
  <2>4. SettingsOfRepo(settings)
    <3>1. EnvUseFixtures \in BOOLEAN
      BY DEF EnvUseFixtures
    <3> QED BY <3>1 DEF settings, SettingsOfRepo
  <2>5. \A s, t \in stores' : s.settings = t.settings => s = t
    <3> TAKE s, t \in stores'
    <3> HAVE s.settings = t.settings
    <3>1. CASE s \in stores /\ t \in stores
      BY <3>1 DEF EnvInv
    <3>2. CASE store \in stores
      BY <3>2, <2>1 DEF EnvInv
    <3>3. CASE store \notin stores /\ ~ (s \in stores /\ t \in stores)
      BY <3>3, <2>1, <2>2, <2>3
    <3> QED BY <3>1, <3>2, <3>3
  <2>6. \A h \in held' :
          /\ h.store.settings = Settings(h.root, IF h.flag = Unset THEN h.env ELSE h.flag)
          /\ h.default => h.store \in stores'
    <3> TAKE h \in held'
    <3>1. CASE h \in held
      BY <3>1, <2>1 DEF EnvInv
    <3>2. CASE h = [store |-> store, root |-> RepoRoot, flag |-> Unset,
                    env |-> EnvUseFixtures, default |-> TRUE]
      <4>1. h.store = store /\ h.root = RepoRoot /\ h.flag = Unset /\ h.env = EnvUseFixtures
        BY <3>2
      <4> QED BY <4>1, <2>1, <2>2 DEF settings
    <3> QED BY <3>1, <3>2, <2>1
  <2> QED BY <2>1, <2>2, <2>4, <2>5, <2>6 DEF EnvInv
<1>4. CASE OwnStore
  <2>1. PICK root \in Roots, flag \in BOOLEAN \cup {Unset} :
           Hold(Constructed(LoadDataSettings(root, flag)), root, flag, FALSE)
    BY <1>4 DEF OwnStore
  <2> DEFINE store == Constructed(LoadDataSettings(root, flag))
             new == [store |-> store, root |-> root, flag |-> flag,
                     env |-> EnvUseFixtures, default |-> FALSE]
  <2>2. held' = held \cup {new}
    BY <2>1 DEF Hold
  <2>3. UNCHANGED <<pin, cached, stores>>
    BY <1>4 DEF OwnStore
  <2>4. /\ new.store.settings = Settings(new.root, IF new.flag = Unset THEN new.env ELSE new.flag)
        /\ ~new.default
    BY DEF Constructed, LoadDataSettings, Resolved
  <2> HIDE DEF new
  <2> QED BY <2>2, <2>3, <2>4 DEF EnvInv
<1>5. CASE SetPin
  BY <1>5 DEF EnvInv, SetPin
<1>6. CASE Tick
  BY <1>6 DEF EnvInv, Tick
<1> QED BY <1>1, <1>2, <1>3, <1>4, <1>5, <1>6, WhoChangesTheEnvironment

THEOREM EnvironmentIsConsistent == Spec => []EnvInv
BY EnvInvInit, EnvInvNext, PTL DEF Spec

(* Every store in use has the root and the mode it was asked for, however the
   environment and the caches have changed since, and default_store() gives one
   object for one mode (settings.py, lines 63-97; default_store). *)
THEOREM StoresKeepTheirSettings == Spec => []StoresAreAsAskedFor
<1>1. EnvInv => StoresAreAsAskedFor
  <2> SUFFICES ASSUME EnvInv, NEW h \in held
               PROVE  /\ h.store.settings.root = h.root
                      /\ h.store.settings.fixtures = IF h.flag = Unset THEN h.env ELSE h.flag
                      /\ \A k \in held :
                           h.default /\ k.default /\ h.store.settings = k.store.settings
                             => h.store.id = k.store.id
    BY DEF StoresAreAsAskedFor
  <2>1. h.store.settings = Settings(h.root, IF h.flag = Unset THEN h.env ELSE h.flag)
    BY DEF EnvInv
  <2>2. h.store.settings.root = h.root
    BY <2>1 DEF Settings
  <2>3. h.store.settings.fixtures = IF h.flag = Unset THEN h.env ELSE h.flag
    BY <2>1 DEF Settings
  <2>4. \A k \in held : h.default /\ k.default /\ h.store.settings = k.store.settings
                          => h.store.id = k.store.id
    BY DEF EnvInv
  <2> QED BY <2>2, <2>3, <2>4
<1> QED BY <1>1, EnvironmentIsConsistent, PTL

(* A pinned process has one instant: while the pin stays, no step changes what
   today_utc() or now_utc() answers; both raise for a pin that is no date; and
   otherwise the instant is on the date (clock.py, lines 29-64). *)
THEOREM PinsHold == Spec => PinStopsTheClock
<1> DEFINE Step == pin.kind # "unset" /\ pin' = pin
                     => /\ TodayUtc' = TodayUtc /\ NowUtc' = NowUtc
                        /\ TodayUtc = Raises <=> NowUtc = Raises
                        /\ TodayUtc # Raises => NowUtc \div TicksPerDay = TodayUtc
<1>1. EnvInv => Step
  <2> SUFFICES ASSUME EnvInv, pin.kind # "unset", pin' = pin
               PROVE  /\ TodayUtc' = TodayUtc /\ NowUtc' = NowUtc
                      /\ TodayUtc = Raises <=> NowUtc = Raises
                      /\ TodayUtc # Raises => NowUtc \div TicksPerDay = TodayUtc
    OBVIOUS
  <2>1. pin.kind \in {"date", "other"} /\ pin.day \in Nat
    BY EnvAssumption DEF EnvInv
  <2>2. CASE pin.kind = "other"
    <3>1. PinnedDate = Raises /\ PinnedDate' = Raises
      BY <2>2 DEF PinnedDate
    <3> QED BY <3>1, EnvAssumption DEF TodayUtc, NowUtc
  <2>3. CASE pin.kind = "date"
    <3>1. PinnedDate = pin.day /\ PinnedDate' = pin.day
      BY <2>3 DEF PinnedDate
    <3>2. pin.day # Raises /\ pin.day # Unset
      BY <2>1, EnvAssumption
    <3>3. TodayUtc = pin.day /\ TodayUtc' = pin.day
      BY <3>1, <3>2 DEF TodayUtc
    <3>4. NowUtc = pin.day * TicksPerDay /\ NowUtc' = pin.day * TicksPerDay
      BY <3>1, <3>2 DEF NowUtc
    <3>5. pin.day * TicksPerDay \in Int
      BY <2>1, EnvAssumption
    <3>6. NowUtc # Raises
      BY <3>4, <3>5, EnvAssumption
    <3>7. (pin.day * TicksPerDay) \div TicksPerDay = pin.day
      BY <2>1, EnvAssumption
    <3> QED BY <3>2, <3>3, <3>4, <3>6, <3>7
  <2> QED BY <2>1, <2>2, <2>3
<1> HIDE DEF Step
<1>2. Spec => [][Step]_envVars
  <2>1. EnvInv /\ [Next]_vars => [Step]_envVars
    BY <1>1
  <2> QED BY <2>1, EnvironmentIsConsistent, PTL DEF Spec
<1> QED BY <1>2 DEF PinStopsTheClock, Step

(***************************************************************************)
(* The generator.                                                          *)
(***************************************************************************)

FileStates == {Absent, Torn} \cup {Whole(v) : v \in Versions}

GenPoints ==
    {"routes", "routes open", "parquet", "parquet open", "hash", "readme", "readme open"}

(* What a running generator has written is on disk: from the first close on,
   routes.csv is its own; after the second, the Parquet file is; and the
   checksum it holds is that file's.  What a completed run left stays until the
   next one opens a file. *)
GenInv ==
    /\ code \in Versions
    /\ files \in [{"routes", "parquet", "readme"} -> FileStates]
    /\ gen \in [pc : {"idle"} \cup GenPoints, of : {NoData} \cup Versions, sum : FileStates]
    /\ gen.pc # "idle" => lastRun = "started" /\ gen.of \in Versions
    /\ gen.pc \in {"parquet", "parquet open", "hash", "readme", "readme open"} =>
         files["routes"] = Whole(gen.of)
    /\ gen.pc \in {"hash", "readme", "readme open"} => files["parquet"] = Whole(gen.of)
    /\ gen.pc \in {"readme", "readme open"} => gen.sum = files["parquet"]
    /\ lastRun = "completed" =>
         \E v \in Versions : \A name \in {"routes", "parquet", "readme"} : files[name] = Whole(v)

LEMMA GenInvInit == Init => GenInv
<1> SUFFICES ASSUME Init PROVE GenInv
  OBVIOUS
<1>1. PICK s \in Starts : ToolsInit(s.code, s.file)
  BY DEF Init
<1>2. s.code \in Versions /\ s.file \in FileStates
  BY StartsAssumption DEF FileStates
<1> QED BY <1>1, <1>2 DEF ToolsInit, Directory, GenIdle, GenInv, FileStates

LEMMA GenInvNext == GenInv /\ [Next]_vars => GenInv'
<1> SUFFICES ASSUME GenInv, [Next]_vars PROVE GenInv'
  OBVIOUS
<1> USE DEF GenPoints
<1>1. CASE UNCHANGED <<code, files, gen, lastRun>>
  BY <1>1 DEF GenInv
<1>2. CASE ChangeCode
  BY <1>2 DEF GenInv, ChangeCode
<1>3. CASE Generate
  BY <1>3 DEF GenInv, Generate, fileVars, FileStates
<1>4. ASSUME NEW file \in FileStates, NEW name \in {"routes", "parquet", "readme"},
             Put(name, file)
      PROVE  /\ code' = code
             /\ files' \in [{"routes", "parquet", "readme"} -> FileStates]
             /\ files'[name] = file
             /\ \A other \in {"routes", "parquet", "readme"} \ {name} : files'[other] = files[other]
  BY <1>4 DEF Put, GenInv
<1>5. \A v \in Versions : Whole(v) \in FileStates
  BY DEF FileStates
<1>6. Torn \in FileStates /\ Absent \in FileStates
  BY DEF FileStates
<1>7. CASE OpenRoutes
  <2>1. Put("routes", Torn) /\ gen.pc = "routes" /\ gen' = [gen EXCEPT !.pc = "routes open"]
        /\ lastRun' = lastRun
    BY <1>7 DEF OpenRoutes, GenAt
  <2> QED BY <1>4, <1>6, <2>1 DEF GenInv
<1>8. CASE CloseRoutes
  <2>1. Put("routes", Whole(gen.of)) /\ gen.pc = "routes open"
        /\ gen' = [gen EXCEPT !.pc = "parquet"] /\ lastRun' = lastRun
    BY <1>8 DEF CloseRoutes, GenAt
  <2>2. gen.of \in Versions
    BY <2>1 DEF GenInv
  <2> QED BY <1>4, <1>5, <2>1, <2>2 DEF GenInv
<1>9. CASE OpenParquet
  <2>1. Put("parquet", Torn) /\ gen.pc = "parquet" /\ gen' = [gen EXCEPT !.pc = "parquet open"]
        /\ lastRun' = lastRun
    BY <1>9 DEF OpenParquet, GenAt
  <2> QED BY <1>4, <1>6, <2>1 DEF GenInv
<1>10. CASE CloseParquet
  <2>1. Put("parquet", Whole(gen.of)) /\ gen.pc = "parquet open"
        /\ gen' = [gen EXCEPT !.pc = "hash"] /\ lastRun' = lastRun
    BY <1>10 DEF CloseParquet, GenAt
  <2>2. gen.of \in Versions
    BY <2>1 DEF GenInv
  <2> QED BY <1>4, <1>5, <2>1, <2>2 DEF GenInv
<1>11. CASE HashParquet
  <2>1. gen.pc = "hash" /\ gen' = [gen EXCEPT !.pc = "readme", !.sum = files.parquet]
        /\ UNCHANGED <<code, files, lastRun>>
    BY <1>11 DEF HashParquet, fileVars
  <2>2. gen'.pc = "readme" /\ gen'.sum = files["parquet"] /\ gen'.of = gen.of
    BY <2>1 DEF GenInv
  <2> QED BY <2>1, <2>2 DEF GenInv
<1>12. CASE OpenReadme
  <2>1. Put("readme", Torn) /\ gen.pc = "readme" /\ gen' = [gen EXCEPT !.pc = "readme open"]
        /\ lastRun' = lastRun
    BY <1>12 DEF OpenReadme, GenAt
  <2> QED BY <1>4, <1>6, <2>1 DEF GenInv
<1>13. CASE CloseReadme
  <2>1. Put("readme", gen.sum) /\ gen.pc = "readme open" /\ gen' = GenIdle
        /\ lastRun' = "completed"
    BY <1>13 DEF CloseReadme
  <2>2. gen.sum \in FileStates /\ gen.of \in Versions /\ gen.sum = Whole(gen.of)
        /\ files["routes"] = Whole(gen.of) /\ files["parquet"] = Whole(gen.of)
    BY <2>1 DEF GenInv
  <2>3. /\ gen' \in [pc : {"idle"} \cup GenPoints, of : {NoData} \cup Versions, sum : FileStates]
        /\ gen'.pc = "idle"
    BY <1>6, <2>1 DEF GenIdle
  <2>4. \A name \in {"routes", "parquet", "readme"} : files'[name] = Whole(gen.of)
    BY <1>4, <2>1, <2>2
  <2>5. code' = code /\ files' \in [{"routes", "parquet", "readme"} -> FileStates]
    BY <1>4, <2>1, <2>2
  <2> QED BY <1>6, <2>1, <2>2, <2>3, <2>4, <2>5 DEF GenInv
<1>14. CASE ParquetFails
  <2>1. gen' = GenIdle /\ lastRun' = "interrupted"
    BY <1>14 DEF ParquetFails
  <2>2. Put("parquet", Absent) \/ UNCHANGED <<code, files>>
    BY <1>14 DEF ParquetFails, fileVars
  <2>3. code' = code /\ files' \in [{"routes", "parquet", "readme"} -> FileStates]
    BY <1>4, <1>6, <2>2 DEF GenInv
  <2> QED BY <1>6, <2>1, <2>3 DEF GenInv, GenIdle
<1>15. CASE Interrupt
  BY <1>6, <1>15 DEF GenInv, Interrupt, GenIdle, fileVars
<1>16. UNCHANGED <<code, files, gen, lastRun>>
       \/ ChangeCode \/ Generate \/ ParquetFails \/ Interrupt \/ GenStep
  BY WhoChangesTheScripts DEF toolVars, fileVars, Collect, BeginTool, ToolStep, BeginRun, ToolAt,
     CheckExists, CheckCompares, CheckCopies, CheckDiffers,
     ValidateExists, ValidateSchema, ValidateRoutes, ValidateRows
<1> QED BY <1>1, <1>2, <1>3, <1>7, <1>8, <1>9, <1>10, <1>11, <1>12, <1>13, <1>14, <1>15, <1>16
        DEF GenStep

(* A run of the generator that came to its end leaves three whole files of one
   version and the README of that Parquet file, whatever was there before
   (write_dataset; main). *)
THEOREM CompletedRunsRepair == Spec => []CompletedRunIsConsistent
<1>1. GenInv => CompletedRunIsConsistent
  <2> SUFFICES ASSUME GenInv, lastRun = "completed"
               PROVE  /\ \A name \in DOMAIN files : files[name].state = "whole"
                      /\ files.routes.of = files.parquet.of
                      /\ SameBytes(files.readme, files.parquet)
    BY DEF CompletedRunIsConsistent
  <2>1. PICK v \in Versions : \A name \in {"routes", "parquet", "readme"} : files[name] = Whole(v)
    BY DEF GenInv
  <2>2. DOMAIN files = {"routes", "parquet", "readme"}
    BY DEF GenInv
  <2> QED BY <2>1, <2>2 DEF SameBytes, Whole
<1> QED BY <1>1, GenInvInit, GenInvNext, PTL DEF Spec

(***************************************************************************)
(* --check and the validator.                                              *)
(***************************************************************************)

ToolPoints ==
    {"exists", "compare", "copy", "differences", "schema", "routes", "rows", "done"}

(* What the tool has found, at each point of its program. *)
FoundByCheck ==
    /\ tool.pc \in {"exists", "compare", "copy", "differences", "done"}
    /\ tool.pc # "exists" /\ tool.exit = "none" => files.parquet # Absent
    /\ tool.pc = "copy" => SameBytes(files.parquet, Whole(tool.of))
    /\ tool.pc = "differences" => ~SameBytes(files.parquet, Whole(tool.of))
    /\ tool.exit # "none" =>
         (tool.exit = "ok" <=> SameBytes(files.parquet, Whole(tool.of)))

SchemaFits == SchemaOf[files.parquet.of] = SchemaOf[tool.of]

Fits ==
    /\ files.parquet.state = "whole" /\ files.routes.state = "whole"
    /\ SchemaFits
    /\ files.parquet.of \in Accepted[tool.of]

FoundByValidator ==
    /\ tool.pc \in {"exists", "schema", "routes", "rows", "done"}
    /\ tool.pc # "exists" /\ tool.exit = "none" => files.parquet # Absent
    /\ tool.pc \in {"routes", "rows"} => files.parquet.state = "whole"
    /\ tool.pc = "routes" => (tool.bad <=> ~SchemaFits)
    /\ tool.pc = "rows" => (tool.bad <=> ~SchemaFits \/ files.routes.state # "whole")
    /\ tool.exit # "none" =>
         (tool.exit = "ok" <=> Fits \/ (tool.allowMissing /\ files.parquet = Absent))

(* While nothing has changed under the tool, what it has found is so; it has
   an exit code when it is done and none before. *)
ToolInv ==
    /\ tool \in [kind : {"none", "check", "validate"}, pc : ToolPoints, of : {NoData} \cup Versions,
                 allowMissing : BOOLEAN, bad : BOOLEAN,
                 exit : {"none", "ok", "failed", "raised"}]
    /\ tool.kind = "none" => tool.pc = "done" /\ tool.exit = "none"
    /\ tool.kind # "none" => (tool.pc = "done" <=> tool.exit # "none") /\ tool.of \in Versions
    /\ "tool" \in quiet => CASE tool.kind = "check" -> FoundByCheck
                             [] tool.kind = "validate" -> FoundByValidator
                             [] OTHER -> TRUE

LEMMA ToolInvInit == Init => ToolInv
BY DEF Init, ToolsInit, NoTool, ToolInv, ToolPoints

LEMMA ToolInvNext == GenInv /\ ToolInv /\ [Next]_vars => ToolInv'
<1> SUFFICES ASSUME GenInv, ToolInv, [Next]_vars PROVE ToolInv'
  OBVIOUS
<1> USE DEF SchemaFits, ToolPoints
<1> DEFINE Found == CASE tool.kind = "check" -> FoundByCheck
                      [] tool.kind = "validate" -> FoundByValidator
                      [] OTHER -> TRUE
<1>1. ASSUME UNCHANGED <<tool, files>>, "tool" \in quiet' => "tool" \in quiet
      PROVE  ToolInv'
  BY <1>1 DEF ToolInv, FoundByCheck, FoundByValidator, Fits
<1>2. ASSUME UNCHANGED tool, quiet' = {}
      PROVE  ToolInv'
  BY <1>2 DEF ToolInv
<1>3. ASSUME NEW name, NEW file, Put(name, file), UNCHANGED tool PROVE ToolInv'
  BY <1>2, <1>3 DEF Put
<1>4. CASE GenStep
  <2>1. UNCHANGED tool
    BY <1>4 DEF GenStep, OpenRoutes, CloseRoutes, OpenParquet, CloseParquet, HashParquet,
                OpenReadme, CloseReadme
  <2>2. UNCHANGED fileVars \/ \E name, file : Put(name, file)
    BY <1>4 DEF GenStep, OpenRoutes, CloseRoutes, OpenParquet, CloseParquet, HashParquet,
                OpenReadme, CloseReadme
  <2> QED BY <1>1, <1>3, <2>1, <2>2 DEF fileVars
<1>5. CASE ParquetFails
  <2>1. UNCHANGED tool /\ (UNCHANGED fileVars \/ \E name, file : Put(name, file))
    BY <1>5 DEF ParquetFails
  <2> QED BY <1>1, <1>3, <2>1 DEF fileVars
<1>6. CASE Collect \/ ChangeCode
  BY <1>2, <1>6 DEF Collect, ChangeCode
<1>7. CASE Generate \/ Interrupt
  BY <1>1, <1>7 DEF Generate, Interrupt, fileVars
<1>8. CASE BeginRun
  BY <1>1, <1>8 DEF BeginRun
<1>9. CASE BeginTool
  <2>1. PICK kind \in {"check", "validate"}, allowMissing \in BOOLEAN :
           tool' = [kind |-> kind, pc |-> "exists", of |-> code,
                    allowMissing |-> allowMissing, bad |-> FALSE, exit |-> "none"]
    BY <1>9 DEF BeginTool
  <2>2. code \in Versions
    BY DEF GenInv
  <2> QED BY <2>1, <2>2 DEF ToolInv, FoundByCheck, FoundByValidator
<1>10. ASSUME ToolStep
       PROVE  /\ UNCHANGED <<code, files, quiet>>
              /\ tool.kind \in {"check", "validate"} /\ tool.pc # "done"
              /\ tool.exit = "none" /\ tool.of \in Versions
  <2>1. UNCHANGED fileVars /\ tool.kind \in {"check", "validate"} /\ tool.pc # "done"
    BY <1>10 DEF ToolStep, ToolAt, CheckExists, CheckCompares, CheckCopies, CheckDiffers,
                 ValidateExists, ValidateSchema, ValidateRoutes, ValidateRows
  <2> QED BY <2>1 DEF fileVars, ToolInv
<1>11. ASSUME NEW pc \in {"compare", "copy", "differences", "schema", "routes", "rows"},
              NEW bad \in BOOLEAN, ToolStep,
              tool' = [tool EXCEPT !.pc = pc, !.bad = bad],
              "tool" \in quiet => Found'
       PROVE  ToolInv'
  BY <1>10, <1>11 DEF ToolInv
<1>12. ASSUME NEW exit \in {"ok", "failed", "raised"}, ToolStep, Exit(exit),
              "tool" \in quiet => Found'
       PROVE  ToolInv'
  BY <1>10, <1>12 DEF ToolInv, Exit
<1>13. \A pc : GoTo(pc) => tool' = [tool EXCEPT !.pc = pc, !.bad = tool.bad]
  BY DEF GoTo, ToolInv
<1>14. tool.bad \in BOOLEAN
  BY DEF ToolInv
<1>15. ~SameBytes(Absent, Whole(tool.of)) /\ Absent.state # "whole"
  BY DEF SameBytes, Absent, Whole
<1>16. "tool" \in quiet /\ tool.kind = "check" => FoundByCheck
  BY DEF ToolInv
<1>17. "tool" \in quiet /\ tool.kind = "validate" => FoundByValidator
  BY DEF ToolInv
<1>18. CASE CheckExists
  <2>1. tool.kind = "check" /\ tool.pc = "exists"
    BY <1>18 DEF CheckExists, ToolAt
  <2>2. CASE files.parquet = Absent
    <3>1. Exit("failed")
      BY <1>18, <2>2 DEF CheckExists
    <3>2. Found'
      BY <1>10, <1>15, <1>18, <2>1, <2>2, <3>1 DEF ToolStep, ToolInv, Exit, FoundByCheck
    <3> QED BY <1>12, <1>18, <3>1, <3>2 DEF ToolStep
  <2>3. CASE files.parquet # Absent
    <3>1. GoTo("compare")
      BY <1>18, <2>3 DEF CheckExists
    <3>2. Found'
      BY <1>10, <1>18, <2>1, <2>3, <3>1 DEF ToolStep, ToolInv, GoTo, FoundByCheck
    <3> QED BY <1>11, <1>13, <1>14, <1>18, <3>1, <3>2 DEF ToolStep
  <2> QED BY <2>2, <2>3
<1>19. CASE CheckCompares
  <2>1. tool.kind = "check" /\ tool.pc = "compare"
    BY <1>19 DEF CheckCompares, ToolAt
  <2>2. CASE files.parquet = Absent
    <3>1. Exit("raised")
      BY <1>19, <2>2 DEF CheckCompares
    <3>2. Found'
      BY <1>10, <1>15, <1>19, <2>1, <2>2, <3>1 DEF ToolStep, ToolInv, Exit, FoundByCheck
    <3> QED BY <1>12, <1>19, <3>1, <3>2 DEF ToolStep
  <2>3. CASE files.parquet # Absent /\ SameBytes(files.parquet, Whole(tool.of))
    <3>1. GoTo("copy")
      BY <1>19, <2>3 DEF CheckCompares
    <3>2. Found'
      BY <1>10, <1>19, <2>1, <2>3, <3>1 DEF ToolStep, ToolInv, GoTo, FoundByCheck
    <3> QED BY <1>11, <1>13, <1>14, <1>19, <3>1, <3>2 DEF ToolStep
  <2>4. CASE files.parquet # Absent /\ ~SameBytes(files.parquet, Whole(tool.of))
    <3>1. GoTo("differences")
      BY <1>19, <2>4 DEF CheckCompares
    <3>2. Found'
      BY <1>10, <1>19, <2>1, <2>4, <3>1 DEF ToolStep, ToolInv, GoTo, FoundByCheck
    <3> QED BY <1>11, <1>13, <1>14, <1>19, <3>1, <3>2 DEF ToolStep
  <2> QED BY <2>2, <2>3, <2>4
<1>20. CASE CheckCopies
  <2>1. tool.kind = "check" /\ tool.pc = "copy"
    BY <1>20 DEF CheckCopies, ToolAt
  <2>2. PICK exit \in {"ok", "raised"} :
           Exit(exit) /\ (exit = "raised" <=> files.parquet = Absent)
    BY <1>20 DEF CheckCopies
  <2>3. "tool" \in quiet => Found'
    BY <1>10, <1>16, <1>20, <2>1, <2>2 DEF ToolStep, ToolInv, Exit, FoundByCheck
  <2> QED BY <1>12, <1>20, <2>2, <2>3 DEF ToolStep
<1>21. CASE CheckDiffers
  <2>1. tool.kind = "check" /\ tool.pc = "differences"
    BY <1>21 DEF CheckDiffers, ToolAt
  <2>2. PICK exit \in {"failed", "raised"} : Exit(exit)
    BY <1>21 DEF CheckDiffers
  <2>3. "tool" \in quiet => Found'
    BY <1>10, <1>16, <1>21, <2>1, <2>2 DEF ToolStep, ToolInv, Exit, FoundByCheck
  <2> QED BY <1>12, <1>21, <2>2, <2>3 DEF ToolStep
<1>22. CASE ValidateExists
  <2>1. tool.kind = "validate" /\ tool.pc = "exists"
    BY <1>22 DEF ValidateExists, ToolAt
  <2>2. CASE files.parquet # Absent
    <3>1. GoTo("schema")
      BY <1>22, <2>2 DEF ValidateExists
    <3>2. Found'
      BY <1>10, <1>22, <2>1, <2>2, <3>1 DEF ToolStep, ToolInv, GoTo, FoundByValidator
    <3> QED BY <1>11, <1>13, <1>14, <1>22, <3>1, <3>2 DEF ToolStep
  <2>3. CASE files.parquet = Absent
    <3>1. PICK exit \in {"ok", "failed"} : Exit(exit) /\ (exit = "ok" <=> tool.allowMissing)
      BY <1>22, <2>3 DEF ValidateExists
    <3>2. Found'
      BY <1>10, <1>15, <1>22, <2>1, <2>3, <3>1 DEF ToolStep, ToolInv, Exit, FoundByValidator, Fits
    <3> QED BY <1>12, <1>22, <3>1, <3>2 DEF ToolStep
  <2> QED BY <2>2, <2>3
<1>23. CASE ValidateSchema
  <2>1. tool.kind = "validate" /\ tool.pc = "schema"
    BY <1>23 DEF ValidateSchema, ToolAt
  <2>2. CASE files.parquet.state # "whole"
    <3>1. Exit("raised")
      BY <1>23, <2>2 DEF ValidateSchema
    <3>2. "tool" \in quiet => Found'
      BY <1>10, <1>17, <1>23, <2>1, <2>2, <3>1 DEF ToolStep, ToolInv, Exit, FoundByValidator, Fits
    <3> QED BY <1>12, <1>23, <3>1, <3>2 DEF ToolStep
  <2>3. CASE files.parquet.state = "whole"
    <3>1. tool' = [tool EXCEPT !.pc = "routes", !.bad = ~SchemaFits]
      BY <1>23, <2>3 DEF ValidateSchema
    <3>2. "tool" \in quiet => Found'
      BY <1>10, <1>17, <1>23, <2>1, <2>3, <3>1 DEF ToolStep, ToolInv, FoundByValidator, Fits
    <3> QED BY <1>11, <1>23, <3>1, <3>2 DEF ToolStep
  <2> QED BY <2>2, <2>3
<1>24. CASE ValidateRoutes
  <2>1. tool.kind = "validate" /\ tool.pc = "routes"
    BY <1>24 DEF ValidateRoutes, ToolAt
  <2>2. tool' = [tool EXCEPT !.pc = "rows", !.bad = tool.bad \/ files.routes.state # "whole"]
    BY <1>24 DEF ValidateRoutes
  <2>3. "tool" \in quiet => Found'
    BY <1>10, <1>17, <1>24, <2>1, <2>2 DEF ToolStep, ToolInv, FoundByValidator, Fits
  <2> QED BY <1>11, <1>24, <2>2, <2>3 DEF ToolStep
<1>25. CASE ValidateRows
  <2>1. tool.kind = "validate" /\ tool.pc = "rows"
    BY <1>25 DEF ValidateRows, ToolAt
  <2>2. PICK exit \in {"ok", "failed", "raised"} :
           /\ Exit(exit)
           /\ exit = "raised" <=> files.parquet.state # "whole"
           /\ exit = "failed" => tool.bad \/ files.parquet.of \notin Accepted[tool.of]
           /\ exit = "ok" => ~ (tool.bad \/ files.parquet.of \notin Accepted[tool.of])
    BY <1>25 DEF ValidateRows
  <2>3. "tool" \in quiet => Found'
    BY <1>10, <1>17, <1>25, <2>1, <2>2 DEF ToolStep, ToolInv, Exit, FoundByValidator, Fits
  <2> QED BY <1>12, <1>25, <2>2, <2>3 DEF ToolStep
<1>26. CASE UNCHANGED toolVars
  BY <1>1, <1>26 DEF toolVars, fileVars
<1> QED BY <1>4, <1>5, <1>6, <1>7, <1>8, <1>9, <1>18, <1>19, <1>20, <1>21, <1>22, <1>23, <1>24,
           <1>25, <1>26, WhoChangesTheScripts
        DEF ToolStep

(* While nothing changes under them, --check succeeds iff the committed bytes
   are those its code generates, and the validator iff both files are whole
   and of its schema and rules, or there is none and it may be missing
   (gen_fixtures.py, _check; validate_fixtures.py, main). *)
THEOREM ToolsAreExact == Spec => []ToolsAreExactWhenQuiet
<1>1. ToolInv => ToolsAreExactWhenQuiet
  <2> SUFFICES ASSUME ToolInv, tool.exit # "none", "tool" \in quiet
               PROVE  tool.exit = "ok" <=>
                        IF tool.kind = "check" THEN SameBytes(files.parquet, Whole(tool.of))
                        ELSE Fits \/ (tool.allowMissing /\ files.parquet = Absent)
    BY DEF ToolsAreExactWhenQuiet, Fits, SchemaFits
  <2>1. tool.kind \in {"check", "validate"}
    BY DEF ToolInv
  <2>2. tool.kind = "check" => FoundByCheck
    BY DEF ToolInv
  <2>3. tool.kind = "validate" => FoundByValidator
    BY DEF ToolInv
  <2> QED BY <2>1, <2>2, <2>3 DEF FoundByCheck, FoundByValidator
<1>2. Spec => [](GenInv /\ ToolInv)
  BY GenInvInit, GenInvNext, ToolInvInit, ToolInvNext, PTL DEF Spec
<1> QED BY <1>1, <1>2, PTL

(***************************************************************************)
(* The backtest.                                                           *)
(***************************************************************************)

RunPoints == {"settings", "hash", "glob", "read", "report", "done"}

(* The walk has read the store. *)
HasRead == run.pc = "report" \/ run.end = "reported"

(* What the run has found, at each point of its program: verify_dataset, what
   of it still holds after the walk, and what the walk read. *)
FoundByRun ==
    /\ run.scenario /\ run.pc \in {"hash", "glob", "read", "report"} =>
         run.store.settings.fixtures /\ run.store.settings.root = RepoRoot
    /\ run.scenario /\ run.pc \in {"glob", "read", "report"} =>
         SameBytes(files.parquet, Whole(Frozen))
    /\ run.scenario /\ run.pc \in {"read", "report"} => ~collected
    /\ HasRead =>
         /\ run.fixture = NoData => ~ReadsFixture(run.store)
         /\ run.fixture # NoData => files.parquet = Whole(run.fixture)
         /\ run.parts <=> ReadsParts(run.store)
    /\ run.scenario /\ run.end = "reported" =>
         ReadsFixture(run.store) /\ ~collected /\ SameBytes(files.parquet, Whole(Frozen))
    /\ run.scenario /\ run.end = "refused" =>
         ~ReadsFixture(run.store) \/ collected \/ ~SameBytes(files.parquet, Whole(Frozen))

(* Only a scenario verifies its dataset; only a store in fixture mode shows
   fixture rows, and the report has the store's mode; while nothing has changed
   under the run, what it has found is so. *)
RunInv ==
    /\ run \in [pc : RunPoints, store : {run.store}, scenario : BOOLEAN,
                fixture : {NoData} \cup Versions, parts : BOOLEAN,
                end : {"none", "refused", "raised", "reported"}, report : {run.report}]
    /\ run.pc # "done" => run.end = "none"
    /\ run.pc \in {"settings", "hash", "glob"} => run.scenario
    /\ HasRead /\ run.fixture # NoData => run.store.settings.fixtures
    /\ run.end = "reported" => (run.report.fixtureMode <=> run.store.settings.fixtures)
    /\ "run" \in quiet => FoundByRun

LEMMA RunInvInit == Init => RunInv
BY DEF Init, ToolsInit, NoRun, RunInv, RunPoints, HasRead

LEMMA RunInvNext == GenInv /\ RunInv /\ [Next]_vars => RunInv'
<1> SUFFICES ASSUME GenInv, RunInv, [Next]_vars PROVE RunInv'
  OBVIOUS
<1> USE DEF RunPoints, HasRead
<1>1. ASSUME UNCHANGED <<run, collected, files>>, "run" \in quiet' => "run" \in quiet
      PROVE  RunInv'
  BY <1>1 DEF RunInv, FoundByRun, ReadsFixture, ReadsParts
<1>2. ASSUME UNCHANGED run, quiet' = {}
      PROVE  RunInv'
  BY <1>2 DEF RunInv
<1>3. ASSUME UNCHANGED <<run, collected>>,
             UNCHANGED fileVars \/ (\E name, file : Put(name, file))
      PROVE  RunInv'
  BY <1>1, <1>2, <1>3 DEF Put, fileVars
<1>4. CASE UNCHANGED <<benchVars, toolVars>>
  BY <1>1, <1>4 DEF benchVars, toolVars, fileVars
<1>5. CASE Collect
  BY <1>2, <1>5 DEF Collect
<1>6. CASE /\ \/ ChangeCode \/ Generate \/ ParquetFails \/ Interrupt
              \/ GenStep \/ BeginTool \/ ToolStep
           /\ UNCHANGED benchVars
  <2>1. UNCHANGED <<run, collected>>
    BY <1>6 DEF benchVars
  <2>2. CASE ChangeCode
    BY <1>2, <2>1, <2>2 DEF ChangeCode
  <2>3. CASE Generate \/ Interrupt
    BY <1>3, <2>1, <2>3 DEF Generate, Interrupt
  <2>4. CASE ParquetFails
    <3>1. UNCHANGED fileVars \/ \E name, file : Put(name, file)
      BY <2>4 DEF ParquetFails
    <3> QED BY <1>3, <2>1, <3>1
  <2>5. CASE GenStep
    <3>1. UNCHANGED fileVars \/ \E name, file : Put(name, file)
      BY <2>5 DEF GenStep, OpenRoutes, CloseRoutes, OpenParquet, CloseParquet, HashParquet,
                  OpenReadme, CloseReadme
    <3> QED BY <1>3, <2>1, <3>1
  <2>6. CASE BeginTool
    BY <1>1, <2>1, <2>6 DEF BeginTool
  <2>7. CASE ToolStep
    <3>1. UNCHANGED fileVars
      BY <2>7 DEF ToolStep, ToolAt, CheckExists, CheckCompares, CheckCopies, CheckDiffers,
                  ValidateExists, ValidateSchema, ValidateRoutes, ValidateRows
    <3> QED BY <1>3, <2>1, <3>1
  <2> QED BY <1>6, <2>2, <2>3, <2>4, <2>5, <2>6, <2>7
<1>7. CASE BeginRun
  <2>1. PICK h \in held, scenario \in BOOLEAN :
           run' = [NoRun EXCEPT !.pc = IF scenario THEN "settings" ELSE "read",
                                !.store = h.store, !.scenario = scenario]
    BY <1>7 DEF BeginRun
  <2> DEFINE pc == IF scenario THEN "settings" ELSE "read"
  <2>2. run' = [pc |-> pc, store |-> h.store, scenario |-> scenario, fixture |-> NoData,
                parts |-> FALSE, end |-> "none", report |-> NoData]
    BY <2>1 DEF NoRun
  <2>3. /\ run'.pc = pc /\ run'.scenario = scenario /\ run'.fixture = NoData
        /\ run'.parts = FALSE /\ run'.end = "none"
    BY <2>2
  <2>4. pc \in {"settings", "read"} /\ (pc = "settings" <=> scenario)
    OBVIOUS
  <2> HIDE DEF pc
  <2>5. run' \in [pc : RunPoints, store : {run'.store}, scenario : BOOLEAN,
                  fixture : {NoData} \cup Versions, parts : BOOLEAN,
                  end : {"none", "refused", "raised", "reported"}, report : {run'.report}]
    BY <2>2, <2>4
  <2>6. FoundByRun'
    BY <2>3, <2>4 DEF FoundByRun
  <2> QED BY <2>3, <2>4, <2>5, <2>6 DEF RunInv
<1>8. CASE RunStep /\ UNCHANGED <<envVars, toolVars>>
  <2>1. UNCHANGED <<files, quiet, collected>>
    BY <1>8 DEF toolVars, fileVars, RunStep, RunAt, VerifySettings, VerifyHash, VerifyGlob,
                ReadStore, Report
  <2>2. \A store : (ReadsFixture(store))' <=> ReadsFixture(store)
    BY <2>1 DEF ReadsFixture
  <2>3. \A store : (ReadsParts(store))' <=> ReadsParts(store)
    BY <2>1 DEF ReadsParts
  <2>4. ASSUME NEW pc \in {"hash", "glob", "read"}, run.pc # "done",
               run' = [run EXCEPT !.pc = pc], run.scenario, "run" \in quiet => FoundByRun'
        PROVE  RunInv'
    BY <2>1, <2>4 DEF RunInv
  <2>5. ASSUME NEW end \in {"refused", "raised"}, EndRun(end), run.pc # "done",
               "run" \in quiet => FoundByRun'
        PROVE  RunInv'
    BY <2>1, <2>5 DEF RunInv, EndRun
  <2>6. "run" \in quiet => FoundByRun
    BY DEF RunInv
  <2>7. ASSUME EndRun("raised"), run.pc # "done" PROVE FoundByRun'
    BY <2>7 DEF RunInv, EndRun, FoundByRun
  <2>8. CASE VerifySettings
    <3>1. run.pc = "settings" /\ run.scenario
      BY <2>8 DEF VerifySettings, RunAt, RunInv
    <3>2. CASE run.store.settings.fixtures /\ run.store.settings.root = RepoRoot
      <4>1. run' = [run EXCEPT !.pc = "hash"]
        BY <2>8, <3>2 DEF VerifySettings
      <4>2. FoundByRun'
        BY <2>1, <3>1, <3>2, <4>1 DEF RunInv, FoundByRun
      <4> QED BY <2>4, <3>1, <4>1, <4>2
    <3>3. CASE ~ (run.store.settings.fixtures /\ run.store.settings.root = RepoRoot)
      <4>1. EndRun("refused")
        BY <2>8, <3>3 DEF VerifySettings
      <4>2. FoundByRun'
        BY <2>1, <2>2, <3>1, <3>3, <4>1 DEF RunInv, FoundByRun, EndRun, ReadsFixture
      <4> QED BY <2>5, <3>1, <4>1, <4>2
    <3> QED BY <3>2, <3>3
  <2>9. CASE VerifyHash
    <3>1. run.pc = "hash" /\ run.scenario
      BY <2>9 DEF VerifyHash, RunAt, RunInv
    <3>2. CASE files.parquet = Absent
      <4>1. EndRun("raised")
        BY <2>9, <3>2 DEF VerifyHash
      <4> QED BY <2>5, <2>7, <3>1, <4>1
    <3>3. CASE files.parquet # Absent /\ SameBytes(files.parquet, Whole(Frozen))
      <4>1. run' = [run EXCEPT !.pc = "glob"]
        BY <2>9, <3>3 DEF VerifyHash
      <4>2. "run" \in quiet => FoundByRun'
        BY <2>1, <2>6, <3>1, <3>3, <4>1 DEF RunInv, FoundByRun
      <4> QED BY <2>4, <3>1, <4>1, <4>2
    <3>4. CASE files.parquet # Absent /\ ~SameBytes(files.parquet, Whole(Frozen))
      <4>1. EndRun("refused")
        BY <2>9, <3>4 DEF VerifyHash
      <4>2. FoundByRun'
        BY <2>1, <3>1, <3>4, <4>1 DEF RunInv, FoundByRun, EndRun
      <4> QED BY <2>5, <3>1, <4>1, <4>2
    <3> QED BY <3>2, <3>3, <3>4
  <2>10. CASE VerifyGlob
    <3>1. run.pc = "glob" /\ run.scenario
      BY <2>10 DEF VerifyGlob, RunAt, RunInv
    <3>2. CASE collected
      <4>1. EndRun("refused")
        BY <2>10, <3>2 DEF VerifyGlob
      <4>2. FoundByRun'
        BY <2>1, <3>1, <3>2, <4>1 DEF RunInv, FoundByRun, EndRun
      <4> QED BY <2>5, <3>1, <4>1, <4>2
    <3>3. CASE ~collected
      <4>1. run' = [run EXCEPT !.pc = "read"]
        BY <2>10, <3>3 DEF VerifyGlob
      <4>2. "run" \in quiet => FoundByRun'
        BY <2>1, <2>6, <3>1, <3>3, <4>1 DEF RunInv, FoundByRun
      <4> QED BY <2>4, <3>1, <4>1, <4>2
    <3> QED BY <3>2, <3>3
  <2>11. CASE ReadStore
    <3>1. run.pc = "read" /\ run.end = "none"
      BY <2>11 DEF ReadStore, RunAt, RunInv
    <3>2. CASE ReadsFixture(run.store) /\ files.parquet = Torn
      <4>1. EndRun("raised")
        BY <2>11, <3>2 DEF ReadStore
      <4> QED BY <2>5, <2>7, <3>1, <4>1
    <3>3. CASE ~ (ReadsFixture(run.store) /\ files.parquet = Torn)
      <4> DEFINE fixture == IF ReadsFixture(run.store) THEN files.parquet.of ELSE NoData
                 parts == ReadsParts(run.store)
      <4>1. run' = [run EXCEPT !.pc = "report", !.parts = parts, !.fixture = fixture]
        BY <2>11, <3>3 DEF ReadStore
      <4>2. ReadsFixture(run.store) =>
              fixture \in Versions /\ fixture # NoData /\ files.parquet = Whole(fixture)
        <5>1. files.parquet \in FileStates
          BY DEF GenInv
        <5> QED BY <5>1, <3>3, VersionsAssumption DEF FileStates, ReadsFixture, Whole
      <4>3. ~ReadsFixture(run.store) => fixture = NoData
        OBVIOUS
      <4>4. parts \in BOOLEAN /\ (parts <=> ReadsParts(run.store))
        BY DEF ReadsParts
      <4> HIDE DEF fixture, parts
      <4>5. /\ run'.pc = "report" /\ run'.parts = parts /\ run'.fixture = fixture
            /\ run'.store = run.store /\ run'.scenario = run.scenario /\ run'.end = "none"
        BY <3>1, <4>1 DEF RunInv
      <4>6. run' \in [pc : RunPoints, store : {run'.store}, scenario : BOOLEAN,
                      fixture : {NoData} \cup Versions, parts : BOOLEAN,
                      end : {"none", "refused", "raised", "reported"}, report : {run'.report}]
        BY <4>1, <4>2, <4>3, <4>4 DEF RunInv
      <4>7. run'.fixture # NoData => run'.store.settings.fixtures
        BY <4>2, <4>3, <4>5 DEF ReadsFixture
      <4>8. "run" \in quiet => FoundByRun'
        BY <2>1, <2>2, <2>3, <2>6, <3>1, <4>2, <4>3, <4>4, <4>5 DEF FoundByRun
      <4> QED BY <2>1, <4>5, <4>6, <4>7, <4>8 DEF RunInv
    <3> QED BY <3>2, <3>3
  <2>12. CASE Report
    <3>1. run.pc = "report" /\ run.end = "none"
      BY <2>12 DEF Report, RunAt, RunInv
    <3>2. CASE NowUtc = Raises
      <4>1. EndRun("raised")
        BY <2>12, <3>2 DEF Report
      <4> QED BY <2>5, <2>7, <3>1, <4>1
    <3>3. CASE NowUtc # Raises
      <4> DEFINE report == [fixtureMode |-> FixtureMode(run.store), frozen |-> run.scenario,
                            generatedAt |-> NowUtc]
      <4>1. run' = [run EXCEPT !.pc = "done", !.end = "reported", !.report = report]
        BY <2>12, <3>3 DEF Report
      <4>2. report.fixtureMode <=> run.store.settings.fixtures
        BY DEF FixtureMode
      <4> HIDE DEF report
      <4>3. /\ run'.pc = "done" /\ run'.parts = run.parts /\ run'.fixture = run.fixture
            /\ run'.store = run.store /\ run'.scenario = run.scenario
            /\ run'.end = "reported" /\ run'.report = report
        BY <4>1 DEF RunInv
      <4>4. run' \in [pc : RunPoints, store : {run'.store}, scenario : BOOLEAN,
                      fixture : {NoData} \cup Versions, parts : BOOLEAN,
                      end : {"none", "refused", "raised", "reported"}, report : {run'.report}]
        BY <4>1 DEF RunInv
      <4>5. "run" \in quiet => FoundByRun'
        <5>1. SUFFICES ASSUME "run" \in quiet PROVE FoundByRun'
          OBVIOUS
        <5>2. /\ run.fixture = NoData => ~ReadsFixture(run.store)
              /\ run.fixture # NoData => files.parquet = Whole(run.fixture)
              /\ run.parts <=> ReadsParts(run.store)
          BY <2>6, <3>1, <5>1 DEF FoundByRun
        <5>3. run.scenario => /\ run.store.settings.fixtures
                              /\ run.store.settings.root = RepoRoot
                              /\ SameBytes(files.parquet, Whole(Frozen)) /\ ~collected
          BY <2>6, <3>1, <5>1 DEF FoundByRun
        <5>4. run.scenario => ReadsFixture(run.store)
          BY <5>3 DEF ReadsFixture, SameBytes, Absent, Whole
        <5> QED BY <2>1, <2>2, <2>3, <4>3, <5>2, <5>3, <5>4 DEF FoundByRun
      <4>6. run.fixture # NoData => run.store.settings.fixtures
        BY <3>1 DEF RunInv
      <4> QED BY <2>1, <4>2, <4>3, <4>4, <4>5, <4>6 DEF RunInv
    <3> QED BY <3>2, <3>3
  <2> QED BY <1>8, <2>8, <2>9, <2>10, <2>11, <2>12 DEF RunStep
<1> QED BY <1>4, <1>5, <1>6, <1>7, <1>8, WhoChangesTheRun

THEOREM RunsAreConsistent == Spec => [](GenInv /\ RunInv)
BY GenInvInit, GenInvNext, RunInvInit, RunInvNext, PTL DEF Spec

(* A report says what was scored: fixture rows only under fixture mode, and
   with it unless the store had no fixture to read, whatever the environment
   says by then (harness.py, run_backtest; the report's fixture_mode). *)
THEOREM ReportsAreHonest == Spec => []ReportSaysWhatWasScored
<1>1. RunInv => ReportSaysWhatWasScored
  <2> SUFFICES ASSUME RunInv, run.end = "reported"
               PROVE  /\ run.fixture # NoData => run.report.fixtureMode
                      /\ run.report.fixtureMode /\ "run" \in quiet /\ run.fixture = NoData
                           => run.store.settings.root # RepoRoot \/ files.parquet = Absent
    BY DEF ReportSaysWhatWasScored
  <2>1. run.fixture # NoData => run.store.settings.fixtures
    BY DEF RunInv, HasRead
  <2>2. run.report.fixtureMode <=> run.store.settings.fixtures
    BY DEF RunInv
  <2>3. "run" \in quiet /\ run.fixture = NoData => ~ReadsFixture(run.store)
    BY DEF RunInv, FoundByRun, HasRead
  <2> QED BY <2>1, <2>2, <2>3 DEF ReadsFixture
<1> QED BY <1>1, RunsAreConsistent, PTL

(* While nothing changes under it, a scenario that is scored was scored on the
   frozen dataset and on nothing else, and one that is refused had another
   dataset before it (scenario.py, verify_dataset). *)
THEOREM ScenariosScoreTheirDataset == Spec => []ScenarioScoresTheFrozenDataset
<1>1. GenInv /\ RunInv => ScenarioScoresTheFrozenDataset
  <2> SUFFICES ASSUME GenInv, RunInv, run.scenario, "run" \in quiet
               PROVE  /\ run.end = "reported" =>
                           /\ run.fixture # NoData /\ ~run.parts
                           /\ Contents[run.fixture] = Contents[Frozen]
                      /\ run.end = "refused" =>
                           \/ ~ReadsFixture(run.store) \/ collected
                           \/ ~SameBytes(files.parquet, Whole(Frozen))
    BY DEF ScenarioScoresTheFrozenDataset
  <2>1. FoundByRun
    BY DEF RunInv
  <2>2. ASSUME run.end = "reported"
        PROVE  /\ run.fixture # NoData /\ ~run.parts
               /\ Contents[run.fixture] = Contents[Frozen]
    <3>1. ReadsFixture(run.store) /\ ~collected /\ SameBytes(files.parquet, Whole(Frozen))
      BY <2>1, <2>2 DEF FoundByRun
    <3>2. run.fixture # NoData /\ files.parquet = Whole(run.fixture)
          /\ (run.parts <=> ReadsParts(run.store))
      BY <2>1, <2>2, <3>1 DEF FoundByRun, HasRead
    <3>3. Contents[run.fixture] = Contents[Frozen]
      BY <3>1, <3>2 DEF SameBytes, Whole
    <3> QED BY <3>1, <3>2, <3>3 DEF ReadsParts
  <2> QED BY <2>1, <2>2 DEF FoundByRun
<1> QED BY <1>1, RunsAreConsistent, PTL

(***************************************************************************)
(* Recursion over the numbers up to N, and the elements of a set in order. *)
(***************************************************************************)

(* g starts from base and goes on by op. *)
GoesBy(op, base, N, V, g) ==
    g \in [0..N -> V] /\ g = [n \in 0..N |-> IF n = 0 THEN base ELSE op[<<n, g[n - 1]>>]]

LEMMA StepsExist ==
    ASSUME NEW N \in Nat, NEW V, NEW op, NEW base \in V,
           \A n \in 1..N : \A v \in V : op[<<n, v>>] \in V
    PROVE  \E g : GoesBy(op, base, N, V, g)
<1> DEFINE Follows(k, g) == \A n \in 0..N : n <= k =>
                              g[n] = IF n = 0 THEN base ELSE op[<<n, g[n - 1]>>]
           Done == {k \in Nat : \E g \in [0..N -> V] : Follows(k, g)}
<1>1. 0 \in Done
  <2> DEFINE g == [n \in 0..N |-> base]
  <2>1. g \in [0..N -> V] /\ Follows(0, g)
    OBVIOUS
  <2> QED BY <2>1
<1>2. ASSUME NEW k \in Nat, k \in Done PROVE k + 1 \in Done
  <2>1. PICK g \in [0..N -> V] : Follows(k, g)
    BY <1>2
  <2> DEFINE f == [n \in 0..N |-> IF n = 0 THEN base ELSE op[<<n, g[n - 1]>>]]
  <2>2. ASSUME NEW n \in 0..N, n # 0 PROVE n - 1 \in 0..N /\ n \in 1..N
    BY <2>2
  <2>3. f \in [0..N -> V]
    BY <2>2
  <2>4. ASSUME NEW n \in 0..N, n <= k PROVE f[n] = g[n]
    BY <2>1, <2>4
  <2>5. ASSUME NEW n \in 0..N, n <= k + 1
        PROVE  f[n] = IF n = 0 THEN base ELSE op[<<n, f[n - 1]>>]
    <3>1. CASE n # 0
      <4>1. f[n - 1] = g[n - 1]
        BY <2>2, <2>4, <2>5, <3>1
      <4>2. f[n] = op[<<n, g[n - 1]>>]
        BY <3>1
      <4> QED BY <3>1, <4>1, <4>2
    <3> QED BY <3>1
  <2>6. k + 1 \in Nat /\ Follows(k + 1, f)
    <3> HIDE DEF f
    <3> QED BY <2>5
  <2> HIDE DEF f, Follows
  <2> QED BY <2>3, <2>6
<1>3. \A k \in Nat : k \in Done
  <2> HIDE DEF Follows
  <2>1. Done \in SUBSET Nat
    OBVIOUS
  <2> HIDE DEF Done
  <2> QED BY <2>1, <1>1, <1>2, UpTo
<1>4. PICK g \in [0..N -> V] : Follows(N, g)
  BY <1>3
<1>5. GoesBy(op, base, N, V, g)
  BY <1>4 DEF GoesBy
<1> QED BY <1>5

IsOrder(S, R) ==
    /\ \A x \in S : <<x, x>> \notin R
    /\ \A x, y, z \in S : <<x, y>> \in R /\ <<y, z>> \in R => <<x, z>> \in R
    /\ \A x, y \in S : x = y \/ <<x, y>> \in R \/ <<y, x>> \in R

LEMMA InOrderIs ==
    ASSUME NEW S, IsFiniteSet(S), NEW R, IsOrder(S, R)
    PROVE  /\ InOrder(S, R) \in [1..Cardinality(S) -> S]
           /\ \A i, j \in 1..Cardinality(S) :
                i < j => <<InOrder(S, R)[i], InOrder(S, R)[j]>> \in R
           /\ \A x \in S : \E i \in 1..Cardinality(S) : InOrder(S, R)[i] = x
<1> DEFINE N == Cardinality(S)
           Before(x) == {y \in S : <<y, x>> \in R}
           rank == [x \in S |-> Cardinality(Before(x))]
           ranks == {rank[x] : x \in S}
<1>1. N \in Nat
  BY FS_CardinalityType
<1>2. ASSUME NEW x \in S
      PROVE  /\ IsFiniteSet(Before(x)) /\ rank[x] = Cardinality(Before(x))
             /\ rank[x] \in Nat /\ rank[x] < N
  <2>1. Before(x) \subseteq S /\ x \notin Before(x)
    BY DEF IsOrder
  <2> HIDE DEF Before
  <2>2. /\ IsFiniteSet(Before(x)) /\ Cardinality(Before(x)) <= Cardinality(S)
        /\ Cardinality(Before(x)) # Cardinality(S) /\ Cardinality(Before(x)) \in Nat
    BY <2>1, FS_Subset, FS_CardinalityType
  <2> QED BY <2>2, <1>1
<1>3. ASSUME NEW x \in S, NEW y \in S, <<x, y>> \in R PROVE rank[x] < rank[y]
  <2>1. Before(x) \subseteq Before(y) /\ x \in Before(y) /\ x \notin Before(x)
    BY <1>3 DEF IsOrder
  <2> HIDE DEF Before, rank
  <2>2. Cardinality(Before(x)) <= Cardinality(Before(y))
        /\ Cardinality(Before(x)) # Cardinality(Before(y))
    BY <2>1, <1>2, FS_Subset
  <2> QED BY <2>2, <1>2
<1> HIDE DEF N, Before
<1>4. \A x \in S : rank[x] = Cardinality(Before(x)) /\ rank[x] \in Nat /\ rank[x] < N
  BY <1>2
<1> HIDE DEF rank
<1>5. \A x, y \in S : rank[x] = rank[y] => x = y
  <2> SUFFICES ASSUME NEW x \in S, NEW y \in S, rank[x] = rank[y], x # y PROVE FALSE
    OBVIOUS
  <2>1. <<x, y>> \in R \/ <<y, x>> \in R
    BY DEF IsOrder
  <2>2. rank[x] < rank[y] \/ rank[y] < rank[x]
    BY <2>1, <1>3
  <2> QED BY <2>2, <1>4
<1>6. \A x \in S : rank[x] \in 0..(N - 1)
  BY <1>1, <1>4
<1>7. ranks = 0..(N - 1)
  <2>1. rank \in [S -> ranks] /\ ranks \subseteq 0..(N - 1)
    <3>1. DOMAIN rank = S /\ rank = [x \in S |-> rank[x]]
      BY DEF rank
    <3> QED BY <1>6, <3>1
  <2>2. \A r \in ranks : \E x \in S : rank[x] = r
    OBVIOUS
  <2> HIDE DEF ranks
  <2>3. rank \in Surjection(S, ranks)
    BY <2>1, <2>2 DEF Surjection
  <2>4. rank \in Injection(S, ranks)
    BY <2>1, <1>5 DEF Injection, IsInjective
  <2>5. Cardinality(ranks) = N
    BY <2>3, <2>4, FS_Surjection DEF N
  <2>6. IsFiniteSet(0..(N - 1)) /\ Cardinality(0..(N - 1)) = N
    BY <1>1, FS_Interval
  <2> QED BY <2>1, <2>5, <2>6, FS_Subset
<1>8. ASSUME NEW n \in 1..N
      PROVE  InOrder(S, R)[n] \in S /\ rank[InOrder(S, R)[n]] = n - 1
  <2>1. PICK x \in S : rank[x] = n - 1
    <3>1. n - 1 \in ranks
      <4> HIDE DEF ranks
      <4> QED BY <1>1, <1>7
    <3> QED BY <3>1
  <2>2. InOrder(S, R)[n] = CHOOSE y \in S : Cardinality(Before(y)) = n - 1
    BY Zenon DEF InOrder, N, Before
  <2> QED BY <2>1, <2>2, <1>4
<1>9. InOrder(S, R) \in [1..N -> S]
  <2> DEFINE e(n) == CHOOSE y \in S : Cardinality(Before(y)) = n - 1
  <2>1. InOrder(S, R) = [n \in 1..N |-> e(n)]
    BY Zenon DEF InOrder, N, Before
  <2> HIDE DEF e
  <2>2. \A n \in 1..N : e(n) \in S
    BY <2>1, <1>8
  <2> QED BY <2>1, <2>2
<1>10. ASSUME NEW i \in 1..N, NEW j \in 1..N, i < j
       PROVE  <<InOrder(S, R)[i], InOrder(S, R)[j]>> \in R
  <2> DEFINE x == InOrder(S, R)[i]
             y == InOrder(S, R)[j]
  <2>1. x \in S /\ y \in S /\ rank[x] = i - 1 /\ rank[y] = j - 1
    BY <1>8
  <2>2. i \in Nat /\ j \in Nat
    BY <1>1
  <2> HIDE DEF x, y
  <2>3. x # y /\ ~ (rank[y] < rank[x])
    BY <2>1, <2>2, <1>10
  <2>4. <<x, y>> \in R
    BY <2>1, <2>3, <1>3 DEF IsOrder
  <2> QED BY <2>4 DEF x, y
<1>11. ASSUME NEW x \in S PROVE \E i \in 1..N : InOrder(S, R)[i] = x
  <2>1. rank[x] \in Nat /\ rank[x] < N
    BY <1>4
  <2> DEFINE n == rank[x] + 1
  <2>2. n \in 1..N /\ n - 1 = rank[x]
    BY <1>1, <2>1
  <2> HIDE DEF n
  <2>3. InOrder(S, R)[n] \in S /\ rank[InOrder(S, R)[n]] = rank[x]
    BY <2>2, <1>8
  <2> QED BY <2>2, <2>3, <1>5
<1> QED BY <1>9, <1>10, <1>11 DEF N

(***************************************************************************)
(* The dataset.                                                            *)
(***************************************************************************)

LEMMA CellIs ==
    ASSUME NEW c \in Cells
    PROVE  /\ c = <<c[1], c[2], c[3]>> /\ c[1] \in FixtureRoutes
           /\ c[1] \in Nat /\ c[2] \in Nat /\ c[3] \in Nat
<1>1. /\ FixtureRoutes \subseteq Nat /\ FetchedDays \subseteq Nat /\ DtdGrid \subseteq Nat
  BY FixtureAssumption
<1>2. PICK route \in FixtureRoutes, day \in FetchedDays, dtd \in DtdGrid : c = <<route, day, dtd>>
  BY DEF Cells
<1>3. c[1] = route /\ c[2] = day /\ c[3] = dtd
  BY <1>2
<1> QED BY <1>1, <1>2, <1>3

LEMMA CellsAreFinite == IsFiniteSet(Cells) /\ Cardinality(Cells) \in Nat
<1> DEFINE pairs == FixtureRoutes \X FetchedDays
           f == [p \in pairs \X DtdGrid |-> <<p[1][1], p[1][2], p[2]>>]
<1>1. IsFiniteSet(FixtureRoutes) /\ IsFiniteSet(FetchedDays) /\ IsFiniteSet(DtdGrid)
  BY FixtureAssumption
<1>2. IsFiniteSet(pairs \X DtdGrid)
  <2>1. IsFiniteSet(pairs)
    BY <1>1, FS_Product
  <2> HIDE DEF pairs
  <2> QED BY <1>1, <2>1, FS_Product
<1>3. f \in Surjection(pairs \X DtdGrid, Cells)
  <2>1. f \in [pairs \X DtdGrid -> Cells]
    BY DEF Cells
  <2>2. ASSUME NEW c \in Cells PROVE \E p \in pairs \X DtdGrid : f[p] = c
    <3> DEFINE p == <<<<c[1], c[2]>>, c[3]>>
    <3>1. p \in pairs \X DtdGrid /\ f[p] = c
      BY DEF Cells
    <3> QED BY <3>1
  <2> QED BY <2>1, <2>2 DEF Surjection
<1> HIDE DEF f, pairs
<1> QED BY <1>2, <1>3, FS_Surjection, FS_CardinalityType

LEMMA CellsAreOrdered == IsOrder(Cells, {p \in Cells \X Cells : CellBefore(p[1], p[2])})
<1> DEFINE R == {p \in Cells \X Cells : CellBefore(p[1], p[2])}
<1>1. \A c, d \in Cells : <<c, d>> \in R <=> CellBefore(c, d)
  OBVIOUS
<1> HIDE DEF R
<1>2. \A x \in Cells : <<x, x>> \notin R
  BY <1>1, CellIs DEF CellBefore
<1>3. ASSUME NEW x \in Cells, NEW y \in Cells, NEW z \in Cells, CellBefore(x, y), CellBefore(y, z)
      PROVE  CellBefore(x, z)
  <2>1. /\ x[1] \in Nat /\ x[2] \in Nat /\ x[3] \in Nat /\ y[1] \in Nat /\ y[2] \in Nat
        /\ y[3] \in Nat /\ z[1] \in Nat /\ z[2] \in Nat /\ z[3] \in Nat
    BY CellIs
  <2> QED BY <1>3, <2>1 DEF CellBefore
<1>4. ASSUME NEW x \in Cells, NEW y \in Cells
      PROVE  x = y \/ CellBefore(x, y) \/ CellBefore(y, x)
  <2>1. /\ x = <<x[1], x[2], x[3]>> /\ y = <<y[1], y[2], y[3]>>
        /\ x[1] \in Nat /\ x[2] \in Nat /\ x[3] \in Nat /\ y[1] \in Nat /\ y[2] \in Nat
        /\ y[3] \in Nat
    BY CellIs
  <2>2. CASE x[1] = y[1] /\ x[2] = y[2] /\ x[3] = y[3]
    BY <2>1, <2>2
  <2>3. CASE ~ (x[1] = y[1] /\ x[2] = y[2] /\ x[3] = y[3])
    BY <2>1, <2>3 DEF CellBefore
  <2> QED BY <2>2, <2>3
<1> QED BY <1>1, <1>2, <1>3, <1>4 DEF IsOrder, R

(* The cells that have been laid out, and nothing else, are in the rows. *)
RowsOf(price) == {CalendarRow(price, c) : c \in Cells} \cup {ItineraryRow(price, c) : c \in Cells}

Placed(price, acc, cell) ==
    /\ acc.at[cell] \in 1..Len(acc.rows)
    /\ acc.rows[acc.at[cell]] = CalendarRow(price, cell)
    /\ HasItinerary(cell) => /\ acc.at[cell] + 1 \in 1..Len(acc.rows)
                             /\ acc.rows[acc.at[cell] + 1] = ItineraryRow(price, cell)

IsLaid(price, acc, done) ==
    /\ acc \in [rows : Seq(RowsOf(price)), at : [Cells -> Nat \cup {NoData}]]
    /\ \A c \in done : Placed(price, acc, c)
    /\ \A i \in 1..Len(acc.rows) : \E c \in done :
         i = acc.at[c] \/ (HasItinerary(c) /\ i = acc.at[c] + 1)
    /\ Len(acc.rows) = Cardinality(done) + Cardinality({c \in done : HasItinerary(c)})

LEMMA AddCellType ==
    ASSUME NEW price, NEW cell \in Cells,
           NEW acc \in [rows : Seq(RowsOf(price)), at : [Cells -> Nat \cup {NoData}]]
    PROVE  /\ AddCell(price, acc, cell) \in
                [rows : Seq(RowsOf(price)), at : [Cells -> Nat \cup {NoData}]]
           /\ AddCell(price, acc, cell).at = [acc.at EXCEPT ![cell] = Len(acc.rows) + 1]
           /\ Len(AddCell(price, acc, cell).rows) =
                Len(acc.rows) + IF HasItinerary(cell) THEN 2 ELSE 1
           /\ \A i \in 1..Len(acc.rows) : AddCell(price, acc, cell).rows[i] = acc.rows[i]
           /\ AddCell(price, acc, cell).rows[Len(acc.rows) + 1] = CalendarRow(price, cell)
           /\ HasItinerary(cell) =>
                AddCell(price, acc, cell).rows[Len(acc.rows) + 2] = ItineraryRow(price, cell)
<1> DEFINE R == RowsOf(price)
           a == CalendarRow(price, cell)
           b == ItineraryRow(price, cell)
           n == Len(acc.rows)
           one == Append(acc.rows, a)
           two == Append(one, b)
<1>1. a \in R /\ b \in R /\ acc.rows \in Seq(R) /\ acc.at \in [Cells -> Nat \cup {NoData}]
  BY DEF RowsOf
<1>2. /\ AddCell(price, acc, cell).rows = IF HasItinerary(cell) THEN two ELSE one
      /\ AddCell(price, acc, cell).at = [acc.at EXCEPT ![cell] = Len(one)]
      /\ AddCell(price, acc, cell) = [rows |-> AddCell(price, acc, cell).rows,
                                      at |-> AddCell(price, acc, cell).at]
  BY DEF AddCell
<1> HIDE DEF R, a, b
<1>3. /\ n \in Nat /\ one \in Seq(R) /\ Len(one) = n + 1 /\ one[n + 1] = a
      /\ \A i \in 1..n : one[i] = acc.rows[i]
  BY <1>1
<1> HIDE DEF one
<1>4. /\ two \in Seq(R) /\ Len(two) = n + 2 /\ two[n + 2] = b
      /\ \A i \in 1..(n + 1) : two[i] = one[i]
  BY <1>1, <1>3
<1> HIDE DEF two, n
<1>5. AddCell(price, acc, cell).at \in [Cells -> Nat \cup {NoData}]
  BY <1>1, <1>2, <1>3
<1>6. CASE HasItinerary(cell)
  BY <1>1, <1>2, <1>3, <1>4, <1>5, <1>6 DEF R, a, b, n
<1>7. CASE ~ HasItinerary(cell)
  BY <1>1, <1>2, <1>3, <1>4, <1>5, <1>7 DEF R, a, b, n
<1> QED BY <1>6, <1>7

LEMMA AddCellIs ==
    ASSUME NEW price, NEW done \in SUBSET Cells, NEW acc, IsLaid(price, acc, done),
           NEW cell \in Cells \ done
    PROVE  IsLaid(price, AddCell(price, acc, cell), done \cup {cell})
<1> DEFINE new == AddCell(price, acc, cell)
           n == Len(acc.rows)
           A == [rows : Seq(RowsOf(price)), at : [Cells -> Nat \cup {NoData}]]
<1>1. acc \in A /\ n \in Nat
  BY DEF IsLaid
<1>2. /\ new \in A
      /\ new.at = [acc.at EXCEPT ![cell] = n + 1]
      /\ Len(new.rows) = n + IF HasItinerary(cell) THEN 2 ELSE 1
      /\ \A i \in 1..n : new.rows[i] = acc.rows[i]
      /\ new.rows[n + 1] = CalendarRow(price, cell)
      /\ HasItinerary(cell) => new.rows[n + 2] = ItineraryRow(price, cell)
  BY <1>1, AddCellType
<1> HIDE DEF new, n
<1>3. acc.at \in [Cells -> Nat \cup {NoData}]
  BY <1>1
<1> HIDE DEF A
<1>4. /\ new.at[cell] = n + 1
      /\ \A c \in done : new.at[c] = acc.at[c]
  BY <1>2, <1>3
<1>5. ASSUME NEW c \in done PROVE Placed(price, new, c)
  <2>1. Placed(price, acc, c)
    BY DEF IsLaid
  <2>2. /\ acc.at[c] \in 1..n /\ acc.rows[acc.at[c]] = CalendarRow(price, c)
        /\ HasItinerary(c) => /\ acc.at[c] + 1 \in 1..n
                              /\ acc.rows[acc.at[c] + 1] = ItineraryRow(price, c)
    BY <2>1 DEF Placed, n
  <2>3. \A i \in 1..n : i \in 1..Len(new.rows)
    BY <1>1, <1>2
  <2> QED BY <2>2, <2>3, <1>2, <1>4 DEF Placed
<1>6. Placed(price, new, cell)
  BY <1>1, <1>2, <1>4 DEF Placed
<1>7. ASSUME NEW i \in 1..Len(new.rows)
      PROVE  \E c \in done \cup {cell} : i = new.at[c] \/ (HasItinerary(c) /\ i = new.at[c] + 1)
  <2>1. CASE i <= n
    <3>1. i \in 1..Len(acc.rows)
      BY <1>1, <1>2, <2>1 DEF n
    <3>2. PICK c \in done : i = acc.at[c] \/ (HasItinerary(c) /\ i = acc.at[c] + 1)
      BY <3>1 DEF IsLaid
    <3> QED BY <3>2, <1>4
  <2>2. CASE i > n
    <3>1. i = n + 1 \/ (HasItinerary(cell) /\ i = (n + 1) + 1)
      BY <1>1, <1>2, <2>2
    <3> QED BY <3>1, <1>4
  <2> QED BY <2>1, <2>2, <1>1, <1>2
<1>8. Len(new.rows) = Cardinality(done \cup {cell})
                      + Cardinality({c \in done \cup {cell} : HasItinerary(c)})
  <2> DEFINE due == {c \in done : HasItinerary(c)}
  <2>1. /\ IsFiniteSet(done) /\ Cardinality(done) \in Nat
        /\ IsFiniteSet(due) /\ Cardinality(due) \in Nat
    <3>1. IsFiniteSet(done)
      BY CellsAreFinite, FS_Subset
    <3>2. due \subseteq done
      OBVIOUS
    <3> HIDE DEF due
    <3> QED BY <3>1, <3>2, FS_Subset, FS_CardinalityType
  <2>2. Cardinality(done \cup {cell}) = Cardinality(done) + 1
    BY <2>1, FS_AddElement
  <2>3. n = Cardinality(done) + Cardinality(due)
    BY DEF IsLaid, n
  <2>4. CASE HasItinerary(cell)
    <3>1. {c \in done \cup {cell} : HasItinerary(c)} = due \cup {cell} /\ cell \notin due
      BY <2>4
    <3> HIDE DEF due
    <3>2. Cardinality(due \cup {cell}) = Cardinality(due) + 1
      BY <2>1, <3>1, FS_AddElement
    <3>3. Len(new.rows) = n + 2
      BY <1>2, <2>4
    <3>4. Cardinality({c \in done \cup {cell} : HasItinerary(c)}) = Cardinality(due) + 1
      BY <3>1, <3>2
    <3> QED BY <2>1, <2>2, <2>3, <3>3, <3>4
  <2>5. CASE ~ HasItinerary(cell)
    <3>1. {c \in done \cup {cell} : HasItinerary(c)} = due
      BY <2>5
    <3> HIDE DEF due
    <3>2. Len(new.rows) = n + 1
      BY <1>2, <2>5
    <3>3. Cardinality({c \in done \cup {cell} : HasItinerary(c)}) = Cardinality(due)
      BY <3>1
    <3> QED BY <2>1, <2>2, <2>3, <3>2, <3>3
  <2> QED BY <2>4, <2>5
<1> QED BY <1>2, <1>5, <1>6, <1>7, <1>8 DEF IsLaid, new, A

LEMMA LaidIs ==
    ASSUME NEW price
    PROVE  IsLaid(price, Laid(price), Cells)
<1> DEFINE N == Cardinality(Cells)
           V == [rows : Seq(RowsOf(price)), at : [Cells -> Nat \cup {NoData}]]
           base == [rows |-> << >>, at |-> [cell \in Cells |-> NoData]]
           op == [p \in (1..N) \X V |-> AddCell(price, p[2], CellsInOrder[p[1]])]
           Turns(f) == [n \in 0..N |-> IF n = 0 THEN base
                                       ELSE AddCell(price, f[n - 1], CellsInOrder[n])]
           laid == CHOOSE f : f = Turns(f)
           Done(n) == {CellsInOrder[m] : m \in 1..n}
<1>1. N \in Nat
  BY CellsAreFinite
<1>2. /\ CellsInOrder \in [1..N -> Cells]
      /\ \A i, j \in 1..N : i < j => CellsInOrder[i] # CellsInOrder[j]
      /\ \A c \in Cells : \E i \in 1..N : CellsInOrder[i] = c
  <2> DEFINE R == {p \in Cells \X Cells : CellBefore(p[1], p[2])}
  <2>1. CellsInOrder = InOrder(Cells, R)
    BY DEF CellsInOrder
  <2>2. IsOrder(Cells, R)
    BY CellsAreOrdered
  <2> HIDE DEF R
  <2>3. /\ CellsInOrder \in [1..N -> Cells]
        /\ \A i, j \in 1..N : i < j => <<CellsInOrder[i], CellsInOrder[j]>> \in R
        /\ \A c \in Cells : \E i \in 1..N : CellsInOrder[i] = c
    BY <2>1, <2>2, CellsAreFinite, InOrderIs
  <2> HIDE DEF N
  <2>4. ASSUME NEW i \in 1..N, NEW j \in 1..N, i < j PROVE CellsInOrder[i] # CellsInOrder[j]
    BY <2>2, <2>3, <2>4 DEF IsOrder
  <2> QED BY <2>3, <2>4
<1> HIDE DEF N
<1>3. \E g : GoesBy(op, base, N, V, g)
  <2>1. base \in V
    OBVIOUS
  <2>2. ASSUME NEW n \in 1..N, NEW v \in V PROVE op[<<n, v>>] \in V
    <3>1. op[<<n, v>>] = AddCell(price, v, CellsInOrder[n])
      <4> HIDE DEF V
      <4> QED OBVIOUS
    <3>2. AddCell(price, v, CellsInOrder[n]) \in V
      BY <1>2, AddCellType
    <3> QED BY <3>1, <3>2
  <2> HIDE DEF V, base, op
  <2> QED BY <2>1, <2>2, <1>1, StepsExist
<1>4. PICK g : GoesBy(op, base, N, V, g)
  BY <1>3
<1>5. g = Turns(g)
  <2> HIDE DEF V, base
  <2>1. ASSUME NEW n \in 0..N, n # 0
        PROVE  op[<<n, g[n - 1]>>] = AddCell(price, g[n - 1], CellsInOrder[n])
    <3>1. n \in 1..N /\ n - 1 \in 0..N
      BY <1>1, <2>1
    <3>2. g[n - 1] \in V
      BY <3>1, <1>4 DEF GoesBy
    <3> QED BY <3>1, <3>2
  <2> HIDE DEF op
  <2> QED BY <2>1, <1>4 DEF GoesBy
<1>6. laid = Turns(laid)
  <2> HIDE DEF Turns
  <2> QED BY <1>5
<1>7. Laid(price) = laid[N]
  BY DEF Laid, N
<1> HIDE DEF laid
<1>8. laid[0] = base /\ \A n \in 1..N : laid[n] = AddCell(price, laid[n - 1], CellsInOrder[n])
  <2> HIDE DEF base
  <2> QED BY <1>1, <1>6
<1> HIDE DEF Turns
<1> DEFINE good == {n \in Nat : n <= N => IsLaid(price, laid[n], Done(n))}
<1>9. 0 \in good
  <2>1. Done(0) = {}
    OBVIOUS
  <2>2. IsLaid(price, base, {})
    BY FS_EmptySet DEF IsLaid
  <2> HIDE DEF Done, base
  <2> QED BY <2>1, <2>2, <1>8
<1>10. ASSUME NEW n \in Nat, n \in good PROVE n + 1 \in good
  <2> SUFFICES ASSUME n + 1 <= N PROVE IsLaid(price, laid[n + 1], Done(n + 1))
    OBVIOUS
  <2> DEFINE cell == CellsInOrder[n + 1]
  <2>1. n + 1 \in 1..N /\ (n + 1) - 1 = n /\ n <= N
    BY <1>1
  <2>2. laid[n + 1] = AddCell(price, laid[n], cell)
    BY <1>8, <2>1
  <2>3. Done(n + 1) = Done(n) \cup {cell}
    <3>1. 1..(n + 1) = (1..n) \cup {n + 1}
      OBVIOUS
    <3> QED BY <3>1
  <2>4. Done(n) \in SUBSET Cells
    BY <1>1, <1>2, <2>1
  <2>5. cell \in Cells \ Done(n)
    BY <1>1, <1>2, <2>1
  <2>6. IsLaid(price, laid[n], Done(n))
    BY <1>10, <2>1
  <2> HIDE DEF cell, Done
  <2> QED BY <2>2, <2>3, <2>4, <2>5, <2>6, AddCellIs
<1>11. IsLaid(price, laid[N], Done(N))
  <2>1. good \in SUBSET Nat
    OBVIOUS
  <2>2. N \in good
    <3> HIDE DEF good
    <3> QED BY <2>1, <1>1, <1>9, <1>10, UpTo
  <2> QED BY <2>2, <1>1
<1>12. Done(N) = Cells
  BY <1>2
<1> QED BY <1>7, <1>11, <1>12

ErrorCells == {ErrorFareCells[n] : n \in 1..Len(ErrorFareCells)}

(* The calendar row of a cell when some have been overwritten. *)
FaredRow(price, cell, done) ==
    FixtureRow(cell, "travelpayouts", "calendar_cheapest",
               IF cell \in done THEN ErrorFare(price, cell) ELSE price.calendar[cell])

(* What a row may be. *)
AnyRow(price) ==
    [route : FixtureRoutes, source : {"travelpayouts", "fastflights"},
     kind : {"calendar_cheapest", "itinerary"}, day : FetchedDays, depart : Nat,
     amount : {row.amount : row \in RowsOf(price)} \cup {ErrorFare(price, c) : c \in Cells}]

IsFared(price, laid, rows, done) ==
    /\ rows \in [1..Len(laid.rows) -> AnyRow(price)]
    /\ \A c \in Cells :
         /\ rows[laid.at[c]] = FaredRow(price, c, done)
         /\ HasItinerary(c) => rows[laid.at[c] + 1] = ItineraryRow(price, c)

LEMMA KeysDiffer ==
    ASSUME NEW price, NEW c \in Cells, NEW d \in Cells, NEW A, NEW B
    PROVE  /\ FaredRow(price, c, A) # ItineraryRow(price, d)
           /\ CalendarRow(price, c) # ItineraryRow(price, d)
           /\ CalendarRow(price, c) = CalendarRow(price, d) => c = d
<1>1. /\ FaredRow(price, c, A).kind = "calendar_cheapest"
      /\ CalendarRow(price, c).kind = "calendar_cheapest"
      /\ ItineraryRow(price, d).kind = "itinerary"
  BY DEF FaredRow, CalendarRow, ItineraryRow, FixtureRow
<1>2. ASSUME CalendarRow(price, c) = CalendarRow(price, d) PROVE c = d
  <2>1. /\ c = <<c[1], c[2], c[3]>> /\ d = <<d[1], d[2], d[3]>>
        /\ c[2] \in Nat /\ c[3] \in Nat /\ d[3] \in Nat
    BY CellIs
  <2>2. \A e \in Cells : /\ CalendarRow(price, e).route = e[1] /\ CalendarRow(price, e).day = e[2]
                         /\ CalendarRow(price, e).depart = e[2] + e[3]
    BY DEF CalendarRow, FixtureRow
  <2>3. c[1] = d[1] /\ c[2] = d[2] /\ c[2] + c[3] = d[2] + d[3]
    BY <1>2, <2>2
  <2>4. c[3] = d[3]
    BY <2>1, <2>3
  <2> QED BY <2>1, <2>3, <2>4
<1> QED BY <1>1, <1>2

(* The rows of two cells lie apart. *)
LEMMA PlacesDiffer ==
    ASSUME NEW price, NEW laid, IsLaid(price, laid, Cells), NEW c \in Cells, NEW d \in Cells
    PROVE  /\ laid.at[c] \in 1..Len(laid.rows) /\ Len(laid.rows) \in Nat
           /\ HasItinerary(c) => laid.at[c] + 1 \in 1..Len(laid.rows)
           /\ laid.at[c] = laid.at[d] => c = d
           /\ HasItinerary(c) => laid.at[c] + 1 # laid.at[d]
<1>1. Placed(price, laid, c) /\ Placed(price, laid, d) /\ Len(laid.rows) \in Nat
  BY DEF IsLaid
<1> QED BY <1>1, KeysDiffer DEF Placed

LEMMA RowsAreTyped ==
    ASSUME NEW price
    PROVE  RowsOf(price) \subseteq AnyRow(price)
<1>1. ASSUME NEW c \in Cells
      PROVE  /\ c[1] \in FixtureRoutes /\ c[2] \in FetchedDays /\ c[2] + c[3] \in Nat
  <2>1. c[2] \in Nat /\ c[3] \in Nat
    BY CellIs
  <2> QED BY <2>1 DEF Cells
<1>2. ASSUME NEW c \in Cells PROVE CalendarRow(price, c) \in AnyRow(price)
  <2>1. CalendarRow(price, c).amount \in {row.amount : row \in RowsOf(price)}
    BY DEF RowsOf
  <2>2. CalendarRow(price, c).amount = price.calendar[c]
    BY DEF CalendarRow, FixtureRow
  <2> QED BY <1>1, <2>1, <2>2 DEF AnyRow, CalendarRow, FixtureRow
<1>3. ASSUME NEW c \in Cells PROVE ItineraryRow(price, c) \in AnyRow(price)
  <2>1. ItineraryRow(price, c).amount \in {row.amount : row \in RowsOf(price)}
    BY DEF RowsOf
  <2>2. ItineraryRow(price, c).amount = price.itinerary[c]
    BY DEF ItineraryRow, FixtureRow
  <2> QED BY <1>1, <2>1, <2>2 DEF AnyRow, ItineraryRow, FixtureRow
<1> QED BY <1>2, <1>3 DEF RowsOf

LEMMA OverwriteIs ==
    ASSUME NEW price, NEW laid, IsLaid(price, laid, Cells), NEW cell \in Cells,
           NEW rows \in [1..Len(laid.rows) -> AnyRow(price)]
    PROVE  [rows EXCEPT ![laid.at[cell]].amount = ErrorFare(price, cell)]
             \in [1..Len(laid.rows) -> AnyRow(price)]
<1> DEFINE e == ErrorFare(price, cell)
           i == laid.at[cell]
           amounts == {row.amount : row \in RowsOf(price)} \cup {ErrorFare(price, c) : c \in Cells}
<1>1. i \in 1..Len(laid.rows)
  BY PlacesDiffer
<1>2. e \in amounts
  OBVIOUS
<1>3. AnyRow(price) = [route : FixtureRoutes, source : {"travelpayouts", "fastflights"},
                       kind : {"calendar_cheapest", "itinerary"}, day : FetchedDays, depart : Nat,
                       amount : amounts]
  BY DEF AnyRow
<1> HIDE DEF e, amounts
<1>4. [rows[i] EXCEPT !.amount = e] \in AnyRow(price)
  BY <1>1, <1>2, <1>3
<1> QED BY <1>1, <1>4 DEF e

LEMMA OverwriteKeeps ==
    ASSUME NEW price, NEW laid, IsLaid(price, laid, Cells), NEW cell \in Cells,
           NEW rows, NEW done, IsFared(price, laid, rows, done)
    PROVE  IsFared(price, laid, [rows EXCEPT ![laid.at[cell]].amount = ErrorFare(price, cell)],
                   done \cup {cell})
<1> DEFINE e == ErrorFare(price, cell)
           i == laid.at[cell]
           new == [rows EXCEPT ![i].amount = e]
<1>1. rows \in [1..Len(laid.rows) -> AnyRow(price)] /\ i \in 1..Len(laid.rows)
  BY PlacesDiffer DEF IsFared
<1>2. new \in [1..Len(laid.rows) -> AnyRow(price)]
  BY <1>1, OverwriteIs
<1>3. new[i] = [rows[i] EXCEPT !.amount = e] /\ \A j \in 1..Len(laid.rows) : j # i => new[j] = rows[j]
  BY <1>1
<1> HIDE DEF new
<1>4. ASSUME NEW c \in Cells PROVE new[laid.at[c]] = FaredRow(price, c, done \cup {cell})
  <2>1. CASE c = cell
    <3>1. rows[i] = FaredRow(price, cell, done)
      BY DEF IsFared
    <3> QED BY <2>1, <3>1, <1>3 DEF FaredRow, FixtureRow
  <2>2. CASE c # cell
    <3>1. laid.at[c] # i /\ laid.at[c] \in 1..Len(laid.rows)
      BY <2>2, PlacesDiffer
    <3>2. rows[laid.at[c]] = FaredRow(price, c, done)
      BY DEF IsFared
    <3> QED BY <2>2, <3>1, <3>2, <1>3 DEF FaredRow
  <2> QED BY <2>1, <2>2
<1>5. ASSUME NEW c \in Cells, HasItinerary(c) PROVE new[laid.at[c] + 1] = ItineraryRow(price, c)
  <2>1. laid.at[c] + 1 # i /\ laid.at[c] + 1 \in 1..Len(laid.rows)
    BY <1>5, PlacesDiffer
  <2>2. rows[laid.at[c] + 1] = ItineraryRow(price, c)
    BY <1>5 DEF IsFared
  <2> QED BY <2>1, <2>2, <1>3
<1> QED BY <1>2, <1>4, <1>5 DEF IsFared, new

LEMMA FaresAre ==
    ASSUME NEW price, NEW laid, IsLaid(price, laid, Cells)
    PROVE  IsFared(price, laid, WithErrorFares(price, laid), ErrorCells)
<1> DEFINE N == Len(ErrorFareCells)
           V == [1..Len(laid.rows) -> AnyRow(price)]
           Over(rows, cell) == [rows EXCEPT ![laid.at[cell]].amount = ErrorFare(price, cell)]
           op == [p \in (1..N) \X V |-> Over(p[2], ErrorFareCells[p[1]])]
           Turns(f) == [n \in 0..N |-> IF n = 0 THEN laid.rows
                                       ELSE Over(f[n - 1], ErrorFareCells[n])]
           rows == CHOOSE f : f = Turns(f)
           Done(n) == {ErrorFareCells[m] : m \in 1..n}
<1>1. N \in Nat /\ \A n \in 1..N : ErrorFareCells[n] \in Cells
  BY FixtureAssumption DEF Cells
<1>2. laid.rows \in V
  <2>1. laid.rows \in Seq(RowsOf(price)) /\ RowsOf(price) \subseteq AnyRow(price)
    BY RowsAreTyped DEF IsLaid
  <2> QED BY <2>1
<1>3. WithErrorFares(price, laid) = rows[N]
  BY DEF WithErrorFares
<1> HIDE DEF N
<1>4. \A cell \in Cells : \A v \in V : Over(v, cell) \in V
  BY OverwriteIs
<1>5. ASSUME NEW v, NEW done, NEW cell \in Cells, IsFared(price, laid, v, done)
      PROVE  IsFared(price, laid, Over(v, cell), done \cup {cell})
  BY <1>5, OverwriteKeeps
<1>6. IsFared(price, laid, laid.rows, {})
  <2>1. \A c \in Cells : CalendarRow(price, c) = FaredRow(price, c, {})
    BY DEF CalendarRow, FaredRow
  <2> QED BY <1>2, <2>1 DEF IsFared, IsLaid, Placed
<1> HIDE DEF Over
<1>7. \E g : GoesBy(op, laid.rows, N, V, g)
  <2>1. ASSUME NEW n \in 1..N, NEW v \in V PROVE op[<<n, v>>] \in V
    <3> HIDE DEF V
    <3>1. op[<<n, v>>] = Over(v, ErrorFareCells[n])
      OBVIOUS
    <3> QED BY <3>1, <1>1, <1>4
  <2> HIDE DEF V, op
  <2> QED BY <2>1, <1>1, <1>2, StepsExist
<1>8. PICK g : GoesBy(op, laid.rows, N, V, g)
  BY <1>7
<1>9. g = Turns(g)
  <2> HIDE DEF V
  <2>1. ASSUME NEW n \in 0..N, n # 0 PROVE op[<<n, g[n - 1]>>] = Over(g[n - 1], ErrorFareCells[n])
    <3>1. n \in 1..N /\ n - 1 \in 0..N
      BY <1>1, <2>1
    <3>2. g[n - 1] \in V
      BY <3>1, <1>8 DEF GoesBy
    <3> QED BY <3>1, <3>2
  <2> HIDE DEF op
  <2> QED BY <2>1, <1>8 DEF GoesBy
<1>10. rows = Turns(rows)
  <2> HIDE DEF Turns
  <2> QED BY <1>9
<1> HIDE DEF rows
<1>11. rows[0] = laid.rows /\ \A n \in 1..N : rows[n] = Over(rows[n - 1], ErrorFareCells[n])
  BY <1>1, <1>10
<1> HIDE DEF Turns, V
<1> DEFINE good == {n \in Nat : n <= N => IsFared(price, laid, rows[n], Done(n))}
<1>12. 0 \in good
  <2>1. Done(0) = {}
    OBVIOUS
  <2> HIDE DEF Done
  <2> QED BY <2>1, <1>6, <1>11
<1>13. ASSUME NEW n \in Nat, n \in good PROVE n + 1 \in good
  <2> SUFFICES ASSUME n + 1 <= N PROVE IsFared(price, laid, rows[n + 1], Done(n + 1))
    OBVIOUS
  <2>1. n + 1 \in 1..N /\ (n + 1) - 1 = n /\ n <= N
    BY <1>1
  <2>2. rows[n + 1] = Over(rows[n], ErrorFareCells[n + 1])
    BY <1>11, <2>1
  <2>3. Done(n + 1) = Done(n) \cup {ErrorFareCells[n + 1]}
    <3>1. 1..(n + 1) = (1..n) \cup {n + 1}
      OBVIOUS
    <3> QED BY <3>1
  <2>4. IsFared(price, laid, rows[n], Done(n))
    BY <1>13, <2>1
  <2> HIDE DEF Done
  <2> QED BY <2>1, <2>2, <2>3, <2>4, <1>1, <1>5
<1>14. IsFared(price, laid, rows[N], Done(N))
  <2>1. good \in SUBSET Nat
    OBVIOUS
  <2>2. N \in good
    <3> HIDE DEF good
    <3> QED BY <2>1, <1>1, <1>12, <1>13, UpTo
  <2> QED BY <2>2, <1>1
<1> QED BY <1>3, <1>14 DEF ErrorCells, N

(* A row's place in the order: two rows with different ones are ordered. *)
SamePlace(a, b) == a.route = b.route /\ a.kind = b.kind /\ a.day = b.day /\ a.depart = b.depart

PlacesAreDistinct(rows) == \A i, j \in DOMAIN rows : SamePlace(rows[i], rows[j]) => i = j

(* The rows of the dataset. *)
GridRows(price) ==
    {FaredRow(price, c, ErrorCells) : c \in Cells}
      \cup {ItineraryRow(price, c) : c \in {d \in Cells : HasItinerary(d)}}

LEMMA RowsAreOrdered ==
    ASSUME NEW price, NEW a \in AnyRow(price), NEW b \in AnyRow(price), NEW c \in AnyRow(price)
    PROVE  /\ ~ RowBefore(a, a)
           /\ RowBefore(a, b) /\ RowBefore(b, c) => RowBefore(a, c)
           /\ RowBefore(a, b) \/ RowBefore(b, a) \/ SamePlace(a, b)
<1>1. \A x \in AnyRow(price) : /\ x.route \in Nat /\ x.day \in Nat /\ x.depart \in Nat
                               /\ x.kind \in {"calendar_cheapest", "itinerary"}
  BY FixtureAssumption DEF AnyRow
<1>2. \A x \in {a, b, c} : /\ x.route \in Nat /\ x.day \in Nat /\ x.depart \in Nat
                           /\ x.kind \in {"calendar_cheapest", "itinerary"}
  BY <1>1
<1> QED BY <1>2 DEF RowBefore, SamePlace

(* Sorting rows that all have places of their own. *)
LEMMA SortRowsIs ==
    ASSUME NEW price, NEW L \in Nat, NEW rows \in [1..L -> AnyRow(price)],
           PlacesAreDistinct(rows)
    PROVE  /\ DOMAIN SortRows(rows) = 1..L
           /\ InPinnedOrder(SortRows(rows))
           /\ RowsIn(SortRows(rows)) = RowsIn(rows)
<1> DEFINE D == DOMAIN rows
           R == {p \in D \X D : \/ RowBefore(rows[p[1]], rows[p[2]])
                                \/ p[1] < p[2] /\ ~RowBefore(rows[p[2]], rows[p[1]])}
           place == InOrder(D, R)
<1>1. D = 1..L /\ IsFiniteSet(D) /\ Cardinality(D) = L
  <2>1. D = 1..L
    OBVIOUS
  <2>2. IsFiniteSet(1..L) /\ Cardinality(1..L) = L
    BY FS_Interval
  <2> QED BY <2>1, <2>2
<1>2. SortRows(rows) = [n \in D |-> rows[place[n]]]
  BY Zenon DEF SortRows
<1> HIDE DEF D
<1>3. \A i, j \in D : <<i, j>> \in R <=> \/ RowBefore(rows[i], rows[j])
                                         \/ i < j /\ ~RowBefore(rows[j], rows[i])
  OBVIOUS
<1> HIDE DEF R
<1>4. \A i, j \in D : i = j \/ RowBefore(rows[i], rows[j]) \/ RowBefore(rows[j], rows[i])
  BY <1>1, RowsAreOrdered DEF PlacesAreDistinct
<1>5. \A i \in D : ~ RowBefore(rows[i], rows[i])
  BY <1>1, RowsAreOrdered
<1>6. \A i, j, k \in D : RowBefore(rows[i], rows[j]) /\ RowBefore(rows[j], rows[k])
                           => RowBefore(rows[i], rows[k])
  BY <1>1, RowsAreOrdered
<1>7. \A i, j \in D : <<i, j>> \in R <=> RowBefore(rows[i], rows[j])
  <2> TAKE i, j \in D
  <2>1. CASE i = j
    BY <2>1, <1>1, <1>3, <1>5
  <2>2. CASE i # j
    BY <2>2, <1>3, <1>4
  <2> QED BY <2>1, <2>2
<1>8. IsOrder(D, R)
  BY <1>4, <1>5, <1>6, <1>7 DEF IsOrder
<1>9. /\ place \in [1..L -> D]
      /\ \A i, j \in 1..L : i < j => <<place[i], place[j]>> \in R
      /\ \A x \in D : \E i \in 1..L : place[i] = x
  <2> HIDE DEF place
  <2>1. /\ place \in [1..Cardinality(D) -> D]
        /\ \A i, j \in 1..Cardinality(D) : i < j => <<place[i], place[j]>> \in R
        /\ \A x \in D : \E i \in 1..Cardinality(D) : place[i] = x
    BY <1>1, <1>8, InOrderIs DEF place
  <2> QED BY <1>1, <2>1
<1> HIDE DEF place
<1>10. \A i \in 1..L : SortRows(rows)[i] = rows[place[i]] /\ place[i] \in 1..L
  BY <1>1, <1>2, <1>9
<1>11. DOMAIN SortRows(rows) = 1..L /\ DOMAIN rows = 1..L
  BY <1>1, <1>2
<1>12. InPinnedOrder(SortRows(rows))
  <2> SUFFICES ASSUME NEW i \in 1..L, NEW j \in 1..L, i < j
               PROVE  RowBefore(SortRows(rows)[i], SortRows(rows)[j])
    BY <1>11 DEF InPinnedOrder
  <2>1. place[i] \in D /\ place[j] \in D /\ <<place[i], place[j]>> \in R
    BY <1>9
  <2> QED BY <2>1, <1>7, <1>10
<1>13. ASSUME NEW row \in RowsIn(rows) PROVE row \in RowsIn(SortRows(rows))
  <2>1. PICK x \in 1..L : row = rows[x]
    BY <1>11 DEF RowsIn
  <2>2. PICK i \in 1..L : place[i] = x
    BY <2>1, <1>1, <1>9
  <2>3. row = SortRows(rows)[i]
    BY <2>1, <2>2, <1>10
  <2> QED BY <2>3, <1>11 DEF RowsIn
<1>14. ASSUME NEW row \in RowsIn(SortRows(rows)) PROVE row \in RowsIn(rows)
  <2>1. PICK i \in 1..L : row = SortRows(rows)[i]
    BY <1>11 DEF RowsIn
  <2> QED BY <2>1, <1>10, <1>11 DEF RowsIn
<1> QED BY <1>11, <1>12, <1>13, <1>14

(* Every cell has its rows, and every row its cell. *)
LEMMA FaredRowsAre ==
    ASSUME NEW price, NEW laid, IsLaid(price, laid, Cells), NEW rows,
           IsFared(price, laid, rows, ErrorCells)
    PROVE  PlacesAreDistinct(rows) /\ RowsIn(rows) = GridRows(price)
<1> DEFINE L == Len(laid.rows)
           Calendar(i, c) == i = laid.at[c] /\ rows[i] = FaredRow(price, c, ErrorCells)
           Itinerary(i, c) == /\ HasItinerary(c) /\ i = laid.at[c] + 1
                              /\ rows[i] = ItineraryRow(price, c)
<1>1. \A i \in 1..L : \E c \in Cells : Calendar(i, c) \/ Itinerary(i, c)
  BY DEF IsLaid, IsFared
<1>2. \A c \in Cells : /\ laid.at[c] \in 1..L /\ Calendar(laid.at[c], c)
                       /\ HasItinerary(c) => /\ laid.at[c] + 1 \in 1..L
                                             /\ Itinerary(laid.at[c] + 1, c)
  BY PlacesDiffer DEF IsFared
<1>3. \A c \in Cells : /\ FaredRow(price, c, ErrorCells).route = c[1]
                       /\ FaredRow(price, c, ErrorCells).day = c[2]
                       /\ FaredRow(price, c, ErrorCells).depart = c[2] + c[3]
                       /\ FaredRow(price, c, ErrorCells).kind = "calendar_cheapest"
                       /\ ItineraryRow(price, c).route = c[1]
                       /\ ItineraryRow(price, c).day = c[2]
                       /\ ItineraryRow(price, c).depart = c[2] + c[3]
                       /\ ItineraryRow(price, c).kind = "itinerary"
  BY DEF FaredRow, ItineraryRow, FixtureRow
<1>4. ASSUME NEW i \in 1..L, NEW j \in 1..L, SamePlace(rows[i], rows[j]) PROVE i = j
  <2>1. PICK c \in Cells : Calendar(i, c) \/ Itinerary(i, c)
    BY <1>1
  <2>2. PICK d \in Cells : Calendar(j, d) \/ Itinerary(j, d)
    BY <1>1
  <2>3. /\ rows[i].route = c[1] /\ rows[i].day = c[2] /\ rows[i].depart = c[2] + c[3]
        /\ rows[j].route = d[1] /\ rows[j].day = d[2] /\ rows[j].depart = d[2] + d[3]
    BY <2>1, <2>2, <1>3
  <2>4. c = d
    <3>1. /\ c = <<c[1], c[2], c[3]>> /\ d = <<d[1], d[2], d[3]>>
          /\ c[2] \in Nat /\ c[3] \in Nat /\ d[3] \in Nat
      BY CellIs
    <3>2. c[1] = d[1] /\ c[2] = d[2] /\ c[2] + c[3] = d[2] + d[3]
      BY <2>3, <1>4 DEF SamePlace
    <3>3. c[3] = d[3]
      BY <3>1, <3>2
    <3> QED BY <3>1, <3>2, <3>3
  <2>5. Calendar(i, c) <=> Calendar(j, d)
    <3>1. rows[i].kind = rows[j].kind
      BY <1>4 DEF SamePlace
    <3>2. /\ Calendar(i, c) <=> rows[i].kind = "calendar_cheapest"
          /\ Calendar(j, d) <=> rows[j].kind = "calendar_cheapest"
      BY <2>1, <2>2, <1>3
    <3> QED BY <3>1, <3>2
  <2> QED BY <2>1, <2>2, <2>4, <2>5
<1>5. DOMAIN rows = 1..L
  BY DEF IsFared
<1>6. PlacesAreDistinct(rows)
  BY <1>4, <1>5 DEF PlacesAreDistinct
<1>7. \A i \in 1..L : rows[i] \in GridRows(price)
  BY <1>1 DEF GridRows
<1>8. \A c \in Cells : FaredRow(price, c, ErrorCells) \in RowsIn(rows)
  BY <1>2, <1>5 DEF RowsIn
<1>9. \A c \in Cells : HasItinerary(c) => ItineraryRow(price, c) \in RowsIn(rows)
  BY <1>2, <1>5 DEF RowsIn
<1>10. GridRows(price) \subseteq RowsIn(rows)
  BY <1>8, <1>9 DEF GridRows
<1>11. RowsIn(rows) \subseteq GridRows(price)
  BY <1>5, <1>7 DEF RowsIn
<1> QED BY <1>6, <1>10, <1>11

LEMMA DatasetRowsAre ==
    ASSUME NEW price
    PROVE  /\ DOMAIN Dataset(price) =
                1..(Cardinality(Cells) + Cardinality({c \in Cells : HasItinerary(c)}))
           /\ InPinnedOrder(Dataset(price))
           /\ RowsIn(Dataset(price)) = GridRows(price)
<1> DEFINE laid == Laid(price)
           rows == WithErrorFares(price, laid)
           L == Len(laid.rows)
<1>1. IsLaid(price, laid, Cells)
  BY LaidIs
<1>2. IsFared(price, laid, rows, ErrorCells)
  BY <1>1, FaresAre
<1>3. Dataset(price) = SortRows(rows)
  BY DEF Dataset
<1> HIDE DEF laid, rows
<1>4. /\ rows \in [1..L -> AnyRow(price)] /\ L \in Nat
      /\ L = Cardinality(Cells) + Cardinality({c \in Cells : HasItinerary(c)})
  BY <1>1, <1>2 DEF IsLaid, IsFared
<1>5. PlacesAreDistinct(rows) /\ RowsIn(rows) = GridRows(price)
  BY <1>1, <1>2, FaredRowsAre
<1> HIDE DEF L
<1>6. /\ DOMAIN SortRows(rows) = 1..L /\ InPinnedOrder(SortRows(rows))
      /\ RowsIn(SortRows(rows)) = RowsIn(rows)
  BY <1>4, <1>5, SortRowsIs
<1> QED BY <1>3, <1>4, <1>5, <1>6

(* The generator's list of buckets is that of config/baseline.yaml, which the
   validator has admitted. *)
BucketsAreCopied ==
    /\ GeneratorBuckets = ModelBuckets /\ Tiles(ModelBuckets)
    /\ \E names : ModelBuckets \in Seq(NamedBuckets(names))

LEMMA BucketsAgree ==
    ASSUME BucketsAreCopied, NEW d \in DtdGrid
    PROVE  GeneratorBucket(d) = ApBucket(ModelBuckets, d)
<1>1. PICK names : ModelBuckets \in Seq(NamedBuckets(names))
  BY DEF BucketsAreCopied
<1>2. d \in Nat
  BY FixtureAssumption
<1> QED BY <1>1, <1>2, OneBucket DEF BucketsAreCopied, GeneratorBucket

LEMMA GridRowsAre ==
    ASSUME NEW price, NEW cell \in Cells, NEW rows, RowsIn(rows) = GridRows(price)
    PROVE  /\ AmountsFor(rows, cell, "itinerary") =
                IF HasItinerary(cell) THEN {price.itinerary[cell]} ELSE {}
           /\ AmountsFor(rows, cell, "calendar_cheapest") =
                {FaredRow(price, cell, ErrorCells).amount}
<1> DEFINE Is(row, kind) == /\ row.route = cell[1] /\ row.day = cell[2]
                            /\ row.depart = cell[2] + cell[3] /\ row.kind = kind
           found(kind) == {r \in RowsIn(rows) : Is(r, kind)}
           fared == FaredRow(price, cell, ErrorCells)
           itinerary == ItineraryRow(price, cell)
<1>1. \A c \in Cells : /\ FaredRow(price, c, ErrorCells).route = c[1]
                       /\ FaredRow(price, c, ErrorCells).day = c[2]
                       /\ FaredRow(price, c, ErrorCells).depart = c[2] + c[3]
                       /\ FaredRow(price, c, ErrorCells).kind = "calendar_cheapest"
                       /\ ItineraryRow(price, c).route = c[1]
                       /\ ItineraryRow(price, c).day = c[2]
                       /\ ItineraryRow(price, c).depart = c[2] + c[3]
                       /\ ItineraryRow(price, c).kind = "itinerary"
  BY DEF FaredRow, ItineraryRow, FixtureRow
<1>2. ASSUME NEW c \in Cells, c[1] = cell[1], c[2] = cell[2], c[2] + c[3] = cell[2] + cell[3]
      PROVE  c = cell
  <2>1. /\ c = <<c[1], c[2], c[3]>> /\ cell = <<cell[1], cell[2], cell[3]>>
        /\ c[2] \in Nat /\ c[3] \in Nat /\ cell[3] \in Nat
    BY CellIs
  <2>2. c[3] = cell[3]
    BY <2>1, <1>2
  <2> QED BY <2>1, <2>2, <1>2
<1>3. \A row \in GridRows(price) :
        \/ \E c \in Cells : row = FaredRow(price, c, ErrorCells)
        \/ \E c \in Cells : HasItinerary(c) /\ row = ItineraryRow(price, c)
  BY DEF GridRows
<1>4. /\ FaredRow(price, cell, ErrorCells) \in GridRows(price)
      /\ HasItinerary(cell) => ItineraryRow(price, cell) \in GridRows(price)
  BY DEF GridRows
<1>5. ASSUME NEW row \in GridRows(price)
      PROVE  /\ Is(row, "calendar_cheapest") => row = fared
             /\ Is(row, "itinerary") => HasItinerary(cell) /\ row = itinerary
  <2>1. CASE \E c \in Cells : row = FaredRow(price, c, ErrorCells)
    BY <2>1, <1>1, <1>2
  <2>2. CASE \E c \in Cells : HasItinerary(c) /\ row = ItineraryRow(price, c)
    BY <2>2, <1>1, <1>2
  <2> QED BY <2>1, <2>2, <1>3
<1>6. Is(fared, "calendar_cheapest") /\ Is(itinerary, "itinerary")
  BY <1>1
<1> HIDE DEF Is, fared, itinerary
<1>7. found("calendar_cheapest") = {fared}
  BY <1>4, <1>5, <1>6 DEF fared
<1>8. found("itinerary") = IF HasItinerary(cell) THEN {itinerary} ELSE {}
  BY <1>4, <1>5, <1>6 DEF itinerary
<1>9. \A kind : AmountsFor(rows, cell, kind) = {row.amount : row \in found(kind)}
  BY DEF AmountsFor, Is
<1>10. itinerary.amount = price.itinerary[cell]
  BY DEF itinerary, ItineraryRow, FixtureRow
<1> HIDE DEF found
<1> QED BY <1>7, <1>8, <1>9, <1>10 DEF fared

LEMMA PeersAre ==
    ASSUME BucketsAreCopied, NEW price, NEW cell \in Cells
    PROVE  BucketAmounts(price, cell[1], GeneratorBucket(cell[3]))
             = Peers(ModelBuckets, price, cell)
<1>1. \A c \in Cells : GeneratorBucket(c[3]) = ApBucket(ModelBuckets, c[3])
  <2> TAKE c \in Cells
  <2>1. c[3] \in DtdGrid
    BY DEF Cells
  <2> QED BY <2>1, BucketsAgree
<1>2. {c \in Cells : c[1] = cell[1] /\ GeneratorBucket(c[3]) = GeneratorBucket(cell[3])} =
      {d \in Cells : d[1] = cell[1] /\ ApBucket(ModelBuckets, d[3])
                                         = ApBucket(ModelBuckets, cell[3])}
  BY <1>1
<1> QED BY <1>2 DEF BucketAmounts, Peers

(* The committed dataset has one calendar row for every cell of the grid and
   its itinerary row where it is due, in the pinned order, with the amounts of
   the price model but for the error fares, each the fraction of the median of
   its bucket, for any grid, price model and list of error fares (generate,
   _inject_error_fares, sort_rows): no position kept while rows of two kinds
   are appended leads to the row of another cell. *)
THEOREM TheDatasetIsTheGrid ==
    ASSUME BucketsAreCopied
    PROVE  Spec => []CommittedDatasetIsTheGrid
<1>1. GenInv => CommittedDatasetIsTheGrid
  <2> SUFFICES ASSUME GenInv, files.parquet.state = "whole"
               PROVE  DatasetIsTheGrid(ModelBuckets)
    BY DEF CommittedDatasetIsTheGrid, DatasetIsTheGrid
  <2> DEFINE v == files.parquet.of
             price == Prices[v]
             rows == Contents[v].rows
             n == Cardinality(Cells) + Cardinality({c \in Cells : HasItinerary(c)})
  <2>1. v \in Versions
    <3>1. files.parquet \in FileStates
      BY DEF GenInv
    <3> QED BY <3>1 DEF FileStates, Absent, Torn, Whole
  <2>2. rows = Dataset(price)
    BY <2>1 DEF Contents
  <2>3. DOMAIN rows = 1..n /\ InPinnedOrder(rows) /\ RowsIn(rows) = GridRows(price)
    BY <2>2, DatasetRowsAre
  <2>4. {ErrorFareCells[i] : i \in DOMAIN ErrorFareCells} = ErrorCells
    <3>1. DOMAIN ErrorFareCells = 1..Len(ErrorFareCells)
      BY FixtureAssumption
    <3> QED BY <3>1 DEF ErrorCells
  <2> HIDE DEF rows, price, v
  <2>5. ASSUME NEW cell \in Cells
        PROVE  /\ AmountsFor(rows, cell, "itinerary") =
                    IF HasItinerary(cell) THEN {price.itinerary[cell]} ELSE {}
               /\ AmountsFor(rows, cell, "calendar_cheapest") =
                    {GridAmount(ModelBuckets, price, cell)}
    <3>1. ErrorFare(price, cell)
            = 100 * RoundHalfUp(22 * Median2(Peers(ModelBuckets, price, cell)), 20000)
      BY PeersAre DEF ErrorFare
    <3>2. FaredRow(price, cell, ErrorCells).amount = GridAmount(ModelBuckets, price, cell)
      BY <2>4, <3>1 DEF FaredRow, FixtureRow, GridAmount
    <3> QED BY <2>3, <3>2, GridRowsAre
  <2>6. Len(rows) = n
    <3> DEFINE due == {c \in Cells : HasItinerary(c)}
    <3>1. Cardinality(due) \in Nat
      <4>1. due \subseteq Cells
        OBVIOUS
      <4> HIDE DEF due
      <4> QED BY <4>1, CellsAreFinite, FS_Subset, FS_CardinalityType
    <3>2. n \in Nat
      BY <3>1, CellsAreFinite
    <3> HIDE DEF n
    <3> QED BY <3>2, <2>3
  <2> QED BY <2>3, <2>5, <2>6 DEF DatasetIsTheGrid, rows, price, v
<1> QED BY <1>1, RunsAreConsistent, PTL

=============================================================================
