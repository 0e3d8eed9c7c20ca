---------------------------- MODULE FixtureTools ----------------------------
(***************************************************************************)
(* The fixture directory and the scripts that work on it: the generator    *)
(* (scripts/gen_fixtures.py) replaces routes.csv, the Parquet file and     *)
(* README.md one after the other, its --check compares the Parquet file    *)
(* with what the code would generate, and the validator                    *)
(* (scripts/validate_fixtures.py) reads two of the files.  Each script is  *)
(* a process that works with the code it was started with; each open,      *)
(* close and read of a file is a step, and the generator may end between   *)
(* any two of them.  Opening a file for writing truncates it.              *)
(***************************************************************************)
EXTENDS FixtureData

CONSTANTS
    Versions,      \* versions of the repository's code
    Prices,        \* [Versions -> price models]
    SchemaOf,      \* [Versions -> pinned Arrow schemas]
    Accepted       \* [Versions -> the versions whose rows its validator accepts]

ASSUME VersionsAssumption ==
    /\ NoData \notin Versions
    /\ \A v \in Versions :
         /\ Prices[v].calendar \in [Cells -> Nat] /\ Prices[v].itinerary \in [Cells -> Nat]
         /\ v \in Accepted[v]

VARIABLES
    code,          \* the version checked out
    files,         \* the fixture directory
    quiet,         \* history variable: the readers ("tool", "run") under which
                   \* nothing they read has changed so far
    gen,           \* the generator: where it is, its version, its checksum
    lastRun,       \* history variable: how the last run of the generator ended
    tool           \* the check or the validator: where it is, and its exit

fileVars == <<code, files, quiet>>
toolVars == <<fileVars, gen, lastRun, tool>>

Absent == [state |-> "absent", of |-> NoData]
Torn == [state |-> "torn", of |-> NoData]
Whole(v) == [state |-> "whole", of |-> v]

Contents == [v \in Versions |-> [rows |-> Dataset(Prices[v]), schema |-> SchemaOf[v]]]

(* The bytes of a file: the writer is deterministic, so equal contents of one
   schema are equal files. *)
SameBytes(f, g) ==
    f.state = g.state /\ (f.state = "whole" => Contents[f.of] = Contents[g.of])

Put(name, file) ==
    /\ files' = [files EXCEPT ![name] = file]
    /\ quiet' = {}
    /\ UNCHANGED code

(* Somebody checks out other code; the fixture directory stays. *)
ChangeCode ==
    /\ \E v \in Versions \ {code} : code' = v
    /\ quiet' = {}
    /\ UNCHANGED <<files, gen, lastRun, tool>>

-----------------------------------------------------------------------------
(* write_dataset                                                           *)

GenIdle == [pc |-> "idle", of |-> NoData, sum |-> Absent]

Generate ==
    /\ gen.pc = "idle"
    /\ gen' = [pc |-> "routes", of |-> code, sum |-> Absent]
    /\ lastRun' = "started"
    /\ UNCHANGED <<fileVars, tool>>

GenAt(pc, next) == gen.pc = pc /\ gen' = [gen EXCEPT !.pc = next]

OpenRoutes ==
    /\ GenAt("routes", "routes open")
    /\ Put("routes", Torn)
    /\ UNCHANGED <<lastRun, tool>>

CloseRoutes ==
    /\ GenAt("routes open", "parquet")
    /\ Put("routes", Whole(gen.of))
    /\ UNCHANGED <<lastRun, tool>>

OpenParquet ==
    /\ GenAt("parquet", "parquet open")
    /\ Put("parquet", Torn)
    /\ UNCHANGED <<lastRun, tool>>

(* Mutant: the README is rendered while the file is being written. *)
CloseParquetAfterHash ==
    /\ gen.pc = "parquet open"
    /\ gen' = [gen EXCEPT !.pc = "readme", !.sum = files.parquet]
    /\ Put("parquet", Whole(gen.of))
    /\ UNCHANGED <<lastRun, tool>>

CloseParquet ==
    /\ GenAt("parquet open", "hash")
    /\ Put("parquet", Whole(gen.of))
    /\ UNCHANGED <<lastRun, tool>>

(* sha256_of(parquet_path): the checksum is that of the file on disk. *)
HashParquet ==
    /\ gen.pc = "hash"
    /\ gen' = [gen EXCEPT !.pc = "readme", !.sum = files.parquet]
    /\ UNCHANGED <<fileVars, lastRun, tool>>

OpenReadme ==
    /\ GenAt("readme", "readme open")
    /\ Put("readme", Torn)
    /\ UNCHANGED <<lastRun, tool>>

(* The README's file records the Parquet file its checksum was taken from. *)
CloseReadme ==
    /\ gen.pc = "readme open"
    /\ gen' = GenIdle
    /\ Put("readme", gen.sum)
    /\ lastRun' = "completed"
    /\ UNCHANGED tool

(* pq.write_table raises: it removes its target, or fails to. *)
ParquetFails ==
    /\ gen.pc = "parquet open"
    /\ gen' = GenIdle
    /\ Put("parquet", Absent) \/ UNCHANGED fileVars
    /\ lastRun' = "interrupted"
    /\ UNCHANGED tool

(* The process is killed, or the write of a text file raises. *)
Interrupt ==
    /\ gen.pc # "idle"
    /\ gen' = GenIdle
    /\ lastRun' = "interrupted"
    /\ UNCHANGED <<fileVars, tool>>

GenStep ==
    \/ OpenRoutes \/ CloseRoutes \/ OpenParquet \/ CloseParquet \/ HashParquet
    \/ OpenReadme \/ CloseReadme

-----------------------------------------------------------------------------
(* --check, and the validator.                                             *)

NoTool == [kind |-> "none", pc |-> "done", of |-> NoData, allowMissing |-> FALSE,
           bad |-> FALSE, exit |-> "none"]

BeginTool ==
    /\ tool.pc = "done"
    /\ \E kind \in {"check", "validate"}, allowMissing \in BOOLEAN :
         /\ kind = "check" => ~allowMissing
         /\ tool' = [kind |-> kind, pc |-> "exists", of |-> code,
                     allowMissing |-> allowMissing, bad |-> FALSE, exit |-> "none"]
    /\ quiet' = quiet \cup {"tool"}
    /\ UNCHANGED <<code, files, gen, lastRun>>

Exit(exit) == tool' = [tool EXCEPT !.pc = "done", !.exit = exit]

GoTo(pc) == tool' = [tool EXCEPT !.pc = pc]

ToolAt(kind, pc) ==
    /\ tool.kind = kind /\ tool.pc = pc
    /\ UNCHANGED <<fileVars, gen, lastRun>>

(* committed.exists(); the dataset is then regenerated in a directory of its
   own, from the code of this process. *)
CheckExists ==
    /\ ToolAt("check", "exists")
    /\ IF files.parquet = Absent THEN Exit("failed") ELSE GoTo("compare")

(* Mutant: the checksum in the README is taken for the file's. *)
CheckComparesReadme ==
    /\ ToolAt("check", "compare")
    /\ IF files.parquet = Absent THEN Exit("raised")
       ELSE IF SameBytes(files.readme, Whole(tool.of)) THEN GoTo("copy")
       ELSE GoTo("differences")

(* The committed file is hashed and compared with the regenerated one. *)
CheckCompares ==
    /\ ToolAt("check", "compare")
    /\ IF files.parquet = Absent THEN Exit("raised")
       ELSE IF SameBytes(files.parquet, Whole(tool.of)) THEN GoTo("copy")
       ELSE GoTo("differences")

(* shutil.copyfile, then the exit code 0. *)
CheckCopies ==
    /\ ToolAt("check", "copy")
    /\ Exit(IF files.parquet = Absent THEN "raised" ELSE "ok")

(* _report_value_differences reads the committed file as a table. *)
CheckDiffers ==
    /\ ToolAt("check", "differences")
    /\ Exit(IF files.parquet.state = "whole" THEN "failed" ELSE "raised")

ValidateExists ==
    /\ ToolAt("validate", "exists")
    /\ IF files.parquet # Absent THEN GoTo("schema")
       ELSE Exit(IF tool.allowMissing THEN "ok" ELSE "failed")

(* schema_differences: a file without a footer raises. *)
ValidateSchema ==
    /\ ToolAt("validate", "schema")
    /\ IF files.parquet.state # "whole" THEN Exit("raised")
       ELSE tool' = [tool EXCEPT !.pc = "routes",
                                 !.bad = SchemaOf[files.parquet.of] # SchemaOf[tool.of]]

(* routes_differences: no file, or a file without its header - the text is
   smaller than the write buffer, so a torn routes.csv is empty. *)
ValidateRoutes ==
    /\ ToolAt("validate", "routes")
    /\ tool' = [tool EXCEPT !.pc = "rows", !.bad = @ \/ files.routes.state # "whole"]

(* validate_rows opens the Parquet file again; max(exit_code, ...). *)
ValidateRows ==
    /\ ToolAt("validate", "rows")
    /\ IF files.parquet.state # "whole" THEN Exit("raised")
       ELSE Exit(IF tool.bad \/ files.parquet.of \notin Accepted[tool.of]
                   THEN "failed" ELSE "ok")

ToolStep ==
    \/ CheckExists \/ CheckCompares \/ CheckCopies \/ CheckDiffers
    \/ ValidateExists \/ ValidateSchema \/ ValidateRoutes \/ ValidateRows

-----------------------------------------------------------------------------
(* A directory a complete run left, or none. *)
Directory(file) == [routes |-> file, parquet |-> file, readme |-> file]

ToolsInit(version, file) ==
    /\ code = version
    /\ files = Directory(file)
    /\ quiet = {}
    /\ gen = GenIdle
    /\ lastRun = "none"
    /\ tool = NoTool

-----------------------------------------------------------------------------
(* Properties.                                                             *)

(* A run of the generator that came to its end leaves three files of one
   version and a README whose checksum is the file's, whatever an earlier
   interrupted run had left: running it again repairs the directory. *)
CompletedRunIsConsistent ==
    lastRun = "completed" =>
        /\ \A name \in DOMAIN files : files[name].state = "whole"
        /\ files.routes.of = files.parquet.of
        /\ SameBytes(files.readme, files.parquet)

(* While nothing changes under them, the scripts are exact: --check succeeds
   iff the committed bytes are those its code generates; the validator
   succeeds iff both files are whole and of its schema and rules, or there is
   no file and it was told to allow that. *)
ToolsAreExactWhenQuiet ==
    tool.exit # "none" /\ "tool" \in quiet =>
        LET parquet == files.parquet
            fits == /\ parquet.state = "whole" /\ files.routes.state = "whole"
                    /\ SchemaOf[parquet.of] = SchemaOf[tool.of]
                    /\ parquet.of \in Accepted[tool.of]
        IN  tool.exit = "ok" <=>
              IF tool.kind = "check" THEN SameBytes(parquet, Whole(tool.of))
              ELSE fits \/ (tool.allowMissing /\ parquet = Absent)

InPinnedOrder(rows) == \A i, j \in DOMAIN rows : i < j => RowBefore(rows[i], rows[j])

RowsIn(rows) == {rows[i] : i \in DOMAIN rows}

AmountsFor(rows, cell, kind) ==
    {row.amount : row \in {r \in RowsIn(rows) : /\ r.route = cell[1] /\ r.day = cell[2]
                                                /\ r.depart = cell[2] + cell[3] /\ r.kind = kind}}

(* The calendar amounts of a cell's bucket, by the model's own buckets. *)
Peers(modelBuckets, price, cell) ==
    {[amount |-> price.calendar[c], of |-> c] : c \in
        {d \in Cells : d[1] = cell[1] /\ ApBucket(modelBuckets, d[3])
                                           = ApBucket(modelBuckets, cell[3])}}

GridAmount(modelBuckets, price, cell) ==
    IF cell \in {ErrorFareCells[i] : i \in DOMAIN ErrorFareCells}
      THEN 100 * RoundHalfUp(22 * Median2(Peers(modelBuckets, price, cell)), 20000)
      ELSE price.calendar[cell]

(* The dataset in a complete file, read as a set of rows: in the pinned order,
   each cell of the grid with its calendar row and, where it is due, its
   itinerary row, once; the amounts are the price model's, but for the calendar
   rows of the error fare cells, which cost the fraction of the median their
   bucket would have had - by the model's own buckets (config/baseline.yaml),
   of which the generator has a copy. *)
DatasetIsTheGrid(modelBuckets) ==
    files.parquet.state = "whole" =>
      LET price == Prices[files.parquet.of]
          rows == Contents[files.parquet.of].rows
      IN  /\ InPinnedOrder(rows)
          /\ \A cell \in Cells :
               /\ AmountsFor(rows, cell, "itinerary") =
                    IF HasItinerary(cell) THEN {price.itinerary[cell]} ELSE {}
               /\ AmountsFor(rows, cell, "calendar_cheapest") =
                    {GridAmount(modelBuckets, price, cell)}
          /\ Len(rows) = Cardinality(Cells) + Cardinality({c \in Cells : HasItinerary(c)})

=============================================================================
