---------------------------- MODULE MCWorkbench ----------------------------
(***************************************************************************)
(* An instance of Workbench for TLC: two routes, one of tier 1, two days   *)
(* and three days to departure on both sides of a bucket's end; three      *)
(* versions of the code, of which 2 has other prices and 3 another schema. *)
(***************************************************************************)
EXTENDS Workbench

B(name, min, max) == [name |-> name, min |-> min, max |-> max]

(* AP_BUCKETS of the generator, and the list of config/baseline.yaml. *)
MCGeneratorBuckets ==
    << B("0-3", 0, 3), B("4-7", 4, 7), B("8-14", 8, 14), B("15-21", 15, 21),
       B("22-30", 22, 30), B("31-45", 31, 45), B("46-60", 46, 60), B("61-90", 61, 90),
       B("90+", 91, Unbounded) >>
MCModelBuckets ==
    << B("0-3", 0, 3), B("4-7", 4, 7), B("8-14", 8, 14), B("15-21", 15, 21),
       B("22-30", 22, 30), B("31-45", 31, 45), B("46-60", 46, 60), B("61-90", 61, 90),
       B("90+", 91, Unbounded) >>

MCErrorFareCells == << <<1, 1, 3>>, <<1, 1, 4>>, <<2, 2, 90>>, <<1, 2, 3>> >>

Calendar(k) == [cell \in Cells |-> 10000 * cell[1] + 1000 * k * cell[2] + 100 * cell[3]]

Model(k) ==
    [calendar |-> Calendar(k),
     itinerary |-> [cell \in Cells |-> Calendar(k)[cell] + 100 * cell[2]]]

MCPrices == << Model(1), Model(2), Model(1) >>
MCSchemaOf == << 1, 1, 2 >>
MCAccepted == << {1, 2}, {1, 2}, {3} >>

MCPins ==
    {[kind |-> "unset", day |-> 0], [kind |-> "date", day |-> 2], [kind |-> "other", day |-> 0]}

Pin(kind, day) == [kind |-> kind, day |-> day]

Start(word, version, file, modes, clock, change, tools, runs) ==
    [mode |-> word, pin |-> Pin("unset", 0), code |-> version, file |-> file,
     collected |-> FALSE,
     budget |-> [modes |-> modes, clock |-> clock, files |-> change,
                tools |-> tools, runs |-> runs]]

(* A process that goes through its environment; the scripts on their own; and
   backtests while the directory changes under them. *)
MCStarts ==
    {Start("", 1, Whole(1), 5, 0, 0, 0, 0), Start("", 1, Whole(1), 2, 3, 0, 0, 1)}
    \cup {Start("", c, file, 0, 0, 4, 1, 0) : c \in Versions, file \in {Absent, Whole(1)}}
    \cup {Start("1", c, Whole(1), 1, 0, 3, 0, 1) : c \in {1, 2}}

=============================================================================
