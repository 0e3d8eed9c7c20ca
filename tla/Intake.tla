------------------------------- MODULE Intake -------------------------------
(***************************************************************************)
(* The trust boundaries of the canonical record (pipeline/schema): what    *)
(* build_observation makes of its arguments, what pydantic makes of a row, *)
(* what validation adds to that, and what reaches the store and comes back *)
(* from it.  A process holds records in memory.  It builds them, copies    *)
(* them with model_copy(update=...), which meets no validator, stamps them *)
(* with a quality, and submits them; part files and raw rows that did not  *)
(* come through write() are there as well.                                 *)
(*                                                                         *)
(* A text is [core, pad]: str_strip_whitespace removes the pad.  Fields    *)
(* with the same rule are represented once: source stands for the enums,   *)
(* amount_minor for the integers, the endpoints for the coded strings.     *)
(* The id is the natural key itself: SHA-256 is external, and two keys     *)
(* that share a 16-digit prefix are left out.                              *)
(***************************************************************************)
EXTENDS Integers, Sequences, FiniteSets, SequencesExt

CONSTANTS
    Arguments,     \* what build_observation is called with
    Updates,       \* [field, value] of the model_copy(update=...) in use
    Imports,       \* sets of rows other programs may have put on disk
    RawBatches,    \* sequences of dicts given to validate_batch
    Sources,       \* members of the enum
    IataCodes,     \* cores of the texts that match ^[A-Z]{3}$
    CarrierCodes,  \* cores of the texts that match ^[A-Z0-9]{2}$
    TicksPerDay,
    Int64Max,
    SampleLimit,
    SchemaVersion,
    None,
    MaxRecords     \* bound on the records in memory

FieldOrder ==
    << "observation_id", "source", "fetched_at", "origin", "destination", "route_key",
       "return_date", "trip_type", "carrier_primary", "amount_minor", "data_quality",
       "ingest_run_id", "schema_version" >>

IsText(t) == t \in [core : {t.core}, pad : {"none", "left", "right"}]

(* What the annotations say of an argument, and of the value of an update. *)
IsTyped(field, value) ==
    CASE field \in {"origin", "destination"} -> IsText(value)
      [] field = "carrier_primary" -> value = None \/ IsText(value)
      [] field = "route_key" ->
            /\ value \in [from : {value.from}, to : {value.to}]
            /\ IsText(value.from) /\ IsText(value.to)
      [] field = "ingest_run_id" -> value \in [uuid : {value.uuid}, spelling : {value.spelling}]
      [] OTHER -> TRUE

ASSUME IntakeAssumption ==
    /\ TicksPerDay \in Nat \ {0} /\ Int64Max \in Nat /\ SampleLimit \in Nat
    /\ \A a \in Arguments :
         /\ a.fetched_at.tick \in Nat
         /\ \A f \in {"origin", "destination", "carrier_primary", "ingest_run_id"} :
              IsTyped(f, a[f])
    /\ \A u \in Updates : u.field \in ToSet(FieldOrder) /\ IsTyped(u.field, u.value)
    /\ \A rows \in RawBatches : rows \in Seq(ToSet(rows))
    /\ \A rows \in Imports : IsFiniteSet(rows)
    /\ MaxRecords \in Nat

VARIABLES
    held,          \* the records a process has in memory
    disk,          \* the rows write() has published
    imported,      \* the other rows on disk
    call           \* the last call, and what it returned

vars == <<held, disk, imported, call>>

-----------------------------------------------------------------------------
(* The natural key.                                                        *)

(* fetched_date: the UTC date of an aware timestamp. *)
FetchedDate(at) == at.tick \div TicksPerDay

(* Mutant: the key holds the instant. *)
KeyWithInstant(r) ==
    [source |-> r.source, origin |-> r.origin, destination |-> r.destination,
     return_date |-> r.return_date, trip_type |-> r.trip_type,
     carrier_primary |-> r.carrier_primary, fetched |-> r.fetched_at.tick]

(* natural_key: the fields as they are, padding included. *)
NaturalKey(r) ==
    [source |-> r.source, origin |-> r.origin, destination |-> r.destination,
     return_date |-> r.return_date, trip_type |-> r.trip_type,
     carrier_primary |-> r.carrier_primary, fetched |-> FetchedDate(r.fetched_at)]

(* Mutant: the return date is not passed on to observation_id(). *)
UnreturnedArguments(a) ==
    [observation_id |-> NaturalKey([a EXCEPT !.return_date = None]),
     source |-> a.source, fetched_at |-> a.fetched_at,
     origin |-> a.origin, destination |-> a.destination,
     route_key |-> [from |-> a.origin, to |-> a.destination],
     return_date |-> a.return_date, trip_type |-> a.trip_type,
     carrier_primary |-> a.carrier_primary, amount_minor |-> a.amount_minor,
     data_quality |-> "ok", ingest_run_id |-> a.ingest_run_id,
     schema_version |-> SchemaVersion]

(* build_observation derives the id and the route from its raw arguments. *)
FromArguments(a) ==
    [observation_id |-> NaturalKey(a),
     source |-> a.source, fetched_at |-> a.fetched_at,
     origin |-> a.origin, destination |-> a.destination,
     route_key |-> [from |-> a.origin, to |-> a.destination],
     return_date |-> a.return_date, trip_type |-> a.trip_type,
     carrier_primary |-> a.carrier_primary, amount_minor |-> a.amount_minor,
     data_quality |-> "ok", ingest_run_id |-> a.ingest_run_id,
     schema_version |-> SchemaVersion]

-----------------------------------------------------------------------------
(* FareObservation.model_validate.                                         *)

Strip(text) == IF text = None THEN None ELSE [text EXCEPT !.pad = "none"]

(* Only the two ends of the joined text lose their padding. *)
StripRoute(route) ==
    [from |-> IF route.from.pad = "left" THEN Strip(route.from) ELSE route.from,
     to |-> IF route.to.pad = "right" THEN Strip(route.to) ELSE route.to]

IsIata(text) == text.pad = "none" /\ text.core \in IataCodes

Defaults ==
    [return_date |-> None, carrier_primary |-> None, data_quality |-> "ok",
     schema_version |-> SchemaVersion]

(* A validator's message starts with its own code, and may quote the value. *)
MessageCodes ==
    << "naive_timestamp", "non_utc_timestamp", "bad_route_key", "return_date_mismatch",
       "bad_ingest_run_id" >>

(* _violation_from_error: the first code found anywhere in the message. *)
CodeIn(mentioned) ==
    MessageCodes[Min({i \in DOMAIN MessageCodes : MessageCodes[i] \in mentioned})]

Fine == "fine"

(* What is reported of a field's own rule. *)
FieldCode(row, f) ==
    CASE f \notin DOMAIN row ->
            IF f \in DOMAIN Defaults THEN Fine ELSE "missing_required"
      [] f = "source" -> IF row[f] \in Sources THEN Fine ELSE "bad_enum"
      [] f = "fetched_at" ->
            IF row[f].zone = "utc" THEN Fine
            ELSE CodeIn({IF row[f].zone = "naive" THEN "naive_timestamp" ELSE "non_utc_timestamp"})
      [] f \in {"origin", "destination"} -> IF IsIata(Strip(row[f])) THEN Fine ELSE "bad_iata"
      [] f = "route_key" ->
            IF IsIata(StripRoute(row[f]).from) /\ IsIata(StripRoute(row[f]).to)
              THEN Fine ELSE "bad_route_key"
      [] f = "trip_type" -> IF row[f] \in {"one_way", "round_trip"} THEN Fine ELSE "bad_enum"
      [] f = "carrier_primary" ->
            IF row[f] = None \/ Strip(row[f]).core \in CarrierCodes THEN Fine ELSE "wrong_type"
      [] f = "amount_minor" ->
            IF row[f] <= 0 THEN "nonpositive_amount"
            ELSE IF row[f] > Int64Max THEN "out_of_range" ELSE Fine
      [] f = "data_quality" ->
            IF row[f] \in {"ok", "suspect", "rejected"} THEN Fine ELSE "bad_enum"
      [] f = "ingest_run_id" ->
            IF row[f].uuid # None THEN Fine ELSE CodeIn({"bad_ingest_run_id", row[f].spelling})
      [] f = "schema_version" -> IF row[f] >= 1 THEN Fine ELSE "out_of_range"
      [] OTHER -> Fine

(* Every field is validated, and every error reported, in the order of the fields. *)
FieldViolations(row) ==
    LET broken == {i \in DOMAIN FieldOrder : FieldCode(row, FieldOrder[i]) # Fine}
        Field(n) == FieldOrder[CHOOSE i \in broken : Cardinality({j \in broken : j < i}) = n - 1]
    IN  [n \in 1..Cardinality(broken) |-> [field |-> Field(n), code |-> FieldCode(row, Field(n))]]

(* What the fields hold once they are valid. *)
Canonical(row) ==
    LET full == [f \in ToSet(FieldOrder) |-> IF f \in DOMAIN row THEN row[f] ELSE Defaults[f]]
    IN  [full EXCEPT !.origin = Strip(@), !.destination = Strip(@), !.route_key = StripRoute(@),
                     !.carrier_primary = Strip(@), !.ingest_run_id.spelling = "canonical"]

(* The two validators of the whole model; the first that raises is the last. *)
ModelViolations(r) ==
    IF r.route_key # [from |-> r.origin, to |-> r.destination]
      THEN << [field |-> "route_key", code |-> "bad_route_key"] >>
    ELSE IF (r.trip_type = "round_trip") # (r.return_date # None)
      THEN << [field |-> "return_date", code |-> "return_date_mismatch"] >>
    ELSE << >>

(* model_validate returns Canonical(row). *)
Constructs(row) == FieldViolations(row) = << >> /\ ModelViolations(Canonical(row)) = << >>

-----------------------------------------------------------------------------
(* validation.py.                                                          *)

(* logical_violations: what cannot live on the model. *)
LogicalViolations(r) ==
    (IF r.observation_id = NaturalKey(r) THEN << >>
     ELSE << [field |-> "observation_id", code |-> "observation_id_mismatch"] >>)
    \o (IF r.schema_version = SchemaVersion THEN << >>
        ELSE << [field |-> "schema_version", code |-> "bad_schema_version"] >>)

(* _rebuild, for a dict or the dump of a record. *)
Violations(row) ==
    LET broken == FieldViolations(row)
        built == Canonical(row)
    IN  IF broken # << >> THEN broken
        ELSE IF ModelViolations(built) # << >> THEN ModelViolations(built)
        ELSE LogicalViolations(built)

Codes ==
    {"missing_required", "wrong_type", "bad_enum", "bad_iata", "bad_route_key",
     "naive_timestamp", "non_utc_timestamp", "nonpositive_amount", "return_date_mismatch",
     "observation_id_mismatch", "bad_schema_version", "out_of_range", "bad_ingest_run_id"}

NoTally == [total |-> 0, invalid |-> 0, counts |-> [code \in Codes |-> 0], sample |-> << >>]

(* Mutant: what is left out of the sample is not counted either. *)
CountSampled(tally, index, v) ==
    IF Len(tally.sample) < SampleLimit
      THEN [tally EXCEPT !.counts[v.code] = @ + 1, !.sample = Append(@, <<index, v>>)]
      ELSE tally

CountViolation(tally, index, v) ==
    [tally EXCEPT !.counts[v.code] = @ + 1,
                  !.sample = IF Len(@) < SampleLimit THEN Append(@, <<index, v>>) ELSE @]

(* _Accumulator.add *)
CountRow(tally, index, violations) ==
    FoldLeft(LAMBDA acc, v : CountViolation(acc, index, v),
             [tally EXCEPT !.total = @ + 1,
                           !.invalid = IF violations = << >> THEN @ ELSE @ + 1],
             violations)

(* validate_batch *)
Report(rows) ==
    FoldLeftDomain(LAMBDA acc, i : CountRow(acc, i, Violations(rows[i])), NoTally, rows)

Ok(report) == report.invalid = 0

-----------------------------------------------------------------------------
(* What a process does.                                                    *)

Called(kind, given, result, report) ==
    [kind |-> kind, given |-> given, result |-> result, report |-> report]

Init ==
    /\ held = {}
    /\ disk = {}
    /\ imported \in Imports
    /\ call = Called("none", << >>, << >>, NoTally)

Hold(record) == Cardinality(held) < MaxRecords /\ held' = held \cup {record}

(* build_observation returns a record. *)
Build ==
    /\ \E a \in Arguments :
         /\ a.fetched_at.zone # "naive"
         /\ Constructs(FromArguments(a))
         /\ Hold(Canonical(FromArguments(a)))
         /\ call' = Called("built", << a >>, << Canonical(FromArguments(a)) >>, NoTally)
    /\ UNCHANGED <<disk, imported>>

(* ... or raises: a naive timestamp at once, all else out of the model. *)
BuildRaises ==
    /\ \E a \in Arguments :
         /\ a.fetched_at.zone = "naive" \/ ~Constructs(FromArguments(a))
         /\ call' = Called("unbuilt", << a >>, << >>, NoTally)
    /\ UNCHANGED <<held, disk, imported>>

(* model_copy(update={field: value}): no validator runs. *)
Copy ==
    /\ \E r \in held, u \in Updates :
         /\ Hold([r EXCEPT ![u.field] = u.value])
         /\ call' = Called("copied", << r >>, << [r EXCEPT ![u.field] = u.value] >>, NoTally)
    /\ UNCHANGED <<disk, imported>>

(* with_quality: the dump with the new verdict, through the model again. *)
Stamped(r, quality) == Canonical([r EXCEPT !.data_quality = quality])

Stamp ==
    /\ \E r \in held, quality \in {"ok", "suspect", "rejected"} :
         IF Constructs([r EXCEPT !.data_quality = quality])
           THEN /\ Hold(Stamped(r, quality))
                /\ call' = Called("stamped", << r >>, << Stamped(r, quality) >>, NoTally)
           ELSE /\ call' = Called("unstamped", << r >>, << >>, NoTally)
                /\ UNCHANGED held
    /\ UNCHANGED <<disk, imported>>

(* Mutant: the records are written as they were submitted. *)
Submitted(batch) == ToSet(batch)

(* validated_batch returns the rebuilt records; the last of each id is written. *)
Published(batch) ==
    {Canonical(batch[i]) : i \in {j \in DOMAIN batch :
        \A k \in DOMAIN batch : k > j => batch[k].observation_id # batch[j].observation_id}}

Batches == UNION {[1..n -> held] : n \in 1..2}

(* write(): all of the batch, or InvalidBatchError with the whole report. *)
Write ==
    /\ \E batch \in Batches : LET report == Report(batch) IN
         /\ disk' = IF Ok(report) THEN disk \cup Published(batch) ELSE disk
         /\ call' = Called(IF Ok(report) THEN "written" ELSE "refused", batch, << >>, report)
    /\ UNCHANGED <<held, imported>>

(* validate_batch of raw dicts, as the fixture validator calls it. *)
Validate ==
    /\ \E rows \in RawBatches :
         call' = Called("validated", rows, << >>, Report(rows))
    /\ UNCHANGED <<held, disk, imported>>

(* The rows a query may return: at most one of an id. *)
Frames ==
    {S \in SUBSET (disk \cup imported) :
        \A a, b \in S : a.observation_id = b.observation_id => a = b}

(* What validated_batch returns of rows that are valid. *)
Rebuilt(rows) == [i \in DOMAIN rows |-> Canonical(rows[i])]

(* read(): the frame, put through table_to_records. *)
Read ==
    /\ \E S \in Frames :
         LET rows == SetToSeq(S)
             report == Report(rows)
         IN  call' = IF Ok(report)
                       THEN Called("read", rows, Rebuilt(rows), report)
                       ELSE Called("unread", rows, << >>, report)
    /\ UNCHANGED <<held, disk, imported>>

Next == Build \/ BuildRaises \/ Copy \/ Stamp \/ Write \/ Validate \/ Read

Spec == Init /\ [][Next]_vars

-----------------------------------------------------------------------------
(* Properties.                                                             *)

(* Whatever was built, copied or stamped, a row that write() published passes
   every check again as it stands, and reading it back changes nothing in it. *)
PublishedRowsAreCanonical ==
    \A row \in disk : Violations(row) = << >> /\ Canonical(row) = row

SameShape(a, b) ==
    /\ a.source = b.source /\ a.origin = b.origin /\ a.destination = b.destination
    /\ a.trip_type = b.trip_type /\ a.return_date = b.return_date
    /\ a.carrier_primary = b.carrier_primary

(* "What makes collection idempotent within a day": two published rows have
   one id iff they are about one trip shape, seen on one UTC date. *)
OneIdPerShapeAndDay ==
    \A a, b \in disk :
        a.observation_id = b.observation_id
            <=> SameShape(a, b) /\ FetchedDate(a.fetched_at) = FetchedDate(b.fetched_at)

(* A record build_observation returned will be written iff no argument of its
   key had to be stripped: the id is derived before the model normalises. *)
BuiltFromCleanArgumentsIsValid ==
    call.kind = "built" =>
        LET a == call.given[1] IN
          Violations(call.result[1]) = << >>
            <=> \A f \in {"origin", "destination", "carrier_primary"} : a[f] = Strip(a[f])

Places(rows) ==
    {p \in (DOMAIN rows) \X (1..Len(FieldOrder)) : p[2] \in DOMAIN Violations(rows[p[1]])}

(* A report counts every violation of every row, whatever the sample leaves
   out; the sample is the first of them in order of row and field. *)
ReportIsExact ==
    call.kind \in {"written", "refused", "validated", "unread"} =>
        LET rows == call.given
            report == call.report
            places == Places(rows)
        IN  /\ report.total = Len(rows)
            /\ report.invalid = Cardinality({p[1] : p \in places})
            /\ \A code \in Codes :
                 report.counts[code] =
                    Cardinality({p \in places : Violations(rows[p[1]])[p[2]].code = code})
            /\ Len(report.sample) =
                 IF Cardinality(places) < SampleLimit THEN Cardinality(places) ELSE SampleLimit
            /\ \A k \in DOMAIN report.sample : \E p \in places :
                 /\ report.sample[k] = <<p[1], Violations(rows[p[1]])[p[2]]>>
                 /\ k = 1 + Cardinality({q \in places :
                                q[1] < p[1] \/ (q[1] = p[1] /\ q[2] < p[2])})

=============================================================================
