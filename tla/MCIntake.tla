------------------------------ MODULE MCIntake ------------------------------
(* One clean call of build_observation, every way to spoil one argument of it *)
(* and some to spoil two; copies and rows of others likewise.                 *)
EXTENDS Intake

CONSTANTS jfk, lax, jf, aa, xyz, travelpayouts, other, u1

Text(core) == [core |-> core, pad |-> "none"]
Left(core) == [core |-> core, pad |-> "left"]
Right(core) == [core |-> core, pad |-> "right"]

At(tick, zone) == [tick |-> tick, zone |-> zone]
Uuid(spelling) == [uuid |-> u1, spelling |-> spelling]
NoUuid(spelling) == [uuid |-> None, spelling |-> spelling]

Clean ==
    [source |-> travelpayouts, fetched_at |-> At(0, "utc"), origin |-> Text(jfk),
     destination |-> Text(lax), return_date |-> None, trip_type |-> "one_way",
     carrier_primary |-> Text(aa), amount_minor |-> 1, ingest_run_id |-> Uuid("canonical")]

RoundTrip == [Clean EXCEPT !.trip_type = "round_trip", !.return_date = 9]

MCArguments ==
    { Clean, RoundTrip,
      [Clean EXCEPT !.fetched_at = At(1, "utc")], [Clean EXCEPT !.fetched_at = At(2, "utc")],
      [Clean EXCEPT !.fetched_at = At(1, "naive")], [Clean EXCEPT !.fetched_at = At(1, "offset")],
      [Clean EXCEPT !.origin = Left(jfk)], [Clean EXCEPT !.origin = Right(jfk)],
      [Clean EXCEPT !.origin = Text(jf)], [Clean EXCEPT !.destination = Right(lax)],
      [Clean EXCEPT !.destination = Left(lax)],
      [Clean EXCEPT !.carrier_primary = None], [Clean EXCEPT !.carrier_primary = Left(aa)],
      [Clean EXCEPT !.carrier_primary = Text(xyz)],
      [Clean EXCEPT !.amount_minor = Int64Max], [Clean EXCEPT !.amount_minor = Int64Max + 1],
      [Clean EXCEPT !.ingest_run_id = Uuid("upper")],
      [Clean EXCEPT !.trip_type = "round_trip"], [Clean EXCEPT !.return_date = 9],
      [RoundTrip EXCEPT !.carrier_primary = Right(aa), !.fetched_at = At(2, "utc")] }

Change(field, value) == [field |-> field, value |-> value]

MCUpdates ==
    { Change("amount_minor", 0), Change("carrier_primary", Left(aa)), Change("carrier_primary", None),
      Change("fetched_at", At(1, "utc")), Change("fetched_at", At(2, "utc")),
      Change("origin", Text(lax)), Change("data_quality", other), Change("schema_version", 2),
      Change("ingest_run_id", NoUuid("junk")), Change("return_date", 9) }

Row == Canonical(FromArguments(Clean))

MCImports ==
    { {}, { [Row EXCEPT !.schema_version = 2] },
      { Canonical(FromArguments([Clean EXCEPT !.fetched_at = At(2, "utc")])),
        [Row EXCEPT !.observation_id.fetched = 2, !.amount_minor = 2] } }

(* Rows with none, one, two and several violations. *)
RawRows ==
    << Row, [f \in DOMAIN Row \ {"data_quality", "carrier_primary"} |-> Row[f]],
       [f \in DOMAIN Row \ {"origin"} |-> Row[f]],
       [Row EXCEPT !.schema_version = 2, !.origin = Text(lax), !.route_key.from = Text(lax)],
       [Row EXCEPT !.source = other, !.destination = Text(jf), !.amount_minor = Int64Max + 1,
                   !.schema_version = 0],
       [Row EXCEPT !.ingest_run_id = NoUuid("naive_timestamp"), !.trip_type = other,
                   !.fetched_at = At(0, "naive")] >>

MCRawBatches ==
    { << >>, << RawRows[1], RawRows[2] >>, << RawRows[3], RawRows[1], RawRows[4] >>,
      << RawRows[4], RawRows[4] >>, << RawRows[5], RawRows[6] >>, << RawRows[3], RawRows[6] >> }

=============================================================================
