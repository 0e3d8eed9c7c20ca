----------------------------- MODULE MCFareView -----------------------------
(***************************************************************************)
(* Instances of FareView for TLC: two ticks to a day; id 1 is fetched on   *)
(* day 0 from source "a", id 2 on day 1 from "a", id 3 on day 1 from "b".  *)
(***************************************************************************)
EXTENDS FareView

MCKey ==
    << [part |-> 0, source |-> "a", route |-> "x", kind |-> "itinerary", day |-> 0, depart |-> 5],
       [part |-> 1, source |-> "a", route |-> "y", kind |-> "itinerary", day |-> 1, depart |-> 5],
       [part |-> 2, source |-> "b", route |-> "x", kind |-> "calendar_low", day |-> 1, depart |-> 7] >>

Row(id, at, run, q, v) == [id |-> id, at |-> at, run |-> run, q |-> q, v |-> v]

MCFixtures == { Row(1, 0, 1, "ok", 9) }

(* Two runs, both ticks of a day, every quality; no two rows tie. *)
MCRows ==
    MCFixtures \cup
    { Row(1, 0, 2, "ok", 0), Row(1, 1, 1, "rejected", 0), Row(1, 1, 2, "ok", 0),
      Row(2, 2, 1, "ok", 0), Row(2, 3, 1, "suspect", 0), Row(2, 3, 2, "ok", 0),
      Row(3, 2, 2, "rejected", 0), Row(3, 3, 1, "ok", 0) }

(* Every batch of one or two rows that belong to one run. *)
MCBatches ==
    {batch \in UNION {[1..n -> Rows] : n \in 0..2} :
        \A i, j \in DOMAIN batch : batch[i].run = batch[j].run}

All == [NoFilter EXCEPT !.includeRejected = TRUE]

MCFilters ==
    { NoFilter, All,
      [All EXCEPT !.source = {"a"}], [All EXCEPT !.route = {"x"}, !.departTo = 6],
      [All EXCEPT !.kind = {"calendar_low"}], [All EXCEPT !.dayFrom = 1],
      [All EXCEPT !.route = {}], [All EXCEPT !.limit = 1],
      [All EXCEPT !.departFrom = 6, !.dayTo = 1],
      [NoFilter EXCEPT !.quality = {"rejected"}],
      [NoFilter EXCEPT !.quality = {"ok", "suspect"}, !.limit = 2],
      [NoFilter EXCEPT !.atTo = 0], [All EXCEPT !.atTo = 2],
      [NoFilter EXCEPT !.atFrom = 1, !.atTo = 3] }

=============================================================================
