---------------------------- MODULE RouteHistory ----------------------------
(***************************************************************************)
(* What the model makes of the rows a read returns                         *)
(* (models/features/observations.py): one price per departure and fetched  *)
(* day, in the route's commonest currency.  A row is                       *)
(* [id, route, day, depart, kind, cur, amount]: observation_id, route_key, *)
(* the UTC date of fetched_at, depart_date, price_kind, currency and       *)
(* amount_minor.  Days and departures are numbers on one calendar;         *)
(* currencies are numbers in the order of their codes.                     *)
(***************************************************************************)
EXTENDS Integers, FiniteSets

DaysToDeparture(row) == row.depart - row.day

(* Step 1: the flight had not left when the price was seen. *)
NotDeparted(rows) == {row \in rows : DaysToDeparture(row) >= 0}

CountIn(rows, route, cur) ==
    Cardinality({row \in rows : row.route = route /\ row.cur = cur})

(* Step 2: the commonest currency of the route, the first of those that tie. *)
ModalCurrency(rows, route) ==
    CHOOSE cur \in {row.cur : row \in {r \in rows : r.route = route}} :
        \A other \in {row.cur : row \in {r \in rows : r.route = route}} :
            \/ CountIn(rows, route, cur) > CountIn(rows, route, other)
            \/ CountIn(rows, route, cur) = CountIn(rows, route, other) /\ cur <= other

InModalCurrency(rows) == {row \in rows : row.cur = ModalCurrency(rows, row.route)}

SameCell(a, b) == a.route = b.route /\ a.depart = b.depart /\ a.day = b.day

(* The sort within a cell: itineraries first, then amount, then id. *)
PreferredTo(a, b) ==
    \/ a.kind = "itinerary" /\ b.kind # "itinerary"
    \/ /\ (a.kind = "itinerary") = (b.kind = "itinerary")
       /\ a.amount < b.amount \/ (a.amount = b.amount /\ a.id < b.id)

(* Step 3: the first row of each cell. *)
BestOfCell(rows) ==
    {row \in rows : \A other \in rows :
        SameCell(row, other) /\ other # row => PreferredTo(row, other)}

(* Mutant: the collapse runs before the currencies are separated. *)
CollapseThenCurrency(raw) == InModalCurrency(BestOfCell(NotDeparted(raw)))

(* collapse_observations: the frame, and the number of rows it dropped. *)
Collapse(raw) == BestOfCell(InModalCurrency(NotDeparted(raw)))

(* Mutant: the window has no end. *)
RawHistoryOpen(store, route, asOf, window) ==
    {row \in store : row.route = route /\ asOf - window <= row.day}

(* The read of load_route_history_with_stats, inclusive at both ends. *)
RawHistory(store, route, asOf, window) ==
    {row \in store : row.route = route /\ asOf - window <= row.day /\ row.day <= asOf}

LoadRouteHistory(store, route, asOf, window) ==
    Collapse(RawHistory(store, route, asOf, window))

(* _latest_price_row: the cheapest row of the departure on its latest day. *)
LatestPriceRows(frame, depart, asOf) ==
    LET rows == {row \in frame : row.depart = depart /\ row.day <= asOf}
        latest == {row \in rows : \A other \in rows : other.day <= row.day}
    IN  {row \in latest : \A other \in latest : row.amount <= other.amount}

=============================================================================
