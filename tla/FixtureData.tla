---------------------------- MODULE FixtureData ----------------------------
(***************************************************************************)
(* The synthetic dataset (scripts/gen_fixtures.py): one calendar row for   *)
(* every route, fetched day and day to departure of the grid, an itinerary *)
(* row beside it on tier 1 routes close to departure, and a few calendar   *)
(* rows overwritten with error fares.  The price model is a parameter: two *)
(* functions from cells to amounts, as the code's is a pure function of    *)
(* the cell.  A cell is <<route, fetched day, days to departure>>.         *)
(***************************************************************************)
EXTENDS Forecast

CONSTANTS
    FixtureRoutes,    \* ROUTES; the order is that of their keys
    Tier1,            \* the routes of tier 1
    FetchedDays,      \* fetched_dates()
    DtdGrid,          \* DTD_GRID
    ItineraryMaxDtd,
    ErrorFareCells,   \* a sequence of cells
    GeneratorBuckets  \* AP_BUCKETS, the generator's own copy

ASSUME FixtureAssumption ==
    /\ Tier1 \subseteq FixtureRoutes
    /\ \A S \in {FixtureRoutes, FetchedDays, DtdGrid} : S \subseteq Nat /\ IsFiniteSet(S)
    /\ ErrorFareCells \in Seq(FixtureRoutes \X FetchedDays \X DtdGrid)

Cells == FixtureRoutes \X FetchedDays \X DtdGrid

CellBefore(c, d) ==
    \/ c[1] < d[1]
    \/ c[1] = d[1] /\ (c[2] < d[2] \/ (c[2] = d[2] /\ c[3] < d[3]))

(* The elements of S, each after those that the order puts before it. *)
InOrder(S, order) ==
    [n \in 1..Cardinality(S) |->
        CHOOSE x \in S : Cardinality({y \in S : <<y, x>> \in order}) = n - 1]

(* The order of generate()'s loops. *)
CellsInOrder == InOrder(Cells, {p \in Cells \X Cells : CellBefore(p[1], p[2])})

HasItinerary(cell) == cell[1] \in Tier1 /\ cell[3] <= ItineraryMaxDtd

(* The first bucket of the generator's list that holds the day. *)
GeneratorBucket(dtd) == ApBucketExpr(GeneratorBuckets, dtd)

(* _row: what of it depends on the cell and the kind of price. *)
FixtureRow(cell, source, kind, amount) ==
    [route |-> cell[1], source |-> source, kind |-> kind, day |-> cell[2],
     depart |-> cell[2] + cell[3], amount |-> amount]

CalendarRow(price, cell) ==
    FixtureRow(cell, "travelpayouts", "calendar_cheapest", price.calendar[cell])

ItineraryRow(price, cell) ==
    FixtureRow(cell, "fastflights", "itinerary", price.itinerary[cell])

(* Mutant: the position is taken after the row was appended. *)
AddCellThenIndex(price, acc, cell) ==
    LET rows == Append(acc.rows, CalendarRow(price, cell)) IN
      [rows |-> IF HasItinerary(cell) THEN Append(rows, ItineraryRow(price, cell)) ELSE rows,
       at |-> [acc.at EXCEPT ![cell] = Len(rows) + 1]]

(* One turn of generate()'s loop: the cell's rows are appended, and where its
   calendar row went is kept for the error fares. *)
AddCell(price, acc, cell) ==
    LET rows == Append(acc.rows, CalendarRow(price, cell)) IN
      [rows |-> IF HasItinerary(cell) THEN Append(rows, ItineraryRow(price, cell)) ELSE rows,
       at |-> [acc.at EXCEPT ![cell] = Len(rows)]]

Laid(price) ==
    LET laid[n \in 0..Cardinality(Cells)] ==
          IF n = 0 THEN [rows |-> << >>, at |-> [cell \in Cells |-> NoData]]
          ELSE AddCell(price, laid[n - 1], CellsInOrder[n])
    IN  laid[Cardinality(Cells)]

(* bucket_amounts: calendar amounts before any error fare. *)
BucketAmounts(price, route, bucket) ==
    {[amount |-> price.calendar[cell], of |-> cell] :
        cell \in {c \in Cells : c[1] = route /\ GeneratorBucket(c[3]) = bucket}}

(* round_to_100(0.22 * median), from the doubled median. *)
ErrorFare(price, cell) ==
    100 * RoundHalfUp(22 * Median2(BucketAmounts(price, cell[1], GeneratorBucket(cell[3]))),
                      20000)

(* _inject_error_fares *)
WithErrorFares(price, laid) ==
    LET rows[n \in 0..Len(ErrorFareCells)] ==
          IF n = 0 THEN laid.rows
          ELSE [rows[n - 1] EXCEPT ![laid.at[ErrorFareCells[n]]].amount =
                  ErrorFare(price, ErrorFareCells[n])]
    IN  rows[Len(ErrorFareCells)]

(* The key of sort_rows: route, kind, fetched date, departure. *)
RowBefore(a, b) ==
    \/ a.route < b.route
    \/ /\ a.route = b.route
       /\ \/ a.kind = "calendar_cheapest" /\ b.kind = "itinerary"
          \/ /\ a.kind = b.kind
             /\ a.day < b.day \/ (a.day = b.day /\ a.depart < b.depart)

(* Python's sort is stable: rows with one key stay in the order they had. *)
SortRows(rows) ==
    LET order == {p \in (DOMAIN rows) \X (DOMAIN rows) :
                    \/ RowBefore(rows[p[1]], rows[p[2]])
                    \/ p[1] < p[2] /\ ~RowBefore(rows[p[2]], rows[p[1]])}
    IN  [n \in DOMAIN rows |-> rows[InOrder(DOMAIN rows, order)[n]]]

(* The rows of the file write_dataset makes of generate()'s. *)
Dataset(price) == SortRows(WithErrorFares(price, Laid(price)))

=============================================================================
