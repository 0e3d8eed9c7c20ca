----------------------------- MODULE MCBacktest -----------------------------
(* Fixtures are every choice of a price or none for three fetched days and   *)
(* two departures, in one currency or two, and for four days of a third one; *)
(* a collector may publish a price of the third departure.                   *)
EXTENDS Backtest

CONSTANTS near, far, spring, r

MCBuckets ==
    << [name |-> near, min |-> 0, max |-> 1], [name |-> far, min |-> 2, max |-> Unbounded] >>

MCCfg ==
    [buckets |-> MCBuckets, window |-> 5, minCell |-> 1, horizon |-> 3, smoothing |-> 1,
     curveMinCell |-> 1, bookMaxPct |-> 25, bookRise |-> [num |-> 5, den |-> 1], waitMinPct |-> 50,
     waitDrop |-> [num |-> 7, den |-> 1], waitSearch |-> 3, lowMaxObs |-> 2, lowMaxCov |-> [num |-> 35, den |-> 100],
     highMinObs |-> 3, highMaxCov |-> [num |-> 18, den |-> 100]]

MCSeason == [d \in 2..4 |-> spring]

Row(day, depart, cur, amount) ==
    [id |-> 10 * day + depart, route |-> r, day |-> day, depart |-> depart,
     kind |-> "calendar_cheapest", cur |-> cur, amount |-> amount]

None == [cur |-> 0, amount |-> 0]

RowsOf(f) == {Row(c[1], c[2], f[c].cur, f[c].amount) : c \in {d \in DOMAIN f : f[d] # None}}

Fixtures(offers) == {RowsOf(f) : f \in [(0..2) \X {2, 3} -> offers \cup {None}]}

Amounts == {[cur |-> 1, amount |-> 10], [cur |-> 1, amount |-> 20]}

OneCurrency == Fixtures(Amounts)
TwoCurrencies == Fixtures({[cur |-> 1, amount |-> 10], [cur |-> 2, amount |-> 20]})

(* Departure 4 quoted on four days, beside a cheap departure 2: a wait of two
   days whose target comes too early, in time, or not at all. *)
Longer ==
    {{Row(0, 2, 1, 10), Row(1, 2, 1, 10)} \cup RowsOf(f) :
        f \in [(0..3) \X {4} -> Amounts \cup {None}]}

MCDatasets == OneCurrency \cup TwoCurrencies \cup Longer
Full == {data \in OneCurrency : Cardinality(data) = 6}

(* Two full fixtures: prices that never move, and prices that rise. *)
TwoFixtures ==
    {data \in Full : \/ \A row \in data : row.amount = 10
                     \/ \A row \in data : row.amount = IF row.day = 2 THEN 20 ELSE 10}

MCParts == {Row(1, 4, 1, 10)}
=============================================================================
