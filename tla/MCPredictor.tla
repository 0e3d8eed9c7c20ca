---------------------------- MODULE MCPredictor ----------------------------
(* Fetched days 0 and 1 and departures 0 and 3 of one route, seen from days 0 *)
(* to 2.  The window is one day, so that observations leave it; a row of day *)
(* 1 for departure 0 was seen after the flight had left.                     *)
EXTENDS Predictor

CONSTANTS near, far, spring, r

MCBuckets ==
    << [name |-> near, min |-> 0, max |-> 2], [name |-> far, min |-> 3, max |-> Unbounded] >>

MCCfg ==
    [buckets |-> MCBuckets, window |-> 1, minCell |-> 1, horizon |-> 2, smoothing |-> 1,
     curveMinCell |-> 1, bookMaxPct |-> 25, bookRise |-> [num |-> 5, den |-> 1], waitMinPct |-> 50,
     waitDrop |-> [num |-> 7, den |-> 1], waitSearch |-> 2, lowMaxObs |-> 2, lowMaxCov |-> [num |-> 35, den |-> 100],
     highMinObs |-> 3, highMaxCov |-> [num |-> 18, den |-> 100]]

MCDepartures == {0, 3}

MCSeason == [d \in MCDepartures |-> spring]

Row(day, depart, n, kind, cur, amount) ==
    [id |-> 100 * day + 10 * depart + n, route |-> r,
     day |-> day, depart |-> depart, kind |-> kind, cur |-> cur, amount |-> amount]

(* Two carriers' itineraries, one of which a second fetch may find priced in *)
(* another currency, and the calendar's price.                               *)
OffersOn(day, depart) ==
    {Row(day, depart, 1, "itinerary", 1, 20),
     Row(day, depart, 2, "itinerary", 1, 15), Row(day, depart, 2, "itinerary", 2, 15),
     Row(day, depart, 3, "calendar_cheapest", 1, 10)}

MCRows == UNION {OffersOn(day, depart) : day \in 0..1, depart \in MCDepartures}

MCPrices == {[amount |-> 10, cur |-> 1], [amount |-> 15, cur |-> 2]}
=============================================================================
