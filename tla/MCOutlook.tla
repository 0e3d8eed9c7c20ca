----------------------------- MODULE MCOutlook -----------------------------
(* Four buckets, 0, 1, 2 and 3+, so that the days worth waiting for need not *)
(* be consecutive.  Against 1000 a median of 930 is just on the threshold of *)
(* a wait, 924.5 below it and in the band of 930; a thick cell overrides its *)
(* bucket with 1050, just on the threshold of a book_now.                    *)
EXTENDS Outlook

CONSTANTS b1, b2, b3, b4

MCBuckets ==
    << [name |-> b1, min |-> 0, max |-> 0], [name |-> b2, min |-> 1, max |-> 1],
       [name |-> b3, min |-> 2, max |-> 2], [name |-> b4, min |-> 3, max |-> Unbounded] >>

(* The committed thresholds over a short horizon. *)
Committed ==
    [buckets |-> MCBuckets, horizon |-> 5, smoothing |-> 3, curveMinCell |-> 2,
     bookMaxPct |-> 25, bookRise |-> [num |-> 5, den |-> 1], waitMinPct |-> 60, waitDrop |-> [num |-> 7, den |-> 1],
     waitSearch |-> 3]

(* No smoothing, a search as long as the curve. *)
Plain == [Committed EXCEPT !.smoothing = 1, !.waitSearch = 5]

(* Thresholds of 8.1 and 11.9 per cent: the rise from 925 to 1000 passes the
   first and is quoted as 8, the drop from 1050 to 925 passes the second and is
   quoted as 12. *)
Fractional ==
    [Plain EXCEPT !.bookRise = [num |-> 81, den |-> 10], !.waitDrop = [num |-> 119, den |-> 10]]

MCConfigs == {Committed, Plain, Fractional}
MCMedians == {1849, 1860, 2000}
MCCellMedians == {2100}
=============================================================================
