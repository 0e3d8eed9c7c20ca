------------------------------ MODULE Outlook ------------------------------
(***************************************************************************)
(* One trip watched until it departs: each day a fare is quoted and the    *)
(* curve, the verdict and the expected low are computed for it.  The       *)
(* medians are whatever a route's history can leave in the index,          *)
(* buckets without data and thin cells included; PercentileOf and the      *)
(* history itself are Predictor's matter.                                  *)
(***************************************************************************)
EXTENDS Forecast

CONSTANTS
    Configs,      \* the configurations in use
    Medians,      \* doubled medians of buckets
    CellMedians,  \* doubled medians of cells
    Counts,       \* sizes of a cell
    Percentiles,  \* ranks of the quoted fare
    Ahead         \* bound on the days to departure

(* What the validators of BaselineConfig leave: the thresholds are any fractions
   of a per cent, and a drop is less than the whole price. *)
ASSUME OutlookAssumption ==
    /\ \A cfg \in Configs :
         /\ cfg.buckets \in Seq([name : BucketNames(cfg), min : Nat, max : Int \cup {Unbounded}])
         /\ Tiles(cfg.buckets)
         /\ cfg.horizon \in Nat /\ {cfg.smoothing, cfg.waitSearch} \subseteq Nat \ {0}
         /\ {cfg.bookRise, cfg.waitDrop} \subseteq [num : Nat, den : Nat \ {0}]
         /\ cfg.waitDrop.num < 100 * cfg.waitDrop.den
    /\ Medians \cup CellMedians \subseteq Nat \ {0}
    /\ Counts \subseteq Nat \ {0} /\ Ahead \in Nat

VARIABLES cfg, index, now

vars == <<cfg, index, now>>

Cells == {NoData} \cup [count : Counts, median : CellMedians]

(* CurveIndex.build: the cell of a bucket is part of the bucket, so there is
   none where the bucket is empty. *)
Indexes(c) ==
    {ix \in [cell : [BucketNames(c) -> Cells], bucket : [BucketNames(c) -> Medians \cup {NoData}]] :
        \A b \in BucketNames(c) : ix.bucket[b] = NoData => ix.cell[b] = NoData}

Init ==
    /\ cfg \in Configs
    /\ index \in Indexes(cfg)
    /\ now = Ahead

NextDay ==
    /\ now > 0
    /\ now' = now - 1
    /\ UNCHANGED <<cfg, index>>

Next == NextDay

Spec == Init /\ [][Next]_vars

-----------------------------------------------------------------------------
(* Properties.                                                             *)

TodaysCurve == Curve(cfg, index, now)

(* A wait verdict comes with a low the traveller can act on: its window lies
   after today, within the search horizon and before the departure, every day
   of it has a price the advice holds for and within the band of the lowest,
   no day that could be waited for is cheaper, and the window could not be
   extended (find_expected_low, decide_verdict). *)
WaitCanBeActedOn ==
    LET curve == TodaysCurve
        low == ExpectedLow(cfg, curve, now)
        Later(d) == 0 <= d /\ d < now /\ now - d <= cfg.waitSearch
        OnOffer(d) == /\ Later(d) /\ d \in DOMAIN curve
                      /\ curve[d] * 100 * cfg.waitDrop.den
                           <= curve[now] * (100 * cfg.waitDrop.den - cfg.waitDrop.num)
                      /\ curve[d] * 100 <= low.amount * (100 + BandPct)
    IN  \A p \in Percentiles : DecideVerdict(cfg, p, curve, now) = "wait" =>
          /\ low # NoData
          /\ low.to <= low.from
          /\ \A d \in low.to..low.from : OnOffer(d)
          /\ \E d \in low.to..low.from : curve[d] = low.amount
          /\ \A d \in DOMAIN curve : Later(d) => curve[d] >= low.amount
          /\ ~OnOffer(low.from + 1) /\ ~OnOffer(low.to - 1)

(* The threshold of a verdict as a sentence would quote it. *)
Quoted(threshold) == RoundHalfUp(threshold.num, threshold.den)

(* Neither verdict contradicts the curve it is explained with: the sentence of
   a book_now quotes a rise, that of a wait a drop, of at least the threshold
   rounded as the sentence rounds, and both can be written (build_reason).  A
   threshold of 5.4 per cent can so be met by a sentence that says 5, never by
   one that says 4. *)
SentenceMeetsThreshold ==
    LET curve == TodaysCurve
        low == ExpectedLow(cfg, curve, now)
    IN  \A p \in Percentiles :
          LET verdict == DecideVerdict(cfg, p, curve, now)
              reason == Reason(verdict, p, IF verdict = "wait" THEN low ELSE NoData,
                               curve, now, 1)
          IN  /\ ~reason.raises
              /\ verdict = "book_now" => reason.move >= Quoted(cfg.bookRise)
              /\ verdict = "wait" => reason.move >= Quoted(cfg.waitDrop)

(* The days of the smoothing window around day d. *)
Reach(d) == (d - cfg.smoothing \div 2) .. (d + cfg.smoothing \div 2)

(* A point of the curve is a mean of what is expected on the days around it:
   it is no lower than the lowest of them, rounded, and no higher than the
   highest. *)
PointWithinReach(curve, d) ==
    LET raw == {Raw2(cfg, index, e) : e \in Reach(d) \cap DOMAIN curve}
    IN  /\ 2 * curve[d] >= Min(raw)
        /\ 2 * curve[d] <= Max({2, Max(raw) + 1})

(* Where every day has data the curve is smoothed over days ("a centred
   rolling mean of curve.smoothing_window_days", expected_curve). *)
SmoothingIsLocalWithoutGaps ==
    LET curve == TodaysCurve IN
      DOMAIN curve = CurveDays(cfg, now) => \A d \in DOMAIN curve : PointWithinReach(curve, d)

=============================================================================
