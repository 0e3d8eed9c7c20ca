------------------------------ MODULE Forecast ------------------------------
(***************************************************************************)
(* The arithmetic of a prediction: the percentile of a price in a sample   *)
(* (models/baseline/percentile.py), the expected curve and the expected    *)
(* low (curve.py), the verdict, the confidence and the sentence that       *)
(* explains them (verdict.py).                                             *)
(*                                                                         *)
(* Days are days to departure.  A curve is a function from the days that   *)
(* have a point to amounts; the index it is built from gives, for the      *)
(* month and weekday of the trip, the median of a bucket's cell and how    *)
(* many observations it has, and the median of the whole bucket.  A median *)
(* is a half-integer and is kept doubled; a mean of doubled medians is     *)
(* rounded half-up, once, where the code rounds it.  The thresholds that   *)
(* are floats in the configuration are fractions, [num, den].              *)
(***************************************************************************)
EXTENDS Buckets, FiniteSets, FiniteSetsExt

CONSTANT NoData   \* a cell or bucket without observations, a missing value

(* None is neither a number, nor an expected low, nor a fraction. *)
ASSUME ForecastAssumption ==
    /\ NoData \notin Int
    /\ NoData \notin [amount : Int, from : Int, to : Int] \cup [num : Int, den : Int]

-----------------------------------------------------------------------------
(* percentile.py                                                           *)

(* round_half_up and round_half_up_float, on a fraction. *)
RoundHalfUp(num, den) == (2 * num + den) \div (2 * den)

(* Mutant: ties count whole. *)
PercentileOrBelow(amount, sample) ==
    RoundHalfUp(100 * Cardinality({row \in sample : row.amount <= amount}), Cardinality(sample))

(* percentile_of_sorted: 100 (below + equal / 2) / n.  A sample is a set of
   observations, so that equal amounts count as often as they occur. *)
PercentileOf(amount, sample) ==
    LET below == Cardinality({row \in sample : row.amount < amount})
        equal == Cardinality({row \in sample : row.amount = amount})
    IN  RoundHalfUp(200 * below + 100 * equal, 2 * Cardinality(sample))

-----------------------------------------------------------------------------
(* distributions.py: the two statistics a prediction uses.                 *)

(* The k-th smallest amount of a sample. *)
OrderStatistic(sample, k) ==
    CHOOSE x \in {row.amount : row \in sample} :
        /\ Cardinality({row \in sample : row.amount < x}) < k
        /\ k <= Cardinality({row \in sample : row.amount <= x})

(* The median, doubled. *)
Median2(sample) ==
    LET n == Cardinality(sample)
    IN  OrderStatistic(sample, (n + 1) \div 2) + OrderStatistic(sample, n \div 2 + 1)

(* cov > bound (s = 1) or cov < bound (s = -1), squared and scaled: the population
   variance over the squared mean; null for one observation. *)
CovCompares(sample, bound, s) ==
    LET n == Cardinality(sample)
        sum == MapThenSumSet(LAMBDA row : row.amount, sample)
        squares == MapThenSumSet(LAMBDA row : row.amount * row.amount, sample)
        variance == n * squares - sum * sum
    IN  n >= 2 /\ s * (variance * bound.den * bound.den - sum * sum * bound.num * bound.num) > 0

-----------------------------------------------------------------------------
(* curve.py                                                                *)

BucketNames(cfg) == {cfg.buckets[i].name : i \in DOMAIN cfg.buckets}

(* The days of the curve's range, and what the index has for one of them. *)
CurveDays(cfg, now) == Max({0, now - cfg.horizon}) .. now

CellIsThick(cfg, index, b) ==
    index.cell[b] # NoData /\ index.cell[b].count >= cfg.curveMinCell

RawDays(cfg, index, now) ==
    {d \in CurveDays(cfg, now) :
        LET b == ApBucket(cfg.buckets, d) IN
          CellIsThick(cfg, index, b) \/ index.bucket[b] # NoData}

Raw2(cfg, index, d) ==
    LET b == ApBucket(cfg.buckets, d)
    IN  IF CellIsThick(cfg, index, b) THEN index.cell[b].median ELSE index.bucket[b]

(* The days of the list that are averaged at day d: the centred window is
   counted in positions of the list and cut off at its ends. *)
Chunk(cfg, days, d) ==
    LET Position(e) == Cardinality({f \in days : f < e})
    IN  {e \in days : /\ Position(e) >= Position(d) - (cfg.smoothing - 1) \div 2
                      /\ Position(e) <= Position(d) + cfg.smoothing \div 2}

(* Mutant: the smoothed value is truncated to minor units. *)
TruncatedCurve(cfg, index, now) ==
    LET days == RawDays(cfg, index, now)
        Sum2(S) == MapThenSumSet(LAMBDA e : Raw2(cfg, index, e), S)
    IN  [d \in days |->
            Sum2(Chunk(cfg, days, d)) \div (2 * Cardinality(Chunk(cfg, days, d)))]

(* curve_from_index: the raw values of the days that have one, smoothed by a
   rolling mean over the list of them and rounded, at least 1. *)
Curve(cfg, index, now) ==
    LET days == RawDays(cfg, index, now)
        Sum2(S) == MapThenSumSet(LAMBDA e : Raw2(cfg, index, e), S)
    IN  [d \in days |->
            Max({1, RoundHalfUp(Sum2(Chunk(cfg, days, d)),
                                2 * Cardinality(Chunk(cfg, days, d)))})]

(* wait_candidates: the later days on which the curve is low enough. *)
WaitCandidates(cfg, curve, now) ==
    IF now <= 0 \/ now \notin DOMAIN curve THEN {}
    ELSE {d \in DOMAIN curve :
            /\ now - cfg.waitSearch <= d /\ d <= now - 1
            /\ curve[d] * 100 * cfg.waitDrop.den
                 <= curve[now] * (100 * cfg.waitDrop.den - cfg.waitDrop.num)}

BandPct == 1   \* EXPECTED_LOW_BAND_PCT

Lowest(curve, days) == Min({curve[d] : d \in days})

InBand(curve, days) == {d \in days : curve[d] * 100 <= Lowest(curve, days) * (100 + BandPct)}

(* The first minimum of a list in descending order of days. *)
Argmin(curve, days) == Max({d \in days : curve[d] = Lowest(curve, days)})

(* Mutant: the window is every day of the band. *)
WholeBandLow(cfg, curve, now) ==
    LET days == WaitCandidates(cfg, curve, now) IN
      IF days = {} THEN NoData
      ELSE [amount |-> Lowest(curve, days), from |-> Max(InBand(curve, days)),
            to |-> Min(InBand(curve, days))]

(* find_expected_low: the lowest candidate and the run of days around it in
   its band; from and to are days to departure, so from >= to. *)
ExpectedLow(cfg, curve, now) ==
    LET days == WaitCandidates(cfg, curve, now)
        band == InBand(curve, days)
        at == Argmin(curve, days)
    IN  IF days = {} THEN NoData
        ELSE [amount |-> Lowest(curve, days),
              from |-> Max({d \in band : at <= d /\ at..d \subseteq band}),
              to |-> Min({d \in band : d <= at /\ d..at \subseteq band})]

-----------------------------------------------------------------------------
(* verdict.py                                                              *)

Peak(curve, now) == Max({curve[d] : d \in {e \in DOMAIN curve : e <= now}})

Rises(cfg, curve, now) ==
    Peak(curve, now) * 100 * cfg.bookRise.den
      >= curve[now] * (100 * cfg.bookRise.den + cfg.bookRise.num)

(* Mutant: a dear price is advice enough to wait. *)
DecideOnPriceOnly(cfg, percentile, curve, now) ==
    IF percentile = NoData \/ now <= 0 \/ now \notin DOMAIN curve THEN "neutral"
    ELSE IF percentile <= cfg.bookMaxPct /\ Rises(cfg, curve, now) THEN "book_now"
    ELSE IF percentile >= cfg.waitMinPct THEN "wait"
    ELSE "neutral"

(* decide_verdict, in the order of its returns. *)
DecideVerdict(cfg, percentile, curve, now) ==
    IF percentile = NoData \/ now <= 0 \/ now \notin DOMAIN curve THEN "neutral"
    ELSE IF percentile <= cfg.bookMaxPct /\ Rises(cfg, curve, now) THEN "book_now"
    ELSE IF percentile >= cfg.waitMinPct /\ WaitCandidates(cfg, curve, now) # {} THEN "wait"
    ELSE "neutral"

(* decide_confidence: low is asked first. *)
DecideConfidence(cfg, sample) ==
    LET n == Cardinality(sample) IN
      IF n < cfg.lowMaxObs \/ CovCompares(sample, cfg.lowMaxCov, 1) THEN "low"
      ELSE IF n >= cfg.highMinObs /\ CovCompares(sample, cfg.highMaxCov, -1) THEN "high"
      ELSE "medium"

(* Mutant: the quoted move is truncated. *)
PercentTruncated(num, den) == (100 * num) \div den

Percent(num, den) == RoundHalfUp(100 * num, den)

(* build_reason: what the sentence claims.  raises is the ValueError of a
   verdict whose numbers are missing. *)
Reason(verdict, percentile, low, curve, now, n) ==
    LET missing == \/ verdict = "book_now" /\ now \notin DOMAIN curve
                   \/ verdict = "wait" /\ (low = NoData \/ now \notin DOMAIN curve)
        move == IF verdict = "book_now" THEN Percent(Peak(curve, now) - curve[now], curve[now])
                ELSE IF verdict = "wait" THEN Percent(curve[now] - low.amount, curve[now])
                ELSE NoData
    IN  IF percentile = NoData
          THEN [raises |-> FALSE, cheaperThan |-> NoData, of |-> NoData, move |-> NoData]
        ELSE IF missing
          THEN [raises |-> TRUE, cheaperThan |-> NoData, of |-> NoData, move |-> NoData]
        ELSE [raises |-> FALSE, cheaperThan |-> 100 - percentile, of |-> n, move |-> move]

=============================================================================
