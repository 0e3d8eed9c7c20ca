------------------------------ MODULE Metrics ------------------------------
(***************************************************************************)
(* The report of a backtest (models/backtest/metrics.py) over the samples  *)
(* of one route: three arms that decide differently on the same samples,   *)
(* what waiting came to, and how the rank of a price compares with the     *)
(* cell it was ranked in.  A sample is a record as Backtest.Score makes    *)
(* it, and a route has one for each departure and as_of, so that a set of  *)
(* samples counts as the list does.  Means and rates are fractions; the    *)
(* code rounds them to six digits for the report's text.                   *)
(***************************************************************************)
EXTENDS Forecast, Functions

(* _mean and _rate: None over nothing. *)
Ratio(num, den) == IF den = 0 THEN NoData ELSE [num |-> num, den |-> den]

OrZero(ratio) == IF ratio = NoData THEN [num |-> 0, den |-> 1] ELSE ratio

(* A list of values is a function of the samples they are taken from. *)
Total(f) == FoldFunction(LAMBDA x, y : x + y, 0, f)

Mean(f) == Ratio(Total(f), Cardinality(DOMAIN f))

(* bool(s.hit): a neutral's None is no hit. *)
Rate(hits) == Ratio(Cardinality({s \in DOMAIN hits : hits[s]}), Cardinality(DOMAIN hits))

(* _median, doubled. *)
TwiceMedian(f) ==
    IF DOMAIN f = {} THEN NoData ELSE Median2({[amount |-> f[s], of |-> s] : s \in DOMAIN f})

Magnitude(n) == IF n < 0 THEN -n ELSE n

Actionable(S) == {s \in S : s.verdict # "neutral"}

Waits(S) == {s \in S : s.verdict = "wait"}

(* _arm: what the arm paid against the oracle, on every sample and on those
   where the baseline gave advice. *)
Arm(paid, hitRate) ==
    LET S == DOMAIN paid
        regret == [s \in S |-> paid[s] - s.oracle] IN
      [samples |-> Cardinality(S), hitRate |-> hitRate,
       actionable |-> Cardinality(Actionable(S)),
       meanRegret |-> OrZero(Mean(regret)),
       twiceMedianRegret |-> IF S = {} THEN 0 ELSE TwiceMedian(regret),
       meanRegretActionable |-> Mean(Restrict(regret, Actionable(S))),
       totalPaid |-> Total(paid)]

BaselineHits(S) == [s \in S |-> s.hit = TRUE]

Arms(S) ==
    [baseline |-> Arm([s \in S |-> s.paid], Rate(BaselineHits(Actionable(S)))),
     alwaysBookNow |-> Arm([s \in S |-> s.priceNow],
                           Rate([s \in Actionable(S) |-> s.priceNow <= s.windowMin])),
     oracle |-> Arm([s \in S |-> s.oracle], NoData)]

(* WaitMetrics. *)
Wait(S) ==
    LET waits == Waits(S) IN
      [samples |-> Cardinality(waits),
       hitRate |-> Rate(BaselineHits(waits)),
       windowHitRate |-> Rate([s \in waits |-> s.windowHit]),
       meanTargetError |-> Mean([s \in waits |-> s.targetError]),
       twiceMedianAbsTargetError |-> TwiceMedian([s \in waits |-> Magnitude(s.targetError)]),
       meanSaving |-> Mean([s \in waits |-> s.priceNow - s.paid])]

Decile(percentile) == IF percentile >= 90 THEN 9 ELSE percentile \div 10

AddFractions(a, b) == [num |-> a.num * b.den + b.num * a.den, den |-> a.den * b.den]

MeanOfFractions(f) ==
    LET sum == FoldFunction(AddFractions, [num |-> 0, den |-> 1], f)
    IN  Ratio(sum.num, sum.den * Cardinality(DOMAIN f))

(* rank_consistency: a bin for each decile of the percentile. *)
RankConsistency(S) ==
    [decile \in 0..9 |->
        LET members == {s \in S : /\ s.percentile # NoData /\ s.realised # NoData
                                  /\ Decile(s.percentile) = decile}
        IN  [samples |-> Cardinality(members),
             realised |-> MeanOfFractions([s \in members |-> s.realised])]]

(* unavailable_counts: samples with each reason, those without one left out. *)
Reasons(S) == [x \in {s.reason : s \in S} \ {NoData} |-> Cardinality({s \in S : s.reason = x})]

(* summarise *)
Summary(S, skipped) ==
    [samples |-> Cardinality(S), skipped |-> skipped,
     verdicts |-> [v \in {"book_now", "neutral", "wait"} |->
                      Cardinality({s \in S : s.verdict = v})],
     unavailable |-> Reasons(S),
     arms |-> Arms(S), wait |-> Wait(S), ranks |-> RankConsistency(S)]

=============================================================================
