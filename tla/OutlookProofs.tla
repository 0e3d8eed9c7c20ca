---------------------------- MODULE OutlookProofs ----------------------------
(***************************************************************************)
(* Theorems about Outlook: what a verdict, the expected low and the        *)
(* sentence of a trip have in common, for any configuration, any index of  *)
(* medians and any day before departure.                                   *)
(***************************************************************************)
EXTENDS Outlook, ForecastProofs

(* A trip is watched under one configuration and one index. *)
TripInv == cfg \in Configs /\ index \in Indexes(cfg) /\ now \in Nat

LEMMA TripInvInit == Init => TripInv
BY OutlookAssumption DEF Init, TripInv

LEMMA TripInvNext == TripInv /\ [Next]_vars => TripInv'
BY DEF TripInv, Next, NextDay, vars

(* In every reachable state. *)
THEOREM TripsAreConsistent == Spec => []TripInv
BY TripInvInit, TripInvNext, PTL DEF Spec

LEMMA TripIs ==
    ASSUME TripInv
    PROVE  IsCurveConfig(cfg) /\ IsIndex(cfg, index) /\ now \in Nat
<1>1. IsCurveConfig(cfg)
  BY OutlookAssumption DEF TripInv, IsCurveConfig
<1>2. ASSUME NEW b \in BucketNames(cfg)
      PROVE  /\ index.cell[b] # NoData => index.cell[b].median \in Nat
             /\ index.bucket[b] # NoData => index.bucket[b] \in Nat
  <2>1. index.cell[b] \in Cells /\ index.bucket[b] \in Medians \cup {NoData}
    BY DEF TripInv, Indexes
  <2>2. \A m \in Medians \cup CellMedians : m \in Nat
    BY OutlookAssumption
  <2> QED BY <2>1, <2>2 DEF Cells
<1> QED BY <1>1, <1>2 DEF TripInv, IsIndex

LEMMA TodaysCurveIs ==
    ASSUME TripInv
    PROVE  /\ now \in Nat /\ DOMAIN TodaysCurve \subseteq 0..now /\ IsFiniteSet(DOMAIN TodaysCurve)
           /\ \A d \in DOMAIN TodaysCurve : TodaysCurve[d] \in Nat \ {0}
BY TripIs, CurveIs DEF TodaysCurve

(* What has to be so for advice to be given. *)
LEMMA VerdictIs ==
    ASSUME now \in Nat, NEW p, NEW curve, DecideVerdict(cfg, p, curve, now) # "neutral"
    PROVE  /\ p # NoData /\ now > 0 /\ now \in DOMAIN curve
           /\ DecideVerdict(cfg, p, curve, now) = "book_now" => Rises(cfg, curve, now)
           /\ DecideVerdict(cfg, p, curve, now) = "wait" => WaitCandidates(cfg, curve, now) # {}
<1>1. p # NoData /\ now > 0 /\ now \in DOMAIN curve
  BY DEF DecideVerdict
<1>2. DecideVerdict(cfg, p, curve, now) =
        IF p <= cfg.bookMaxPct /\ Rises(cfg, curve, now) THEN "book_now"
        ELSE IF p >= cfg.waitMinPct /\ WaitCandidates(cfg, curve, now) # {} THEN "wait"
        ELSE "neutral"
  <2>1. ~ (p = NoData \/ now <= 0 \/ now \notin DOMAIN curve)
    BY <1>1
  <2> QED BY <2>1 DEF DecideVerdict
<1> QED BY <1>1, <1>2, Zenon

(* Whoever is told to wait is told of days that are to come, within the search
   horizon, with prices the advice holds for, and of all there are together
   (find_expected_low, decide_verdict): for any curve. *)
THEOREM WaitsCanBeActedOn == Spec => []WaitCanBeActedOn
<1>1. TripInv => WaitCanBeActedOn
  <2> DEFINE curve == TodaysCurve
             low == ExpectedLow(cfg, curve, now)
             days == WaitCandidates(cfg, curve, now)
             band == InBand(curve, days)
             Later(d) == 0 <= d /\ d < now /\ now - d <= cfg.waitSearch
             OnOffer(d) == /\ Later(d) /\ d \in DOMAIN curve
                           /\ curve[d] * 100 * cfg.waitDrop.den
                                <= curve[now] * (100 * cfg.waitDrop.den - cfg.waitDrop.num)
                           /\ curve[d] * 100 <= low.amount * (100 + BandPct)
             Good == /\ low # NoData
                     /\ low.to <= low.from
                     /\ \A d \in low.to..low.from : OnOffer(d)
                     /\ \E d \in low.to..low.from : curve[d] = low.amount
                     /\ \A d \in DOMAIN curve : Later(d) => curve[d] >= low.amount
                     /\ ~OnOffer(low.from + 1) /\ ~OnOffer(low.to - 1)
  <2> SUFFICES ASSUME TripInv, NEW p \in Percentiles, DecideVerdict(cfg, p, curve, now) = "wait"
               PROVE  Good
    BY DEF WaitCanBeActedOn
  <2>1. /\ now \in Nat /\ DOMAIN curve \subseteq 0..now /\ IsFiniteSet(DOMAIN curve)
        /\ \A d \in DOMAIN curve : curve[d] \in Nat \ {0}
    BY TodaysCurveIs
  <2>2. now > 0 /\ now \in DOMAIN curve /\ days # {}
    BY <2>1, VerdictIs
  <2>3. /\ cfg.waitSearch \in Nat
        /\ cfg.waitDrop.num \in Nat /\ cfg.waitDrop.den \in Nat \ {0}
    BY OutlookAssumption DEF TripInv
  <2> HIDE DEF curve
  <2>4. \A d : d \in days <=> /\ d \in DOMAIN curve
                              /\ now - cfg.waitSearch <= d /\ d <= now - 1
                              /\ curve[d] * 100 * cfg.waitDrop.den
                                <= curve[now] * (100 * cfg.waitDrop.den - cfg.waitDrop.num)
    BY <2>1, <2>2 DEF WaitCandidates
  <2>5. /\ low # NoData /\ low.amount \in Nat \ {0} /\ low.amount = Lowest(curve, days)
        /\ low.from \in Int /\ low.to \in Int /\ low.to <= low.from
        /\ low.to..low.from \subseteq band
        /\ \E d \in low.to..low.from : d \in days /\ curve[d] = low.amount
        /\ \A d \in days : low.amount <= curve[d]
        /\ low.from + 1 \notin band /\ low.to - 1 \notin band
    BY <2>1, <2>2, ExpectedLowIs
  <2>6. \A d : d \in band <=> d \in days /\ curve[d] * 100 <= low.amount * (100 + BandPct)
    BY <2>5 DEF InBand
  <2> HIDE DEF low, days, band
  <2>7. \A d \in Int : OnOffer(d) <=> d \in band
    <3> SUFFICES ASSUME NEW d \in Int PROVE OnOffer(d) <=> d \in band
      OBVIOUS
    <3>1. d \in DOMAIN curve => 0 <= d
      BY <2>1
    <3>2. now - d <= cfg.waitSearch <=> now - cfg.waitSearch <= d
      BY <2>1, <2>3
    <3>3. d < now <=> d <= now - 1
      BY <2>1
    <3> QED BY <2>4, <2>6, <3>1, <3>2, <3>3
  <2>8. \A d \in low.to..low.from : OnOffer(d)
    <3>1. \A d \in low.to..low.from : d \in Int /\ d \in band
      BY <2>5
    <3> HIDE DEF OnOffer
    <3> QED BY <2>7, <3>1
  <2>9. ~OnOffer(low.from + 1) /\ ~OnOffer(low.to - 1)
    <3>1. low.from + 1 \in Int /\ low.to - 1 \in Int
      BY <2>5
    <3> HIDE DEF OnOffer
    <3> QED BY <2>5, <2>7, <3>1
  <2>10. ASSUME NEW d \in DOMAIN curve, Later(d) PROVE curve[d] >= low.amount
    <3>1. PICK e \in days : curve[e] = low.amount
      BY <2>5
    <3>2. d \in Int /\ curve[d] \in Nat /\ curve[e] \in Nat /\ curve[now] \in Nat
      BY <2>1, <2>2, <2>4, <3>1
    <3>3. now - cfg.waitSearch <= d /\ d <= now - 1
      BY <2>1, <2>3, <2>10, <3>2
    <3>4. CASE d \in days
      BY <2>5, <3>2, <3>4
    <3>5. CASE d \notin days
      <4> DEFINE den == cfg.waitDrop.den
                 line == curve[now] * (100 * den - cfg.waitDrop.num)
      <4>1. line \in Int /\ den \in Nat \ {0}
        BY <2>3, <3>2
      <4>2. ~ (curve[d] * 100 * den <= line)
        BY <2>4, <3>3, <3>5
      <4>3. curve[e] * 100 * den <= line
        BY <2>4
      <4> HIDE DEF line, den
      <4>4. curve[d] < curve[e] => curve[d] * 100 * den <= curve[e] * 100 * den
        BY <3>2, <4>1
      <4>5. curve[e] * 100 * den \in Int /\ curve[d] * 100 * den \in Int
        BY <3>2, <4>1
      <4>6. ~ (curve[d] < curve[e])
        BY <4>1, <4>2, <4>3, <4>4, <4>5
      <4> QED BY <3>1, <3>2, <4>6
    <3> QED BY <3>4, <3>5
  <2> HIDE DEF OnOffer, Later
  <2> QED BY <2>5, <2>8, <2>9, <2>10
<1> QED BY <1>1, TripsAreConsistent, PTL

(* Rounding keeps the order of fractions. *)
LEMMA RoundHalfUpMonotone ==
    ASSUME NEW a \in Int, NEW c \in Nat \ {0}, NEW n \in Nat, NEW d \in Nat \ {0},
           a * d >= c * n
    PROVE  RoundHalfUp(a, c) >= RoundHalfUp(n, d)
<1> DEFINE q == RoundHalfUp(a, c)
           r == RoundHalfUp(n, d)
<1>1. q \in Int /\ 2 * a + c < 2 * c * (q + 1)
  <2> DEFINE x == 2 * a + c
             y == 2 * c
  <2>1. x \in Int /\ y \in Nat \ {0} /\ q = x \div y
    BY DEF RoundHalfUp
  <2> HIDE DEF x, y, q
  <2>2. q \in Int /\ x < y * (q + 1)
    BY <2>1
  <2> QED BY <2>2 DEF x, y
<1>2. r \in Int /\ 2 * d * r <= 2 * n + d
  <2> DEFINE x == 2 * n + d
             y == 2 * d
  <2>1. x \in Int /\ y \in Nat \ {0} /\ r = x \div y
    BY DEF RoundHalfUp
  <2> HIDE DEF x, y, r
  <2>2. r \in Int /\ y * r <= x
    BY <2>1
  <2> QED BY <2>2 DEF x, y
<1> HIDE DEF q, r
<1>3. SUFFICES ASSUME q + 1 <= r PROVE FALSE
  BY <1>1, <1>2 DEF q, r
<1>4. (2 * a + c) * d < 2 * c * (q + 1) * d
  <2> DEFINE x == 2 * a + c
             y == 2 * c * (q + 1)
  <2>1. x \in Int /\ y \in Int /\ x < y
    BY <1>1
  <2> HIDE DEF x, y
  <2>2. (y - x) * d >= 1 /\ (y - x) * d = y * d - x * d
    BY <2>1
  <2>3. x * d \in Int /\ y * d \in Int
    BY <2>1
  <2> QED BY <2>2, <2>3 DEF x, y
<1>5. c * (2 * d * r) <= c * (2 * n + d)
  <2> DEFINE x == 2 * d * r
             y == 2 * n + d
  <2>1. x \in Int /\ y \in Int /\ x <= y
    BY <1>2
  <2> HIDE DEF x, y
  <2>2. c * (y - x) >= 0 /\ c * (y - x) = c * y - c * x
    BY <2>1
  <2>3. c * x \in Int /\ c * y \in Int
    BY <2>1
  <2> QED BY <2>2, <2>3 DEF x, y
<1>6. (q + 1) * (c * d) <= r * (c * d)
  <2> DEFINE cd == c * d
  <2>1. cd \in Nat
    OBVIOUS
  <2> HIDE DEF cd
  <2>2. (q + 1) * cd <= r * cd
    BY <1>1, <1>2, <1>3, <2>1
  <2> QED BY <2>2 DEF cd
<1>7. /\ (2 * a + c) * d = 2 * (a * d) + c * d
      /\ 2 * c * (q + 1) * d = 2 * ((q + 1) * (c * d))
      /\ c * (2 * d * r) = 2 * (r * (c * d))
      /\ c * (2 * n + d) = 2 * (c * n) + c * d
  BY <1>1, <1>2
<1>8. a * d \in Int /\ c * d \in Int /\ c * n \in Int
      /\ (q + 1) * (c * d) \in Int /\ r * (c * d) \in Int
  BY <1>1, <1>2
<1> QED BY <1>4, <1>5, <1>6, <1>7, <1>8

(* A share that reaches a threshold is not quoted below it, rounded as it is. *)
LEMMA PercentAtLeast ==
    ASSUME NEW a \in Int, NEW c \in Nat \ {0}, NEW t \in [num : Nat, den : Nat \ {0}],
           100 * a * t.den >= c * t.num
    PROVE  Percent(a, c) >= Quoted(t)
BY RoundHalfUpMonotone DEF Percent, Quoted

(* The sentence that explains a verdict can be written, and the rise or the
   drop it quotes is at least the threshold the verdict was decided on, rounded
   as the sentence rounds (build_reason against decide_verdict): for any
   thresholds, whole or fractional. *)
THEOREM SentencesMeetTheThreshold == Spec => []SentenceMeetsThreshold
<1>1. TripInv => SentenceMeetsThreshold
  <2> DEFINE curve == TodaysCurve
             low == ExpectedLow(cfg, curve, now)
             Verdict(p) == DecideVerdict(cfg, p, curve, now)
             Said(p) == Reason(Verdict(p), p, IF Verdict(p) = "wait" THEN low ELSE NoData,
                               curve, now, 1)
  <2> SUFFICES ASSUME TripInv, NEW p \in Percentiles
               PROVE  /\ ~Said(p).raises
                      /\ Verdict(p) = "book_now" => Said(p).move >= Quoted(cfg.bookRise)
                      /\ Verdict(p) = "wait" => Said(p).move >= Quoted(cfg.waitDrop)
    BY DEF SentenceMeetsThreshold
  <2>1. /\ now \in Nat /\ DOMAIN curve \subseteq 0..now /\ IsFiniteSet(DOMAIN curve)
        /\ \A d \in DOMAIN curve : curve[d] \in Nat \ {0}
    BY TodaysCurveIs
  <2>2. {cfg.bookRise, cfg.waitDrop} \subseteq [num : Nat, den : Nat \ {0}]
    BY OutlookAssumption DEF TripInv
  <2> DEFINE verdict == Verdict(p)
  <2>3. verdict # "neutral" =>
          /\ p # NoData /\ now > 0 /\ now \in DOMAIN curve
          /\ verdict = "book_now" => Rises(cfg, curve, now)
          /\ verdict = "wait" => WaitCandidates(cfg, curve, now) # {}
    BY <2>1, VerdictIs
  <2> HIDE DEF curve
  <2>4. verdict = "wait" =>
          /\ low # NoData /\ low.amount \in Nat
          /\ \E d \in WaitCandidates(cfg, curve, now) : curve[d] = low.amount
    <3> HIDE DEF verdict, low
    <3> QED BY <2>1, <2>3, ExpectedLowIs DEF low
  <2> HIDE DEF low, verdict
  <2>5. /\ verdict = "book_now" =>
             Said(p).move = Percent(Peak(curve, now) - curve[now], curve[now])
        /\ verdict = "wait" => Said(p).move = Percent(curve[now] - low.amount, curve[now])
        /\ ~Said(p).raises
    BY <2>3, <2>4 DEF Reason, verdict
  <2>6. ASSUME verdict = "book_now"
        PROVE  Percent(Peak(curve, now) - curve[now], curve[now]) >= Quoted(cfg.bookRise)
    <3> DEFINE c == curve[now]
               peak == Peak(curve, now)
               t == cfg.bookRise
               seen == {e \in DOMAIN curve : e <= now}
               amounts == {curve[d] : d \in seen}
    <3>1. c \in Nat \ {0} /\ peak * 100 * t.den >= c * (100 * t.den + t.num)
      BY <2>1, <2>3, <2>6 DEF Rises
    <3>2. peak \in Int
      <4> DEFINE f == [d \in seen |-> curve[d]]
      <4>1. IsFiniteSet(seen)
        BY <2>1, FS_Subset
      <4>2. f \in Surjection(seen, amounts)
        BY DEF Surjection
      <4>3. amounts # {} /\ amounts \subseteq Int
        BY <2>1, <2>3, <2>6
      <4> HIDE DEF f, seen
      <4>4. IsFiniteSet(amounts)
        <5> HIDE DEF amounts
        <5> QED BY <4>1, <4>2, FS_Surjection
      <4>5. Max(amounts) \in amounts
        <5> HIDE DEF amounts
        <5> QED BY <4>3, <4>4, MaxIs
      <4> QED BY <4>3, <4>5 DEF Peak, seen
    <3>0. t \in [num : Nat, den : Nat \ {0}]
      BY <2>2
    <3> HIDE DEF c, peak, t
    <3>3. 100 * (peak - c) * t.den >= c * t.num
      <4>1. /\ c * (100 * t.den + t.num) = c * 100 * t.den + c * t.num
            /\ 100 * (peak - c) * t.den = peak * 100 * t.den - c * 100 * t.den
        BY <3>1, <3>2, <3>0
      <4>2. c * t.num \in Int /\ c * 100 * t.den \in Int /\ peak * 100 * t.den \in Int
        BY <3>1, <3>2, <3>0
      <4> QED BY <3>1, <4>1, <4>2
    <3>4. peak - c \in Int
      BY <3>1, <3>2
    <3>5. Percent(peak - c, c) >= Quoted(t)
      BY <3>1, <3>3, <3>4, <3>0, PercentAtLeast
    <3> QED BY <3>5 DEF c, peak, t
  <2>7. ASSUME verdict = "wait"
        PROVE  Percent(curve[now] - low.amount, curve[now]) >= Quoted(cfg.waitDrop)
    <3> DEFINE c == curve[now]
               t == cfg.waitDrop
               a == low.amount
    <3>1. PICK d \in WaitCandidates(cfg, curve, now) : curve[d] = a
      BY <2>4, <2>7
    <3>2. c \in Nat \ {0} /\ curve[d] * 100 * t.den <= c * (100 * t.den - t.num)
      BY <2>1, <2>3, <2>7 DEF WaitCandidates
    <3>3. a \in Nat /\ t \in [num : Nat, den : Nat \ {0}]
      BY <2>2, <2>4, <2>7
    <3> HIDE DEF c, t, a
    <3>4. 100 * (c - a) * t.den >= c * t.num
      <4>1. /\ c * (100 * t.den - t.num) = c * 100 * t.den - c * t.num
            /\ 100 * (c - a) * t.den = c * 100 * t.den - a * 100 * t.den
        BY <3>2, <3>3
      <4>2. c * t.num \in Int /\ c * 100 * t.den \in Int /\ a * 100 * t.den \in Int
        BY <3>2, <3>3
      <4> QED BY <3>1, <3>2, <4>1, <4>2
    <3>5. c - a \in Int
      BY <3>2, <3>3
    <3>6. Percent(c - a, c) >= Quoted(t)
      BY <3>2, <3>3, <3>4, <3>5, PercentAtLeast
    <3> QED BY <3>6 DEF c, t, a
  <2>8. (verdict = "book_now" => Said(p).move >= Quoted(cfg.bookRise))
        /\ (verdict = "wait" => Said(p).move >= Quoted(cfg.waitDrop))
    <3> HIDE DEF Said
    <3> QED BY <2>5, <2>6, <2>7
  <2> QED BY <2>5, <2>8 DEF verdict
<1> QED BY <1>1, TripsAreConsistent, PTL

(* The place of a day in a list without gaps. *)
LEMMA PlaceWithoutGaps ==
    ASSUME NEW lo \in Nat, NEW n \in Nat, NEW e \in lo..n
    PROVE  Cardinality({f \in lo..n : f < e}) = e - lo
<1>1. {f \in lo..n : f < e} = lo..(e - 1)
  OBVIOUS
<1>2. lo \in Int /\ e - 1 \in Int
  OBVIOUS
<1>3. Cardinality(lo..(e - 1)) = IF lo > e - 1 THEN 0 ELSE (e - 1) - lo + 1
  BY <1>2, FS_Interval, Zenon
<1>4. Cardinality(lo..(e - 1)) = e - lo
  BY <1>3
<1> QED BY <1>1, <1>4

LEMMA ChunkIsNear ==
    ASSUME TripInv, NEW lo \in Nat, NEW d \in lo..now, NEW e \in Chunk(cfg, lo..now, d)
    PROVE  e \in Reach(d) \cap (lo..now)
<1>1. now \in Nat /\ cfg.smoothing \in Nat \ {0}
  BY OutlookAssumption DEF TripInv
<1>2. /\ e \in lo..now
      /\ Cardinality({f \in lo..now : f < e})
           >= Cardinality({f \in lo..now : f < d}) - (cfg.smoothing - 1) \div 2
      /\ Cardinality({f \in lo..now : f < e})
           <= Cardinality({f \in lo..now : f < d}) + cfg.smoothing \div 2
  BY DEF Chunk
<1>3. e - lo >= (d - lo) - (cfg.smoothing - 1) \div 2 /\ e - lo <= (d - lo) + cfg.smoothing \div 2
  BY <1>1, <1>2, PlaceWithoutGaps
<1>4. (cfg.smoothing - 1) \div 2 <= cfg.smoothing \div 2
      /\ (cfg.smoothing - 1) \div 2 \in Int /\ cfg.smoothing \div 2 \in Int
  BY <1>1
<1>5. e \in Int /\ d \in Int /\ d - cfg.smoothing \div 2 <= e /\ e <= d + cfg.smoothing \div 2
  BY <1>1, <1>2, <1>3, <1>4
<1>6. e \in Reach(d)
  BY <1>4, <1>5 DEF Reach
<1> QED BY <1>2, <1>6

(* Where no day of the curve's range lacks data, a point lies between the
   lowest and the highest of the expectations its window reaches, to the unit
   it is rounded to (_smooth, "a centred rolling mean"): for any window. *)
THEOREM SmoothingIsLocal == Spec => []SmoothingIsLocalWithoutGaps
<1>1. TripInv => SmoothingIsLocalWithoutGaps
  <2> SUFFICES ASSUME TripInv, DOMAIN TodaysCurve = CurveDays(cfg, now),
                      NEW d \in DOMAIN TodaysCurve
               PROVE  PointWithinReach(TodaysCurve, d)
    BY DEF SmoothingIsLocalWithoutGaps
  <2> DEFINE days == RawDays(cfg, index, now)
             near == Reach(d) \cap DOMAIN TodaysCurve
             raw == {Raw2(cfg, index, e) : e \in near}
             point == TodaysCurve[d]
  <2>1. IsCurveConfig(cfg) /\ IsIndex(cfg, index) /\ now \in Nat
    BY TripIs
  <2>2. /\ DOMAIN TodaysCurve = days /\ IsFiniteSet(days)
        /\ \A e \in days : Raw2(cfg, index, e) \in Nat
    BY <2>1, CurveIs, RawIs DEF TodaysCurve
  <2>3. PICK lo \in Nat : days = lo..now
    BY <2>1, <2>2, RawIs
  <2> HIDE DEF days
  <2>4. d \in days /\ \A e \in Chunk(cfg, days, d) : e \in near
    BY <2>2, <2>3, ChunkIsNear
  <2>5. d \in Chunk(cfg, days, d)
    BY <2>1, <2>2, <2>4, ChunkIs
  <2>6. IsFiniteSet(raw) /\ raw # {} /\ raw \subseteq Nat
    <3> DEFINE f == [e \in near |-> Raw2(cfg, index, e)]
    <3>1. f \in Surjection(near, raw)
      BY DEF Surjection
    <3>2. near \subseteq days /\ d \in near
      BY <2>2, <2>4, <2>5
    <3>3. raw # {} /\ raw \subseteq Nat
      BY <2>2, <3>2
    <3>4. IsFiniteSet(near)
      BY <2>2, <3>2, FS_Subset
    <3> HIDE DEF f, raw, near
    <3> QED BY <3>1, <3>3, <3>4, FS_Surjection
  <2>7. /\ Min(raw) \in raw /\ \A r \in raw : Min(raw) <= r
        /\ Max(raw) \in raw /\ \A r \in raw : r <= Max(raw)
    <3>1. raw \subseteq Int
      <4> HIDE DEF raw
      <4> QED BY <2>6
    <3> HIDE DEF raw
    <3> QED BY <2>6, <3>1, MinIs, MaxIs
  <2>8. \A e \in Chunk(cfg, days, d) :
           Min(raw) <= Raw2(cfg, index, e) /\ Raw2(cfg, index, e) <= Max(raw)
    BY <2>4, <2>7
  <2>9. Min(raw) \in Nat /\ Max(raw) \in Nat
    BY <2>6, <2>7
  <2>10. point \in Nat /\ Min(raw) <= 2 * point /\ (2 * point <= 2 \/ 2 * point <= Max(raw) + 1)
    <3> HIDE DEF raw
    <3> QED BY <2>1, <2>4, <2>8, <2>9, PointIs DEF TodaysCurve, days
  <2> HIDE DEF raw, point
  <2>11. Max({2, Max(raw) + 1}) >= 2 /\ Max({2, Max(raw) + 1}) >= Max(raw) + 1
         /\ Max({2, Max(raw) + 1}) \in Int
    <3>1. 2 \in Int /\ Max(raw) + 1 \in Int
      BY <2>9
    <3> QED BY <3>1, MaxOfTwo
  <2>12. 2 * point >= Min(raw) /\ 2 * point <= Max({2, Max(raw) + 1})
    BY <2>9, <2>10, <2>11
  <2> QED BY <2>12 DEF PointWithinReach, raw, point
<1> QED BY <1>1, TripsAreConsistent, PTL

=============================================================================
