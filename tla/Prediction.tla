----------------------------- MODULE Prediction -----------------------------
(***************************************************************************)
(* One prediction (models/baseline/predictor.py): what predict() and       *)
(* predict_from_context() make of the rows of a store, and what            *)
(* latest_observed_price() answers from the same store.  All of it is a    *)
(* function of the rows, the configuration, the trip and the day; the      *)
(* processes that ask are in Predictor and Backtest.  A trip is its        *)
(* departure day on one route: the code only ever looks at one route.      *)
(***************************************************************************)
EXTENDS Forecast, RouteHistory

CONSTANTS
    SeasonOf,     \* [departures -> month and weekday of travel]
    Route,        \* the route
    Cfg           \* the configuration the processes run with

DataUnavailableReason ==
    {"departure_in_past", "no_route_history", "no_current_price", "thin_route_history"}

(* What the schema admits of the route, and what a caller may bring along. *)
FareRows ==
    [id : Int, route : {Route}, day : Nat, depart : Int,
     kind : {"itinerary", "calendar_cheapest"}, cur : Int, amount : Nat \ {0}]

Offers == [amount : Nat \ {0}, cur : Int]

(* None is neither a reason nor a price; the configuration has passed its validators. *)
ASSUME PredictionAssumption ==
    /\ NoData \notin DataUnavailableReason
    /\ NoData \notin [amount : Int, cur : Int, source : {"user_supplied", "store"}, day : Int]
    /\ NoData \notin Offers
    /\ Cfg.buckets \in Seq([name : BucketNames(Cfg), min : Nat, max : Int \cup {Unbounded}])
    /\ Tiles(Cfg.buckets) /\ {Cfg.minCell, Cfg.window, Cfg.smoothing} \subseteq Nat \ {0}
    /\ Cfg.horizon \in Nat

(* RouteContext.bucket_samples. *)
BucketSample(cfg, history, b) ==
    {row \in history : ApBucketExpr(cfg.buckets, DaysToDeparture(row)) = b}

Cell(cfg, history, b, season) ==
    {row \in BucketSample(cfg, history, b) : SeasonOf[row.depart] = season}

(* RouteContext.curve_index, at the month and weekday of one trip. *)
CurveIndex(cfg, history, depart) ==
    [cell |-> [b \in BucketNames(cfg) |->
        LET cell == Cell(cfg, history, b, SeasonOf[depart])
        IN  IF cell = {} THEN NoData
            ELSE [count |-> Cardinality(cell), median |-> Median2(cell)]],
     bucket |-> [b \in BucketNames(cfg) |->
        LET sample == BucketSample(cfg, history, b)
        IN  IF sample = {} THEN NoData ELSE Median2(sample)]]

NoCurve == [d \in {} |-> 0]

(* The currency of the context: every row of a history has the same. *)
ContextCurrency(history) ==
    IF history = {} THEN NoData ELSE (CHOOSE row \in history : TRUE).cur

Supplied(price, asOf) ==
    IF price = NoData THEN NoData
    ELSE [amount |-> price.amount, cur |-> price.cur, source |-> "user_supplied", day |-> asOf]

Stored(rows) ==
    IF rows = {} THEN NoData
    ELSE LET row == CHOOSE r \in rows : TRUE
         IN  [amount |-> row.amount, cur |-> row.cur, source |-> "store", day |-> row.day]

(* _unavailable: an honest neutral / low. *)
Unavailable(reason, price, curve, sample) ==
    [reason |-> reason, price |-> price, percentile |-> NoData, verdict |-> "neutral",
     curve |-> curve, low |-> NoData, confidence |-> "low", observations |-> sample,
     sentence |-> Reason("neutral", NoData, NoData, curve, 0, 0)]

(* history_in_currency *)
InCurrency(history, price) ==
    history # {} /\ (price = NoData \/ price.cur = ContextCurrency(history))

(* predict_from_context *)
PredictFrom(cfg, history, depart, price, asOf) ==
    LET now == depart - asOf
        supplied == Supplied(price, asOf)
        sample == BucketSample(cfg, history, ApBucket(cfg.buckets, now))
        curve == Curve(cfg, CurveIndex(cfg, history, depart), now)
        resolved == IF supplied # NoData THEN supplied
                    ELSE Stored(LatestPriceRows(history, depart, asOf))
        percentile == PercentileOf(resolved.amount, sample)
        verdict == DecideVerdict(cfg, percentile, curve, now)
        low == IF verdict = "wait" THEN ExpectedLow(cfg, curve, now) ELSE NoData
    IN  IF now < 0 THEN Unavailable("departure_in_past", supplied, NoCurve, {})
        ELSE IF ~InCurrency(history, price)
          THEN Unavailable("no_route_history", supplied, NoCurve, {})
        ELSE IF resolved = NoData THEN Unavailable("no_current_price", NoData, curve, sample)
        ELSE IF Cardinality(sample) < cfg.minCell
          THEN Unavailable("thin_route_history", resolved, curve, sample)
        ELSE [reason |-> NoData, price |-> resolved, percentile |-> percentile,
              verdict |-> verdict, curve |-> curve, low |-> low,
              confidence |-> DecideConfidence(cfg, sample), observations |-> sample,
              sentence |-> Reason(verdict, percentile, low, curve, now, Cardinality(sample))]

(* predict: a departure in the past reads no store. *)
Predict(cfg, store, route, depart, price, asOf) ==
    PredictFrom(cfg,
        IF depart < asOf THEN {} ELSE LoadRouteHistory(store, route, asOf, cfg.window),
        depart, price, asOf)

(* Mutant: the cheapest row of the day, whatever kind of price it is. *)
CheapestObserved(store, route, depart, asOf) ==
    Stored(LatestPriceRows({row \in store : row.route = route}, depart, asOf))

(* latest_observed_price: the same lookup over a read of its own. *)
LatestObservedPrice(store, route, depart, asOf) ==
    IF depart < asOf THEN NoData
    ELSE Stored(LatestPriceRows(
            Collapse({row \in store : row.route = route /\ row.depart = depart
                                                        /\ row.day <= asOf}),
            depart, asOf))

(* Prediction._invariants: what the constructor refuses. *)
Constructible(p) ==
    /\ (p.low # NoData) = (p.verdict = "wait")
    /\ p.low # NoData => p.low.amount > 0 /\ p.low.to <= p.low.from
    /\ p.reason # NoData => /\ p.verdict = "neutral" /\ p.confidence = "low"
                            /\ p.percentile = NoData
    /\ p.reason = NoData => p.percentile # NoData /\ p.price # NoData
    /\ p.percentile # NoData => p.percentile \in 0..100
    /\ \A d \in DOMAIN p.curve : d >= 0 /\ p.curve[d] > 0

=============================================================================
