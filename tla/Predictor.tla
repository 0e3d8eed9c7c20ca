----------------------------- MODULE Predictor -----------------------------
(***************************************************************************)
(* predict() at work: a collector adds observations day after day, the     *)
(* clock moves on, and a caller asks for one trip.  A call reads the clock *)
(* once, then the store once, and everything after that is computed from   *)
(* the two, so a call that spans midnight or a collection run is two       *)
(* steps.  The store is the set of rows a read returns, one per            *)
(* observation_id: how it comes about is SnapshotStore's and FareView's    *)
(* matter, and there is one route.                                         *)
(***************************************************************************)
EXTENDS Prediction

CONSTANTS
    Rows,         \* the rows a collector may write
    Departures,   \* the departures asked for
    Prices,       \* the prices a caller may bring along
    LastDay,      \* bound on the clock
    MaxRows       \* bound on the number of observations

ASSUME PredictorAssumption ==
    /\ Rows \subseteq FareRows /\ Departures \subseteq Int /\ Prices \subseteq Offers
    /\ LastDay \in Nat /\ MaxRows \in Nat

VARIABLES
    store,        \* the rows a read returns
    today,        \* shared.clock.today_utc()
    asked,        \* the call in progress, or NoData
    answer        \* a call that has just returned: its answer, and from what

vars == <<store, today, asked, answer>>

Init == store = {} /\ today = 0 /\ asked = NoData /\ answer = NoData

(* A collector stamps what it sees with the present day.  A second fetch of
   an observation replaces the first in every read. *)
Collect ==
    /\ \E row \in Rows :
         /\ row.day = today
         /\ row \notin store
         /\ store' = {old \in store : old.id # row.id} \cup {row}
         /\ Cardinality(store') <= MaxRows
    /\ answer' = NoData
    /\ UNCHANGED <<today, asked>>

(* A run that was held up writes what an earlier one saw. *)
CollectLate ==
    /\ \E row \in Rows :
         /\ row.day < today
         /\ \A old \in store : old.id # row.id
         /\ store' = store \cup {row}
         /\ Cardinality(store') <= MaxRows
    /\ answer' = NoData
    /\ UNCHANGED <<today, asked>>

Midnight ==
    /\ today < LastDay
    /\ today' = today + 1
    /\ answer' = NoData
    /\ UNCHANGED <<store, asked>>

(* predict() is called and reads the clock, its only clock read. *)
Ask ==
    /\ asked = NoData
    /\ \E depart \in Departures, price \in Prices \cup {NoData} :
         asked' = [depart |-> depart, price |-> price, asOf |-> today]
    /\ answer' = NoData
    /\ UNCHANGED <<store, today>>

(* Mutant: the clock is read a second time for the prediction. *)
AnswerOnSecondRead ==
    /\ asked # NoData
    /\ answer' = [call |-> asked, seen |-> store,
                  prediction |-> PredictFrom(Cfg,
                      LoadRouteHistory(store, Route, asked.asOf, Cfg.window),
                      asked.depart, asked.price, today)]
    /\ asked' = NoData
    /\ UNCHANGED <<store, today>>

(* It reads the store and answers. *)
Answer ==
    /\ asked # NoData
    /\ answer' = [call |-> asked, seen |-> store,
                  prediction |-> Predict(Cfg, store, Route, asked.depart, asked.price,
                                         asked.asOf)]
    /\ asked' = NoData
    /\ UNCHANGED <<store, today>>

Next == Collect \/ CollectLate \/ Midnight \/ Ask \/ Answer

Spec == Init /\ [][Next]_vars

-----------------------------------------------------------------------------
(* Properties.                                                             *)

Answered == answer # NoData
P == answer.prediction
C == answer.call

(* What the store held for the history window when the call read it. *)
Seen == {row \in answer.seen : C.asOf - Cfg.window <= row.day /\ row.day <= C.asOf}

(* predict() "never raises for thin or missing data": whatever the store holds
   and whenever midnight falls, the prediction can be constructed and its
   sentence written. *)
NeverRaises == Answered => Constructible(P) /\ ~P.sentence.raises

(* The answer is about the day the call began, wholly: a curve that reaches
   its first day, a user's price dated to it, a stored price from it or
   before, for a flight that had not left. *)
AnswerIsAboutOneDay ==
    Answered =>
      /\ P.reason = "departure_in_past" <=> C.depart < C.asOf
      /\ \A d \in DOMAIN P.curve : d <= C.depart - C.asOf
      /\ P.price # NoData => /\ P.price.day <= C.asOf
                             /\ P.price.source = "user_supplied" => P.price.day = C.asOf
      /\ P.reason = NoData =>
           P.observations = BucketSample(Cfg, Collapse(Seen),
                                         ApBucket(Cfg.buckets, C.depart - C.asOf))

(* What is missing is really missing: a reason is given only where no row the
   call could see says otherwise. *)
ReasonIsTrue ==
    Answered =>
      /\ P.reason = "no_current_price" =>
           ~\E row \in Seen : /\ row.depart = C.depart
                              /\ \A other \in Seen : other.cur = row.cur
      /\ P.reason = "no_route_history" /\ C.price = NoData =>
           \A row \in Seen : row.depart < row.day
      /\ P.reason = "thin_route_history" =>
           Cardinality({<<row.depart, row.day>> : row \in P.observations}) < Cfg.minCell

(* An answer is true, in all it says, of the day its call began. *)
AnswerIsTrueOfItsDay == AnswerIsAboutOneDay /\ ReasonIsTrue

(* The model sees nothing from after its day: rows fetched later, whenever
   they are written, change no prediction for an earlier day. *)
FutureIsInvisible ==
    [][\A asOf \in 0..LastDay :
         (\A row \in (store \cup store') \ (store \cap store') : row.day > asOf) =>
           \A depart \in Departures :
             LET Of(s) == Predict(Cfg, s, Route, depart, NoData, asOf)
             IN  Of(store') = Of(store)]_store

(* Where the route is priced in one currency, every departure and day that was
   seen before the flight left is in the history once, at the price the
   itinerary rows give it if there are any. *)
NoCellIsLost ==
    LET raw == RawHistory(store, Route, today, Cfg.window)
        history == LoadRouteHistory(store, Route, today, Cfg.window)
        cur == ContextCurrency(history)
    IN  \A row \in raw : row.cur = cur /\ row.day <= row.depart =>
          \E kept \in history :
            /\ SameCell(kept, row) /\ kept.cur = cur
            /\ \A other \in history : SameCell(other, row) => other = kept
            /\ row.kind = "itinerary" => kept.kind = "itinerary" /\ kept.amount <= row.amount
            /\ row.kind = kept.kind => kept.amount <= row.amount

(* latest_observed_price and a prediction without a price agree on what a trip
   costs today, wherever the route is priced in one currency and the trip was
   seen within the history window. *)
OneCurrencyOnePrice ==
    \A depart \in Departures :
      LET latest == LatestObservedPrice(store, Route, depart, today)
          p == Predict(Cfg, store, Route, depart, NoData, today)
      IN  (\A a, b \in store : a.cur = b.cur)
            => IF latest # NoData /\ today - latest.day <= Cfg.window
                 THEN p.price = latest
                 ELSE p.price = NoData

(* The same for every store ("so SF-07 and the backtest resolve 'the current
   price' identically"). *)
OnePrice ==
    \A depart \in Departures :
      Predict(Cfg, store, Route, depart, NoData, today).price =
        LatestObservedPrice(store, Route, depart, today)

=============================================================================
