-------------------------- MODULE PredictionProofs --------------------------
(***************************************************************************)
(* Theorems about the two processes that predict.  Predictor: a prediction *)
(* can be constructed whatever the store holds, and says nothing that is   *)
(* not so on the day its call began.  Backtest: the walk scores what       *)
(* predict() would have said, every quote once, and its report adds up.    *)
(***************************************************************************)
EXTENDS Predictor, Backtest, ForecastProofs

(***************************************************************************)
(* The history of a route.                                                 *)
(***************************************************************************)

(* What a read returns: one row per observation. *)
IsStore(S) == S \subseteq FareRows /\ IsFiniteSet(S) /\ \A a, b \in S : a.id = b.id => a = b

LEMMA RowIs ==
    ASSUME NEW row \in FareRows
    PROVE  /\ row.id \in Int /\ row.route = Route /\ row.day \in Nat /\ row.depart \in Int
           /\ row.kind \in {"itinerary", "calendar_cheapest"} /\ row.cur \in Int
           /\ row.amount \in Nat \ {0}
BY DEF FareRows

LEMMA PartOfStore ==
    ASSUME NEW S, IsStore(S), NEW T \in SUBSET S
    PROVE  IsStore(T) /\ IsSample(T)
BY FS_Subset, RowIs DEF IsStore, IsSample

(* The rows of a cell are in a strict and total order. *)
LEMMA PreferenceIsStrict ==
    ASSUME NEW a \in FareRows, NEW b \in FareRows
    PROVE  /\ ~ (PreferredTo(a, b) /\ PreferredTo(b, a))
           /\ a.id # b.id => PreferredTo(a, b) \/ PreferredTo(b, a)
           /\ \A c \in FareRows : PreferredTo(a, b) /\ PreferredTo(b, c) => PreferredTo(a, c)
<1>1. \A r \in FareRows : r.amount \in Nat /\ r.id \in Int
  BY RowIs
<1>2. ~ (PreferredTo(a, b) /\ PreferredTo(b, a))
  BY <1>1 DEF PreferredTo
<1>3. a.id # b.id => PreferredTo(a, b) \/ PreferredTo(b, a)
  BY <1>1 DEF PreferredTo
<1>4. ASSUME NEW c \in FareRows, PreferredTo(a, b), PreferredTo(b, c) PROVE PreferredTo(a, c)
  BY <1>1, <1>4 DEF PreferredTo
<1> QED BY <1>2, <1>3, <1>4

(* Every cell has a first row. *)
LEMMA BestExists ==
    ASSUME NEW S, IsStore(S), NEW row \in S
    PROVE  \E best \in BestOfCell(S) : SameCell(best, row)
<1> DEFINE cell == {r \in S : SameCell(row, r)}
           R == {p \in cell \X cell : PreferredTo(p[1], p[2])}
<1>1. \A x, y \in cell : <<x, y>> \in R <=> PreferredTo(x, y)
  <2> HIDE DEF cell
  <2> QED OBVIOUS
<1>2. row \in cell /\ cell \subseteq S /\ cell \subseteq FareRows /\ IsFiniteSet(cell)
  <2>1. row \in cell /\ cell \subseteq S
    BY DEF SameCell
  <2> HIDE DEF cell
  <2> QED BY <2>1, PartOfStore DEF IsStore
<1>3. \E x \in cell : \A y \in cell : <<y, x>> \notin R
  <2> HIDE DEF cell, R
  <2>1. \A x \in cell : <<x, x>> \notin R
    BY <1>1, <1>2, PreferenceIsStrict
  <2>2. \A x, y, z \in cell : <<x, y>> \in R /\ <<y, z>> \in R => <<x, z>> \in R
    <3> TAKE x, y, z \in cell
    <3>1. x \in FareRows /\ y \in FareRows /\ z \in FareRows
      BY <1>2
    <3> QED BY <3>1, <1>1, PreferenceIsStrict
  <2>3. cell # {}
    BY <1>2
  <2> QED BY <1>2, <2>1, <2>2, <2>3, FirstExists
<1>4. PICK x \in cell : \A y \in cell : ~ PreferredTo(y, x)
  <2> HIDE DEF cell, R
  <2> QED BY <1>1, <1>3
<1>5. x \in S /\ SameCell(x, row)
  BY DEF SameCell
<1>6. ASSUME NEW other \in S, SameCell(x, other), other # x PROVE PreferredTo(x, other)
  <2>1. other \in cell
    BY <1>5, <1>6 DEF SameCell
  <2>2. x \in FareRows /\ other \in FareRows /\ x.id # other.id
    BY <1>5, <1>6 DEF IsStore
  <2> HIDE DEF cell
  <2> QED BY <2>1, <2>2, <1>4, PreferenceIsStrict
<1>7. x \in BestOfCell(S)
  BY <1>5, <1>6 DEF BestOfCell
<1> QED BY <1>5, <1>7

(* The commonest currency is one of the route's. *)
LEMMA ModalCurrencyIs ==
    ASSUME NEW S, IsStore(S), S # {}
    PROVE  \E row \in S : row.cur = ModalCurrency(S, Route)
<1> DEFINE curs == {row.cur : row \in {r \in S : r.route = Route}}
           N(c) == CountIn(S, Route, c)
           R == {p \in curs \X curs : N(p[1]) > N(p[2]) \/ (N(p[1]) = N(p[2]) /\ p[1] < p[2])}
<1>1. {r \in S : r.route = Route} = S /\ \A r \in S : r.cur \in Int
  BY RowIs DEF IsStore
<1>2. curs = {row.cur : row \in S}
  BY <1>1
<1>3. curs # {} /\ IsFiniteSet(curs) /\ \A c \in curs : c \in Int
  <2> DEFINE f == [row \in S |-> row.cur]
  <2>1. f \in Surjection(S, curs)
    <3> HIDE DEF curs
    <3> QED BY <1>2 DEF Surjection
  <2>2. curs # {} /\ \A c \in curs : c \in Int
    BY <1>1, <1>2
  <2> HIDE DEF f, curs
  <2> QED BY <2>1, <2>2, FS_Surjection DEF IsStore
<1>4. \A c : N(c) \in Nat
  <2>1. ASSUME NEW c PROVE N(c) \in Nat
    <3> DEFINE T == {row \in S : row.route = Route /\ row.cur = c}
    <3>1. IsFiniteSet(T)
      BY FS_Subset DEF IsStore
    <3> QED BY <3>1, FS_CardinalityType DEF CountIn
  <2> QED BY <2>1
<1> HIDE DEF curs, N
<1>5. \A x, y \in curs : <<x, y>> \in R <=> N(x) > N(y) \/ (N(x) = N(y) /\ x < y)
  OBVIOUS
<1> HIDE DEF R
<1>6. \A x \in curs : <<x, x>> \notin R
  BY <1>3, <1>4, <1>5
<1>7. \A x, y, z \in curs : <<x, y>> \in R /\ <<y, z>> \in R => <<x, z>> \in R
  <2> TAKE x, y, z \in curs
  <2>1. x \in Int /\ y \in Int /\ z \in Int /\ N(x) \in Nat /\ N(y) \in Nat /\ N(z) \in Nat
    BY <1>3, <1>4
  <2>2. <<x, y>> \in R /\ <<y, z>> \in R
          => /\ N(x) > N(y) \/ (N(x) = N(y) /\ x < y)
             /\ N(y) > N(z) \/ (N(y) = N(z) /\ y < z)
    BY <1>5
  <2>3. <<x, y>> \in R /\ <<y, z>> \in R => N(x) > N(z) \/ (N(x) = N(z) /\ x < z)
    BY <2>1, <2>2
  <2> QED BY <2>3, <1>5
<1>8. PICK c \in curs : \A y \in curs : <<y, c>> \notin R
  BY <1>3, <1>6, <1>7, FirstExists
<1>9. \A y \in curs : N(c) > N(y) \/ (N(c) = N(y) /\ c <= y)
  <2> TAKE y \in curs
  <2>1. ~ (N(y) > N(c) \/ (N(y) = N(c) /\ y < c))
    BY <1>5, <1>8
  <2>2. c \in Int /\ y \in Int /\ N(c) \in Nat /\ N(y) \in Nat
    BY <1>3, <1>4
  <2> QED BY <2>1, <2>2
<1>10. ModalCurrency(S, Route) \in curs
  <2>1. \E d \in curs : \A y \in curs : N(d) > N(y) \/ (N(d) = N(y) /\ d <= y)
    BY <1>9
  <2>2. ModalCurrency(S, Route) =
          CHOOSE d \in curs : \A y \in curs : N(d) > N(y) \/ (N(d) = N(y) /\ d <= y)
    BY DEF ModalCurrency, curs, N
  <2> QED BY <2>1, <2>2
<1> QED BY <1>2, <1>10

(* The currency of a history. *)
Modal(raw) == ModalCurrency(NotDeparted(raw), Route)

(* Of the rows seen before the flight left, in the route's currency, each
   cell has one in the history, and it is the first of them. *)
LEMMA CollapseIs ==
    ASSUME NEW raw, IsStore(raw)
    PROVE  /\ Collapse(raw) \subseteq raw /\ IsStore(Collapse(raw))
           /\ \A row \in Collapse(raw) : row.day <= row.depart /\ row.cur = Modal(raw)
           /\ \A row \in raw : row.day <= row.depart /\ row.cur = Modal(raw) =>
                \E kept \in Collapse(raw) :
                  /\ SameCell(kept, row)
                  /\ row # kept => PreferredTo(kept, row)
                  /\ \A other \in Collapse(raw) : SameCell(other, row) => other = kept
<1> DEFINE open == {row \in raw : row.day <= row.depart /\ row.cur = Modal(raw)}
<1>1. InModalCurrency(NotDeparted(raw)) = open
  <2>1. NotDeparted(raw) = {row \in raw : row.day <= row.depart}
    BY RowIs DEF NotDeparted, DaysToDeparture, IsStore
  <2>2. \A row \in raw : row.route = Route
    BY RowIs DEF IsStore
  <2> QED BY <2>1, <2>2 DEF InModalCurrency, Modal
<1>2. IsStore(open) /\ open \subseteq raw
  BY PartOfStore
<1>3. Collapse(raw) = BestOfCell(open)
  BY <1>1 DEF Collapse
<1>4. BestOfCell(open) \subseteq open
  BY DEF BestOfCell
<1>5. IsStore(Collapse(raw))
  <2> HIDE DEF open
  <2> QED BY <1>2, <1>3, <1>4, PartOfStore
<1>6. ASSUME NEW row \in open
      PROVE  \E kept \in BestOfCell(open) :
                  /\ SameCell(kept, row)
                  /\ row # kept => PreferredTo(kept, row)
                  /\ \A other \in BestOfCell(open) : SameCell(other, row) => other = kept
  <2> HIDE DEF open
  <2>1. PICK kept \in BestOfCell(open) : SameCell(kept, row)
    BY <1>2, BestExists
  <2>2. row # kept => PreferredTo(kept, row)
    BY <2>1 DEF BestOfCell
  <2>3. ASSUME NEW other \in BestOfCell(open), SameCell(other, row), other # kept PROVE FALSE
    <3>1. SameCell(other, kept) /\ SameCell(kept, other)
      BY <2>1, <2>3 DEF SameCell
    <3>2. PreferredTo(other, kept) /\ PreferredTo(kept, other)
      BY <3>1, <2>3 DEF BestOfCell
    <3>3. other \in FareRows /\ kept \in FareRows
      BY <1>2, <1>4 DEF IsStore
    <3> QED BY <3>2, <3>3, PreferenceIsStrict
  <2> QED BY <2>1, <2>2, <2>3
<1> QED BY <1>2, <1>3, <1>4, <1>5, <1>6

(* A history without rows is one of a route nobody saw before departure. *)
LEMMA CollapseIsEmpty ==
    ASSUME NEW raw, IsStore(raw), Collapse(raw) = {}
    PROVE  \A row \in raw : row.depart < row.day
<1> DEFINE open == NotDeparted(raw)
<1>1. \A row \in raw : row.day \in Nat /\ row.depart \in Int
  BY RowIs DEF IsStore
<1>2. open = {row \in raw : row.day <= row.depart}
  BY <1>1 DEF NotDeparted, DaysToDeparture
<1>3. SUFFICES ASSUME open # {} PROVE FALSE
  BY <1>1, <1>2
<1>4. IsStore(open)
  BY <1>2, PartOfStore
<1>5. PICK row \in open : row.cur = Modal(raw)
  <2> HIDE DEF open
  <2> QED BY <1>3, <1>4, ModalCurrencyIs DEF Modal, open
<1>6. row \in raw /\ row.day <= row.depart
  BY <1>2
<1> QED BY <1>5, <1>6, CollapseIs

(***************************************************************************)
(* The current price of a trip.                                            *)
(***************************************************************************)

LEMMA LatestRowsAre ==
    ASSUME NEW F, IsStore(F), NEW depart, NEW asOf
    PROVE  /\ \A row \in LatestPriceRows(F, depart, asOf) :
                /\ row \in F /\ row.depart = depart /\ row.day <= asOf
                /\ \A other \in F :
                     other.depart = depart /\ other.day <= asOf => other.day <= row.day
           /\ (\E row \in F : row.depart = depart /\ row.day <= asOf)
                => LatestPriceRows(F, depart, asOf) # {}
<1> DEFINE rows == {row \in F : row.depart = depart /\ row.day <= asOf}
           latest == {row \in rows : \A other \in rows : other.day <= row.day}
<1>1. LatestPriceRows(F, depart, asOf)
        = {row \in latest : \A other \in latest : row.amount <= other.amount}
  BY DEF LatestPriceRows
<1>2. ASSUME NEW row \in LatestPriceRows(F, depart, asOf)
      PROVE  /\ row \in F /\ row.depart = depart /\ row.day <= asOf
             /\ \A other \in F :
                  other.depart = depart /\ other.day <= asOf => other.day <= row.day
  BY <1>1
<1>3. ASSUME rows # {} PROVE LatestPriceRows(F, depart, asOf) # {}
  <2>1. IsFiniteSet(rows) /\ \A r \in rows : r.day \in Nat /\ r.amount \in Nat
    BY PartOfStore, RowIs DEF IsStore
  <2> HIDE DEF rows
  <2> DEFINE R == {p \in rows \X rows : p[1].day > p[2].day}
             Q == {p \in latest \X latest : p[1].amount < p[2].amount}
  <2>2. \A x, y \in rows : <<x, y>> \in R <=> x.day > y.day
    OBVIOUS
  <2>3. \E x \in rows : \A y \in rows : <<y, x>> \notin R
    <3> HIDE DEF R
    <3>1. \A x \in rows : <<x, x>> \notin R
      BY <2>1, <2>2
    <3>2. \A x, y, z \in rows : <<x, y>> \in R /\ <<y, z>> \in R => <<x, z>> \in R
      <4> TAKE x, y, z \in rows
      <4>1. x.day \in Nat /\ y.day \in Nat /\ z.day \in Nat
        BY <2>1
      <4> QED BY <4>1, <2>2
    <3> QED BY <3>1, <3>2, <2>1, <1>3, FirstExists
  <2>4. PICK top \in rows : \A y \in rows : ~ (y.day > top.day)
    <3> HIDE DEF R
    <3> QED BY <2>2, <2>3
  <2>5. top \in latest
    <3>1. \A y \in rows : y.day <= top.day
      BY <2>1, <2>4
    <3> QED BY <3>1
  <2>6. IsFiniteSet(latest) /\ latest # {} /\ \A r \in latest : r.amount \in Nat
    <3>1. latest \in SUBSET rows
      OBVIOUS
    <3> HIDE DEF latest
    <3> QED BY <3>1, <2>1, <2>5, FS_Subset
  <2> HIDE DEF latest
  <2>7. \A x, y \in latest : <<x, y>> \in Q <=> x.amount < y.amount
    OBVIOUS
  <2> HIDE DEF Q
  <2>8. \E x \in latest : \A y \in latest : <<y, x>> \notin Q
    <3>1. \A x \in latest : <<x, x>> \notin Q
      BY <2>6, <2>7
    <3>2. \A x, y, z \in latest : <<x, y>> \in Q /\ <<y, z>> \in Q => <<x, z>> \in Q
      <4> TAKE x, y, z \in latest
      <4>1. x.amount \in Nat /\ y.amount \in Nat /\ z.amount \in Nat
        BY <2>6
      <4> QED BY <4>1, <2>7
    <3> QED BY <3>1, <3>2, <2>6, FirstExists
  <2>9. PICK cheap \in latest : \A y \in latest : ~ (y.amount < cheap.amount)
    BY <2>7, <2>8
  <2>10. \A y \in latest : cheap.amount <= y.amount
    BY <2>6, <2>9
  <2> QED BY <2>10, <1>1 DEF latest
<1> QED BY <1>2, <1>3

LEMMA StoredIs ==
    ASSUME NEW S, S \subseteq FareRows
    PROVE  /\ S = {} <=> Stored(S) = NoData
           /\ S # {} => \E row \in S :
                Stored(S) = [amount |-> row.amount, cur |-> row.cur,
                             source |-> "store", day |-> row.day]
<1>1. ASSUME S # {}
      PROVE  \E row \in S : Stored(S) = [amount |-> row.amount, cur |-> row.cur,
                                         source |-> "store", day |-> row.day]
  <2>1. (CHOOSE r \in S : TRUE) \in S
    BY <1>1
  <2> QED BY <1>1, <2>1 DEF Stored
<1>2. ASSUME NEW row \in S
      PROVE  [amount |-> row.amount, cur |-> row.cur, source |-> "store", day |-> row.day] # NoData
  <2>1. row.amount \in Int /\ row.cur \in Int /\ row.day \in Int
    BY RowIs
  <2> QED BY <2>1, PredictionAssumption
<1>3. S = {} => Stored(S) = NoData
  BY DEF Stored
<1> QED BY <1>1, <1>2, <1>3

LEMMA SuppliedIs ==
    ASSUME NEW price \in Offers \cup {NoData}, NEW asOf \in Nat
    PROVE  /\ price = NoData <=> Supplied(price, asOf) = NoData
           /\ price # NoData =>
                /\ Supplied(price, asOf).amount \in Nat
                /\ Supplied(price, asOf).day = asOf
<1>1. price = NoData => Supplied(price, asOf) = NoData
  BY DEF Supplied
<1>2. ASSUME price # NoData
      PROVE  /\ Supplied(price, asOf) = [amount |-> price.amount, cur |-> price.cur,
                                         source |-> "user_supplied", day |-> asOf]
             /\ price.amount \in Nat /\ price.cur \in Int
  BY <1>2 DEF Supplied, Offers
<1>3. price # NoData => Supplied(price, asOf) # NoData
  BY <1>2, PredictionAssumption
<1> QED BY <1>1, <1>2, <1>3

(***************************************************************************)
(* The outcomes of a prediction.                                           *)
(***************************************************************************)

IsCall(c) == c.depart \in Int /\ c.price \in Offers \cup {NoData} /\ c.asOf \in Nat

(* The price a prediction is about. *)
Resolved(H, c) ==
    IF Supplied(c.price, c.asOf) # NoData THEN Supplied(c.price, c.asOf)
    ELSE Stored(LatestPriceRows(H, c.depart, c.asOf))

SampleOf(H, c) == BucketSample(Cfg, H, ApBucket(Cfg.buckets, c.depart - c.asOf))

CurveOf(H, c) == Curve(Cfg, CurveIndex(Cfg, H, c.depart), c.depart - c.asOf)

PredictionOf(H, c) == PredictFrom(Cfg, H, c.depart, c.price, c.asOf)

IsFull(p, H, c) ==
    LET now == c.depart - c.asOf
        percentile == PercentileOf(Resolved(H, c).amount, SampleOf(H, c))
        verdict == DecideVerdict(Cfg, percentile, CurveOf(H, c), now)
        low == IF verdict = "wait" THEN ExpectedLow(Cfg, CurveOf(H, c), now) ELSE NoData
    IN  p = [reason |-> NoData, price |-> Resolved(H, c), percentile |-> percentile,
             verdict |-> verdict, curve |-> CurveOf(H, c), low |-> low,
             confidence |-> DecideConfidence(Cfg, SampleOf(H, c)),
             observations |-> SampleOf(H, c),
             sentence |-> Reason(verdict, percentile, low, CurveOf(H, c), now,
                                 Cardinality(SampleOf(H, c)))]

(* The returns of predict_from_context, in their order. *)
LEMMA Outcomes ==
    ASSUME NEW H, NEW c
    PROVE  LET now == c.depart - c.asOf
               supplied == Supplied(c.price, c.asOf)
               p == PredictionOf(H, c)
           IN  \/ now < 0 /\ p = Unavailable("departure_in_past", supplied, NoCurve, {})
               \/ /\ ~ (now < 0) /\ ~ InCurrency(H, c.price)
                  /\ p = Unavailable("no_route_history", supplied, NoCurve, {})
               \/ /\ ~ (now < 0) /\ InCurrency(H, c.price) /\ Resolved(H, c) = NoData
                  /\ p = Unavailable("no_current_price", NoData, CurveOf(H, c), SampleOf(H, c))
               \/ /\ ~ (now < 0) /\ InCurrency(H, c.price) /\ Resolved(H, c) # NoData
                  /\ Cardinality(SampleOf(H, c)) < Cfg.minCell
                  /\ p = Unavailable("thin_route_history", Resolved(H, c), CurveOf(H, c),
                                     SampleOf(H, c))
               \/ /\ ~ (now < 0) /\ InCurrency(H, c.price) /\ Resolved(H, c) # NoData
                  /\ ~ (Cardinality(SampleOf(H, c)) < Cfg.minCell)
                  /\ IsFull(p, H, c)
BY DEF PredictionOf, PredictFrom, Resolved, SampleOf, CurveOf, IsFull

LEMMA UnavailableIs ==
    ASSUME NEW reason, NEW price, NEW curve, NEW S
    PROVE  LET p == Unavailable(reason, price, curve, S) IN
             /\ p.reason = reason /\ p.price = price /\ p.curve = curve /\ p.observations = S
             /\ p.percentile = NoData /\ p.verdict = "neutral" /\ p.low = NoData
             /\ p.confidence = "low" /\ ~ p.sentence.raises
BY DEF Unavailable, Reason

LEMMA ReasonsAreNot ==
    \A reason \in DataUnavailableReason : reason # NoData
BY PredictionAssumption

(* An honest neutral is constructible, with any curve of days to come. *)
LEMMA UnavailableIsConstructible ==
    ASSUME NEW reason \in DataUnavailableReason, NEW price, NEW curve, NEW S,
           \A d \in DOMAIN curve : d >= 0 /\ curve[d] > 0
    PROVE  LET p == Unavailable(reason, price, curve, S) IN Constructible(p) /\ ~ p.sentence.raises
<1> DEFINE p == Unavailable(reason, price, curve, S)
<1>1. /\ p.reason = reason /\ p.curve = curve /\ p.percentile = NoData
      /\ p.verdict = "neutral" /\ p.low = NoData /\ p.confidence = "low" /\ ~ p.sentence.raises
  BY UnavailableIs
<1>2. reason # NoData
  BY ReasonsAreNot
<1> HIDE DEF p
<1>3. Constructible(p)
  BY <1>1, <1>2 DEF Constructible
<1> QED BY <1>1, <1>3 DEF p

LEMMA CallIs ==
    ASSUME NEW c, IsCall(c)
    PROVE  c.depart \in Int /\ c.asOf \in Nat /\ c.depart - c.asOf \in Int
<1>1. c.depart \in Int /\ c.asOf \in Nat
  BY DEF IsCall
<1> QED BY <1>1

(* A resolved price is a price, of the day of the call or of one before. *)
LEMMA ResolvedIs ==
    ASSUME NEW H, IsStore(H), NEW c, IsCall(c), Resolved(H, c) # NoData
    PROVE  LET price == Resolved(H, c) IN
             /\ price.amount \in Nat /\ price.day <= c.asOf
             /\ price.source = "user_supplied" => price.day = c.asOf
<1>1. c.asOf \in Nat /\ c.price \in Offers \cup {NoData}
  BY DEF IsCall
<1>2. CASE Supplied(c.price, c.asOf) # NoData
  <2>1. Resolved(H, c) = Supplied(c.price, c.asOf)
    BY <1>2 DEF Resolved
  <2> QED BY <1>1, <1>2, <2>1, SuppliedIs
<1>3. CASE Supplied(c.price, c.asOf) = NoData
  <2> DEFINE rows == LatestPriceRows(H, c.depart, c.asOf)
  <2>1. Resolved(H, c) = Stored(rows)
    BY <1>3 DEF Resolved
  <2>2. \A row \in rows : row \in FareRows /\ row.day <= c.asOf
    BY LatestRowsAre DEF IsStore
  <2> HIDE DEF rows
  <2>3. PICK row \in rows : Resolved(H, c) = [amount |-> row.amount, cur |-> row.cur,
                                              source |-> "store", day |-> row.day]
    BY <2>1, <2>2, StoredIs
  <2> QED BY <2>2, <2>3, RowIs
<1> QED BY <1>2, <1>3

LEMMA SampleIs ==
    ASSUME NEW H, IsStore(H), NEW c
    PROVE  SampleOf(H, c) \subseteq H /\ IsSample(SampleOf(H, c))
<1>1. SampleOf(H, c) \subseteq H
  BY DEF SampleOf, BucketSample
<1> QED BY <1>1, PartOfStore

(* The configuration, and what a history leaves in the index of a trip. *)
LEMMA CfgIs == IsCurveConfig(Cfg)
BY PredictionAssumption DEF IsCurveConfig

LEMMA CurveIndexIs ==
    ASSUME NEW H, IsStore(H), NEW depart
    PROVE  IsIndex(Cfg, CurveIndex(Cfg, H, depart))
<1> SUFFICES ASSUME NEW b \in BucketNames(Cfg)
             PROVE  LET index == CurveIndex(Cfg, H, depart) IN
                      /\ index.cell[b] # NoData => index.cell[b].median \in Nat
                      /\ index.bucket[b] # NoData => index.bucket[b] \in Nat
  BY DEF IsIndex
<1> DEFINE index == CurveIndex(Cfg, H, depart)
           cell == Cell(Cfg, H, b, SeasonOf[depart])
           sample == BucketSample(Cfg, H, b)
<1>1. /\ index.cell[b] = IF cell = {} THEN NoData
                         ELSE [count |-> Cardinality(cell), median |-> Median2(cell)]
      /\ index.bucket[b] = IF sample = {} THEN NoData ELSE Median2(sample)
  BY DEF CurveIndex
<1>2. cell \subseteq H /\ sample \subseteq H
  BY DEF Cell, BucketSample
<1> HIDE DEF index, cell, sample
<1>3. cell # {} => Median2(cell) \in Nat
  BY <1>2, PartOfStore, Median2Is
<1>4. sample # {} => Median2(sample) \in Nat
  BY <1>2, PartOfStore, Median2Is
<1>5. /\ index.cell[b] # NoData => index.cell[b].median \in Nat
      /\ index.bucket[b] # NoData => index.bucket[b] \in Nat
  BY <1>1, <1>3, <1>4
<1> QED BY <1>5 DEF index

LEMMA TripCurveIs ==
    ASSUME NEW H, IsStore(H), NEW c, IsCall(c), ~ (c.depart - c.asOf < 0)
    PROVE  /\ c.depart - c.asOf \in Nat
           /\ DOMAIN CurveOf(H, c) \subseteq 0..(c.depart - c.asOf)
           /\ IsFiniteSet(DOMAIN CurveOf(H, c))
           /\ \A d \in DOMAIN CurveOf(H, c) : CurveOf(H, c)[d] \in Nat \ {0}
<1>1. c.depart - c.asOf \in Nat
  BY CallIs
<1>2. IsCurveConfig(Cfg) /\ IsIndex(Cfg, CurveIndex(Cfg, H, c.depart))
  BY CfgIs, CurveIndexIs
<1> QED BY <1>1, <1>2, CurveIs DEF CurveOf

LEMMA NeutralCurves ==
    ASSUME NEW H, IsStore(H), NEW c, IsCall(c)
    PROVE  /\ \A d \in DOMAIN NoCurve : FALSE
           /\ ~ (c.depart - c.asOf < 0) =>
                \A d \in DOMAIN CurveOf(H, c) :
                  d >= 0 /\ d <= c.depart - c.asOf /\ CurveOf(H, c)[d] > 0
<1>1. \A d \in DOMAIN NoCurve : FALSE
  BY DEF NoCurve
<1>2. ASSUME ~ (c.depart - c.asOf < 0), NEW d \in DOMAIN CurveOf(H, c)
      PROVE  d >= 0 /\ d <= c.depart - c.asOf /\ CurveOf(H, c)[d] > 0
  <2> DEFINE now == c.depart - c.asOf
  <2>1. now \in Nat /\ d \in 0..now /\ CurveOf(H, c)[d] \in Nat \ {0}
    BY <1>2, TripCurveIs
  <2> HIDE DEF now
  <2>2. d >= 0 /\ d <= now /\ CurveOf(H, c)[d] > 0
    BY <2>1
  <2> QED BY <2>2 DEF now
<1> QED BY <1>1, <1>2

(* A full prediction is constructible and its sentence has its numbers. *)
LEMMA FullIsConstructible ==
    ASSUME NEW H, IsStore(H), NEW c, IsCall(c), NEW p, IsFull(p, H, c),
           ~ (c.depart - c.asOf < 0), Resolved(H, c) # NoData,
           ~ (Cardinality(SampleOf(H, c)) < Cfg.minCell)
    PROVE  Constructible(p) /\ ~ p.sentence.raises
<1> DEFINE now == c.depart - c.asOf
           sample == SampleOf(H, c)
           curve == CurveOf(H, c)
           percentile == PercentileOf(Resolved(H, c).amount, sample)
           verdict == DecideVerdict(Cfg, percentile, curve, now)
           low == IF verdict = "wait" THEN ExpectedLow(Cfg, curve, now) ELSE NoData
<1>1. /\ p.reason = NoData /\ p.price = Resolved(H, c) /\ p.percentile = percentile
      /\ p.verdict = verdict /\ p.curve = curve /\ p.low = low
      /\ p.sentence = Reason(verdict, percentile, low, curve, now, Cardinality(sample))
  BY DEF IsFull
<1>2. /\ now \in Nat /\ DOMAIN curve \subseteq 0..now /\ IsFiniteSet(DOMAIN curve)
      /\ \A d \in DOMAIN curve : curve[d] \in Nat \ {0}
  BY TripCurveIs
<1>3. IsSample(sample)
  BY SampleIs
<1>4. sample # {}
  <2>1. Cfg.minCell \in Nat \ {0}
    BY PredictionAssumption
  <2>2. Cardinality(sample) \in Nat
    BY <1>3, FS_CardinalityType DEF IsSample
  <2>3. Cardinality(sample) # 0
    BY <2>1, <2>2
  <2> QED BY <2>3, FS_EmptySet
<1>5. percentile \in 0..100 /\ percentile # NoData
  <2>1. Resolved(H, c).amount \in Nat
    BY ResolvedIs
  <2> HIDE DEF sample
  <2>2. percentile \in 0..100
    BY <1>3, <1>4, <2>1, PercentileIs
  <2> HIDE DEF percentile
  <2> QED BY <2>2, ForecastAssumption
<1> HIDE DEF percentile, curve, sample, now
<1>6. /\ verdict \in {"neutral", "book_now", "wait"}
      /\ verdict # "neutral" => now \in DOMAIN curve
      /\ verdict = "wait" => WaitCandidates(Cfg, curve, now) # {}
  BY DEF DecideVerdict
<1>7. verdict = "wait" => low # NoData /\ low.amount > 0 /\ low.to <= low.from
  <2> HIDE DEF verdict
  <2> QED BY <1>2, <1>6, ExpectedLowIs
<1>8. verdict # "wait" => low = NoData
  OBVIOUS
<1> HIDE DEF low, verdict
<1>9. ~ p.sentence.raises
  BY <1>1, <1>5, <1>6, <1>7 DEF Reason
<1>10. \A d \in DOMAIN curve : d >= 0 /\ curve[d] > 0
  BY <1>2
<1>11. p.reason # NoData => FALSE
  BY <1>1
<1>12. Constructible(p)
  BY <1>1, <1>5, <1>7, <1>8, <1>10, <1>11 DEF Constructible
<1> QED BY <1>9, <1>12

LEMMA PredictionIsConstructible ==
    ASSUME NEW H, IsStore(H), NEW c, IsCall(c)
    PROVE  Constructible(PredictionOf(H, c)) /\ ~ PredictionOf(H, c).sentence.raises
<1> DEFINE p == PredictionOf(H, c)
           Fine(q) == Constructible(q) /\ ~ q.sentence.raises
           now == c.depart - c.asOf
<1>1. ASSUME NEW reason \in DataUnavailableReason, NEW price, NEW S PROVE Fine(Unavailable(reason, price, NoCurve, S))
  BY NeutralCurves, UnavailableIsConstructible
<1>2. ASSUME NEW reason \in DataUnavailableReason, NEW price, NEW S, ~ (now < 0)
      PROVE Fine(Unavailable(reason, price, CurveOf(H, c), S))
  BY <1>2, NeutralCurves, UnavailableIsConstructible
<1>3. ASSUME ~ (now < 0), Resolved(H, c) # NoData, ~ (Cardinality(SampleOf(H, c)) < Cfg.minCell),
             IsFull(p, H, c)
      PROVE  Fine(p)
  BY <1>3, FullIsConstructible
<1>4. {"departure_in_past", "no_route_history", "no_current_price", "thin_route_history"}
        = DataUnavailableReason
  BY DEF DataUnavailableReason
<1> HIDE DEF Fine
<1>5. Fine(p)
  BY <1>1, <1>2, <1>3, <1>4, Outcomes
<1> QED BY <1>5 DEF Fine

(***************************************************************************)
(* The invariant.                                                          *)
(***************************************************************************)

(* An answer is the prediction of the store it read, for the call it is of. *)
CallInv ==
    /\ IsStore(store) /\ today \in Nat
    /\ asked # NoData => IsCall(asked)
    /\ answer # NoData =>
         /\ IsStore(answer.seen) /\ IsCall(answer.call)
         /\ answer.prediction = Predict(Cfg, answer.seen, Route, answer.call.depart,
                                        answer.call.price, answer.call.asOf)

LEMMA CallInvInit == Init => CallInv
BY FS_EmptySet DEF Init, CallInv, IsStore

LEMMA CallInvNext == CallInv /\ [Next]_vars => CallInv'
<1> SUFFICES ASSUME CallInv, [Next]_vars PROVE CallInv'
  OBVIOUS
<1>1. ASSUME NEW S \in SUBSET store, NEW row \in FareRows, \A old \in S : old.id # row.id
      PROVE  IsStore(S \cup {row})
  <2>1. IsStore(S)
    BY PartOfStore DEF CallInv
  <2> QED BY <2>1, <1>1, FS_AddElement DEF IsStore
<1>2. CASE Collect
  <2>1. PICK row \in FareRows : store' = {old \in store : old.id # row.id} \cup {row}
    BY <1>2, PredictorAssumption DEF Collect
  <2>2. IsStore(store')
    BY <2>1, <1>1
  <2> QED BY <1>2, <2>2 DEF Collect, CallInv
<1>3. CASE CollectLate
  <2>1. PICK row \in FareRows : (\A old \in store : old.id # row.id) /\ store' = store \cup {row}
    BY <1>3, PredictorAssumption DEF CollectLate
  <2>2. IsStore(store')
    BY <2>1, <1>1
  <2> QED BY <1>3, <2>2 DEF CollectLate, CallInv
<1>4. CASE Midnight
  BY <1>4 DEF Midnight, CallInv
<1>5. CASE Ask
  BY <1>5, PredictorAssumption DEF Ask, CallInv, IsCall
<1>6. CASE Answer
  <2>1. /\ answer'.call = asked /\ answer'.seen = store
        /\ answer'.prediction = Predict(Cfg, store, Route, asked.depart, asked.price, asked.asOf)
    BY <1>6 DEF Answer
  <2> QED BY <1>6, <2>1 DEF Answer, CallInv
<1>7. CASE UNCHANGED vars
  BY <1>7 DEF vars, CallInv
<1> QED BY <1>2, <1>3, <1>4, <1>5, <1>6, <1>7 DEF Next

(* An answer is a prediction from the rows its call could see. *)
THEOREM AnswersArePredictions == Spec => []CallInv
BY CallInvInit, CallInvNext, PTL DEF Spec

(* The history of a call. *)
HistoryOf(S, c) ==
    IF c.depart < c.asOf THEN {} ELSE LoadRouteHistory(S, Route, c.asOf, Cfg.window)

SeenBy(S, c) == {row \in S : c.asOf - Cfg.window <= row.day /\ row.day <= c.asOf}

LEMMA HistoryIs ==
    ASSUME NEW S, IsStore(S), NEW c
    PROVE  /\ IsStore(SeenBy(S, c)) /\ IsStore(HistoryOf(S, c))
           /\ ~ (c.depart < c.asOf) => HistoryOf(S, c) = Collapse(SeenBy(S, c))
           /\ Predict(Cfg, S, Route, c.depart, c.price, c.asOf) = PredictionOf(HistoryOf(S, c), c)
<1>1. SeenBy(S, c) \subseteq S
  BY DEF SeenBy
<1>2. IsStore(SeenBy(S, c))
  BY <1>1, PartOfStore
<1>3. RawHistory(S, Route, c.asOf, Cfg.window) = SeenBy(S, c)
  BY RowIs DEF RawHistory, SeenBy, IsStore
<1>4. ~ (c.depart < c.asOf) => HistoryOf(S, c) = Collapse(SeenBy(S, c))
  BY <1>3 DEF HistoryOf, LoadRouteHistory
<1>5. IsStore({})
  BY FS_EmptySet DEF IsStore
<1>6. IsStore(HistoryOf(S, c))
  BY <1>2, <1>4, <1>5, CollapseIs DEF HistoryOf
<1> QED BY <1>2, <1>4, <1>6 DEF Predict, PredictionOf, HistoryOf

(* "Never raises for thin or missing data": a prediction can be constructed
   and its sentence written for every store, configuration, trip and price,
   and whenever midnight falls (predictor.py, predict; types.py). *)
THEOREM PredictNeverRaises == Spec => []NeverRaises
<1>1. CallInv => NeverRaises
  <2> SUFFICES ASSUME CallInv, answer # NoData
               PROVE  Constructible(answer.prediction) /\ ~ answer.prediction.sentence.raises
    BY DEF NeverRaises, Answered, P
  <2>1. /\ IsStore(answer.seen) /\ IsCall(answer.call)
        /\ answer.prediction = Predict(Cfg, answer.seen, Route, answer.call.depart,
                                       answer.call.price, answer.call.asOf)
    BY DEF CallInv
  <2> DEFINE H == HistoryOf(answer.seen, answer.call)
  <2>2. IsStore(H) /\ answer.prediction = PredictionOf(H, answer.call)
    BY <2>1, HistoryIs
  <2>3. Constructible(PredictionOf(H, answer.call))
        /\ ~ PredictionOf(H, answer.call).sentence.raises
    <3> HIDE DEF H
    <3> QED BY <2>1, <2>2, PredictionIsConstructible
  <2> QED BY <2>2, <2>3, Zenon
<1> QED BY <1>1, AnswersArePredictions, PTL

(***************************************************************************)
(* What an answer says of its day.                                         *)
(***************************************************************************)

(* What each field of a prediction tells about the return it came from. *)
LEMMA PredictionTells ==
    ASSUME NEW H, NEW c
    PROVE  LET now == c.depart - c.asOf
               supplied == Supplied(c.price, c.asOf)
               p == PredictionOf(H, c)
           IN  /\ p.reason = "departure_in_past" <=> now < 0
               /\ p.reason = "no_route_history" => ~ (now < 0) /\ ~ InCurrency(H, c.price)
               /\ p.reason = "no_current_price" =>
                    ~ (now < 0) /\ InCurrency(H, c.price) /\ Resolved(H, c) = NoData
               /\ p.reason = "thin_route_history" =>
                    /\ ~ (now < 0) /\ Cardinality(SampleOf(H, c)) < Cfg.minCell
                    /\ p.observations = SampleOf(H, c)
               /\ p.reason = NoData => ~ (now < 0) /\ p.observations = SampleOf(H, c)
               /\ p.curve = NoCurve \/ (~ (now < 0) /\ p.curve = CurveOf(H, c))
               /\ p.price = IF now < 0 \/ ~ InCurrency(H, c.price) THEN supplied ELSE Resolved(H, c)
<1> DEFINE now == c.depart - c.asOf
           supplied == Supplied(c.price, c.asOf)
           p == PredictionOf(H, c)
           inCurrency == InCurrency(H, c.price)
           price == Resolved(H, c)
           curve == CurveOf(H, c)
           sample == SampleOf(H, c)
<1>1. \/ now < 0 /\ p = Unavailable("departure_in_past", supplied, NoCurve, {})
      \/ ~ (now < 0) /\ ~ inCurrency /\ p = Unavailable("no_route_history", supplied, NoCurve, {})
      \/ /\ ~ (now < 0) /\ inCurrency /\ price = NoData
         /\ p = Unavailable("no_current_price", NoData, curve, sample)
      \/ /\ ~ (now < 0) /\ inCurrency /\ price # NoData /\ Cardinality(sample) < Cfg.minCell
         /\ p = Unavailable("thin_route_history", price, curve, sample)
      \/ /\ ~ (now < 0) /\ inCurrency /\ price # NoData
         /\ p.reason = NoData /\ p.observations = sample /\ p.curve = curve /\ p.price = price
  <2>1. IsFull(p, H, c) => /\ p.reason = NoData /\ p.observations = sample /\ p.curve = curve
                           /\ p.price = price
    BY DEF IsFull
  <2> QED BY <2>1, Outcomes
<1>2. /\ "departure_in_past" # NoData /\ "no_route_history" # NoData
      /\ "no_current_price" # NoData /\ "thin_route_history" # NoData
  BY ReasonsAreNot DEF DataUnavailableReason
<1> HIDE DEF now, supplied, p, inCurrency, price, curve, sample
<1>3. CASE now < 0 /\ p = Unavailable("departure_in_past", supplied, NoCurve, {})
  <2>1. p.reason = "departure_in_past" /\ p.curve = NoCurve /\ p.price = supplied
    BY <1>3, UnavailableIs
  <2> QED BY <2>1, <1>2, <1>3 DEF now, supplied, p, inCurrency, price, curve, sample
<1>4. CASE ~ (now < 0) /\ ~ inCurrency /\ p = Unavailable("no_route_history", supplied, NoCurve, {})
  <2>1. p.reason = "no_route_history" /\ p.curve = NoCurve /\ p.price = supplied
    BY <1>4, UnavailableIs
  <2> QED BY <2>1, <1>2, <1>4 DEF now, supplied, p, inCurrency, price, curve, sample
<1>5. CASE /\ ~ (now < 0) /\ inCurrency /\ price = NoData
           /\ p = Unavailable("no_current_price", NoData, curve, sample)
  <2>1. p.reason = "no_current_price" /\ p.curve = curve /\ p.price = price
    BY <1>5, UnavailableIs
  <2> QED BY <2>1, <1>2, <1>5 DEF now, supplied, p, inCurrency, price, curve, sample
<1>6. CASE /\ ~ (now < 0) /\ inCurrency /\ price # NoData /\ Cardinality(sample) < Cfg.minCell
           /\ p = Unavailable("thin_route_history", price, curve, sample)
  <2>1. /\ p.reason = "thin_route_history" /\ p.curve = curve /\ p.price = price
        /\ p.observations = sample
    BY <1>6, UnavailableIs
  <2> QED BY <2>1, <1>2, <1>6 DEF now, supplied, p, inCurrency, price, curve, sample
<1>7. CASE /\ ~ (now < 0) /\ inCurrency /\ price # NoData
           /\ p.reason = NoData /\ p.observations = sample /\ p.curve = curve /\ p.price = price
  BY <1>7, <1>2 DEF now, supplied, p, inCurrency, price, curve, sample
<1> QED BY <1>1, <1>3, <1>4, <1>5, <1>6, <1>7

(* Where every row of a day's window has the currency of one of them, no row
   is dropped with its cell. *)
LEMMA OneCurrencyHistory ==
    ASSUME NEW S, IsStore(S), NEW row \in S, row.day <= row.depart,
           \A other \in S : other.cur = row.cur
    PROVE  \E kept \in Collapse(S) : SameCell(kept, row)
<1>1. NotDeparted(S) \subseteq S /\ row \in NotDeparted(S)
  BY RowIs DEF NotDeparted, DaysToDeparture, IsStore
<1>2. IsStore(NotDeparted(S)) /\ NotDeparted(S) # {}
  BY <1>1, PartOfStore
<1>3. row.cur = Modal(S)
  BY <1>1, <1>2, ModalCurrencyIs DEF Modal
<1> QED BY <1>3, CollapseIs

(* The answer to a call from what a store held. *)
LEMMA AnswerIs ==
    ASSUME NEW S, IsStore(S), NEW c, IsCall(c)
    PROVE  LET p == Predict(Cfg, S, Route, c.depart, c.price, c.asOf)
               seen == SeenBy(S, c)
           IN  /\ p.reason = "departure_in_past" <=> c.depart < c.asOf
               /\ \A d \in DOMAIN p.curve : d <= c.depart - c.asOf
               /\ p.price # NoData => /\ p.price.day <= c.asOf
                                      /\ p.price.source = "user_supplied" => p.price.day = c.asOf
               /\ p.reason = NoData =>
                    p.observations = BucketSample(Cfg, Collapse(seen),
                                                  ApBucket(Cfg.buckets, c.depart - c.asOf))
               /\ p.reason = "no_current_price" =>
                    ~ \E row \in seen : /\ row.depart = c.depart
                                        /\ \A other \in seen : other.cur = row.cur
               /\ p.reason = "no_route_history" /\ c.price = NoData =>
                    \A row \in seen : row.depart < row.day
               /\ p.reason = "thin_route_history" =>
                    Cardinality({<<row.depart, row.day>> : row \in p.observations}) < Cfg.minCell
<1> DEFINE H == HistoryOf(S, c)
           p == PredictionOf(H, c)
           now == c.depart - c.asOf
           seen == SeenBy(S, c)
<1>1. /\ IsStore(seen) /\ IsStore(H) /\ (~ (c.depart < c.asOf) => H = Collapse(seen))
      /\ Predict(Cfg, S, Route, c.depart, c.price, c.asOf) = p
  BY HistoryIs
<1>2. c.depart \in Int /\ c.asOf \in Nat /\ (now < 0 <=> c.depart < c.asOf)
  BY CallIs
<1> HIDE DEF H
<1>3. /\ p.reason = "departure_in_past" <=> now < 0
      /\ p.reason = "no_route_history" => ~ (now < 0) /\ ~ InCurrency(H, c.price)
      /\ p.reason = "no_current_price" =>
           ~ (now < 0) /\ InCurrency(H, c.price) /\ Resolved(H, c) = NoData
      /\ p.reason = "thin_route_history" =>
           /\ ~ (now < 0) /\ Cardinality(SampleOf(H, c)) < Cfg.minCell
           /\ p.observations = SampleOf(H, c)
      /\ p.reason = NoData => ~ (now < 0) /\ p.observations = SampleOf(H, c)
      /\ p.curve = NoCurve \/ (~ (now < 0) /\ p.curve = CurveOf(H, c))
      /\ p.price = IF now < 0 \/ ~ InCurrency(H, c.price) THEN Supplied(c.price, c.asOf)
                   ELSE Resolved(H, c)
  BY PredictionTells
<1> HIDE DEF p, seen, now
<1>4. ASSUME NEW d \in DOMAIN p.curve PROVE d <= c.depart - c.asOf
  <2>1. CASE p.curve = NoCurve
    BY <1>1, <1>4, <2>1, NeutralCurves
  <2>2. CASE ~ (now < 0) /\ p.curve = CurveOf(H, c)
    BY <1>1, <1>4, <2>2, NeutralCurves DEF now
  <2> QED BY <1>3, <2>1, <2>2
<1>5. ASSUME p.price # NoData
      PROVE  p.price.day <= c.asOf /\ (p.price.source = "user_supplied" => p.price.day = c.asOf)
  <2>1. CASE p.price = Supplied(c.price, c.asOf)
    <3>1. p.price.day = c.asOf
      BY <1>2, <1>5, <2>1, SuppliedIs DEF IsCall
    <3> QED BY <3>1, <1>2
  <2>2. CASE p.price = Resolved(H, c)
    BY <1>1, <1>5, <2>2, ResolvedIs
  <2> QED BY <1>3, <2>1, <2>2
<1>6. p.reason = NoData =>
        p.observations = BucketSample(Cfg, Collapse(seen), ApBucket(Cfg.buckets, c.depart - c.asOf))
  BY <1>1, <1>2, <1>3 DEF SampleOf
<1>7. ASSUME p.reason = "no_current_price", NEW row \in seen, row.depart = c.depart,
             \A other \in seen : other.cur = row.cur
      PROVE  FALSE
  <2>1. ~ (now < 0) /\ Resolved(H, c) = NoData /\ H = Collapse(seen)
    BY <1>1, <1>2, <1>3, <1>7
  <2>2. row.day <= c.asOf /\ row.day \in Nat /\ row.day <= row.depart
    <3>1. row.day <= c.asOf /\ row \in FareRows
      BY <1>1, <1>7 DEF seen, SeenBy, IsStore
    <3> QED BY <3>1, <2>1, <1>2, <1>7, RowIs
  <2>3. PICK kept \in Collapse(seen) : SameCell(kept, row)
    BY <1>1, <1>7, <2>2, OneCurrencyHistory
  <2>4. kept \in H /\ kept.depart = c.depart /\ kept.day <= c.asOf
    BY <1>7, <2>1, <2>2, <2>3 DEF SameCell
  <2> DEFINE rows == LatestPriceRows(H, c.depart, c.asOf)
  <2>5. rows # {} /\ rows \subseteq FareRows
    BY <1>1, <2>4, LatestRowsAre DEF IsStore
  <2>6. Stored(rows) # NoData
    <3> HIDE DEF rows
    <3> QED BY <2>5, StoredIs
  <2> QED BY <2>1, <2>6 DEF Resolved
<1>8. ASSUME p.reason = "no_route_history", c.price = NoData
      PROVE  \A row \in seen : row.depart < row.day
  <2>1. ~ (now < 0) /\ H = {} /\ H = Collapse(seen)
    BY <1>1, <1>2, <1>3, <1>8 DEF InCurrency
  <2> QED BY <2>1, <1>1, CollapseIsEmpty
<1>9. ASSUME p.reason = "thin_route_history"
      PROVE  Cardinality({<<row.depart, row.day>> : row \in p.observations}) < Cfg.minCell
  <2> DEFINE sample == SampleOf(H, c)
             cells == {<<row.depart, row.day>> : row \in sample}
             f == [row \in sample |-> <<row.depart, row.day>>]
  <2>1. p.observations = sample /\ Cardinality(sample) < Cfg.minCell
    BY <1>3, <1>9
  <2>2. IsFiniteSet(sample)
    BY <1>1, SampleIs DEF IsSample
  <2> HIDE DEF sample
  <2>3. f \in Surjection(sample, cells)
    BY DEF Surjection
  <2> HIDE DEF f, cells
  <2>4. Cardinality(cells) <= Cardinality(sample) /\ IsFiniteSet(cells)
    BY <2>2, <2>3, FS_Surjection
  <2>5. Cardinality(cells) \in Nat /\ Cardinality(sample) \in Nat /\ Cfg.minCell \in Nat
    BY <2>2, <2>4, FS_CardinalityType, PredictionAssumption
  <2>6. Cardinality(cells) < Cfg.minCell
    BY <2>1, <2>4, <2>5
  <2> QED BY <2>1, <2>6 DEF cells
<1>10. p.reason = "departure_in_past" <=> c.depart < c.asOf
  BY <1>2, <1>3
<1> QED BY <1>1, <1>4, <1>5, <1>6, <1>7, <1>8, <1>9, <1>10 DEF seen

(* An answer is true, in all it says, of the day its call began, wherever a
   midnight or a collection run falls (predictor.py, predict, line 199). *)
THEOREM AnswersAreOfOneDay == Spec => []AnswerIsTrueOfItsDay
<1>1. CallInv => AnswerIsTrueOfItsDay
  <2> SUFFICES ASSUME CallInv, answer # NoData PROVE AnswerIsTrueOfItsDay
    BY DEF AnswerIsTrueOfItsDay, AnswerIsAboutOneDay, ReasonIsTrue, Answered
  <2>1. /\ IsStore(answer.seen) /\ IsCall(answer.call)
        /\ answer.prediction = Predict(Cfg, answer.seen, Route, answer.call.depart,
                                       answer.call.price, answer.call.asOf)
    BY DEF CallInv
  <2>2. Seen = SeenBy(answer.seen, answer.call)
    BY DEF Seen, SeenBy, C
  <2> DEFINE c == answer.call
             p == answer.prediction
  <2>3. /\ p.reason = "departure_in_past" <=> c.depart < c.asOf
        /\ \A d \in DOMAIN p.curve : d <= c.depart - c.asOf
        /\ p.price # NoData => /\ p.price.day <= c.asOf
                               /\ p.price.source = "user_supplied" => p.price.day = c.asOf
        /\ p.reason = NoData =>
             p.observations = BucketSample(Cfg, Collapse(Seen),
                                           ApBucket(Cfg.buckets, c.depart - c.asOf))
        /\ p.reason = "no_current_price" =>
             ~ \E row \in Seen : /\ row.depart = c.depart
                                 /\ \A other \in Seen : other.cur = row.cur
        /\ p.reason = "no_route_history" /\ c.price = NoData =>
             \A row \in Seen : row.depart < row.day
        /\ p.reason = "thin_route_history" =>
             Cardinality({<<row.depart, row.day>> : row \in p.observations}) < Cfg.minCell
    <3> HIDE DEF c
    <3>1. IsStore(answer.seen) /\ IsCall(c)
          /\ p = Predict(Cfg, answer.seen, Route, c.depart, c.price, c.asOf)
          /\ Seen = SeenBy(answer.seen, c)
      BY <2>1, <2>2 DEF c
    <3> HIDE DEF p
    <3> QED BY <3>1, AnswerIs
  <2>4. AnswerIsAboutOneDay
    BY <2>3 DEF AnswerIsAboutOneDay, P, C
  <2>5. ReasonIsTrue
    BY <2>3 DEF ReasonIsTrue, P, C
  <2> QED BY <2>4, <2>5 DEF AnswerIsTrueOfItsDay
<1> QED BY <1>1, AnswersArePredictions, PTL

(* Where a route is priced in one currency, every cell that was seen before
   the flight left is in the history once, at its best price
   (observations.py, collapse_observations). *)
THEOREM CellsAreKept == Spec => []NoCellIsLost
<1>1. CallInv => NoCellIsLost
  <2> DEFINE raw == RawHistory(store, Route, today, Cfg.window)
             history == LoadRouteHistory(store, Route, today, Cfg.window)
             cur == ContextCurrency(history)
  <2> SUFFICES ASSUME CallInv, NEW row \in raw, row.cur = cur, row.day <= row.depart
               PROVE  \E kept \in history :
                        /\ SameCell(kept, row) /\ kept.cur = cur
                        /\ \A other \in history : SameCell(other, row) => other = kept
                        /\ row.kind = "itinerary"
                             => kept.kind = "itinerary" /\ kept.amount <= row.amount
                        /\ row.kind = kept.kind => kept.amount <= row.amount
    BY DEF NoCellIsLost
  <2>1. raw \subseteq store /\ IsStore(raw) /\ history = Collapse(raw) /\ raw \subseteq FareRows
    <3>1. raw \subseteq store
      BY DEF RawHistory
    <3> HIDE DEF raw
    <3>2. IsStore(raw)
      BY <3>1, PartOfStore DEF CallInv
    <3> QED BY <3>1, <3>2 DEF raw, LoadRouteHistory, IsStore
  <2> HIDE DEF raw, history
  <2>2. row \in FareRows /\ row.cur \in Int
    BY <2>1, RowIs
  <2>3. history # {}
    BY <2>2, ForecastAssumption DEF ContextCurrency
  <2>4. cur = Modal(raw)
    <3>1. (CHOOSE r \in history : TRUE) \in history
      BY <2>3
    <3> QED BY <2>1, <2>3, <3>1, CollapseIs DEF ContextCurrency
  <2>5. PICK kept \in history :
          /\ SameCell(kept, row)
          /\ row # kept => PreferredTo(kept, row)
          /\ \A other \in history : SameCell(other, row) => other = kept
    BY <2>1, <2>4, CollapseIs
  <2>6. kept.cur = cur /\ kept \in FareRows
    BY <2>1, <2>4, CollapseIs
  <2>7. /\ row.kind = "itinerary" => kept.kind = "itinerary" /\ kept.amount <= row.amount
        /\ row.kind = kept.kind => kept.amount <= row.amount
    <3>1. kept.amount \in Nat /\ row.amount \in Nat
      BY <2>2, <2>6, RowIs
    <3>2. CASE row = kept
      BY <3>1, <3>2
    <3>3. CASE PreferredTo(kept, row)
      BY <3>1, <3>3 DEF PreferredTo
    <3> QED BY <2>5, <3>2, <3>3
  <2> QED BY <2>5, <2>6, <2>7
<1> QED BY <1>1, AnswersArePredictions, PTL

(* In one currency, a history is the first row of every cell. *)
LEMMA OneCurrencyCollapse ==
    ASSUME NEW S, IsStore(S), \A a, b \in S : a.cur = b.cur
    PROVE  Collapse(S) = {row \in S : /\ row.day <= row.depart
                                      /\ \A other \in S : SameCell(row, other) /\ other # row
                                           => PreferredTo(row, other)}
<1> DEFINE open == NotDeparted(S)
<1>1. open = {row \in S : row.day <= row.depart} /\ \A row \in S : row.route = Route
  BY RowIs DEF NotDeparted, DaysToDeparture, IsStore
<1>2. ASSUME NEW row \in open PROVE row.cur = ModalCurrency(open, Route)
  <2>1. IsStore(open) /\ open # {}
    BY <1>1, <1>2, PartOfStore
  <2>2. PICK other \in open : other.cur = ModalCurrency(open, Route)
    <3> HIDE DEF open
    <3> QED BY <2>1, ModalCurrencyIs
  <2>3. other \in S /\ row \in S
    BY <1>1
  <2> QED BY <2>2, <2>3
<1>3. InModalCurrency(open) = open
  <2> HIDE DEF open
  <2> QED BY <1>1, <1>2 DEF InModalCurrency
<1>4. Collapse(S) = BestOfCell(open)
  BY <1>3 DEF Collapse
<1>5. \A a, b \in S : SameCell(a, b) /\ a.day <= a.depart => b.day <= b.depart
  BY DEF SameCell
<1> HIDE DEF open
<1> QED BY <1>1, <1>4, <1>5 DEF BestOfCell

(* latest_observed_price and a prediction without a price agree wherever the
   route has one currency and the trip was seen within the window
   (predictor.py, latest_observed_price). *)
THEOREM PricesAgree == Spec => []OneCurrencyOnePrice
<1>1. CallInv => OneCurrencyOnePrice
  <2> SUFFICES ASSUME CallInv, NEW depart \in Departures, \A a, b \in store : a.cur = b.cur
               PROVE  LET latest == LatestObservedPrice(store, Route, depart, today)
                          p == Predict(Cfg, store, Route, depart, NoData, today)
                      IN  IF latest # NoData /\ today - latest.day <= Cfg.window
                            THEN p.price = latest
                            ELSE p.price = NoData
    BY DEF OneCurrencyOnePrice
  <2> DEFINE c == [depart |-> depart, price |-> NoData, asOf |-> today]
             latest == LatestObservedPrice(store, Route, depart, today)
             p == Predict(Cfg, store, Route, depart, NoData, today)
             H == HistoryOf(store, c)
             seen == SeenBy(store, c)
             all == {row \in store : row.route = Route /\ row.depart = depart /\ row.day <= today}
             A == Collapse(all)
             ofH == LatestPriceRows(H, depart, today)
             ofA == LatestPriceRows(A, depart, today)
  <2> SUFFICES IF latest # NoData /\ today - latest.day <= Cfg.window
                 THEN p.price = latest ELSE p.price = NoData
    OBVIOUS
  <2>1. IsCall(c) /\ c.depart = depart /\ c.price = NoData /\ c.asOf = today
    BY PredictorAssumption DEF IsCall, CallInv
  <2>2. /\ IsStore(seen) /\ IsStore(H) /\ (~ (depart < today) => H = Collapse(seen))
        /\ p = PredictionOf(H, c)
    <3>1. IsStore(store)
      BY DEF CallInv
    <3> HIDE DEF c
    <3>2. /\ IsStore(seen) /\ IsStore(H) /\ (~ (c.depart < c.asOf) => H = Collapse(seen))
          /\ Predict(Cfg, store, Route, c.depart, c.price, c.asOf) = PredictionOf(H, c)
      BY <3>1, HistoryIs
    <3> HIDE DEF H, seen
    <3> QED BY <3>2, <2>1
  <2>3. depart \in Int /\ today \in Nat /\ (depart - today < 0 <=> depart < today)
        /\ Cfg.window \in Nat
    <3>1. depart \in Int /\ today \in Nat
      BY <2>1, CallIs
    <3> QED BY <3>1, PredictionAssumption
  <2>4. Supplied(NoData, today) = NoData
    BY DEF Supplied
  <2>5. p.price = IF depart < today \/ ~ InCurrency(H, NoData) THEN NoData ELSE Stored(ofH)
    <3>1. Resolved(H, c) = Stored(ofH)
      BY <2>1, <2>4 DEF Resolved
    <3> HIDE DEF ofH
    <3>2. p.price = IF c.depart - c.asOf < 0 \/ ~ InCurrency(H, c.price)
                    THEN Supplied(c.price, c.asOf) ELSE Resolved(H, c)
      <4> HIDE DEF c, p
      <4> QED BY <2>2, PredictionTells
    <3> HIDE DEF c, H, p
    <3> QED BY <3>1, <3>2, <2>1, <2>3, <2>4
  <2>6. CASE depart < today
    <3>1. latest = NoData
      BY <2>6 DEF LatestObservedPrice
    <3> HIDE DEF latest, p
    <3> QED BY <3>1, <2>5, <2>6
  <2>7. CASE ~ (depart < today)
    <3>1. latest = Stored(ofA)
      BY <2>7 DEF LatestObservedPrice
    <3>2. IsStore(all) /\ all \subseteq store /\ \A row \in store : row \in FareRows /\ row.route = Route
          /\ row.day \in Nat
      <4>1. all \subseteq store
        OBVIOUS
      <4> HIDE DEF all
      <4> QED BY <4>1, PartOfStore, RowIs DEF CallInv, IsStore
    <3>3. H = Collapse(seen) /\ seen \subseteq store
      BY <2>2, <2>7 DEF SeenBy
    <3> DEFINE Leads(row, S) == \A other \in S : SameCell(row, other) /\ other # row
                                     => PreferredTo(row, other)
    <3>4. A = {row \in all : row.day <= row.depart /\ Leads(row, all)}
      <4>1. \A a, b \in all : a.cur = b.cur
        BY <3>2
      <4> HIDE DEF all
      <4> QED BY <4>1, <3>2, OneCurrencyCollapse
    <3>5. H = {row \in seen : row.day <= row.depart /\ Leads(row, seen)}
      <4>1. \A a, b \in seen : a.cur = b.cur
        BY <3>3
      <4> HIDE DEF seen
      <4> QED BY <4>1, <3>3, <2>2, OneCurrencyCollapse
    <3>6. ASSUME NEW row, row.depart = depart, today - Cfg.window <= row.day
          PROVE  row \in H <=> row \in A
      <4>1. \A other : other \in all <=> /\ other \in store /\ other.depart = depart
                                         /\ other.day <= today
        BY <3>2
      <4>2. \A other : other \in seen <=> /\ other \in store /\ today - Cfg.window <= other.day
                                          /\ other.day <= today
        BY <2>1 DEF SeenBy
      <4>3. row \in all <=> row \in seen
        BY <3>6, <4>1, <4>2
      <4>4. \A other : SameCell(row, other) => (other \in all <=> other \in seen)
        BY <3>6, <4>1, <4>2 DEF SameCell
      <4>5. Leads(row, all) <=> Leads(row, seen)
        <5> HIDE DEF all, seen
        <5> QED BY <4>4
      <4> HIDE DEF all, seen, Leads, H, A
      <4> QED BY <3>4, <3>5, <4>3, <4>5
    <3>7. \A row \in A : row \in FareRows /\ row.depart = depart /\ row.day <= today /\ row.day \in Nat
      <4>1. \A row \in A : row \in all
        BY <3>4
      <4> QED BY <4>1, <3>2
    <3>8. \A row \in H : row \in FareRows /\ today - Cfg.window <= row.day /\ row.day <= today
                         /\ row.day \in Nat
      <4>1. \A row \in H : row \in seen
        BY <3>5
      <4> QED BY <4>1, <3>2, <3>3, <2>1 DEF SeenBy
    <3>9. IsStore(A)
      <4> HIDE DEF all
      <4> QED BY <3>2, CollapseIs
    <3> HIDE DEF A, H, all, seen, Leads, latest, p
    <3>10. /\ ofA \subseteq A /\ ofH \subseteq H
           /\ \A row \in ofA, other \in A : other.day <= row.day
           /\ \A row \in ofH : row.depart = depart
           /\ \A row \in ofH, other \in H : other.depart = depart => other.day <= row.day
           /\ A # {} => ofA # {}
           /\ (\E row \in H : row.depart = depart) => ofH # {}
      <4>1. /\ \A row \in ofA : row \in A /\ \A other \in A :
                  other.depart = depart /\ other.day <= today => other.day <= row.day
            /\ (\E row \in A : row.depart = depart /\ row.day <= today) => ofA # {}
        BY <3>9, LatestRowsAre
      <4>2. /\ \A row \in ofH : row \in H /\ row.depart = depart /\ \A other \in H :
                  other.depart = depart /\ other.day <= today => other.day <= row.day
            /\ (\E row \in H : row.depart = depart /\ row.day <= today) => ofH # {}
        BY <2>2, LatestRowsAre
      <4> HIDE DEF ofA, ofH
      <4> QED BY <4>1, <4>2, <3>7, <3>8
    <3>11. CASE latest # NoData /\ today - latest.day <= Cfg.window
      <4>1. ofA # {} /\ ofA \subseteq FareRows
        <5> HIDE DEF ofA, ofH
        <5>1. ofA \subseteq FareRows
          BY <3>7, <3>10
        <5> QED BY <5>1, <3>1, <3>11, StoredIs
      <4>2. PICK top \in ofA : latest.day = top.day
        <5> HIDE DEF ofA, ofH
        <5>1. PICK top \in ofA : Stored(ofA) = [amount |-> top.amount, cur |-> top.cur,
                                                source |-> "store", day |-> top.day]
          BY <4>1, StoredIs
        <5> QED BY <5>1, <3>1
      <4>3. today - Cfg.window <= top.day
        <5>1. top.day \in Nat
          <6> HIDE DEF ofA, ofH
          <6> QED BY <3>7, <3>10
        <5>2. today - top.day <= Cfg.window
          BY <3>11, <4>2
        <5> QED BY <5>1, <5>2, <2>3
      <4>4. top \in H /\ top \in A /\ top.depart = depart
        <5> HIDE DEF ofA, ofH
        <5> QED BY <4>3, <3>6, <3>7, <3>10
      <4>5. ofH = ofA
        <5> DEFINE lateA == {row \in A : row.depart = depart /\ row.day <= today
                                         /\ \A o \in A : o.depart = depart /\ o.day <= today
                                              => o.day <= row.day}
                   lateH == {row \in H : row.depart = depart /\ row.day <= today
                                         /\ \A o \in H : o.depart = depart /\ o.day <= today
                                              => o.day <= row.day}
        <5>1. ofA = {row \in lateA : \A o \in lateA : row.amount <= o.amount}
              /\ ofH = {row \in lateH : \A o \in lateH : row.amount <= o.amount}
          BY DEF LatestPriceRows
        <5>2. lateA = lateH
          <6> HIDE DEF ofA, ofH
          <6>1. \A o \in A : o.day <= top.day
            BY <3>10
          <6>2. \A o \in H : o.depart = depart => o.day <= top.day
            <7> TAKE o \in H
            <7> HAVE o.depart = depart
            <7>1. o \in A
              BY <3>6, <3>8
            <7> QED BY <6>1, <7>1
          <6>3. \A row \in lateA : top.day <= row.day /\ today - Cfg.window <= row.day
            <7> TAKE row \in lateA
            <7>1. top.day <= row.day /\ row.day \in Nat /\ top.day \in Nat
              BY <4>4, <3>7
            <7> QED BY <7>1, <4>3, <2>3
          <6>4. \A row \in lateH : top.day <= row.day
            BY <4>4, <3>7
          <6>5. ASSUME NEW row \in lateA PROVE row \in lateH
            <7>1. row \in A /\ row.depart = depart /\ row.day <= today /\ row \in H
                  /\ row.day \in Nat
              BY <6>3, <3>6, <3>7
            <7>2. \A o \in H : o.depart = depart /\ o.day <= today => o.day <= row.day
              <8> TAKE o \in H
              <8> HAVE o.depart = depart /\ o.day <= today
              <8>1. o.day <= top.day /\ top.day <= row.day /\ o.day \in Nat /\ top.day \in Nat
                BY <6>2, <6>3, <3>8, <3>7, <4>4
              <8> QED BY <8>1, <7>1
            <7> QED BY <7>1, <7>2
          <6>6. ASSUME NEW row \in lateH PROVE row \in lateA
            <7>1. row \in H /\ row.depart = depart /\ row.day <= today /\ row \in A
                  /\ row.day \in Nat
              BY <3>6, <3>8
            <7>2. \A o \in A : o.depart = depart /\ o.day <= today => o.day <= row.day
              <8> TAKE o \in A
              <8> HAVE o.depart = depart /\ o.day <= today
              <8>1. o.day <= top.day /\ top.day <= row.day /\ o.day \in Nat /\ top.day \in Nat
                BY <6>1, <6>4, <3>7, <4>4
              <8> QED BY <8>1, <7>1
            <7> QED BY <7>1, <7>2
          <6> HIDE DEF lateA, lateH
          <6> QED BY <6>5, <6>6
        <5> HIDE DEF lateA, lateH
        <5> QED BY <5>1, <5>2
      <4>6. InCurrency(H, NoData)
        BY <4>4 DEF InCurrency
      <4> HIDE DEF ofA, ofH
      <4> QED BY <4>5, <4>6, <3>1, <3>11, <2>5, <2>7
    <3>12. CASE ~ (latest # NoData /\ today - latest.day <= Cfg.window)
      <4>1. ASSUME NEW row \in H, row.depart = depart PROVE FALSE
        <5> HIDE DEF ofA, ofH
        <5>1. row \in A /\ row.day \in Nat /\ today - Cfg.window <= row.day
          BY <4>1, <3>6, <3>8
        <5>2. ofA # {} /\ ofA \subseteq FareRows
          BY <5>1, <3>7, <3>10
        <5>3. latest # NoData
          BY <5>2, <3>1, StoredIs
        <5>4. PICK top \in ofA : Stored(ofA) = [amount |-> top.amount, cur |-> top.cur,
                                                source |-> "store", day |-> top.day]
          BY <5>2, StoredIs
        <5>5. latest.day = top.day /\ row.day <= top.day /\ top.day \in Nat
          BY <5>1, <5>4, <3>1, <3>7, <3>10
        <5>6. today - latest.day <= Cfg.window
          BY <5>1, <5>5, <2>3
        <5> QED BY <5>3, <5>6, <3>12
      <4>2. ofH = {}
        <5> HIDE DEF ofA, ofH
        <5> QED BY <4>1, <3>10
      <4>3. Stored(ofH) = NoData
        BY <4>2 DEF Stored
      <4>4. p.price = NoData
        BY <4>3, <2>5
      <4> QED BY <3>12, <4>4
    <3> QED BY <3>11, <3>12 DEF latest, p
  <2> QED BY <2>6, <2>7
<1> QED BY <1>1, AnswersArePredictions, PTL

(* FareRows fetched after a day change no prediction for it, whenever they are
   written (predictor.py, predict_from_context; observations.py, the read). *)
THEOREM TheFutureIsInvisible == Spec => FutureIsInvisible
<1> DEFINE Of(s, depart, asOf) == Predict(Cfg, s, Route, depart, NoData, asOf)
           Step == \A asOf \in 0..LastDay :
              (\A row \in (store \cup store') \ (store \cap store') : row.day > asOf) =>
                \A depart \in Departures : Of(store', depart, asOf) = Of(store, depart, asOf)
<1>1. CallInv /\ CallInv' => Step
  <2> SUFFICES ASSUME CallInv, CallInv', NEW asOf \in 0..LastDay,
                      \A row \in (store \cup store') \ (store \cap store') : row.day > asOf,
                      NEW depart \in Departures
               PROVE  Of(store', depart, asOf) = Of(store, depart, asOf)
    OBVIOUS
  <2>1. asOf \in Int
    BY PredictorAssumption
  <2>2. \A row \in store \cup store' : row.day \in Nat
    BY RowIs DEF CallInv, IsStore
  <2>3. ASSUME NEW row, row \in store \cup store', row.day <= asOf
        PROVE  row \in store <=> row \in store'
    <3>1. ~ (row.day > asOf)
      BY <2>1, <2>2, <2>3
    <3> QED BY <3>1, <2>3
  <2>4. RawHistory(store', Route, asOf, Cfg.window) = RawHistory(store, Route, asOf, Cfg.window)
    BY <2>3 DEF RawHistory
  <2> QED BY <2>4 DEF Predict, LoadRouteHistory
<1>2. Spec => [][Step]_store
  BY <1>1, AnswersArePredictions, PTL DEF Spec
<1>3. [][Step]_store => FutureIsInvisible
  BY PTL DEF FutureIsInvisible
<1> QED BY <1>2, <1>3, PTL


(***************************************************************************)
(* The backtest.                                                           *)
(***************************************************************************)

(* The days an ad-hoc run of a store walks. *)
DaysOf(rows) ==
    LET days == {row.day : row \in rows} IN
      IF rows = {} THEN {} ELSE {d \in Min(days)..Max(days) : (d - Min(days)) % Stride = 0}

Agenda == IF scenario THEN AsOfDates ELSE DaysOf(truthOf)

(* The quotes scored when the days of D have been walked, and those missed. *)
Scored(D) == {row \in truth : row.day \in D /\ row \in Due(row.day) /\ Window(row) # {}}

Missed(D) == {row \in truth : row.day \in D /\ row \in Due(row.day) /\ Window(row) = {}}

(* A sample is the score of a quote of the truth, by the history of some store. *)
IsScore(s) ==
    /\ IsStore(s.readFrom)
    /\ \E quote \in truth :
         /\ quote \in Due(quote.day) /\ Window(quote) # {}
         /\ s = Score(quote, LoadRouteHistory(s.readFrom, Route, quote.day, Cfg.window),
                      s.readFrom)

(* Once for each quote. *)
Accounted(D) ==
    /\ Cardinality(samples) = Cardinality(Scored(D)) /\ skipped = Cardinality(Missed(D))
    /\ \A s \in samples : s.asOf \in D
    /\ \A quote \in Scored(D) : \E s \in samples : s.depart = quote.depart /\ s.asOf = quote.day

RunInv ==
    /\ IsStore(Store)
    /\ IsStore(truthOf) /\ truth = Collapse(truthOf)
    /\ asOfs \subseteq Nat
    /\ (phase \in {"hash", "glob"} => scenario) /\ (phase = "derive" => ~ scenario)
    /\ IsFiniteSet(samples) /\ skipped \in Nat
    /\ phase \notin {"walk", "reported"} => samples = {} /\ skipped = 0
    /\ \A s \in samples : IsScore(s)
    /\ phase = "reported" => asOfs = {} /\ report = Summary(samples, skipped)
    /\ quiet /\ phase = "truth" => asOfs = IF scenario THEN AsOfDates ELSE DaysOf(Store)
    /\ quiet /\ phase \in {"walk", "reported"} =>
         asOfs \subseteq Agenda /\ Accounted(Agenda \ asOfs)

LEMMA DatasetIs ==
    ASSUME NEW data \in Datasets \cup Drafts
    PROVE  IsStore(data)
BY BacktestAssumption DEF IsStore

LEMMA RunInvInit == BacktestInit => RunInv
<1> SUFFICES ASSUME BacktestInit PROVE RunInv
  OBVIOUS
<1> USE DEF BacktestInit
<1>1. Store = fixture /\ IsStore(fixture)
  BY DatasetIs DEF Store
<1>2. IsStore({}) /\ IsFiniteSet({})
  BY FS_EmptySet DEF IsStore
<1>3. Collapse({}) = {}
  BY <1>2, CollapseIs
<1> QED BY <1>1, <1>2, <1>3 DEF RunInv

(* The agenda of a run has days, and with a stride of one all of them. *)
LEMMA DaysAre ==
    ASSUME NEW S, IsStore(S)
    PROVE  /\ DaysOf(S) \subseteq Nat
           /\ Stride = 1 => \A row \in S : row.day \in DaysOf(S)
<1> DEFINE days == {row.day : row \in S}
<1>1. CASE S = {}
  BY <1>1 DEF DaysOf
<1>2. CASE S # {}
  <2>1. IsFiniteSet(days) /\ days # {} /\ days \subseteq Nat
    <3> DEFINE f == [row \in S |-> row.day]
    <3>1. f \in Surjection(S, days)
      BY DEF Surjection
    <3>2. days # {} /\ days \subseteq Nat
      BY <1>2, RowIs DEF IsStore
    <3> HIDE DEF f, days
    <3> QED BY <3>1, <3>2, FS_Surjection DEF IsStore
  <2>2. /\ Min(days) \in days /\ \A d \in days : Min(days) <= d
        /\ Max(days) \in days /\ \A d \in days : d <= Max(days)
    <3>1. days \subseteq Int
      BY <2>1
    <3> HIDE DEF days
    <3> QED BY <2>1, <3>1, MinIs, MaxIs
  <2>3. DaysOf(S) = {d \in Min(days)..Max(days) : (d - Min(days)) % Stride = 0}
    BY <1>2 DEF DaysOf
  <2>4. \A row \in S : row.day \in days
    OBVIOUS
  <2> HIDE DEF days
  <2>5. Min(days) \in Nat /\ Max(days) \in Nat
    BY <2>1, <2>2
  <2>6. DaysOf(S) \subseteq Nat
    BY <2>3, <2>5
  <2>7. ASSUME Stride = 1, NEW row \in S PROVE row.day \in DaysOf(S)
    <3>1. row.day \in Nat /\ Min(days) <= row.day /\ row.day <= Max(days)
      BY <2>1, <2>2, <2>4
    <3>2. (row.day - Min(days)) % 1 = 0
      BY <3>1, <2>5
    <3> QED BY <3>1, <3>2, <2>3, <2>5, <2>7
  <2> QED BY <2>6, <2>7
<1> QED BY <1>1, <1>2

LEMMA ScoresStay ==
    ASSUME truth' = truth, scenario' = scenario
    PROVE  /\ \A s : IsScore(s)' <=> IsScore(s)
           /\ \A D : Scored(D)' = Scored(D) /\ Missed(D)' = Missed(D)
<1>1. LeastDtd' = LeastDtd
  BY DEF LeastDtd
<1>2. \A d : Due(d)' = Due(d)
  BY <1>1 DEF Due
<1>3. \A q : Window(q)' = Window(q)
  BY DEF Window
<1>4. ASSUME NEW q, NEW H, NEW S PROVE Score(q, H, S)' = Score(q, H, S)
  BY <1>3 DEF Score
<1>5. ASSUME NEW s PROVE IsScore(s)' <=> IsScore(s)
  BY <1>2, <1>3, <1>4 DEF IsScore
<1>6. ASSUME NEW D PROVE Scored(D)' = Scored(D) /\ Missed(D)' = Missed(D)
  BY <1>2, <1>3 DEF Scored, Missed
<1> QED BY <1>5, <1>6

LEMMA OthersKeep ==
    ASSUME RunInv, Publish \/ Regenerate
    PROVE  RunInv'
<1>1. IsStore(Store)'
  <2>1. CASE Publish
    <3>1. PICK row \in PartRows : NoneRepeats({row}, Store) /\ parts' = parts \cup {row}
      BY <2>1 DEF Publish
    <3>2. Store' = Store \cup {row} /\ row \in FareRows
      BY <2>1, <3>1, BacktestAssumption DEF Publish, Store
    <3>3. \A b \in Store : row.id # b.id
      BY <3>1 DEF NoneRepeats
    <3> QED BY <3>2, <3>3, FS_AddElement DEF RunInv, IsStore
  <2>2. CASE Regenerate
    <3>1. PICK data \in Drafts : NoneRepeats(data, parts) /\ fixture' = data
      BY <2>2 DEF Regenerate
    <3>2. Store' = data \cup parts /\ parts \subseteq Store
      BY <2>2, <3>1 DEF Regenerate, Store
    <3>3. IsStore(data) /\ IsStore(parts)
      BY <3>2, DatasetIs, PartOfStore DEF RunInv
    <3>4. IsFiniteSet(data \cup parts)
      BY <3>3, FS_Union DEF IsStore
    <3>5. \A a \in data, b \in parts : a.id # b.id
      BY <3>1 DEF NoneRepeats
    <3> QED BY <3>2, <3>3, <3>4, <3>5 DEF IsStore
  <2> QED BY <2>1, <2>2
<1>2. UNCHANGED runVars /\ ~ quiet'
  BY DEF Publish, Regenerate, CountChange
<1>3. UNCHANGED <<phase, scenario, asOfs, truth, samples, skipped, report, truthOf>>
  BY <1>2 DEF runVars
<1>4. \A s : IsScore(s)' <=> IsScore(s)
  BY <1>3, ScoresStay
<1> HIDE DEF Store
<1> QED BY <1>1, <1>2, <1>3, <1>4 DEF RunInv

LEMMA BeginKeeps ==
    ASSUME RunInv, Begin \/ Hash \/ Glob \/ Derive
    PROVE  RunInv'
<1>1. UNCHANGED <<fixture, parts, truth, truthOf, samples, skipped, report>>
  BY DEF Begin, Hash, Glob, Derive
<1>2. Store' = Store
  BY <1>1 DEF Store
<1>3. samples = {} /\ skipped = 0 /\ phase' \notin {"walk", "reported"}
  BY DEF Begin, Hash, Glob, Derive, RunInv
<1>4. asOfs' \subseteq Nat
  <2>1. CASE Derive
    <3>1. asOfs' = DaysOf(Store)
      BY <2>1 DEF Derive, DaysOf
    <3> QED BY <3>1, DaysAre DEF RunInv
  <2>2. CASE ~ Derive
    <3>1. asOfs' = asOfs \/ asOfs' = AsOfDates
      BY <2>2 DEF Begin, Hash, Glob
    <3> QED BY <3>1, BacktestAssumption DEF RunInv
  <2> QED BY <2>1, <2>2
<1>5. phase' = "truth" => asOfs' = IF scenario' THEN AsOfDates ELSE DaysOf(Store')
  <2>1. CASE Begin \/ Hash
    BY <2>1 DEF Begin, Hash
  <2>2. CASE Glob
    BY <2>2 DEF Glob, RunInv
  <2>3. CASE Derive
    <3>1. asOfs' = DaysOf(Store) /\ ~ scenario'
      BY <2>3 DEF Derive, DaysOf, RunInv
    <3> QED BY <3>1, <1>2
  <2> QED BY <2>1, <2>2, <2>3
<1>6. /\ phase' \in {"hash", "glob"} => scenario'
      /\ phase' = "derive" => ~ scenario'
  BY DEF Begin, Hash, Glob, Derive, RunInv
<1> QED BY <1>1, <1>2, <1>3, <1>4, <1>5, <1>6 DEF RunInv

LEMMA TruthKeeps ==
    ASSUME RunInv, ReadTruth
    PROVE  RunInv'
<1>1. UNCHANGED <<fixture, parts, quiet, scenario, asOfs, samples, skipped, report>>
      /\ phase = "truth" /\ phase' = "walk" /\ truthOf' = Store /\ truth' = Collapse(truthOf')
  BY DEF ReadTruth
<1>2. Store' = Store
  BY <1>1 DEF Store
<1>3. IsStore(Store) /\ samples = {} /\ skipped = 0
  BY <1>1 DEF RunInv
<1>4. quiet => asOfs' = Agenda'
  BY <1>1, <1>2 DEF RunInv, Agenda
<1>5. ASSUME quiet PROVE Accounted(Agenda \ asOfs)'
  <2>1. Scored(Agenda \ asOfs)' = {} /\ Missed(Agenda \ asOfs)' = {}
    BY <1>4, <1>5 DEF Scored, Missed
  <2> QED BY <2>1, <1>1, <1>3, FS_EmptySet DEF Accounted
<1>6. /\ asOfs' \subseteq Nat /\ IsFiniteSet(samples)
  BY <1>1 DEF RunInv
<1> QED BY <1>1, <1>2, <1>3, <1>4, <1>5, <1>6 DEF RunInv

LEMMA ReportKeeps ==
    ASSUME RunInv, Report
    PROVE  RunInv'
<1>1. UNCHANGED <<fixture, parts, quiet, scenario, asOfs, truth, truthOf, samples, skipped>>
      /\ phase = "walk" /\ phase' = "reported" /\ asOfs = {}
      /\ report' = Summary(samples, skipped)
  BY DEF Report
<1>2. Store' = Store /\ Agenda' = Agenda
  BY <1>1 DEF Store, Agenda
<1>3. \A s : IsScore(s)' <=> IsScore(s)
  BY <1>1, ScoresStay
<1>4. \A D : Accounted(D)' <=> Accounted(D)
  <2> TAKE D
  <2>1. Scored(D)' = Scored(D) /\ Missed(D)' = Missed(D)
    BY <1>1, ScoresStay
  <2> QED BY <2>1, <1>1 DEF Accounted
<1> QED BY <1>1, <1>2, <1>3, <1>4 DEF RunInv

(* The truth has one row for each departure and day, all in one currency. *)
LEMMA TruthIs ==
    ASSUME RunInv
    PROVE  /\ IsStore(truth) /\ truth \subseteq truthOf
           /\ \A a, b \in truth : a.depart = b.depart /\ a.day = b.day => a = b
           /\ \A a, b \in truth : a.cur = b.cur
           /\ \A row \in truth : row.day <= row.depart
<1>1. IsStore(truthOf) /\ truth = Collapse(truthOf)
  BY DEF RunInv
<1>2. /\ truth \subseteq truthOf /\ IsStore(truth)
      /\ \A row \in truth : row.day <= row.depart /\ row.cur = Modal(truthOf)
      /\ \A row \in truthOf : row.day <= row.depart /\ row.cur = Modal(truthOf) =>
           \E kept \in truth :
             /\ SameCell(kept, row)
             /\ \A other \in truth : SameCell(other, row) => other = kept
  BY <1>1, CollapseIs
<1>3. ASSUME NEW a \in truth, NEW b \in truth, a.depart = b.depart, a.day = b.day PROVE a = b
  <2>1. a \in truthOf /\ a.day <= a.depart /\ a.cur = Modal(truthOf)
    BY <1>2
  <2>2. PICK kept \in truth : \A other \in truth : SameCell(other, a) => other = kept
    BY <1>2, <2>1
  <2>3. a.route = Route /\ b.route = Route
    BY <1>2, RowIs DEF IsStore
  <2>4. SameCell(a, a) /\ SameCell(b, a)
    BY <1>3, <2>3 DEF SameCell
  <2> QED BY <2>2, <2>4
<1> QED BY <1>2, <1>3

LEMMA DisjointUnion ==
    ASSUME NEW A, NEW B, IsFiniteSet(A), IsFiniteSet(B), A \cap B = {}
    PROVE  /\ IsFiniteSet(A \cup B)
           /\ Cardinality(A) \in Nat /\ Cardinality(B) \in Nat
           /\ Cardinality(A \cup B) = Cardinality(A) + Cardinality(B)
<1>1. Cardinality(A) \in Nat /\ Cardinality(B) \in Nat
  BY FS_CardinalityType
<1>2. Cardinality(A \cup B) = Cardinality(A) + Cardinality(B) - Cardinality(A \cap B)
      /\ IsFiniteSet(A \cup B)
  BY FS_Union
<1>3. Cardinality(A \cap B) = 0
  BY FS_EmptySet
<1> QED BY <1>1, <1>2, <1>3

LEMMA ScoreOf ==
    ASSUME NEW quote, NEW H, NEW S
    PROVE  LET s == Score(quote, H, S) IN
             s.depart = quote.depart /\ s.asOf = quote.day /\ s.readFrom = S
BY DEF Score

LEMMA WalkKeeps ==
    ASSUME RunInv, Walk
    PROVE  RunInv'
<1> DEFINE asOf == Min(asOfs)
           H == HistoryAt(asOf)
           scored == {quote \in Due(asOf) : Window(quote) # {}}
           missed == Due(asOf) \ scored
           new == {Score(quote, H, Store) : quote \in scored}
<1>1. /\ UNCHANGED <<fixture, parts, quiet, phase, scenario, truth, report, truthOf>>
      /\ phase = "walk" /\ asOfs # {} /\ asOfs' = asOfs \ {asOf}
      /\ samples' = samples \cup new /\ skipped' = skipped + Cardinality(missed)
  BY DEF Walk
<1>2. Store' = Store /\ Agenda' = Agenda
  BY <1>1 DEF Store, Agenda
<1>3. asOf \in asOfs /\ asOf \in Nat
  <2>1. asOfs \subseteq Nat
    BY DEF RunInv
  <2>2. \E m \in asOfs : \A k \in asOfs : m <= k
    BY <1>1, <2>1, LeastNatural
  <2> QED BY <2>1, <2>2 DEF Min
<1> HIDE DEF asOf
<1>4. /\ Due(asOf) \subseteq truth /\ \A q \in Due(asOf) : q.day = asOf
      /\ \A q \in truth : q.day = asOf => (q \in Due(asOf) <=> q \in Due(q.day))
  BY DEF Due
<1>5. /\ IsFiniteSet(scored) /\ Cardinality(scored) \in Nat
      /\ IsFiniteSet(missed) /\ Cardinality(missed) \in Nat
  <2>1. IsFiniteSet(truth)
    BY TruthIs DEF IsStore
  <2>2. scored \subseteq truth /\ missed \subseteq truth
    BY <1>4
  <2> HIDE DEF scored, missed
  <2> QED BY <2>1, <2>2, FS_Subset, FS_CardinalityType
<1>6. ASSUME NEW s \in new
      PROVE  IsScore(s) /\ s.asOf = asOf
  <2>1. PICK q \in scored : s = Score(q, H, Store)
    OBVIOUS
  <2>2. q \in truth /\ q.day = asOf /\ q \in Due(q.day) /\ Window(q) # {}
    BY <1>4
  <2>3. H = LoadRouteHistory(Store, Route, q.day, Cfg.window)
    BY <2>2 DEF HistoryAt
  <2> HIDE DEF H
  <2>4. s.readFrom = Store /\ s.asOf = asOf
    BY <2>1, <2>2, ScoreOf
  <2>5. IsStore(Store)
    BY DEF RunInv
  <2> QED BY <2>1, <2>2, <2>3, <2>4, <2>5 DEF IsScore
<1>7. IsFiniteSet(new) /\ Cardinality(new) = Cardinality(scored)
  <2> DEFINE f == [q \in scored |-> Score(q, H, Store)]
  <2>1. f \in Surjection(scored, new)
    <3> HIDE DEF scored, H
    <3> QED BY DEF Surjection
  <2>2. f \in Injection(scored, new)
    <3>1. ASSUME NEW a \in scored, NEW b \in scored, f[a] = f[b] PROVE a = b
      <4>1. a.depart = b.depart /\ a.day = b.day
        <5>1. /\ f[a].depart = a.depart /\ f[a].asOf = a.day
              /\ f[b].depart = b.depart /\ f[b].asOf = b.day
          <6> HIDE DEF scored, H
          <6> QED BY ScoreOf
        <5> HIDE DEF f
        <5> QED BY <5>1, <3>1
      <4> QED BY <4>1, <1>4, TruthIs
    <3>2. f \in [scored -> new]
      <4> HIDE DEF scored, H
      <4> QED OBVIOUS
    <3> HIDE DEF f, scored, new
    <3> QED BY <3>1, <3>2 DEF Injection, IsInjective
  <2> HIDE DEF f, scored, new
  <2> QED BY <2>1, <2>2, <1>5, FS_Surjection
<1>8. \A s : IsScore(s)' <=> IsScore(s)
  BY <1>1, ScoresStay
<1>9. IsFiniteSet(samples') /\ skipped' \in Nat /\ asOfs' \subseteq Nat
      /\ \A s \in samples' : IsScore(s)
  <2> HIDE DEF new, missed, scored
  <2>1. IsFiniteSet(samples \cup new)
    BY <1>7, FS_Union DEF RunInv
  <2>2. skipped \in Nat /\ asOfs \subseteq Nat /\ \A s \in samples : IsScore(s)
    BY DEF RunInv
  <2>3. skipped' \in Nat
    BY <2>2, <1>1, <1>5
  <2>4. asOfs' \subseteq Nat
    BY <2>2, <1>1
  <2>5. \A s \in samples' : IsScore(s)
    BY <2>2, <1>1, <1>6
  <2> QED BY <2>1, <2>3, <2>4, <2>5, <1>1
<1>10. ASSUME quiet PROVE asOfs' \subseteq Agenda /\ Accounted(Agenda \ asOfs)'
  <2> DEFINE W == Agenda \ asOfs
             D == W \cup {asOf}
  <2>1. asOfs \subseteq Agenda /\ Accounted(W)
    BY <1>1, <1>10 DEF RunInv
  <2>2. Agenda \ asOfs' = D /\ asOfs' \subseteq Agenda /\ asOf \notin W
    BY <2>1, <1>1, <1>3
  <2>3. /\ Scored(D) = Scored(W) \cup scored /\ Scored(W) \cap scored = {}
        /\ Missed(D) = Missed(W) \cup missed /\ Missed(W) \cap missed = {}
    <3> HIDE DEF W
    <3> QED BY <2>2, <1>4 DEF Scored, Missed
  <2>4. /\ Cardinality(Scored(D)) = Cardinality(Scored(W)) + Cardinality(scored)
        /\ Cardinality(Missed(D)) = Cardinality(Missed(W)) + Cardinality(missed)
    <3>1. IsFiniteSet(truth)
      BY TruthIs DEF IsStore
    <3>2. Scored(W) \subseteq truth /\ Missed(W) \subseteq truth
      BY DEF Scored, Missed
    <3> HIDE DEF scored, missed, W, D
    <3>3. IsFiniteSet(Scored(W)) /\ IsFiniteSet(Missed(W))
      BY <3>1, <3>2, FS_Subset
    <3> QED BY <2>3, <3>3, <1>5, DisjointUnion
  <2> HIDE DEF W
  <2>5. Cardinality(samples') = Cardinality(samples) + Cardinality(new)
    <3>1. samples \cap new = {}
      <4>1. \A s \in samples : s.asOf \in W
        BY <2>1 DEF Accounted
      <4> HIDE DEF new
      <4> QED BY <4>1, <1>6, <2>2
    <3>2. IsFiniteSet(samples)
      BY DEF RunInv
    <3> HIDE DEF new, scored
    <3> QED BY <3>1, <3>2, <1>1, <1>7, DisjointUnion
  <2>6. \A s \in samples' : s.asOf \in D
    <3>1. \A s \in samples : s.asOf \in W
      BY <2>1 DEF Accounted
    <3> HIDE DEF new
    <3> QED BY <3>1, <1>1, <1>6
  <2>7. \A quote \in Scored(D) :
          \E s \in samples' : s.depart = quote.depart /\ s.asOf = quote.day
    <3>1. \A quote \in Scored(W) :
            \E s \in samples : s.depart = quote.depart /\ s.asOf = quote.day
      BY <2>1 DEF Accounted
    <3>2. ASSUME NEW quote \in scored
          PROVE  \E s \in new : s.depart = quote.depart /\ s.asOf = quote.day
      <4>1. Score(quote, H, Store) \in new
        <5> HIDE DEF H, scored
        <5> QED OBVIOUS
      <4> QED BY <4>1, ScoreOf
    <3> HIDE DEF new, scored, D
    <3> QED BY <3>1, <3>2, <2>3, <1>1
  <2>8. /\ Cardinality(samples) = Cardinality(Scored(W)) /\ skipped = Cardinality(Missed(W))
    BY <2>1 DEF Accounted
  <2>9. /\ Scored(Agenda \ asOfs)' = Scored(D) /\ Missed(Agenda \ asOfs)' = Missed(D)
    <3>1. \A X : Scored(X)' = Scored(X) /\ Missed(X)' = Missed(X)
      BY <1>1, ScoresStay
    <3>2. Agenda' \ asOfs' = D
      BY <2>2, <1>2
    <3> HIDE DEF D
    <3> QED BY <3>1, <3>2
  <2>10. Cardinality(samples') = Cardinality(Scored(D)) /\ skipped' = Cardinality(Missed(D))
    BY <2>4, <2>5, <2>8, <1>1, <1>7
  <2>11. Agenda' \ asOfs' = D
    BY <2>2, <1>2
  <2>12. Accounted(Agenda \ asOfs)'
    <3> HIDE DEF D
    <3> QED BY <2>6, <2>7, <2>9, <2>10, <2>11 DEF Accounted
  <2> QED BY <2>2, <2>12
<1>11. phase' = "walk"
  BY <1>1
<1> HIDE DEF new, missed, scored
<1> QED BY <1>1, <1>2, <1>8, <1>9, <1>10, <1>11 DEF RunInv

LEMMA RunInvNext == RunInv /\ [BacktestNext]_backtestVars => RunInv'
<1> SUFFICES ASSUME RunInv, [BacktestNext]_backtestVars PROVE RunInv'
  OBVIOUS
<1>1. CASE UNCHANGED backtestVars
  <2>1. UNCHANGED <<fixture, parts, quiet, phase, scenario, asOfs, truth, truthOf,
                    samples, skipped, report>>
    BY <1>1 DEF backtestVars, runVars
  <2>2. Store' = Store /\ Agenda' = Agenda
    BY <2>1 DEF Store, Agenda
  <2>3. \A s : IsScore(s)' <=> IsScore(s)
    BY <2>1, ScoresStay
  <2>4. \A D : Accounted(D)' <=> Accounted(D)
    <3> TAKE D
    <3>1. Scored(D)' = Scored(D) /\ Missed(D)' = Missed(D)
      BY <2>1, ScoresStay
    <3> QED BY <3>1, <2>1 DEF Accounted
  <2> QED BY <2>1, <2>2, <2>3, <2>4 DEF RunInv
<1> QED BY <1>1, OthersKeep, BeginKeeps, TruthKeeps, WalkKeeps, ReportKeeps DEF BacktestNext

(* Every sample of a backtest is the score of a quote of the truth by the
   history of the store as it then was, and while nobody writes there is one
   for each quote of the days walked that has a later one (harness.py,
   run_backtest and collect_samples). *)
THEOREM SamplesAreScores == BacktestSpec => []RunInv
BY RunInvInit, RunInvNext, PTL DEF BacktestSpec

(* A percentile leaves the share of a sample above the amount and half of its
   ties, to half a point. *)
LEMMA RankIs ==
    ASSUME NEW S, IsSample(S), S # {}, NEW amount \in Nat
    PROVE  LET above == Cardinality({row \in S : row.amount > amount})
               ties == Cardinality({row \in S : row.amount = amount})
               n == Cardinality(S)
               off == 2 * n * (100 - PercentileOf(amount, S)) - (200 * above + 100 * ties)
           IN  /\ above \in Nat /\ n \in Nat \ {0}
               /\ 200 * above <= (201 - 2 * PercentileOf(amount, S)) * n
               /\ 0 <= n + off /\ off < n
<1> DEFINE n == Cardinality(S)
           B == {row \in S : row.amount < amount}
           E == {row \in S : row.amount = amount}
           A == {row \in S : row.amount > amount}
           b == Cardinality(B)
           e == Cardinality(E)
           a == Cardinality(A)
           num == 2 * (200 * b + 100 * e) + 2 * n
           p == PercentileOf(amount, S)
<1>1. n \in Nat /\ n # 0
  BY FS_CardinalityType, FS_EmptySet DEF IsSample
<1>2. /\ B \cup E \cup A = S /\ B \cap E = {} /\ (B \cup E) \cap A = {}
      /\ B \in SUBSET S /\ E \in SUBSET S /\ A \in SUBSET S
  BY DEF IsSample
<1>3. p = num \div (2 * (2 * n))
  BY DEF PercentileOf, RoundHalfUp
<1>4. p \in 0..100
  BY PercentileIs
<1> HIDE DEF B, E, A, p
<1>5. b \in Nat /\ e \in Nat /\ a \in Nat /\ b + e + a = n
  <2>1. IsFiniteSet(B) /\ IsFiniteSet(E) /\ IsFiniteSet(A)
    BY <1>2, PartOfSample DEF IsSample
  <2>2. IsFiniteSet(B \cup E) /\ Cardinality(B \cup E) = b + e /\ b \in Nat /\ e \in Nat
    BY <1>2, <2>1, DisjointUnion
  <2>3. Cardinality(B \cup E \cup A) = Cardinality(B \cup E) + a /\ a \in Nat
    BY <1>2, <2>1, <2>2, DisjointUnion
  <2> QED BY <1>2, <2>2, <2>3
<1> HIDE DEF b, e, a, n
<1>6. num \in Nat /\ 2 * (2 * n) = 4 * n /\ 4 * n \in Nat /\ 4 * n > 0
  BY <1>1, <1>5
<1>7. p * (4 * n) <= num /\ num < (p + 1) * (4 * n) /\ p \in Nat /\ p <= 100
  <2> DEFINE d == 4 * n
  <2>1. d \in Nat /\ d > 0 /\ num \in Nat /\ p = num \div d
    BY <1>3, <1>6
  <2> HIDE DEF d, num
  <2>2. p * d <= num /\ num < (p + 1) * d
    BY <2>1
  <2>3. p \in Nat /\ p <= 100
    BY <1>4
  <2> QED BY <2>2, <2>3 DEF d
<1>8. /\ p * (4 * n) = 4 * (p * n) /\ (p + 1) * (4 * n) = 4 * (p * n) + 4 * n /\ p * n \in Nat
      /\ (201 - 2 * p) * n = 201 * n - 2 * (p * n)
      /\ 2 * n * (100 - p) = 200 * n - 2 * (p * n)
  BY <1>1, <1>7
<1>9. 200 * a <= 201 * n - 2 * (p * n)
  BY <1>1, <1>5, <1>7, <1>8
<1>10. 200 * a <= (201 - 2 * p) * n
  BY <1>8, <1>9
<1> DEFINE off == 2 * n * (100 - p) - (200 * a + 100 * e)
<1>11. 0 <= n + off /\ off < n
  BY <1>1, <1>5, <1>7, <1>8
<1> HIDE DEF off
<1> QED BY <1>1, <1>5, <1>10, <1>11 DEF p, a, A, e, E, n, off

LEMMA MinOfTwo ==
    ASSUME NEW a \in Int, NEW b \in Int
    PROVE  Min({a, b}) \in {a, b} /\ Min({a, b}) <= a /\ Min({a, b}) <= b
<1>1. IsFiniteSet({a} \cup {b}) /\ {a} \cup {b} = {a, b}
  BY FS_Singleton, FS_Union
<1> QED BY <1>1, MinIs

(* The later quotes of a departure. *)
LEMMA WindowIs ==
    ASSUME RunInv, NEW quote \in truth
    PROVE  /\ IsStore(Window(quote)) /\ Window(quote) \subseteq truth
           /\ \A row \in Window(quote) :
                /\ row.depart = quote.depart /\ quote.day < row.day
                /\ row.day <= quote.day + Horizon /\ row.day <= quote.depart
           /\ \A row \in truth :
                /\ row.depart = quote.depart /\ quote.day < row.day
                /\ row.day <= quote.day + Horizon /\ row.day <= quote.depart
                => row \in Window(quote)
<1> DEFINE last == Min({quote.day + Horizon, quote.depart})
<1>1. \A row \in truth : row.day \in Nat /\ row.depart \in Int
  BY TruthIs, RowIs DEF IsStore
<1>2. last \in {quote.day + Horizon, quote.depart} /\ last <= quote.day + Horizon
      /\ last <= quote.depart /\ last \in Int /\ quote.day + Horizon \in Int
  <2>1. quote.day + Horizon \in Int /\ quote.depart \in Int
    BY <1>1, BacktestAssumption
  <2> QED BY <2>1, MinOfTwo
<1>3. Window(quote) = {row \in truth : /\ row.depart = quote.depart /\ row.day > quote.day
                                       /\ row.day <= last}
  BY DEF Window
<1>4. IsStore(Window(quote)) /\ Window(quote) \subseteq truth
  BY <1>3, TruthIs, PartOfStore
<1> HIDE DEF last
<1>5. ASSUME NEW row \in truth
      PROVE  row.day <= last <=> row.day <= quote.day + Horizon /\ row.day <= quote.depart
  <2>1. row.day \in Int /\ quote.depart \in Int
    BY <1>1
  <2> QED BY <2>1, <1>2
<1>6. ASSUME NEW row \in truth PROVE row.day > quote.day <=> quote.day < row.day
  BY <1>1
<1> QED BY <1>3, <1>4, <1>5, <1>6

LowestOf(W) == Min({row.amount : row \in W})

(* The lowest of them, and what a wait among them comes to. *)
LEMMA SettlesIs ==
    ASSUME NEW W, IsStore(W), W # {}, NEW low, NEW depart
    PROVE  /\ \E row \in W : LowestOf(W) = row.amount
           /\ \A row \in W : LowestOf(W) <= row.amount
           /\ \E row \in W : ScoreWait(W, low, depart).paid = row.amount
<1> DEFINE amounts == {r.amount : r \in W}
           good == {row \in W : /\ depart - low.from <= row.day
                                /\ row.day <= depart - low.to
                                /\ row.amount <= low.amount}
           last == CHOOSE row \in W : \A other \in W : other.day <= row.day
           first == CHOOSE row \in good : \A other \in good : row.day <= other.day
<1>1. \A row \in W : row.amount \in Nat \ {0} /\ row.day \in Nat
  BY RowIs DEF IsStore
<1>2. amounts # {} /\ IsFiniteSet(amounts) /\ amounts \subseteq Int
  <2> DEFINE f == [row \in W |-> row.amount]
  <2>1. f \in Surjection(W, amounts)
    BY DEF Surjection
  <2>2. amounts # {} /\ amounts \subseteq Int
    BY <1>1
  <2> HIDE DEF f, amounts
  <2> QED BY <2>1, <2>2, FS_Surjection DEF IsStore
<1>3. Min(amounts) \in amounts /\ \A x \in amounts : Min(amounts) <= x
  <2> HIDE DEF amounts
  <2> QED BY <1>2, MinIs
<1>4. ASSUME NEW T \in SUBSET W, T # {}
      PROVE  /\ \E row \in T : \A other \in T : other.day <= row.day
             /\ \E row \in T : \A other \in T : row.day <= other.day
  <2> DEFINE days == {row.day : row \in T}
             f == [row \in T |-> row.day]
  <2>1. f \in Surjection(T, days)
    BY DEF Surjection
  <2>2. days # {} /\ days \subseteq Int
    BY <1>1, <1>4
  <2>3. IsFiniteSet(T)
    BY FS_Subset DEF IsStore
  <2>4. IsFiniteSet(days)
    <3> HIDE DEF f, days
    <3> QED BY <2>1, <2>3, FS_Surjection
  <2>5. /\ \E x \in days : \A y \in days : y <= x
        /\ \E x \in days : \A y \in days : x <= y
    <3> HIDE DEF days
    <3> QED BY <2>2, <2>4, GreatestExists, LeastExists
  <2> QED BY <2>5
<1>5. last \in W
  <2>1. W \in SUBSET W
    OBVIOUS
  <2> QED BY <2>1, <1>4
<1>6. good # {} => first \in good
  <2>1. good \in SUBSET W
    OBVIOUS
  <2> HIDE DEF good
  <2> QED BY <2>1, <1>4
<1>7. ScoreWait(W, low, depart)
        = IF good # {} THEN [paid |-> first.amount, windowHit |-> TRUE]
                       ELSE [paid |-> last.amount, windowHit |-> FALSE]
  BY DEF ScoreWait
<1>8. good \subseteq W
  OBVIOUS
<1>9. \E row \in W : ScoreWait(W, low, depart).paid = row.amount
  <2> HIDE DEF good, first, last
  <2> QED BY <1>5, <1>6, <1>7, <1>8
<1>10. \E row \in W : Min(amounts) = row.amount
  BY <1>3
<1>11. \A row \in W : row.amount \in amounts
  OBVIOUS
<1>12. LowestOf(W) = Min(amounts)
  BY DEF LowestOf
<1> HIDE DEF amounts
<1> QED BY <1>3, <1>9, <1>10, <1>11, <1>12

(* A prediction of a price that was brought along: unavailable and neutral, or
   a verdict on the rank of that price in a sample. *)
LEMMA AdviceIs ==
    ASSUME NEW H, IsStore(H), NEW c, IsCall(c), c.price # NoData
    PROVE  LET p == PredictionOf(H, c) IN
             \/ /\ p.reason \in DataUnavailableReason /\ p.reason # NoData
                /\ p.percentile = NoData /\ p.verdict = "neutral"
             \/ /\ p.reason = NoData /\ p.percentile # NoData /\ p.percentile \in 0..100
                /\ p.verdict \in {"book_now", "neutral", "wait"}
                /\ p.observations # {} /\ IsSample(p.observations)
                /\ p.percentile = PercentileOf(c.price.amount, p.observations)
                /\ p.observations = SampleOf(H, c)
<1> DEFINE now == c.depart - c.asOf
           p == PredictionOf(H, c)
           full == /\ p.reason = NoData
                   /\ p.verdict \in {"book_now", "neutral", "wait"}
                   /\ p.observations = SampleOf(H, c)
                   /\ ~ (Cardinality(SampleOf(H, c)) < Cfg.minCell)
                   /\ p.percentile = PercentileOf(Resolved(H, c).amount, SampleOf(H, c))
           none == /\ p.reason \in DataUnavailableReason /\ p.reason # NoData
                   /\ p.percentile = NoData /\ p.verdict = "neutral"
<1>1. \A reason \in DataUnavailableReason : \A price, curve, S :
        p = Unavailable(reason, price, curve, S) => none
  BY UnavailableIs, ReasonsAreNot
<1>2. IsFull(p, H, c) /\ ~ (Cardinality(SampleOf(H, c)) < Cfg.minCell) => full
  <2> SUFFICES ASSUME IsFull(p, H, c), ~ (Cardinality(SampleOf(H, c)) < Cfg.minCell) PROVE full
    OBVIOUS
  <2>1. \A percentile, curve, d :
          DecideVerdict(Cfg, percentile, curve, d) \in {"book_now", "neutral", "wait"}
    BY DEF DecideVerdict
  <2> QED BY <2>1 DEF IsFull
<1>3. full \/ none
  <2> HIDE DEF full, none
  <2>1. {"departure_in_past", "no_route_history", "no_current_price", "thin_route_history"}
          = DataUnavailableReason
    BY DEF DataUnavailableReason
  <2> QED BY <2>1, <1>1, <1>2, Outcomes
<1>4. ASSUME full
      PROVE  /\ p.observations # {} /\ IsSample(p.observations)
             /\ p.percentile \in 0..100 /\ p.percentile # NoData
             /\ p.percentile = PercentileOf(c.price.amount, p.observations)
  <2>1. Resolved(H, c).amount = c.price.amount /\ c.price.amount \in Nat
    <3>1. c.price \in Offers
      BY DEF IsCall
    <3>2. Supplied(c.price, c.asOf) # NoData
      BY SuppliedIs DEF IsCall
    <3>3. Resolved(H, c) = Supplied(c.price, c.asOf)
      BY <3>2 DEF Resolved
    <3> QED BY <3>1, <3>3 DEF Supplied, Offers
  <2>2. IsSample(p.observations) /\ p.observations # {}
    <3>1. IsSample(SampleOf(H, c))
      BY SampleIs
    <3>2. Cfg.minCell \in Nat \ {0}
      BY PredictionAssumption
    <3>3. Cardinality(SampleOf(H, c)) \in Nat
      BY <3>1, FS_CardinalityType DEF IsSample
    <3>4. Cardinality(SampleOf(H, c)) # 0
      BY <1>4, <3>2, <3>3
    <3> QED BY <1>4, <3>1, <3>4, FS_EmptySet
  <2>3. p.percentile = PercentileOf(c.price.amount, p.observations)
    BY <1>4, <2>1
  <2> HIDE DEF p, full
  <2>4. p.percentile \in 0..100
    BY <2>1, <2>2, <2>3, PercentileIs
  <2>5. p.percentile # NoData
    BY <2>4, ForecastAssumption
  <2> QED BY <2>2, <2>3, <2>4, <2>5
<1> QED BY <1>3, <1>4

(* The call a quote is scored by. *)
CallOf(quote) ==
    [depart |-> quote.depart, asOf |-> quote.day,
     price |-> [amount |-> quote.amount, cur |-> ContextCurrency(truth)]]

LEMMA CallOfIs ==
    ASSUME RunInv, NEW quote \in truth
    PROVE  /\ IsCall(CallOf(quote)) /\ CallOf(quote).price # NoData
           /\ CallOf(quote).price.amount = quote.amount
<1>1. /\ quote.depart \in Int /\ quote.day \in Nat /\ quote.amount \in Nat \ {0}
      /\ ContextCurrency(truth) \in Int
  <2>1. (CHOOSE row \in truth : TRUE) \in truth
    OBVIOUS
  <2> QED BY <2>1, TruthIs, RowIs DEF IsStore, ContextCurrency
<1>2. CallOf(quote).price \in Offers
  BY <1>1 DEF CallOf, Offers
<1> QED BY <1>1, <1>2, PredictionAssumption DEF CallOf, IsCall

(* What a sample says of the quote it is the score of. *)
IsScoreOf(s, quote) ==
    /\ s.depart = quote.depart /\ s.asOf = quote.day /\ s.priceNow = quote.amount
    /\ \E row \in Window(quote) : s.windowMin = row.amount
    /\ \A row \in Window(quote) : s.windowMin <= row.amount
    /\ s.oracle = Min({s.priceNow, s.windowMin})
    /\ IF s.verdict = "wait" THEN \E row \in Window(quote) : s.paid = row.amount
                             ELSE s.paid = s.priceNow
    /\ s.verdict = "book_now" => s.hit = (s.priceNow <= s.windowMin)
    /\ s.verdict = "wait" => s.hit = (s.paid < s.priceNow)
    /\ \/ /\ s.reason \in DataUnavailableReason /\ s.reason # NoData
          /\ s.percentile = NoData /\ s.realised = NoData /\ s.verdict = "neutral"
       \/ /\ s.reason = NoData /\ s.percentile # NoData /\ s.percentile \in 0..100
          /\ s.verdict \in {"book_now", "neutral", "wait"}
          /\ s.realised # NoData /\ s.realised.num \in Nat /\ s.realised.den \in Nat \ {0}
          /\ 200 * s.realised.num <= (201 - 2 * s.percentile) * s.realised.den
          /\ RankedExactly(s)

LEMMA ScoreFields ==
    ASSUME NEW quote, NEW H, NEW S
    PROVE  LET s == Score(quote, H, S)
               p == PredictionOf(H, CallOf(quote))
               W == Window(quote)
               paid == ScoreWait(W, p.low, quote.depart).paid
               lowest == LowestOf(W)
           IN  /\ s.depart = quote.depart /\ s.asOf = quote.day /\ s.priceNow = quote.amount
               /\ s.windowMin = lowest /\ s.oracle = Min({s.priceNow, s.windowMin})
               /\ s.verdict = p.verdict /\ s.reason = p.reason /\ s.percentile = p.percentile
               /\ s.paid = IF p.verdict = "wait" THEN paid ELSE quote.amount
               /\ s.hit = IF p.verdict = "book_now" THEN quote.amount <= lowest
                          ELSE IF p.verdict = "wait" THEN paid < quote.amount ELSE NoData
               /\ s.realised = Realised(p, quote.amount)
<1>1. PredictionOf(H, CallOf(quote))
        = PredictFrom(Cfg, H, quote.depart,
                      [amount |-> quote.amount, cur |-> ContextCurrency(truth)], quote.day)
  BY DEF PredictionOf, CallOf
<1> QED BY <1>1 DEF Score, LowestOf

LEMMA ScoreTells ==
    ASSUME RunInv, NEW s, IsScore(s)
    PROVE  \E quote \in truth : quote \in Due(quote.day) /\ IsScoreOf(s, quote)
<1>1. PICK quote \in truth :
         /\ quote \in Due(quote.day) /\ Window(quote) # {}
         /\ s = Score(quote, LoadRouteHistory(s.readFrom, Route, quote.day, Cfg.window),
                      s.readFrom)
  BY DEF IsScore
<1> DEFINE H == LoadRouteHistory(s.readFrom, Route, quote.day, Cfg.window)
           p == PredictionOf(H, CallOf(quote))
           W == Window(quote)
           paid == ScoreWait(W, p.low, quote.depart).paid
           lowest == LowestOf(W)
<1>2. /\ s.depart = quote.depart /\ s.asOf = quote.day /\ s.priceNow = quote.amount
      /\ s.windowMin = lowest /\ s.oracle = Min({s.priceNow, s.windowMin})
      /\ s.verdict = p.verdict /\ s.reason = p.reason /\ s.percentile = p.percentile
      /\ s.paid = IF p.verdict = "wait" THEN paid ELSE quote.amount
      /\ s.hit = IF p.verdict = "book_now" THEN quote.amount <= lowest
                 ELSE IF p.verdict = "wait" THEN paid < quote.amount ELSE NoData
      /\ s.realised = Realised(p, quote.amount)
  <2>1. s = Score(quote, H, s.readFrom)
    BY <1>1
  <2> HIDE DEF H
  <2> DEFINE t == Score(quote, H, s.readFrom)
  <2>2. /\ t.depart = quote.depart /\ t.asOf = quote.day /\ t.priceNow = quote.amount
        /\ t.windowMin = lowest /\ t.oracle = Min({t.priceNow, t.windowMin})
        /\ t.verdict = p.verdict /\ t.reason = p.reason /\ t.percentile = p.percentile
        /\ t.paid = IF p.verdict = "wait" THEN paid ELSE quote.amount
        /\ t.hit = IF p.verdict = "book_now" THEN quote.amount <= lowest
                   ELSE IF p.verdict = "wait" THEN paid < quote.amount ELSE NoData
        /\ t.realised = Realised(p, quote.amount)
    <3> HIDE DEF t
    <3> QED BY ScoreFields DEF t
  <2>3. s = t
    BY <2>1
  <2> HIDE DEF t, p, W, paid, lowest
  <2> QED BY <2>2, <2>3
<1>3. IsStore(W) /\ W # {}
  BY <1>1, WindowIs
<1>4. IsStore(H)
  <2> DEFINE c == CallOf(quote)
  <2>1. IsStore(s.readFrom) /\ c.depart = quote.depart /\ c.asOf = quote.day
    BY DEF IsScore, CallOf
  <2>2. ~ (quote.depart < quote.day)
    BY TruthIs, RowIs DEF IsStore
  <2>3. HistoryOf(s.readFrom, c) = H
    BY <2>1, <2>2 DEF HistoryOf
  <2> HIDE DEF H, c
  <2> QED BY <2>1, <2>3, HistoryIs
<1>5. /\ IsCall(CallOf(quote)) /\ CallOf(quote).price # NoData
      /\ CallOf(quote).price.amount = quote.amount /\ quote.amount \in Nat
  BY CallOfIs DEF IsCall, Offers
<1> HIDE DEF H
<1>6. \/ /\ p.reason \in DataUnavailableReason /\ p.reason # NoData
         /\ p.percentile = NoData /\ p.verdict = "neutral"
      \/ /\ p.reason = NoData /\ p.percentile # NoData /\ p.percentile \in 0..100
         /\ p.verdict \in {"book_now", "neutral", "wait"}
         /\ p.observations # {} /\ IsSample(p.observations)
         /\ p.percentile = PercentileOf(quote.amount, p.observations)
         /\ p.observations = SampleOf(H, CallOf(quote))
  BY <1>4, <1>5, AdviceIs
<1>10. CellOf(s) = SampleOf(H, CallOf(quote))
  <2>1. CallOf(quote).depart = s.depart /\ CallOf(quote).asOf = s.asOf /\ quote.day = s.asOf
    BY <1>2 DEF CallOf
  <2> QED BY <2>1 DEF CellOf, SampleOf, H
<1> HIDE DEF p
<1>7. \/ /\ s.reason \in DataUnavailableReason /\ s.reason # NoData
         /\ s.percentile = NoData /\ s.realised = NoData /\ s.verdict = "neutral"
      \/ /\ s.reason = NoData /\ s.percentile # NoData /\ s.percentile \in 0..100
         /\ s.verdict \in {"book_now", "neutral", "wait"}
         /\ s.realised # NoData /\ s.realised.num \in Nat /\ s.realised.den \in Nat \ {0}
         /\ 200 * s.realised.num <= (201 - 2 * s.percentile) * s.realised.den
         /\ RankedExactly(s)
  <2>1. CASE p.percentile = NoData
    BY <1>2, <1>6, <2>1 DEF Realised
  <2>2. CASE p.percentile # NoData
    <3> DEFINE above == Cardinality({row \in p.observations : row.amount > quote.amount})
               ties == Cardinality({row \in p.observations : row.amount = quote.amount})
               n == Cardinality(p.observations)
               off == 2 * n * (100 - p.percentile) - (200 * above + 100 * ties)
    <3>1. /\ above \in Nat /\ n \in Nat \ {0}
          /\ 200 * above <= (201 - 2 * p.percentile) * n
          /\ 0 <= n + off /\ off < n
      <4> DEFINE S == p.observations
                 amount == quote.amount
      <4>1. S # {} /\ IsSample(S) /\ amount \in Nat /\ p.percentile = PercentileOf(amount, S)
        BY <1>5, <1>6, <2>2
      <4> HIDE DEF S, amount
      <4>2. LET all == Cardinality(S)
                more == Cardinality({row \in S : row.amount > amount})
                same == Cardinality({row \in S : row.amount = amount})
                left == 2 * all * (100 - PercentileOf(amount, S)) - (200 * more + 100 * same)
            IN  /\ more \in Nat /\ all \in Nat \ {0}
                /\ 200 * more <= (201 - 2 * PercentileOf(amount, S)) * all
                /\ 0 <= all + left /\ left < all
        BY <4>1, RankIs
      <4> QED BY <4>1, <4>2 DEF S, amount
    <3>2. s.realised = [num |-> above, den |-> n]
      BY <1>2, <2>2 DEF Realised
    <3>3. CellOf(s) = p.observations
      BY <1>6, <1>10, <2>2
    <3> HIDE DEF above
    <3>4. RankedExactly(s)
      BY <1>2, <3>1, <3>2, <3>3 DEF RankedExactly
    <3> HIDE DEF n, off
    <3>5. s.realised # NoData
      BY <3>1, <3>2, ForecastAssumption
    <3> QED BY <3>1, <3>2, <3>4, <3>5, <1>2, <1>6, <2>2
  <2> QED BY <2>1, <2>2
<1>8. /\ \E row \in W : lowest = row.amount
      /\ \A row \in W : lowest <= row.amount
      /\ \E row \in W : paid = row.amount
  <2> HIDE DEF W
  <2> QED BY <1>3, SettlesIs
<1> HIDE DEF paid, lowest
<1>9. IsScoreOf(s, quote)
  BY <1>2, <1>7, <1>8 DEF IsScoreOf
<1> QED BY <1>1, <1>9

(* The prices of a sample. *)
LEMMA PricesAre ==
    ASSUME RunInv, NEW quote \in truth, NEW s, IsScoreOf(s, quote)
    PROVE  /\ s.priceNow \in Nat \ {0} /\ s.windowMin \in Nat \ {0}
           /\ s.paid \in Nat \ {0} /\ s.oracle \in Nat \ {0}
           /\ s.oracle \in {s.priceNow, s.windowMin}
           /\ s.oracle <= s.priceNow /\ s.oracle <= s.windowMin /\ s.oracle <= s.paid
<1>1. /\ s.priceNow = quote.amount
      /\ \E row \in Window(quote) : s.windowMin = row.amount
      /\ \A row \in Window(quote) : s.windowMin <= row.amount
      /\ s.oracle = Min({s.priceNow, s.windowMin})
      /\ IF s.verdict = "wait" THEN \E row \in Window(quote) : s.paid = row.amount
                               ELSE s.paid = s.priceNow
  BY DEF IsScoreOf
<1>2. \A row \in Window(quote) : row.amount \in Nat \ {0}
  BY WindowIs, RowIs DEF IsStore
<1>3. s.priceNow \in Nat \ {0} /\ s.windowMin \in Nat \ {0}
  BY <1>1, <1>2, TruthIs, RowIs DEF IsStore
<1>4. /\ s.oracle \in {s.priceNow, s.windowMin}
      /\ s.oracle <= s.priceNow /\ s.oracle <= s.windowMin
  BY <1>1, <1>3, MinOfTwo
<1>5. s.oracle \in Nat \ {0}
  BY <1>3, <1>4
<1>6. s.paid \in Nat \ {0} /\ (s.paid = s.priceNow \/ s.windowMin <= s.paid)
  BY <1>1, <1>2, <1>3
<1>7. s.oracle <= s.paid
  BY <1>3, <1>4, <1>5, <1>6
<1> QED BY <1>3, <1>4, <1>5, <1>6, <1>7

(* No arm beats hindsight: what a sample pays was really to be had, now or in
   its window, and is never below what the oracle pays (harness.py, score_wait
   and _score_quote; metrics.py, _arm). *)
THEOREM HindsightIsBest == BacktestSpec => []NoSampleBeatsHindsight
<1>1. RunInv => NoSampleBeatsHindsight
  <2> SUFFICES ASSUME RunInv, NEW s \in samples
               PROVE  /\ s.oracle <= s.paid
                      /\ \E row \in truth : /\ row.depart = s.depart /\ row.amount = s.paid
                                            /\ s.asOf <= row.day /\ row.day <= s.depart
                                            /\ row.day <= s.asOf + Horizon
                      /\ s.verdict = "book_now" => s.hit = (s.paid = s.oracle)
                      /\ s.verdict = "wait" /\ s.hit => s.oracle < s.priceNow
    BY DEF NoSampleBeatsHindsight
  <2>1. PICK quote \in truth : IsScoreOf(s, quote)
    BY ScoreTells DEF RunInv
  <2>2. /\ s.priceNow \in Nat \ {0} /\ s.windowMin \in Nat \ {0}
        /\ s.paid \in Nat \ {0} /\ s.oracle \in Nat \ {0}
        /\ s.oracle \in {s.priceNow, s.windowMin}
        /\ s.oracle <= s.priceNow /\ s.oracle <= s.windowMin /\ s.oracle <= s.paid
    BY <2>1, PricesAre
  <2>3. /\ s.depart = quote.depart /\ s.asOf = quote.day /\ s.priceNow = quote.amount
        /\ IF s.verdict = "wait" THEN \E row \in Window(quote) : s.paid = row.amount
                                 ELSE s.paid = s.priceNow
        /\ s.verdict = "book_now" => s.hit = (s.priceNow <= s.windowMin)
        /\ s.verdict = "wait" => s.hit = (s.paid < s.priceNow)
    BY <2>1 DEF IsScoreOf
  <2>4. \E row \in truth : /\ row.depart = s.depart /\ row.amount = s.paid
                           /\ s.asOf <= row.day /\ row.day <= s.depart
                           /\ row.day <= s.asOf + Horizon
    <3>1. \A row \in truth : row.day \in Nat /\ row.depart \in Int /\ row.day <= row.depart
      BY TruthIs, RowIs DEF IsStore
    <3>2. Horizon \in Nat
      BY BacktestAssumption
    <3>3. CASE s.verdict = "wait"
      <4>1. PICK row \in Window(quote) : s.paid = row.amount
        BY <2>3, <3>3
      <4>2. /\ row \in truth /\ row.depart = quote.depart /\ quote.day < row.day
            /\ row.day <= quote.day + Horizon /\ row.day <= quote.depart
        BY WindowIs
      <4>3. quote.day <= row.day
        BY <4>2, <3>1
      <4> QED BY <4>1, <4>2, <4>3, <2>3
    <3>4. CASE s.verdict # "wait"
      <4>1. quote.day <= quote.day /\ quote.day <= quote.day + Horizon
        BY <3>1, <3>2
      <4> QED BY <4>1, <2>3, <3>1, <3>4
    <3> QED BY <3>3, <3>4
  <2>5. s.verdict = "book_now" => s.hit = (s.paid = s.oracle)
    <3>1. (s.priceNow <= s.windowMin) <=> (s.priceNow = s.oracle)
      BY <2>2
    <3> QED BY <3>1, <2>3
  <2>6. s.verdict = "wait" /\ s.hit => s.oracle < s.priceNow
    <3>1. s.verdict = "wait" /\ s.hit => s.paid < s.priceNow
      BY <2>3, Zenon
    <3> QED BY <3>1, <2>2
  <2> QED BY <2>2, <2>4, <2>5, <2>6
<1> QED BY <1>1, SamplesAreScores, PTL

(* What a sample repeats of its quote, and of what predict() says of it. *)
LEMMA ScoreSays ==
    ASSUME NEW quote, NEW H, NEW S, NEW s, NEW p,
           s = Score(quote, H, S), p = PredictionOf(H, CallOf(quote))
    PROVE  /\ s.depart = quote.depart /\ s.asOf = quote.day /\ s.priceNow = quote.amount
           /\ s.verdict = p.verdict /\ s.reason = p.reason /\ s.percentile = p.percentile
<1>1. LET t == Score(quote, H, S)
          o == PredictionOf(H, CallOf(quote))
      IN  /\ t.depart = quote.depart /\ t.asOf = quote.day /\ t.priceNow = quote.amount
          /\ t.verdict = o.verdict /\ t.reason = o.reason /\ t.percentile = o.percentile
  <2>1. PredictionOf(H, CallOf(quote))
          = PredictFrom(Cfg, H, quote.depart,
                        [amount |-> quote.amount, cur |-> ContextCurrency(truth)], quote.day)
    BY DEF PredictionOf, CallOf
  <2> QED BY <2>1 DEF Score
<1> QED BY <1>1

(* Two calls that come to the same price are given the same advice. *)
LEMMA SameAdvice ==
    ASSUME NEW H, NEW c, NEW d, c.depart = d.depart, c.asOf = d.asOf,
           ~ (c.depart - c.asOf < 0), InCurrency(H, c.price), InCurrency(H, d.price),
           Resolved(H, c) # NoData, Resolved(H, d) # NoData,
           Resolved(H, c).amount = Resolved(H, d).amount
    PROVE  LET p == PredictionOf(H, c)
               q == PredictionOf(H, d)
           IN  /\ p.verdict = q.verdict /\ p.percentile = q.percentile /\ p.reason = q.reason
               /\ q.price = Resolved(H, d)
<1> DEFINE p == PredictionOf(H, c)
           q == PredictionOf(H, d)
           thin == Cardinality(SampleOf(H, c)) < Cfg.minCell
<1>1. SampleOf(H, c) = SampleOf(H, d) /\ CurveOf(H, c) = CurveOf(H, d)
  BY DEF SampleOf, CurveOf
<1>2. \/ /\ thin /\ p = Unavailable("thin_route_history", Resolved(H, c), CurveOf(H, c),
                                    SampleOf(H, c))
      \/ ~ thin /\ IsFull(p, H, c)
  BY Outcomes
<1>3. \/ /\ thin /\ q = Unavailable("thin_route_history", Resolved(H, d), CurveOf(H, d),
                                    SampleOf(H, d))
      \/ ~ thin /\ IsFull(q, H, d)
  BY <1>1, Outcomes
<1> HIDE DEF p, q, thin
<1>4. CASE thin
  <2>1. /\ p.verdict = "neutral" /\ p.percentile = NoData /\ p.reason = "thin_route_history"
        /\ q.verdict = "neutral" /\ q.percentile = NoData /\ q.reason = "thin_route_history"
        /\ q.price = Resolved(H, d)
    BY <1>2, <1>3, <1>4, UnavailableIs
  <2> QED BY <2>1 DEF p, q
<1>5. CASE ~ thin
  <2>1. IsFull(p, H, c) /\ IsFull(q, H, d)
    BY <1>2, <1>3, <1>5
  <2>2. /\ p.reason = NoData /\ q.reason = NoData /\ q.price = Resolved(H, d)
        /\ p.percentile = PercentileOf(Resolved(H, c).amount, SampleOf(H, c))
        /\ p.verdict = DecideVerdict(Cfg, p.percentile, CurveOf(H, c), c.depart - c.asOf)
        /\ q.percentile = PercentileOf(Resolved(H, d).amount, SampleOf(H, d))
        /\ q.verdict = DecideVerdict(Cfg, q.percentile, CurveOf(H, d), d.depart - d.asOf)
    BY <2>1 DEF IsFull
  <2>3. p.percentile = q.percentile
    BY <1>1, <2>2
  <2>4. p.verdict = q.verdict
    BY <1>1, <2>2, <2>3
  <2> QED BY <2>2, <2>3, <2>4 DEF p, q
<1> QED BY <1>4, <1>5

(* A backtest of a route in one currency scores what predict() would have said
   on the day, of the price it would have found: the walk sees neither more
   nor less than the product did, as long as its truth and its history were
   read from the same rows (harness.py, collect_samples; predictor.py, predict). *)
THEOREM WalkSaysWhatPredictSaid == BacktestSpec => []WalkForwardInOneCurrency
<1>1. RunInv => WalkForwardInOneCurrency
  <2> SUFFICES ASSUME RunInv, NEW s \in samples, s.readFrom = truthOf,
                      \A a, b \in truthOf : a.cur = b.cur
               PROVE  SaysWhatPredictSaid(s)
    BY DEF WalkForwardInOneCurrency
  <2>1. PICK quote \in truth :
          /\ quote \in Due(quote.day)
          /\ s = Score(quote, LoadRouteHistory(truthOf, Route, quote.day, Cfg.window), truthOf)
    BY DEF RunInv, IsScore
  <2> DEFINE past == {row \in truthOf : row.day <= quote.day}
             c == CallOf(quote)
             d == [depart |-> quote.depart, price |-> NoData, asOf |-> quote.day]
             H == LoadRouteHistory(truthOf, Route, quote.day, Cfg.window)
             seen == SeenBy(truthOf, d)
             now == LatestPriceRows(H, quote.depart, quote.day)
             p == PredictionOf(H, c)
             q == PredictionOf(H, d)
  <2>2. /\ d.depart = quote.depart /\ d.asOf = quote.day /\ d.price = NoData
        /\ c.depart = quote.depart /\ c.asOf = quote.day
        /\ c.price = [amount |-> quote.amount, cur |-> ContextCurrency(truth)]
    BY DEF CallOf
  <2>3. /\ IsStore(truthOf) /\ truth = Collapse(truthOf) /\ truth \subseteq truthOf
        /\ quote \in truthOf /\ quote \in FareRows
    BY TruthIs DEF RunInv, IsStore
  <2>4. /\ quote.day \in Nat /\ quote.depart \in Int /\ ~ (quote.depart < quote.day)
        /\ ~ (quote.depart - quote.day < 0) /\ quote.amount \in Nat \ {0} /\ quote.cur \in Int
    <3>1. quote.day \in Nat /\ quote.depart \in Int /\ quote.day <= quote.depart
      BY <2>3, TruthIs, RowIs
    <3> QED BY <3>1, <2>3, RowIs
  <2>5. /\ s.depart = quote.depart /\ s.asOf = quote.day /\ s.priceNow = quote.amount
        /\ s.verdict = p.verdict /\ s.reason = p.reason /\ s.percentile = p.percentile
    <3>1. s = Score(quote, H, truthOf) /\ p = PredictionOf(H, CallOf(quote))
      BY <2>1
    <3> HIDE DEF H, p
    <3> QED BY <3>1, ScoreSays
  <2>6. /\ IsStore(seen) /\ IsStore(H) /\ H = Collapse(seen) /\ seen \subseteq truthOf
        /\ Contemporary(s) = q
    <3>1. IsStore(past)
      <4>1. past \in SUBSET truthOf
        OBVIOUS
      <4> HIDE DEF past
      <4> QED BY <4>1, <2>3, PartOfStore
    <3>2. RawHistory(past, Route, quote.day, Cfg.window)
            = RawHistory(truthOf, Route, quote.day, Cfg.window)
      BY DEF RawHistory
    <3>3. HistoryOf(past, d) = H /\ HistoryOf(truthOf, d) = H
      BY <2>2, <2>4, <3>2 DEF HistoryOf, LoadRouteHistory
    <3>4. Contemporary(s) = Predict(Cfg, past, Route, d.depart, d.price, d.asOf)
      BY <2>1, <2>2, <2>3, <2>5 DEF Contemporary
    <3> HIDE DEF past, H, d
    <3>5. Predict(Cfg, past, Route, d.depart, d.price, d.asOf) = PredictionOf(H, d)
      BY <3>1, <3>3, HistoryIs
    <3>6. /\ IsStore(seen) /\ IsStore(H) /\ (~ (d.depart < d.asOf) => H = Collapse(seen))
      BY <3>3, <2>3, HistoryIs
    <3>7. seen \subseteq truthOf
      BY DEF SeenBy
    <3> QED BY <3>4, <3>5, <3>6, <3>7, <2>2, <2>4
  <2> DEFINE Leads(row, S) == \A other \in S : SameCell(row, other) /\ other # row
                                   => PreferredTo(row, other)
  <2>7. H = {row \in seen : row.day <= row.depart /\ Leads(row, seen)}
    <3>1. \A a, b \in seen : a.cur = b.cur
      BY <2>6
    <3> HIDE DEF seen, H
    <3> QED BY <3>1, <2>6, OneCurrencyCollapse
  <2>8. quote \in H
    <3>1. quote.day <= quote.depart /\ Leads(quote, truthOf)
      <4>1. truth = {row \in truthOf : row.day <= row.depart /\ Leads(row, truthOf)}
        BY <2>3, OneCurrencyCollapse
      <4> QED BY <4>1
    <3>2. quote \in seen
      <4>1. quote.day - Cfg.window <= quote.day
        BY <2>4, PredictionAssumption
      <4> QED BY <4>1, <2>2, <2>3, <2>4 DEF SeenBy
    <3> HIDE DEF H, seen
    <3> QED BY <3>1, <3>2, <2>6, <2>7
  <2> HIDE DEF H, seen, d, c
  <2>9. /\ now \subseteq FareRows /\ now # {} /\ \A row \in now : row = quote
    <3>1. \A row \in now : /\ row \in H /\ row.depart = quote.depart /\ row.day <= quote.day
                           /\ quote.day <= row.day
      BY <2>4, <2>6, <2>8, LatestRowsAre
    <3>2. now # {}
      BY <2>4, <2>6, <2>8, LatestRowsAre
    <3>3. ASSUME NEW row \in now, row # quote PROVE FALSE
      <4>1. row \in H /\ row.depart = quote.depart /\ row \in FareRows /\ row.day = quote.day
            /\ row.route = quote.route
        <5>1. row \in H /\ row \in FareRows /\ row.depart = quote.depart
          BY <3>1, <2>6 DEF IsStore
        <5>2. row.day \in Nat /\ row.route = Route /\ quote.route = Route
          BY <5>1, <2>3, RowIs
        <5> QED BY <5>1, <5>2, <3>1, <2>4
      <4>2. SameCell(row, quote) /\ SameCell(quote, row)
        BY <4>1 DEF SameCell
      <4>3. PreferredTo(row, quote) /\ PreferredTo(quote, row)
        BY <4>1, <4>2, <3>3, <2>7, <2>8
      <4> QED BY <4>1, <4>3, <2>3, PreferenceIsStrict
    <3> HIDE DEF now
    <3> QED BY <3>1, <3>2, <3>3, <2>6 DEF IsStore
  <2>10. /\ Resolved(H, d) # NoData /\ Resolved(H, d).amount = quote.amount
    <3>1. Supplied(d.price, d.asOf) = NoData
      BY <2>2 DEF Supplied
    <3>2. Resolved(H, d) = Stored(now)
      BY <3>1, <2>2 DEF Resolved
    <3> HIDE DEF now
    <3>3. Stored(now) # NoData /\ Stored(now).amount = quote.amount
      BY <2>9, StoredIs
    <3> QED BY <3>2, <3>3
  <2>11. /\ Resolved(H, c) # NoData /\ Resolved(H, c).amount = quote.amount
    <3>1. IsCall(c) /\ c.price # NoData
      BY CallOfIs DEF c
    <3>2. Supplied(c.price, c.asOf) # NoData
      BY <3>1, SuppliedIs DEF IsCall
    <3>3. Resolved(H, c) = Supplied(c.price, c.asOf)
      BY <3>2 DEF Resolved
    <3>4. Supplied(c.price, c.asOf).amount = c.price.amount
      BY <3>1 DEF Supplied
    <3> QED BY <3>2, <3>3, <3>4, <2>2
  <2>12. InCurrency(H, c.price) /\ InCurrency(H, d.price)
    <3>1. (CHOOSE row \in H : TRUE) \in truthOf /\ (CHOOSE row \in truth : TRUE) \in truthOf
      <4>1. (CHOOSE row \in H : TRUE) \in H /\ (CHOOSE row \in truth : TRUE) \in truth
        BY <2>8
      <4>2. H \subseteq truthOf
        BY <2>6, <2>7
      <4> QED BY <4>1, <4>2, <2>3
    <3>2. ContextCurrency(H) = ContextCurrency(truth)
      BY <3>1, <2>8 DEF ContextCurrency
    <3> QED BY <3>2, <2>2, <2>8 DEF InCurrency
  <2>13. /\ p.verdict = q.verdict /\ p.percentile = q.percentile /\ p.reason = q.reason
         /\ q.price = Resolved(H, d)
    BY <2>2, <2>4, <2>10, <2>11, <2>12, SameAdvice
  <2> HIDE DEF p, q
  <2> QED BY <2>5, <2>6, <2>10, <2>13 DEF SaysWhatPredictSaid
<1> QED BY <1>1, SamplesAreScores, PTL


(* The quotes in range of a run that has ended are those it scored and those
   it missed. *)
LEMMA EveryQuoteInRange ==
    ASSUME RunInv
    PROVE  EveryQuoteIsAccountedFor
<1> DEFINE done == IF scenario THEN AsOfDates ELSE {row.day : row \in truth}
           inRange == {row \in truth : /\ row.day \in done
                                       /\ IF scenario THEN row.depart - row.day \in MinDtd..MaxDtd
                                                      ELSE row.day < row.depart}
           HasLater(row) == \E later \in truth : /\ later.depart = row.depart
                                                 /\ later.day > row.day
                                                 /\ later.day <= row.depart
                                                 /\ later.day <= row.day + Horizon
           HasSample(row) == \E s \in samples : s.depart = row.depart /\ s.asOf = row.day
<1> SUFFICES ASSUME phase = "reported", quiet, scenario \/ Stride = 1
             PROVE  /\ Cardinality(samples) + skipped = Cardinality(inRange)
                    /\ \A row \in inRange : HasSample(row) <=> HasLater(row)
  BY DEF EveryQuoteIsAccountedFor
<1>1. Accounted(Agenda)
  <2>1. Agenda \ asOfs = Agenda
    BY DEF RunInv
  <2> QED BY <2>1 DEF RunInv
<1>2. \A row \in truth : row.day \in Nat /\ row.depart \in Int
  BY TruthIs, RowIs DEF IsStore
<1>3. MinDtd \in Nat /\ MaxDtd \in Nat /\ LeastDtd = IF scenario THEN MinDtd ELSE 1
  BY BacktestAssumption DEF LeastDtd
<1>4. ASSUME NEW row \in truth
      PROVE  (IF scenario THEN row.depart - row.day \in MinDtd..MaxDtd
                          ELSE row.day < row.depart) <=> row \in Due(row.day)
  <2>1. row.depart - row.day \in Int /\ (row.day < row.depart <=> 1 <= row.depart - row.day)
    BY <1>2
  <2>2. row \in Due(row.day) <=> /\ LeastDtd <= row.depart - row.day
                                 /\ (scenario => row.depart - row.day <= MaxDtd)
    BY DEF Due
  <2> QED BY <2>1, <2>2, <1>3
<1>5. ASSUME NEW row \in truth PROVE row.day \in done <=> row.day \in Agenda
  <2>1. CASE scenario
    BY <2>1 DEF Agenda
  <2>2. CASE ~ scenario
    <3>1. IsStore(truthOf) /\ row \in truthOf /\ Stride = 1
      BY <2>2, TruthIs DEF RunInv
    <3> QED BY <2>2, <3>1, DaysAre DEF Agenda
  <2> QED BY <2>1, <2>2
<1>6. /\ inRange = Scored(Agenda) \cup Missed(Agenda)
      /\ Scored(Agenda) \cap Missed(Agenda) = {}
  <2> HIDE DEF done
  <2> QED BY <1>4, <1>5 DEF Scored, Missed
<1>7. Cardinality(samples) + skipped = Cardinality(inRange)
  <2>1. IsFiniteSet(truth)
    BY TruthIs DEF IsStore
  <2>2. Scored(Agenda) \subseteq truth /\ Missed(Agenda) \subseteq truth
    BY DEF Scored, Missed
  <2>3. IsFiniteSet(Scored(Agenda)) /\ IsFiniteSet(Missed(Agenda))
    BY <2>1, <2>2, FS_Subset
  <2> HIDE DEF inRange
  <2> QED BY <1>1, <1>6, <2>3, DisjointUnion DEF Accounted
<1>8. ASSUME NEW row \in inRange PROVE HasSample(row) <=> Window(row) # {}
  <2>1. row \in truth /\ row.day \in Agenda /\ row \in Due(row.day)
    BY <1>4, <1>5
  <2> HIDE DEF inRange
  <2>2. ASSUME Window(row) # {} PROVE HasSample(row)
    BY <2>1, <2>2, <1>1 DEF Accounted, Scored
  <2>3. ASSUME HasSample(row) PROVE Window(row) # {}
    <3>1. PICK s \in samples : s.depart = row.depart /\ s.asOf = row.day
      BY <2>3
    <3>2. PICK quote \in truth :
            /\ Window(quote) # {}
            /\ s = Score(quote, LoadRouteHistory(s.readFrom, Route, quote.day, Cfg.window),
                         s.readFrom)
      BY DEF RunInv, IsScore
    <3>3. s.depart = quote.depart /\ s.asOf = quote.day
      BY <3>2, ScoreOf
    <3>4. quote = row
      BY <3>1, <3>3, <2>1, TruthIs
    <3> QED BY <3>2, <3>4
  <2> QED BY <2>2, <2>3
<1>9. ASSUME NEW row \in inRange PROVE HasLater(row) <=> Window(row) # {}
  <2>1. row \in truth
    OBVIOUS
  <2>2. \A later \in truth : later.day > row.day <=> row.day < later.day
    BY <2>1, <1>2
  <2> HIDE DEF inRange
  <2> QED BY <2>1, <2>2, WindowIs
<1> HIDE DEF inRange, HasSample, HasLater
<1> QED BY <1>7, <1>8, <1>9

(* What the report is made of. *)
IsMeasured(s) ==
    /\ s.priceNow \in Nat /\ s.paid \in Nat /\ s.oracle \in Nat
    /\ s.oracle <= s.priceNow /\ s.oracle <= s.paid
    /\ s.verdict \in {"book_now", "neutral", "wait"}
    /\ s.verdict # "wait" => s.paid = s.priceNow
    /\ \/ s.reason # NoData /\ s.percentile = NoData /\ s.realised = NoData
       \/ /\ s.reason = NoData /\ s.percentile # NoData /\ s.percentile \in 0..100
          /\ s.realised # NoData /\ s.realised.num \in Nat /\ s.realised.den \in Nat \ {0}
          /\ 200 * s.realised.num <= (201 - 2 * s.percentile) * s.realised.den

LEMMA SamplesMeasured ==
    ASSUME RunInv, NEW s \in samples
    PROVE  IsMeasured(s)
<1>1. PICK quote \in truth : IsScoreOf(s, quote)
  BY ScoreTells DEF RunInv
<1>2. /\ s.priceNow \in Nat /\ s.paid \in Nat /\ s.oracle \in Nat
      /\ s.oracle <= s.priceNow /\ s.oracle <= s.paid
  BY <1>1, PricesAre
<1> QED BY <1>1, <1>2 DEF IsScoreOf, IsMeasured

LEMMA TotalIs ==
    ASSUME NEW f
    PROVE  Total(f) = SumOver(f, DOMAIN f)
BY DEF Total, FoldFunction, FoldFunctionOnSet, SumOver

(* Every sample has one verdict. *)
LEMMA VerdictsAddUp ==
    ASSUME NEW S, IsFiniteSet(S), \A s \in S : IsMeasured(s), NEW k
    PROVE  LET verdicts == Summary(S, k).verdicts
           IN  /\ Total(verdicts) = Cardinality(S)
               /\ Cardinality(Actionable(S)) = verdicts["book_now"] + verdicts["wait"]
               /\ verdicts["wait"] = Cardinality(Waits(S))
<1> DEFINE V == {"book_now", "neutral", "wait"}
           Of(v) == {s \in S : s.verdict = v}
           n == [v \in V |-> Cardinality(Of(v))]
           key == [s \in S |-> s.verdict]
<1>1. Summary(S, k).verdicts = n
  BY DEF Summary
<1>2. \A v \in V : {e \in S : key[e] = v} = Of(v)
  OBVIOUS
<1>3. {e \in S : key[e] \in V} = S
  BY DEF IsMeasured
<1>4. IsFiniteSet(V)
  <2>1. V = {"book_now"} \cup {"neutral"} \cup {"wait"}
    OBVIOUS
  <2> HIDE DEF V
  <2> QED BY <2>1, FS_Singleton, FS_Union
<1>5. /\ Of("book_now") \cup Of("wait") = Actionable(S) /\ Of("book_now") \cap Of("wait") = {}
      /\ Of("wait") = Waits(S)
  BY DEF Actionable, Waits, IsMeasured
<1>6. IsFiniteSet(Of("book_now")) /\ IsFiniteSet(Of("wait"))
  <2>1. Of("book_now") \subseteq S /\ Of("wait") \subseteq S
    OBVIOUS
  <2> HIDE DEF Of
  <2> QED BY <2>1, FS_Subset
<1>7. n["book_now"] = Cardinality(Of("book_now")) /\ n["wait"] = Cardinality(Of("wait"))
  OBVIOUS
<1>8. \A v \in V : n[v] = Cardinality({e \in S : key[e] = v})
  <2> HIDE DEF key, Of
  <2> QED BY <1>2
<1>9. DOMAIN n = V
  OBVIOUS
<1> HIDE DEF n, V, Of, key
<1>10. Total(n) = Cardinality(S)
  BY <1>3, <1>4, <1>8, <1>9, TotalIs, SumOfParts
<1>11. Cardinality(Actionable(S)) = n["book_now"] + n["wait"]
  BY <1>5, <1>6, <1>7, DisjointUnion
<1> QED BY <1>1, <1>5, <1>7, <1>10, <1>11

(* Every sample has either a reason or a place in one bin. *)
LEMMA PlacesAddUp ==
    ASSUME NEW S, IsFiniteSet(S), \A s \in S : IsMeasured(s), NEW k
    PROVE  LET told == Summary(S, k) IN
             Total(told.unavailable) + Total([d \in 0..9 |-> told.ranks[d].samples])
               = Cardinality(S)
<1> DEFINE none == {s \in S : s.reason # NoData}
           ranked == {s \in S : s.percentile # NoData /\ s.realised # NoData}
           K == {s.reason : s \in S} \ {NoData}
           D == 0..9
           place == [s \in S |-> IF s \in ranked THEN Decile(s.percentile) ELSE 10]
           reason == [s \in S |-> s.reason]
           reasons == [x \in K |-> Cardinality({s \in S : s.reason = x})]
           Bin(d) == {s \in S : /\ s.percentile # NoData /\ s.realised # NoData
                                /\ Decile(s.percentile) = d}
           bins == [d \in D |-> Cardinality(Bin(d))]
<1>1. Summary(S, k).unavailable = reasons
  BY DEF Summary, Reasons
<1>2. [d \in 0..9 |-> Summary(S, k).ranks[d].samples] = bins
  BY DEF Summary, RankConsistency
<1>3. none \cup ranked = S /\ none \cap ranked = {}
  BY DEF IsMeasured
<1>4. IsFiniteSet(none) /\ IsFiniteSet(ranked)
  <2>1. none \subseteq S /\ ranked \subseteq S
    OBVIOUS
  <2> HIDE DEF none, ranked
  <2> QED BY <2>1, FS_Subset
<1>5. Total(reasons) = Cardinality(none)
  <2>1. IsFiniteSet(K)
    <3> DEFINE all == {s.reason : s \in S}
    <3>1. reason \in Surjection(S, all)
      BY DEF Surjection
    <3>2. K \subseteq all
      OBVIOUS
    <3> HIDE DEF all, reason, K
    <3> QED BY <3>1, <3>2, FS_Surjection, FS_Subset
  <2>2. {e \in S : reason[e] \in K} = none
    OBVIOUS
  <2>3. \A x \in K : reasons[x] = Cardinality({e \in S : reason[e] = x})
    <3> TAKE x \in K
    <3>1. {e \in S : reason[e] = x} = {s \in S : s.reason = x}
      OBVIOUS
    <3> HIDE DEF reason, K
    <3> QED BY <3>1
  <2>4. DOMAIN reasons = K
    OBVIOUS
  <2> HIDE DEF reasons, K, none, reason
  <2> QED BY <2>1, <2>2, <2>3, <2>4, TotalIs, SumOfParts
<1>6. Total(bins) = Cardinality(ranked)
  <2>1. IsFiniteSet(D)
    <3>1. \A a, b \in Int : IsFiniteSet(a..b)
      BY FS_Interval
    <3>2. 0 \in Int /\ 9 \in Int
      OBVIOUS
    <3> QED BY <3>1, <3>2, Zenon
  <2>2. \A s \in ranked : Decile(s.percentile) \in D
    <3> SUFFICES ASSUME NEW s \in ranked PROVE Decile(s.percentile) \in D
      OBVIOUS
    <3>1. s.percentile \in 0..100
      BY DEF IsMeasured
    <3> HIDE DEF ranked
    <3> QED BY <3>1 DEF Decile
  <2>3. {e \in S : place[e] \in D} = ranked
    <3>1. 10 \notin D
      OBVIOUS
    <3> HIDE DEF D
    <3> QED BY <2>2, <3>1
  <2>4. \A d \in D : bins[d] = Cardinality({e \in S : place[e] = d})
    <3> TAKE d \in D
    <3>1. {e \in S : place[e] = d} = Bin(d)
      <4>1. d # 10
        OBVIOUS
      <4> HIDE DEF D
      <4> QED BY <4>1
    <3> HIDE DEF place, Bin, D
    <3> QED BY <3>1
  <2>5. DOMAIN bins = D
    OBVIOUS
  <2> HIDE DEF bins, D, place, ranked
  <2> QED BY <2>1, <2>3, <2>4, <2>5, TotalIs, SumOfParts
<1> HIDE DEF none, ranked, reasons, bins
<1>7. Cardinality(S) = Cardinality(none) + Cardinality(ranked)
  BY <1>3, <1>4, DisjointUnion
<1> QED BY <1>1, <1>2, <1>5, <1>6, <1>7

(* The arms saw the same samples and paid no less than the oracle, and what
   the waits saved is what the baseline paid less than booking at once. *)
LEMMA ArmsAddUp ==
    ASSUME NEW S, IsFiniteSet(S), \A s \in S : IsMeasured(s)
    PROVE  LET arms == Arms(S)
               saved == arms.alwaysBookNow.totalPaid - arms.baseline.totalPaid
           IN  /\ \A arm \in DOMAIN arms :
                    /\ arms[arm].samples = Cardinality(S)
                    /\ arms[arm].actionable = Cardinality(Actionable(S))
                    /\ arms.oracle.totalPaid <= arms[arm].totalPaid
               /\ IF Cardinality(Waits(S)) = 0 THEN saved = 0
                                               ELSE Wait(S).meanSaving.num = saved
<1> DEFINE arms == Arms(S)
           W == Waits(S)
           paid == [s \in S |-> s.paid]
           now == [s \in S |-> s.priceNow]
           best == [s \in S |-> s.oracle]
           saving == [s \in S |-> s.priceNow - s.paid]
           waited == [s \in W |-> s.priceNow - s.paid]
<1>1. /\ DOMAIN arms = {"baseline", "alwaysBookNow", "oracle"}
      /\ \A arm \in DOMAIN arms : /\ arms[arm].samples = Cardinality(S)
                                  /\ arms[arm].actionable = Cardinality(Actionable(S))
  BY DEF Arms, Arm
<1>2. /\ arms.baseline.totalPaid = Total(paid) /\ arms.alwaysBookNow.totalPaid = Total(now)
      /\ arms.oracle.totalPaid = Total(best)
  BY DEF Arms, Arm
<1>3. DOMAIN paid = S /\ DOMAIN now = S /\ DOMAIN best = S /\ DOMAIN waited = W
  OBVIOUS
<1>4. \A s \in S : /\ best[s] \in Int /\ now[s] \in Int /\ paid[s] \in Int
                   /\ saving[s] \in Int /\ saving[s] = now[s] - paid[s]
                   /\ best[s] <= now[s] /\ best[s] <= paid[s]
  BY DEF IsMeasured
<1>5. \A s \in S \ W : saving[s] = 0
  <2> SUFFICES ASSUME NEW s \in S \ W PROVE s.priceNow - s.paid = 0
    OBVIOUS
  <2> QED BY DEF IsMeasured, Waits
<1>6. W \in SUBSET S /\ \A s \in W : saving[s] \in Int /\ waited[s] = saving[s]
  <2>1. W \in SUBSET S
    BY DEF Waits
  <2> HIDE DEF W
  <2> QED BY <2>1, <1>4
<1>7. Cardinality(W) # 0 => Wait(S).meanSaving.num = Total(waited)
  BY DEF Wait, Mean, Ratio
<1>8. IsFiniteSet(W) /\ (Cardinality(W) = 0 => W = {})
  <2> HIDE DEF W
  <2> QED BY <1>6, FS_Subset, FS_EmptySet
<1> HIDE DEF arms, W, paid, now, best, saving, waited
<1>9. /\ Total(paid) = SumOver(paid, S) /\ Total(now) = SumOver(now, S)
      /\ Total(best) = SumOver(best, S) /\ Total(waited) = SumOver(waited, W)
  BY <1>3, TotalIs
<1>10. SumOver(best, S) <= SumOver(now, S) /\ SumOver(best, S) <= SumOver(paid, S)
       /\ SumOver(best, S) <= SumOver(best, S)
  <2>1. SumOver(best, S) \in Int
    BY <1>4, SumIs
  <2> QED BY <2>1, <1>4, SumLess
<1>11. SumOver(saving, S) = SumOver(now, S) - SumOver(paid, S)
  BY <1>4, SumDiffers
<1>12. SumOver(saving, S) = SumOver(saving, W)
  BY <1>4, <1>5, <1>6, SumOfPart
<1>13. SumOver(saving, W) = SumOver(waited, W)
  BY <1>6, <1>8, SumSame
<1>14. W = {} => SumOver(saving, W) = 0
  BY <1>6, <1>8, SumIs
<1>15. \A arm \in DOMAIN arms : arms.oracle.totalPaid <= arms[arm].totalPaid
  BY <1>1, <1>2, <1>9, <1>10
<1>16. IF Cardinality(W) = 0
       THEN arms.alwaysBookNow.totalPaid - arms.baseline.totalPaid = 0
       ELSE Wait(S).meanSaving.num = arms.alwaysBookNow.totalPaid - arms.baseline.totalPaid
  BY <1>2, <1>7, <1>8, <1>9, <1>11, <1>12, <1>13, <1>14
<1> QED BY <1>1, <1>15, <1>16 DEF arms, W

LEMMA ReportIsWhole ==
    ASSUME RunInv
    PROVE  ReportAddsUp
<1> SUFFICES ASSUME phase = "reported" PROVE ReportAddsUp
  BY DEF ReportAddsUp
<1> DEFINE told == Summary(samples, skipped)
<1>1. report = told /\ IsFiniteSet(samples) /\ \A s \in samples : IsMeasured(s)
  BY SamplesMeasured DEF RunInv
<1>2. /\ told.samples = Cardinality(samples) /\ told.arms = Arms(samples)
      /\ told.wait = Wait(samples) /\ Wait(samples).samples = Cardinality(Waits(samples))
  BY DEF Summary, Wait
<1>3. /\ Total(told.verdicts) = Cardinality(samples)
      /\ Cardinality(Actionable(samples)) = told.verdicts["book_now"] + told.verdicts["wait"]
      /\ told.verdicts["wait"] = Cardinality(Waits(samples))
  <2> HIDE DEF told
  <2> QED BY <1>1, VerdictsAddUp DEF told
<1>4. Total(told.unavailable) + Total([d \in 0..9 |-> told.ranks[d].samples])
        = Cardinality(samples)
  <2> HIDE DEF told
  <2> QED BY <1>1, PlacesAddUp DEF told
<1> HIDE DEF told
<1> QED BY <1>1, <1>2, <1>3, <1>4, ArmsAddUp DEF ReportAddsUp

(* No quote is lost on the way to the numbers of the report: while nobody
   writes, every quote in range is a sample or a skipped one, and the verdicts,
   the reasons and the deciles, and the totals of the arms, add up over the
   samples (harness.py, collect_samples; metrics.py, summarise). *)
THEOREM ReportIsComplete == BacktestSpec => []ReportAccountsForEveryQuote
<1>1. RunInv => ReportAccountsForEveryQuote
  BY EveryQuoteInRange, ReportIsWhole DEF ReportAccountsForEveryQuote
<1> QED BY <1>1, SamplesAreScores, PTL

LEMMA Scales ==
    ASSUME NEW a \in Int, NEW b \in Int, NEW e \in Nat, a <= b
    PROVE  a * e <= b * e
<1>1. (b - a) * e = b * e - a * e /\ b - a \in Nat
  OBVIOUS
<1>2. \A x, y \in Nat : x * y \in Nat
  OBVIOUS
<1>3. (b - a) * e \in Nat
  BY <1>1, <1>2
<1>4. a * e \in Int /\ b * e \in Int
  OBVIOUS
<1> QED BY <1>1, <1>3, <1>4

(* Adding a fraction of at most c / 200 to a sum of k such. *)
LEMMA OneMoreFraction ==
    ASSUME NEW c \in Nat, NEW k \in Nat, NEW n \in Nat, NEW m \in Nat,
           NEW d \in Nat \ {0}, NEW e \in Nat \ {0},
           200 * n <= c * d, 200 * m <= (c * e) * k
    PROVE  /\ n * e + m * d \in Nat /\ d * e \in Nat \ {0}
           /\ 200 * (n * e + m * d) <= (c * (d * e)) * (k + 1)
<1>1. \A x, y \in Nat : x * y \in Nat
  OBVIOUS
<1>2. \A x, y \in Nat \ {0} : x * y \in Nat \ {0}
  OBVIOUS
<1>3. /\ d * e \in Nat \ {0} /\ n * e \in Nat /\ m * d \in Nat /\ c * d \in Nat
      /\ c * e \in Nat /\ (c * e) * k \in Nat
  BY <1>1, <1>2
<1>4. (200 * n) * e <= (c * d) * e
  BY <1>3, Scales
<1>5. (200 * m) * d <= ((c * e) * k) * d
  BY <1>3, Scales
<1> DEFINE q == c * (d * e)
<1>6. (c * d) * e = q
  OBVIOUS
<1>7. ((c * e) * k) * d = q * k
  OBVIOUS
<1>8. /\ (200 * n) * e = 200 * (n * e) /\ (200 * m) * d = 200 * (m * d)
      /\ q \in Nat /\ q * (k + 1) = q * k + q /\ q * k \in Nat
  BY <1>1, <1>3
<1> HIDE DEF q
<1>9. 200 * (n * e) <= q /\ 200 * (m * d) <= q * k
  BY <1>4, <1>5, <1>6, <1>7, <1>8
<1>10. 200 * (n * e + m * d) <= q * (k + 1)
  BY <1>3, <1>8, <1>9
<1> QED BY <1>3, <1>10 DEF q

(* A mean of fractions is at most what each of them is at most. *)
LEMMA MeanOfFractionsIs ==
    ASSUME NEW S, IsFiniteSet(S), S # {}, NEW f, DOMAIN f = S, NEW c \in Nat,
           \A s \in S : /\ f[s].num \in Nat /\ f[s].den \in Nat \ {0}
                        /\ 200 * f[s].num <= c * f[s].den
    PROVE  LET mean == MeanOfFractions(f) IN 200 * mean.num <= c * mean.den
<1> DEFINE V == [num : Int, den : Int]
           F == {f[s] : s \in S}
           op == [p \in F \X V |-> AddFractions(p[1], p[2])]
           base == [num |-> 0, den |-> 1]
           g == FoldOf(op, base, f, S, V)
           x(s) == CHOOSE e \in s : TRUE
           Step(k) == [s \in SUBSET S |->
                         IF s = {} THEN base ELSE AddFractions(f[x(s)], k[s \ {x(s)}])]
           sum == CHOOSE k : k = Step(k)
           Fine(s, v) == /\ v.num \in Nat /\ v.den \in Nat \ {0}
                         /\ 200 * v.num <= (c * v.den) * Cardinality(s)
           R == {r \in (SUBSET S) \X V : Fine(r[1], r[2])}
<1>1. MeanOfFractions(f) = Ratio(sum[S].num, sum[S].den * Cardinality(S))
  BY DEF MeanOfFractions, FoldFunction, FoldFunctionOnSet, MapThenFoldSet
<1>2. \A e \in S, v \in V : /\ op[<<f[e], v>>] = AddFractions(f[e], v)
                            /\ AddFractions(f[e], v) \in V
  BY DEF AddFractions
<1>3. base \in V
  OBVIOUS
<1>4. \A s \in SUBSET S : s # {} => x(s) \in s
  OBVIOUS
<1>5. IsFold(op, base, f, S, V, g)
  <2>1. \A e \in S, v \in V : op[<<f[e], v>>] \in V
    BY <1>2
  <2> HIDE DEF op, base, V
  <2> QED BY <1>3, <2>1, FoldExists
<1> HIDE DEF op, g
<1>6. g \in [SUBSET S -> V] /\ g = Step(g)
  <2> HIDE DEF base, V
  <2>1. \A s \in SUBSET S : s # {} =>
          op[<<f[x(s)], g[s \ {x(s)}]>>] = AddFractions(f[x(s)], g[s \ {x(s)}])
    <3> SUFFICES ASSUME NEW s \in SUBSET S, s # {}
                 PROVE  op[<<f[x(s)], g[s \ {x(s)}]>>] = AddFractions(f[x(s)], g[s \ {x(s)}])
      OBVIOUS
    <3>1. x(s) \in S /\ s \ {x(s)} \in SUBSET S
      BY <1>4
    <3> HIDE DEF x
    <3> QED BY <3>1, <1>2, <1>5 DEF IsFold
  <2>2. \A s \in SUBSET S : g[s] = IF s = {} THEN base ELSE op[<<f[x(s)], g[s \ {x(s)}]>>]
    BY <1>5 DEF FoldStep, IsFold
  <2> HIDE DEF x
  <2>3. \A s \in SUBSET S :
          g[s] = IF s = {} THEN base ELSE AddFractions(f[x(s)], g[s \ {x(s)}])
    BY <2>1, <2>2
  <2> QED BY <2>3, <1>5 DEF IsFold, FoldStep
<1>7. sum = Step(sum)
  <2> HIDE DEF Step
  <2> QED BY <1>6
<1> HIDE DEF sum, x
<1>8. sum[S] = g[S]
  <2> DEFINE G == {s \in SUBSET S : sum[s] = g[s]}
  <2>1. ASSUME NEW s \in SUBSET S, \A t \in SUBSET S : Cardinality(t) < Cardinality(s) => t \in G
        PROVE  s \in G
    <3> HIDE DEF base, V
    <3>1. /\ sum[s] = IF s = {} THEN base ELSE AddFractions(f[x(s)], sum[s \ {x(s)}])
          /\ g[s] = IF s = {} THEN base ELSE AddFractions(f[x(s)], g[s \ {x(s)}])
      BY <1>6, <1>7
    <3>2. ASSUME s # {} PROVE sum[s \ {x(s)}] = g[s \ {x(s)}]
      <4>1. s \ {x(s)} \in SUBSET S /\ Cardinality(s \ {x(s)}) < Cardinality(s)
        BY <1>4, <3>2, OneLess
      <4> QED BY <4>1, <2>1
    <3> QED BY <3>1, <3>2
  <2>2. \A s \in SUBSET S : s \in G
    <3> HIDE DEF G
    <3> QED BY <2>1, BySize
  <2> QED BY <2>2
<1>9. <<{}, base>> \in R
  <2>1. Cardinality({}) = 0
    BY FS_EmptySet
  <2>2. Fine({}, base)
    BY <2>1
  <2> HIDE DEF Fine, base
  <2> QED BY <2>2, <1>3
<1>10. ASSUME NEW s \in SUBSET S, NEW v, NEW e \in S \ s, <<s, v>> \in R
       PROVE  <<s \cup {e}, op[<<f[e], v>>]>> \in R
  <2> DEFINE w == AddFractions(f[e], v)
  <2>1. v \in V /\ Fine(s, v)
    <3> HIDE DEF Fine, V
    <3> QED BY <1>10
  <2>2. op[<<f[e], v>>] = w /\ w \in V
    BY <2>1, <1>2
  <2>3. Cardinality(s) \in Nat /\ Cardinality(s \cup {e}) = Cardinality(s) + 1
    <3>1. IsFiniteSet(s)
      BY FS_Subset
    <3> QED BY <3>1, FS_AddElement, FS_CardinalityType
  <2>4. w.num = f[e].num * v.den + v.num * f[e].den /\ w.den = f[e].den * v.den
    BY DEF AddFractions
  <2> HIDE DEF w
  <2>5. /\ w.num \in Nat /\ w.den \in Nat \ {0}
        /\ 200 * w.num <= (c * w.den) * (Cardinality(s) + 1)
    <3>1. /\ f[e].num \in Nat /\ f[e].den \in Nat \ {0} /\ 200 * f[e].num <= c * f[e].den
      OBVIOUS
    <3>2. /\ v.num \in Nat /\ v.den \in Nat \ {0}
          /\ 200 * v.num <= (c * v.den) * Cardinality(s)
      BY <2>1
    <3> DEFINE n == f[e].num
               d == f[e].den
               m == v.num
               b == v.den
               k == Cardinality(s)
    <3>3. /\ n \in Nat /\ d \in Nat \ {0} /\ m \in Nat /\ b \in Nat \ {0} /\ k \in Nat
          /\ 200 * n <= c * d /\ 200 * m <= (c * b) * k
      BY <3>1, <3>2, <2>3
    <3> HIDE DEF n, d, m, b, k
    <3>4. /\ n * b + m * d \in Nat /\ d * b \in Nat \ {0}
          /\ 200 * (n * b + m * d) <= (c * (d * b)) * (k + 1)
      BY <3>3, OneMoreFraction
    <3>5. w.num = n * b + m * d /\ w.den = d * b
      BY <2>4 DEF n, d, m, b
    <3>6. 200 * w.num <= (c * w.den) * (k + 1)
      BY <3>4, <3>5
    <3> QED BY <3>4, <3>5, <3>6 DEF k
  <2>6. Fine(s \cup {e}, w)
    BY <2>3, <2>5
  <2> HIDE DEF Fine, V
  <2> QED BY <2>2, <2>6
<1>11. <<S, g[S]>> \in R
  <2> HIDE DEF R, base, V
  <2>1. Carried(op, f, S, R)
    BY <1>10 DEF Carried
  <2> QED BY <2>1, <1>5, <1>9, FoldIs
<1>12. Fine(S, g[S])
  <2> HIDE DEF Fine, V
  <2> QED BY <1>11
<1> DEFINE n == Cardinality(S)
           v == g[S]
<1>13. n \in Nat \ {0}
  BY FS_CardinalityType, FS_EmptySet
<1>14. MeanOfFractions(f) = Ratio(v.num, v.den * n)
  BY <1>1, <1>8
<1>15. /\ v.num \in Nat /\ v.den \in Nat \ {0} /\ 200 * v.num <= (c * v.den) * n
  BY <1>12
<1> HIDE DEF n, v
<1>16. v.den * n # 0 /\ (c * v.den) * n = c * (v.den * n)
  BY <1>13, <1>15
<1>17. MeanOfFractions(f) = [num |-> v.num, den |-> v.den * n]
  BY <1>14, <1>16 DEF Ratio
<1> QED BY <1>15, <1>16, <1>17

(* The rank of a sample leaves the share of its cell priced above and half of
   its ties, to the half point it is rounded by, and in each decile the mean of
   those shares is at most what the lower edge leaves: the rank means what it
   says, in every report (percentile.py, percentile_of_sorted; metrics.py,
   rank_consistency). *)
THEOREM RankIsConsistent == BacktestSpec => []RankMatchesItsCell
<1>1. ASSUME RunInv, NEW s \in samples, s.percentile # NoData
      PROVE  RankedExactly(s)
  <2>1. PICK quote \in truth : IsScoreOf(s, quote)
    BY <1>1, ScoreTells DEF RunInv
  <2> QED BY <1>1, <2>1 DEF IsScoreOf
<1>2. ASSUME RunInv, phase = "reported", NEW decile \in 0..9,
             report.ranks[decile].samples > 0
      PROVE  200 * report.ranks[decile].realised.num
               <= (201 - 20 * decile) * report.ranks[decile].realised.den
  <2> USE <1>2
  <2> DEFINE members == {s \in samples : /\ s.percentile # NoData /\ s.realised # NoData
                                         /\ Decile(s.percentile) = decile}
             f == [s \in members |-> s.realised]
             c == 201 - 20 * decile
  <2>1. report.ranks[decile] = [samples |-> Cardinality(members),
                                realised |-> MeanOfFractions(f)]
    <3>1. report = Summary(samples, skipped)
      BY DEF RunInv
    <3>2. Summary(samples, skipped).ranks = RankConsistency(samples)
      BY DEF Summary
    <3>3. RankConsistency(samples)[decile] = [samples |-> Cardinality(members),
                                              realised |-> MeanOfFractions(f)]
      BY DEF RankConsistency
    <3> QED BY <3>1, <3>2, <3>3
  <2>2. IsFiniteSet(members) /\ members # {}
    <3>1. members \subseteq samples /\ IsFiniteSet(samples)
      BY DEF RunInv
    <3> HIDE DEF members, f
    <3>2. Cardinality(members) > 0
      BY <2>1
    <3> QED BY <3>1, <3>2, FS_Subset, FS_EmptySet
  <2>3. decile \in Nat /\ decile <= 9 /\ c \in Nat
    OBVIOUS
  <2>4. ASSUME NEW s \in members
        PROVE  /\ s.realised.num \in Nat /\ s.realised.den \in Nat \ {0}
               /\ 200 * s.realised.num <= c * s.realised.den
    <3> DEFINE p == s.percentile
               num == s.realised.num
               den == s.realised.den
    <3>1. /\ p \in 0..100 /\ num \in Nat /\ den \in Nat \ {0}
          /\ 200 * num <= (201 - 2 * p) * den
      <4>1. s \in samples /\ s.percentile # NoData
        OBVIOUS
      <4> QED BY <4>1, SamplesMeasured DEF IsMeasured
    <3>2. Decile(p) = decile
      OBVIOUS
    <3> HIDE DEF p, num, den, members
    <3>3. p \in Nat /\ p <= 100
      BY <3>1
    <3>4. 10 * decile <= p
      BY <3>2, <3>3, <2>3 DEF Decile
    <3>5. 201 - 2 * p <= c /\ 201 - 2 * p \in Int
      BY <3>3, <3>4, <2>3
    <3> HIDE DEF c
    <3>6. (201 - 2 * p) * den <= c * den
      BY <3>1, <3>5, <2>3, Scales
    <3>7. (201 - 2 * p) * den \in Int /\ c * den \in Int /\ 200 * num \in Int
      BY <3>1, <3>5, <2>3
    <3>8. 200 * num <= c * den
      BY <3>1, <3>6, <3>7
    <3> QED BY <3>1, <3>8 DEF num, den
  <2>5. DOMAIN f = members /\ \A s \in members : f[s] = s.realised
    OBVIOUS
  <2> HIDE DEF f, members, c
  <2>6. 200 * MeanOfFractions(f).num <= c * MeanOfFractions(f).den
    BY <2>2, <2>3, <2>4, <2>5, MeanOfFractionsIs
  <2> QED BY <2>1, <2>6 DEF c
<1>3. RunInv => RankMatchesItsCell
  BY <1>1, <1>2 DEF RankMatchesItsCell
<1> QED BY <1>3, SamplesAreScores, PTL

=============================================================================
