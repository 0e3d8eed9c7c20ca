------------------------------ MODULE Backtest ------------------------------
(***************************************************************************)
(* The walk-forward backtest (models/backtest/harness.py, scenario.py,     *)
(* metrics.py) of one route, as a process that reads the store several     *)
(* times while others may write it: verify_dataset hashes the fixture file *)
(* and then looks for part files; the truth is read once, and the history  *)
(* again for every as_of.  A frozen scenario brings its own as_of dates;   *)
(* an ad-hoc run takes them from a first read of the store.                *)
(***************************************************************************)
EXTENDS Prediction, Metrics

CONSTANTS
    Datasets,     \* what the fixture file may hold when the scenario is frozen
    Drafts,       \* what the generator may replace it with
    PartRows,     \* rows that may be published to the snapshot root
    AsOfDates,    \* the as_of dates of the scenario
    MinDtd, MaxDtd, Horizon,  \* of the scenario
    Stride,       \* of an ad-hoc run
    MaxChanges    \* bound on the changes others make

ASSUME BacktestAssumption ==
    /\ \A data \in Datasets \cup Drafts :
         data \subseteq FareRows /\ IsFiniteSet(data) /\ \A a, b \in data : a.id = b.id => a = b
    /\ PartRows \subseteq FareRows
    /\ {MinDtd, MaxDtd, Horizon, Stride} \subseteq Nat \ {0}
    /\ AsOfDates \subseteq Nat /\ MaxChanges \in Nat

VARIABLES
    fixture,      \* the rows of the fixture file
    parts,        \* the rows of the part files
    frozen,       \* the rows whose hash the scenario records
    phase,        \* where the run is
    scenario,     \* a frozen scenario, or an ad-hoc run
    asOfs,        \* the as_of dates still to do
    truth,        \* the collapsed frame of the whole route
    samples,      \* the samples so far
    skipped,      \* samples without a later quote
    report,       \* what summarise made of the samples
    changes,      \* the number of changes others made
    quiet,        \* history variable: no change since the run began
    truthOf       \* history variable: the rows the truth was read from

runVars == <<phase, scenario, asOfs, truth, samples, skipped, report, truthOf>>
backtestVars == <<fixture, parts, frozen, changes, quiet, runVars>>

(* What a read returns.  Where a part file repeats an observation of the
   fixture the later fetch wins: the rows here are of different observations. *)
Store == fixture \cup parts

NoneRepeats(new, old) == \A a \in new, b \in old : a.id # b.id

BacktestInit ==
    /\ fixture \in Datasets
    /\ frozen = fixture
    /\ parts = {}
    /\ phase = "idle"
    /\ scenario = TRUE
    /\ asOfs = {} /\ truth = {} /\ truthOf = {}
    /\ samples = {} /\ skipped = 0 /\ report = NoData
    /\ changes = 0 /\ quiet = TRUE

-----------------------------------------------------------------------------
(* The others.                                                             *)

CountChange == changes < MaxChanges /\ changes' = changes + 1 /\ quiet' = FALSE

(* A collector publishes to the snapshot root of the same repository. *)
Publish ==
    /\ CountChange
    /\ \E row \in PartRows \ parts :
         /\ NoneRepeats({row}, Store)
         /\ parts' = parts \cup {row}
    /\ UNCHANGED <<fixture, frozen, runVars>>

(* The fixture is generated anew. *)
Regenerate ==
    /\ CountChange
    /\ \E data \in Drafts :
         /\ data # fixture /\ NoneRepeats(data, parts)
         /\ fixture' = data
    /\ UNCHANGED <<parts, frozen, runVars>>

-----------------------------------------------------------------------------
(* run_backtest                                                            *)

Begin ==
    /\ phase = "idle"
    /\ scenario' \in BOOLEAN
    /\ phase' = IF scenario' THEN "hash" ELSE "derive"
    /\ quiet' = TRUE
    /\ UNCHANGED <<fixture, parts, frozen, changes, asOfs, truth, samples, skipped, report, truthOf>>

(* verify_dataset: the bytes are those the scenario was frozen against. *)
Hash ==
    /\ phase = "hash"
    /\ phase' = IF fixture = frozen THEN "glob" ELSE "refused"
    /\ UNCHANGED <<fixture, parts, frozen, changes, quiet,
                   scenario, asOfs, truth, samples, skipped, report, truthOf>>

(* ... and no part file would be unioned in on top. *)
Glob ==
    /\ phase = "glob"
    /\ IF parts = {} THEN asOfs' = AsOfDates /\ phase' = "truth"
                     ELSE UNCHANGED asOfs /\ phase' = "refused"
    /\ UNCHANGED <<fixture, parts, frozen, changes, quiet,
                   scenario, truth, samples, skipped, report, truthOf>>

(* _derived_as_of_dates: every Stride days from the first fetched day. *)
Derive ==
    /\ phase = "derive"
    /\ asOfs' = LET days == {row.day : row \in Store} IN
                  IF Store = {} THEN {}
                  ELSE {d \in Min(days)..Max(days) : (d - Min(days)) % Stride = 0}
    /\ phase' = "truth"
    /\ UNCHANGED <<fixture, parts, frozen, changes, quiet,
                   scenario, truth, samples, skipped, report, truthOf>>

(* collect_samples: the route is read whole, its future included. *)
ReadTruth ==
    /\ phase = "truth"
    /\ truth' = Collapse(Store)
    /\ truthOf' = Store
    /\ phase' = "walk"
    /\ UNCHANGED <<fixture, parts, frozen, changes, quiet, scenario, asOfs, samples, skipped, report>>

(* An ad-hoc run scores every departure but that day's own, with no upper bound. *)
LeastDtd == IF scenario THEN MinDtd ELSE 1

(* Mutant: the scored range leaves out its first day. *)
DueAfterMin(asOf) ==
    {row \in truth : row.day = asOf /\ LeastDtd < row.depart - asOf
                                    /\ (scenario => row.depart - asOf <= MaxDtd)}

(* The quotes of the day that are scored. *)
Due(asOf) ==
    {row \in truth : row.day = asOf /\ LeastDtd <= row.depart - asOf
                                    /\ (scenario => row.depart - asOf <= MaxDtd)}

(* The later quotes of a departure, to its day or the horizon. *)
Window(quote) ==
    {row \in truth : /\ row.depart = quote.depart /\ row.day > quote.day
                     /\ row.day <= Min({quote.day + Horizon, quote.depart})}

(* Mutant: a wait is settled at its target. *)
SettleAtTarget(window, low, depart) ==
    [paid |-> low.amount, windowHit |-> TRUE]

(* score_wait: the first quote of the predicted window at or below the target,
   else the last quote there is. *)
ScoreWait(window, low, depart) ==
    LET good == {row \in window : /\ depart - low.from <= row.day
                                  /\ row.day <= depart - low.to
                                  /\ row.amount <= low.amount}
        last == CHOOSE row \in window : \A other \in window : other.day <= row.day
        first == CHOOSE row \in good : \A other \in good : row.day <= other.day
    IN  IF good # {} THEN [paid |-> first.amount, windowHit |-> TRUE]
                     ELSE [paid |-> last.amount, windowHit |-> FALSE]

(* realised_fraction_cheaper: the share of the cell priced above the price. *)
Realised(p, amount) ==
    IF p.percentile = NoData THEN NoData
    ELSE [num |-> Cardinality({row \in p.observations : row.amount > amount}),
          den |-> Cardinality(p.observations)]

(* One sample: the model's verdict on the day's quote, and what came of it.
   The price is put in the currency of the truth's first row; readFrom is a
   history variable, the rows the history was read from. *)
Score(quote, history, readFrom) ==
    LET window == Window(quote)
        now == quote.amount
        p == PredictFrom(Cfg, history, quote.depart,
                         [amount |-> now, cur |-> ContextCurrency(truth)], quote.day)
        waits == p.verdict = "wait"
        lowest == Min({row.amount : row \in window})
        outcome == ScoreWait(window, p.low, quote.depart)
    IN  [depart |-> quote.depart, asOf |-> quote.day, verdict |-> p.verdict,
         percentile |-> p.percentile, reason |-> p.reason, priceNow |-> now,
         windowMin |-> lowest, oracle |-> Min({now, lowest}),
         paid |-> IF waits THEN outcome.paid ELSE now,
         hit |-> IF p.verdict = "book_now" THEN now <= lowest
                 ELSE IF waits THEN outcome.paid < now ELSE NoData,
         targetError |-> IF waits THEN outcome.paid - p.low.amount ELSE NoData,
         windowHit |-> IF waits THEN outcome.windowHit ELSE NoData,
         realised |-> Realised(p, now),
         readFrom |-> readFrom]

(* Mutant: the model is shown the whole truth. *)
WholeTruth(asOf) == truth

(* The history the model sees: what was fetched by as_of. *)
HistoryAt(asOf) == LoadRouteHistory(Store, Route, asOf, Cfg.window)

(* One as_of: the history is read and every quote of the day scored. *)
Walk ==
    /\ phase = "walk"
    /\ asOfs # {}
    /\ LET asOf == Min(asOfs)
           history == HistoryAt(asOf)
           scored == {quote \in Due(asOf) : Window(quote) # {}}
       IN  /\ samples' = samples \cup {Score(quote, history, Store) : quote \in scored}
           /\ skipped' = skipped + Cardinality(Due(asOf) \ scored)
           /\ asOfs' = asOfs \ {asOf}
    /\ UNCHANGED <<fixture, parts, frozen, changes, quiet, phase, scenario, truth, report, truthOf>>

Report ==
    /\ phase = "walk"
    /\ asOfs = {}
    /\ report' = Summary(samples, skipped)
    /\ phase' = "reported"
    /\ UNCHANGED <<fixture, parts, frozen, changes, quiet,
                   scenario, asOfs, truth, samples, skipped, truthOf>>

BacktestNext ==
    \/ Publish \/ Regenerate
    \/ Begin \/ Hash \/ Glob \/ Derive \/ ReadTruth \/ Walk \/ Report

BacktestSpec == BacktestInit /\ [][BacktestNext]_backtestVars

-----------------------------------------------------------------------------
(* Properties.                                                             *)

(* No arm beats hindsight: what a sample pays is a price that was really to be
   had, now or later in the scored window, and so never below the oracle's. *)
NoSampleBeatsHindsight ==
    \A s \in samples :
        /\ s.oracle <= s.paid
        /\ \E row \in truth : /\ row.depart = s.depart /\ row.amount = s.paid
                              /\ s.asOf <= row.day /\ row.day <= s.depart
                              /\ row.day <= s.asOf + Horizon
        /\ s.verdict = "book_now" => s.hit = (s.paid = s.oracle)
        /\ s.verdict = "wait" /\ s.hit => s.oracle < s.priceNow

(* Every quote of a scored day in range is a sample or counted as skipped,
   once, and a sample is skipped only for want of a later quote.  Of a scenario
   the range ends at MaxDtd, of an ad-hoc run nowhere. *)
EveryQuoteIsAccountedFor ==
    phase = "reported" =>
      LET done == IF scenario THEN AsOfDates ELSE {row.day : row \in truth}
          inRange == {row \in truth : /\ row.day \in done
                                      /\ IF scenario THEN row.depart - row.day \in MinDtd..MaxDtd
                                                     ELSE row.day < row.depart}
      IN  quiet /\ (scenario \/ Stride = 1)
            => /\ Cardinality(samples) + skipped = Cardinality(inRange)
               /\ \A row \in inRange :
                    (\E s \in samples : s.depart = row.depart /\ s.asOf = row.day)
                      <=> \E later \in truth : /\ later.depart = row.depart
                                               /\ later.day > row.day
                                               /\ later.day <= row.depart
                                               /\ later.day <= row.day + Horizon

(* What predict() would have said, and of what price, had it been asked on the
   day of a sample and the store held nothing fetched later. *)
Contemporary(s) ==
    Predict(Cfg, {row \in s.readFrom : row.day <= s.asOf}, Route, s.depart, NoData, s.asOf)

SaysWhatPredictSaid(s) ==
    LET p == Contemporary(s) IN
      /\ p.price # NoData /\ p.price.amount = s.priceNow
      /\ p.verdict = s.verdict /\ p.percentile = s.percentile /\ p.reason = s.reason

(* A backtest of a route priced in one currency, over a store nobody writes
   meanwhile, scores exactly the predictions the product would have made. *)
WalkForwardInOneCurrency ==
    \A s \in samples :
      s.readFrom = truthOf /\ (\A a, b \in truthOf : a.cur = b.cur) => SaysWhatPredictSaid(s)

(* The report adds up over the arms: every sample has one verdict and either a
   reason or a place in one bin; the arms saw the same samples, no arm paid
   less than the oracle, and what the baseline paid less than booking at once
   is what its waits saved, to the unit. *)
ReportAddsUp ==
    phase = "reported" =>
      LET arms == report.arms
          saved == arms.alwaysBookNow.totalPaid - arms.baseline.totalPaid IN
        /\ Total(report.verdicts) = report.samples
        /\ Total(report.unavailable) + Total([d \in 0..9 |-> report.ranks[d].samples])
             = report.samples
        /\ \A arm \in DOMAIN arms :
             /\ arms[arm].samples = report.samples
             /\ arms[arm].actionable = report.verdicts["book_now"] + report.verdicts["wait"]
             /\ arms.oracle.totalPaid <= arms[arm].totalPaid
        /\ report.wait.samples = report.verdicts["wait"]
        /\ IF report.wait.samples = 0 THEN saved = 0 ELSE report.wait.meanSaving.num = saved

(* No quote is lost on the way to the numbers of the report. *)
ReportAccountsForEveryQuote == EveryQuoteIsAccountedFor /\ ReportAddsUp

(* The prices the price of a sample was ranked among. *)
CellOf(s) ==
    BucketSample(Cfg, LoadRouteHistory(s.readFrom, Route, s.asOf, Cfg.window),
                 ApBucket(Cfg.buckets, s.depart - s.asOf))

(* The percentile and the share priced above are of the same cell, and leave
   between them the half of the prices that are equal, but for the half point
   the percentile is rounded by. *)
RankedExactly(s) ==
    LET cell == CellOf(s)
        n == Cardinality(cell)
        ties == Cardinality({row \in cell : row.amount = s.priceNow})
        off == 2 * n * (100 - s.percentile) - (200 * s.realised.num + 100 * ties)
    IN  s.realised.den = n /\ 0 <= n + off /\ off < n

(* Every sample is ranked exactly.  "A well-implemented rank lands near
   1 - predicted_mid / 100" (RankConsistencyBin): in a bin of percentiles from
   10 * decile up, the mean share of the cell priced above is at most what that
   lower edge leaves, and the half point; ties make it less. *)
RankMatchesItsCell ==
    phase = "reported" =>
      /\ \A s \in samples : s.percentile # NoData => RankedExactly(s)
      /\ \A decile \in 0..9 :
           LET bin == report.ranks[decile] IN
             bin.samples > 0 =>
               200 * bin.realised.num <= (201 - 20 * decile) * bin.realised.den

=============================================================================
