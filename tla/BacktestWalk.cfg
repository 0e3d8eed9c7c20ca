\* Backtests of every small dataset, left alone or written to.
SPECIFICATION BacktestSpec
CONSTANTS
    near = near
    far = far
    spring = spring
    r = r
    Unbounded = Unbounded
    NoBucket = NoBucket
    NoData = NoData
    Route = r
    Cfg <- MCCfg
    SeasonOf <- MCSeason
    Datasets <- MCDatasets
    Drafts <- TwoFixtures
    PartRows <- MCParts
    AsOfDates = {0, 1, 2}
    MinDtd = 1
    MaxDtd = 3
    Horizon = 2
    Stride = 1
    MaxChanges = 1
INVARIANTS
    NoSampleBeatsHindsight
    ReportAccountsForEveryQuote
    WalkForwardInOneCurrency
    RankMatchesItsCell
\* The report is the end.
CHECK_DEADLOCK FALSE
