\* The fixture scripts, the environment and the backtest of one repository.
SPECIFICATION Spec
CONSTANTS
    Unbounded = Unbounded
    NoBucket = NoBucket
    NoData = NoData
    Unset = Unset
    Raises = Raises
    ModeWords = {"", "1", "no"}
    Pins <- MCPins
    Roots = {"repo", "elsewhere"}
    RepoRoot = "repo"
    TicksPerDay = 2
    LastTick = 3
    MaxStores = 3
    FixtureRoutes = {1, 2}
    Tier1 = {1}
    FetchedDays = {1, 2}
    DtdGrid = {3, 4, 90}
    ItineraryMaxDtd = 60
    ErrorFareCells <- MCErrorFareCells
    GeneratorBuckets <- MCGeneratorBuckets
    Versions = {1, 2, 3}
    Prices <- MCPrices
    SchemaOf <- MCSchemaOf
    Accepted <- MCAccepted
    Frozen = 1
    ModelBuckets <- MCModelBuckets
    Starts <- MCStarts
INVARIANTS
    StoresAreAsAskedFor
    CompletedRunIsConsistent
    ToolsAreExactWhenQuiet
    CommittedDatasetIsTheGrid
    ReportSaysWhatWasScored
    ScenarioScoresTheFrozenDataset
PROPERTIES
    PinStopsTheClock
\* The bounds on what happens end the run.
CHECK_DEADLOCK FALSE
