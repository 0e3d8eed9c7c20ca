\* Reads over every history three writes can build, failed ones among them.
SPECIFICATION Spec
CONSTANTS
    Ids = {1, 2, 3}
    Runs = {1, 2}
    Key <- MCKey
    TicksPerDay = 2
    Rows <- MCRows
    FixtureRows <- MCFixtures
    Batches <- MCBatches
    Filters <- MCFilters
    Unset = Unset
    MaxWrites = 3
INVARIANTS
    FiltersCommute
    OneAnswerWhateverFailed
    StaleOnlyBehindRejection
PROPERTIES
    FrameNeverGoesBack
    CutoffHidesTheFuture
\* The bound on the number of writes ends the run.
CHECK_DEADLOCK FALSE
