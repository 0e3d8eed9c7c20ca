\* One writer, two calls, and a reader, two reads, against the fixtures.
SPECIFICATION Spec
CONSTANTS
    w1 = w1
    w2 = w2
    r1 = r1
    Writers = {w1}
    Readers = {r1}
    Parts = {1, 2}
    Runs = {1, 2}
    Ids = {1, 2, 3}
    PartOf <- MCPartOf
    Rows <- PrivateRows
    Batches <- PrivateBatches
    FixtureRows <- PrivateFixtures
    MaxAttempt = 3
    MaxCalls = 2
    MaxReads = 2
PROPERTIES
    IsAppendOnlyHistory
    TornPartBlocksReads
\* Every process may end: its calls are used up or it died.
CHECK_DEADLOCK FALSE
