\* Two writers of one run: a complete part file is rewritten.
SPECIFICATION Spec
CONSTANTS
    w1 = w1
    w2 = w2
    r1 = r1
    Writers = {w1, w2}
    Readers = {r1}
    Parts = {1, 2}
    Runs = {1, 2}
    Ids = {1, 2, 3}
    PartOf <- MCPartOf
    Rows <- SharedRows
    Batches <- SharedBatches
    FixtureRows = {}
    MaxAttempt = 3
    MaxCalls = 1
    MaxReads = 0
PROPERTIES
    NeverRewritten
\* Every process may end: its calls are used up or it died.
CHECK_DEADLOCK FALSE
