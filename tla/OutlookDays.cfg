\* A trip watched day by day, over every index of four buckets.
SPECIFICATION Spec
CONSTANTS
    b1 = b1
    b2 = b2
    b3 = b3
    b4 = b4
    Unbounded = Unbounded
    NoBucket = NoBucket
    NoData = NoData
    Configs <- MCConfigs
    Medians <- MCMedians
    CellMedians <- MCCellMedians
    Counts = {1, 2}
    Percentiles = {25, 26, 59, 60}
    Ahead = 5
INVARIANTS WaitCanBeActedOn SentenceMeetsThreshold SmoothingIsLocalWithoutGaps
\* The departure is the end.
CHECK_DEADLOCK FALSE
