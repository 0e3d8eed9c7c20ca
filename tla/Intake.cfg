\* Every build, copy, stamp, write, validation and read with two records.
SPECIFICATION Spec
CONSTANTS
    jfk = jfk
    lax = lax
    jf = jf
    aa = aa
    xyz = xyz
    travelpayouts = travelpayouts
    other = other
    u1 = u1
    None = None
    Arguments <- MCArguments
    Updates <- MCUpdates
    Imports <- MCImports
    RawBatches <- MCRawBatches
    Sources = {travelpayouts}
    IataCodes = {jfk, lax}
    CarrierCodes = {aa}
    TicksPerDay = 2
    Int64Max = 3
    SampleLimit = 3
    SchemaVersion = 1
    MaxRecords = 2
INVARIANTS
    PublishedRowsAreCanonical
    OneIdPerShapeAndDay
    BuiltFromCleanArgumentsIsValid
    ReportIsExact
