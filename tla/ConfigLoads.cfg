SPECIFICATION Spec
CONSTANTS
    p1 = p1
    p2 = p2
    n1 = n1
    n2 = n2
    n3 = n3
    Unbounded = Unbounded
    NoBucket = NoBucket
    Processes <- MCProcesses
    Names <- MCNames
    Bounds <- MCBounds
    MaxBuckets = 3
    LastDay = 4
    MaxEdits = 1
INVARIANTS AcceptsExactlyTheTilings PathsAgree
PROPERTY OneConfigPerRun
SYMMETRY Symmetric
