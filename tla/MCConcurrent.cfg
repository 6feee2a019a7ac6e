CONSTANTS
    Node = {n1, n2}
    Job = {j1, j2}
    Table = {"t1"}
    Content <- TwoRows
    NoRows <- Empty
    FirstContent <- Empty
    Commitment <- Sums
    Args = {3, 17}
    Query <- SameSums
    Hash <- SumOfCells
    RunSql <- SqlOfRows
    Circuit <- Agrees
    Absent = Absent
    NoFile = NoFile
    Unnamed = Unnamed
    MaxReloads = 0
    MaxCreations = 1
    MaxRequests = 2
    MaxUpdates = 2
    MaxWrites = 2
    MaxCrashes = 0
    WhenQuiet = {}
SPECIFICATION Spec
SYMMETRY Symmetry
INVARIANTS
    ProofsAreAboutCommittedTables
PROPERTY
    IsALedger
CHECK_DEADLOCK FALSE
