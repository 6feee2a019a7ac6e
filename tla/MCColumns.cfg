CONSTANTS
    Node = {n1}
    Job = {j1, j2}
    Table = {"t1", "t2"}
    Content <- ZeroOrFive
    NoRows <- Empty
    FirstContent <- ZeroRow
    Commitment <- Sums
    Args = {0, 15}
    Query <- WriteAndRead
    Hash <- SumOfCells
    RunSql <- SqlOfRows
    Circuit <- Agrees
    Absent = Absent
    NoFile = NoFile
    Unnamed = Unnamed
    MaxReloads = 1
    MaxCreations = 2
    MaxRequests = 1
    MaxUpdates = 2
    MaxWrites = 2
    MaxCrashes = 1
    WhenQuiet = {}
SPECIFICATION Spec
SYMMETRY Symmetry
INVARIANTS
    LocalTablesAreCommitted
    ProofsAreAboutCommittedTables
CHECK_DEADLOCK FALSE
