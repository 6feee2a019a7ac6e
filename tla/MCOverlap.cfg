CONSTANTS
    Node = {n1}
    Job = {j1, j2}
    Table = {"t1"}
    Content = {0, 1, 2}
    NoRows = {0}
    FirstContent = {0}
    Commitment = {10, 11, 12}
    Args = {0, 1, 2}
    Query <- InsertOnly
    Hash <- DifferentColumns
    RunSql <- InsertOrRemove
    Circuit <- Agrees
    Absent = Absent
    NoFile = NoFile
    Unnamed = Unnamed
    MaxReloads = 0
    MaxCreations = 2
    MaxRequests = 1
    MaxUpdates = 2
    MaxWrites = 2
    MaxCrashes = 0
    WhenQuiet = {"crash", "refuse"}
SPECIFICATION Spec
INVARIANT
    StoreMatchesChain
CHECK_DEADLOCK FALSE
