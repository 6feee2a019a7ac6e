CONSTANTS
    Node = {n1}
    Job = {j1}
    Table = {"t1", "t2"}
    Content = {0, 1, 2}
    NoRows = {0}
    FirstContent = {0}
    Commitment = {10, 11, 12}
    Args = {0, 1, 2}
    Query <- SameInserts
    Hash <- SameColumns
    RunSql <- InsertOrRemove
    Circuit <- Agrees
    Absent = Absent
    NoFile = NoFile
    Unnamed = Unnamed
    MaxReloads = 0
    MaxCreations = 2
    MaxRequests = 2
    MaxUpdates = 2
    MaxWrites = 1
    MaxCrashes = 0
    WhenQuiet = {"crash", "refuse"}
SPECIFICATION Spec
INVARIANT
    StoreMatchesChain
CHECK_DEADLOCK FALSE
