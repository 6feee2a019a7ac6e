CONSTANTS
    Node = {n1}
    Job = {j1, j2}
    Table = {"t1"}
    Content = {0, 1, 2}
    NoRows = {0}
    FirstContent = {0}
    Commitment = {10, 11, 12}
    Args = {0, 1, 2}
    Query <- ReadAndWrite
    Hash <- DifferentColumns
    RunSql <- InsertOrRemove
    Circuit <- Agrees
    Absent = Absent
    NoFile = NoFile
    Unnamed = Unnamed
    MaxReloads = 1
    MaxCreations = 2
    MaxRequests = 2
    MaxUpdates = 2
    MaxWrites = 2
    MaxCrashes = 1
    WhenQuiet = {}
SPECIFICATION FairSpec
PROPERTIES
    AcceptedIsAnswered
    ProcessesComeBack
CHECK_DEADLOCK FALSE
