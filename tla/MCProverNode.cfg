CONSTANTS
    Node = {n1}
    Job = {j1, j2}
    Table = {"t1", "t2"}
    Content = {0, 1}
    NoRows = {0}
    FirstContent = {0}
    Commitment = {10, 11}
    Args = {0, 1}
    Absent = Absent
    NoFile = NoFile
    MaxReloads = 1
    Query <- MCQuery
    Hash <- MCHash
    RunSql <- MCRunSql
    Circuit <- MCCircuit
SPECIFICATION Spec
INVARIANTS
    TypeOK
    KnownTablesExist
PROPERTY
    StoredTablesStay
CHECK_DEADLOCK FALSE
