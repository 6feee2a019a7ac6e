CONSTANTS
    maxRows = 3
    maxCols = 3
    maxOR = 2
    header <- MCHeader
    Value = {"1", "'a'"}
    encodeSqlValue <- MCCodes
    Clause <- MCClause
    size <- MCSize
    affinity <- MCAffinity
    NULL = NULL
    Writes <- InsertByName
    Selects <- SupportedSelects
    MaxId = 3
SPECIFICATION Spec
INVARIANT
    ProvedIsExecuted
CHECK_DEADLOCK FALSE
