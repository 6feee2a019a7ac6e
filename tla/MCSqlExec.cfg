CONSTANTS
    maxRows = 3
    maxCols = 3
    maxOR = 2
    header <- MCHeader
    Value = {"1", "'a'"}
    encodeSqlValue <- MCCodes
    Clause <- MCClause
    size <- MCSize
    affinity <- MCAffinity
    NULL = NULL
    Writes <- Supported
    Selects <- SupportedSelects
    MaxId = 3
SPECIFICATION Spec
INVARIANTS
    TypeOK
    ProvedIsExecuted
    SelectsAreProved
    WritesAreProved
CHECK_DEADLOCK FALSE
