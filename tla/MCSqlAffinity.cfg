CONSTANTS
    maxRows = 3
    maxCols = 3
    maxOR = 2
    header <- MCHeader
    Value = {"1", "'a'", "'1'"}
    encodeSqlValue <- MCCodes
    Clause <- MCClause
    size <- MCSize
    affinity <- MCAffinity
    NULL = NULL
    Writes <- NumberTexts
    Selects <- SupportedSelects
    MaxId = 3
SPECIFICATION Spec
INVARIANT
    ProvedIsExecuted
CHECK_DEADLOCK FALSE
