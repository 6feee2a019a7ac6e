CONSTANTS
    maxRows = 3
    maxCols = 3
    maxOR = 2
    header <- MCHeader
    Value = {"1", "'a'"}
    encodeSqlValue <- MCCodes
    Clause <- MCClause
    size <- MCSize
    affinity <- MCAffinity
    NULL = NULL
    Writes <- Supported
    Selects <- RangeSelects
    MaxId = 3
SPECIFICATION Spec
INVARIANT
    SelectsAreProved
CHECK_DEADLOCK FALSE
