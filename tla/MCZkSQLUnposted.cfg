CONSTANTS
    Table = {t1}
    Unnamed = unnamed
    Commitment = {11, 12, 13}
    Args = {1, 2}
    Provable <- MCProvable
    MaxCreations = 2
    MaxRequests = 2
    MaxUpdates = 2
SPECIFICATION Spec
INVARIANT
    OnlyPostedRuns
CHECK_DEADLOCK FALSE
