CONSTANTS
    Table = {t1, t2}
    Unnamed = unnamed
    Commitment = {11, 12, 13}
    Args = {1, 2}
    Provable <- MCProvable
    MaxCreations = 3
    MaxRequests = 2
    MaxUpdates = 3
SPECIFICATION Spec
INVARIANTS
    TypeOK
    LogReplays
    CommittedOnce
    UpdatesAreRequestedSteps
CHECK_DEADLOCK FALSE
