CONSTANTS
    Submission = {"first", "second"}
    First = "first"
    Closure = {"first"}
    Content = {0, 1}
    Rows = {0, 1}
    NoRows = 0
    NoChange = NoChange
    Failed = Failed
    NoReply = NoReply
    NoProof = NoProof
    maxRows = 6
    MaxTries = 1
    MaxMoves = 1
    Query <- OneInsert
    Display <- SelectAll
    Input = {"select", "insert", "update"}
    Inputs <- MCInputs
    closure <- Shared
    Hash <- MCHash
    Output <- MCOutput
    Signal <- MCSignal
    Placed <- MCPlaced
    RowCount <- MCRowCount
SPECIFICATION Spec
INVARIANT
    CurrentProofsVerify
CHECK_DEADLOCK FALSE
