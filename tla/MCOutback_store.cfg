SPECIFICATION FairSpec
CONSTANTS
    ErrorCodes = {"lost", "unknown", "other"}
    QueryTries = 2
    MaxBreaks = 1
    Packets <- MCPackets
    ReadSizes <- MCReadSizes
    LossPositions <- MCLossPositions
    MaxLost = 1
    MaxPackets = 2
    MaxLine = 98
    MaxRows = 3
INVARIANTS TypeOK  RowsInOrder
PROPERTY LoopGoesOn
CHECK_DEADLOCK FALSE
