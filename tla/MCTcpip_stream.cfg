SPECIFICATION Spec
CONSTANTS
    MaxMessages = 3
    MaxConnections = 2
    MaxPartial = 1
    WriteTries = 2
INVARIANTS TypeOK DeliveredWhole PiecesOnce NoneLeftOpen
PROPERTIES MessagesArrive
CHECK_DEADLOCK FALSE
