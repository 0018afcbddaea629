SPECIFICATION Spec
CONSTANTS
    Clients = {p1}
    None = None
    Lines = 2
    DBuf = 8
    CBuf = 4
    Tearing = TRUE
    LockStep = FALSE
INVARIANTS TypeOK AnsweredOnceInOrder
CHECK_DEADLOCK FALSE
