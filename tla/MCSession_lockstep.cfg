SPECIFICATION FairSpec
CONSTANTS
    Clients = {p1, p2}
    None = None
    Lines = 3
    DBuf = 8
    CBuf = 4
    Tearing = FALSE
    LockStep = TRUE
INVARIANTS OnlyMalformedCrashes TextIsReceived QuietMeansShown
PROPERTIES EveryCommandAnswered CommandsAreCalls
CHECK_DEADLOCK FALSE
