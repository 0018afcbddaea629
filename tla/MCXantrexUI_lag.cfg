SPECIFICATION FairSpec
CONSTANTS
    LastUser = 3
    LastHeading = 4
    Items <- SmallItems
    Listed <- SmallListed
    Label <- SmallLabel
    InverterScreens <- SmallInverter
    StartTries = 3
    ItemTries = 2
    MeterHeading = 3
    MeterItems = 1
    Operations = {"SetupMenu", "GotoMenuItem", "PollMeters"}
    Targets <- SmallTargets
    MayIgnore = TRUE
    MayLag = TRUE
    Chatty = TRUE
    MaxOverrun = 1
    MaxItem = 3
    MaxIgnored = 1
    MaxLine = 2
INVARIANT TypeOK
PROPERTY OperationEnds
CHECK_DEADLOCK FALSE
