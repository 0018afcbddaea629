SPECIFICATION FairSpec
CONSTANTS
    LastUser = 8
    LastHeading = 20
    Items <- MenuItems
    Listed <- ListedItems
    Label <- MenuLabel
    InverterScreens <- InverterLines
    StartTries = 22
    ItemTries = 5
    MeterHeading = 4
    MeterItems = 7
    Operations = {"MenuHeadingMinus", "MenuHeadingPlus", "PollMeters"}
    Targets = {}
    MayIgnore = TRUE
    MayLag = FALSE
    Chatty = FALSE
    MaxOverrun = 2
    MaxItem = 15
    MaxIgnored = 2
    MaxLine = 2
INVARIANTS HeadingDrift MatchedMeansThere
PROPERTY OperationEnds
CHECK_DEADLOCK FALSE
