SPECIFICATION FairSpec
CONSTANTS
    LastUser = 8
    LastHeading = 20
    Items <- MenuItems
    Listed <- ListedItems
    Label <- MenuLabel
    InverterScreens <- InverterLines
    StartTries = 22
    ItemTries = 5
    MeterHeading = 4
    MeterItems = 7
    Operations <- UserOperations
    Targets = {}
    MayIgnore = FALSE
    MayLag = FALSE
    Chatty = FALSE
    MaxOverrun = 2
    MaxItem = 6
    MaxIgnored = 0
    MaxLine = 2
INVARIANTS CursorInStep ReadingIsOwn SettingIsNear
PROPERTIES OperationEnds MethodsAreAtomic
CHECK_DEADLOCK FALSE
