SPECIFICATION Spec
CONSTANTS
    LastUser = 8
    LastHeading = 20
    Items <- MenuItems
    Listed <- ListedItems
    Label <- MenuLabel
    InverterScreens <- InverterLines
    StartTries = 22
    ItemTries = 5
    MeterHeading = 4
    MeterItems = 7
    Operations = {"GotoMenuItem", "SetPoint"}
    Targets <- SomeTargets
    MayIgnore = FALSE
    MayLag = FALSE
    Chatty = FALSE
    MaxOverrun = 0
    MaxItem = 15
    MaxIgnored = 0
    MaxLine = 2
INVARIANT SettingIsOwn
CHECK_DEADLOCK FALSE
