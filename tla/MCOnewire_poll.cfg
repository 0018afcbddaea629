SPECIFICATION Spec
CONSTANTS
    Entries = {"22-a", "26-e", "28-b", "28-c", "3b-d"}
    Directories <- MCDirectories
    Family <- MCFamily
    Texts <- MCTexts
    MaxReads = 5
INVARIANTS TypeOK RowsAreReadings InTurn
CHECK_DEADLOCK FALSE
