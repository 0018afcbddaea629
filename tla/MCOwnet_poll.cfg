SPECIFICATION FairSpec
CONSTANTS
    t1 = t1
    t2 = t2
    b1 = b1
    s1 = s1
    Devices <- MCDevices
    Family <- MCFamily
    MaxRetries = 3
INVARIANTS TypeOK RowOfOneDevice RowComplete
PROPERTY EverySensorPolled
CHECK_DEADLOCK FALSE
