CONSTANTS
    DbCap = 1
    Retention = 1
    Period = 2
    MaxMade = 3
    MaxTime = 4
    MaxWipes = 1
SPECIFICATION Spec
INVARIANT WipeIsComplete
CHECK_DEADLOCK FALSE
