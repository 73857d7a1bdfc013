CONSTANTS
    DbCap = 2
    Retention = 1
    Period = 1
    MaxMade = 3
    MaxTime = 2
    MaxWipes = 1
SPECIFICATION FairSpec
INVARIANTS SnapshotsInOrder RetentionBound WipeResidue
PROPERTY PendingIsStored
CHECK_DEADLOCK FALSE
