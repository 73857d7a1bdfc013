CONSTANTS
    One = 100
    Arrivals <- SomeArrivals
    Rules <- SomeRules
    LogCurve <- HundredthsOfLog
    PowerCurve <- HundredthsOfPower
    MaxArrivals = 3
    MaxEmpty = 6
SPECIFICATION Spec
INVARIANTS P95Covers BarsFit MappedInRange StaleRemnant
PROPERTY SilenceFades
CHECK_DEADLOCK FALSE
