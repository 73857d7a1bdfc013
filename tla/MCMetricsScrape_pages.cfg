CONSTANTS
    o1 = o1
    o2 = o2
    Observers <- TwoObservers
    MaxObserved = 2
    MaxSends = 1
    MaxScrapes = 1
SPECIFICATION Spec
INVARIANTS SettledExact SkewBound
CHECK_DEADLOCK FALSE
