CONSTANTS
    p1 = p1
    p2 = p2
    cpu0 = cpu0
    cpu1 = cpu1
    Idle = Idle
    Pids <- TwoPids
    Cpus <- TwoCpus
    MapMax = 1
    RingMax = 2
    MaxTime = 3
SPECIFICATION Spec
INVARIANTS LatencyWithinWait EntriesWaitUnlessStray
CHECK_DEADLOCK FALSE
