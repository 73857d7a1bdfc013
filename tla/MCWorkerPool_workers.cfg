CONSTANTS
    cpu = cpu
    c1 = c1
    c2 = c2
    c3 = c3
    NumWorkers = 2
    Pollers <- OnePoller
    Callers <- ThreeCallers
SPECIFICATION PoolFairSpec
INVARIANT HolderRuns
PROPERTIES TickReachesDispatcher SignalEndsProcess
CHECK_DEADLOCK FALSE
