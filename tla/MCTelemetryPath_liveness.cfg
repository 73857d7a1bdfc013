CONSTANTS
    sim = sim
    ebpf = ebpf
    Simulated <- OneSim
    Ebpf <- OneEbpf
    Sparse <- OneSim
    RawCap = 1
    AggCap = 1
    StaleAfter = 2
    CounterMax = 2
    MaxEvents = 1
    MaxEmpty = 3
SPECIFICATION FairSpec
INVARIANT StaleExact
PROPERTIES LossesReported EventsReachAWindow SimulatedProbesStop
CHECK_DEADLOCK FALSE
