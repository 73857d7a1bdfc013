CONSTANTS
    sim = sim
    ebpf = ebpf
    Simulated <- OneSim
    Ebpf <- OneEbpf
    Sparse = {}
    RawCap = 1
    AggCap = 1
    StaleAfter = 2
    CounterMax = 2
    MaxEvents = 2
    MaxEmpty = 2
SPECIFICATION Spec
INVARIANTS LossLedger ProbeLedger InOrder ShutdownBound
PROPERTIES EndsInCascade EventsAreFed
CHECK_DEADLOCK FALSE
