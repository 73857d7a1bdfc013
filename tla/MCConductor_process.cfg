CONSTANTS
    cpu = cpu
    net = net
    typo = typo
    c1 = c1
    c2 = c2
    Probes <- ThreeProbes
    Unknown <- OneTypo
    Simulate = FALSE
    Clients <- TwoClients
    Hooks <- CpuHasTwo
SPECIFICATION ConductorFairSpec
INVARIANTS AttachedWhileRead StopsOnlyWhenAsked EndsUpstream
PROPERTIES FallsWithMapper ShutdownEndsProcess
CHECK_DEADLOCK FALSE
