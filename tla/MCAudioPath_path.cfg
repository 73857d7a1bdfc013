CONSTANTS
    pd = pd
    sc = sc
    plain = plain
    mute = mute
    poison = poison
    RuleSets <- AllRules
    Mute <- MuteRules
    Poison <- PoisonRules
    FirstRules = plain
    BackendLists <- TwoLists
    FirstBackends <- BothBackends
    SnapCap = 2
    ParamCap = 1
    MaxTicks = 3
    MaxTime = 2
    MaxReloads = 1
SPECIFICATION FairSpec
INVARIANTS StrayBound OldRulesBound LatencyNotOverstated
PROPERTIES BackendsInOrder ImplementsSafety Implements
CHECK_DEADLOCK FALSE
