CONSTANTS
    pd = pd
    sc = sc
    plain = plain
    mute = mute
    poison = poison
    RuleSets <- AllRules
    Mute <- MuteRules
    Poison <- PoisonRules
    FirstRules = plain
    BackendLists <- TwoLists
    FirstBackends <- BothBackends
    SnapCap = 1
    ParamCap = 1
    MaxTicks = 4
    MaxTime = 2
    MaxReloads = 1
SPECIFICATION Spec
INVARIANT AudioContinues
CHECK_DEADLOCK FALSE
