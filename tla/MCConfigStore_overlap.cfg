CONSTANTS
    c1 = c1
    c2 = c2
    loud = loud
    soft = soft
    pd = pd
    sc = sc
    Broken = Broken
    Clients <- TwoClients
    RuleSets <- TwoRuleSets
    Lists <- TwoLists
    FirstConfig <- Startup
SYMMETRY Anyone
SPECIFICATION Spec
INVARIANTS RulesAgree BackendsAgree
PROPERTY RequestsAreAtomic
