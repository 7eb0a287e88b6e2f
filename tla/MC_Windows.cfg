SPECIFICATION WindowsSpec
CONSTANTS
    p1 = p1
    p2 = p2
    k1 = k1
    k2 = k2
    s1 = s1
    s2 = s2
    Part = {"credentials", "cache"}
    Providers = {p1, p2}
    Secrets = {k1, k2}
    None = None
    MaxFlows = 4
    Screens = {s1, s2}
    Consumer = Consumer
    Plain = {"advanced"}
    Library = {"history"}
    Capacity = 5
    MaxCommits = 2
SYMMETRY ScreenSymmetry
CHECK_DEADLOCK FALSE
INVARIANTS
    WindowsTypeOK
    SettledFresh
    NoGhost
    RuntimeMatchesVault
    FlowsKeepWord
PROPERTIES
    NeverBackwards
    ReferenceKept
    WindowsOpenAtLast
