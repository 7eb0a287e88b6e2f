SPECIFICATION FairSpec
CONSTANTS
    c1 = c1
    c2 = c2
    p1 = p1
    p2 = p2
    ref = ref
    bare = bare
    key = key
    junk = junk
    sys = sys
    alt = alt
    bad = bad
    Callers = {c1, c2}
    Providers = {p1, p2}
    Configs = {ref}
    Secrets = {key, junk}
    Proxies = {sys, alt, bad}
    BadProxies = {bad}
    SystemProxy = sys
    Accepted <- MC_Accepted
    FreshSettings <- MC_Fresh
    Archives <- MC_Archives
    NoConfig = NoConfig
    NoSecret = NoSecret
    NoDefault = NoDefault
    Nobody = Nobody
    Absent = Absent
    NoTrial = NoTrial
PROPERTIES
    TransactionsEnd
    ImplementsRegister
INVARIANTS
    IInv
    EngineCurrent
    Durable
    MissingOnlyMidRestore
    CredentialsOwned
