SPECIFICATION FairSpec
CONSTANTS
    Callers = {c1, c2}
    Ops = {o1}
    Keys = {k1, k2}
    Inodes = {i1, i2, i3}
    None = None
    StoreLimit = 1
    WaitForOwner = 1
    CallTimeout = 1
    UncertainTtl = 2
    PowerMayFail = FALSE
PROPERTIES EveryCallAnswered
