\* The comment "nobody can hold it: no record" in reserve, against forget and the wait for the owner.
SPECIFICATION Spec
CONSTANTS
    Callers = {c1, c2}
    Ops = {o1}
    Keys = {k1}
    Inodes = {i1, i2, i3}
    None = None
    StoreLimit = 1
    WaitForOwner = 1
    CallTimeout = 1
    UncertainTtl = 2
    PowerMayFail = FALSE
INVARIANTS NobodyHoldsWithoutRecord
