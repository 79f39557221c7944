SPECIFICATION Spec
CONSTANTS
    Callers = {c1, c2}
    Ops = {o1, o2}
    Keys = {k1}
    Inodes = {i1, i2, i3, i4}
    None = None
    StoreLimit = 1
    WaitForOwner = 1
    CallTimeout = 1
    UncertainTtl = 2
    PowerMayFail = TRUE
SYMMETRY Symmetry
INVARIANTS OwnerGuardsIntent AtMostOnce EvidenceSurvives PromiseKept IInv
PROPERTIES RoomBeforeIntent ReceiptKeptForWaiters IntentEndsByItsOwner ImplementsTerminateOnce
