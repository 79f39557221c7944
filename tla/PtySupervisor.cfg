SPECIFICATION SupervisorSpec
CONSTANTS
    Procs = {s1, s2}
    Supervised = {s1}
    Ops = {o1}
    Keys = {k1, k2}
    Incarnations = {i1, i2}
    None = None
    PowerMayFail = TRUE
SYMMETRY Symmetry
INVARIANTS RecordsReadable BoundToSelection OneSendPerSelection OneSendPerOperation HonestRecord ConfirmedIsEnded UnheardIsUncertain
PROPERTIES TruthfulRefusal ImplementsTerminateOnce
