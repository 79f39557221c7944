CONSTANTS
    Workers = {w1, w2}
    Observers = {o1}
    None = None
    Asks = {"stop"}
    ForeignWaiter = TRUE
    MaxFaults = 1
    MaxKills = 1
SPECIFICATION Spec
INVARIANT OneProvider
INVARIANT GroupCleared
INVARIANT NoFurtherSignals
INVARIANT CancelledRunsNothing
INVARIANT FailedLaunchRanNothing
INVARIANT StoppedNotCompleted
PROPERTY FinalStaysFinal
SYMMETRY Interchangeable
