CONSTANTS
    Workers = {w1}
    Observers = {o1}
    None = None
    Asks = {"wait", "stop"}
    ForeignWaiter = FALSE
    MaxFaults = 1
    MaxKills = 0
SPECIFICATION Spec
INVARIANT WaitMeansExit
