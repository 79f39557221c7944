CONSTANTS
    Workers = {w1}
    Observers = {o1}
    None = None
    Asks = {"stop"}
    ForeignWaiter = TRUE
    MaxFaults = 1
    MaxKills = 0
SPECIFICATION FairSpec
PROPERTY StopEnds
