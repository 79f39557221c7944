SPECIFICATION ActionSpec
CONSTANTS
    Callers = {c1, c2}
    Ids = {m1, m2}
    Bodies = {b1, b2}
    Deferred = {m2}
    None = None
    Typed = Typed
    Enter = Enter
    Tab = Tab
    MaxHuman = 0
    MaxRestarts = 0
    MaxOrphans = 1
SYMMETRY Symmetry
INVARIANTS ExecutedOnce BlockedDidNothing LedgersAgree
