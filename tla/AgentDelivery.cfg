SPECIFICATION Spec
CONSTANTS
    Callers = {c1, c2}
    Ids = {m1, m2}
    Bodies = {b1}
    Deferred = {m2}
    None = None
    Typed = Typed
    Enter = Enter
    Tab = Tab
    MaxHuman = 1
    MaxRestarts = 1
    MaxOrphans = 2
SYMMETRY Symmetry
INVARIANTS AtMostOnceInput InputIsRecorded SubmittedIsTrue NothingMixed
PROPERTIES ImplementsDeliverOnce
