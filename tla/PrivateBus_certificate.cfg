CONSTANTS
    Kids = {k1}
    MaxQueued = 1
    RootMayDie = FALSE
SPECIFICATION Spec
INVARIANT CertificateKept
CHECK_DEADLOCK FALSE
