CONSTANTS
    Kids = {k1}
    MaxQueued = 1
    RootMayDie = TRUE
SPECIFICATION FairSpec
INVARIANT Contained
INVARIANT CertificateIsTrue
INVARIANT ClosedMeansGone
INVARIANT TriggerIsTrue
PROPERTY FamilyEnds
CHECK_DEADLOCK FALSE
