CONSTANTS
    c1 = c1
    c2 = c2
    Callers = {c1}
    NumPages = 4
    MaxOrder = 2
    Base = 8
    EntersSMode = TRUE
    KernelMapped = {0, 1, 2, 3}
    RepeatedFrees = {}
    NoCaller = NoCaller
SPECIFICATION FairSpec
CHECK_DEADLOCK FALSE
PROPERTY LockReleased
