CONSTANTS
    c1 = c1
    c2 = c2
    Callers = {c1}
    NumPages = 8
    MaxOrder = 2
    Base = 8
    EntersSMode = FALSE
    KernelMapped = {0, 1, 2, 3, 4, 5, 6, 7}
    RepeatedFrees = {0}
    NoCaller = NoCaller
SPECIFICATION FairSpec
INVARIANT IInv
INVARIANT Disjoint
INVARIANT NoLeak
INVARIANT FlagsOK
INVARIANT HaltReasons
PROPERTY LockReleased
PROPERTY ImplementsPageAlloc
