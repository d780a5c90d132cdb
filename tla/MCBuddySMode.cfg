CONSTANTS
    c1 = c1
    c2 = c2
    Callers = {c1, c2}
    NumPages = 6
    MaxOrder = 2
    Base = 2
    EntersSMode = TRUE
    KernelMapped = {0, 1, 2, 3}
    RepeatedFrees = {}
    NoCaller = NoCaller
SPECIFICATION Spec
CHECK_DEADLOCK FALSE
INVARIANT NoLeak
INVARIANT HaltReasons
PROPERTY ImplementsPageAlloc
PROPERTY MergesFully
