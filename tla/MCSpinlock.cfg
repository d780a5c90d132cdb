CONSTANTS
    h1 = h1
    h2 = h2
    Harts = {h1, h2}
    Locks <- ThreeLocks
    TryHarts = {h1}
    MaxDepth = 3
    NoHart = NoHart
SPECIFICATION FairSpec
INVARIANT IInv
INVARIANT MutualExclusion
INVARIANT MaskedWhileHolding
INVARIANT InterruptsRestored
INVARIANT NoUnderflow
INVARIANT NoDeadlock
PROPERTY InnermostReleased
PROPERTY ImplementsMutex
