CONSTANTS
    PTE_COUNT = 4
    PAGE_SIZE = 4
    SNUB_MIN_SHIFT = 0
    SNUB_MAX_SHIFT = 2
    VaPages = 92
    UartPpn = 0
    ImagePpn = 4
    ImagePerm <- MCImagePerm
    KernelEnd = 20
    UserPages = 7
    Memories <- MCMemories
    PROC_SIZE = 2
    BinarySize = 5
    Wrap = 1024
    SbrkSizes <- MCSbrkSizes
    UnmapAddrs <- MCUnmapAddrs
    UnmapSizes <- MCUnmapSizes
    KernelMapped = {TRUE, FALSE}
SPECIFICATION Spec
CHECK_DEADLOCK FALSE
INVARIANT OneUse
INVARIANT Complete
INVARIANT HeapMatchesBreak
PROPERTY HeapCallsExact
PROPERTY ImplementsAddrMap
