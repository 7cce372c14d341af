CONSTANTS
    PAGE_SIZE = 2
    LOW_PFN = 1
    DMA_LIMIT_PFN = 10
    DMA32_LIMIT_PFN = 14
    RESERVE_PFNS = 10
    HUGE_PFNS = 2
    WORD_BITS = 2
    FRAME_BITS = 16
    EARLY_BITS = 64
    EARLY_SCAN = 16
    KERNEL_END_PFN = 2
    HIGHER_HALF_PFN = 32
    BASE_UNSET = 99
    MemMaps <- MapsLowRam
    Counts <- CountsMC
INIT Init
NEXT Next
INVARIANT
    NoDoubleAllocation
