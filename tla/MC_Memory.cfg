CONSTANTS
    E = 8
    KBASE = 2
    KERNEL_PAGES = 1
    VGA_FRAME = 1
    VGA_PT = 0
    NULL = NULL
    PageInputs <- PageInputsMC
    HugeInputs <- HugeInputsMC
    BatchInputs <- BatchInputsMC
    UnmapInputs <- UnmapInputsMC
    PAGE_SIZE = 256
    NUM_SIZES = 4
    VBASE = 4096
    MAX_LIVE = 2
    Frames <- FramesMC
    Sizes <- SizesFit
SPECIFICATION Spec
\* Frames are never returned to the pool, so the calls run out.
CHECK_DEADLOCK FALSE
INVARIANTS
    TypeOK
    KernelHalfShared
    FrameRoles
    SlotPartition
    LiveMagic
PROPERTIES
    MappingsExact
    NoDoubleAllocation
