\* vmm_map_pages after a vmm_map_page failure: is the batch rolled back?
CONSTANTS
    E = 8
    Pool <- PoolMC
    KBASE = 2
    KERNEL_PAGES = 1
    VGA_FRAME = 1
    VGA_PT = 0
    NULL = NULL
    PageInputs <- PageInputsMC
    HugeInputs <- HugeInputsMC
    BatchInputs <- BatchInputsMC
    UnmapInputs <- UnmapInputsMC
SPECIFICATION Spec
PROPERTY MapPagesAtomic
