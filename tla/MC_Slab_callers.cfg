CONSTANTS
    PAGE_SIZE = 256
    NUM_SIZES = 4
    VBASE = 4096
    MAX_LIVE = 3
    Frames <- FramesMC
    Sizes <- SizesCallers
INIT Init
NEXT Next
INVARIANT
    LiveMagic
