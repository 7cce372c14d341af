CONSTANTS
    NULL = NULL
    HALTED = HALTED
    BOOT = BOOT
    FRESH = FRESH
    Threads <- ThreadsMC
    StackBases <- StackBasesMC
    Builds <- BuildsBoth
SPECIFICATION FairSpec
CHECK_DEADLOCK FALSE
PROPERTY
    EntryReached
