CONSTANTS
    NULL = NULL
    HALTED = HALTED
    BOOT = BOOT
    FRESH = FRESH
    Threads <- ThreadsMC
    StackBases <- StackBasesMC
    Builds <- BuildsLeave
SPECIFICATION FairSpec
INVARIANTS
    TypeOK
    QueueWellFormed
    NoLostThread
PROPERTIES
    QueuedEventuallyCurrent
