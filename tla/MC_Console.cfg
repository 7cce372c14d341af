CONSTANTS
    W = 8
    H = 3
    FG = 16777215
    BG = 0
    Calls <- CallsMC
    PanicMsgs <- PanicMsgsMC
    MaxCalls = 4
    NULL = NULL
    JUNK = JUNK
    Vectors <- VectorsMC
    ErrCodes = {6}
    Cr2s = {4096}
    ExcName <- ExcNameMC
    StrMemSize = 5
    NameSize = 4
    NumBuses = 2
    NumSlots = 2
    MAX_PCI_DEVICES = 3
    Cards <- CardsMC
    MsiVectors = {65}
SPECIFICATION Spec
\* kernel_panic ends in cli; hlt, and the kprintf calls are bounded.
CHECK_DEADLOCK FALSE
INVARIANTS
    TypeOK
    ScreenShowsOutput
    OutputFollowsFormats
    StringOpsAgree
    ProcessNameFits
    PciScanOK
    PciMsiOK
