\* The remote host opens a connection to a listening KOS socket and sends
\* 5 bytes; counters wrap at 16, the ring holds 4 bytes.
CONSTANTS
    Ids <- IdsMC
    U32 = 16
    RX_BUF = 4
    ISN = 13
    PEER_ISN = 14
    LPORT = 80
    PPORT = 1000
    EPHEMERAL = 49152
    MaxData = 5
    MaxSeg = 2
    MaxSend = 1
    MaxPorts = 1
    PeerRole = "client"
    ARP_PRELOADED = FALSE
SPECIFICATION Spec
INVARIANT TypeOK
PROPERTY StreamRefinement
\* Both applications may be done: then nothing is left to happen.
CHECK_DEADLOCK FALSE
