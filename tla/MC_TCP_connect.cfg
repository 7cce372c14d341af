\* The application connects to a listening remote host that is already in
\* the ARP cache, so no segment is lost.
CONSTANTS
    Ids <- IdsMC
    U32 = 16
    RX_BUF = 4
    ISN = 13
    PEER_ISN = 14
    LPORT = 80
    PPORT = 1000
    EPHEMERAL = 49152
    MaxData = 5
    MaxSeg = 2
    MaxSend = 1
    MaxPorts = 1
    PeerRole = "server"
    ARP_PRELOADED = TRUE
SPECIFICATION Spec
PROPERTY ConnectCompletes
\* Both applications may be done: then nothing is left to happen.
CHECK_DEADLOCK FALSE
