\* The remote host opens a connection, sends 5 bytes and closes; with the
\* 4-byte ring full, KOS trims a byte and then takes the FIN behind it.
CONSTANTS
    Ids <- IdsMC
    U32 = 16
    RX_BUF = 4
    ISN = 13
    PEER_ISN = 14
    LPORT = 80
    PPORT = 1000
    EPHEMERAL = 49152
    MaxData = 5
    MaxSeg = 2
    MaxSend = 1
    MaxPorts = 1
    PeerRole = "client"
    ARP_PRELOADED = FALSE
SPECIFICATION Spec
INVARIANT RcvNxtOverStored
\* Both applications may be done: then nothing is left to happen.
CHECK_DEADLOCK FALSE
