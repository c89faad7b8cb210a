SPECIFICATION FairSpec
CONSTANTS
    CmdCap = 1
    EvtCap = 2
    PeerCap = 2
    InboundCap = 1
    BridgeCap = 1
    SocketCap = 1
    MaxBurst = 2
INVARIANTS
    TypeOK
PROPERTIES
    CirclesStay
    
CHECK_DEADLOCK FALSE
