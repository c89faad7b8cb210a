SPECIFICATION FairSpec
CONSTANTS
    p1 = p1
    i1 = i1
    s1 = s1
    Peer = {p1}
    Configured = {}
    Inbound = {i1}
    Sender = {s1}
    Cap = 1
    InitialBackoff = 1
    MaxBackoff = 2
    None = None
CHECK_DEADLOCK FALSE
PROPERTIES
    DisconnectIsRecorded
