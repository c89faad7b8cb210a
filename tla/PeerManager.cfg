SPECIFICATION FairSpec
CONSTANTS
    p1 = p1
    p2 = p2
    i1 = i1
    i2 = i2
    s1 = s1
    Peer = {p1, p2}
    Configured = {p1}
    Inbound = {i1, i2}
    Sender = {s1}
    Cap = 2
    InitialBackoff = 1
    MaxBackoff = 5
    None = None
INVARIANTS
    TypeOK
    StatusTruthful
    GuardPinsChannel
    BackoffOnSchedule
PROPERTIES
    
    
    
    UnrivalledOutboundIsLinked
CHECK_DEADLOCK FALSE
