SPECIFICATION Spec
CONSTANTS
    p1 = p1
    i1 = i1
    Peer = {p1}
    Configured = {p1}
    Inbound = {i1}
    Sender = {}
    Cap = 1
    InitialBackoff = 1
    MaxBackoff = 2
    None = None
CHECK_DEADLOCK FALSE
PROPERTIES
    InboundClearsOnlyItsOwn
