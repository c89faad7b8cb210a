CONSTANTS
    KeepaliveInterval = 3
    ReadTimeout = 9
    MaxStall = 5
    MaxWire = 2
SPECIFICATION Spec
INVARIANT SilenceIsNoticed
CHECK_DEADLOCK FALSE
