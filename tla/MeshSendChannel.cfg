SPECIFICATION FairSpec
CONSTANTS
    a = a
    b = b
    Node <- MCNode
    Origin = a
    Slots <- MCSlots
    LastMsg = 0
    None = None
PROPERTIES
    SendChannelIsSetUp
CHECK_DEADLOCK FALSE
