SPECIFICATION FairSpec
CONSTANTS
    a = a
    b = b
    Node <- MCNode
    Origin = a
    Slots <- MCSlots
    LastMsg = 1
    None = None
INVARIANTS
    TypeOK
PROPERTIES
    ImplementsLink
    LostWithReason
    NothingLingers
    Heals
CHECK_DEADLOCK FALSE
