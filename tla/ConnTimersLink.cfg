CONSTANTS
    KeepaliveInterval = 3
    ReadTimeout = 9
    MaxStall = 5
    MaxWire = 2
SPECIFICATION Spec
INVARIANTS TypeOK NoFalseAlarm ReadOnlyNoticesSilence TickRestartsTimeout
CHECK_DEADLOCK FALSE
