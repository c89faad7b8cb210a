SPECIFICATION Spec
CONSTANTS
    a = a
    b = b
    c = c
    d = d
    r1 = r1
    r2 = r2
    n1 = n1
    Sid = {a, b, c, d}
    Room = {r1, r2}
    Node = {n1}
    None = None
CHECK_DEADLOCK FALSE
SYMMETRY Symmetry
INVARIANTS
    TypeOK
    MediaStaysInRoom
    RoomsMatchSessions
    NoDeadAtSelect
PROPERTIES
    ImplementsRoomSpec
