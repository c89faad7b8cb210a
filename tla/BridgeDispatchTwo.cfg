SPECIFICATION Spec
CONSTANTS
    h1 = h1
    h2 = h2
    Handler = {h1, h2}
    LastMsg = 1
    SfuCommands = {}
    Cap = 1
    None = None
SYMMETRY Symmetry
INVARIANTS
    OneBridgeAtATime
