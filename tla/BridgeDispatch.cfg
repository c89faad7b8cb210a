SPECIFICATION FairSpec
CONSTANTS
    h1 = h1
    h2 = h2
    Handler = {h1, h2}
    LastMsg = 4
    SfuCommands = {2}
    Cap = 1
    None = None
INVARIANTS
    TypeOK
    FlagHasOwner
    ChannelsInOrder
PROPERTIES
    ImplementsDelivery
    InOrderWhileSingle
    
    
    
