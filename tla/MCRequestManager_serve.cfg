SPECIFICATION FairSpec
CONSTANTS
    c1 = c1
    c2 = c2
    Clients = {c1, c2}
    MaxReplies = 2
    PipeCap = 1
    Workers = 2
    MayExit = {"clean", "crashed"}
    IOFails = TRUE
INVARIANTS
    TypeOK
    RepliesInOrder
    EofIsComplete
    NoStray
    ReaderWaitsForReceiver
PROPERTIES
    AllServed
