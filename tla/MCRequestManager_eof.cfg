SPECIFICATION Spec
CONSTANTS
    c1 = c1
    c2 = c2
    Clients = {c1}
    MaxReplies = 2
    PipeCap = 2
    Workers = 1
    MayExit = {"clean"}
    IOFails = FALSE
INVARIANTS
    RepliesBeforeEof
