SPECIFICATION Spec
CONSTANTS
    p1 = p1
    f1 = f1
    Paths = {p1}
    Files = {f1}
    PathOf <- SingleFile
    NumGens = 1
    Streaming = {}
    MaxMsgs = 1
    Slots = 1
    UseHTTP = TRUE
INVARIANTS
    StopAfterLastPost
