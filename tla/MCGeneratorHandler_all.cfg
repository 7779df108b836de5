SPECIFICATION Spec
CONSTANTS
    p1 = p1
    f1 = f1
    Paths = {p1}
    Files = {f1}
    PathOf <- SingleFile
    NumGens = 2
    Streaming = {2}
    MaxMsgs = 1
    Slots = 1
    UseHTTP = TRUE
INVARIANTS
    TypeOK
    WorksBalanced
    ReqwgBalanced
    SlotsHeld
    EveryRequestAnswered
    CancelAfterWork
    Conservation
    AtMostOneResultLost
    DirEntriesKept
PROPERTIES
    WorksStaysZero
    DeliversResults
