SPECIFICATION Spec
CONSTANTS
    MaxGenerations = 2
    Modes = {"server"}
    Requests <- MCRequests
    Scripts <- MCPlain
    MaxReloads = 0
    LoadsMayFail = FALSE
    SharedMemory = TRUE
INVARIANT AnswerIsOwn
CHECK_DEADLOCK FALSE
