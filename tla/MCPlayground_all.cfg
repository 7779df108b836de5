SPECIFICATION Spec
CONSTANTS
    MaxGenerations = 4
    Modes = {"page", "server"}
    Requests <- MCRequests
    Scripts <- MCScripts
    MaxReloads = 1
    LoadsMayFail = TRUE
    SharedMemory = TRUE
INVARIANTS RequestKept OutputBelongs ModuleAtHand RunsToEnd
PROPERTIES PageShowsOwn Settles
CHECK_DEADLOCK FALSE
