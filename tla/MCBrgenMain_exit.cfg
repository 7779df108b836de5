SPECIFICATION FairMainSpec
CONSTANTS
    p1 = p1
    f1 = f1
    r1 = r1
    r2 = r2
    dir = dir
    base = base
    cpp = cpp
    Paths = {p1}
    Files = {f1}
    PathOf <- SingleFile
    NumGens = 1
    Streaming = {}
    MaxMsgs = 2
    Slots = 1
    UseHTTP = FALSE
    Reporters = {r1, r2}
    StdoutGens = {}
    Dirs = {dir}
    Names = {base}
    Suffixes = {cpp}
    OutputDir <- OneDir
    BaseOf <- OneBase
    SpecSuffix <- OneSuffix
    ReplyName <- OneReplyName
    OldPaths <- OnePath
    TestInfo = TRUE
INVARIANTS
    MainTypeOK
    NoWriterCutOff
    CountsExact
    SoleOutputIntact
PROPERTIES
    MainExits
