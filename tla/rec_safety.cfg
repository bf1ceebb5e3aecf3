SPECIFICATION MCSpec
CONSTANTS
    Tasks = {"t1", "t2"}
    Writers = {"w1", "w2"}
    NoTask = "none"
    KickCap = 9
    MaxRec = 5
    BufCap = 1
    MaxBuf = 4
    PipeCap = 2
INVARIANTS
    OneOwner
    GapsAreMarked
    CompleteAtEnd
PROPERTIES
    RefinesTraceLog
