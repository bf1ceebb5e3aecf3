SPECIFICATION FairSpec
CONSTANTS
    Tasks = {t1, t2}
    Writers = {w1, w2}
    NoTask = NoTask
    KickCap = 6
    MaxBufs = 3
INVARIANTS
    OneWriterPerTask
    NoLostWakeup
    FileInOrder
    NothingStranded
    IndInv
PROPERTIES
    WritersFinish
    RefinesTraceLog
