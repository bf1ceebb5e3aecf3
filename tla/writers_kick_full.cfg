SPECIFICATION FairSpec
CONSTANTS
    Tasks = {t1, t2}
    Writers = {w1}
    NoTask = NoTask
    KickCap = 2
    MaxBufs = 3
PROPERTIES
    EveryBufferSaved
CHECK_DEADLOCK FALSE
