SPECIFICATION FairSpec
CONSTANTS
    Tasks = {t1}
    Writers = {w1, w2}
    NoTask = NoTask
    KickCap = 4
    MaxRec = 3
    BufCap = 1
    MaxBuf = 2
    PipeCap = 2
PROPERTIES
    BuffersReturn
    RecorderEnds
