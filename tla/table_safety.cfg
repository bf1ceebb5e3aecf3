SPECIFICATION FairSpec
CONSTANTS
    Tids = {1, 2}
    ThreadTids = {1, 2}
    Recorders = {1, 2}
    Root = 1
    NoTid = NoTid
    Reaper = Reaper
    MaxImg = 2
    MaxFork = 1
    PipeCap = 2
    Mortal = {1, 2}
    TidReuse = TRUE
INVARIANTS
    NothingForgotten
PROPERTIES
    StopsWhenForksComplete
