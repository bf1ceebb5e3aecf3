SPECIFICATION DataSpec
CONSTANTS
    Tids = {1, 2, 3}
    ThreadTids = {}
    Recorders = {}
    Root = 1
    NoTid = NoTid
    Reaper = Reaper
    MaxImg = 1
    MaxFork = 3
    PipeCap = 1
    TidReuse = FALSE
    Mortal = {2}
    Confs <- CpuConfs
    NrCpu = 3
    NrThread = 2
    Ring = 2
    OpenFails = FALSE
INVARIANTS
    TraceIsNamed
    ForksPaired
    SymbolsFound
    InfoKept
    SettingsHold
    CpuDataKept
    CpuDataRead
    WindowIsTrue
CHECK_DEADLOCK FALSE
