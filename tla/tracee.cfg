SPECIFICATION TraceeSpec
CONSTANTS
    Functions = {"a", "b"}
    Setups <- MCSetups
    Rooms = {1, 9}
    MaxCalls = 4
    MaxTime = 2
    Threads = {1, 2}
    LibFuncs = {"usual", "resolve", "skip", "mcount"}
    Kind <- MCKind
    Programs <- MCPrograms
    MaxSlots = 4
    MaxNcalls = 5
INVARIANTS
    MirrorsCalls
    StreamTellsCalls
    ReturnsToCaller
    StackIsHonest
    PltCallsTraced
    PatchKeepsProgram
    PatchedAsAsked
    DataReadBack
CHECK_DEADLOCK FALSE
