SPECIFICATION Spec
CONSTANTS
    Clients = {1, 2}
    Threads = {1, 2}
    OptionLists <- MCOptionLists
    MaxDlopen = 1
INVARIANTS
    TreesReplaced
PROPERTIES
    AckedInForce
    EndsCleanly
CHECK_DEADLOCK FALSE
