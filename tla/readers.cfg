SPECIFICATION Spec
CONSTANTS
    Tasks <- MCTasks
    MaxStack = 5
    Programs <- MCPrograms
    Commands <- MCCommands
INVARIANTS
    ReplayShowsCalls
    ReportShowsCalls
    GraphShowsCalls
    ChromeShowsCalls
CHECK_DEADLOCK FALSE
