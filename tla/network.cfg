SPECIFICATION Spec
CONSTANTS
    Recorders = {1, 2}
    WritersOf <- MCWritersOf
    MaxData <- MCMaxData
    Meta <- MCMeta
INVARIANTS
    ServerKeepsData
PROPERTIES
    AllSaved
CHECK_DEADLOCK FALSE
