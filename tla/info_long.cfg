SPECIFICATION Spec
CONSTANTS
    Buf = 4
    LongLines = TRUE
INVARIANTS
    NeverUnreadable
CHECK_DEADLOCK FALSE
