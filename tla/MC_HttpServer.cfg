SPECIFICATION HttpSpec
CONSTANTS
    Shapes <- MCShapes
    MaxRequests = 2
    MaxFields = 1
INVARIANTS
    HttpTypeOK
    HandledWhole
CHECK_DEADLOCK FALSE
