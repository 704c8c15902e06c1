SPECIFICATION FairSpec
CONSTANTS
    Size = 3
    MaxLines = 8
    Null = Null
INVARIANTS TypeOK LinesKept SparesRefillable FullBufferWakes
PROPERTIES LineWritten StopReturns
CHECK_DEADLOCK FALSE
