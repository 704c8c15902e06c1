SPECIFICATION Spec
CONSTANTS
    JudgeNum = 2
    Second = 3
    TimeLimit = 2
    MemoryLimit = 2
    MemoryCosts <- MC_MemoryCosts
    Delay = 1
INVARIANTS AcceptedMeansPassed
CHECK_DEADLOCK FALSE
