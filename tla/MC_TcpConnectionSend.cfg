SPECIFICATION Spec
CONSTANTS
    u1 = u1
    m1 = m1
    m2 = m2
    Users <- MC_Users
    Msgs <- MC_Msgs
    MsgLen = 2
    HighWaterMark = 1
PROPERTIES SendKeeps
CHECK_DEADLOCK FALSE
