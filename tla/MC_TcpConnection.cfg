SPECIFICATION FairSpec
CONSTANTS
    u1 = u1
    m1 = m1
    m2 = m2
    Users <- MC_Users
    Msgs <- MC_Msgs
    MsgLen = 2
    HighWaterMark = 1
INVARIANTS TypeOK StreamWhole EventsMatchBuffer CallbackPairing
PROPERTIES HalfCloseAfterData Drains ClosedIsDestroyed
CHECK_DEADLOCK FALSE
