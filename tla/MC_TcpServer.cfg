SPECIFICATION FairSpec
CONSTANTS
    Base = "base"
    IoLoops <- MCIoLoops
    MaxConns = 2
    MaxFds = 2
    Shared = {1}
INVARIANTS
    TypeOK
    Accounted
PROPERTIES
    LifeSpec
    Served
    Released
CHECK_DEADLOCK FALSE
