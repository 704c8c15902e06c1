SPECIFICATION FairThreadSpec
CONSTANTS
    o = o
    c1 = c1
    t1 = t1
    t2 = t2
    t3 = t3
    io = io
    wake = wake
    Owner = o
    Clients <- MC_Clients
    Tasks <- MC_Tasks
    IOChannels <- MC_IO
    WakeupChannel = wake
PROPERTIES DestructorReturns
CHECK_DEADLOCK FALSE
