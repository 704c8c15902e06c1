SPECIFICATION Spec
CONSTANTS
    c1 = c1
    c2 = c2
    c3 = c3
    k1 = k1
    k2 = k2
    k3 = k3
    k4 = k4
    None = None
    Clients <- MC_Clients
    Conns <- MC_Conns
    MinSize = 1
    MaxSize = 3
    MaxIdleTime = 2
INVARIANTS RefusesOnlyAtLimit
