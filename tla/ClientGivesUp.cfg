SPECIFICATION Spec
CONSTANTS
    k1 = k1
    k2 = k2
    k3 = k3
    Conns = {k1, k2, k3}
    NoConn = NoConn
    Channels = {0, 1}
INVARIANTS
    NeverGivesUp
CHECK_DEADLOCK FALSE
