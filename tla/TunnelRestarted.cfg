SPECIFICATION Spec
CONSTANTS
    c1 = c1
    Conns = {c1}
    NoConn = NoConn
    MaxChannels = 1
    MaxStreamId = 1
    MaxSockets = 1
    MaxCrashes = 1
INVARIANTS
    UnconnectedTunnelsExpire
