SPECIFICATION FairSpec
CONSTANTS
    c1 = c1
    c2 = c2
    Conns = {c1, c2}
    NoConn = NoConn
    MaxChannels = 2
    MaxStreamId = 2
    MaxSockets = 3
    MaxCrashes = 1
INVARIANTS
    DurableRecord
    StreamsOfActiveConnection
    IssuedStreamsKnown
    OpenSocketsCurrent
    NoOrphanPublicSocket
    NotStranded
PROPERTIES
    NoStreamIdReuse
    OldSocketsInert
    SettlesOrDrops
