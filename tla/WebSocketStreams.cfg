SPECIFICATION FairSpec
CONSTANTS
    Sizes <- Talk
    MaxMessages <- TwoEach
    MaxMessage = 1
    StreamCredit = 1
INVARIANTS
    InOrder
    NoLostWakeup
    OnlyCloseFaults
PROPERTIES
    PublicCloseReachesLocal
    HeardCloseReachesPublic
CHECK_DEADLOCK FALSE
