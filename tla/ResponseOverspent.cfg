SPECIFICATION Spec
CONSTANTS
    Streams <- TwoStreams
    Body <- LongerBodies
    StreamCredit = 2
    ChannelCredit = 2
    PendingLimit = 2
    HighWater = 1
INVARIANTS
    NoCreditViolation
CHECK_DEADLOCK FALSE
