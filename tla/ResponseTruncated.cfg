SPECIFICATION Spec
CONSTANTS
    Streams <- OneStream
    Body <- ShortBody
    StreamCredit = 2
    ChannelCredit = 2
    PendingLimit = 2
    HighWater = 1
INVARIANTS
    CleanEndIsComplete
CHECK_DEADLOCK FALSE
