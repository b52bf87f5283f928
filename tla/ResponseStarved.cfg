SPECIFICATION FairSpec
CONSTANTS
    Streams <- TwoStreams
    Body <- ShortBodies
    StreamCredit = 1
    ChannelCredit = 1
    PendingLimit = 2
    HighWater = 1
PROPERTIES
    AbortsStayLocal
CHECK_DEADLOCK FALSE
