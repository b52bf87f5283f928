SPECIFICATION FairSpec
CONSTANTS
    Streams <- TwoStreams
    Body <- OneBody
    StreamCredit = 3
    ChannelCredit = 2
    PendingLimit = 2
    HighWater = 1
PROPERTIES
    ResponsesFinish
    CancelReachesOrigin
CHECK_DEADLOCK FALSE
