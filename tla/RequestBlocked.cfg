SPECIFICATION StalledSpec
CONSTANTS
    Streams <- OneStream
    NoStream = 0
    Body <- OneBody
    Answered = {}
    Troubled = {1}
    StreamCredit = 1
    ChannelCredit = 1
PROPERTIES
    CancelReachesOrigin
CHECK_DEADLOCK FALSE
