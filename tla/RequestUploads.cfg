SPECIFICATION FairSpec
CONSTANTS
    Streams <- TwoStreams
    NoStream = 0
    Body <- TwoBodies
    Answered = {2}
    Troubled = {2}
    StreamCredit = 2
    ChannelCredit = 2
INVARIANTS
    StreamCreditConserved
    NoLostWakeup
    NoProtocolError
    CleanEndIsWhole
PROPERTIES
    ImplementsByteStream
    UploadsFinish
CHECK_DEADLOCK FALSE
