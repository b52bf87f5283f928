SPECIFICATION Spec
CONSTANTS
    Streams <- TwoStreams
    Body <- TwoBodies
    StreamCredit = 2
    ChannelCredit = 3
    PendingLimit = 2
    HighWater = 1
INVARIANTS
    StreamCreditConserved
    NoLostWakeup
    PendingAccounted
    NoProtocolError
PROPERTIES
    ImplementsByteStream
CHECK_DEADLOCK FALSE
