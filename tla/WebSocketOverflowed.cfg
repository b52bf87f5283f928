SPECIFICATION FairSpec
CONSTANTS
    Sizes <- LocalTalk
    MaxMessages <- OneEach
    MaxMessage = 1
    StreamCredit = 1
PROPERTIES
    UnheardReachesLocal
CHECK_DEADLOCK FALSE
