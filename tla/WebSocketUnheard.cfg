SPECIFICATION FairSpec
CONSTANTS
    Sizes <- LocalTalk
    MaxMessages <- OneEach
    MaxMessage = 1
    StreamCredit = 1
PROPERTIES
    LocalCloseReachesPublic
CHECK_DEADLOCK FALSE
