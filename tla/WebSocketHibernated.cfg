SPECIFICATION FairSpec
CONSTANTS
    Sizes <- LocalTalk
    MaxMessages <- OneEach
    MaxMessage = 1
    StreamCredit = 1
PROPERTIES
    ForgottenReachesLocal
CHECK_DEADLOCK FALSE
