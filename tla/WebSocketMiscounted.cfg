SPECIFICATION FairSpec
CONSTANTS
    Sizes <- LocalTalk
    MaxMessages <- OneEach
    MaxMessage = 1
    StreamCredit = 1
INVARIANTS
    ClosesStayLocal
CHECK_DEADLOCK FALSE
