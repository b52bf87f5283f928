SPECIFICATION Spec
CONSTANTS
    Byte = 256
    WideBytes = 2
    LongBytes = 2
    MaxSafe = 100
    MaxReason = 3
    MaxUrl = 4
    MaxName = 2
    MaxValue = 8
    MaxHeaders = 40
    MaxHeaderCount = 10
    MaxChannels = 2
    DefaultMetadata = 34
    Tokens <- Known
    Localised <- Local
    Asked <- Everything
    Answers <- AllAnswers
    Closes <- AllCloses
    Troubles <- ShortTroubles
    Sizes = {0, 1}
    MaxSent = 1
    Strays <- AllStrays
    MaxFrame = 40
    MaxMetadata = 34
    None = None
INVARIANTS
    PeersUnderstand
    HeadersArrive
    EndsArrive
CHECK_DEADLOCK FALSE
