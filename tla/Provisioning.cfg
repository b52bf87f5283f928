SPECIFICATION ApartSpec
CONSTANTS
    Byte = 256
    WideBytes = 1
    LongBytes = 1
    MaxSafe = 5000
    MaxReason = 3
    MaxUrl = 8
    MaxName = 4
    MaxValue = 4
    MaxHeaders = 8
    MaxHeaderCount = 4
    MaxChannels = 3
    DefaultMetadata = 8
    Base <- Public
    AllowLocal = TRUE
    DefaultChannels = 2
    NoHost = NoHost
    Pool <- TwoTunnels
    Editors = {e1, e2}
    Stored <- StoredValues
    Edits <- EditedValues
    Flags <- FlagValues
    SeenAs <- Seen
    Versions <- BothVersions
    Unset = Unset
    Keep = Keep
    Torn = Torn
INVARIANTS ConfigWhole ConnectsAreAccepted ReadyIsReachable
PROPERTIES OrphansExpire
