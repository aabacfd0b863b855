SPECIFICATION FairSpec
CONSTANTS
    Addr = {0, 1, 2, 3, 4}
    Byte = {0, 1, 255}
    Erased = 255
    InitChips <- MCChips
    MaxFds = 3
    Faults = {"crash"}
    Types = {"cpu", "fw"}
    FW = "fw"
    UnknownTypes = {}
    BeyondArray = {}
    Base <- MCBase
    Size <- MCSize
    Payload <- MCPayload
INVARIANTS
    TypeOK
    CacheCoherent
    LeakBound
    AnswerIsOnChip
PROPERTIES
    StoreSpec
    SetReachesChip
