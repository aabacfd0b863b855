SPECIFICATION Spec
CONSTANTS
    Addr = {0, 1, 2, 3, 4}
    Byte = {0, 1, 255}
    Erased = 255
    InitChips <- MCChips
    MaxFds = 3
    Faults = {"read"}
    Types = {"cpu", "fw"}
    FW = "fw"
    UnknownTypes = {}
    BeyondArray = {}
    Base <- MCBase
    Size <- MCSize
    Payload <- MCPayload
INVARIANTS
    LoadedBlockIsOnChip
