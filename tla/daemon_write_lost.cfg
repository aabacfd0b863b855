SPECIFICATION DaemonSpec
CONSTANTS
    Addr = {0, 1, 2, 3, 4, 5, 6}
    Byte = {0, 1, 255}
    Erased = 255
    InitChips <- MCBlank
    MaxFds = 3
    Faults = {"write"}
    Types = {"cpu", "fw"}
    FW = "fw"
    UnknownTypes = {}
    BeyondArray = {}
    Base <- MCBase
    Size <- MCSize
    Payload <- MCPayload
    Reads <- MCReads
    Writes <- MCWrites
INVARIANT RawAnswerOnChip
