SPECIFICATION DaemonSpec
CONSTANTS
    Addr = {0, 1, 2, 3, 4, 5, 6}
    Byte = {0, 1, 255}
    Erased = 255
    InitChips <- MCBlank
    MaxFds = 3
    Faults = {"crash"}
    Types = {"cpu", "fw"}
    FW = "fw"
    UnknownTypes = {"none"}
    BeyondArray = {}
    Base <- MCBase
    Size <- MCSize
    Payload <- MCPayload
    Reads <- MCReads
    Writes <- MCWrites
INVARIANTS
    DaemonTypeOK
    CoherentWhileRoom
    SharedLeakBound
    RawAnswerOnChip
PROPERTIES
    RawServed
