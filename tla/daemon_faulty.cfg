SPECIFICATION FairDaemonSpec
CONSTANTS
    Addr = {0, 1, 2, 3, 4, 5, 6}
    Byte = {0, 1, 255}
    Erased = 255
    InitChips <- MCBlank
    MaxFds = 2
    Faults = {"open", "ioctl", "funcs", "write", "read", "crash"}
    Types = {"fw"}
    FW = "fw"
    UnknownTypes = {"none"}
    BeyondArray = {}
    Base <- MCBase
    Size <- MCSize
    Payload <- MCPayload
    Reads <- MCFewReads
    Writes <- MCFewWrites
PROPERTIES
    Footprint
    StoreSpec
    DaemonAnswers
