SPECIFICATION FairSpec
CONSTANTS
    Addr = {0, 1, 2, 3, 4}
    Byte = {0, 255}
    Erased = 255
    InitChips <- MCBlank
    MaxFds = 3
    Faults = {"open", "ioctl", "funcs", "write", "read", "crash"}
    Types = {"cpu", "fw"}
    FW = "fw"
    UnknownTypes = {"none", "beyond"}
    BeyondArray = {"beyond"}
    Base <- MCBase
    Size <- MCSize
    Payload <- MCFaultyPayload
INVARIANTS
    WritePrefix
PROPERTIES
    Isolation
    StoreSpec
    RequestsAnswered
