SPECIFICATION FairSpec
CONSTANTS
    Delay = 3
    MaxCycle = 3
    BlockLen = 12
INVARIANTS
    TypeOK
    NeverRefused
PROPERTIES
    BlockWritten
