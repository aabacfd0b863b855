SPECIFICATION Spec
CONSTANTS
    Delay = 3
    MaxCycle = 5
    BlockLen = 4
INVARIANTS
    NeverRefused
