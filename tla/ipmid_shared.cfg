SPECIFICATION FairIpmidSpec
CONSTANTS
    MaxFds = 2
    Faults = {"open", "transfer", "line", "slave", "read", "crash"}
    Ports = {0}
    LowModes = {1}
    SfpLens = {1}
    Counts = {1}
    Exported <- MCExported
    Outputs <- MCOutputs
    ReleaseFiles <- MCReleases
    VersionLens = {0, 1}
    Offsets = {0, 3}
    VrLens = {5}
    Registers = {6}
INVARIANTS
    IpmidTypeOK
    DescriptorsAccounted
PROPERTIES
    EveryRequestEnds
