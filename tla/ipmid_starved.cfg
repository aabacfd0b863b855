SPECIFICATION FairIpmidSpec
CONSTANTS
    MaxFds = 1
    Faults = {"transfer"}
    Ports = {0}
    LowModes = {1}
    SfpLens = {1}
    Counts = {1}
    Exported <- MCExported
    Outputs <- MCOutputs
    ReleaseFiles <- MCReleases
    VersionLens = {0, 1}
    Offsets = {0}
    VrLens = {5}
    Registers = {6}
PROPERTIES
    VersionEnds
