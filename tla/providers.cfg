SPECIFICATION ProvidersSpec
CONSTANTS
    MaxFds = 3
    Faults = {"open", "transfer", "short", "crash", "funcs", "slave", "read",
              "memory", "seek", "buffer", "flush", "line"}
    Ports = {0, 9, 73, 100}
    LowModes = {0, 1}
    SfpLens = {0, 1, 2, 4}
    Counts = {0, 2}
    Exported <- MCExported
    Outputs <- MCOutputs
    ReleaseFiles <- MCFiles
    VersionLens = {0, 1}
    Offsets = {0, 2, 3}
    VrLens = {5, 10}
    Registers = {2, 255}
    Directories <- MCDirectories
    Wanted = "wanted"
    Sensor <- MCSensors
    Unknown = {"none9"}
    FanModes = {0, 1, 2}
    Speeds = {0, 1}
    FanFaults = {"fork", "signal", "exit", "update", "get", "crash"}
    Devices <- MCDevices
    Size = 6
    Targets <- MCTargets
    Starts = {0, 4}
    Macs <- MCMacs
    Chars = {0, 10, 16}
    CpldLens = {5, 10}
    CpldFaults = {"open"}
    LastChannel = 1
    Media <- MCMedia
    Networked = {0}
    MaxChanges = 1
    UserFaults = {"info", "ip6", "ip4", "counts", "check", "name", "password", "priv", "undo", "crash"}
    Contents <- MCContents
    Parameters = {0, 1, 9}
    ParamMax = 4
    SerialFaults = {"program"}
    Settings <- AllSettings
    SettingArgs <- MCArgs
    Spans <- MCSpans
    Foreign <- MCForeign
    SettingFaults = {"service", "write", "read"}
    LedFaults = {"get"}
INVARIANTS
    ProvidersTypeOK
    LeakPerFailure
    NothingLeftOpen
    AnswersTrue
    Terminated
    LeavesPrefix
    ActivationGuarded
    ShowsWhatWasRead
PROPERTIES
    LowPowerKept
    GrowthMatches
    ManualMode
    SerialKept
    SettingKept
    FailedSetPrefix
    EveryHandlerReturns
