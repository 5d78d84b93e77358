SPECIFICATION MCSpec
CONSTANTS
    MaxProcs = 2
    MAX_FDS = 3
    MAX_FILEDESCS = 3
    MAX_PIPES = 1
    NSocks = 1
    StdFds = 1
    Page = 2
    Block = 4
    Low = 8
    UserRegion = 16
    MinPages = 8
    Boots <- MCBoots
    Ports = 3
    max_devs = 2
    Configs <- MCConfigs
    Commands <- MCCommands
    Tries = 2
    MaxFaults = 2
    RegionSize = 72
    MAX_ARGS = 3
    MAX_STR = 3
    Callers <- MCCallers
    Archive <- MCArchive
    Cols = 3
    Rows = 2
    VRows = 3
    Tab = 2
    Letters = {"a"}
    Escapes <- MCEscapes
    LogCap = 3
    MaxWrites = 4
INVARIANTS
    CountsExact
    CallsRight
    ExecFailsClean
    UsbNetRight
    UsbBusRight
    ConsoleRight
    MemorySound
PROPERTY
    ObjectsKept
CHECK_DEADLOCK FALSE
