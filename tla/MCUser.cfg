SPECIFICATION MCSpec
CONSTANTS
    PIPE_BUF = 3
    Bytes = {0, 1}
    MaxLen = 4
    MaxRefs = 2
    OutLen = 4
    Capacity = 2
    Chunk = 3
    ReadMax = 2
    Writers = {"retry", "once", "endless", "missing"}
    Readers = {"patient", "hasty", "head", "missing"}
    Cap = 4
    HIST_MAX = 2
    MaxLines = 3
    Prompt <- MCPrompt
    Width = 4
    Characters = {"a", "b", " ", "/", ".", ";", ">"}
    Chars = {"a", " "}
    Blank = " "
    Separators = {";"}
    Slash = "/"
    Dot = "."
    Builtins <- MCBuiltins
    Bin <- MCBin
    Listing <- MCListing
    Dirs <- MCDirs
INVARIANTS
    PipelineWhole
    LineShown
    ToolsRight
PROPERTIES
    ImplementsFifo
    PromptReturns
    EditsKeepLine
CHECK_DEADLOCK FALSE
