SPECIFICATION Spec
CONSTANTS
    Paths <- MCPaths
    Initramfs <- MCInitramfs
    Targets <- MCTargets
    MAX_RAMDIRS = 2
    MAX_RAMFILES = 2
    MAX_RAMINODES = 2
    RAMFILE_CAP = 2
    MAX_SYMLINK_HOPS = 3
    NDescs = 2
    Zero = z
    Bytes = {b}
    Lens = {1, 3}
    FlagSets <- MCFlagSets
INVARIANTS
    OverlaySound
PROPERTIES
    OpenFileStays
    OpensNoLink
    ImplementsFiles
