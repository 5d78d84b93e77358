SPECIFICATION FairSpec
CONSTANTS
    MaxProcs = 3
    NBlocks = 2
    NTables = 2
    RingCap = 1
    UartCap = 1
    MaxSleep = 1
    MaxRead = 1
    Codes = {257}
    Sigs = {0, 9}
    WstatusPtrs = {"ok", "bad"}
    KillSelf = TRUE
INVARIANTS
    BlocksConserved
    LiveAddressSpace
    WaitersSound
    WaitReportsTruth
    HaltIsFinal
PROPERTIES
    NobodyStarves
    InputReachesReader
