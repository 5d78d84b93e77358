SPECIFICATION Spec
CONSTANTS
    NProcs = 2
    NSocks = 2
    QCap = 2
    EphFirst = 2
    EphLast = 3
    EphTries = 2
    MaxDgrams = 2
INVARIANTS
    SocketsSound
    DatagramsOnceInOrder
    SoleHolderStaysBlocked
PROPERTY
    ReceiveReturns
CHECK_DEADLOCK FALSE
