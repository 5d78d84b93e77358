SPECIFICATION MCSpec
CONSTANTS
    Slots = 2
    MaxPings = 2
    Idents = {1, 2}
    StreamLen = 4
    Window = 2
    RxCap = 3
    SeqMod = 14
    MaxSend = 1
    MaxSleep = 3
    PollTicks = 2
    TickPeriod = 2
    RingCap = 2
    FifoCap = 2
INVARIANTS
    CacheSound
    PingAnsweredByItsHost
    StreamIntact
    TimerRight
PROPERTIES
    SenderGetsThrough
    StreamArrives
    RecoversOnInput
CHECK_DEADLOCK FALSE
