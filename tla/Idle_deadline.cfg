SPECIFICATION IdleSpec
CONSTANTS
    MaxSleep = 2
    PollTicks = 2
    TickPeriod = 2
    RingCap = 2
    FifoCap = 2
INVARIANTS
    DeadlineWakes
