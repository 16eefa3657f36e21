SPECIFICATION ExcitationSpec
CONSTANTS
    Ts = 2
    Orders <- MCOrders
    Seeds <- MCSeeds
    Clock = 3
    MinHold = 4
    MaxHold = 12
    RateTols <- MCRateTols
    Confirm = 5
    Outputs <- MCOutputs
    Hold = 3
    Cycles = 2
    Targets <- MCTargets
    Rate = 1
    HoldAtEnd = 3
    Width = 3
    Turn = 24
    Freqs <- MCFreqs
    CyclesPerFreq = 2
    Phase = 3
    FStart = 1
    FEnd = 4
    Duration = 9
    Tones <- MCTones
    MaxSamples = 100000
INVARIANTS
    FullPeriod
    ScheduleKept
    SettleIsReal
PROPERTIES
    EveryRunEnds
