SPECIFICATION FairSpec
CONSTANTS
    Errors <- MCErrors
    Hysteresis = 1
    DPos = 2
    DNeg = 1
    WarmupCycles = 1
    MeasureCycles = 3
    TolNum = 1
    TolDen = 4
    MaxDuration = 11
    Huge = 100
    MaxResets = 1
INVARIANTS
    WindowAccounting
    FailsOnlyByTimeout
    CommandAccounting
    DoneMeansSettled
PROPERTIES
    ExperimentEnds
