SPECIFICATION MCSpec
CONSTANTS
    MaxCalls = 4
    Spans <- MCSpans
    TsBase = 3
    Divs = {0, 1, 2, 3}
    Strides = {0, 2}
    MaxTicks = {0, 2, 4}
    NModes = 2
    MaxEvents = {0, 2, 20}
    HFine = {0, 2}
    SolveSpans <- MCSolveSpans
    Crossings <- MCCrossings
    Steps = {0, 2, 3}
    MinSteps = {2}
    MaxSteps = {0, 4}
    FirstSteps = {3}
    FailOnMinStep = {TRUE, FALSE}
    MaxFactor = 2
    MaxNfev = 7
    MaxRejections = 3
INVARIANTS
    OwnerIsFresh
    ShortMeansFailed
    LogIsConsistent
    SolveIsHonest
    HistoryIsSmooth
    CrossingEndsStep
PROPERTIES
    LoopsEnd
CHECK_DEADLOCK FALSE
