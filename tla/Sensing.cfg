SPECIFICATION MCSpec
CONSTANTS
    Moves <- MCMoves
    Lags <- MCLags
    HalfRange = 4
    Wraps <- MCWraps
    Span = 24
    Capacity = 4
    Ulp = 1
    Gain = 1
    QTaps <- MCQTaps
    Lead = 1
    Scale = 64
    Horizon = 2
    RateUp = 1
    RateDown = 3
    TripLow = 1
    TripHigh = 2
    Valid <- MCValid
    Fault <- MCFault
    Margins <- MCMargins
    CalGain = 2
    CalOffset <- MCCalOffset
    Tol = 4
    PairSpan = 28
    Samples <- MCSamples
    Readings <- MCReadings
    Intervals <- MCIntervals
    MaxHeard = 7
INVARIANTS
    CountsTruth
    AbsoluteIsTruth
    ShortestWay
    WindowsExact
    PredictorsExact
    NoChatter
    FrontEndSound
