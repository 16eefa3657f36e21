SPECIFICATION MCSpec
CONSTANTS
    MaxT = 7
    Dts = {1, 2, 7}
    Delay = 3
    Stable = 2
    Hold = 2
    TimeMax = 15
    ScanTimes = {0, 1, 2, 3, 9, 15}
    Period = 4
    TimeOn = 2
    TimeOff = 3
INVARIANTS
    DelaysAreReal
    FamiliesAgree
    HeldMeansDown
    FiresOncePerPeriod
    BlinkKeepsTime
PROPERTY DebounceFollows
