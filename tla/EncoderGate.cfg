SPECIFICATION FairSpec
CONSTANTS
    Positions <- MCPositions
    Speeds <- MCSpeeds
    Dts <- MCDts
    Tolerance = 1
    MaxAccel = 1
    StaleTime = 3
    ResyncCount = 3
    MaxTime = 4
INVARIANTS
    ResyncIsConfirmed
PROPERTIES
    SteadyAxisLocks
    KeepsPromise
