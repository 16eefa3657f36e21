SPECIFICATION TSpec
CONSTANTS
    Positions = {0}
    Speeds = {0}
    Dts = {1}
    Tolerance = 1
    MaxAccel = 1
    StaleTime = 3
    ResyncCount = 3
    MaxTime = 12
    Kp = 1
    Ki = 1
    Velocity = 1
    Glitches = {100, 103}
    MaxPeriod = 2
    MaxNow = 12
INVARIANT TrackerUndisturbed
