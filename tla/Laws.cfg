SPECIFICATION MCSpec
CONSTANTS
    Kp = 1
    Ki = 2
    Db = 2
    DaNum = 1
    DaDen = 2
    KwNum = 1
    KwDen = 2
    B = 1
    C = 0
    ULo <- MCNeg2
    UHi = 4
    ILo <- MCNeg60
    IHi = 5
    PLo <- MCNeg1
    PHi = 3
    Refs <- MCRefs
    Meas <- MCMeas
    Tracks <- MCTracks
    Forwards <- MCForwards
    States <- MCStates
    Targets <- MCTargets
    Gains <- MCGains
    Feedthroughs <- MCFeedthroughs
    MaxAstray = 2
    Added <- MCAdded
    ActLo <- MCNeg2
    ActHi = 2
    Manuals <- MCManuals
    Boxes <- MCBoxes
    Moves <- MCMoves
INVARIANTS
    WindupBounded
    IntegralBounded
PROPERTIES
    Bumpless
    ChargedOnce
    IntegralIsTrue
    MovesAreBounded
