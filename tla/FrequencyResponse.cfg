SPECIFICATION OneModeSpec
CONSTANTS
    NFreq = 2
    Indices = {0, 1, 2}
    BlockSizes = {0, 2}
    Counts = {0, 1, 2}
    Settles = {1}
INVARIANTS
    SequentialAverage
