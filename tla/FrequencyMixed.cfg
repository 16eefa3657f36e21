SPECIFICATION Spec
CONSTANTS
    NFreq = 2
    Indices = {0, 1}
    BlockSizes = {1, 2}
    Counts = {1, 2}
    Settles = {0}
INVARIANT SequentialAverage
