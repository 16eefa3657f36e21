SPECIFICATION FeedbackSpec
CONSTANTS
    States = {0}
    Targets = {0}
    Added = {1}
    Gains = {1}
    Feedthroughs = {1}
    ActLo = 0
    ActHi = 2
    Manuals = {}
    MaxAstray = 0
PROPERTY ErrorOutlivesReset
