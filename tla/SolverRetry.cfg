SPECIFICATION SolverSpec
CONSTANTS
    SolveSpans = {7}
    Steps = {2}
    MinSteps = {2}
    MaxSteps = {7}
    FirstSteps = {7}
    FailOnMinStep = {TRUE}
    MaxFactor = 2
    MaxNfev = 7
    MaxRejections = 3
    Crossings <- MCOneCrossing
INVARIANT RetryIsSmaller
