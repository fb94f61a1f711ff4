CONSTANTS
    Bindings = {1, 2, 3}
    Weight <- WeightValue
    Priority <- OneTier
    Enabled = {1, 2, 3}
    Callers = {11}
    Strategies = {"swrr"}
    Keys = {}
    Score <- ScoreValue
    None = None
    FailureThreshold = 1
    SuccessThreshold = 1
    Timeout = 1
    CountCap = 1
SPECIFICATION Spec
INVARIANTS
    Smooth
PROPERTY
    NoStarvation
CHECK_DEADLOCK FALSE
