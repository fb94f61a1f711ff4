CONSTANTS
    Bindings = {1, 2, 3, 4}
    Weight <- WeightValue
    Priority <- TwoTiers
    Enabled = {1, 2, 3}
    Callers = {11, 12}
    Strategies = {"swrr", "weighted_hash"}
    Keys = {"k1", "k2"}
    Score <- ScoreValue
    None = None
    FailureThreshold = 1
    SuccessThreshold = 1
    Timeout = 1
    CountCap = 1
SPECIFICATION Spec
VIEW View
INVARIANTS
    TypeOK
    Balanced
    TierPreference
    StickyKeys
CHECK_DEADLOCK FALSE
