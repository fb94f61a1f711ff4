CONSTANTS
    r1 = r1
    r2 = r2
    Requests = {r1, r2}
    Bindings = {1, 2}
    Priority <- PriorityValue
    Snapshots = {{1, 2}, {2}}
    Providers = {{1}}
    RpmLimits = {"key", "model", "primary"}
    TpmLimits = {"key", "model", "primary"}
    MaxRetries = 2
    MaxReloads = 1
    None = None
    FailureThreshold = 1
    SuccessThreshold = 1
    Timeout = 1
    CountCap = 1
SPECIFICATION Spec
SYMMETRY Symmetry
INVARIANTS
    TypeOK
    OneRecord
    OneReportPerPost
    ChargedWhereServed
    DenialSparesShared
    SpilloverHolds
PROPERTY
    NeverResentAfterSuccess
    EveryRequestEnds
CHECK_DEADLOCK FALSE
