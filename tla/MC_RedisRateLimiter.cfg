CONSTANTS
    rpm = rpm
    tpm = tpm
    c1 = c1
    c2 = c2
    RpmBuckets = {rpm}
    TpmBuckets = {tpm}
    Limit <- LimitValue
    Window = 3
    Grace = 3
    Callers = {c1, c2}
    Ahead <- AheadValue
    Skew = 1
    MaxDelay = 1
    Tokens = {1, 2}
    None = None
    MaxTime = 6
    MaxCalls = 3
SPECIFICATION Spec
VIEW View
INVARIANTS
    TypeOK
    HardLimit
PROPERTY
    KeepsPromise
CHECK_DEADLOCK FALSE
