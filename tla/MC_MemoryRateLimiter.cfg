CONSTANTS
    rpm = rpm
    tpm = tpm
    c1 = c1
    c2 = c2
    w1 = w1
    w2 = w2
    w3 = w3
    w4 = w4
    None = None
    RpmBuckets = {rpm}
    TpmBuckets = {tpm}
    Callers = {c1, c2}
    Windows = {w1, w2, w3, w4}
    Limit <- LimitValue
    WindowLength = 2
    Tokens = {1, 2}
    MaxTime = 4
SPECIFICATION Spec
SYMMETRY Symmetry
VIEW View
INVARIANTS
    TypeOK
    HardLimit
    StraysWereCaught
    SoftLimit
CHECK_DEADLOCK FALSE
