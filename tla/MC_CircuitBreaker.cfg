CONSTANTS
    t1 = t1
    t2 = t2
    t3 = t3
    Threads = {t1, t2, t3}
    Operators = {t1}
    FailureThreshold = 2
    SuccessThreshold = 2
    Timeout = 1
    CountCap = 2
    MaxTime = 3
    None = None
SPECIFICATION HSpec
SYMMETRY Symmetry
VIEW View
INVARIANTS
    TypeOK
    NoLostOpening
    NoLostClosing
    NoLostProbeFailure
PROPERTIES
    ProbesWait
    SoloCallsAreAtomic
CHECK_DEADLOCK FALSE
