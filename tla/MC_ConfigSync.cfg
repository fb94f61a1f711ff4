CONSTANTS
    MaxEdits = 2
    NoRoutes = {1}
    SilentEdits = TRUE
    ForceAfter = 3
    Absent = Absent
SPECIFICATION Spec
INVARIANTS
    TypeOK
    SeenIsApplied
PROPERTY
    EventuallyCurrent
CHECK_DEADLOCK FALSE
