CONSTANTS
    Unset = Unset
    None = None
    Failed = Failed
    U32Max = 1000000
    Files <- FilesValue
    Databases <- DatabasesValue
    Requests = {r1, r2}
    Targets <- TargetsValue
    MaxReloads = 2
SPECIFICATION Spec
SYMMETRY Symmetry

INVARIANT
    StoredIsFoundAgain
CHECK_DEADLOCK FALSE
