CONSTANTS
    MaxEdits = 2
    NoRoutes = {}
    SilentEdits = FALSE
    ForceAfter = 3
    Absent = Absent
SPECIFICATION Spec
PROPERTY
    FilesAreFollowed
CHECK_DEADLOCK FALSE
