CONSTANTS
    s1 = s1
    s2 = s2
    Records = {s1, s2}
    ChannelSize = 1
    BatchSize = 2
    MaxCarry = 2
    Bodies <- FlatValue
    RelaySize = 1
SPECIFICATION Spec
INVARIANT
    FlatEventsAreRead
CHECK_DEADLOCK FALSE
