CONSTANTS
    s1 = s1
    s2 = s2
    Records = {s1, s2}
    ChannelSize = 1
    BatchSize = 2
    MaxCarry = 2
    Bodies <- BodiesValue
    RelaySize = 1
SPECIFICATION FairSpec
INVARIANTS
    TypeOK
    AnyCutReadsTheSame
    ClientIsTold
    RecordsAreKept
PROPERTY
    ShutdownEnds
CHECK_DEADLOCK FALSE
