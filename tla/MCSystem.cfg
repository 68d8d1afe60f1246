SPECIFICATION FairSpec
CONSTANTS
    Socket = {s1, s2}
    MaxConnections = 1
    IdleTicks = 1
    InitialDelay = 1
    MaxDelay = 0
    MaxAttempts = 0
    AttemptBound = 1
    Pipeline = 1
    None = None
CHECK_DEADLOCK FALSE
INVARIANTS
    TypeOK
    GoodbyeNotRetried
PROPERTIES
    PlaceIsFreed
    PhantomNeedsSilence
