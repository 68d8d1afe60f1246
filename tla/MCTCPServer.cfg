SPECIFICATION FairSpec
CONSTANTS
    Socket = {s1, s2, s3}
    MaxConnections = 2
    IdleTicks = 1
CHECK_DEADLOCK FALSE
INVARIANTS
    TypeOK
    RegistriesAgree
    NoForceClose
    CleanExit
PROPERTIES
    NoAdmissionWhileDraining
    ImplementsDrain
    SilentClientEvicted
    DrainCompletes
