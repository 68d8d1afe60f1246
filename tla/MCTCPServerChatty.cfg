SPECIFICATION FairSpec
CONSTANTS
    Socket = {s1}
    MaxConnections = 1
    IdleTicks = 2
CHECK_DEADLOCK FALSE
PROPERTIES
    ShutdownTerminates
