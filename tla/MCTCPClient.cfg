SPECIFICATION FairSpec
CONSTANTS
    InitialDelay = 1
    MaxDelay = 5
    MaxAttempts = 0
    AttemptBound = 4
CHECK_DEADLOCK FALSE
INVARIANTS
    TypeOK
    SingleChain
    FreshBuffer
    ConnectedSocket
PROPERTIES
    QuitIsFinal
    LossIsRetried
    BackoffGrows
