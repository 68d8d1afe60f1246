SPECIFICATION Spec
CONSTANTS
    InitialDelay = 1
    MaxDelay = 5
    MaxAttempts = 0
    AttemptBound = 4
CHECK_DEADLOCK FALSE
PROPERTIES
    ReconnectDoesNotQuit
