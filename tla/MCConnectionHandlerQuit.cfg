SPECIFICATION Spec
CONSTANTS
    MaxMessageLength = 2
    MaxText = 4
    Window = 1
    IdleTicks = 1
    Character <- ThreeCharacters
CHECK_DEADLOCK FALSE
INVARIANTS
    QuitIsGraceful
