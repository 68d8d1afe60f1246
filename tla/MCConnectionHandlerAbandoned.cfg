SPECIFICATION AnyClientSpec
CONSTANTS
    MaxMessageLength = 2
    MaxText = 2
    Window = 1
    IdleTicks = 1
    Character <- ThreeCharacters
CHECK_DEADLOCK FALSE
PROPERTIES
    AbandonedConnectionCloses
