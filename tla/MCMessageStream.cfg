SPECIFICATION Spec
CONSTANTS
    MaxMessageLength = 2
    MaxText = 5
    Character <- FourCharacters
CHECK_DEADLOCK FALSE
INVARIANTS
    TypeOK
    BufferBounded
    FramingExact
    OverflowContained
