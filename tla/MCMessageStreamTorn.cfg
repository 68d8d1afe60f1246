SPECIFICATION Spec
CONSTANTS
    MaxMessageLength = 2
    MaxText = 4
    Character <- FourCharacters
CHECK_DEADLOCK FALSE
INVARIANTS
    ChunkingInvisible
