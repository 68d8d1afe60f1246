SPECIFICATION Spec
CONSTANTS
    MaxMessageLength = 4
    MaxLines = 1
    Line <- SomeLines
CHECK_DEADLOCK FALSE
INVARIANTS
    ChunksAreHarmless
