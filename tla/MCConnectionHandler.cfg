SPECIFICATION ReadingClientSpec
CONSTANTS
    MaxMessageLength = 2
    MaxText = 5
    Window = 1
    IdleTicks = 1
    Character <- ThreeCharacters
CHECK_DEADLOCK FALSE
INVARIANTS
    TypeOK
    AnswersFollowRequests
    FarewellIsLast
    CountersMatch
    InfoIsConsistent
PROPERTIES
    ConnectionCloses
    GoodbyeArrives
