SPECIFICATION Spec
CONSTANTS
    MaxMessageLength = 4
    MaxLines = 3
    Line <- SomeLines
CHECK_DEADLOCK FALSE
INVARIANTS
    TypeOK
    RepliesFollowRequests
    EchoIntact
    QuitUnderstood
    OnlyLongRepliesKill
