SPECIFICATION FairSpec
CONSTANTS
    MaxSegments = 2
    MaxAttempts = 1
    MaxTurns = 3
    MaxHolds = 1
    Offered <- Held
PROPERTY GraceResolves
PROPERTY TasksFinish
CHECK_DEADLOCK FALSE
