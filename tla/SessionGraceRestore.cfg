SPECIFICATION Spec
CONSTANTS
    TurnModesOffered = {"continuousConversation"}
    DraftsOffered = {"unsaved"}
    Credentials = {k1}
    Contexts = {x1}
    MaxRank = 1
    MaxSegments = 2
    MaxAttempts = 2
    MaxTurns = 2
    MaxHolds = 1
INVARIANT PendingGraceIsCurrent
CHECK_DEADLOCK FALSE
