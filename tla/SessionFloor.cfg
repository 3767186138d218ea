SPECIFICATION Spec
CONSTANTS
    TurnModesOffered = {"continuousConversation", "patientAuto", "manual"}
    DraftsOffered = {}
    Credentials = {k1}
    Contexts = {x1, x2}
    MaxRank = 1
    MaxSegments = 2
    MaxAttempts = 1
    MaxTurns = 2
    MaxHolds = 1
SYMMETRY ContextSymmetry
INVARIANT GraceAndHoldExclude
INVARIANT HistoriesAgree
PROPERTY AutomaticHandOffWasJudged
CHECK_DEADLOCK FALSE
