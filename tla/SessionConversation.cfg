SPECIFICATION Spec
CONSTANTS
    TurnModesOffered = {"manual"}
    DraftsOffered = {"unsaved"}
    Credentials = {k1}
    Contexts = {}
    MaxRank = 2
    MaxSegments = 2
    MaxAttempts = 2
    MaxTurns = 4
    MaxHolds = 0
INVARIANT TypeOK
INVARIANT EffectsAreSingleFlight
INVARIANT ConversationIsOrdered
INVARIANT SpeechIsCommittedOnce
PROPERTY ConversationOnlyGrows
PROPERTY SelectionNeverDegrades
CHECK_DEADLOCK FALSE
