SPECIFICATION Spec
CONSTANTS
    MaxSegments = 2
    MaxAttempts = 2
    MaxTurns = 3
    MaxHolds = 1
    Offered <- Conversation
INVARIANT HotMicrophoneIsOwned
INVARIANT InFlightWorkIsOwned
INVARIANT FloorIsHeard
CHECK_DEADLOCK FALSE
