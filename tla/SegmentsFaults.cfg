SPECIFICATION Spec
CONSTANTS
    MaxSegments = 1
    MaxAttempts = 1
    MaxTurns = 3
    MaxHolds = 1
    Offered <- Everything
INVARIANT TypeOK
INVARIANT MicrophoneIsAuthorized
INVARIANT RecordedSpeechIsKept
PROPERTY ResumeSettles
CHECK_DEADLOCK FALSE
