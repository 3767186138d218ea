SPECIFICATION Spec
CONSTANTS
    History = 0
    MaxTurns = 2
    MaxAttempts = 1
    DrainRetries = 1
    Offered <- Output
INVARIANT TypeOK
INVARIANT SoundHasOwner
INVARIANT ActiveAttemptsAreOwned
INVARIANT ReadyHasAudio
PROPERTY SpeaksNewTurnsInOrder
PROPERTY OperationIsNeverReplaced
