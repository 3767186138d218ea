SPECIFICATION Spec
CONSTANTS
    History = 1
    MaxTurns = 2
    MaxAttempts = 2
    DrainRetries = 1
    Offered <- Interrupting
INVARIANT NeverTraps
