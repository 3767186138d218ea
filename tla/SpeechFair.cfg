SPECIFICATION FairSpec
CONSTANTS
    History = 0
    MaxTurns = 2
    MaxAttempts = 1
    DrainRetries = 1
    Offered <- Voices
PROPERTY CyclesEnd
PROPERTY QueueEmpties
CHECK_DEADLOCK FALSE
