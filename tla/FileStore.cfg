SPECIFICATION FairFileSpec
CONSTANTS
    Clients = {c1, c2}
    Contents = {x1}
    MaxRevision = 2
INVARIANT ComparedRevisionHolds
PROPERTY SavesReplaceWhatTheySaw
PROPERTY Implements
PROPERTY CallsReturn
