SPECIFICATION FairSpec
CONSTANTS
    InitialDocument <- Board
    Shapes = {"rectangle", "arrow"}
    MaxActs = 3
    MaxElements = 3
    Offered <- Operations
CHECK_DEADLOCK FALSE
INVARIANT TypeOK
INVARIANT NoEditIsLeftBehind
INVARIANT SettledCanvasShowsBoard
PROPERTY IdentityIsStable
PROPERTY EditsReachBoard
