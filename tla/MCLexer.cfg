SPECIFICATION FairSpec
CONSTANTS
    Operators <- MCOperators
    Sources <- MCSources
    Mixed = 3
    Lines = 4
    Inner = 4
CHECK_DEADLOCK FALSE
INVARIANTS
    TypeOK
    PositionsTrue
    BlocksFollowLines
    PiecesNest
    DepthCountsBraces
PROPERTIES
    LexingEnds
