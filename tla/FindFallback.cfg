SPECIFICATION FairSpec
CONSTANTS
    Slugs = {r1, r2}
    None = none
    MaxMoves = 3
    MaxIssued = 2
PROPERTY FallbackOffered
CHECK_DEADLOCK FALSE
