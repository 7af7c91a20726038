SPECIFICATION FairSpec
CONSTANTS
    Slugs = {r1, r2}
    None = none
    MaxMoves = 3
    MaxIssued = 2
INVARIANTS
    NoRoomLeaks
    OnlyThisCall
    CallStatusIsTrue
    GuestIsPolled
PROPERTIES
    ApprovalOnItsPage
    
    CallSettles
CHECK_DEADLOCK FALSE
