\* One room: requests queue and are decided, sessions fall silent and ping again.
SPECIFICATION Spec
VIEW View

CONSTANTS
    Slugs = {r1}
    Clients = {c1}
    Passcodes = {p1}
    NoPasscode = NoPasscode
    RoomSizes = {2}
    QualityCaps = {"balanced"}
    MaxSessions = 2
    MaxRequests = 2
    ROOM_TTL = 5
    RECONNECT_WINDOW = 3
    LOBBY_REQUEST_TTL = 3
    CLEANUP_INTERVAL = 2
    RemovalRegistered = FALSE
INVARIANTS
    TimedOutHoldsNoSeat
    DeadlinesKept
PROPERTIES
    OneSeatPerRequest
    
    RoomsOutliveActivity
