\* One room of two seats with the removal route registered; awaiting handlers overlap.
SPECIFICATION Spec
VIEW View
SYMMETRY Symmetry
CONSTANTS
    Slugs = {r1}
    Clients = {c1, c2}
    Passcodes = {p1, p2}
    NoPasscode = NoPasscode
    RoomSizes = {2}
    QualityCaps = {"balanced"}
    MaxSessions = 3
    MaxRequests = 1
    ROOM_TTL = 2
    RECONNECT_WINDOW = 1
    LOBBY_REQUEST_TTL = 1
    CLEANUP_INTERVAL = 2
    RemovalRegistered = TRUE
INVARIANTS
    SeatLimit
    PasscodeRoomHasHash
PROPERTIES
    LobbyGate
    ImplementsSeating
