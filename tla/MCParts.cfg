\* Two clients, two servers, one key, one room, one address.
SPECIFICATION PartsSpec
CONSTANTS
    Caller = a
    Callee = b
    MaxCandidates = 2
    JoinChoices <- MCChoices
    Caps = {"low", "high"}
    MaxActs = 5
    Servers = {s1, s2}
    Window = 2
    Threshold = 2
    CoolingTime = 1
    MaxClock = 3
    MaxMisses = 3
    Writers = {s1, s2, s3}
    Entries = {e1, e2}
    Capacity = 2
    CreateBodies <- MCCreateBodies
    WINDOW_MS = 3
    CREATE_THRESHOLD = 2
    COOLDOWN_MS = 2
    MaxHashing = 2
    MaxTicks = 8
INVARIANTS
    CandidatesSafe
    FailureIsReal
    LadderPaced
    NotNagged
    RungWithinCap
    ThresholdLocks
    ValidatedSound
PROPERTIES
    ReadyOfferSettles
    LadderSettles
    ImplementsBuffer
    CreationsLimited
CHECK_DEADLOCK FALSE
