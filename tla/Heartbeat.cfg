\* A window of three ping intervals, a tick every two units of time.
SPECIFICATION FairSpec
CONSTANTS
    PING_INTERVAL = 2
    RECONNECT_WINDOW = 6
    CLEANUP_INTERVAL = 2
    MaxUpdates = 3
    MaxSends = 2
INVARIANTS
    ConnectedIsHeard
PROPERTIES
    ReapedForSilence
    GhostsAreTold
