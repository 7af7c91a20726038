SPECIFICATION LobbySpec
CONSTANTS
    Servers = {s1, s2}
    Guests = {g1, g2, g3}
    DecisionsCap = 2
INVARIANT QueueIsUndecided
CHECK_DEADLOCK FALSE
