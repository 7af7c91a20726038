\* Three sessions for the two seats of a 1:1 room, three sockets.
SPECIFICATION Spec
VIEW View
SYMMETRY Symmetry
CONSTANTS
    Sessions = {s1, s2, s3}
    Sockets = {k1, k2, k3}
    QualityCaps = {"balanced"}
    Capacity = 2
    MaxChat = 2
    NoSession = NoSession
    NoSocket = NoSocket
    NoSettings = NoSettings
INVARIANTS
    HubInv
    SummaryCurrent
    ChatExactlyOnce
