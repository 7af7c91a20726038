\* The old socket of a session closes after its new one connected.
SPECIFICATION Spec
VIEW View
SYMMETRY Symmetry
CONSTANTS
    Sessions = {s1, s2}
    Sockets = {k1, k2, k3}
    QualityCaps = {"balanced"}
    Capacity = 2
    MaxChat = 2
    NoSession = NoSession
    NoSocket = NoSocket
    NoSettings = NoSettings
INVARIANTS
    BothOffered
