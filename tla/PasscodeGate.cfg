\* Two rooms; joins and settings updates overlap at their awaits.
SPECIFICATION Spec
VIEW View
SYMMETRY Symmetry
CONSTANTS
    WINDOW = 2
    THRESHOLD = 2
    COOLDOWN = 2
    Ips = {i1}
    Slugs = {r1, r2}
    Clients = {c1, c2}
    Hosts = {h1}
    Passcodes = {p1, p2}
    NoPasscode = NoPasscode
INVARIANTS
    NoFreeGuess
PROPERTIES
    CooldownStands
    CooldownIsEarned
