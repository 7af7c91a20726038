\* One room whose secret is cached: its summary arrives while the silent check is under way.
SPECIFICATION FairSpec
CONSTANTS
    Slugs = {r1}
    NoSlug = noSlug
    NoSecret = noSecret
    NoCall = noCall
    MaxSubmits = 0
    MaxEnded = 0
PROPERTIES
    SuccessUnlocks
