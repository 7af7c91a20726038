SPECIFICATION FairSpec
CONSTANTS
    Slugs = {r1, r2}
    NoSlug = noSlug
    NoSecret = noSecret
    NoCall = noCall
    MaxSubmits = 1
    MaxEnded = 1
INVARIANTS
    SecretsVouched
PROPERTIES
    KeptUnlessRefused
    SubmissionEnds
