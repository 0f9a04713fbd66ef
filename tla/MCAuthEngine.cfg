CONSTANTS
    t1 = t1
    t2 = t2
    d1 = d1
    d2 = d2
    d3 = d3
    r1 = r1
    None = None
    Threads <- TwoThreads
    FreshIds <- TwoIds
    ManifestIds <- ManifestId
    Rooms <- OneRoom
    CamChoices <- TwoCams
    WritesFail = TRUE
    MaxVer = 2
SPECIFICATION FairSpec
ACTION_CONSTRAINT OneKind
INVARIANTS
    SingleAdmin
    CacheMirrors
PROPERTIES
    PromiseKept
    CacheCatchesUp
    RefusedForCause
    NoWideningUnderToken
    WipeIsComplete
