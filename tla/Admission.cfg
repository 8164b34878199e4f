CONSTANTS
    a = a
    b = b
    c = c
    empty = empty
    Ids <- MCIds
    EmptyId = empty
    MaxSize = 2
    TTL = 4
    PerMinute = 1
    Window = 2
    SigFailThreshold = 2
    MaxConsecutive = 2
    Cooldown = 2
    MaxAge = 1
    MaxAhead = 1
    Drift = 1
    SentAt <- MCSentAt
    MaxTime = 4
    MaxMessages = 3
    MaxEvents = 5
SYMMETRY MCSymmetry
SPECIFICATION Spec
INVARIANTS
    TypeOK
    ForgottenOnlyByOverflow
    NeverOverLimit
    BurstDisconnects
    StreakTrips
PROPERTIES
    DeniedOnlyWhenFull
    PassesOnce
