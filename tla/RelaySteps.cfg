SPECIFICATION FairSpec
CONSTANTS
    i1 = i1
    i2 = i2
    i3 = i3
    none = none
    NoInstr = none
    Ids <- MCStepIds
    StepsOf <- MCStepSteps
    QueueCap = 1
    MaxConsecutive = 2
    SigFailThreshold = 1
INVARIANTS
    TypeOK
    RequestsInOrder
    RepliesHonest
PROPERTIES
    TripsOnStreak
    StopTerminates
    ResultFollows
    KeepsDialing
