SPECIFICATION Spec
CONSTANTS
    i1 = i1
    i2 = i2
    i3 = i3
    none = none
    NoInstr = none
    Ids <- MCQueueIds
    StepsOf <- MCQueueSteps
    QueueCap = 1
    MaxConsecutive = 2
    SigFailThreshold = 2
SYMMETRY MCQueueSymmetry
INVARIANTS
    PauseBounded
PROPERTIES
    ImplementsLife
