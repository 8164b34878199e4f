CONSTANTS
    NoMessage = NoMessage
    MaxPauses = 2
    MaxKills = 1
SPECIFICATION Spec
CHECK_DEADLOCK FALSE
INVARIANTS TypeOK PausesAgree BinaryKept
PROPERTIES BusyEnds
