SPECIFICATION FairSpec
CONSTANTS
    Session = session
    Worker = worker
    Nobody = Nobody
    MaxLines <- MCMaxLines
    Record <- MCRecord
    NoRecord = NoRecord
    Cap = 2
PROPERTY EditReturns
CHECK_DEADLOCK FALSE
