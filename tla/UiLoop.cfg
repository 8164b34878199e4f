SPECIFICATION FairSpec
CONSTANTS
    Session = session
    Worker = worker
    Nobody = Nobody
    MaxLines <- MCMaxLines
    Record <- MCRecord
    NoRecord = NoRecord
    Cap = 2
INVARIANTS TypeOK LinesKept TradesCoverLog BlockedOnlyInCircle
PROPERTIES FreezesOnlyInCircle ImplementsLog FrozenForGood
CHECK_DEADLOCK FALSE
