CONSTANTS
    Notification = {published, subscribed}
    MISSING = MISSING
    EMPTY = EMPTY
    MaxTold = 4
    MaxStarts = 2
SPECIFICATION FairSpec
INVARIANTS
    TotalsConserved
    CountsExact
    NothingCountedTwice
PROPERTY CountsLeaveMemory
CHECK_DEADLOCK FALSE
