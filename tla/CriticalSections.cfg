CONSTANT TOPICS_NUM = 1
SPECIFICATION FairSpec
INVARIANTS
    NoCircularWait
    NothingHeldWhileBlocked
PROPERTY EveryEntryIsGranted
CHECK_DEADLOCK FALSE
