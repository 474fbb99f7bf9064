CONSTANTS
    Socket = {s1, s2}
    Address = {a1, a2, a3}
    NULL = NULL
    SUBSCRIBER_LIST_MAX_SIZE = 2
    MaxServed = 6
SPECIFICATION Spec
INVARIANTS
    ListIntact
    EveryStayerServed
    NoneServedTwice
PROPERTY ImplementsRoster
CHECK_DEADLOCK FALSE
