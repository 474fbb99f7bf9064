CONSTANTS
    c1 = c1
    c2 = c2
    Client = {c1, c2}
    NULL = NULL
    Option <- Users
    Leaving = {c1}
    Inner <- InnerQuestion
    Unlucky = {c2}
    MaxCuts = 1
    CONNECTION_SOCKET_LIST_MAX_SIZE = 1
    BROKER_RECEIVE_BUFFER_SIZE = 4
    CLIENT_RECEIVE_BUFFER_SIZE = 3
    MAX_OUTGOING_BUFFER_SIZE = 1
    BrokerBuffer = 4
    ClientBuffer = 3
    NotificationBuffer = 1
SPECIFICATION FairSpec
INVARIANTS
    ExecutedAsSent
    ShownAsSent
PROPERTY QuestionsEnd
CHECK_DEADLOCK FALSE
