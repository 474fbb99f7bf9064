CONSTANTS
    c1 = c1
    c2 = c2
    Connection = {c1, c2}
    Handle = {h1}
    INVALID_SOCKET = INVALID_SOCKET
    NULL = NULL
    Main = Main
    TOPICS_NUM = 1
    Command <- DeliveryCommands
    MaxSent <- TwoEach
    SUBSCRIBER_LIST_MAX_SIZE = 1
    CONNECTION_SOCKET_LIST_MAX_SIZE = 2
SPECIFICATION Spec
SYMMETRY Interchangeable
INVARIANT NeverMisdirected
CHECK_DEADLOCK FALSE
