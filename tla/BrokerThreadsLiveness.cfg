CONSTANTS
    Topics = {news, updates}
    Main = Main
    Consumer = Consumer
    None = None
    MAX_OUTGOING_BUFFER_SIZE = 1
    MaxAccepted = 1
SPECIFICATION FairSpec
PROPERTIES
    EverythingForwarded
    MainKeepsServing
    ShutDownReachesEveryThread
CHECK_DEADLOCK FALSE
