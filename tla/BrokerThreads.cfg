CONSTANTS
    Topics = {news, updates}
    Main = Main
    Consumer = Consumer
    None = None
    MAX_OUTGOING_BUFFER_SIZE = 2
    MaxAccepted = 2
SPECIFICATION Spec
INVARIANTS
    BrokerThreadsTypeOK
    PipelineConservesOrder
    BufferUsedWithinBounds
    SleepingProducerHasNoWork
    SleepingConsumerHasNoWork
    FreeSlotHasATaker
PROPERTY ImplementsTopicLog
CHECK_DEADLOCK FALSE
