CONSTANTS
    Message = {m1, m2}
    Address = {a1, a2, a3}
    NULL = NULL
    OutgoingBufferElement = {e1, e2}
    MAX_OUTGOING_BUFFER_SIZE = 3
    Unfilled = Unfilled
    Uninitialized = Uninitialized
SPECIFICATION Spec
INVARIANTS
    MessageQueueTypeOK
    ListIntact
    OutgoingBufferTypeOK
    IndicesAgree
PROPERTIES
    QueueImplementsFifo
    BufferImplementsFifo
