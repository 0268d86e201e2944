\* Two sockets, one of which may be removed, and queues with room for all
\* that can be outstanding.
SPECIFICATION Spec
CONSTANTS
    NumSlots = 2
    NumBuffers = 1
    Transports = {t1, t2}
    Removable = {t1}
    SqSize = 5
    CqSize = 8
    CQE_BATCH_SIZE = 8
INVARIANTS SlotsAccounted BufferNotLost
PROPERTY StaysReceiving
