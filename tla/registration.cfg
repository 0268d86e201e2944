SPECIFICATION Spec
CONSTANTS
    MAX_CMDS_PER_CYCLE = 2
    MAX_CLIENTS = 1
    INTERNAL_QUEUE_CAPACITY = 1
    Clients = {"c1"}
    Threads = {"t1"}
    ThreadOf <- OneThread
    Channels = {"uri", "long uri", "bad uri"}
    Streams = {10}
    RingCapacity = 2
    BRIDGE_CAPACITY = 1
    ClientsOutlive = FALSE
    MaxCalls = 2
    MaxFailures = 1
INVARIANTS  HandleOnce 
PROPERTIES OkIsServed CloseReturns
CHECK_DEADLOCK FALSE
