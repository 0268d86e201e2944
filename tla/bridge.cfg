SPECIFICATION Spec
CONSTANTS
    Capacity = 2
    Images = {"i1", "i2", "i3"}
    Subscriptions = {"sub1", "sub2"}
    Threads = {1, 2}
    ThreadOf <- OneThread
    Streams = {1, 2}
    StreamOf <- TwoStreams
    MAX_SUB_IMAGES = 2
    Limit = 2
INVARIANTS NoConcurrentAccess HandleMoved
PROPERTY DepositedIsPolled
