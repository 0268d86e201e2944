\* Two producers; records that leave a pad at every wrap of the region.
CONSTANTS
    Producers = {p1, p2}
    Capacity = 8
    RecordSizes = {3}
    MsgTypes = {1}
    MaxTail = 14
SPECIFICATION FairSpec
INVARIANTS
    ClaimsExclusive
    
    FullMeansUnread
PROPERTY ClaimedIsRead
CHECK_DEADLOCK FALSE
