CONSTANTS
    TermLength = 4
    FrameSize = 2
    Reordering = 2
    PollLimits = {1, 8}
    MaxTerm = 1
SPECIFICATION FairSpec

    
PROPERTY CatchesUp
CHECK_DEADLOCK FALSE
