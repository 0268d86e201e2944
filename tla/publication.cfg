\* Six terms over four partitions, frames of a half and of a whole term.
CONSTANTS
    TermLength = 2
    FrameSizes = {1, 2}
    ScanLimits = {1, 2}
    MaxTerm = 5
    Boundaries = {0, 1, 2}
SPECIFICATION FlushSpec
INVARIANTS
    NeverLapped
    EmitsPublishedFrame
    IInv
    UnflushedKept
PROPERTIES
    IsAtomic
    AllOfferedScanned
CHECK_DEADLOCK FALSE
