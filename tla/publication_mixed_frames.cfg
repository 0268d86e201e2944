\* Frames of one and three units: a term can be left at offset 2 while the
\* sender is at offset 3 of the term whose partition is cleaned.
CONSTANTS
    TermLength = 4
    FrameSizes = {1, 3}
    ScanLimits = {4}
    MaxTerm = 4
SPECIFICATION Spec
INVARIANT NeverLapped
CHECK_DEADLOCK FALSE
