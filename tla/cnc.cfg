\* Two receivers and a region of 8 units, in which a record of 3 leaves a pad at
\* every wrap; two starts of the driver with two client processes.
SPECIFICATION MCSpec
CONSTANTS
    Receivers = {r1, r2}
    Capacity = 8
    RecordSizes = {3}
    MaxTail = 20
    Clients = {p1, p2}
    Capacities = {1, 2}
    MaxStarts = 2
INVARIANTS  MappedWhole
PROPERTY ReadyIsMapped
CHECK_DEADLOCK FALSE
