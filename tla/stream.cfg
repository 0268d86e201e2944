\* Two terms, frames of one MTU, a network that reorders and loses one datagram.
SPECIFICATION Spec
CONSTANTS
    TermLength = 2
    FrameLength = 1
    Mtu = 1
    ReceiverWindow = 1
    NumSlots = 2
    MaxActions = 1
    MaxHousekeeping = 1
    Reorders = TRUE
    MaxLosses = 1
    MaxPosition = 4
    MaxInFlight = 2
INVARIANTS  LimitGranted  
PROPERTY NakRepairs
