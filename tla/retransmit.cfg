SPECIFICATION Spec
CONSTANTS
    Ranges = {r1, r2, r3}
    MAX_RETRANSMIT_ACTIONS = 2
    delay_ns = 1
    linger_ns = 2
    Width = 24
    MaxPause = 2
INVARIANTS Coalesced
PROPERTIES RetransmitsSpaced NakCompletes
