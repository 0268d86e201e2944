\* Two publications with two send slots; on the side of the receiver two
\* pending messages of one kind, and a slot for every message pending.
SPECIFICATION MCSpec
CONSTANTS
    Pubs = {1, 2}
    SessionOf <- Sessions
    StreamOf <- OneStream
    Receivers = {1, 2}
    ReceiverOf <- OwnReceiver
    TermLength = 1
    ReceiverWindow = 1
    NumSlots = 2
    Timers = {"setup", "heartbeat"}
    MAX_RECENT = 1
    duty_cycle_ratio = 1
    MaxPosition = 2
    MaxInbox = 1
    MaxFailures = 0
    Messages = {m1, m2}
    MAX_PENDING_SM = 2
    MAX_PENDING_NAK = 1
    MAX_PENDING_RTTM = 1
    ReceiverSlots = 4
INVARIANTS  LimitOwn
PROPERTIES QueuedIsSent 
