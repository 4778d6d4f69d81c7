CONSTANTS
    a = a
    b = b
    q = q
    r1 = r1
    r2 = r2
    None = None
    Interactions <- TwoPollsAndQa
    Polls <- TwoPolls
    Req <- OneRequest
    Degraded <- NoSlot
    Acts <- SequentialActs
    MaxRequests = 4
    MaxFaults = 0
SPECIFICATION Spec
INVARIANTS AnnouncedWhenQuiet
CHECK_DEADLOCK FALSE
