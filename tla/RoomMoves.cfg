CONSTANTS
    a = a
    b = b
    q = q
    r1 = r1
    r2 = r2
    None = None
    Interactions <- TwoPolls
    Polls <- TwoPolls
    Req <- TwoRequests
    Degraded <- Slot1
    Acts <- MoveActs
    MaxRequests = 4
    MaxFaults = 1
SPECIFICATION Spec
PROPERTIES RoomSpec
CHECK_DEADLOCK FALSE
