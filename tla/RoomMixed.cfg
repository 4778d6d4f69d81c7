CONSTANTS
    a = a
    b = b
    q = q
    r1 = r1
    r2 = r2
    None = None
    Interactions <- TwoPolls
    Polls <- TwoPolls
    Req <- TwoRequests
    Degraded <- NoSlot
    Acts <- AllActs
    MaxRequests = 2
    MaxFaults = 1
SPECIFICATION FairSpec
INVARIANTS TypeOK OneActive
PROPERTIES Answered LockKept PollActionsFromSeen
CHECK_DEADLOCK FALSE
