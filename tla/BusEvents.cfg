CONSTANTS
    p1 = p1
    p2 = p2
    c1 = c1
    c2 = c2
    NoProc = NoProc
    Procs <- BothProcs
    MayDegrade <- LastProc
    Clients <- BothClients
    Audiences <- Everybody
    MaxEvents = 2
    MaxFaults = 1
SPECIFICATION FairSpec
INVARIANTS TypeOK NothingLost SameLastEvent
PROPERTIES Delivered
CHECK_DEADLOCK FALSE
