CONSTANTS
    a = a
    b = b
    NoTarget = NoTarget
    Targets <- TwoTargets
    MaxChanges = 3
    MaxWakes = 1
    MaxLosses = 1
    MaxSockets = 9
SPECIFICATION FairSpec
INVARIANTS TypeOK ConnectedAtRest OneSocket
PROPERTIES Reconnects
CHECK_DEADLOCK FALSE
