CONSTANTS
    d1 = d1
    d2 = d2
    d3 = d3
    Slots <- ThreeSlots
    Degraded <- LastSlot
    MaxSends = 5
    MaxCrashes = 2
    MaxExpiries = 1
SPECIFICATION RequestSpec
INVARIANTS RequestTypeOK OnceInTurn
CHECK_DEADLOCK FALSE
