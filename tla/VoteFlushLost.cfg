CONSTANTS
    ann = ann
    bob = bob
    r1 = r1
    r2 = r2
    FlushA = FlushA
    FlushB = FlushB
    None = None
    Participants <- TwoVoters
    Req <- OneRequest
    Degraded <- NoSlot
    MaxVotes = 2
    MaxCrashes = 0
SPECIFICATION Spec
INVARIANTS PendingIsQueued
CHECK_DEADLOCK FALSE
