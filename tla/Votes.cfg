CONSTANTS
    ann = ann
    bob = bob
    r1 = r1
    r2 = r2
    FlushA = FlushA
    FlushB = FlushB
    None = None
    Participants <- TwoVoters
    Req <- TwoRequests
    Degraded <- Slot2
    MaxVotes = 2
    MaxCrashes = 1
SPECIFICATION FairSpec
INVARIANTS TypeOK CrashCostsOneVote
PROPERTIES QueueDrains
CHECK_DEADLOCK FALSE
