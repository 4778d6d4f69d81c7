CONSTANTS
    NoData = NoData
    none = none
    pa = pa
    pz = pz
    wb = wb
    q1 = q1
    q2 = q2
    q3 = q3
    LookedAt = {"moderation", "workbench", "builder", "clouds"}
    Questions = {q1, q2, q3}
    FirstVotes <- Votes
    ModerationCases <- ModerationInstances
    Polls = {pa, pz}
    Boards = {wb}
    Calls = {1, 2}
    WorkbenchCases <- BenchInstances
    Texts = {q1, q2}
    Blank = blank
    FirstOptions = {{q1}, {q1, q2}}
    Puts = {1, 2}
    SaveButton = button
    CoHost = cohost
    BuilderBudgets <- BuilderCases
    Words = {q1, q2, q3}
    Groupings <- CloudGroupings
    Voters = {1, 2}
    CloudBudgets <- CloudCases
SPECIFICATION FairSpec
INVARIANTS TypeOK HostAtRest VotesAddUp HostsChoiceKept
PROPERTIES FormKept HostFollows
CHECK_DEADLOCK FALSE
