CONSTANTS
    a = a
    b = b
    c = c
    NoQuestion = NoQuestion
    NoData = NoData
    Questions <- ThreeQuestions
    FirstVotes <- Votes
    ModerationCases <- OneCluster
SPECIFICATION Spec
INVARIANTS VotesCountOnce
CHECK_DEADLOCK FALSE
