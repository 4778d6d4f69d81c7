CONSTANTS
    NoData = NoData
    none = none
    h1 = h1
    h2 = h2
    LookedAt = {"page", "voting", "survey", "quiz", "forms", "counts"}
    PagePolls = {a}
    PageOthers = {qa}
    PageHosts = {h1, h2}
    PageBudgets <- PageCases
    VotedQuestions = {q1, q2}
    VoteSlots = {1, 2}
    VoteBudgets <- VoteCases
    AllSurveys = {1, 2}
    NoSurvey = 0
    Edited = 1
    SurveyNumbers = {1, 2}
    SurveyPosts = {1, 2}
    SurveyBudgets <- SurveyCases
    QuizQuestions = {1, 2}
    QuizCalls = {1, 2}
    QuizBudgets <- QuizCases
    FormPolls = {"single", "multi", "rating", "rated", "ranking", "ranked", "words", "cloud", "text"}
    FormKind <- KindOf
    FormWidth <- WidthOf
    MaxSubmissions = 2
    FormBudgets <- FormCases
    Voters = {1, 2}
    Options = {1, 2}
    Answers = {{1}, {2}, {1, 2}}
    AllowChange = TRUE
    Slots = {h1, h2}
    Degraded = {}
    MaxSubmits = 2
    MaxMoves = 3
    MaxCrashes = 1
    MaxExpiries = 1
SPECIFICATION FairSpec
INVARIANTS TypeOK ShownAtRest NoticesAreTrue AnswersAreMeant OneRuns CountsFollow
PROPERTIES PagesFollow
CHECK_DEADLOCK FALSE
