CONSTANTS
    NoData = NoData
    none = none
    sa = sa
    sb = sb
    LookedAt = {"screen", "views", "ai", "report", "generator", "signin", "joining"}
    ScreenPolls = {pa}
    ScreenQuizzes = {qz}
    ScreenSlots = {1, 2}
    ScreenBudgets <- ScreenCases
    Writers = {1, 2}
    ViewBudgets <- ViewCases
    Providers = {"openrouter", "gemini"}
    Home = "openrouter"
    Server = "openrouter"
    AiSlots = {1, 2}
    AiBudgets <- AiCases
    ReportSlots = {1, 2, 3}
    ReportBudgets <- ReportCases
    Places = {1, 2}
    GeneratorBudgets <- GeneratorCases
    SignInTabs = {1, 2}
    SignInCalls = {1, 2}
    SignInBudgets <- SignInCases
    JoinTabs = {1, 2}
    Sessions = {sa, sb}
    JoinPosts = {1, 2}
    JoinBudgets <- JoinCases
SPECIFICATION FairSpec
INVARIANTS TypeOK LastWordWins ShownAtRest DialogsAreTrue CreatedOnce SelectedIsListed
PROPERTIES ViewsFollow
CHECK_DEADLOCK FALSE
