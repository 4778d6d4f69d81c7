-------------------------- MODULE ParticipantPages ---------------------------
(* The participant's side.  The room page, the Q&A panel, the survey panel, the     *)
(* quiz, the answer forms and the counting of answers each have state of their     *)
(* own: a behaviour follows one of them, and the properties are stated for all.    *)
EXTENDS Naturals, Sequences, FiniteSets

CONSTANTS
    NoData, none,          \* nothing cached; no poll, no question
    LookedAt,              \* the parts that are followed
    PagePolls, PageOthers, PageHosts, PageBudgets,                         \* the room page
    VotedQuestions, VoteSlots, VoteBudgets,                                \* the Q&A panel
    AllSurveys, NoSurvey, Edited, SurveyNumbers, SurveyPosts, SurveyBudgets, \* surveys
    QuizQuestions, QuizCalls, QuizBudgets,                                 \* the quiz
    FormPolls, FormKind, FormWidth, MaxSubmissions, FormBudgets,           \* answer forms
    Voters, Options, Answers, AllowChange, Slots, Degraded,                \* counting
    MaxSubmits, MaxMoves, MaxCrashes, MaxExpiries

VARIABLES
    part,  \* the part that is looked at: the other parts have no state then
    board, ended, answeredPage, outbox, opening, connected, direct, relay, stateQ, pollQ,
    known, synced, tab, over, sub, ok, okFor, blind, strayed, budget,
    public, cast, others, due, list, votingId, req, asking, doubt, leftVoting,
    active, asked, sent, shown, lists, answers, submitOkSurvey, postSurvey, draft, adding,
    views, carriedSurvey, leftSurvey,
    rowQuiz, answeredQuiz, callQuiz, host, pending, join, submitOkQuiz, postQuiz, screen,
    inbox, crossed, late, leftQuiz,
    run, stored, page, cached, mine, marks, order, held, callForms, carriedForms, entered,
    leftForms,
    status, rowCounts, agg, fields, ttl, hooks, pc, voter, answer, old, minus, plus, met,
    submits, moves, crashes, expiries

P == INSTANCE ParticipantPage WITH
    Polls <- PagePolls, Others <- PageOthers, Hosts <- PageHosts, NoItem <- none,
    Budgets <- PageBudgets, answered <- answeredPage
V == INSTANCE QaVoting WITH
    Questions <- VotedQuestions, NoQuestion <- none, Slots <- VoteSlots, left <- leftVoting
S == INSTANCE Surveys WITH
    Numbers <- SurveyNumbers, Posts <- SurveyPosts, submitOk <- submitOkSurvey,
    post <- postSurvey, carried <- carriedSurvey, left <- leftSurvey
Z == INSTANCE QuizPlay WITH
    Questions <- QuizQuestions, NoQuestion <- none, Calls <- QuizCalls, row <- rowQuiz,
    answered <- answeredQuiz, call <- callQuiz, submitOk <- submitOkQuiz,
    post <- postQuiz, left <- leftQuiz
F == INSTANCE AnswerForms WITH
    Polls <- FormPolls, KindOf <- FormKind, Width <- FormWidth, NoPoll <- none,
    call <- callForms, carried <- carriedForms, left <- leftForms
R == INSTANCE PollResponses WITH row <- rowCounts

Parts == {"page", "voting", "survey", "quiz", "forms", "counts"}
varsP == <<board, ended, answeredPage, outbox, opening, connected, direct, relay, stateQ,
           pollQ, known, synced, tab, over, sub, ok, okFor, blind, strayed, budget>>
varsV == <<public, cast, others, due, list, votingId, req, asking, doubt, leftVoting>>
varsS == <<active, asked, sent, shown, lists, answers, submitOkSurvey, postSurvey, draft,
           adding, views, carriedSurvey, leftSurvey>>
varsZ == <<rowQuiz, answeredQuiz, callQuiz, host, pending, join, submitOkQuiz, postQuiz,
           screen, inbox, crossed, late, leftQuiz>>
varsF == <<run, stored, page, cached, mine, marks, order, held, callForms, carriedForms,
           entered, leftForms>>
varsR == <<status, rowCounts, agg, fields, ttl, hooks, pc, voter, answer, old, minus,
           plus, met, submits, moves, crashes, expiries>>
vars  == <<part, varsP, varsV, varsS, varsZ, varsF, varsR>>

NoP == board = NoData /\ ended = NoData /\ answeredPage = NoData /\ outbox = NoData /\
        opening = NoData /\ connected = NoData /\ direct = NoData /\ relay = NoData /\
        stateQ = NoData /\ pollQ = NoData /\ known = NoData /\ synced = NoData /\
        tab = NoData /\ over = NoData /\ sub = NoData /\ ok = NoData /\ okFor = NoData /\
        blind = NoData /\ strayed = NoData /\ budget = NoData
NoV == public = NoData /\ cast = NoData /\ others = NoData /\ due = NoData /\
        list = NoData /\ votingId = NoData /\ req = NoData /\ asking = NoData /\
        doubt = NoData /\ leftVoting = NoData
NoS == active = NoData /\ asked = NoData /\ sent = NoData /\ shown = NoData /\
        lists = NoData /\ answers = NoData /\ submitOkSurvey = NoData /\
        postSurvey = NoData /\ draft = NoData /\ adding = NoData /\ views = NoData /\
        carriedSurvey = NoData /\ leftSurvey = NoData
NoZ == rowQuiz = NoData /\ answeredQuiz = NoData /\ callQuiz = NoData /\ host = NoData /\
        pending = NoData /\ join = NoData /\ submitOkQuiz = NoData /\ postQuiz = NoData /\
        screen = NoData /\ inbox = NoData /\ crossed = NoData /\ late = NoData /\
        leftQuiz = NoData
NoF == run = NoData /\ stored = NoData /\ page = NoData /\ cached = NoData /\
        mine = NoData /\ marks = NoData /\ order = NoData /\ held = NoData /\
        callForms = NoData /\ carriedForms = NoData /\ entered = NoData /\
        leftForms = NoData
NoR == status = NoData /\ rowCounts = NoData /\ agg = NoData /\ fields = NoData /\
        ttl = NoData /\ hooks = NoData /\ pc = NoData /\ voter = NoData /\ answer = NoData
        /\ old = NoData /\ minus = NoData /\ plus = NoData /\ met = NoData /\
        submits = NoData /\ moves = NoData /\ crashes = NoData /\ expiries = NoData

Init ==
    /\ part \in LookedAt
    /\ \/ part = "page" /\ P!Init /\ NoV /\ NoS /\ NoZ /\ NoF /\ NoR
       \/ part = "voting" /\ V!Init /\ NoP /\ NoS /\ NoZ /\ NoF /\ NoR
       \/ part = "survey" /\ S!Init /\ NoP /\ NoV /\ NoZ /\ NoF /\ NoR
       \/ part = "quiz" /\ Z!Init /\ NoP /\ NoV /\ NoS /\ NoF /\ NoR
       \/ part = "forms" /\ F!Init /\ NoP /\ NoV /\ NoS /\ NoZ /\ NoR
       \/ part = "counts" /\ R!Init /\ NoP /\ NoV /\ NoS /\ NoZ /\ NoF

Next ==
    /\ UNCHANGED part
    /\ \/ part = "page" /\ P!Next /\ UNCHANGED <<varsV, varsS, varsZ, varsF, varsR>>
       \/ part = "voting" /\ V!Next /\ UNCHANGED <<varsP, varsS, varsZ, varsF, varsR>>
       \/ part = "survey" /\ S!Next /\ UNCHANGED <<varsP, varsV, varsZ, varsF, varsR>>
       \/ part = "quiz" /\ Z!Next /\ UNCHANGED <<varsP, varsV, varsS, varsF, varsR>>
       \/ part = "forms" /\ F!Next /\ UNCHANGED <<varsP, varsV, varsS, varsZ, varsR>>
       \/ part = "counts" /\ R!Next /\ UNCHANGED <<varsP, varsV, varsS, varsZ, varsF>>

ASSUME PartsAssumption ==
    /\ LookedAt \subseteq Parts
    /\ P!PageAssumption /\ V!VotingAssumption /\ S!SurveyAssumption
    /\ Z!QuizAssumption /\ F!FormAssumption /\ R!ResponsesAssumption

Spec == Init /\ [][Next]_vars

(* Requests are answered, timers fire, handlers run: the fairness of each part.    *)
PageFairness ==
    /\ WF_varsP(part = "page" /\ P!IntervalState) /\ WF_varsP(part = "page" /\ P!AnswerState)
    /\ WF_varsP(part = "page" /\ P!StoreState)
VotingFairness ==
    /\ WF_varsV(part = "voting" /\ V!Page) /\ WF_varsV(part = "voting" /\ V!Server)
    /\ WF_varsV(part = "voting" /\ V!PollList)
SurveyFairness ==
    /\ \A v \in {"questions", "results"} :
         /\ WF_varsS(part = "survey" /\ S!BenchPolls(v))
         /\ WF_varsS(part = "survey" /\ S!BenchAnswers(v))
         /\ WF_varsS(part = "survey" /\ S!BenchStores(v))
    /\ WF_varsS(part = "survey" /\ S!ServeAdd) /\ WF_varsS(part = "survey" /\ S!AddEnds)
QuizFairness ==
    /\ WF_varsZ(part = "quiz" /\ \E c \in QuizCalls : Z!Handles(c) \/ Z!Commits(c))
    /\ WF_varsZ(part = "quiz" /\ \E c \in QuizCalls : Z!CallEnds(c))
    /\ WF_varsZ(part = "quiz" /\ Z!JoinHears) /\ WF_varsZ(part = "quiz" /\ Z!ScreenHears)
    /\ \A v \in {"join", "screen", "host"} :
         /\ WF_varsZ(part = "quiz" /\ Z!Polls(v)) /\ WF_varsZ(part = "quiz" /\ Z!FetchAnswers(v))
         /\ WF_varsZ(part = "quiz" /\ Z!FetchStores(v))
FairSpec == Spec /\ PageFairness /\ VotingFairness /\ SurveyFairness /\ QuizFairness

-----------------------------------------------------------------------------
TypeOK ==
    CASE part = "page" -> P!TypeOK  [] part = "voting" -> V!TypeOK  [] part = "survey" -> S!TypeOK
      [] part = "quiz" -> Z!TypeOK  [] part = "forms" -> F!TypeOK   [] part = "counts" -> R!TypeOK

(* At rest a participant sees what the server has: the running poll and its        *)
(* status, the tab of what runs (RoomPage), and the questions with the counts and  *)
(* the own votes (RoomQaPanel), but for what the parts say was missed.            *)
ShownAtRest ==
    /\ part = "page"   => P!AgreesAtRest /\ P!TabAtRest
    /\ part = "voting" => V!VotesAtRest

(* What a participant is told to have submitted was submitted, for the poll, the   *)
(* survey or the question that is shown, unless the screen had moved on.           *)
NoticesAreTrue ==
    /\ part = "page"   => P!OkIsForShown
    /\ part = "survey" => S!ThanksForStored
    /\ part = "quiz"   => Z!NoticeIsTrue

(* What the server makes of a click or stores of a form is what the participant    *)
(* meant: a vote's button, a poll's own options, a whole ranking, each text once.   *)
AnswersAreMeant ==
    /\ part = "voting" => V!VoteMeansItsButton
    /\ part = "forms"  => F!MeantForItsPoll /\ F!CountedOnce /\ F!RankingIsWhole

(* One quiz question runs at a time, but for overlapping actions (_close_siblings). *)
OneRuns == part = "quiz" => Z!OneRuns

(* The results show the stored answers, but for requests that are just counting.   *)
CountsFollow == part = "counts" => R!CountsFollow

(* Whatever was lost, the intervals bring every page to what the server has.        *)
PagesFollow ==
    <>[](/\ part = "page"   => P!ShowsWhatRuns
         /\ part = "voting" => V!ListIsNow
         /\ part = "survey" => S!ResultsAreNow
         /\ part = "quiz"   => Z!PagesAreNow)
==============================================================================
