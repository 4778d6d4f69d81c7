-------------------------- MODULE ScreensAndDialogs ---------------------------
(* What steers the screen, the pages that only show, the dialogs that ask the model *)
(* (its settings, the report of a session, the generator of polls), and what a      *)
(* browser keeps of who it is: the host's tokens and the session a participant      *)
(* joined.  Each has state of its own: a behaviour follows one of them, and the     *)
(* properties are stated for all.                                                 *)
EXTENDS Naturals, Sequences, FiniteSets

CONSTANTS
    NoData, none,                                          \* nothing; no item, no session
    LookedAt,                                              \* the parts that are followed
    ScreenPolls, ScreenQuizzes, ScreenSlots, ScreenBudgets, \* the screen
    Writers, ViewBudgets,                                  \* pages that only show
    Providers, Home, Server, AiSlots, AiBudgets,           \* settings of the model
    ReportSlots, ReportBudgets,                            \* the report
    Places, GeneratorBudgets,                              \* generated polls
    SignInTabs, SignInCalls, SignInBudgets,                \* the host's tokens
    JoinTabs, Sessions, JoinPosts, JoinBudgets             \* joining

VARIABLES
    part,  \* the part that is looked at: the other parts have no state then
    storedScreen, put, direct, relay, ctl, page, follow, selected, timer, synced, paused,
    hostQ, screenQ, connected, want, crossedScreen, blind, budget,
    now, change, view, ready, cache, inbox, linked, owed, leftViews,
    storedAi, form, list, status, loadingAi, callAi, openAi, timers, crossedAi, leftAi,
    activity, settings, callReport, openReport, force, shown, loadingReport, failedReport,
    clashed, late, leftReport,
    created, bench, route, openGenerator, batch, writing, creating, failedGenerator,
    presses, again, unread, leftGenerator,
    issued, expired, lapsed, elapsed, storedTokens, authed, entering, request, renewal,
    wanted, failedRenewal, afloat, leftSignIn,
    statusJoin, rows, storedJoin, pageJoin, byCode, broken, post, seen, stateQ, over,
    told, meant, crossedJoin, renamed, held, doubt, moved, reopened, leftJoin

C == INSTANCE ScreenControl WITH
    Polls <- ScreenPolls, Quizzes <- ScreenQuizzes, NoItem <- none, NoView <- NoData,
    Slots <- ScreenSlots, Budgets <- ScreenBudgets, stored <- storedScreen,
    crossed <- crossedScreen
L == INSTANCE LiveViews WITH left <- leftViews
A == INSTANCE AiSettings WITH
    Slots <- AiSlots, stored <- storedAi, loading <- loadingAi, call <- callAi,
    open <- openAi, crossed <- crossedAi, left <- leftAi
D == INSTANCE DecisionReport WITH
    Slots <- ReportSlots, call <- callReport, open <- openReport,
    loading <- loadingReport, failed <- failedReport, left <- leftReport
G == INSTANCE PollGenerator WITH
    open <- openGenerator, failed <- failedGenerator, left <- leftGenerator
T == INSTANCE HostSignIn WITH
    Tabs <- SignInTabs, Calls <- SignInCalls, stored <- storedTokens,
    failed <- failedRenewal, budget <- leftSignIn
J == INSTANCE Joining WITH
    Tabs <- JoinTabs, NoSession <- none, Posts <- JoinPosts, status <- statusJoin,
    stored <- storedJoin, page <- pageJoin, crossed <- crossedJoin, left <- leftJoin

varsC == <<storedScreen, put, direct, relay, ctl, page, follow, selected, timer, synced,
           paused, hostQ, screenQ, connected, want, crossedScreen, blind, budget>>
varsL == <<now, change, view, ready, cache, inbox, linked, owed, leftViews>>
varsA == <<storedAi, form, list, status, loadingAi, callAi, openAi, timers, crossedAi,
           leftAi>>
varsD == <<activity, settings, callReport, openReport, force, shown, loadingReport,
           failedReport, clashed, late, leftReport>>
varsG == <<created, bench, route, openGenerator, batch, writing, creating,
           failedGenerator, presses, again, unread, leftGenerator>>
varsT == <<issued, expired, lapsed, elapsed, storedTokens, authed, entering, request,
           renewal, wanted, failedRenewal, afloat, leftSignIn>>
varsJ == <<statusJoin, rows, storedJoin, pageJoin, byCode, broken, post, seen, stateQ,
           over, told, meant, crossedJoin, renamed, held, doubt, moved, reopened, leftJoin>>
vars  == <<part, varsC, varsL, varsA, varsD, varsG, varsT, varsJ>>

NoC == storedScreen = NoData /\ put = NoData /\ direct = NoData /\ relay = NoData /\
        ctl = NoData /\ page = NoData /\ follow = NoData /\ selected = NoData /\
        timer = NoData /\ synced = NoData /\ paused = NoData /\ hostQ = NoData /\
        screenQ = NoData /\ connected = NoData /\ want = NoData /\ crossedScreen = NoData
        /\ blind = NoData /\ budget = NoData
NoL == now = NoData /\ change = NoData /\ view = NoData /\ ready = NoData /\
        cache = NoData /\ inbox = NoData /\ linked = NoData /\ owed = NoData /\
        leftViews = NoData
NoA == storedAi = NoData /\ form = NoData /\ list = NoData /\ status = NoData /\
        loadingAi = NoData /\ callAi = NoData /\ openAi = NoData /\ timers = NoData /\
        crossedAi = NoData /\ leftAi = NoData
NoD == activity = NoData /\ settings = NoData /\ callReport = NoData /\
        openReport = NoData /\ force = NoData /\ shown = NoData /\ loadingReport = NoData
        /\ failedReport = NoData /\ clashed = NoData /\ late = NoData /\
        leftReport = NoData
NoG == created = NoData /\ bench = NoData /\ route = NoData /\ openGenerator = NoData /\
        batch = NoData /\ writing = NoData /\ creating = NoData /\
        failedGenerator = NoData /\ presses = NoData /\ again = NoData /\ unread = NoData
        /\ leftGenerator = NoData
NoT == issued = NoData /\ expired = NoData /\ lapsed = NoData /\ elapsed = NoData /\
        storedTokens = NoData /\ authed = NoData /\ entering = NoData /\ request = NoData
        /\ renewal = NoData /\ wanted = NoData /\ failedRenewal = NoData /\
        afloat = NoData /\ leftSignIn = NoData
NoJ == statusJoin = NoData /\ rows = NoData /\ storedJoin = NoData /\
        pageJoin = NoData /\ byCode = NoData /\ broken = NoData /\ post = NoData /\
        seen = NoData /\ stateQ = NoData /\ over = NoData /\ told = NoData /\
        meant = NoData /\ crossedJoin = NoData /\ renamed = NoData /\ held = NoData /\
        doubt = NoData /\ moved = NoData /\ reopened = NoData /\ leftJoin = NoData

Init ==
    /\ part \in LookedAt
    /\ \/ part = "screen" /\ C!Init /\ NoL /\ NoA /\ NoD /\ NoG /\ NoT /\ NoJ
       \/ part = "views" /\ L!Init /\ NoC /\ NoA /\ NoD /\ NoG /\ NoT /\ NoJ
       \/ part = "ai" /\ A!Init /\ NoC /\ NoL /\ NoD /\ NoG /\ NoT /\ NoJ
       \/ part = "report" /\ D!Init /\ NoC /\ NoL /\ NoA /\ NoG /\ NoT /\ NoJ
       \/ part = "generator" /\ G!Init /\ NoC /\ NoL /\ NoA /\ NoD /\ NoT /\ NoJ
       \/ part = "signin" /\ T!Init /\ NoC /\ NoL /\ NoA /\ NoD /\ NoG /\ NoJ
       \/ part = "joining" /\ J!Init /\ NoC /\ NoL /\ NoA /\ NoD /\ NoG /\ NoT

Next ==
    /\ UNCHANGED part
    /\ \/ part = "screen" /\ C!Next
          /\ UNCHANGED <<varsL, varsA, varsD, varsG, varsT, varsJ>>
       \/ part = "views" /\ L!Next
          /\ UNCHANGED <<varsC, varsA, varsD, varsG, varsT, varsJ>>
       \/ part = "ai" /\ A!Next
          /\ UNCHANGED <<varsC, varsL, varsD, varsG, varsT, varsJ>>
       \/ part = "report" /\ D!Next
          /\ UNCHANGED <<varsC, varsL, varsA, varsG, varsT, varsJ>>
       \/ part = "generator" /\ G!Next
          /\ UNCHANGED <<varsC, varsL, varsA, varsD, varsT, varsJ>>
       \/ part = "signin" /\ T!Next
          /\ UNCHANGED <<varsC, varsL, varsA, varsD, varsG, varsJ>>
       \/ part = "joining" /\ J!Next
          /\ UNCHANGED <<varsC, varsL, varsA, varsD, varsG, varsT>>

ASSUME PartsAssumption ==
    /\ C!ScreenAssumption /\ NoData \notin C!Views /\ L!ViewAssumption
    /\ A!AiAssumption /\ D!ReportAssumption /\ G!GeneratorAssumption
    /\ T!SignInAssumption /\ J!JoiningAssumption

Spec == Init /\ [][Next]_vars

(* Requests are answered, timers fire, handlers run: the fairness of each part.    *)
ScreenFairness ==
    /\ WF_varsC(part = "screen" /\ C!ScreenRefetches) /\ WF_varsC(part = "screen" /\ C!ScreenAsked)
    /\ WF_varsC(part = "screen" /\ C!ScreenStores)
ViewFairness ==
    /\ \A w \in Writers : /\ WF_varsL(part = "views" /\ L!Announces(w))
                       /\ WF_varsL(part = "views" /\ L!CommitsAfter(w))
    /\ WF_varsL(part = "views" /\ L!SessionFound) /\ WF_varsL(part = "views" /\ L!Deliver)
    /\ \A q \in {"list", "overview", "people", "questions", "leaderboard"} :
         /\ WF_varsL(part = "views" /\ q \in L!Queried /\ L!IntervalFires(q))
         /\ WF_varsL(part = "views" /\ q \in L!Queried /\ L!Serves(q))
         /\ WF_varsL(part = "views" /\ q \in L!Queried /\ L!Stores(q))
AiFairness ==
    /\ WF_varsA(part = "ai" /\ A!TimerFires)
    /\ \A s \in AiSlots : /\ WF_varsA(part = "ai" /\ A!Serves(s))
                       /\ WF_varsA(part = "ai" /\ A!Settles(s))
ReportFairness ==
    \A s \in ReportSlots :
       /\ WF_varsD(part = "report" /\ D!Looks(s)) /\ WF_varsD(part = "report" /\ D!LookEnds(s))
       /\ WF_varsD(part = "report" /\ D!Reads(s)) /\ WF_varsD(part = "report" /\ D!Writes(s))
       /\ WF_varsD(part = "report" /\ D!Ends(s))
GeneratorFairness ==
    /\ WF_varsG(part = "generator" /\ G!Generated) /\ WF_varsG(part = "generator" /\ G!Commits)
    /\ WF_varsG(part = "generator" /\ G!Created) /\ WF_varsG(part = "generator" /\ G!Sends)
    /\ WF_varsG(part = "generator" /\ G!Serves) /\ WF_varsG(part = "generator" /\ G!Stores)
SignInFairness ==
    \A t \in SignInTabs : /\ WF_varsT(part = "signin" /\ T!Renewing(t))
                    /\ \A c \in SignInCalls : WF_varsT(part = "signin" /\ T!Answers(t, c))
JoinFairness ==
    /\ \A k \in JoinPosts : WF_varsJ(part = "joining" /\ J!Posting(k))
    /\ \A t \in JoinTabs :
         /\ WF_varsJ(part = "joining" /\ J!IntervalFires(t))
         /\ WF_varsJ(part = "joining" /\ J!RoomPolls(t))
         /\ WF_varsJ(part = "joining" /\ J!SendsTicket(t))
         /\ \A s \in Sessions :
              /\ WF_varsJ(part = "joining" /\ (J!AnswersByCode(t, s) \/ J!StoresByCode(t, s)))
              /\ WF_varsJ(part = "joining" /\ (J!AnswersState(t, s) \/ J!StoresState(t, s)))
FairSpec ==
    /\ Spec /\ ScreenFairness /\ ViewFairness /\ AiFairness /\ ReportFairness
    /\ GeneratorFairness /\ SignInFairness /\ JoinFairness

-----------------------------------------------------------------------------
TypeOK ==
    CASE part = "screen" -> C!TypeOK  [] part = "views" -> L!TypeOK
      [] part = "ai" -> A!TypeOK
      [] part = "report" -> D!TypeOK  [] part = "generator" -> G!TypeOK
      [] part = "signin" -> T!TypeOK  [] part = "joining" -> J!TypeOK

(* What was asked for last is what is kept, whatever answers overtake each other:   *)
(* the view the host asked for, through queue, deduplication and overrides          *)
(* (useScreenControl); a sign-in or a sign-out, whatever pages renew the tokens     *)
(* meanwhile (lib/api.ts); the session a participant joined or left last.          *)
LastWordWins ==
    /\ part = "screen"  => C!LastWordWins
    /\ part = "signin"  => T!SignInStands
    /\ part = "joining" => J!JoinedAsMeant

(* At rest the screen shows the view the server has, a page that only shows what the *)
(* server has of every query no change left behind, and the dialog's report is the  *)
(* one that is printed.                                                            *)
ShownAtRest ==
    /\ part = "screen" => C!ScreenAtRest
    /\ part = "views"  => L!ViewAtRest
    /\ part = "report" => D!PrintsWhatIsShown

(* What a dialog shows is so: the model in the form, in storage and in the headers   *)
(* of every AI request belongs to the provider they name, until an answer for another *)
(* provider comes in or the host types a model of another; what looks busy waits for a request that is under way; a host    *)
(* whose tokens can be renewed is not refused; a session said to have ended has, and   *)
(* the code a room leads back to is its own.                                         *)
DialogsAreTrue ==
    /\ part = "ai"      => A!ModelOfProvider /\ A!BusyIsAsked
    /\ part = "report"  => D!BusyIsAsked
    /\ part = "signin"  => T!NoNeedlessRefusal
    /\ part = "joining" => J!EndedIsTrue /\ J!CodeIsOfSession

(* A generated poll is not created twice, unless the host pressed again for it; a   *)
(* browser is not made a participant of a session twice, unless its user was shown  *)
(* the form before another page joined, or an answer was lost.                      *)
CreatedOnce ==
    /\ part = "generator" => G!CreatedOnce
    /\ part = "joining"   => J!JoinedOnce

(* The workbench's address names a poll that its list has, unless handleBatchCreate  *)
(* stopped waiting for the list without it - its fetch failed, was paused or        *)
(* replaced, or nobody looked at it - and no current list came in since.           *)
SelectedIsListed == part = "generator" => G!SelectedIsListed

(* Whatever was missed, a page comes to show what the server has, a dialog stops     *)
(* being busy, a request stops waiting for tokens, and who waits for a session to    *)
(* open comes to its form.                                                         *)
ViewsFollow ==
    <>[](/\ part = "screen"    => C!ScreenShowsStored
         /\ part = "views"     => L!ViewIsNow
         /\ part = "ai"        => A!NothingBusy
         /\ part = "report"    => D!Usable
         /\ part = "generator" => G!NothingCreates
         /\ part = "signin"    => T!NothingWaits
         /\ part = "joining"   => J!Arrives)
==============================================================================
