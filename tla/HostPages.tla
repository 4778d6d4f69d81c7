------------------------------ MODULE HostPages -------------------------------
(* The host's pages.  The moderation of questions, the workbench, the editor of a   *)
(* poll and the word cloud each have state of their own: a behaviour follows one   *)
(* of them, and the properties are stated for all.                                *)
EXTENDS Integers, Sequences, FiniteSets

CONSTANTS
    NoData, none,                                               \* nothing cached; no item
    LookedAt,                                                   \* the parts that are followed
    Questions, FirstVotes, ModerationCases,                     \* moderation
    Polls, Boards, Calls, WorkbenchCases,                       \* the workbench
    Texts, Blank, FirstOptions, Puts, SaveButton, CoHost, BuilderBudgets,  \* the editor
    Words, Groupings, Voters, CloudBudgets                      \* word clouds

VARIABLES
    part,  \* the part that is looked at: the other parts have no state then
    status, up, into, lit, replied, items, request, clusters, detail, parts, drafts, own,
    met, again, raced, behind, spare,
    order, board, session, gone, list, bench, sess, selected, auto, follow, connected, told,
    calls, newest, guard, missed, promised, leftWorkbench,
    rows, poll, form, seeded, hydrating, settle, lastSaved, timer, write, open, doubt,
    leftBuilder,
    raw, choice, job, vote, pending, call, cache, inbox, linked, said, crossed, spoiled,
    leftClouds

M == INSTANCE QaModeration WITH NoQuestion <- none
W == INSTANCE HostWorkbench WITH NoItem <- none, NoCall <- NoData, left <- leftWorkbench
B == INSTANCE PollBuilder WITH left <- leftBuilder
D == INSTANCE WordClouds WITH left <- leftClouds

Parts == {"moderation", "workbench", "builder", "clouds"}
varsM == <<status, up, into, lit, replied, items, request, clusters, detail, parts,
           drafts, own, met, again, raced, behind, spare>>
varsW == <<order, board, session, gone, list, bench, sess, selected, auto, follow, connected,
           told, calls, newest, guard, missed, promised, leftWorkbench>>
varsB == <<rows, poll, form, seeded, hydrating, settle, lastSaved, timer, write, open,
           doubt, leftBuilder>>
varsD == <<raw, choice, job, vote, pending, call, cache, inbox, linked, said, crossed,
           spoiled, leftClouds>>
vars  == <<part, varsM, varsW, varsB, varsD>>

NoM == status = NoData /\ up = NoData /\ into = NoData /\ lit = NoData /\ replied = NoData
        /\ items = NoData /\ request = NoData /\ clusters = NoData /\ detail = NoData /\
        parts = NoData /\ drafts = NoData /\ own = NoData /\ met = NoData /\
        again = NoData /\ raced = NoData /\ behind = NoData /\ spare = NoData
NoW == order = NoData /\ board = NoData /\ session = NoData /\ gone = NoData /\ list = NoData /\
        bench = NoData /\ sess = NoData /\ selected = NoData /\ auto = NoData /\
        follow = NoData /\ connected = NoData /\ told = NoData /\ calls = NoData /\
        newest = NoData /\ guard = NoData /\ missed = NoData /\ promised = NoData /\
        leftWorkbench = NoData
NoB == rows = NoData /\ poll = NoData /\ form = NoData /\ seeded = NoData /\
        hydrating = NoData /\ settle = NoData /\ lastSaved = NoData /\ timer = NoData /\
        write = NoData /\ open = NoData /\ doubt = NoData /\ leftBuilder = NoData
NoD == raw = NoData /\ choice = NoData /\ job = NoData /\ vote = NoData /\
        pending = NoData /\ call = NoData /\ cache = NoData /\ inbox = NoData /\
        linked = NoData /\ said = NoData /\ crossed = NoData /\ spoiled = NoData /\
        leftClouds = NoData

Init ==
    /\ part \in LookedAt
    /\ \/ part = "moderation" /\ M!Init /\ NoW /\ NoB /\ NoD
       \/ part = "workbench" /\ W!Init /\ NoM /\ NoB /\ NoD
       \/ part = "builder" /\ B!Init /\ NoM /\ NoW /\ NoD
       \/ part = "clouds" /\ D!Init /\ NoM /\ NoW /\ NoB

Next ==
    /\ UNCHANGED part
    /\ \/ part = "moderation" /\ M!Next /\ UNCHANGED <<varsW, varsB, varsD>>
       \/ part = "workbench" /\ W!Next /\ UNCHANGED <<varsM, varsB, varsD>>
       \/ part = "builder" /\ B!Next /\ UNCHANGED <<varsM, varsW, varsD>>
       \/ part = "clouds" /\ D!Next /\ UNCHANGED <<varsM, varsW, varsB>>

ASSUME PartsAssumption ==
    /\ M!ModerationAssumption /\ W!WorkbenchAssumption /\ B!BuilderAssumption
    /\ D!CloudAssumption

Spec == Init /\ [][Next]_vars

(* Requests are answered, timers fire, handlers run: the fairness of each part.    *)
ModerationFairness ==
    /\ WF_varsM(part = "moderation" /\ M!Panel) /\ WF_varsM(part = "moderation" /\ M!Server)
    /\ WF_varsM(part = "moderation" /\ M!StoreItems)
    /\ WF_varsM(part = "moderation" /\ M!PollItems)
BenchFairness ==
    /\ WF_varsW(part = "workbench" /\ W!Deliver) /\ WF_varsW(part = "workbench" /\ W!Open)
    /\ WF_varsW(part = "workbench" /\ \E i \in Polls : W!GuardEnds(i))
    /\ WF_varsW(part = "workbench" /\ \E c \in Calls : W!Serve(c))
    /\ WF_varsW(part = "workbench" /\ \E c \in Calls : W!Ends(c))
    /\ \A t \in Polls \cup {"list", "session"} :
         /\ WF_varsW(part = "workbench" /\ W!Backup(t))
         /\ WF_varsW(part = "workbench" /\ W!AnswerFetch(t))
         /\ WF_varsW(part = "workbench" /\ W!StoreFetch(t))
CloudFairness ==
    /\ WF_varsD(part = "clouds" /\ D!Votes) /\ WF_varsD(part = "clouds" /\ D!Broadcasts)
    /\ WF_varsD(part = "clouds" /\ D!Serving) /\ WF_varsD(part = "clouds" /\ D!Settling)
    /\ \A v \in {"bench", "wall"} :
         /\ WF_varsD(part = "clouds" /\ D!Deliver(v))
         /\ WF_varsD(part = "clouds" /\ D!IntervalFires(v))
         /\ WF_varsD(part = "clouds" /\ D!Serves(v))
         /\ WF_varsD(part = "clouds" /\ D!Handles(v))
         /\ WF_varsD(part = "clouds" /\ \E g \in Groupings : D!StoresCloud(v, g))
         /\ WF_varsD(part = "clouds" /\ D!Stores(v))
FairSpec == Spec /\ ModerationFairness /\ BenchFairness /\ CloudFairness

-----------------------------------------------------------------------------
TypeOK ==
    CASE part = "moderation" -> M!TypeOK  [] part = "workbench" -> W!TypeOK
      [] part = "builder" -> B!TypeOK     [] part = "clouds" -> D!TypeOK

(* At rest a page shows, and has saved, what the server has: the questions, the     *)
(* poll's buttons and the order of the list, the cloud; the editor's options are    *)
(* stored.  Each but for what its part says was missed.                           *)
HostAtRest ==
    /\ part = "moderation" => M!PanelAtRest
    /\ part = "workbench"  => W!BenchAtRest /\ W!OrderAtRest
    /\ part = "builder"    => B!AutosavedAtRest
    /\ part = "clouds"     => D!CloudAtRest

(* No merging, taking out or clustering loses or doubles a vote.                   *)
VotesAddUp ==
    /\ part = "moderation" => M!VotesAddUp
    /\ part = "clouds"     => D!VotesOnce

(* What the host chose stands: the one question highlighted, the cloud's clustering  *)
(* and merges, the item switched to.                                              *)
HostsChoiceKept ==
    /\ part = "moderation" => M!OneHighlight
    /\ part = "workbench"  => W!SelectedRuns
    /\ part = "clouds"     => D!HostsChoiceKept

(* The editor's form, once filled, changes by the user's edits alone, whatever      *)
(* refetches, autosaves or other hosts do (comment, PollBuilderPage.tsx:95).        *)
FormKept == [][part = "builder" => B!OnlyEdits]_vars

(* Whatever was lost, the intervals bring every page to what the server has; the    *)
(* workbench polls while its socket is down.                                       *)
HostFollows ==
    <>[](part = "workbench" => ~ connected) =>
    <>[](/\ part = "moderation" => M!PanelIsNow
         /\ part = "workbench"  => W!DetailIsNow
         /\ part = "clouds"     => D!WallIsNow)
==============================================================================
