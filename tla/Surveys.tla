------------------------------ MODULE Surveys ------------------------------
(* A survey between its two pages: the host adds questions to one survey and    *)
(* watches its answers, the participant's panel shows whichever survey the room  *)
(* page finds active, and the service keeps one submission per survey and        *)
(* participant.                                                                *)
EXTENDS Naturals, FiniteSets

CONSTANTS
    AllSurveys, NoSurvey,
    Edited,         \* the survey the host's page shows
    Numbers,        \* questions of a survey are numbered
    NoData,         \* nothing cached; no submission
    Posts,          \* submissions of this participant that may be under way
    SurveyBudgets   \* bounds: surveys started or stopped, questions added, tabs
                    \* changed, requests lost; and the views of the host that are open

INSTANCE QueryCache

(* The bounds leave room for the questions that may be added.                     *)
SurveyAssumption ==
    /\ Edited \in AllSurveys /\ NoSurvey \notin AllSurveys
    /\ \A items \in SUBSET (AllSurveys \X Numbers) : items # NoData
    /\ SurveyBudgets \subseteq [moves : Nat, adds : Nat, tabs : Nat, faults : Nat,
                                open : SUBSET {"questions", "results"}]
    /\ \A b \in SurveyBudgets : 1..(b.adds + 1) \subseteq Numbers

VARIABLES
    active,     \* server: the survey that is open
    asked,      \* server: the questions of each
    sent,       \* server: this participant's submission to each
    shown,      \* participant: the survey of the mounted panel
    lists,      \* participant: cache of the questions, by survey
    answers,    \* participant: questions answered in the panel, of any survey
    submitOk,   \* participant: the panel says the survey was submitted
    post,       \* participant: submissions under way
    draft,      \* host: the title of the next question, "default" or "typed"
    adding,     \* host: the request that adds it
    views,      \* host: cache of the questions, and of the submissions
    carried,    \* history: the panel changed survey without being mounted anew
    left        \* what is left of the behaviour's bounds

server == <<active, asked, sent>>
panel  == <<shown, lists, answers, submitOk, post, carried>>
bench  == <<draft, adding, views>>
vars   == <<server, panel, bench, left>>

Items    == AllSurveys \X Numbers
Views    == {"questions", "results"}
Of(s)    == {i \in Items : i[1] = s}
Use(kind) == left[kind] > 0 /\ left' = [left EXCEPT ![kind] = @ - 1]
NoPost   == [at |-> "free", survey |-> NoSurvey, items |-> {}, mine |-> FALSE]

Init ==
    /\ active \in AllSurveys \cup {NoSurvey}
    /\ asked = [s \in AllSurveys |-> {<<s, 1>>}]
    /\ sent = [s \in AllSurveys |-> NoData]
    /\ shown = NoSurvey /\ lists = [s \in AllSurveys |-> Unused]
    /\ answers = {} /\ submitOk = FALSE /\ post = [p \in Posts |-> NoPost]
    /\ draft = "default" /\ adding = "free" /\ carried = FALSE
    /\ left \in SurveyBudgets
    /\ views = [v \in Views |-> IF v \in left.open THEN Loading ELSE Unused]

-----------------------------------------------------------------------------
(* The host starts and stops surveys elsewhere on the workbench.                *)
Opens(s) ==
    /\ s # active /\ Use("moves") /\ active' = s
    /\ UNCHANGED <<asked, sent, panel, bench>>

(* The panel of the survey the room page shows.  A direct change of survey only   *)
(* changes the panel's property: its answers and its "submitted" stay.           *)
Mounts(s) == [lists EXCEPT ![s] = Mounted(@)]
Orphaned  == [p \in Posts |-> [post[p] EXCEPT !.mine = FALSE]]

Cleared(s) == submitOk' = (submitOk /\ s # NoSurvey /\ shown # NoSurvey)

Shows(s) ==
    /\ shown' = s /\ Cleared(s)
    /\ answers' = IF NoSurvey \in {s, shown} THEN {} ELSE answers
    /\ carried' = (NoSurvey \notin {s, shown} \/ (carried /\ s # NoSurvey))
    /\ post' = IF s = NoSurvey THEN Orphaned ELSE post
    /\ lists' = IF s = NoSurvey THEN lists ELSE Mounts(s)
    /\ UNCHANGED <<server, bench>>

PageFollows == shown # active /\ Shows(active) /\ UNCHANGED left
TabLeft     == shown # NoSurvey /\ Use("tabs") /\ Shows(NoSurvey)

Answer(i) ==
    /\ shown # NoSurvey /\ ~ submitOk
    /\ Loaded(lists[shown]) /\ i \in lists[shown].data /\ i \notin answers
    /\ answers' = answers \cup {i}
    /\ UNCHANGED <<server, bench, shown, lists, submitOk, post, carried, left>>

(* handleSubmit: every listed question is required here and must be answered;     *)
(* what is sent are all answers the panel holds.                               *)
Submit(p) ==
    /\ shown # NoSurvey /\ ~ submitOk
    /\ Loaded(lists[shown]) /\ lists[shown].data # {} /\ lists[shown].data \subseteq answers
    /\ post[p] = NoPost /\ ~ \E q \in Posts : post[q].mine
    /\ post' = [post EXCEPT ![p] =
                 [at |-> "asked", survey |-> shown, items |-> answers, mine |-> TRUE]]
    /\ UNCHANGED <<server, bench, shown, lists, answers, submitOk, carried, left>>

(* submit_survey refuses an answer to a question of another survey; it asks        *)
(* neither that the survey is still open nor that all its questions are answered.  *)
ServeSubmit(p) ==
    /\ post[p].at = "asked"
    /\ IF post[p].items \subseteq asked[post[p].survey]
       THEN /\ sent' = [sent EXCEPT ![post[p].survey] = post[p].items]
            /\ post' = [post EXCEPT ![p].at = "stored"]
       ELSE post' = [post EXCEPT ![p].at = "failed"] /\ UNCHANGED sent
    /\ UNCHANGED <<active, asked, bench, shown, lists, answers, submitOk, carried, left>>

LoseSubmit(p) ==
    /\ post[p].at \in {"asked", "stored"} /\ Use("faults")
    /\ post' = [post EXCEPT ![p].at = "failed"]
    /\ UNCHANGED <<server, bench, shown, lists, answers, submitOk, carried>>

Succeeded(p) == post[p].at = "stored"

SubmitEnds(p) ==
    /\ post[p].at \in {"stored", "failed"}
    /\ submitOk' = IF post[p].mine THEN Succeeded(p) ELSE submitOk
    /\ lists' = IF post[p].mine /\ Succeeded(p)
                THEN [lists EXCEPT ![shown] = Refetched(@)] ELSE lists
    /\ post' = [post EXCEPT ![p] = NoPost]
    /\ UNCHANGED <<server, bench, shown, answers, carried, left>>

ListPolls ==  \* every 15 s
    /\ shown # NoSurvey /\ lists' = [lists EXCEPT ![shown] = Fetched(@)]
    /\ UNCHANGED <<server, bench, shown, answers, submitOk, post, carried, left>>

ListAnswers(s) ==  \* a closed survey has no questions to show
    /\ lists[s].fetch = "asked"
    /\ lists' = [lists EXCEPT ![s] = Answered(@, IF active = s THEN asked[s] ELSE {})]
    /\ UNCHANGED <<server, bench, shown, answers, submitOk, post, carried, left>>

ListStores(s) ==
    /\ lists[s].fetch = "answered" /\ lists' = [lists EXCEPT ![s] = Stored(@)]
    /\ UNCHANGED <<server, bench, shown, answers, submitOk, post, carried, left>>

-----------------------------------------------------------------------------
(* The host's page: a form for the next question, which stays enabled while one   *)
(* is added, and whose title goes back to the default when it was.              *)
TypeTitle ==
    /\ draft = "default" /\ draft' = "typed"
    /\ UNCHANGED <<server, panel, adding, views, left>>

AddQuestion ==
    /\ adding = "free" /\ Use("adds") /\ adding' = "asked"
    /\ UNCHANGED <<server, panel, draft, views>>

ServeAdd ==  \* add_question: numbered after the last
    /\ adding = "asked" /\ adding' = "stored"
    /\ asked' = [asked EXCEPT ![Edited] = @ \cup {<<Edited, Cardinality(@) + 1>>}]
    /\ UNCHANGED <<active, sent, panel, draft, views, left>>

LoseAdd ==
    /\ adding \in {"asked", "stored"} /\ Use("faults") /\ adding' = "failed"
    /\ UNCHANGED <<server, panel, draft, views>>

AddEnds ==
    /\ adding \in {"stored", "failed"} /\ adding' = "free"
    /\ IF adding = "stored"
       THEN draft' = "default" /\ views' = [v \in Views |-> IF v \in left.open THEN Refetched(views[v]) ELSE Unused]
       ELSE UNCHANGED <<draft, views>>
    /\ UNCHANGED <<server, panel, left>>

Rests == UNCHANGED <<server, panel, draft, adding, left>>

BenchPolls(v) ==  \* every 8 s
    v \in left.open /\ views' = [views EXCEPT ![v] = Fetched(@)] /\ Rests

Now(v) == IF v = "questions" THEN asked[Edited] ELSE {sent[Edited]}

BenchAnswers(v) ==
    views[v].fetch = "asked" /\ views' = [views EXCEPT ![v] = Answered(@, Now(v))] /\ Rests

BenchStores(v) ==
    views[v].fetch = "answered" /\ views' = [views EXCEPT ![v] = Stored(@)] /\ Rests

Next ==
    \/ \E s \in AllSurveys \cup {NoSurvey} : Opens(s)
    \/ \E s \in AllSurveys : ListAnswers(s) \/ ListStores(s)
    \/ \E i \in Items : Answer(i)
    \/ \E p \in Posts : Submit(p) \/ ServeSubmit(p) \/ LoseSubmit(p) \/ SubmitEnds(p)
    \/ PageFollows \/ TabLeft \/ ListPolls
    \/ TypeTitle \/ AddQuestion \/ ServeAdd \/ LoseAdd \/ AddEnds
    \/ \E v \in Views : BenchPolls(v) \/ BenchAnswers(v) \/ BenchStores(v)

Spec == Init /\ [][Next]_vars

(* Requests end and timers fire.                                               *)
Fairness ==
    /\ \A v \in Views :
         WF_vars(BenchPolls(v)) /\ WF_vars(BenchAnswers(v)) /\ WF_vars(BenchStores(v))
    /\ WF_vars(ServeAdd) /\ WF_vars(AddEnds) /\ WF_vars(PageFollows)
    /\ \A p \in Posts : WF_vars(ServeSubmit(p)) /\ WF_vars(SubmitEnds(p))
FairSpec == Spec /\ Fairness

-----------------------------------------------------------------------------
TypeOK ==
    /\ active \in AllSurveys \cup {NoSurvey} /\ shown \in AllSurveys \cup {NoSurvey}
    /\ \A s \in AllSurveys :
         /\ asked[s] \subseteq Of(s) /\ sent[s] \in (SUBSET Items) \cup {NoData}
         /\ lists[s] \in Queries(SUBSET Of(s))
    /\ answers \subseteq Items /\ submitOk \in BOOLEAN /\ carried \in BOOLEAN
    /\ shown = NoSurvey => answers = {} /\ ~ submitOk
    /\ \A p \in Posts : post[p] = NoPost \/ post[p].items # {}
    /\ draft \in {"default", "typed"} /\ adding \in {"free", "asked", "stored", "failed"}
    /\ views["questions"] \in Queries(SUBSET Items)
    /\ \A kind \in {"moves", "adds", "tabs", "faults"} : left[kind] \in Nat

(* The panel thanks the participant for a survey the server has answers to, as     *)
(* long as the panel was mounted for that survey.                               *)
ThanksForStored == submitOk /\ ~ carried => sent[shown] # NoData

(* What the host's page shows is in the end what the server has.               *)
ResultsAreNow == \A v \in Views : v \in left.open => views[v].data = Now(v)
=============================================================================
