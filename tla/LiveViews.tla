------------------------------ MODULE LiveViews ------------------------------
(* The pages that only show: projected views, presenter pages, the overview.     *)
(* Each keeps a few queries, asks them all again when it hears one of its         *)
(* events, and at an interval.  A page does not act on another, so a behaviour    *)
(* has one.  What it reads is a version of each topic; the changes of the topics  *)
(* differ in what they announce, and in whether that is before their commit.      *)
EXTENDS Naturals, Sequences, SequencesExt, FiniteSets

CONSTANTS
    NoData,       \* nothing cached, no answer, no change under way
    Writers,      \* changes that may be under way at once
    ViewBudgets   \* bounds: changes, faults; the pages and the kinds of change

INSTANCE QueryCache

VARIABLES
    now,      \* server: what is committed, the version of each topic
    change,   \* server: the changes under way
    view,     \* the page that is open
    ready,    \* the page knows its session
    cache,    \* the page's queries
    inbox,    \* its events under way
    linked,   \* its socket is up
    owed,     \* history: queries a change has left behind without an event
    left      \* what is left of the behaviour's bounds

vars == <<now, change, view, ready, cache, inbox, linked, owed, left>>

Topics == {"poll", "qa", "quiz", "scores", "ideas", "survey", "people"}
Use(kind) == left[kind] > 0 /\ left' = [left EXCEPT ![kind] = @ - 1]

-----------------------------------------------------------------------------
(* The kinds of change.  A quiz action announces itself before it commits, a      *)
(* survey and a joining participant announce nothing, and an idea does not reach  *)
(* the screens while the board's live results are off for them.                  *)

Kind(topic, event, early) == [topic |-> topic, event |-> event, early |-> early]

PollChange == Kind("poll", "poll", FALSE)
QaChange   == Kind("qa", "qa", FALSE)
QuizStart  == Kind("quiz", "started", TRUE)
QuizReveal == Kind("quiz", "poll", TRUE)
QuizClose  == Kind("quiz", "closed", TRUE)
QuizAnswer == Kind("scores", "scores", FALSE)
IdeaChange == Kind("ideas", "ideas", FALSE)
QuietIdea  == Kind("ideas", "quiet", FALSE)
Survey     == Kind("survey", "none", FALSE)
Joining    == Kind("people", "none", FALSE)

KindOf == [poll |-> PollChange, qa |-> QaChange, start |-> QuizStart, reveal |-> QuizReveal,
           close |-> QuizClose, answer |-> QuizAnswer, idea |-> IdeaChange, quiet |-> QuietIdea,
           survey |-> Survey, joining |-> Joining]
Kinds  == {KindOf[k] : k \in DOMAIN KindOf}

(* The pages: what each of their queries reads, what they hear.                  *)

Page(reads, hears, gated) == [reads |-> reads, hears |-> hears, gated |-> gated]
One(topic) == [list |-> {topic}]
Numbers    == [overview |-> Topics \ {"people"}, people |-> {"people"}]
Activity   == {"poll", "qa", "started", "closed", "scores"}

QaScreenView        == Page(One("qa"), {"qa"}, FALSE)
QaPresentPage       == Page(One("qa"), {"qa"}, FALSE)
SurveyScreenView    == Page(One("survey"), {}, FALSE)
SurveyPresentPage   == Page(One("survey"), {}, FALSE)
IdeasScreenView     == Page(One("ideas"), {"ideas"}, FALSE)
IdeasPresentPage    == Page(One("ideas"), {"ideas", "quiet"}, FALSE)
QuizPresentPage     ==
    Page([questions |-> {"quiz"}, leaderboard |-> {"scores"}], {"started", "scores"}, FALSE)
OverviewScreenView  == Page(Numbers, Activity, FALSE)
OverviewPresentPage == Page(Numbers, Activity, TRUE)
RoomOverviewPage    == Page(Numbers, Activity, TRUE)

PageOf == [qaScreen |-> QaScreenView, qaPresent |-> QaPresentPage,
           surveyScreen |-> SurveyScreenView, surveyPresent |-> SurveyPresentPage,
           ideasScreen |-> IdeasScreenView, ideasPresent |-> IdeasPresentPage,
           quizPresent |-> QuizPresentPage, overviewScreen |-> OverviewScreenView,
           overviewPresent |-> OverviewPresentPage, roomOverview |-> RoomOverviewPage]
Pages  == {PageOf[p] : p \in DOMAIN PageOf}

(* A change is one, and so is a bound.                                            *)
ViewAssumption ==
    /\ NoData \notin Kinds
    /\ ViewBudgets \subseteq [changes : Nat, faults : Nat, pages : SUBSET DOMAIN PageOf,
                              kinds : SUBSET DOMAIN KindOf]

Queried == DOMAIN view.reads
Current(q) == [t \in view.reads[q] |-> now[t]]
Readers(topic) == {q \in Queried : topic \in view.reads[q]}

Init ==
    /\ left \in ViewBudgets /\ \E p \in left.pages : view = PageOf[p]
    /\ now = [t \in Topics |-> 0] /\ change = [w \in Writers |-> NoData]
    /\ ready = ~ view.gated
    /\ cache = [q \in Queried |-> IF ready THEN Loading ELSE Unused]
    /\ inbox = <<>> /\ linked = TRUE /\ owed = {}

-----------------------------------------------------------------------------
(* Changes at the server.                                                      *)

Heard(k) == linked /\ k.event \in view.hears
Says(k)  == inbox' = IF Heard(k) THEN Append(inbox, k.event) ELSE inbox
Owes(qs) == owed' = owed \cup qs

(* A change nobody will announce any more, or not to this page.                  *)
Unannounced(k) == k.early \/ k.event \notin view.hears

Writes(k) ==
    /\ now' = [now EXCEPT ![k.topic] = @ + 1]
    /\ Owes(IF Unannounced(k) THEN Readers(k.topic) ELSE {})

Commits(w, k) ==
    /\ change[w] = NoData /\ ~ k.early /\ Use("changes")
    /\ Writes(k) /\ change' = [change EXCEPT ![w] = IF k.event = "none" THEN NoData ELSE k]
    /\ UNCHANGED <<view, ready, cache, inbox, linked>>

Announces(w) ==
    /\ change[w] # NoData /\ ~ change[w].early
    /\ Says(change[w]) /\ Owes(IF linked THEN {} ELSE Readers(change[w].topic))
    /\ change' = [change EXCEPT ![w] = NoData]
    /\ UNCHANGED <<now, view, ready, cache, linked, left>>

AnnouncesFirst(w, k) ==
    /\ change[w] = NoData /\ k.early /\ Use("changes")
    /\ Says(k) /\ change' = [change EXCEPT ![w] = k]
    /\ UNCHANGED <<now, view, ready, cache, linked, owed>>

CommitsAfter(w) ==
    /\ change[w] # NoData /\ change[w].early
    /\ Writes(change[w]) /\ change' = [change EXCEPT ![w] = NoData]
    /\ UNCHANGED <<view, ready, cache, inbox, linked, left>>

-----------------------------------------------------------------------------
(* The page.                                                                   *)

(* The list of sessions has come: the queries of the room's session are enabled. *)
SessionFound ==
    /\ ~ ready /\ ready' = TRUE
    /\ cache' = [q \in Queried |-> Mounted(cache[q])]
    /\ UNCHANGED <<now, change, view, inbox, linked, owed, left>>

Invalidates == IF ready THEN [q \in Queried |-> Refetched(cache[q])] ELSE cache

(* The first load is not asked again: what it was answered may be the old.       *)
FirstAnswers == {q \in Queried : ~ Loaded(cache[q]) /\ cache[q].fetch = "answered"}

Deliver ==
    /\ inbox # <<>> /\ inbox' = Tail(inbox) /\ cache' = Invalidates /\ Owes(FirstAnswers)
    /\ UNCHANGED <<now, change, view, ready, linked, left>>

LoseSocket ==
    /\ linked /\ Use("faults")
    /\ linked' = FALSE /\ inbox' = <<>> /\ Owes(IF inbox = <<>> THEN {} ELSE Queried)
    /\ UNCHANGED <<now, change, view, ready, cache>>

Reconnect ==
    /\ ~ linked /\ linked' = TRUE
    /\ UNCHANGED <<now, change, view, ready, cache, inbox, owed, left>>

NeverPolls == {}  \* mutant: no refetchInterval
Polled == IF ready THEN Queried ELSE {}

IntervalFires(q) ==
    /\ q \in Polled /\ Idle(cache[q])
    /\ cache' = [cache EXCEPT ![q] = Fetched(@)]
    /\ UNCHANGED <<now, change, view, ready, inbox, linked, owed, left>>

Serves(q) ==
    /\ cache[q].fetch = "asked"
    /\ cache' = [cache EXCEPT ![q] = Answered(@, Current(q))] /\ owed' = owed \ {q}
    /\ UNCHANGED <<now, change, view, ready, inbox, linked, left>>

Stores(q) ==
    /\ cache[q].fetch = "answered" /\ cache' = [cache EXCEPT ![q] = Stored(@)]
    /\ UNCHANGED <<now, change, view, ready, inbox, linked, owed, left>>

(* A query that failed keeps what it had.                                       *)
Fails(q) ==
    /\ ~ Idle(cache[q]) /\ Loaded(cache[q]) /\ Use("faults")
    /\ cache' = [cache EXCEPT ![q] = Cancelled(@)] /\ Owes({q})
    /\ UNCHANGED <<now, change, view, ready, inbox, linked>>

-----------------------------------------------------------------------------
Next ==
    \/ \E w \in Writers :
          \/ \E k \in left.kinds : Commits(w, KindOf[k]) \/ AnnouncesFirst(w, KindOf[k])
          \/ Announces(w) \/ CommitsAfter(w)
    \/ SessionFound \/ Deliver \/ LoseSocket \/ Reconnect
    \/ \E q \in Queried : IntervalFires(q) \/ Serves(q) \/ Stores(q) \/ Fails(q)

Spec == Init /\ [][Next]_vars

(* Handlers run to their end, the socket delivers, the server answers, timers fire. *)
Fairness ==
    /\ \A w \in Writers : WF_vars(Announces(w)) /\ WF_vars(CommitsAfter(w))
    /\ WF_vars(SessionFound) /\ WF_vars(Deliver)
    /\ \A q \in {"list", "overview", "people", "questions", "leaderboard"} :
          /\ WF_vars(q \in Queried /\ IntervalFires(q)) /\ WF_vars(q \in Queried /\ Serves(q))
          /\ WF_vars(q \in Queried /\ Stores(q))

FairSpec == Spec /\ Fairness

-----------------------------------------------------------------------------
TypeOK ==
    /\ view \in Pages /\ now \in [Topics -> Nat]
    /\ change \in [Writers -> Kinds \cup {NoData}]
    /\ owed \subseteq Queried /\ ready \in BOOLEAN /\ linked \in BOOLEAN
    /\ \A q \in Queried :
          /\ cache[q].fetch \in Fetches
          /\ cache[q].data # NoData => \A t \in view.reads[q] : cache[q].data[t] <= now[t]
    /\ inbox \in Seq(view.hears)

(* A page at rest shows what the server has, for every query no change left       *)
(* behind: one that announced itself before its commit, or in no event the page   *)
(* hears, or while its socket was down or its first load under way.              *)
AtRest == ready /\ inbox = <<>> /\ \A w \in Writers : change[w] = NoData
ViewAtRest ==
    AtRest => \A q \in Queried \ owed : Idle(cache[q]) => cache[q].data = Current(q)

(* Whatever was missed, the interval brings every page to what the server has.   *)
ViewIsNow == \A q \in Queried : cache[q].data = Current(q)
=============================================================================
