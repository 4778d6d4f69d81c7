------------------------------ MODULE QuizPlay ------------------------------
(* One open quiz: the host's rows of questions, the service that starts, reveals, *)
(* hides and closes them (and publishes before it commits), the question the      *)
(* participant answers and the projected one.                                  *)
EXTENDS Naturals, Sequences, FiniteSets

CONSTANTS
    Questions,    \* numbered as the quiz orders them
    NoQuestion, NoData,
    Calls,        \* actions of the host that may be under way at a time
    QuizBudgets   \* bounds: actions pressed, answers, requests or events lost; and the
                  \* pages open beside the host's

INSTANCE QueryCache

QuizAssumption == Questions \subseteq Nat

VARIABLES
    row,        \* server: each question's state, and whether its answer is visible
    answered,   \* server: questions this participant has answered
    call,       \* actions under way
    host,       \* host: cache of the rows
    pending,    \* host: the question whose buttons are disabled
    join,       \* participant: cache of the question to answer
    submitOk,   \* participant: the question is said to be answered
    post,       \* participant: the answer under way
    screen,     \* projection: cache of the rows
    inbox,      \* events on their way to each page
    crossed,    \* history: two actions overlapped
    late,       \* history: submitOk is about another question, or another run of it
    left        \* what is left of the behaviour's bounds

server  == <<row, answered>>
desk    == <<call, host, pending>>
seat    == <<join, submitOk, post, late>>
vars    == <<server, desk, seat, screen, inbox, crossed, left>>

States  == {"pending", "active", "revealed", "closed"}
Rows    == [state : States, visible : BOOLEAN]
Acts    == {"start", "reveal", "hide", "close"}
Viewers == {"join", "screen"}
Open    == left.open
NoCall  == [at |-> "free", q |-> NoQuestion, act |-> "start", writes |-> {}, clears |-> FALSE,
            page |-> TRUE]  \* page: the host's page asked, no other client
NoPost  == [at |-> "free", q |-> NoQuestion]
Nobody  == [q |-> NoQuestion, state |-> "pending", visible |-> FALSE]

Use(kind) == left[kind] > 0 /\ left' = [left EXCEPT ![kind] = @ - 1]
Running(r, q) == r[q].state \in {"active", "revealed"}
First(S)  == CHOOSE q \in S : \A p \in S : q <= p

(* get_active_question_for_participant.                                        *)
Playing ==
    LET open == {q \in Questions : Running(row, q)}
        q == First(open)
    IN IF open = {} THEN Nobody
       ELSE IF row[q].state = "revealed" /\ ~ row[q].visible THEN Nobody
       ELSE [q |-> q, state |-> row[q].state, visible |-> row[q].visible]

Init ==
    /\ row = [q \in Questions |-> [state |-> "pending", visible |-> FALSE]]
    /\ answered = {} /\ call = [c \in Calls |-> NoCall]
    /\ pending = NoQuestion /\ submitOk = FALSE /\ post = NoPost
    /\ left \in QuizBudgets
    /\ host = Loading
    /\ join = (IF "join" \in Open THEN Loading ELSE Unused)
    /\ screen = (IF "screen" \in Open THEN Loading ELSE Unused)
    /\ inbox = [v \in Viewers |-> << >>] /\ crossed = FALSE /\ late = FALSE

-----------------------------------------------------------------------------
(* The host's buttons, offered by the cached row; only the row pressed last is     *)
(* disabled.                                                                  *)
Offered(r, act) ==
    CASE act = "start"  -> r.state \in {"pending", "closed"}
      [] act = "close"  -> r.state \in {"active", "revealed"}
      [] act = "reveal" -> r.state = "active" \/ (r.state = "revealed" /\ ~ r.visible)
      [] act = "hide"   -> r.state = "revealed" /\ r.visible

Press(q, act, c) ==
    /\ Loaded(host) /\ Offered(host.data[q], act) /\ pending # q
    /\ call[c] = NoCall /\ Use("presses")
    /\ call' = [call EXCEPT ![c] = [NoCall EXCEPT !.at = "asked", !.q = q, !.act = act]]
    /\ pending' = q
    /\ UNCHANGED <<server, host, seat, screen, inbox, crossed>>

(* quiz_action reads the rows, refuses what the question's state does not allow,   *)
(* writes its own question and closes the others that run, and publishes, all      *)
(* before it commits.                                                         *)
Write(q, field, value) == [q |-> q, field |-> field, value |-> value]

SiblingsKept(q) == {}  \* mutant: the other questions are not closed
Siblings(q) ==
    {Write(p, "state", "closed") : p \in {p \in Questions \ {q} : Running(row, p)}}

Writes(q, act) ==
    CASE act = "start"  -> {Write(q, "state", "active"), Write(q, "visible", FALSE)} \cup Siblings(q)
      [] act = "reveal" -> {Write(q, "visible", TRUE)} \cup
             (IF row[q].state = "active" THEN {Write(q, "state", "revealed")} ELSE {})
      [] act = "hide"   -> {Write(q, "visible", FALSE)}
      [] act = "close"  -> {Write(q, "state", "closed")}

Allowed(q, act) ==
    IF act = "hide" THEN row[q].state = "revealed" ELSE Offered(row[q], act)

Published(q, act) == [v \in Viewers |->
    IF v \in Open THEN Append(inbox[v], [act |-> act, q |-> q]) ELSE << >>]

Others(c) == {d \in Calls \ {c} : call[d].at = "open"}

Handles(c) ==
    /\ call[c].at = "asked"
    /\ LET q == call[c].q
           act == call[c].act
       IN IF Allowed(q, act)
          THEN /\ call' = [call EXCEPT ![c].at = "open", ![c].writes = Writes(q, act),
                                       ![c].clears = (act = "start" /\ row[q].state = "closed")]
               /\ inbox' = Published(q, act)
               /\ crossed' = (crossed \/ Others(c) # {})
          ELSE call' = [call EXCEPT ![c].at = "failed"] /\ UNCHANGED <<inbox, crossed>>
    /\ UNCHANGED <<server, host, pending, seat, screen, left>>

(* Next, which no page sends but any client of the host may: it closes a question    *)
(* and starts the next pending one, if there is one, and then announces only that.   *)
Later(q) == {p \in Questions : p > q /\ row[p].state = "pending"}
Sent(q, act) == [NoCall EXCEPT !.at = "open", !.q = q, !.act = act, !.writes = Writes(q, act),
                               !.page = FALSE]

Advances(q, c) ==
    /\ call[c] = NoCall /\ Use("presses")
    /\ \/ /\ Later(q) # {} /\ inbox' = Published(First(Later(q)), "start")
          /\ call' = [call EXCEPT ![c] = Sent(First(Later(q)), "start")]
       \/ /\ Later(q) = {} /\ Running(row, q) /\ UNCHANGED inbox
          /\ call' = [call EXCEPT ![c] = Sent(q, "close")]
    /\ crossed' = (crossed \/ Others(c) # {})
    /\ UNCHANGED <<server, host, pending, seat, screen>>

(* Of two transactions the later commit wins, column by column; an index allows one *)
(* active interaction in the room.                                             *)
Applied(writes) == [q \in Questions |-> [f \in {"state", "visible"} |->
    IF \E w \in writes : w.q = q /\ w.field = f
    THEN (CHOOSE w \in writes : w.q = q /\ w.field = f).value ELSE row[q][f]]]

OneActive(r) == Cardinality({q \in Questions : r[q].state = "active"}) <= 1

Commits(c) ==
    /\ call[c].at = "open"
    /\ LET r == Applied(call[c].writes)
           again == call[c].clears /\ call[c].q \in answered
       IN IF OneActive(r)
          THEN /\ row' = r /\ call' = [call EXCEPT ![c].at = "done"]
               /\ answered' = IF again THEN answered \ {call[c].q} ELSE answered
               /\ late' = (late \/ (again /\ submitOk))
               /\ post' = IF again /\ post = [at |-> "stored", q |-> call[c].q]
                          THEN [post EXCEPT !.at = "cleared"] ELSE post
          ELSE call' = [call EXCEPT ![c].at = "failed"] /\ UNCHANGED <<server, late, post>>
    /\ UNCHANGED <<host, pending, join, submitOk, screen, inbox, crossed, left>>

LoseCall(c) ==
    /\ call[c].at \in {"asked", "done"} /\ Use("faults")
    /\ call' = [call EXCEPT ![c].at = "failed"]
    /\ UNCHANGED <<server, host, pending, seat, screen, inbox, crossed>>

(* The pressed row is patched with what it is now; the answer of either action      *)
(* enables every row again.                                                     *)
CallEnds(c) ==
    /\ call[c].at \in {"done", "failed"}
    /\ LET q == call[c].q
       IN host' = IF call[c].at = "failed" \/ ~ call[c].page THEN host
                  ELSE Refetched(Patched(host, [host.data EXCEPT ![q] = row[q]]))
    /\ pending' = (IF call[c].page THEN NoQuestion ELSE pending)
    /\ call' = [call EXCEPT ![c] = NoCall]
    /\ UNCHANGED <<server, seat, screen, inbox, crossed, left>>

-----------------------------------------------------------------------------
(* What the participant's page shows; another question, or none, resets the notice. *)
NoticeFor(d)   == submitOk /\ Loaded(join) /\ Loaded([join EXCEPT !.data = d]) /\ d.q = join.data.q

ShowsQuestion(q) ==
    /\ join' = q /\ submitOk' = NoticeFor(q.data)
    /\ late' = (late /\ submitOk')

OnQuestion(e, d) ==  \* handleWsEvent, what each event does to the cached question
    CASE e.act = "start"  -> [q |-> e.q, state |-> "active", visible |-> FALSE]
      [] e.act = "reveal" -> IF d.q = e.q THEN [d EXCEPT !.state = "revealed", !.visible = TRUE] ELSE d
      [] e.act = "hide"   -> IF d.q = e.q THEN [d EXCEPT !.visible = FALSE] ELSE d
      [] e.act = "close"  -> IF d.q = NoQuestion THEN d ELSE [d EXCEPT !.state = "closed"]

JoinHears ==
    /\ inbox["join"] # << >>
    /\ LET e == Head(inbox["join"])
           d == IF Loaded(join) THEN OnQuestion(e, join.data)
                ELSE IF e.act = "start" THEN OnQuestion(e, Nobody) ELSE NoData
           about == e.act = "close" \/ (e.act \in {"reveal", "hide"} /\ Loaded(join) /\ join.data.q = e.q)
           q == IF d = NoData THEN join ELSE Written(join, d)
       IN ShowsQuestion(IF about THEN Refetched(q) ELSE q)
    /\ inbox' = [inbox EXCEPT !["join"] = Tail(@)]
    /\ UNCHANGED <<server, desk, post, screen, crossed, left>>

(* An option is chosen; the buttons are disabled while an answer is under way,      *)
(* after it, and once the right one is shown.                                    *)
Answer ==
    /\ Loaded(join) /\ join.data.q # NoQuestion
    /\ post = NoPost /\ ~ submitOk /\ ~ (join.data.state = "revealed" /\ join.data.visible)
    /\ Use("answers")
    /\ post' = [at |-> "asked", q |-> join.data.q]
    /\ UNCHANGED <<server, desk, join, submitOk, late, screen, inbox, crossed>>

Accepts(q) == row[q].state = "active" /\ q \notin answered

ServeAnswer ==
    /\ post.at = "asked"
    /\ IF Accepts(post.q)
       THEN answered' = answered \cup {post.q} /\ post' = [post EXCEPT !.at = "stored"]
       ELSE post' = [post EXCEPT !.at = "failed"] /\ UNCHANGED answered
    /\ UNCHANGED <<row, desk, join, submitOk, late, screen, inbox, crossed, left>>

LoseAnswer ==
    /\ post.at \in {"asked", "stored", "cleared"} /\ Use("faults")
    /\ post' = [post EXCEPT !.at = "failed"]
    /\ UNCHANGED <<server, desk, join, submitOk, late, screen, inbox, crossed>>

WasStored == post.at \in {"stored", "cleared"}

AnswerEnds ==
    /\ post.at \in {"stored", "cleared", "failed"}
    /\ submitOk' = WasStored /\ post' = NoPost
    /\ late' = (submitOk' /\ (post.q # join.data.q \/ late \/ post.at = "cleared"))
    /\ UNCHANGED <<server, desk, join, screen, inbox, crossed, left>>

CloseNotice ==
    /\ submitOk /\ submitOk' = FALSE /\ late' = FALSE
    /\ UNCHANGED <<server, desk, join, post, screen, inbox, crossed, left>>

-----------------------------------------------------------------------------
(* The projection patches its rows by the same events and always reads them again;  *)
(* a question that starts closes only an active one there.                       *)
OnRows(e, r) == [q \in Questions |->
    CASE q = e.q -> (CASE e.act = "start"  -> [state |-> "active", visible |-> FALSE]
                       [] e.act = "reveal" -> [state |-> "revealed", visible |-> TRUE]
                       [] e.act = "hide"   -> [r[q] EXCEPT !.visible = FALSE]
                       [] e.act = "close"  -> [r[q] EXCEPT !.state = "closed"])
      [] q # e.q -> IF e.act = "start" /\ r[q].state = "active"
                    THEN [r[q] EXCEPT !.state = "closed"] ELSE r[q]]

ScreenHears ==
    /\ inbox["screen"] # << >>
    /\ LET e == Head(inbox["screen"])
       IN screen' = IF Loaded(screen)
                    THEN Refetched(Written(screen, OnRows(e, screen.data)))
                    ELSE Refetched(screen)
    /\ inbox' = [inbox EXCEPT !["screen"] = Tail(@)]
    /\ UNCHANGED <<server, desk, seat, crossed, left>>

LoseEvent(v) ==
    /\ inbox[v] # << >> /\ Use("faults") /\ inbox' = [inbox EXCEPT ![v] = Tail(@)]
    /\ UNCHANGED <<server, desk, seat, screen, crossed>>

(* Every page asks again by itself: the participant and the projection every 2 s,   *)
(* the host every 5 s.                                                         *)
Polls(v) ==
    /\ v \in Open \cup {"host"}
    /\ host'   = (IF v = "host" THEN Fetched(host) ELSE host)
    /\ join'   = (IF v = "join" THEN Fetched(join) ELSE join)
    /\ screen' = (IF v = "screen" THEN Fetched(screen) ELSE screen)
    /\ UNCHANGED <<server, call, pending, submitOk, post, late, inbox, crossed, left>>

FetchAnswers(v) ==
    /\ CASE v = "host"   -> host.fetch = "asked" /\ host' = Answered(host, row)
                            /\ UNCHANGED <<join, screen>>
         [] v = "join"   -> join.fetch = "asked" /\ join' = Answered(join, Playing)
                            /\ UNCHANGED <<host, screen>>
         [] v = "screen" -> screen.fetch = "asked" /\ screen' = Answered(screen, row)
                            /\ UNCHANGED <<host, join>>
    /\ UNCHANGED <<server, call, pending, submitOk, post, late, inbox, crossed, left>>

FetchStores(v) ==
    /\ CASE v = "host"   -> host.fetch = "answered" /\ host' = Stored(host)
                            /\ UNCHANGED <<join, submitOk, late, screen>>
         [] v = "join"   -> join.fetch = "answered" /\ ShowsQuestion(Stored(join))
                            /\ UNCHANGED <<host, screen>>
         [] v = "screen" -> screen.fetch = "answered" /\ screen' = Stored(screen)
                            /\ UNCHANGED <<host, join, submitOk, late>>
    /\ UNCHANGED <<server, call, pending, post, inbox, crossed, left>>

Next ==
    \/ \E c \in Calls :
         \/ \E q \in Questions, act \in Acts : Press(q, act, c)
         \/ \E q \in Questions : Advances(q, c)
         \/ Handles(c) \/ Commits(c) \/ LoseCall(c) \/ CallEnds(c)
    \/ JoinHears \/ Answer \/ ServeAnswer \/ LoseAnswer \/ AnswerEnds \/ CloseNotice
    \/ ScreenHears
    \/ \E v \in Viewers : LoseEvent(v)
    \/ \E v \in Viewers \cup {"host"} : Polls(v) \/ FetchAnswers(v) \/ FetchStores(v)

Spec == Init /\ [][Next]_vars

(* Requests end, events arrive, timers fire.                                   *)
Fairness ==
    /\ WF_vars(\E c \in Calls : Handles(c) \/ Commits(c)) /\ WF_vars(\E c \in Calls : CallEnds(c))
    /\ WF_vars(JoinHears) /\ WF_vars(ScreenHears)
    /\ \A v \in Viewers \cup {"host"} :
         WF_vars(Polls(v)) /\ WF_vars(FetchAnswers(v)) /\ WF_vars(FetchStores(v))
FairSpec == Spec /\ Fairness

-----------------------------------------------------------------------------
Shown == [q : Questions \cup {NoQuestion}, state : States, visible : BOOLEAN]

TypeOK ==
    /\ row \in [Questions -> Rows] /\ OneActive(row) /\ answered \subseteq Questions
    /\ \A c \in Calls :
         call[c].at \in {"free", "asked", "open", "done", "failed"} /\ call[c].act \in Acts
    /\ host \in Queries([Questions -> Rows]) /\ screen \in Queries([Questions -> Rows])
    /\ join \in Queries(Shown) /\ submitOk \in BOOLEAN /\ late \in BOOLEAN
    /\ post.q \in Questions \cup {NoQuestion} /\ pending \in Questions \cup {NoQuestion}
    /\ \A v \in Viewers : \A i \in 1..Len(inbox[v]) : inbox[v][i].q \in Questions

(* One question runs at a time, unless two actions overlapped: a reveal that read    *)
(* its question before another start closed it brings it back, and participants,     *)
(* who are given the first one that runs, stay on it.                            *)
OneRuns == ~ crossed => Cardinality({q \in Questions : Running(row, q)}) <= 1

(* Who is told to have answered the question shown has an answer the server keeps    *)
(* for it, unless the notice came late for an earlier question or the host started   *)
(* the question anew.                                                          *)
NoticeIsTrue == submitOk /\ ~ late => join.data.q \in answered

(* In the end every page shows what the server has, whatever was lost and although   *)
(* events are published before their commit.                                    *)
PagesAreNow == /\ host.data = row
               /\ "join" \in Open => join.data = Playing
               /\ "screen" \in Open => screen.data = row
=============================================================================
