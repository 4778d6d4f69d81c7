---------------------------- MODULE ScreenControl ----------------------------
(* What the projection screen shows: the hook the host's pages steer it with   *)
(* (one instance per page or panel, each with its own refs), the requests it    *)
(* sends, the state the server keeps and announces, and the screen's copy.     *)
EXTENDS Naturals, Sequences, FiniteSets

CONSTANTS
    Polls, Quizzes, \* items of the workbench
    NoItem, NoView, NoData,
    Slots,          \* update requests that may be under way at a time
    Budgets         \* bounds: presses of the panel's buttons, moves on the workbench,
                    \* refetches of the host, requests that fail, losses of the socket,
                    \* and whether a projection screen is open

Items == Polls \cup Quizzes

ScreenAssumption ==
    /\ Polls \cap Quizzes = {} /\ NoItem \notin Items
    /\ Budgets \subseteq [presses : Nat, moves : Nat, polls : Nat, fails : Nat, losses : Nat,
                    screen : BOOLEAN]

INSTANCE QueryCache

(* screenPayloadKey: a view, its interaction and its sub-view.                 *)
View(kind, item, sub) == [kind |-> kind, item |-> item, sub |-> sub]
Plain(kind)    == View(kind, NoItem, "none")
KindOf(i)      == IF i \in Polls THEN "poll" ELSE "quiz"
Question(i)    == View(KindOf(i), i, "question")
Results(i)     == View(KindOf(i), i, "results")
Leaderboard(i) == View("quiz", i, "leaderboard")

PlainKinds == {"standby", "test", "overview", "qa"}
Views == {Plain(k) : k \in PlainKinds} \cup {Question(i) : i \in Items}
         \cup {Results(i) : i \in Items} \cup {Leaderboard(i) : i \in Quizzes}

(* The components that hold an instance: two pages, and the panel of a quiz.   *)
Mounts == {"workbench", "moderation", "quiz"}

VARIABLES
    stored,    \* server: the room's display state
    put,       \* update requests under way
    direct, relay, \* announcements on their way to the screen's socket
    ctl,       \* of each instance: lastSyncedKey, queuedPayload, manual override
    page,      \* the host's page
    follow,    \* followEnabled: of the page's instance, of the quiz panel's
    selected,  \* the item of the workbench
    timer,     \* the item the 200 ms timer will project
    synced,    \* lastSyncedIdRef
    paused,    \* an action of the workbench is under way
    hostQ, screenQ, \* caches of the display state: the host's, the screen's
    connected, \* the screen's socket
    want,      \* history: the last view the host asked for
    crossed,   \* history: why the server may have another one (see Say)
    blind,     \* history: the screen missed an announcement, met it while fetching,
               \* or one was made of a state that was overwritten already
    budget

server == <<stored, direct, relay>>
bench  == <<page, follow, selected, timer, synced, paused>>
screen == <<screenQ, connected>>
vars   == <<server, put, ctl, bench, hostQ, screen, want, crossed, blind, budget>>

NoPut == [by |-> "none", view |-> NoView, at |-> "free", direct |-> FALSE, heard |-> FALSE]
Fresh == [last |-> NoView, queued |-> NoView, manual |-> FALSE]

Init ==
    /\ stored = Plain("standby")
    /\ put = [s \in Slots |-> NoPut] /\ direct = <<>> /\ relay = <<>>
    /\ ctl = [m \in Mounts |-> Fresh]
    /\ page = "workbench"
    /\ \E f \in BOOLEAN : follow = [page |-> f, quiz |-> f]
    /\ selected \in Items /\ timer = (IF follow.page THEN selected ELSE NoItem)
    /\ synced = NoItem /\ paused = FALSE
    /\ hostQ = Written(Unused, stored) /\ connected = FALSE
    /\ want = stored /\ crossed = FALSE /\ blind = FALSE
    /\ budget \in Budgets
    /\ screenQ = IF budget.screen THEN Loading ELSE Unused

Spend(kind) == budget[kind] > 0 /\ budget' = [budget EXCEPT ![kind] = @ - 1]

Busy    == {s \in Slots : put[s] # NoPut}
Mine(m) == {s \in Busy : put[s].by = m}

(* isPending: of the last update an instance asked for.                        *)
Updating(m) == \E s \in Mine(m) : put[s].heard

-----------------------------------------------------------------------------
(* Sending.                                                                    *)

(* mutate: its own callbacks replace those of an earlier one.                  *)
Mutate(m, v, isDirect) ==
    \E s \in Slots \ Busy :
        put' = [t \in Slots |->
                  IF t = s THEN [by |-> m, view |-> v, at |-> "sent",
                                 direct |-> isDirect, heard |-> TRUE]
                  ELSE IF t \in Mine(m) THEN [put[t] EXCEPT !.heard = FALSE]
                  ELSE put[t]]

(* sendScreenState, by instance m whose refs are k.  The server may end with    *)
(* another view than the last one wanted when that one is dropped as a repeat   *)
(* although another was asked for since; when it waits behind an update that    *)
(* flushes nothing; when it is sent while an update nobody waits for, or one of *)
(* another instance, is under way.                                             *)
NeverPending(m) == FALSE  \* mutant: the pending flag is not looked at
MustWait(m)     == Updating(m)

Say(m, k, v, force) ==
    /\ want' = v
    /\ IF ~ force /\ k.last = v
       THEN /\ ctl' = [ctl EXCEPT ![m] = k] /\ UNCHANGED put
            /\ crossed' = (crossed \/ want # v)
       ELSE IF MustWait(m)
       THEN /\ ctl' = [ctl EXCEPT ![m] = [k EXCEPT !.queued = v]] /\ UNCHANGED put
            /\ crossed' = (crossed \/ \E s \in Mine(m) : put[s].heard /\ put[s].direct)
       ELSE /\ ctl' = [ctl EXCEPT ![m] = [k EXCEPT !.last = v]]
            /\ Mutate(m, v, FALSE)
            /\ crossed' = (crossed \/ \E s \in Busy : ~ (s \in Mine(m) /\ put[s].heard))

Quiet == UNCHANGED <<ctl, put, want, crossed>>

(* pushScreen.  Each instance reads the stored setting when it is mounted.       *)
Follows(m) == IF m = "quiz" THEN follow.quiz ELSE follow.page
Push(m, v) == IF Follows(m) THEN Say(m, ctl[m], v, FALSE) ELSE Quiet

Overriding(m) == [ctl[m] EXCEPT !.manual = TRUE, !.last = NoView]

(* showTest, showStandby: sent at once, whatever is under way.                 *)
ShowAtOnce(m, v) ==
    /\ want' = v
    /\ ctl' = [ctl EXCEPT ![m] = Overriding(m)]
    /\ Mutate(m, v, TRUE)
    /\ crossed' = (crossed \/ Busy # {})

(* The instances in ms go: their callbacks and queues with them.               *)
Unmounted(ms) ==
    /\ ctl' = [m \in Mounts |-> IF m \in ms THEN Fresh ELSE ctl[m]]
    /\ put' = [s \in Slots |-> IF put[s].by \in ms THEN [put[s] EXCEPT !.heard = FALSE]
                               ELSE put[s]]
    /\ crossed' = (crossed \/ \E m \in ms : ctl[m].queued # NoView)
    /\ UNCHANGED want

-----------------------------------------------------------------------------
(* The host: the panel of buttons, on either page.                             *)

hostRest == <<server, hostQ, screen, blind>>

Press == Spend("presses") /\ UNCHANGED hostRest
Work  == Spend("moves") /\ page = "workbench" /\ UNCHANGED hostRest
PressPanel == Press /\ ~ Updating(page) /\ UNCHANGED bench

ShowTest == PressPanel /\ ShowAtOnce(page, Plain("test"))

PressStandby ==
    /\ PressPanel
    /\ IF Loaded(hostQ) /\ hostQ.data.kind = "standby"
       THEN Push(page, Plain("overview"))
       ELSE ShowAtOnce(page, Plain("standby"))

ShowOverview == PressPanel /\ Push(page, Plain("overview"))

(* The item the timer is started for when the effect of useScreenWorkbenchSync  *)
(* runs again.                                                                 *)
TimerFor(i, done, f, m) ==
    IF f /\ ~ m /\ i # NoItem /\ i # done THEN i ELSE NoItem

(* handleQaProjection also goes to the moderation page.  (A bound: the workbench *)
(* is left between its actions.)                                               *)
ShowQa ==
    /\ Press /\ ~ Updating(page) /\ ~ paused
    /\ IF page = "moderation"
       THEN Say(page, Overriding(page), Plain("qa"), TRUE) /\ UNCHANGED bench
       ELSE /\ page' = "moderation" /\ timer' = NoItem /\ synced' = NoItem
            /\ UNCHANGED <<follow, selected, paused>>
            /\ want' = Plain("qa")
            /\ ctl' = [m \in Mounts |-> Fresh]
            /\ crossed' = (crossed \/ Busy # {})
            /\ \E s \in Slots \ Busy :
                  put' = [t \in Slots |->
                            IF t = s THEN [by |-> "workbench", view |-> Plain("qa"),
                                           at |-> "sent", direct |-> FALSE, heard |-> FALSE]
                            ELSE [put[t] EXCEPT !.heard = FALSE]]

ToggleFollow ==
    /\ Press
    /\ follow' = [page |-> ~ follow.page,
                  quiz |-> IF page = "workbench" /\ selected \in Quizzes THEN follow.quiz
                           ELSE ~ follow.page]
    /\ timer' = IF paused \/ page # "workbench" THEN NoItem
                ELSE TimerFor(selected, synced, ~ follow.page, ctl["workbench"].manual)
    /\ UNCHANGED <<page, selected, synced, paused>> /\ Quiet

(* QaControlBar: the Q&A has been opened, closed; nothing is disabled.         *)
QaOpened ==
    /\ Press /\ page = "moderation" /\ UNCHANGED bench
    /\ Say(page, Overriding(page), Plain("qa"), TRUE)

QaClosed ==
    /\ Press /\ page = "moderation" /\ UNCHANGED bench
    /\ ShowAtOnce(page, Plain("standby"))

-----------------------------------------------------------------------------
(* The workbench.                                                              *)

LeavesTimer ==  \* mutant: the effect's cleanup is missing
    /\ Press /\ page = "workbench" /\ ~ paused
    /\ page' = "moderation" /\ synced' = NoItem
    /\ UNCHANGED <<follow, selected, timer, paused>>
    /\ Unmounted({"workbench", "quiz"})

Leave ==
    /\ Press /\ page = "workbench" /\ ~ paused
    /\ page' = "moderation" /\ timer' = NoItem /\ synced' = NoItem
    /\ UNCHANGED <<follow, selected, paused>>
    /\ Unmounted({"workbench", "quiz"})

Return ==
    /\ Press /\ page = "moderation"
    /\ page' = "workbench"
    /\ follow' = [follow EXCEPT !.quiz = follow.page]
    /\ timer' = TimerFor(selected, NoItem, follow.page, FALSE)
    /\ UNCHANGED <<selected, synced, paused>>
    /\ Unmounted({"moderation"})

(* Another item; the panel of a quiz comes and goes with its item.             *)
Select(i) ==
    /\ Work /\ i # selected
    /\ selected' = i
    /\ follow' = [follow EXCEPT !.quiz = follow.page]
    /\ timer' = IF paused THEN NoItem
                ELSE TimerFor(i, synced, follow.page, ctl["workbench"].manual)
    /\ UNCHANGED <<page, synced, paused>>
    /\ Unmounted({"quiz"})

(* The timer fires.                                                            *)
SyncWorkbench ==
    /\ timer # NoItem /\ timer' = NoItem
    /\ IF ctl["workbench"].manual THEN UNCHANGED synced /\ Quiet
       ELSE synced' = timer /\ Push("workbench", Question(timer))
    /\ UNCHANGED <<hostRest, page, follow, selected, paused, budget>>

(* An action on an interaction begins, and ends; revealing or hiding the        *)
(* results of a poll turns the screen to them.                                 *)
ActionBegins ==
    /\ Work /\ ~ paused
    /\ paused' = TRUE /\ timer' = NoItem
    /\ UNCHANGED <<page, follow, selected, synced>> /\ Quiet

ActionEnds ==
    /\ paused /\ paused' = FALSE
    /\ timer' = TimerFor(selected, synced, follow.page, ctl["workbench"].manual)
    /\ \/ Quiet
       \/ \E p \in Polls : \E v \in {Question(p), Results(p)} : Push("workbench", v)
    /\ UNCHANGED <<hostRest, page, follow, selected, synced, budget>>

(* pushQuizProjection: the two buttons turn the question or the leaderboard on   *)
(* or off, from what the host's cache says is projected.                       *)
QuizView(i, question, board) ==
    IF question THEN IF board THEN Results(i) ELSE Question(i)
    ELSE IF board THEN Leaderboard(i) ELSE Plain("standby")

PressQuiz ==
    /\ Work /\ selected \in Quizzes /\ ~ Updating("quiz")
    /\ LET sub == IF Loaded(hostQ) /\ hostQ.data.kind = "quiz" /\ hostQ.data.item = selected
                  THEN hostQ.data.sub ELSE "none"
           question == sub \in {"question", "results"}
           board    == sub \in {"leaderboard", "results"}
       IN  \/ Push("quiz", QuizView(selected, ~ question, board))
           \/ Push("quiz", QuizView(selected, question, ~ board))
    /\ UNCHANGED bench

OverrideExpires(m) ==
    /\ ctl[m].manual /\ ctl' = [ctl EXCEPT ![m].manual = FALSE]
    /\ UNCHANGED <<hostRest, put, bench, want, crossed, budget>>

-----------------------------------------------------------------------------
(* The server, and the answers.                                                *)

(* The state is set in Redis, then announced.                                  *)
Persist(s) ==
    /\ put[s].at = "sent"
    /\ stored' = put[s].view
    /\ put' = [put EXCEPT ![s].at = "kept"]
    /\ UNCHANGED <<direct, relay, ctl, bench, hostQ, screen, want, crossed, blind, budget>>

Announce(s) ==
    /\ put[s].at = "kept"
    /\ put' = [put EXCEPT ![s].at = "ok"]
    /\ IF connected THEN /\ direct' = Append(direct, put[s].view)
                         /\ relay' = Append(relay, put[s].view)
       ELSE UNCHANGED <<direct, relay>>
    /\ blind' = (blind \/ ~ connected \/ stored # put[s].view)
    /\ UNCHANGED <<stored, ctl, bench, hostQ, screen, want, crossed, budget>>

Fail(s) ==
    /\ put[s].at \in {"sent", "kept"} /\ Spend("fails")
    /\ put' = [put EXCEPT ![s].at = "failed"]
    /\ blind' = (blind \/ put[s].at = "kept")
    /\ UNCHANGED <<server, ctl, bench, hostQ, screen, want, crossed>>

Flushes(s)     == put[s].heard /\ ~ put[s].direct

(* The answer is back: the host's cache, then the callbacks of this update:     *)
(* flushScreenQueue, or for a direct one the key it has set.  A failure nothing *)
(* follows loses the host's word.                                              *)
Settle(s) ==
    LET m == put[s].by
        next == ctl[m].queued
        ok == put[s].at = "ok"
    IN  /\ put[s].at \in {"ok", "failed"}
        /\ hostQ' = IF ok THEN Written(hostQ, put[s].view) ELSE hostQ
        /\ IF Flushes(s) /\ next # NoView
           THEN /\ ctl' = [ctl EXCEPT ![m].queued = NoView, ![m].last = next]
                /\ put' = [put EXCEPT ![s] = [by |-> m, view |-> next, at |-> "sent",
                                              direct |-> FALSE, heard |-> TRUE]]
                /\ crossed' = (crossed \/ Busy # {s})
           ELSE /\ ctl' = IF ok /\ put[s].heard /\ put[s].direct
                          THEN [ctl EXCEPT ![m].last = put[s].view] ELSE ctl
                /\ put' = [put EXCEPT ![s] = NoPut]
                /\ crossed' = (crossed \/ (~ ok /\ next = NoView))
        /\ UNCHANGED <<server, bench, screen, want, blind, budget>>

-----------------------------------------------------------------------------
(* The caches: intervals of 5 and 10 s, answers, announcements.                *)

queryRest == <<server, put, ctl, bench, want, crossed, budget>>

HostPolls ==
    /\ Idle(hostQ) /\ Spend("polls") /\ hostQ' = Fetched(hostQ)
    /\ UNCHANGED <<server, put, ctl, bench, screen, want, crossed, blind>>

HostAsked ==
    /\ hostQ.fetch = "asked" /\ hostQ' = Answered(hostQ, stored)
    /\ UNCHANGED <<queryRest, screen, blind>>

HostStores ==
    /\ hostQ.fetch = "answered" /\ hostQ' = Stored(hostQ)
    /\ UNCHANGED <<queryRest, screen, blind>>

BackupPolls  == TRUE

ScreenRefetches ==
    /\ BackupPolls /\ budget.screen /\ Idle(screenQ) /\ screenQ' = Fetched(screenQ)
    /\ UNCHANGED <<queryRest, hostQ, connected, blind>>

ScreenAsked ==
    /\ screenQ.fetch = "asked" /\ screenQ' = Answered(screenQ, stored)
    /\ UNCHANGED <<queryRest, hostQ, connected, blind>>

ScreenStores ==
    /\ screenQ.fetch = "answered" /\ screenQ' = Stored(screenQ)
    /\ UNCHANGED <<queryRest, hostQ, connected, blind>>

(* handleWs: an answer on its way is not called back.                          *)
OnlyMarks(q, v)           == Marked(q)  \* mutant: the cache is only marked stale
OnScreenViewChanged(q, v) == Written(q, v)

Handle(v) ==
    /\ screenQ' = OnScreenViewChanged(screenQ, v)
    /\ blind' = (blind \/ ~ Idle(screenQ))
    /\ UNCHANGED <<stored, put, ctl, bench, hostQ, connected, want, crossed, budget>>

ReceiveDirect ==
    direct # <<>> /\ Handle(Head(direct)) /\ direct' = Tail(direct) /\ UNCHANGED relay

ReceiveRelayed ==
    /\ Len(relay) > Len(direct)
    /\ Handle(Head(relay)) /\ relay' = Tail(relay) /\ UNCHANGED direct

Connect ==
    /\ budget.screen /\ ~ connected /\ connected' = TRUE
    /\ UNCHANGED <<queryRest, hostQ, screenQ, blind>>

Lose ==
    /\ connected /\ connected' = FALSE /\ Spend("losses")
    /\ blind' = (blind \/ direct # <<>> \/ relay # <<>>)
    /\ direct' = <<>> /\ relay' = <<>>
    /\ UNCHANGED <<stored, put, ctl, bench, hostQ, screenQ, want, crossed>>

-----------------------------------------------------------------------------
Next ==
    \/ ShowTest \/ PressStandby \/ ShowOverview \/ ShowQa \/ ToggleFollow
    \/ QaOpened \/ QaClosed \/ Leave \/ Return \/ PressQuiz
    \/ \E i \in Items : Select(i)
    \/ SyncWorkbench \/ ActionBegins \/ ActionEnds
    \/ \E m \in Mounts : OverrideExpires(m)
    \/ \E s \in Slots : Persist(s) \/ Announce(s) \/ Fail(s) \/ Settle(s)
    \/ HostPolls \/ HostAsked \/ HostStores
    \/ ScreenRefetches \/ ScreenAsked \/ ScreenStores
    \/ ReceiveDirect \/ ReceiveRelayed \/ Connect \/ Lose

Spec == Init /\ [][Next]_vars

(* The screen's timer runs and its requests are answered.                      *)
FairSpec == Spec /\ WF_vars(ScreenRefetches) /\ WF_vars(ScreenAsked) /\ WF_vars(ScreenStores)

-----------------------------------------------------------------------------
(* Types; at most one update of an instance has callbacks left, the timer is    *)
(* for the selected item, and nothing is projected from a workbench out of      *)
(* sight.                                                                      *)
Puts == [by : Mounts, view : Views, at : {"sent", "kept", "ok", "failed"},
         direct : BOOLEAN, heard : BOOLEAN] \cup {NoPut}
Ctls == [last : Views \cup {NoView}, queued : Views \cup {NoView}, manual : BOOLEAN]

TypeOK ==
    /\ stored \in Views /\ put \in [Slots -> Puts] /\ ctl \in [Mounts -> Ctls]
    /\ page \in Mounts \ {"quiz"} /\ follow \in [page : BOOLEAN, quiz : BOOLEAN] /\ selected \in Items
    /\ timer \in {NoItem, selected} /\ synced \in Items \cup {NoItem} /\ paused \in BOOLEAN
    /\ hostQ \in Queries(Views) /\ screenQ \in Queries(Views) /\ connected \in BOOLEAN
    /\ want \in Views /\ crossed \in BOOLEAN /\ blind \in BOOLEAN
    /\ \A m \in Mounts : Cardinality({s \in Mine(m) : put[s].heard}) <= 1
    /\ timer # NoItem => page = "workbench" /\ ~ paused

(* Once the answers are in, nothing waits in a queue and the server has the     *)
(* last view the host asked for: neither the queue, nor leaving out repeats,    *)
(* nor the callbacks of a superseded update lose it, except in the ways that    *)
(* crossed names.                                                              *)
LastWordWins ==
    Busy = {} /\ ~ crossed =>
        stored = want /\ \A m \in Mounts : ctl[m].queued = NoView

(* The screen shows what the server has as soon as announcements and answers    *)
(* are in, without its backup: the second copies of older announcements do not  *)
(* leave it behind.                                                            *)
ScreenAtRest ==
    /\ Busy = {} /\ direct = <<>> /\ relay = <<>> /\ Loaded(screenQ) /\ Idle(screenQ)
    /\ ~ blind
    => screenQ.data = stored

(* Whatever is lost or overtaken, the screen comes to show what the server has. *)
ScreenShowsStored == budget.screen => screenQ.data = stored
=============================================================================
