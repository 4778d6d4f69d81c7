--------------------------- MODULE ParticipantPage ---------------------------
(* A participant's room page: what it caches of the session's state and of     *)
(* the polls, the handler of room events, the polling that backs it up, tabs    *)
(* and the submission of an answer; with the hosts' moves on the room (those    *)
(* of PollRoom) and the two ways an event takes to the page's socket.           *)
EXTENDS Naturals, Sequences

CONSTANTS
    Polls, Others,  \* interactions of the room: polls; a Q&A, a survey, ...
    Hosts,          \* requests hosts may have in progress at a time
    NoItem, NoData,
    Budgets         \* bounds a behaviour may have: the requests in use, and how many
                    \* moves of hosts, losses of the socket, submissions there are

Items == Polls \cup Others

Statuses  == {"off", "active", "locked"}
Snapshots == [open : SUBSET Items, ended : BOOLEAN]
Details   == [status : Statuses, mine : BOOLEAN]

PageAssumption ==
    /\ Polls \cap Others = {} /\ NoItem \notin Items
    /\ NoData \notin Snapshots /\ NoData \notin Details
    /\ Budgets \subseteq [hosts : SUBSET Hosts, moves : Nat, losses : Nat, answers : Nat]

INSTANCE QueryCache

VARIABLES
    board,     \* server: status of each interaction
    ended,     \* server: the session is over
    answered,  \* server: polls the participant has an answer of
    outbox,    \* events each request still has to publish
    opening,   \* a patch has published its stop and not committed yet
    connected, \* the socket is open
    direct, relay, \* events on their way: sent by the publisher, by the channel
    stateQ,    \* cache of the session's state
    pollQ,     \* cache of each poll
    known,     \* knownActiveInteractionsRef
    synced,    \* initialSyncDoneRef
    tab,       \* the tab shown: "poll" or an interaction of Others
    over,      \* the dialog that the session has ended
    sub,       \* the submission in flight: its poll, how far it is, and whether
               \* that poll has been shown since (history)
    ok,        \* pollSubmitOk
    okFor,     \* history: the poll whose submission set it, unless overtaken
    blind,     \* history: an event was missed, or met the first load
    strayed,   \* history: two requests published at the same time, or a poll was
               \* unlocked while another tab was shown
    budget     \* what is left of the behaviour's bounds

server == <<board, ended, answered>>
bus    == <<outbox, opening, connected, direct, relay>>
page   == <<stateQ, pollQ, known, synced, tab, over, ok, okFor>>
past   == <<blind, strayed>>
vars   == <<server, bus, page, sub, past, budget>>

Event(kind, i) == [kind |-> kind, item |-> i]
NoSub == [poll |-> NoItem, at |-> "none", kept |-> FALSE]

(* GET /sessions/{id}/state lists what is active, not what is locked.          *)
Snapshot  == [open |-> {i \in Items : board[i] = "active"}, ended |-> ended]
Detail(p) == [status |-> board[p], mine |-> p \in answered]

Init ==
    /\ board \in [Items -> Statuses]
    /\ \A i, j \in Items : board[i] = "active" /\ board[j] = "active" => i = j
    /\ \A i \in Others : board[i] # "locked"
    /\ ended = FALSE /\ answered = {}
    /\ outbox = [h \in Hosts |-> <<>>] /\ opening = [h \in Hosts |-> NoItem]
    /\ connected = FALSE /\ direct = <<>> /\ relay = <<>>
    /\ stateQ = Loading /\ pollQ = [p \in Polls |-> Unused]
    /\ known = {} /\ synced = FALSE /\ tab = "poll" /\ over = FALSE
    /\ sub = NoSub /\ ok = FALSE /\ okFor = NoItem
    /\ blind = FALSE /\ strayed = FALSE
    /\ budget \in Budgets

-----------------------------------------------------------------------------
(* Rendering: what the page derives from its caches, and its effects.          *)

(* activePollId of a cached state.                                             *)
ActivePoll(q) ==
    IF Loaded(q) /\ q.data.open \cap Polls # {}
    THEN CHOOSE p \in Polls : p \in q.data.open ELSE NoItem

Shown == ActivePoll(stateQ)

KeepsOk(q)  == FALSE  \* mutant: the effect on activePollId is gone
ResetsOk(q) == ActivePoll(q) # Shown

TabOf(i) == IF i \in Polls THEN "poll" ELSE i

NeverForgets(k, open) == k \cup open  \* mutant: what has ended stays known
KnownAfter(k, open)   == (k \cap open) \cup open

(* The effect on active_interactions: the first state shows what runs, a later *)
(* one announces what is new and goes to it.                                   *)
Sync(q, k, t) ==
    IF ~ Loaded(q) THEN known' = k /\ tab' = t /\ UNCHANGED synced
    ELSE LET open == q.data.open
             news == IF synced THEN open \ k
                     ELSE IF open \cap Polls = {} THEN open ELSE {}
         IN  /\ known' = KnownAfter(k, open) /\ synced' = TRUE
             /\ IF news = {} THEN tab' = t ELSE \E i \in news : tab' = TabOf(i)

(* The page is rendered with the caches q and ps, the known set k, the tab t    *)
(* and the flag o, and its effects run.                                        *)
Render(q, ps, k, t, o) ==
    /\ stateQ' = q
    /\ pollQ' = [p \in Polls |-> IF ActivePoll(q) = p /\ p # Shown
                                 THEN Mounted(ps[p]) ELSE ps[p]]
    /\ Sync(q, k, t)
    /\ over' = (over \/ (Loaded(q) /\ q.data.ended))
    /\ ok' = IF ResetsOk(q) THEN FALSE ELSE o
    /\ okFor' = IF ok' THEN okFor ELSE NoItem
    /\ sub' = [sub EXCEPT !.kept = @ /\ ActivePoll(q) = Shown]

-----------------------------------------------------------------------------
(* The hosts.  A request commits its move and then publishes its events; the    *)
(* patch endpoint publishes the stop of the displaced poll before its commit.   *)

(* A bounded step is taken.                                                    *)
Spend(kind) == budget[kind] > 0 /\ budget' = [budget EXCEPT ![kind] = @ - 1]

Free(h) == outbox[h] = <<>> /\ opening[h] = NoItem

Move(h) ==
    /\ Free(h) /\ ~ ended
    /\ h \in budget.hosts /\ h = CHOOSE g \in budget.hosts : Free(g)  \* they are alike
    /\ Spend("moves")
    /\ strayed' = (strayed \/ \E g \in Hosts \ {h} : ~ Free(g))
    /\ UNCHANGED <<answered, connected, page, sub>>

Announce(h, events) ==
    /\ outbox' = [outbox EXCEPT ![h] = events]
    /\ UNCHANGED <<opening, direct, relay, blind>>

Running == {i \in Items : board[i] = "active"}

Activated(i) ==
    [j \in Items |-> IF j = i THEN "active"
                     ELSE IF board[j] = "active" THEN "off" ELSE board[j]]

StartPoll(h, p) ==
    /\ Move(h) /\ board[p] = "off"
    /\ board' = Activated(p)
    /\ \/ /\ Running = {}
          /\ Announce(h, <<Event("started", p)>>)
       \/ \E j \in Running :
             Announce(h, <<Event("stopped", j), Event("started", p)>>)
    /\ UNCHANGED ended

Shift(h, p, from, to, kind) ==
    /\ Move(h) /\ board[p] \in from
    /\ board' = [board EXCEPT ![p] = to]
    /\ Announce(h, <<Event(kind, p)>>)
    /\ UNCHANGED ended

StopPoll(h, p)   == Shift(h, p, {"active", "locked"}, "off", "stopped")
LockPoll(h, p)   == Shift(h, p, {"active"}, "locked", "locked")
UnlockPoll(h, p) == Running = {} /\ Shift(h, p, {"locked"}, "active", "unlocked")

(* Closing a Q&A or a survey is not announced at all.                          *)
CloseOther(h, i) ==
    /\ Move(h) /\ board[i] = "active"
    /\ board' = [board EXCEPT ![i] = "off"]
    /\ Announce(h, <<>>)
    /\ UNCHANGED ended

EndSession(h) ==
    /\ Move(h)
    /\ ended' = TRUE
    /\ Announce(h, <<Event("over", NoItem)>>)
    /\ UNCHANGED board

(* publish(): to the page's socket at once and, through the channel, again.    *)
Send(e) ==
    IF connected
    THEN direct' = Append(direct, e) /\ relay' = Append(relay, e) /\ UNCHANGED blind
    ELSE blind' = TRUE /\ UNCHANGED <<direct, relay>>

OpenOther(h, i) ==
    /\ Move(h) /\ board[i] = "off"
    /\ \/ \E p \in Running \cap Polls :
             /\ Send(Event("stopped", p))
             /\ opening' = [opening EXCEPT ![h] = i]
             /\ UNCHANGED <<board, outbox>>
       \/ /\ Running \cap Polls = {}
          /\ board' = Activated(i)
          /\ Announce(h, <<Event("opened", i)>>)
    /\ UNCHANGED ended

OpenCommits(h) ==
    /\ opening[h] # NoItem
    /\ board' = Activated(opening[h])
    /\ outbox' = [outbox EXCEPT ![h] = <<Event("opened", opening[h])>>]
    /\ opening' = [opening EXCEPT ![h] = NoItem]
    /\ UNCHANGED <<ended, answered, connected, direct, relay, page, sub, past, budget>>

Publish(h) ==
    /\ outbox[h] # <<>>
    /\ Send(Head(outbox[h]))
    /\ outbox' = [outbox EXCEPT ![h] = Tail(@)]
    /\ UNCHANGED <<server, opening, connected, page, sub, strayed, budget>>

-----------------------------------------------------------------------------
(* The socket.                                                                 *)

Connect ==
    /\ ~ connected /\ connected' = TRUE
    /\ UNCHANGED <<server, outbox, opening, direct, relay, page, sub, past, budget>>

Lose ==
    /\ connected /\ connected' = FALSE
    /\ Spend("losses")
    /\ blind' = (blind \/ direct # <<>> \/ relay # <<>>)
    /\ direct' = <<>> /\ relay' = <<>>
    /\ UNCHANGED <<server, outbox, opening, page, sub, strayed>>

-----------------------------------------------------------------------------
(* handleWsEvent.                                                              *)

(* invalidateQueries(["poll", p]) while the page shows what it shows.          *)
PollUntouched(p) == pollQ  \* mutant: only the list is refetched
PollInvalidated(p) ==
    [pollQ EXCEPT ![p] = IF p = Shown THEN Refetched(@) ELSE Marked(@)]

Opens(open) == IF Loaded(stateQ) THEN [stateQ.data EXCEPT !.open = open] ELSE NoData

StateRefetched(open) == Refetched(Patched(stateQ, Opens(open)))

OpenNow == IF Loaded(stateQ) THEN stateQ.data.open ELSE {}

OnInteractionStarted(i) ==
    Render(StateRefetched(OpenNow \cup {i}), pollQ, known \cup {i}, TabOf(i), ok)

OnPollStarted(p) ==
    Render(StateRefetched((OpenNow \ Polls) \cup {p}), PollInvalidated(p),
           known \cup {p}, "poll", FALSE)

OnPollStopped(p) ==
    Render(StateRefetched(OpenNow \ {p}),
           IF p \in Polls THEN PollInvalidated(p) ELSE pollQ, known \ {p}, tab, ok)

(* Locking changes nothing in the list the page holds.                         *)
OnPollLockChange(p) == Render(stateQ, PollInvalidated(p), known, tab, ok)

OnSessionEnded ==
    /\ over' = TRUE
    /\ UNCHANGED <<stateQ, pollQ, known, synced, tab, ok, okFor, sub>>

(* The event found the first load of what it is about still under way, or an    *)
(* answer under way for a poll that is not shown (it is marked stale only, and   *)
(* that answer clears the mark), or unlocks a poll the page does not list: the   *)
(* next poll of the server tells.                                               *)
Unseen(e) ==
    \/ ~ Loaded(stateQ)
    \/ e.item \in Polls /\ ~ Idle(pollQ[e.item]) /\ ~ Loaded(pollQ[e.item])
    \/ e.item \in Polls \ {Shown} /\ pollQ[e.item].fetch = "answered"
    \/ e.kind = "unlocked" /\ (e.item # Shown \/ ~ Idle(stateQ))

Handle(e) ==
    /\ CASE e.kind = "opened"               -> OnInteractionStarted(e.item)
         [] e.kind = "started"              -> OnPollStarted(e.item)
         [] e.kind = "stopped"              -> OnPollStopped(e.item)
         [] e.kind \in {"locked", "unlocked"} -> OnPollLockChange(e.item)
         [] e.kind = "over"                 -> OnSessionEnded
    /\ blind' = (blind \/ Unseen(e))
    /\ strayed' = (strayed \/ (e.kind = "unlocked" /\ tab # "poll"))
    /\ UNCHANGED <<server, outbox, opening, connected, budget>>

ReceiveDirect ==
    /\ direct # <<>>
    /\ Handle(Head(direct))
    /\ direct' = Tail(direct) /\ UNCHANGED relay

(* The channel brings the second copy of an event after the first.             *)
ReceiveRelayed ==
    /\ Len(relay) > Len(direct)
    /\ Handle(Head(relay))
    /\ relay' = Tail(relay) /\ UNCHANGED direct

-----------------------------------------------------------------------------
(* Fetches: the 30 s intervals, the server's answers, their arrival.           *)

cacheOnly == <<server, bus, past, budget>>

PollsAgain == TRUE

IntervalState ==
    /\ PollsAgain
    /\ Idle(stateQ) /\ stateQ' = Fetched(stateQ)
    /\ UNCHANGED <<server, bus, pollQ, known, synced, tab, over, ok, okFor, sub, past, budget>>

IntervalPoll(p) ==
    /\ PollsAgain
    /\ p = Shown /\ Idle(pollQ[p]) /\ pollQ' = [pollQ EXCEPT ![p] = Fetched(@)]
    /\ UNCHANGED <<server, bus, stateQ, known, synced, tab, over, ok, okFor, sub, past, budget>>

AnswerState ==
    /\ stateQ.fetch = "asked" /\ stateQ' = Answered(stateQ, Snapshot)
    /\ UNCHANGED <<server, bus, pollQ, known, synced, tab, over, ok, okFor, sub, past, budget>>

AnswerPoll(p) ==
    /\ pollQ[p].fetch = "asked" /\ pollQ' = [pollQ EXCEPT ![p] = Answered(@, Detail(p))]
    /\ UNCHANGED <<server, bus, stateQ, known, synced, tab, over, ok, okFor, sub, past, budget>>

StoreState ==
    /\ stateQ.fetch = "answered"
    /\ Render(Stored(stateQ), pollQ, known, tab, ok)
    /\ UNCHANGED cacheOnly

StorePoll(p) ==
    /\ pollQ[p].fetch = "answered"
    /\ Render(stateQ, [pollQ EXCEPT ![p] = Stored(@)], known, tab, ok)
    /\ UNCHANGED cacheOnly

-----------------------------------------------------------------------------
(* The participant: answering a poll (no change of an answer is allowed).      *)

Submit(p) ==
    /\ tab = "poll" /\ p = Shown /\ sub.at = "none" /\ ~ over
    /\ Loaded(pollQ[p]) /\ pollQ[p].data = [status |-> "active", mine |-> FALSE]
    /\ Spend("answers")
    /\ sub' = [poll |-> p, at |-> "sent", kept |-> TRUE]
    /\ ok' = FALSE /\ okFor' = NoItem
    /\ UNCHANGED <<server, bus, stateQ, pollQ, known, synced, tab, over, past>>

ServerTakes ==
    /\ sub.at = "sent"
    /\ IF board[sub.poll] = "active" /\ sub.poll \notin answered
       THEN answered' = answered \cup {sub.poll} /\ sub' = [sub EXCEPT !.at = "taken"]
       ELSE UNCHANGED answered /\ sub' = [sub EXCEPT !.at = "refused"]
    /\ UNCHANGED <<board, ended, bus, page, past, budget>>

SubmitSucceeds ==
    /\ sub.at = "taken"
    /\ ok' = TRUE /\ okFor' = IF sub.kept THEN sub.poll ELSE Shown
    /\ sub' = NoSub
    /\ pollQ' = IF Shown = NoItem THEN pollQ ELSE [pollQ EXCEPT ![Shown] = Refetched(@)]
    /\ UNCHANGED <<server, bus, stateQ, known, synced, tab, over, past, budget>>

SubmitFails ==
    /\ sub.at = "refused"
    /\ ok' = FALSE /\ okFor' = NoItem
    /\ sub' = NoSub
    /\ UNCHANGED <<server, bus, stateQ, pollQ, known, synced, tab, over, past, budget>>

CloseOkDialog ==
    /\ ok /\ tab = "poll" /\ ok' = FALSE /\ okFor' = NoItem
    /\ UNCHANGED <<server, bus, stateQ, pollQ, known, synced, tab, over, sub, past, budget>>

-----------------------------------------------------------------------------
HostSteps ==
    \E h \in Hosts :
       \/ OpenCommits(h) \/ Publish(h) \/ EndSession(h)
       \/ \E p \in Polls : StartPoll(h, p) \/ StopPoll(h, p) \/ LockPoll(h, p) \/ UnlockPoll(h, p)
       \/ \E i \in Others : OpenOther(h, i) \/ CloseOther(h, i)

Next ==
    \/ HostSteps \/ Connect \/ Lose
    \/ ReceiveDirect \/ ReceiveRelayed
    \/ IntervalState \/ AnswerState \/ StoreState
    \/ \E p \in Polls : IntervalPoll(p) \/ AnswerPoll(p) \/ StorePoll(p) \/ Submit(p)
    \/ ServerTakes \/ SubmitSucceeds \/ SubmitFails \/ CloseOkDialog

Spec == Init /\ [][Next]_vars

(* The page stays open: its timer runs and its requests are answered.  Nothing  *)
(* is assumed of the events.                                                   *)
FairSpec ==
    /\ Spec
    /\ WF_vars(IntervalState) /\ WF_vars(AnswerState) /\ WF_vars(StoreState)

-----------------------------------------------------------------------------
(* Types; what is known is what the loaded state lists.                        *)
TypeOK ==
    /\ board \in [Items -> Statuses] /\ ended \in BOOLEAN /\ answered \subseteq Polls
    /\ opening \in [Hosts -> Others \cup {NoItem}] /\ connected \in BOOLEAN
    /\ stateQ \in Queries(Snapshots) /\ pollQ \in [Polls -> Queries(Details)]
    /\ known \subseteq Items /\ (Loaded(stateQ) => known = stateQ.data.open)
    /\ synced \in BOOLEAN /\ tab \in Others \cup {"poll"}
    /\ over \in BOOLEAN /\ ok \in BOOLEAN /\ okFor \in Polls \cup {NoItem}
    /\ sub.poll \in Polls \cup {NoItem} /\ sub.at \in {"none", "sent", "taken", "refused"} /\ sub.kept \in BOOLEAN

ActiveOnServer ==
    IF Running \cap Polls = {} THEN NoItem ELSE CHOOSE p \in Polls : p \in Running

AtRest ==
    /\ \A h \in Hosts : Free(h)
    /\ direct = <<>> /\ relay = <<>>
    /\ Loaded(stateQ) /\ Idle(stateQ) /\ \A p \in Polls : Idle(pollQ[p])

(* When every event has been handled and every fetch has come back, the page    *)
(* shows the running poll, or a locked one, with the status the server has,     *)
(* without waiting for an interval: no answer asked for before an event is      *)
(* stored after it, and copies of an event in any order do no harm.             *)
AgreesAtRest ==
    AtRest /\ ~ blind =>
       /\ ActiveOnServer # NoItem => Shown = ActiveOnServer
       /\ Shown # NoItem =>
             /\ board[Shown] # "off"
             /\ pollQ[Shown].data.status = board[Shown]

(* A participant is where the running interaction is, as long as the hosts'     *)
(* requests do not overlap and no poll is unlocked behind another tab (the       *)
(* handler of poll_unlocked leaves the tab alone): late copies of older events   *)
(* do not take the tab elsewhere for good.                                       *)
TabAtRest ==
    AtRest /\ ~ blind /\ ~ strayed /\ Running # {} => \E i \in Running : tab = TabOf(i)

(* "Submitted" is said of the poll that is shown, unless another poll came      *)
(* while the submission was under way.                                          *)
OkIsForShown == ok => okFor = Shown

(* Whatever is missed, the page comes to show what runs, and the end of the     *)
(* session: the polling repairs it.                                             *)
ShowsWhatRuns == (Running # {} => Shown = ActiveOnServer) /\ (ended => over)
=============================================================================
