--------------------------- MODULE HostWorkbench ---------------------------
(* The host's workbench: the list of a room's interactions with its order, the  *)
(* buttons of the selected one, the switch from one to another that starts it,   *)
(* creating, deleting and reordering, the session's status, and the events and   *)
(* fetches that keep the page up with the server, where another host acts too.   *)
EXTENDS Integers, SequencesExt

CONSTANTS
    Polls, Boards,   \* interactions with poll buttons, and quizzes, walls, surveys
    NoItem, NoData, NoCall,
    Calls,           \* requests that may be under way at once
    WorkbenchCases   \* where a behaviour starts and its bounds: buttons pressed, edits,
                     \* moves of another host, requests and events lost, changes of the link

Items == Polls \cup Boards
Bounds == {"clicks", "edits", "others", "faults", "link"}
Status == {"idle", "active", "locked", "stopped"}
Rows   == [status : Status, shown : BOOLEAN]
Lists  == [order : Seq(Items), status : [Items -> Status]]

PollActs    == {"start", "stop", "lock", "unlock", "reset", "reveal", "hide"}
BoardActs   == {"active", "stopped"}
Kinds       == {"poll", "board", "session", "golive", "create", "delete", "reorder"}
Requests ==
    [kind : Kinds, item : Items \cup {NoItem},
     act : PollActs \cup BoardActs \cup {"create", "delete", "live", "ended"} \cup Seq(Items),
     at : {"asked", "done", "failed"}, reply : Rows \cup {NoData}, before : Lists \cup {NoData}]

WorkbenchAssumption ==
    /\ Calls \subseteq Nat \ {0} /\ NoItem \notin Items /\ Polls \cap Boards = {}
    /\ NoCall \notin Requests
    /\ WorkbenchCases \subseteq
         [order : Seq(Items), status : [Items -> Status], session : {"draft", "live"},
          auto : BOOLEAN, follow : BOOLEAN, left : [Bounds -> Nat]]
    /\ \A case \in WorkbenchCases :
         IsInjective(case.order) /\ \A i \in Items \ ToSet(case.order) : case.status[i] = "idle"
    /\ NoData \notin Rows \cup Lists

INSTANCE QueryCache

VARIABLES
    order, board, session,  \* server: the items of the room, their status, the session
    gone,                   \* server: the items that were deleted; no other gets their names
    list, bench, sess,      \* the page's queries: the list, each poll, the session
    selected,               \* the item in the page's address
    auto, follow,           \* start on switching; the screen follows the workbench
    connected, told,        \* the socket, and the events that it will bring
    calls, newest,          \* requests under way; the newest of each mutation
    guard,                  \* polls whose events are skipped for 2.5 s
    missed,                 \* history: polls, or the list (NoItem), of which the page
                            \* was not told all
    promised,               \* history: what a switch made at rest was to start
    left

server == <<order, board, session, gone>>
cache  == <<list, bench, sess>>
place  == <<selected, auto, follow>>
socket == <<connected, told>>
wire   == <<calls, newest, guard>>
trace  == <<missed, promised>>
vars   == <<server, cache, place, socket, wire, trace, left>>

Mutations   == Kinds \ {"golive"}
NoPromise   == [item |-> NoItem, unlocks |-> FALSE]

Listing == [order |-> order, status |-> [i \in Items |-> board[i].status]]

Init ==
    \E case \in WorkbenchCases :
      /\ order = case.order /\ session = case.session /\ gone = {} /\ left = case.left
      /\ board = [i \in Items |-> [status |-> case.status[i], shown |-> FALSE]]
      /\ list = Written(Unused, Listing) /\ sess = Written(Unused, session)
      /\ bench = [p \in Polls |-> Unused]
      /\ selected = NoItem /\ auto = case.auto /\ follow = case.follow
      /\ connected = TRUE /\ told = <<>>
      /\ calls = [c \in Calls |-> NoCall] /\ newest = [m \in Mutations |-> 0]
      /\ guard = {} /\ missed = {} /\ promised = NoPromise

Take(kind) == left[kind] > 0 /\ left' = [left EXCEPT ![kind] = @ - 1]

-----------------------------------------------------------------------------
(* What the page shows.                                                      *)
Shown    == list.data.order
Position(s, i) == CHOOSE n \in DOMAIN s : s[n] = i
Without(s, i)  == IF Contains(s, i) THEN RemoveAt(s, Position(s, i)) ELSE s
Selected ==
    IF selected # NoItem THEN selected ELSE IF Shown = <<>> THEN NoItem ELSE Shown[1]
Current  == IF Contains(Shown, Selected) THEN Selected ELSE NoItem
Place    == IF Current = NoItem THEN 0 ELSE Position(Shown, Current)

Pending(m) == newest[m] # 0
Acting     == Pending("poll") \/ Pending("board")

IsRunning(status) == status \in {"active", "locked"}
Detail == bench[Current].data
ActiveRunning ==
    \/ Current \in Polls /\ Loaded(bench[Current]) /\ IsRunning(Detail.status)
    \/ Current \in Boards /\ list.data.status[Current] = "active"

Calm == /\ \A c \in Calls : calls[c] = NoCall
        /\ told = <<>> /\ Idle(list) /\ list.data = Listing
        /\ Idle(sess) /\ sess.data = session

(* useMutation: each mutate sends a request; the newest one's state is shown.   *)
NewCall(kind, item, act) ==
    [kind |-> kind, item |-> item, act |-> act, at |-> "asked", reply |-> NoData,
     before |-> NoData]
Send(call) ==
    \E c \in Calls :
      /\ calls[c] = NoCall /\ \A d \in Calls : d < c => calls[d] # NoCall
      /\ calls' = [calls EXCEPT ![c] = call]
      /\ newest' = IF call.kind = "golive" THEN newest ELSE [newest EXCEPT ![call.kind] = c]
      /\ guard' = guard
Ended(c, next) ==
    /\ calls' = [calls EXCEPT ![c] = next]
    /\ newest' = [m \in Mutations |-> IF newest[m] = c THEN 0 ELSE newest[m]]

(* The query of a selected poll is mounted: within five seconds of its last     *)
(* data it is not fetched again.                                              *)
Selects(i, fresh) ==
    /\ selected' = i
    /\ bench' = IF i \in Polls /\ i # Current /\ ~ (fresh /\ Loaded(bench[i]))
                THEN [bench EXCEPT ![i] = Fetched(@)] ELSE bench

-----------------------------------------------------------------------------
(* Switching.  selectItem starts what it selects, in a live session whose screen *)
(* follows, unless the list shows it active.                                  *)
Opens(i) ==
    IF i \in Boards THEN NewCall("board", i, "active")
    ELSE NewCall("poll", i, IF list.data.status[i] = "locked" THEN "unlock" ELSE "start")

ShouldStart == sess.data = "live" /\ follow /\ (auto \/ ActiveRunning)
Starts(i)   == ShouldStart /\ i # Current /\ list.data.status[i] # "active"

StartsOnSwitch(i) == Starts(i)

SelectItem(i, fresh) ==
    /\ Contains(Shown, i) /\ Take("clicks") /\ Selects(i, fresh)
    /\ IF StartsOnSwitch(i) THEN Send(Opens(i)) ELSE UNCHANGED wire
    /\ promised' = IF Calm /\ ShouldStart /\ i # Current
                   THEN [item |-> i, unlocks |-> list.data.status[i] = "locked"]
                   ELSE NoPromise
    /\ UNCHANGED <<server, list, sess, auto, follow, socket, missed>>

(* Previous and next wait for the last action, the sidebar's rows do not.        *)
GoBy(step, fresh) ==
    /\ ~ Acting /\ Place # 0 /\ Place + step \in DOMAIN Shown
    /\ SelectItem(Shown[Place + step], fresh)

ToggleAuto ==
    /\ Take("clicks") /\ auto' = ~ auto
    /\ UNCHANGED <<server, cache, selected, follow, socket, wire, trace>>

-----------------------------------------------------------------------------
(* The buttons of the selected item, and of the session.                       *)
Offered(d) ==
    {IF IsRunning(d.status) THEN "stop" ELSE "start", "reset"}
    \cup (IF IsRunning(d.status)
          THEN {IF d.status = "locked" THEN "unlock" ELSE "lock"} ELSE {})
    \cup (IF d.status # "idle" THEN {IF d.shown THEN "hide" ELSE "reveal"} ELSE {})

Presses(call) ==
    /\ Take("clicks") /\ Send(call) /\ promised' = NoPromise
    /\ UNCHANGED <<server, cache, place, socket, missed>>

PressPoll(act) ==
    /\ Current \in Polls /\ Loaded(bench[Current]) /\ ~ Pending("poll")
    /\ act \in Offered(Detail) /\ Presses(NewCall("poll", Current, act))

PressBoard ==
    /\ Current \in Boards /\ ~ Pending("board")
    /\ Presses(NewCall("board", Current,
           IF IsRunning(list.data.status[Current]) THEN "stopped" ELSE "active"))

PressSession ==
    /\ ~ Pending("session")
    /\ Presses(NewCall("session", NoItem, IF sess.data = "live" THEN "ended" ELSE "live"))

-----------------------------------------------------------------------------
(* Editing.  A row is moved by its handle or its arrows, at once in the cache.   *)
Rearranged(s, from, to) == InsertAt(RemoveAt(s, from), to, s[from])
Moved(from, to) == Rearranged(Shown, from, to)

Reorder(from, to) ==
    /\ ~ Pending("reorder") /\ {from, to} \subseteq DOMAIN Shown /\ from # to
    /\ Take("edits")
    /\ Send([NewCall("reorder", NoItem, Moved(from, to)) EXCEPT !.before = list.data])
    /\ list' = Written(Cancelled(list), [list.data EXCEPT !.order = Moved(from, to)])
    /\ UNCHANGED <<server, bench, sess, place, socket, trace>>

Fresh(i) ==
    /\ i \notin gone /\ ~ Contains(order, i)
    /\ \A c \in Calls : calls[c] # NoCall /\ calls[c].kind = "create" => calls[c].item # i

Create(i) ==
    /\ ~ Pending("create") /\ Fresh(i) /\ Take("edits")
    /\ Send(NewCall("create", i, "create")) /\ promised' = NoPromise
    /\ UNCHANGED <<server, cache, place, socket, missed>>

(* The dialog covers the page: no other item is selected before the answer.      *)
Delete ==
    /\ Current # NoItem /\ ~ Pending("delete") /\ ~ Pending("create")
    /\ ~ IsRunning(IF Current \in Polls /\ Loaded(bench[Current])
                   THEN Detail.status ELSE list.data.status[Current])
    /\ Take("edits") /\ Send(NewCall("delete", Current, "delete")) /\ promised' = NoPromise
    /\ UNCHANGED <<server, cache, place, socket, missed>>

-----------------------------------------------------------------------------
(* The server: execute_poll_action, update_interaction, reorder, create, delete, *)
(* update_session.  Each is one step here (RoomControl has their statements).     *)
Sources == [start |-> {"idle", "stopped"}, lock |-> {"active"}, unlock |-> {"locked"},
            stop |-> {"active", "locked"}, reset |-> {"active", "locked", "stopped"},
            reveal |-> {"active", "locked", "stopped"},
            hide |-> {"active", "locked", "stopped"},
            active |-> {"idle", "stopped"}, stopped |-> Status]
Goal == [start |-> "active", lock |-> "locked", unlock |-> "active", stop |-> "stopped",
         reset |-> "idle", active |-> "active", stopped |-> "stopped"]

Running(i) == {j \in Items \ {i} : Contains(order, j) /\ board[j].status = "active"}

Refused(c) ==
    CASE c.kind \in {"poll", "board"} ->
           \/ ~ Contains(order, c.item)
           \/ board[c.item].status \notin Sources[c.act] \ {c.act}
           \/ c.act = "unlock" /\ Running(c.item) # {}
      [] c.kind = "reorder" -> ToSet(c.act) # ToSet(order)
      [] c.kind = "delete"  -> IsRunning(board[c.item].status)
      [] OTHER -> FALSE

Acted(c) ==
    [i \in Items |->
       IF i = c.item
       THEN CASE c.act \in {"reveal", "hide"} -> [board[i] EXCEPT !.shown = c.act = "reveal"]
              [] c.act \in {"start", "reset"} -> [status |-> Goal[c.act], shown |-> FALSE]
              [] OTHER -> [board[i] EXCEPT !.status = Goal[c.act]]
       ELSE IF c.act \in {"start", "active"} /\ i \in Running(c.item)
       THEN [board[i] EXCEPT !.status = "stopped"] ELSE board[i]]

(* The events of polls, with the fields they carry: a start has no status.       *)
Event(p, what, mine) == [poll |-> p, what |-> what, mine |-> mine]
Said(c, mine) ==
    LET what == CASE c.act \in {"reveal", "hide", "start"} -> c.act [] OTHER -> Goal[c.act]
        own  == IF c.item \in Polls THEN <<Event(c.item, what, mine)>> ELSE <<>>
        off  == IF c.act \in {"start", "active"} THEN Running(c.item) \cap Polls ELSE {}
    IN SetToSeq({Event(p, "stopped", FALSE) : p \in off}) \o own

Applies(c, mine) ==
    CASE c.kind \in {"poll", "board"} ->
           board' = Acted(c) /\ told' = told \o Said(c, mine) /\ UNCHANGED <<order, session, gone>>
      [] c.kind \in {"session", "golive"} ->
           session' = c.act /\ UNCHANGED <<order, board, gone, told>>
      [] c.kind = "reorder" -> order' = c.act /\ UNCHANGED <<board, session, gone, told>>
      [] c.kind = "create"  -> order' = Append(order, c.item)
                               /\ UNCHANGED <<board, session, gone, told>>
      [] c.kind = "delete"  -> order' = Without(order, c.item) /\ gone' = gone \cup {c.item}
                               /\ UNCHANGED <<board, session, told>>

Serve(c) ==
    LET call == calls[c] IN
    /\ call # NoCall /\ call.at = "asked"
    /\ IF Refused(call)
       THEN /\ calls' = [calls EXCEPT ![c].at = "failed"] /\ UNCHANGED <<server, told>>
       ELSE /\ Applies(call, TRUE)
            /\ calls' = [calls EXCEPT ![c].at = "done",
                   ![c].reply = IF call.kind = "poll" THEN board'[call.item] ELSE NoData]
    /\ UNCHANGED <<cache, place, connected, newest, guard, trace, left>>

(* A request does not arrive, or its answer does not come back.                  *)
Lose(c) ==
    LET call == calls[c] IN
    /\ call # NoCall /\ call.at \in {"asked", "done"} /\ Take("faults")
    /\ calls' = [calls EXCEPT ![c].at = "failed"]
    /\ missed' = CASE call.at # "done" -> missed
                   [] call.kind = "poll" -> missed \cup {call.item}
                   [] call.kind \in {"create", "delete"} -> missed \cup {NoItem}
                   [] OTHER -> missed
    /\ promised' = NoPromise
    /\ UNCHANGED <<server, cache, place, socket, newest, guard>>

(* Another host presses a button or edits the list, in this room, of this page or  *)
(* another.  Creating, deleting and reordering publish no event: this page reads   *)
(* the list anew only if a fetch of it was just asked.                            *)
EditsList(kind) == kind \in {"create", "delete", "reorder"}
Rival(kind, i, act) ==
    LET call == NewCall(kind, i, act) IN
    /\ Take("others") /\ ~ Refused(call) /\ Applies(call, FALSE)
    /\ promised' = NoPromise
    /\ missed' = IF EditsList(kind) /\ list.fetch # "asked" THEN missed \cup {NoItem} ELSE missed
    /\ UNCHANGED <<cache, place, connected, wire>>

-----------------------------------------------------------------------------
(* The answers.                                                              *)
NotPatched(call) == bench  \* mutant: the answer of an action is not used

Benched(call) ==
    IF call.kind = "poll" THEN [bench EXCEPT ![call.item] = Patched(@, call.reply)] ELSE bench

ListRead(call) ==
    \/ call.kind = "poll" /\ call.act \in {"start", "stop", "reset"}
    \/ call.kind \in {"board", "create", "delete"}

(* handleInteractionDeleted: the next row, or the last.                          *)
Neighbour(i) ==
    LET rest == Without(Shown, i)
        at   == IF Contains(Shown, i) THEN Position(Shown, i) ELSE 1
    IN IF rest = <<>> THEN NoItem ELSE rest[IF at > Len(rest) THEN Len(rest) ELSE at]

Opening(call) == call.act \in {"start", "active"}

Done(c) ==
    LET call == calls[c]
        goes == Opening(call) /\ sess.data = "draft"
    IN /\ call # NoCall /\ call.at = "done" /\ call.kind # "reorder"
       /\ Ended(c, IF goes THEN NewCall("golive", NoItem, "live") ELSE NoCall)
       /\ guard' = IF call.kind = "poll" THEN guard \cup {call.item} ELSE guard
       /\ missed' = IF call.kind = "poll" /\ call.reply # board[call.item]
                    THEN missed \cup {call.item} ELSE missed
       /\ list' = IF ListRead(call) THEN Refetched(list) ELSE list
       /\ sess' = IF call.kind \in {"session", "golive"} THEN Refetched(sess) ELSE sess
       /\ LET goto == CASE call.kind = "create" -> call.item
                        [] call.kind = "delete" -> Neighbour(call.item)
                        [] OTHER -> selected
          IN IF call.kind \in {"create", "delete"}
             THEN \E fresh \in BOOLEAN : Selects(goto, fresh)
             ELSE UNCHANGED selected /\ bench' = Benched(call)
       /\ UNCHANGED <<server, auto, follow, socket, promised, left>>

(* An error is shown; nothing is fetched, and a failing second step of a draft's  *)
(* first start is not even shown.                                              *)
Failed(c) ==
    /\ calls[c] # NoCall /\ calls[c].at = "failed" /\ calls[c].kind # "reorder"
    /\ Ended(c, NoCall)
    /\ UNCHANGED <<server, cache, place, socket, guard, trace, left>>

ReadAgain(q) == Refetched(q)

(* onError puts the list back as it was; onSettled fetches it either way.        *)
Reordered(c) ==
    LET call == calls[c] IN
    /\ call # NoCall /\ call.kind = "reorder" /\ call.at \in {"done", "failed"}
    /\ Ended(c, NoCall)
    /\ list' = ReadAgain(IF call.at = "failed" THEN Written(list, call.before) ELSE list)
    /\ UNCHANGED <<server, bench, sess, place, socket, guard, trace, left>>

-----------------------------------------------------------------------------
(* The events.  Only those of the selected poll are used, and none of a poll      *)
(* this page has just acted on.                                                *)
Carries(d, e) ==
    CASE e.what = "reveal" -> [d EXCEPT !.shown = TRUE]
      [] e.what = "hide"   -> [d EXCEPT !.shown = FALSE]
      [] e.what = "start"  -> d
      [] OTHER -> [d EXCEPT !.status = e.what]

OnEvent(d, e) == Carries(d, e)

Deliver ==
    LET e == Head(told)
        p == e.poll
        used == p = Current /\ p \notin guard
    IN /\ connected /\ told # <<>> /\ told' = Tail(told)
       /\ bench' = IF used /\ Loaded(bench[p])
                   THEN [bench EXCEPT ![p] = Written(@, OnEvent(@.data, e))] ELSE bench
       /\ list' = IF used /\ e.what \notin {"reveal", "hide"} THEN Refetched(list) ELSE list
       /\ missed' = IF \/ ~ e.mine /\ (~ used \/ e.what \in {"start", "idle"})
                       \/ used /\ \E f \in ToSet(Tail(told)) : f.poll = p /\ f.mine
                    THEN missed \cup {p} ELSE missed
       /\ UNCHANGED <<server, sess, place, connected, wire, promised, left>>

LoseEvent ==
    /\ told # <<>> /\ ~ connected /\ Take("faults") /\ told' = Tail(told)
    /\ missed' = missed \cup {Head(told).poll}
    /\ UNCHANGED <<server, cache, place, connected, wire, promised>>

Link ==
    /\ Take("link") /\ connected' = ~ connected
    /\ UNCHANGED <<server, cache, place, told, wire, trace>>

(* 2.5 s: longer than an event takes when the socket is up.                     *)
GuardEnds(p) ==
    /\ p \in guard /\ guard' = guard \ {p}
    /\ connected => \A e \in ToSet(told) : e.poll # p
    /\ UNCHANGED <<server, cache, place, socket, calls, newest, trace, left>>

-----------------------------------------------------------------------------
(* The fetches: on the first selection, on demand, and by timers while the        *)
(* socket is down.                                                            *)
Open ==
    /\ Current \in Polls /\ bench[Current] = Unused
    /\ bench' = [bench EXCEPT ![Current] = Fetched(@)]
    /\ UNCHANGED <<server, list, sess, place, socket, wire, trace, left>>

Targets == Polls \cup {"list", "session"}

Backup(t) ==
    /\ ~ connected /\ t \in {Current, "list"} \ {NoItem}
    /\ IF t = "list" THEN list' = Fetched(list) /\ list' # list /\ bench' = bench
       ELSE bench' = [bench EXCEPT ![t] = Fetched(@)] /\ bench' # bench /\ list' = list
    /\ UNCHANGED <<server, sess, place, socket, wire, trace, left>>

AnswerFetch(t) ==
    /\ CASE t = "list" ->
              list.fetch = "asked" /\ list' = Answered(list, Listing) /\ UNCHANGED <<bench, sess>>
         [] t = "session" ->
              sess.fetch = "asked" /\ sess' = Answered(sess, session) /\ UNCHANGED <<bench, list>>
         [] OTHER -> /\ bench[t].fetch = "asked"
                     /\ bench' = [bench EXCEPT ![t] =
                                      IF t \in gone THEN GivenUp(@) ELSE Answered(@, board[t])]
                     /\ UNCHANGED <<list, sess>>
    /\ UNCHANGED <<server, place, socket, wire, trace, left>>

StoreFetch(t) ==
    /\ CASE t = "list" ->
              /\ list.fetch = "answered" /\ list' = Stored(list) /\ UNCHANGED <<bench, sess>>
              /\ missed' = IF list.reply.order = order THEN missed \ {NoItem} ELSE missed
         [] t = "session" ->
              sess.fetch = "answered" /\ sess' = Stored(sess) /\ UNCHANGED <<bench, list, missed>>
         [] OTHER ->
              /\ bench[t].fetch = "answered" /\ bench' = [bench EXCEPT ![t] = Stored(@)]
              /\ missed' = IF bench[t].reply = board[t] THEN missed \ {t} ELSE missed \cup {t}
              /\ UNCHANGED <<list, sess>>
    /\ UNCHANGED <<server, place, socket, wire, promised, left>>

(* A fetch fails for good, or its answer is lost.                                *)
LoseFetch(t) ==
    /\ Take("faults")
    /\ CASE t = "list" ->
              ~ Idle(list) /\ list' = GivenUp(list) /\ UNCHANGED <<bench, sess>>
         [] t = "session" ->
              ~ Idle(sess) /\ sess' = GivenUp(sess) /\ UNCHANGED <<bench, list>>
         [] OTHER -> /\ ~ Idle(bench[t]) /\ bench' = [bench EXCEPT ![t] = GivenUp(@)]
                     /\ UNCHANGED <<list, sess>>
    /\ missed' = CASE t = "list" -> missed \cup {NoItem}
                   [] t = "session" -> missed
                   [] OTHER -> missed \cup {t}
    /\ UNCHANGED <<server, place, socket, wire, promised>>

-----------------------------------------------------------------------------
Host == \/ \E i \in Items, fresh \in BOOLEAN : SelectItem(i, fresh)
        \/ \E step \in {-1, 1}, fresh \in BOOLEAN : GoBy(step, fresh)
        \/ ToggleAuto
        \/ \E act \in PollActs : PressPoll(act)
        \/ PressBoard \/ PressSession
        \/ \E from, to \in DOMAIN Shown : Reorder(from, to)
        \/ \E i \in Items : Create(i)
        \/ Delete
Others == \/ \E p \in Polls, act \in PollActs : Rival("poll", p, act)
          \/ \E b \in Boards, act \in BoardActs : Rival("board", b, act)
          \/ \E i \in Items : Fresh(i) /\ Rival("create", i, "create")
          \/ \E i \in ToSet(order) : Rival("delete", i, "delete")
          \/ \E from, to \in DOMAIN order :
               from # to /\ Rival("reorder", NoItem, Rearranged(order, from, to))
Faults == (\E c \in Calls : Lose(c)) \/ LoseEvent \/ Link \/ \E t \in Targets : LoseFetch(t)
Ends(c) == Done(c) \/ Failed(c) \/ Reordered(c)

Next == \/ Host \/ Others \/ Faults \/ Deliver \/ Open
        \/ \E p \in Polls : GuardEnds(p)
        \/ \E c \in Calls : Serve(c) \/ Ends(c)
        \/ \E t \in Targets : Backup(t) \/ AnswerFetch(t) \/ StoreFetch(t)

Fairness == /\ WF_vars(Deliver) /\ WF_vars(Open) /\ WF_vars(\E p \in Polls : GuardEnds(p))
            /\ WF_vars(\E c \in Calls : Serve(c)) /\ WF_vars(\E c \in Calls : Ends(c))
            /\ \A t \in Targets : WF_vars(Backup(t)) /\ WF_vars(AnswerFetch(t))
                                  /\ WF_vars(StoreFetch(t))
Spec     == Init /\ [][Next]_vars
FairSpec == Spec /\ Fairness

-----------------------------------------------------------------------------
TypeOK ==
    /\ ToSet(order) \subseteq Items /\ IsInjective(order)
    /\ board \in [Items -> Rows]
    /\ ToSet(Shown) \subseteq Items /\ selected \in Items \cup {NoItem}
    /\ \A c \in Calls : calls[c] # NoCall => calls[c].kind \in Kinds
    /\ guard \subseteq Polls /\ missed \subseteq Polls \cup {NoItem}
    /\ gone \subseteq Items

AtRest == (\A c \in Calls : calls[c] = NoCall) /\ connected /\ told = <<>> /\ Idle(list)

(* The buttons of the selected poll are those of its status at the server, after  *)
(* any sequence of switches, actions, answers and events: except for a change the  *)
(* page was told while it had another item selected or had just acted on the poll   *)
(* itself, a start or a reset by another host (the events do not carry all they    *)
(* change), an answer or a fetch that was lost or had been overtaken, an event that  *)
(* comes late, after this page's own later action, and a poll that another host      *)
(* deleted, which the list keeps.                                               *)
BenchAtRest ==
    AtRest /\ Current \in Polls \ (missed \cup gone) /\ Loaded(bench[Current]) /\ Idle(bench[Current])
    => Detail = board[Current]

(* The list at rest has the items of the room in the order the server keeps, after *)
(* moves that were refused or whose answer was lost too.  Until the list is next    *)
(* read, not after a lost answer to a creation or a deletion, a fetch that failed,   *)
(* or a creation, deletion or move by another host: no event tells of these, and    *)
(* while the socket is up the list has no interval.                              *)
OrderAtRest == AtRest /\ NoItem \notin missed => Shown = order

(* A switch made at rest, in a live session with the screen following, leaves the  *)
(* selected item the running one, whatever ran before; a locked item aside.       *)
SelectedRuns ==
    AtRest /\ promised.item # NoItem /\ ~ promised.unlocks
    => board[promised.item].status = "active"

(* While the socket stays down the page comes to show what the server has.         *)
DetailIsNow == Current \in Polls => Detail = board[Current]
=============================================================================
