------------------------------ MODULE Joining -------------------------------
(* Participants join a session: the pages of a browser (tabs) that ask for the   *)
(* code, show the form and the room, what localStorage keeps for all of them,    *)
(* and the host who opens and ends sessions meanwhile.                          *)
EXTENDS Naturals

CONSTANTS
    Tabs, Sessions,
    NoSession,    \* no session, no code
    NoData,       \* nothing cached
    Posts,        \* requests to join that may be under way
    JoinBudgets   \* bounds: the sessions live first, those one joins by signing in
                  \* elsewhere; addresses entered, joins, leavings, moves of the host,
                  \* whether an ended session may be opened again, faults

Statuses == {"draft", "live", "ended"}

JoiningAssumption ==
    /\ NoSession \notin Sessions /\ NoData \notin Statuses
    /\ JoinBudgets \subseteq [live : SUBSET Sessions, sso : SUBSET Sessions, walks : Nat,
                              joins : Nat, leaves : Nat, moves : Nat, reopens : Nat,
                              faults : Nat]

INSTANCE QueryCache

VARIABLES
    status,  \* server: what each session is
    rows,    \* server: participants made for this browser since it held another session
    stored,  \* localStorage: the session joined and the code it was joined by
    page,    \* the page each tab shows, and its code
    byCode,  \* each tab's cache of the sessions, by their codes
    broken,  \* sessions whose last fetch by code failed
    post,    \* requests to join: the tab, the session, the code its page has now, and
             \* whether that page is still there
    seen,    \* RoomPage: what was stored when it was last rendered
    stateQ,  \* each tab's cache of the sessions' states
    over,    \* RoomPage: the dialog that the session has ended
    told,    \* the announcement of the end is on its way to the room page
    meant,   \* history: the session the participant asked to join last
    crossed, \* history: something was asked while a join was under way
    renamed, \* history: the code was changed under a join
    held,    \* history: the form was there before another page joined
    doubt,   \* history: sessions knowingly joined again
    moved,   \* history: the room page's session changed under it
    reopened,\* history: the host opened an ended session again
    left     \* what is left of the behaviour's bounds

vars  == <<status, rows, stored, page, byCode, broken, post, seen, stateQ, over, told,
           meant, crossed, renamed, held, doubt, moved, reopened, left>>
room  == <<seen, stateQ, over, told, moved>>
past  == <<meant, crossed, renamed, doubt>>

Nowhere   == [session |-> NoSession, code |-> NoSession]
At(p, c)  == [at |-> p, code |-> c]
NoPost    == [at |-> "none", tab |-> NoSession, session |-> NoSession, code |-> NoSession,
              own |-> FALSE]

WithSso   == left.sso

Use(kind) == left[kind] > 0 /\ left' = [left EXCEPT ![kind] = @ - 1]

Init ==
    /\ left \in JoinBudgets
    /\ status = [s \in Sessions |-> IF s \in left.live THEN "live" ELSE "draft"]
    /\ rows = [s \in Sessions |-> 0] /\ stored = Nowhere
    /\ page = [t \in Tabs |-> At("entry", NoSession)]
    /\ byCode = [t \in Tabs |-> [s \in Sessions |-> Unused]]
    /\ broken = [t \in Tabs |-> {}]
    /\ post = [k \in Posts |-> NoPost]
    /\ seen = [t \in Tabs |-> Nowhere]
    /\ stateQ = [t \in Tabs |-> [s \in Sessions |-> Unused]]
    /\ over = [t \in Tabs |-> FALSE] /\ told = [t \in Tabs |-> FALSE]
    /\ meant = NoSession /\ crossed = FALSE /\ renamed = FALSE
    /\ held = [t \in Tabs |-> FALSE] /\ doubt = {}
    /\ moved = [t \in Tabs |-> FALSE] /\ reopened = FALSE

Under(k) == post[k].at # "none"
Joins    == {k \in Posts : Under(k)}

-----------------------------------------------------------------------------
(* App: the pages.  One that goes takes its mutation's isPending along; what it  *)
(* has sent is answered all the same.                                          *)

Abandoned(t) ==
    [k \in Posts |-> IF post[k].tab = t THEN [post[k] EXCEPT !.own = FALSE] ELSE post[k]]

(* RoomPage reads what is stored when it is rendered; its observer asks.         *)
ShowsRoom(t, context) ==
    /\ page' = [page EXCEPT ![t] = At("room", NoSession)]
    /\ seen' = [seen EXCEPT ![t] = context]
    /\ stateQ' = IF context = Nowhere THEN stateQ
                 ELSE [stateQ EXCEPT ![t][context.session] = Fetched(@)]
    /\ over' = [over EXCEPT ![t] = context # Nowhere
                                   /\ stateQ[t][context.session].data = "ended"]
    /\ told' = [told EXCEPT ![t] = FALSE] /\ moved' = [moved EXCEPT ![t] = FALSE]

ShowsPage(t, p) == page' = [page EXCEPT ![t] = p] /\ UNCHANGED room

(* The mutation in flight takes over the code of the page, which is rendered     *)
(* with another one.                                                           *)
Recoded(t, s) ==
    [k \in Posts |-> IF post[k].tab = t /\ post[k].own THEN [post[k] EXCEPT !.code = s]
                     ELSE post[k]]

(* JoinPage is shown for s, or changes to it where it is shown already; the       *)
(* effect on the session it has cached sends who has joined it to the room.      *)
ShowsJoin(t, s, now) ==
    /\ held' = [held EXCEPT ![t] = FALSE]
    /\ IF Loaded(byCode[t][s]) /\ now.session = s
       THEN ShowsRoom(t, now) /\ post' = Abandoned(t) /\ UNCHANGED byCode
       ELSE /\ ShowsPage(t, At("join", s))
            /\ post' = IF page[t].at = "join" THEN Recoded(t, s) ELSE Abandoned(t)
            /\ byCode' = [byCode EXCEPT ![t][s] = Fetched(@)]

Submitting(t) == \E k \in Joins : post[k].tab = t /\ post[k].own

(* CodeEntryPage's form, a link, an address: in the page that shows a form, too. *)
Enters(t, s) ==
    /\ page[t].at \in {"entry", "join"} /\ page[t].code # s /\ Use("walks")
    /\ ShowsJoin(t, s, stored)
    /\ renamed' = (renamed \/ (page[t].at = "join" /\ Submitting(t)))
    /\ UNCHANGED <<status, rows, stored, broken, meant, crossed, doubt, reopened>>

TurnsBack(t) ==
    /\ page[t].at \in {"join", "ticket"} \/ (page[t].at = "room" /\ seen[t] = Nowhere)
    /\ Use("walks")
    /\ ShowsPage(t, At("entry", NoSession)) /\ post' = Abandoned(t)
    /\ held' = [held EXCEPT ![t] = FALSE]
    /\ UNCHANGED <<status, rows, stored, byCode, broken, past, reopened>>

-----------------------------------------------------------------------------
(* JoinPage: the session by its code, asked every 2 s until it is live.         *)

Waiting(q) == ~ Loaded(q) \/ q.data # "live"

IntervalFires(t) ==
    /\ page[t].at = "join"
    /\ LET s == page[t].code
       IN  /\ Idle(byCode[t][s]) /\ Waiting(byCode[t][s])
           /\ byCode' = [byCode EXCEPT ![t][s] = Fetched(@)]
    /\ UNCHANGED <<status, rows, stored, page, broken, post, room, held, past, reopened,
                   left>>

WindowFocused(t) ==
    /\ page[t].at = "join" /\ Use("walks")
    /\ byCode' = [byCode EXCEPT ![t][page[t].code] = Fetched(@)]
    /\ UNCHANGED <<status, rows, stored, page, broken, post, room, held, past, reopened>>

AnswersByCode(t, s) ==
    /\ byCode[t][s].fetch = "asked"
    /\ byCode' = [byCode EXCEPT ![t][s] = Answered(@, status[s])]
    /\ UNCHANGED <<status, rows, stored, page, broken, post, room, held, past, reopened,
                   left>>

(* The effect on the session that is loaded: who has joined it goes to its room. *)
IsIn(s) == stored.session = s

StoresByCode(t, s) ==
    /\ byCode[t][s].fetch = "answered"
    /\ byCode' = [byCode EXCEPT ![t][s] = Stored(@)]
    /\ broken' = [broken EXCEPT ![t] = @ \ {s}]
    /\ IF page[t] = At("join", s) /\ IsIn(s) /\ byCode[t][s].reply # byCode[t][s].data
       THEN /\ ShowsRoom(t, stored) /\ post' = Abandoned(t)
            /\ held' = [held EXCEPT ![t] = FALSE]
       ELSE UNCHANGED <<page, room, held, post>>
    /\ UNCHANGED <<status, rows, stored, past, reopened, left>>

FetchFails(t, s) ==
    /\ byCode[t][s].fetch = "asked" /\ Use("faults")
    /\ byCode' = [byCode EXCEPT ![t][s] = Cancelled(@)]
    /\ broken' = [broken EXCEPT ![t] = @ \cup {s}]
    /\ UNCHANGED <<status, rows, stored, page, post, room, held, past, reopened>>

(* The form is shown for a session that was live, and not instead of an error.  *)
Offered(t) ==
    /\ page[t].at = "join" /\ page[t].code \notin broken[t]
    /\ byCode[t][page[t].code].data = "live"

-----------------------------------------------------------------------------
(* Joining.                                                                    *)

Sends(t, s) ==
    \E k \in Posts :
       /\ ~ Under(k) /\ k = CHOOSE j \in Posts : ~ Under(j)  \* they are alike
       /\ post' = [post EXCEPT ![k] =
                      [at |-> "sent", tab |-> t, session |-> s, code |-> s, own |-> TRUE]]
       /\ meant' = s /\ crossed' = (crossed \/ Joins # {})
       /\ doubt' = IF held[t] \/ \E j \in Joins : post[j].session = s
                   THEN doubt \cup {s} ELSE doubt

Presses(t) ==
    /\ Offered(t) /\ page[t].code \notin WithSso
    /\ ~ Submitting(t) /\ Use("joins") /\ Sends(t, page[t].code)
    /\ UNCHANGED <<status, rows, stored, page, byCode, broken, room, held, renamed,
                   reopened>>

(* The link to the sign-in leaves the application; the callback starts it anew. *)
SignsInElsewhere(t) ==
    /\ Offered(t) /\ page[t].code \in WithSso /\ Use("joins")
    /\ \A k \in Joins : post[k].tab # t
    /\ ShowsPage(t, At("callback", page[t].code)) /\ UNCHANGED held
    /\ byCode' = [byCode EXCEPT ![t] = [s \in Sessions |-> IF s = page[t].code THEN Loading
                                                           ELSE Unused]]
    /\ broken' = [broken EXCEPT ![t] = {}]
    /\ UNCHANGED <<status, rows, stored, post, past, reopened>>

(* SsoCallbackPage, once the session is known.                                 *)
SendsTicket(t) ==
    /\ page[t].at = "callback" /\ Loaded(byCode[t][page[t].code])
    /\ Sends(t, page[t].code)
    /\ page' = [page EXCEPT ![t].at = "ticket"]
    /\ UNCHANGED <<status, rows, stored, byCode, broken, room, held, renamed, reopened,
                   left>>

(* join_session, join_with_sso: it must be live; else, or for a wrong passcode or *)
(* a missing name, it refuses.                                                 *)
Admits(s) == status[s] = "live"
Serves(k) ==
    /\ post[k].at = "sent"
    /\ \/ /\ Admits(post[k].session)
          /\ rows' = [rows EXCEPT ![post[k].session] = @ + 1]
          /\ post' = [post EXCEPT ![k].at = "admitted"]
          /\ UNCHANGED left
       \/ /\ IF Admits(post[k].session) THEN Use("faults") ELSE UNCHANGED left
          /\ post' = [post EXCEPT ![k].at = "refused"] /\ UNCHANGED rows
    /\ UNCHANGED <<status, stored, page, byCode, broken, room, held, past, reopened>>

AnswerLost(k) ==
    /\ post[k].at = "admitted" /\ Use("faults")
    /\ post' = [post EXCEPT ![k].at = "refused"]
    /\ doubt' = doubt \cup {post[k].session}
    /\ UNCHANGED <<status, rows, stored, page, byCode, broken, room, held, meant, crossed,
                   renamed, reopened>>

ByTicket(k) == post[k].session \in WithSso

(* setParticipantSession, and the address of the room, wherever the tab is.  The *)
(* callback page listens no longer once it is gone.                            *)
Drops(k) ==
    /\ post' = [post EXCEPT ![k] = NoPost]
    /\ doubt' = doubt \cup {post[k].session}
    /\ meant' = IF meant = post[k].session THEN stored.session ELSE meant
    /\ UNCHANGED <<stored, rows, page, room, held>>

HeldElsewhere(t, s) ==
    [u \in Tabs |-> held[u] \/ (u # t /\ page[u].code = s
                              /\ (page[u].at = "callback" \/ Loaded(byCode[u][s])))]

Keeps(k, t, s) ==
    /\ stored' = [session |-> s, code |-> post[k].code]
    /\ rows' = [r \in Sessions |-> IF r = s THEN rows[r] ELSE 0]
    /\ held' = [HeldElsewhere(t, s) EXCEPT ![t] = FALSE]
    /\ IF page[t].at = "room" THEN post' = [post EXCEPT ![k] = NoPost] /\ UNCHANGED <<page, room>>
       ELSE ShowsRoom(t, stored') /\ post' = [Abandoned(t) EXCEPT ![k] = NoPost]
    /\ UNCHANGED <<doubt, meant>>

Joined(k) ==
    /\ post[k].at = "admitted"
    /\ IF ByTicket(k) /\ ~ post[k].own THEN Drops(k)
       ELSE Keeps(k, post[k].tab, post[k].session)
    /\ UNCHANGED <<status, byCode, broken, crossed, renamed, reopened, left>>

(* An error is shown; the callback page offers the way back.                    *)
NotJoined(k) ==
    /\ post[k].at = "refused"
    /\ post' = [post EXCEPT ![k] = NoPost]
    /\ meant' = IF meant = post[k].session THEN stored.session ELSE meant
    /\ UNCHANGED <<status, rows, stored, page, byCode, broken, room, held, crossed, renamed,
                   doubt, reopened, left>>

-----------------------------------------------------------------------------
(* RoomPage.                                                                   *)

(* A rendering with what is stored now: another session than before is asked    *)
(* for, and the announcements of the old one are no longer heard.               *)
Renders(t, cache) ==
    /\ seen' = [seen EXCEPT ![t] = stored]
    /\ stateQ' = IF stored.session \in {NoSession, seen[t].session} THEN cache
                 ELSE [cache EXCEPT ![t][stored.session] = Fetched(@)]
    /\ moved' = [moved EXCEPT ![t] = @ \/ stored.session # seen[t].session]
    /\ told' = [told EXCEPT ![t] = @ /\ stored.session = seen[t].session]
    /\ over' = [over EXCEPT ![t] = @ \/ (stored # Nowhere /\
                                         cache[t][stored.session].data = "ended")]

Polled(t) == page[t].at = "room" /\ seen[t] # Nowhere

RoomPolls(t) ==
    /\ Polled(t) /\ Idle(stateQ[t][seen[t].session])
    /\ stateQ' = [stateQ EXCEPT ![t][seen[t].session] = Fetched(@)]
    /\ UNCHANGED <<status, rows, stored, page, byCode, broken, post, seen, over, told,
                   moved, held, past, reopened, left>>

AnswersState(t, s) ==
    /\ stateQ[t][s].fetch = "asked"
    /\ stateQ' = [stateQ EXCEPT ![t][s] = Answered(@, status[s])]
    /\ UNCHANGED <<status, rows, stored, page, byCode, broken, post, seen, over, told,
                   moved, held, past, reopened, left>>

StoresState(t, s) ==
    /\ stateQ[t][s].fetch = "answered"
    /\ LET cache == [stateQ EXCEPT ![t][s] = Stored(@)]
       IN  IF Polled(t) /\ s = seen[t].session THEN Renders(t, cache)
           ELSE stateQ' = cache /\ UNCHANGED <<seen, over, told, moved>>
    /\ UNCHANGED <<status, rows, stored, page, byCode, broken, post, held, past, reopened,
                   left>>

HearsOfTheEnd(t) ==
    /\ told[t]
    /\ over' = [over EXCEPT ![t] = TRUE] /\ told' = [told EXCEPT ![t] = FALSE]
    /\ UNCHANGED <<status, rows, stored, page, byCode, broken, post, seen, stateQ, moved,
                   held, past, reopened, left>>

(* The button, and that of the dialog: what is stored is given up, and the page  *)
(* is the form for the code the room was rendered with.                        *)
Leaves(t) ==
    /\ Polled(t) /\ Use("leaves")
    /\ stored' = Nowhere /\ rows' = [s \in Sessions |-> 0]
    /\ ShowsJoin(t, seen[t].code, Nowhere)
    /\ meant' = NoSession /\ crossed' = (crossed \/ Joins # {})
    /\ UNCHANGED <<status, broken, renamed, doubt, reopened>>

-----------------------------------------------------------------------------
(* The host: update_session, and its announcement to the rooms' sockets.         *)

Opens(s) ==
    /\ status[s] # "live" /\ Use("moves")
    /\ status[s] = "ended" => left.reopens > 0
    /\ status' = [status EXCEPT ![s] = "live"]
    /\ reopened' = (reopened \/ status[s] = "ended")
    /\ UNCHANGED <<rows, stored, page, byCode, broken, post, room, held, past>>

Ends(s) ==
    /\ status[s] = "live" /\ Use("moves")
    /\ status' = [status EXCEPT ![s] = "ended"]
    /\ \E lost \in SUBSET Tabs :  \* their sockets are down
          told' = [t \in Tabs |-> told[t] \/ (t \notin lost /\ Polled(t) /\ seen[t].session = s)]
    /\ UNCHANGED <<rows, stored, page, byCode, broken, post, seen, stateQ, over, moved,
                   held, past, reopened>>

-----------------------------------------------------------------------------
Posting(k) == Serves(k) \/ Joined(k) \/ NotJoined(k)
Browser(t) ==
    \/ TurnsBack(t) \/ WindowFocused(t) \/ IntervalFires(t) \/ Presses(t)
    \/ SignsInElsewhere(t) \/ SendsTicket(t) \/ RoomPolls(t) \/ HearsOfTheEnd(t) \/ Leaves(t)
    \/ \E s \in Sessions : Enters(t, s) \/ AnswersByCode(t, s) \/ StoresByCode(t, s)
                           \/ FetchFails(t, s) \/ AnswersState(t, s) \/ StoresState(t, s)

Next ==
    \/ \E t \in Tabs : Browser(t)
    \/ \E k \in Posts : Posting(k) \/ AnswerLost(k)
    \/ \E s \in Sessions : Opens(s) \/ Ends(s)

Spec == Init /\ [][Next]_vars

-----------------------------------------------------------------------------
(* Types; a page that is gone has no form to hold and no dialog to show.        *)
TypeOK ==
    /\ status \in [Sessions -> Statuses] /\ rows \in [Sessions -> Nat]
    /\ stored.session \in Sessions \cup {NoSession} /\ stored.code \in Sessions \cup {NoSession}
    /\ \A t \in Tabs : /\ page[t].at \in {"entry", "join", "callback", "ticket", "room"}
                       /\ page[t].at \in {"join", "callback", "ticket"} => page[t].code \in Sessions
                       /\ byCode[t] \in [Sessions -> Queries(Statuses)]
                       /\ stateQ[t] \in [Sessions -> Queries(Statuses)]
                       /\ broken[t] \subseteq Sessions

(* Once no join is under way, the browser is in the session its user asked for   *)
(* last, in whichever page, or in none after leaving, unless that was asked while  *)
(* a join was still under way.                                                 *)
JoinedAsMeant == Joins = {} /\ ~ crossed => stored.session = meant

(* The code kept is that of the session kept: leaving it leads back to its form.  *)
(* Only an address changed while the form is sent makes them differ.             *)
CodeIsOfSession == renamed \/ stored.code = stored.session

(* "The session has ended" is said of a session that has, unless the host opened  *)
(* it again or another page of the browser joined another one.                   *)
EndedIsTrue ==
    \A t \in Tabs :
       page[t].at = "room" /\ over[t] /\ ~ moved[t] /\ ~ reopened =>
          status[seen[t].session] = "ended"

(* A browser takes part once in a session: the form is not offered to who has     *)
(* joined, unless it was open before another page joined, or an answer was lost.  *)
JoinedOnce == \A s \in Sessions : rows[s] <= 1 \/ s \in doubt

(* A page that waits for its session shows the form once it is live, unless the   *)
(* fetch after that failed; a room page comes to show the session that is joined,  *)
(* unless it showed that none was; and it says so when that has ended.            *)
Arrives ==
    \A t \in Tabs :
       /\ page[t].at = "join" /\ status[page[t].code] = "live" =>
             byCode[t][page[t].code].data = "live"
       /\ Polled(t) /\ stored # Nowhere =>
             seen[t] = stored /\ (status[stored.session] = "ended" => over[t])
=============================================================================
