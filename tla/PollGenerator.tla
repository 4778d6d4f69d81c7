---------------------------- MODULE PollGenerator ----------------------------
(* The dialog of the workbench that has polls written by the model: the host      *)
(* picks and edits what came back and creates the picked ones in one request.     *)
(* The dialog stays mounted while its page does, which the workbenches of two     *)
(* rooms share, and its handlers run to their end wherever the host has gone.     *)
(* They await a new list before they send the browser to the first poll created:  *)
(* one that fails, is paused or replaced ends the wait as well as one that comes. *)
(* What is followed is the list of one room, "this"; "other" stands for another.  *)
EXTENDS Naturals, FiniteSets

CONSTANTS
    Places,            \* places in a generated batch
    NoData,            \* nothing cached, generated or selected, no request
    GeneratorBudgets   \* bounds: requests to the model, creations, edits, moves, faults

(* A set of places has a first one, and no list of polls is taken for none.        *)
GeneratorAssumption ==
    /\ \A S \in SUBSET Places : S # {} => \E p \in S : \A q \in S : p <= q
    /\ NoData \notin [items : SUBSET [number : Nat, place : Places, edited : BOOLEAN, press : Nat]]

INSTANCE QueryCache

VARIABLES
    created,    \* server: this room's polls, each with its batch and its press
    bench,      \* the workbench's list of them
    route,      \* whose workbench the host is on, and the poll the address names
    open,       \* the dialog is shown
    batch,      \* what was generated: a number, and per place if picked and edited
    writing,    \* a request to the model is under way
    creating,   \* a creation is under way: for which room, what it asked, how far it is,
                \* if its dialog is gone
    failed,     \* the dialog shows an error
    presses,    \* history: how often a creation was pressed
    again,      \* history: a creation may have been asked twice knowingly
    unread,     \* history: the wait for the list ended without it, and no current one came since
    left        \* what is left of the behaviour's bounds

dialog == <<open, batch, writing, failed>>
past   == <<presses, again, unread>>
vars   == <<created, bench, route, dialog, creating, past, left>>

Use(kind) == left[kind] > 0 /\ left' = [left EXCEPT ![kind] = @ - 1]
ListOf(polls) == [items |-> polls]  \* as it is answered and cached
Batch(n)  == [number |-> n, picked |-> Places, edited |-> {}]
Poll(n, place, title, press) == [number |-> n, place |-> place, edited |-> title, press |-> press]
First(polls) == CHOOSE q \in polls : \A r \in polls : q.place <= r.place
Picked(b, n) ==
    {Poll(b.number, p, p \in b.edited, n) : p \in b.picked}

Init ==
    /\ created = {} /\ bench = Written(Unused, ListOf({}))
    /\ route = [room |-> "this", poll |-> NoData]
    /\ open = FALSE /\ batch = NoData /\ writing = FALSE /\ creating = NoData /\ failed = FALSE
    /\ presses = 0 /\ again = FALSE /\ unread = FALSE /\ left \in GeneratorBudgets

-----------------------------------------------------------------------------
(* Opening and closing, and the request to the model.                          *)

Here      == route.room = "this"
Workbench == route.room # "elsewhere"
Opens ==
    /\ Workbench /\ ~ open /\ open' = TRUE
    /\ UNCHANGED <<created, bench, route, batch, writing, failed, creating, past, left>>

Closes ==
    /\ open /\ open' = FALSE
    /\ UNCHANGED <<created, bench, route, batch, writing, failed, creating, past, left>>

Generate ==
    /\ open /\ ~ writing /\ Use("generate")
    /\ writing' = TRUE /\ failed' = FALSE
    /\ UNCHANGED <<created, bench, route, open, batch, creating, past>>

Generated ==
    /\ writing /\ writing' = FALSE
    /\ batch' = Batch(IF batch = NoData THEN 1 ELSE batch.number + 1)
    /\ UNCHANGED <<created, bench, route, open, failed, creating, past, left>>

GenerateFails ==
    /\ writing /\ Use("faults") /\ writing' = FALSE /\ failed' = TRUE
    /\ UNCHANGED <<created, bench, route, open, batch, creating, past>>

Toggles(set, p) == IF p \in set THEN set \ {p} ELSE set \cup {p}
Pick(p) ==
    /\ open /\ batch # NoData /\ Use("edits")
    /\ batch' = [batch EXCEPT !.picked = Toggles(@, p)]
    /\ UNCHANGED <<created, bench, route, open, writing, failed, creating, past>>

PickAll ==
    /\ open /\ batch # NoData /\ Use("edits")
    /\ batch' = [batch EXCEPT !.picked = IF @ = Places THEN {} ELSE Places]
    /\ UNCHANGED <<created, bench, route, open, writing, failed, creating, past>>

EditTitle(p) ==
    /\ open /\ batch # NoData /\ Use("edits")
    /\ batch' = [batch EXCEPT !.edited = @ \cup {p}]
    /\ UNCHANGED <<created, bench, route, open, writing, failed, creating, past>>

-----------------------------------------------------------------------------
(* Creation: the request, its commit, the list, the address.                     *)

AtAnyTime == TRUE  \* mutant: the button is not disabled while a creation runs
MayCreate == creating = NoData

Known(polls) == \E c \in created, q \in polls : c.number = q.number /\ c.place = q.place

Create ==
    /\ open /\ batch # NoData /\ batch.picked # {} /\ MayCreate /\ Use("create")
    /\ presses' = presses + 1 /\ failed' = FALSE
    /\ creating' = [room |-> route.room, at |-> "sent", polls |-> Picked(batch, presses'), gone |-> FALSE]
    /\ again' = (again \/ (creating = NoData /\ Here /\ Known(Picked(batch, presses'))))
    /\ UNCHANGED <<created, bench, route, open, batch, writing, unread>>

At(step) == creating # NoData /\ creating.at = step
Commits ==
    /\ At("sent")
    /\ created' = IF creating.room = "this" THEN created \cup creating.polls ELSE created
    /\ creating' = [creating EXCEPT !.at = "done"]
    /\ UNCHANGED <<bench, route, dialog, past, left>>

(* The request fails, or its answer is lost: nothing is asked again. What the     *)
(* handler of a dialog that is gone sets goes nowhere.                            *)
CreateFails ==
    /\ At("sent") \/ At("done")
    /\ Use("faults")
    /\ creating' = NoData /\ failed' = (failed \/ ~ creating.gone)
    /\ UNCHANGED <<created, bench, route, open, batch, writing, past>>

(* invalidateQueries is awaited.  With the browser offline the fetch is paused and  *)
(* the wait over; of a list nobody looks at it only notes that it is stale.       *)
NotAwaited == "listed"  \* mutant: the browser is sent at once
Awaited    == "listing"
Created ==
    /\ At("done") /\ UNCHANGED <<created, route, dialog, presses, again>>
    /\ \/ /\ creating.room = "this" /\ Here /\ bench' = Refetched(bench)
          /\ creating' = [creating EXCEPT !.at = Awaited] /\ UNCHANGED <<unread, left>>
       \/ /\ creating.room = "this" /\ Here /\ Use("faults") /\ bench' = Refetched(bench)
          /\ creating' = [creating EXCEPT !.at = "listed"] /\ unread' = TRUE
       \/ /\ creating.room = "this" /\ ~ Here /\ bench' = Marked(bench)
          /\ creating' = [creating EXCEPT !.at = "listed"] /\ unread' = TRUE /\ UNCHANGED left
       \/ /\ creating.room = "other" /\ creating' = [creating EXCEPT !.at = "listed"]
          /\ UNCHANGED <<bench, unread, left>>

(* The wait is over; the history notes if the list it waited for is not there.     *)
Waited == creating' = IF At("listing") THEN [creating EXCEPT !.at = "listed"] ELSE creating
Missed == unread' = (unread \/ At("listing"))

(* Any workbench will do: also that of a room the host has gone to since.         *)
Sends ==
    /\ At("listed") /\ creating' = NoData /\ open' = (open /\ creating.gone)
    /\ route' = IF ~ Workbench THEN route
                ELSE [room |-> creating.room,
                      poll |-> IF creating.room = "this" THEN First(creating.polls) ELSE NoData]
    /\ bench' = IF route.room = "other" /\ creating.room = "this" THEN Mounted(bench) ELSE bench
    /\ UNCHANGED <<created, batch, writing, failed, past, left>>

-----------------------------------------------------------------------------
(* The page: a host who leaves the workbench finds a new dialog on coming back;    *)
(* from one room's workbench to another's by its address, the page and its dialog *)
(* stay.                                                                         *)

Comes(room) == /\ route' = [room |-> room, poll |-> NoData]
               /\ bench' = IF room = "this" THEN Mounted(bench) ELSE bench
Leaves ==
    /\ Workbench /\ Use("moves") /\ route' = [room |-> "elsewhere", poll |-> NoData]
    /\ open' = FALSE /\ batch' = NoData /\ writing' = FALSE /\ failed' = FALSE
    /\ again' = (again \/ creating # NoData)
    /\ creating' = IF creating = NoData THEN NoData ELSE [creating EXCEPT !.gone = TRUE]
    /\ UNCHANGED <<created, bench, presses, unread>>

Enters(room) ==
    /\ ~ Workbench /\ Comes(room)
    /\ UNCHANGED <<created, dialog, creating, past, left>>

Crosses(room) ==
    /\ Workbench /\ room # route.room /\ Use("moves") /\ Comes(room)
    /\ UNCHANGED <<created, dialog, creating, past>>

(* The list: an event or another mutation has it fetched anew, in place of the fetch *)
(* that runs; a fetch fails after its retries.                                    *)
Asks ==
    /\ Here /\ Use("moves") /\ bench' = Refetched(bench) /\ Waited /\ Missed
    /\ UNCHANGED <<created, route, dialog, presses, again>>

ListFails ==
    /\ bench.fetch = "asked" /\ Use("faults") /\ bench' = GivenUp(bench) /\ Waited /\ Missed
    /\ UNCHANGED <<created, route, dialog, presses, again>>

Serves ==
    /\ bench.fetch = "asked" /\ bench' = Answered(bench, ListOf(created))
    /\ UNCHANGED <<created, route, dialog, creating, past, left>>

Stores ==
    /\ bench.fetch = "answered" /\ bench' = Stored(bench) /\ Waited
    /\ unread' = (unread /\ bench.reply.items # created)
    /\ UNCHANGED <<created, route, dialog, presses, again, left>>

-----------------------------------------------------------------------------
Next ==
    \/ Opens \/ Closes \/ Generate \/ Generated \/ GenerateFails \/ PickAll
    \/ \E p \in Places : Pick(p) \/ EditTitle(p)
    \/ Create \/ Commits \/ CreateFails \/ Created \/ Sends
    \/ Leaves \/ \E room \in {"this", "other"} : Enters(room) \/ Crosses(room)
    \/ Asks \/ ListFails \/ Serves \/ Stores

Spec == Init /\ [][Next]_vars

(* The server answers and the dialog's handlers run to their end.                *)
Fairness ==
    /\ WF_vars(Generated) /\ WF_vars(Commits) /\ WF_vars(Created) /\ WF_vars(Sends)
    /\ WF_vars(Serves) /\ WF_vars(Stores)
FairSpec == Spec /\ Fairness

-----------------------------------------------------------------------------
IsPoll(q) == q.place \in Places /\ q.press \in 1 .. presses
TypeOK ==
    /\ \A q \in created : IsPoll(q)
    /\ bench.fetch \in Fetches /\ (Loaded(bench) => bench.data.items \subseteq created)
    /\ route.room \in {"this", "other", "elsewhere"}
    /\ route.poll = NoData \/ route.poll \in created
    /\ batch = NoData \/ (batch.picked \subseteq Places /\ batch.edited \subseteq Places)
    /\ creating = NoData \/ \A q \in creating.polls : IsPoll(q)
    /\ {open, writing, failed, again, unread} \subseteq BOOLEAN

(* No generated poll is created twice, unless the host pressed again for a batch  *)
(* that was created: after a lost answer, or in the dialog opened once more.      *)
CreatedOnce ==
    again \/ \A q, r \in created : q.number = r.number /\ q.place = r.place => q = r

(* The address only names polls that the workbench lists, once a list was read     *)
(* that the creation waited for.                                                 *)
SelectedIsListed ==
    Here /\ route.poll # NoData /\ ~ unread /\ Loaded(bench) => route.poll \in bench.data.items

(* A creation ends, and the button comes back.                                  *)
NothingCreates == creating = NoData
=============================================================================
