----------------------------- MODULE QueryCache -----------------------------
(* One query of the react-query client the four applications use (an external *)
(* library): what is cached, the fetch in flight, and what the calls the       *)
(* pages make do to them.  A fetch takes three steps: it is asked, the server  *)
(* answers with what it has then, and the answer is stored.                    *)

CONSTANT NoData  \* nothing cached, no answer

Fetches == {"idle", "asked", "answered"}

Queries(Data) ==
    [data : Data \cup {NoData}, fetch : Fetches, reply : Data \cup {NoData},
     stale : BOOLEAN]

Unused  == [data |-> NoData, fetch |-> "idle",  reply |-> NoData, stale |-> FALSE]
Loading == [Unused EXCEPT !.fetch = "asked"]

Loaded(q) == q.data # NoData
Idle(q)   == q.fetch = "idle"

(* A mounted observer, a timer or a focus event asks for data: a fetch that   *)
(* runs already serves it too.                                                *)
Fetched(q) == IF Idle(q) THEN [q EXCEPT !.fetch = "asked"] ELSE q

(* invalidateQueries and refetch on a query in use: the fetch in flight is     *)
(* given up for a new one, but the first one, which has nothing to fall back   *)
(* on, is kept.                                                                *)
Refetched(q) ==
    IF ~ Idle(q) /\ ~ Loaded(q) THEN q
    ELSE [q EXCEPT !.fetch = "asked", !.reply = NoData]

(* invalidateQueries on a query nobody uses: fetched when next mounted, unless *)
(* a fetch in flight is stored before.                                         *)
Marked(q) == [q EXCEPT !.stale = Loaded(q)]

(* A component that uses the query is mounted.                                 *)
Mounted(q) == IF ~ Loaded(q) \/ q.stale THEN Fetched(q) ELSE q

(* setQueryData; with an updater that leaves undefined alone; cancelQueries.   *)
Written(q, d)   == [q EXCEPT !.data = d, !.stale = FALSE]
Patched(q, d)   == IF Loaded(q) THEN Written(q, d) ELSE q
Cancelled(q)    == [q EXCEPT !.fetch = "idle", !.reply = NoData]

(* A fetch fails, after its retries: the data stays, and a component that is       *)
(* mounted next fetches again.                                                 *)
GivenUp(q) == [q EXCEPT !.fetch = "idle", !.reply = NoData, !.stale = TRUE]

Answered(q, d) == [q EXCEPT !.fetch = "answered", !.reply = d]
Stored(q) == [data |-> q.reply, fetch |-> "idle", reply |-> NoData, stale |-> FALSE]
=============================================================================
