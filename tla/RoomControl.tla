----------------------------- MODULE RoomControl -----------------------------
(* The control of one room's interactions by several concurrent requests:     *)
(* execute_poll_action (POST /polls/{id}/actions) and the status changes of   *)
(* update_interaction (PATCH /interactions/{id}).  Each request runs the      *)
(* statements of its handler one at a time against PostgreSQL (READ           *)
(* COMMITTED: row locks are held to the end of the transaction, the partial   *)
(* unique index on active rows makes a second activation wait for, or fail    *)
(* on, the first) and against the Redis room lock with its 5 s expiry.        *)
EXTENDS Naturals, Sequences

CONSTANTS
    Interactions,  \* the interactions of the room
    Polls,         \* those of a poll type; the others are Q&A, ideas, ...
    Req,           \* request slots: each serves one request at a time
    Degraded,      \* slots of API processes that found Redis unavailable
    None,          \* no request, no interaction
    Acts,          \* the operations hosts send in this instance
    MaxRequests,   \* bound: requests accepted over a behaviour
    MaxFaults      \* bound: crashes and lock expiries over a behaviour

PollActs  == {"start", "stop", "lock", "unlock", "reset", "reveal", "hide"}
PatchActs == {"patch_active", "patch_idle", "patch_locked", "patch_stopped"}
Statuses  == {"idle", "active", "locked", "stopped"}

ASSUME RoomAssumption ==
    /\ Polls \subseteq Interactions
    /\ Degraded \subseteq Req
    /\ Acts \subseteq PollActs \cup PatchActs
    /\ None \notin Interactions \cup Req
    /\ MaxRequests \in Nat /\ MaxFaults \in Nat

(* The action table: the statuses an action is allowed in, the one it sets.  *)
Sources ==
    [start |-> {"idle", "stopped"},  lock |-> {"active"}, unlock |-> {"locked"},
     stop  |-> {"active", "locked"}, reset  |-> {"active", "locked", "stopped"},
     reveal |-> {"active", "locked", "stopped"},
     hide   |-> {"active", "locked", "stopped"}]

GoalMisspelt ==  \* mutant: a status the enum does not have
    [start |-> "active", lock |-> "locked", unlock |-> "unlocked",
     stop |-> "stopped", reset |-> "idle",
     patch_active |-> "active", patch_idle |-> "idle",
     patch_locked |-> "locked", patch_stopped |-> "stopped"]

Goal ==
    [start |-> "active", lock |-> "locked", unlock |-> "active",
     stop |-> "stopped", reset |-> "idle",
     patch_active |-> "active", patch_idle |-> "idle",
     patch_locked |-> "locked", patch_stopped |-> "stopped"]

Opening   == {"start", "patch_active"}               \* take the active slot
RoomLocked == {"start", "stop", "reset", "patch_active"}

Row == [status : Statuses, visible : BOOLEAN]

VARIABLES
    rows,       \* committed table: status and result_visible
    lock,       \* Redis room lock: the request whose token is stored
    pc,         \* next statement of each request
    act, tgt,   \* what the request is asked to do, and to which interaction
    seen,       \* the row as the request loaded it
    other,      \* the running interaction the request decided to stop
    wrote,      \* rows its open transaction has updated (and so locked)
    draft,      \* the uncommitted versions of those rows
    token,      \* the request acquired the room lock
    failure,    \* the error the request will answer with, if any
    outbox,     \* events its post-commit hooks still have to publish
    announced,  \* the status the last published event gave each interaction
    issued,     \* requests accepted so far
    faults      \* crashes and lock expiries so far

vars == <<rows, lock, pc, act, tgt, seen, other, wrote, draft, token,
          failure, outbox, announced, issued, faults>>

request == <<act, tgt, seen>>
budget  == <<issued, faults>>
txn     == <<wrote, draft>>

Labels == {"idle", "lock", "find", "stop_other", "update", "index",
           "commit", "release", "rollback", "publish"}
Failures == {"none", "invalid", "error"}

Blank   == [status |-> "idle", visible |-> FALSE]
NoDraft == [i \in Interactions |-> Blank]

Init ==
    /\ rows \in [Interactions -> [status : Statuses, visible : {FALSE}]]
    /\ \A i, j \in Interactions :
          rows[i].status = "active" /\ rows[j].status = "active" => i = j
    /\ lock = None
    /\ pc = [p \in Req |-> "idle"]
    /\ act = [p \in Req |-> "none"]
    /\ tgt = [p \in Req |-> None]
    /\ seen = [p \in Req |-> Blank]
    /\ other = [p \in Req |-> None]
    /\ wrote = [p \in Req |-> {}]
    /\ draft = [p \in Req |-> NoDraft]
    /\ token = [p \in Req |-> FALSE]
    /\ failure = [p \in Req |-> "none"]
    /\ outbox = [p \in Req |-> <<>>]
    /\ announced = [i \in Interactions |-> rows[i].status]
    /\ issued = 0
    /\ faults = 0

-----------------------------------------------------------------------------
(* PostgreSQL.                                                               *)

IsActive(row) == row.status = "active"

(* What a statement of p sees of row i. *)
View(p, i) == IF i \in wrote[p] THEN draft[p][i] ELSE rows[i]

RowFree(p, i) == \A q \in Req \ {p} : i \notin wrote[q]

(* The version q has written of row i is an entry of the unique index: an    *)
(* UPDATE stores the row first and then waits for its place in the index.    *)
HasEntry(q, i) == /\ IsActive(draft[q][i])
                  /\ ~ (pc[q] = "index" /\ i = tgt[q])

(* q's open transaction has added an entry of the index or deleted one. *)
TouchesIndex(q) ==
    \E i \in wrote[q] : IsActive(rows[i]) \/ HasEntry(q, i)

IndexSettled(p) == \A q \in Req \ {p} : ~ TouchesIndex(q)

IndexNotUnique(p) == FALSE  \* mutant: the index of migration 0001, not unique

IndexTaken(p) == \E j \in Interactions \ {tgt[p]} : IsActive(View(p, j))

(* p's next statement waits for the end of q's transaction. *)
WaitsFor(p, q) ==
    /\ p # q
    /\ \/ pc[p] = "stop_other" /\ other[p] \in wrote[q]
       \/ pc[p] = "update" /\ tgt[p] \in wrote[q]
       \/ pc[p] = "index" /\ TouchesIndex(q)

Write(p, i, row) ==
    /\ wrote' = [wrote EXCEPT ![p] = @ \cup {i}]
    /\ draft' = [draft EXCEPT ![p][i] = row]

Goto(p, label) == pc' = [pc EXCEPT ![p] = label]

(* The handler raises an error: the room lock is released in its finally,    *)
(* then the session rolls back.                                              *)
Raise(p, error) ==
    /\ failure' = [failure EXCEPT ![p] = error]
    /\ Goto(p, IF act[p] \in RoomLocked THEN "release" ELSE "rollback")
    /\ UNCHANGED <<rows, lock, request, other, token, outbox, announced, budget>>

(* The transaction ends and its row locks go: at its commit or rollback, or *)
(* at once when PostgreSQL itself raises the error.                          *)
EndTxn(p) ==
    /\ wrote' = [wrote EXCEPT ![p] = {}]
    /\ draft' = [draft EXCEPT ![p] = NoDraft]

CloseWithoutRollback(p) ==  \* mutant: the failed transaction stays open
    /\ Goto(p, "idle")
    /\ failure' = [failure EXCEPT ![p] = "none"]
    /\ UNCHANGED <<request, other, txn, token, outbox>>

(* The request is answered; its slot can take another one. *)
Close(p) ==
    /\ EndTxn(p)
    /\ Goto(p, "idle")
    /\ act' = [act EXCEPT ![p] = "none"]
    /\ tgt' = [tgt EXCEPT ![p] = None]
    /\ seen' = [seen EXCEPT ![p] = Blank]
    /\ other' = [other EXCEPT ![p] = None]
    /\ token' = [token EXCEPT ![p] = FALSE]
    /\ failure' = [failure EXCEPT ![p] = "none"]
    /\ outbox' = [outbox EXCEPT ![p] = <<>>]

-----------------------------------------------------------------------------
(* The handlers.                                                             *)

Accept(p, a, i) ==
    /\ pc[p] = "idle"
    /\ issued < MaxRequests
    /\ issued' = issued + 1
    /\ i \in IF a \in PollActs THEN Polls ELSE Interactions

(* The early returns: a status the action does not allow, or nothing to do. *)
Declined(a, i) ==
    IF a \in PollActs THEN rows[i].status \notin Sources[a]
    ELSE a = "patch_active" /\ IsActive(rows[i])

(* Load the row and check it against the table, before the room lock. *)
Load(p, a, i) ==
    /\ Accept(p, a, i)
    /\ ~ Declined(a, i)
    /\ act' = [act EXCEPT ![p] = a]
    /\ tgt' = [tgt EXCEPT ![p] = i]
    /\ seen' = [seen EXCEPT ![p] = rows[i]]
    /\ Goto(p, IF a \in RoomLocked THEN "lock" ELSE "update")
    /\ UNCHANGED <<rows, lock, other, txn, token, failure, outbox, announced,
                   faults>>

Decline(p, a, i) ==
    /\ Accept(p, a, i)
    /\ Declined(a, i)
    /\ UNCHANGED <<rows, lock, pc, request, other, txn, token, failure, outbox,
                   announced, faults>>

AcquireLock(p) ==
    /\ pc[p] = "lock"
    /\ IF p \in Degraded
       THEN UNCHANGED <<lock, token>>
       ELSE /\ lock = None
            /\ lock' = p
            /\ token' = [token EXCEPT ![p] = TRUE]
    /\ Goto(p, IF act[p] \in Opening THEN "find" ELSE "update")
    /\ UNCHANGED <<rows, request, other, txn, failure, outbox, announced,
                   budget>>

(* All the attempts of acquire_room_lock found the lock held. *)
LockBusy(p) ==
    /\ pc[p] = "lock" /\ p \notin Degraded /\ lock # None
    /\ Close(p)
    /\ UNCHANGED <<rows, lock, announced, budget>>

(* Opening an interaction: look for the one that runs.  The patch endpoint   *)
(* publishes poll_stopped here, before its transaction commits.              *)
FindActive(p) ==
    /\ pc[p] = "find"
    /\ act[p] = "patch_active" => seen[p].status \in {"idle", "stopped"}
    /\ LET running == {j \in Interactions \ {tgt[p]} : IsActive(rows[j])}
       IN  \/ /\ running = {}
              /\ Goto(p, "update")
              /\ UNCHANGED <<other, announced>>
           \/ \E j \in running :
                /\ other' = [other EXCEPT ![p] = j]
                /\ Goto(p, "stop_other")
                /\ IF act[p] = "patch_active" /\ j \in Polls
                   THEN announced' = [announced EXCEPT ![j] = "stopped"]
                   ELSE UNCHANGED announced
    /\ UNCHANGED <<rows, lock, request, txn, token, failure, outbox, budget>>

RefuseOpen(p) ==
    /\ pc[p] = "find"
    /\ act[p] = "patch_active" /\ seen[p].status \notin {"idle", "stopped"}
    /\ Raise(p, "invalid")
    /\ UNCHANGED txn

AssumeRunning(p) == TRUE  \* mutant: the stop drops WHERE status = active

(* Still active when the row lock is granted. *)
StillRunning(p) == IsActive(rows[other[p]])

(* Stop the running interaction: WHERE status = active for the poll endpoint, *)
(* an unconditional ORM write for the patch endpoint.                         *)
StopOther(p) ==
    /\ pc[p] = "stop_other" /\ RowFree(p, other[p])
    /\ act[p] = "start" => StillRunning(p)
    /\ Write(p, other[p], [rows[other[p]] EXCEPT !.status = "stopped"])
    /\ Goto(p, "update")
    /\ UNCHANGED <<rows, lock, request, other, token, failure, outbox,
                   announced, budget>>

StopOtherLost(p) ==
    /\ pc[p] = "stop_other" /\ RowFree(p, other[p])
    /\ act[p] = "start" /\ ~ StillRunning(p)
    /\ Raise(p, "invalid")
    /\ UNCHANGED txn

(* The row the request's own UPDATE produces from the current one. *)
NewRow(p) ==
    LET row == rows[tgt[p]]
    IN  CASE act[p] = "reveal" -> [row EXCEPT !.visible = TRUE]
          [] act[p] = "hide"   -> [row EXCEPT !.visible = FALSE]
          [] act[p] = "start"  -> [status |-> "active", visible |-> FALSE]
          [] act[p] = "reset"  ->
                [status |-> "idle", visible |-> row.visible /\ ~ seen[p].visible]
          [] act[p] \in PatchActs /\ Goal[act[p]] = seen[p].status -> row
          [] OTHER -> [row EXCEPT !.status = Goal[act[p]]]

Unconditional(p) == FALSE  \* mutant: every update is by id only

(* UPDATE ... WHERE status = <the status loaded>; reveal, hide and the ORM   *)
(* writes of the patch endpoint have no such condition.                      *)
Optimistic(p) == act[p] \in PollActs \ {"reveal", "hide"}
Matches(p)    == Optimistic(p) => rows[tgt[p]].status = seen[p].status

(* The statement puts the row into the index. *)
Activates(p)  == IsActive(NewRow(p)) /\ ~ IsActive(rows[tgt[p]])

AfterUpdate(p) == IF act[p] \in RoomLocked \cap PollActs
                  THEN "release" ELSE "commit"

Update(p) ==
    /\ pc[p] = "update" /\ RowFree(p, tgt[p])
    /\ Matches(p)
    /\ Write(p, tgt[p], NewRow(p))
    /\ Goto(p, IF Activates(p) THEN "index" ELSE AfterUpdate(p))
    /\ UNCHANGED <<rows, lock, request, other, token, failure, outbox,
                   announced, budget>>

(* rowcount = 0: POLL_INVALID_STATE. *)
UpdateLost(p) ==
    /\ pc[p] = "update" /\ RowFree(p, tgt[p])
    /\ ~ Matches(p)
    /\ Raise(p, "invalid")
    /\ UNCHANGED txn

EnterIndex(p) ==
    /\ pc[p] = "index" /\ IndexSettled(p)
    /\ ~ IndexTaken(p)
    /\ Goto(p, AfterUpdate(p))
    /\ UNCHANGED <<rows, lock, request, other, txn, token, failure, outbox,
                   announced, budget>>

(* The unique index refuses the row.  The patch endpoint maps the            *)
(* IntegrityError to POLL_INVALID_STATE, the poll endpoint does not catch it. *)
IndexViolation(p) ==
    /\ pc[p] = "index" /\ IndexSettled(p)
    /\ IndexTaken(p)
    /\ Raise(p, IF act[p] \in PatchActs THEN "invalid" ELSE "error")
    /\ EndTxn(p)

(* PostgreSQL breaks a cycle of waiting transactions by failing one. *)
DeadlockVictim(p) ==
    /\ \E q \in Req : WaitsFor(p, q) /\ WaitsFor(q, p)
    /\ Raise(p, "error")
    /\ EndTxn(p)

EventsOfTarget(p) ==  \* mutant: the displaced interaction is not announced
    IF act[p] \in DOMAIN Goal THEN << <<tgt[p], Goal[act[p]]>> >> ELSE <<>>

(* Events of the post-commit hooks, in the order they are published. *)
Events(p) ==
    CASE act[p] = "start" ->
            (IF other[p] = None THEN <<>> ELSE << <<other[p], "stopped">> >>)
            \o << <<tgt[p], "active">> >>
      [] act[p] \in {"stop", "lock", "unlock", "reset", "patch_active"} ->
            << <<tgt[p], Goal[act[p]]>> >>
      [] OTHER -> <<>>

Commit(p) ==
    /\ pc[p] = "commit"
    /\ rows' = [i \in Interactions |-> View(p, i)]
    /\ EndTxn(p)
    /\ outbox' = [outbox EXCEPT ![p] = Events(p)]
    /\ Goto(p, IF act[p] = "patch_active" THEN "release" ELSE "publish")
    /\ UNCHANGED <<lock, request, other, token, failure, announced, budget>>

Rollback(p) ==
    /\ pc[p] = "rollback"
    /\ Close(p)
    /\ UNCHANGED <<rows, lock, announced, budget>>

FreeLockUnchecked(p) ==  \* mutant: DEL without comparing the token
    lock' = IF token[p] THEN None ELSE lock

(* Compare-and-delete of the room lock with the request's own token. *)
FreeLock(p) == lock' = IF token[p] /\ lock = p THEN None ELSE lock

(* The poll endpoint releases before it commits, the patch endpoint after. *)
Release(p) ==
    /\ pc[p] = "release"
    /\ FreeLock(p)
    /\ token' = [token EXCEPT ![p] = FALSE]
    /\ Goto(p, IF failure[p] # "none" THEN "rollback"
               ELSE IF act[p] \in PollActs THEN "commit" ELSE "publish")
    /\ UNCHANGED <<rows, request, other, txn, failure, outbox, announced,
                   budget>>

Publish(p) ==
    /\ pc[p] = "publish" /\ outbox[p] # <<>>
    /\ LET e == Head(outbox[p])
       IN  announced' = [announced EXCEPT ![e[1]] = e[2]]
    /\ outbox' = [outbox EXCEPT ![p] = Tail(@)]
    /\ UNCHANGED <<rows, lock, pc, request, other, txn, token, failure, budget>>

Finish(p) ==
    /\ pc[p] = "publish" /\ outbox[p] = <<>>
    /\ Close(p)
    /\ UNCHANGED <<rows, lock, announced, budget>>

-----------------------------------------------------------------------------
(* The environment: the key expires, a process dies with its transaction.    *)

Fault == faults < MaxFaults /\ faults' = faults + 1

LockExpires ==
    /\ Fault
    /\ lock # None
    /\ lock' = None
    /\ UNCHANGED <<rows, pc, request, other, txn, token, failure, outbox,
                   announced, issued>>

Crash(p) ==
    /\ Fault
    /\ pc[p] # "idle"
    /\ Close(p)
    /\ UNCHANGED <<rows, lock, announced, issued>>

Serve(p) ==
    \/ AcquireLock(p) \/ LockBusy(p)
    \/ FindActive(p) \/ RefuseOpen(p) \/ StopOther(p) \/ StopOtherLost(p)
    \/ Update(p) \/ UpdateLost(p) \/ EnterIndex(p) \/ IndexViolation(p)
    \/ DeadlockVictim(p)
    \/ Commit(p) \/ Rollback(p) \/ Release(p) \/ Publish(p) \/ Finish(p)

Next ==
    \/ \E p \in Req :
          \/ \E a \in Acts, i \in Interactions : Load(p, a, i) \/ Decline(p, a, i)
          \/ Serve(p)
          \/ Crash(p)
    \/ LockExpires

Spec == Init /\ [][Next]_vars

(* A request that the server took keeps running; hosts owe no further one.  *)
FairSpec == Spec /\ \A p \in Req : WF_vars(Serve(p))

-----------------------------------------------------------------------------
TypeOK ==
    /\ rows \in [Interactions -> Row]
    /\ lock \in Req \cup {None}
    /\ pc \in [Req -> Labels]
    /\ act \in [Req -> PollActs \cup PatchActs \cup {"none"}]
    /\ tgt \in [Req -> Interactions \cup {None}]
    /\ seen \in [Req -> Row]
    /\ other \in [Req -> Interactions \cup {None}]
    /\ wrote \in [Req -> SUBSET Interactions]
    /\ draft \in [Req -> [Interactions -> Row]]
    /\ token \in [Req -> BOOLEAN]
    /\ failure \in [Req -> Failures]
    /\ outbox \in [Req -> Seq(Interactions \X Statuses)]
    /\ announced \in [Interactions -> Statuses]
    /\ issued \in 0..MaxRequests
    /\ faults \in 0..MaxFaults

(* At most one interaction of the room is active in the committed table, no  *)
(* matter which requests run together, whether the room lock expires under   *)
(* its holder or is not there at all (iron rule 5, poll design 4.1).         *)
OneActive ==
    \A i, j \in Interactions : IsActive(rows[i]) /\ IsActive(rows[j]) => i = j

(* A request between its acquire and its release of the room lock is the one *)
(* whose token the key holds, unless the key is gone or was taken after it   *)
(* expired: nobody else deletes it (release_room_lock compares the token).   *)
LockKept ==
    [][\A p \in Req : lock = p /\ token[p] /\ lock' # p
          => (token'[p] = FALSE \/ UNCHANGED <<pc, token>>)]_vars

(* A poll action that changes the status of its interaction changes it from  *)
(* the status the request loaded, however long it waited since (2.3 of the   *)
(* poll design: the condition of the UPDATE, kept true by the row lock).     *)
PollActionsFromSeen ==
    [][\A p \in Req :
          /\ pc[p] = "commit" /\ act[p] \in PollActs
          /\ rows'[tgt[p]].status # rows[tgt[p]].status
          => rows[tgt[p]].status = seen[p].status]_vars

(* Every request the server accepted is answered: no cycle of row locks,     *)
(* index waits and the room lock keeps one from its end.                     *)
Answered == \A p \in Req : pc[p] # "idle" ~> pc[p] = "idle"

(* When no request is being served, what the last events told the viewers of *)
(* each poll is its status, the poll displaced by a start included.          *)
AnnouncedWhenQuiet ==
    (\A p \in Req : pc[p] = "idle") =>
        \A i \in Polls : announced[i] = rows[i].status

(* The poll endpoint is a correct implementation of the atomic room.         *)
Room == INSTANCE PollRoom WITH
            status <- [i \in Interactions |-> rows[i].status]
RoomSpec == Room!Spec
=============================================================================
