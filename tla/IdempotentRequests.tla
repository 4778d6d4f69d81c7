-------------------------- MODULE IdempotentRequests --------------------------
(* The Idempotency-Key middleware, for the deliveries of one request: the     *)
(* client sends it again under the same key when an answer is lost or late,   *)
(* and every delivery runs reserve_idempotency_key, the handler and           *)
(* store_idempotency_result against the shared Redis entry of the key.        *)
(* RequestInit, RequestNext, RequestSpec and RequestTypeOK carry the request's *)
(* name: TransportProofs extends this module together with RoomSocket.         *)
EXTENDS Naturals

CONSTANTS
    Slots,       \* deliveries that can be in progress at a time
    Degraded,    \* slots of API processes that found Redis unavailable
    MaxSends,    \* bound: deliveries over a behaviour
    MaxCrashes,  \* bound: deliveries that die with their process
    MaxExpiries  \* bound: expiries of the entry (24 h)

ASSUME IdempotencyAssumption ==
    /\ Degraded \subseteq Slots
    /\ MaxSends \in Nat /\ MaxCrashes \in Nat /\ MaxExpiries \in Nat

(* What a handler run ends with: a success (2xx) with its effect committed,  *)
(* a refusal (4xx) or an error (5xx) without effect, or an error after the   *)
(* commit.                                                                   *)
Outcomes == {"ok", "refused", "error", "late_error"}
Commits(o)   == o \in {"ok", "late_error"}
StoresAll(o) == TRUE  \* mutant: the answer of an error is stored as well
Storable(o)  == o \in {"ok", "refused"}

VARIABLES
    entry,     \* Redis: idempotency:{key}
    pc,        \* next step of each delivery
    outcome,   \* what its handler run ended with
    effects,   \* committed handler runs
    sent,      \* deliveries so far
    bare,      \* of them, those that reached a process without Redis
    overlapped,  \* a delivery was sent while another was in progress
    crashes, expiries

requests == <<entry, pc, outcome, effects, sent, bare, overlapped, crashes, expiries>>
bounded == <<sent, bare, overlapped, crashes, expiries>>

Entries == {"absent", "pending", "ok", "refused"}
Labels  == {"idle", "get", "reserve", "run", "store"}

RequestInit ==
    /\ entry = "absent"
    /\ pc = [d \in Slots |-> "idle"]
    /\ outcome = [d \in Slots |-> "error"]
    /\ effects = 0 /\ sent = 0 /\ bare = 0 /\ overlapped = FALSE
    /\ crashes = 0 /\ expiries = 0

Goto(d, label) == pc' = [pc EXCEPT ![d] = label]

Send(d) ==
    /\ pc[d] = "idle" /\ sent < MaxSends
    /\ sent' = sent + 1
    /\ bare' = bare + IF d \in Degraded THEN 1 ELSE 0
    /\ overlapped' = (overlapped \/ \E e \in Slots : pc[e] # "idle")
    /\ Goto(d, IF d \in Degraded THEN "run" ELSE "get")
    /\ UNCHANGED <<entry, outcome, effects, crashes, expiries>>

RunsWhilePending(found) ==  \* mutant: a pending entry does not stop a run
    found \in {"absent", "pending"}

(* Only an absent entry lets a delivery go on: a pending one is answered     *)
(* with 409, a stored one with what is stored.                               *)
GoesOn(found) == found = "absent"

Get(d) ==
    /\ pc[d] = "get"
    /\ Goto(d, IF GoesOn(entry) THEN "reserve" ELSE "idle")
    /\ UNCHANGED <<entry, outcome, effects, bounded>>

(* SET NX.  A delivery that loses the race gets (False, None), which the     *)
(* middleware does not take for an answer: it runs the handler as well.      *)
Reserve(d) ==
    /\ pc[d] = "reserve"
    /\ entry' = IF entry = "absent" THEN "pending" ELSE entry
    /\ Goto(d, "run")
    /\ UNCHANGED <<outcome, effects, bounded>>

RunHandler(d, o) ==
    /\ pc[d] = "run"
    /\ outcome' = [outcome EXCEPT ![d] = o]
    /\ effects' = effects + IF Commits(o) THEN 1 ELSE 0
    /\ Goto(d, IF Storable(o) THEN "store" ELSE "idle")
    /\ UNCHANGED <<entry, bounded>>

(* Without Redis, or when the entry cannot be written (the body is not JSON, *)
(* Redis fails), the answer goes out and the entry stays as it is.           *)
Store(d) ==
    /\ pc[d] = "store"
    /\ \/ d \notin Degraded /\ entry' = outcome[d]
       \/ UNCHANGED entry
    /\ Goto(d, "idle")
    /\ UNCHANGED <<outcome, effects, bounded>>

Crash(d) ==
    /\ pc[d] # "idle" /\ crashes < MaxCrashes
    /\ crashes' = crashes + 1
    /\ Goto(d, "idle")
    /\ UNCHANGED <<entry, outcome, effects, sent, bare, overlapped, expiries>>

Expire ==
    /\ entry # "absent" /\ expiries < MaxExpiries
    /\ expiries' = expiries + 1
    /\ entry' = "absent"
    /\ UNCHANGED <<pc, outcome, effects, sent, bare, overlapped, crashes>>

RequestNext ==
    \/ \E d \in Slots :
          \/ Send(d) \/ Get(d) \/ Reserve(d) \/ Store(d) \/ Crash(d)
          \/ \E o \in Outcomes : RunHandler(d, o)
    \/ Expire

RequestSpec == RequestInit /\ [][RequestNext]_requests

-----------------------------------------------------------------------------
RequestTypeOK ==
    /\ entry \in Entries
    /\ pc \in [Slots -> Labels]
    /\ outcome \in [Slots -> Outcomes]
    /\ effects \in Nat
    /\ sent \in 0..MaxSends /\ bare \in Nat
    /\ overlapped \in BOOLEAN
    /\ crashes \in 0..MaxCrashes /\ expiries \in 0..MaxExpiries

(* A client that waits for each delivery to end (answered, or dead with its  *)
(* process) before it sends the next has its request executed at most once   *)
(* for as long as the entry lives, whatever ends the deliveries before:      *)
(* handler errors before and after the commit, crashes, entries not stored.  *)
(* Deliveries that reach a process without Redis may each add one.           *)
OnceInTurn == ~ overlapped /\ expiries = 0 => effects <= bare + 1
=============================================================================
