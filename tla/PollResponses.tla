---------------------------- MODULE PollResponses ----------------------------
(* Answers to one multiple-choice poll: submit_poll_response statement by     *)
(* statement, the response rows in the database, the counts per option in the *)
(* Redis hash of the poll, and what the host's actions do to both.  The       *)
(* actions change the status in one step each (RoomControl shows why).        *)
EXTENDS Integers, FiniteSets

CONSTANTS
    Voters,       \* participants
    Options,      \* options of the poll
    Answers,      \* the sets of options an answer may choose
    AllowChange,  \* settings.allow_change
    Slots,        \* requests that can be in progress at a time
    Degraded,     \* slots of API processes that found Redis unavailable
    MaxSubmits,   \* bound: requests
    MaxMoves,     \* bound: host actions
    MaxCrashes,   \* bound: requests and hooks that die
    MaxExpiries   \* bound: expiries of the hash (24 h after a stop)

ResponsesAssumption ==
    /\ Answers \subseteq (SUBSET Options) \ {{}}
    /\ AllowChange \in BOOLEAN
    /\ Degraded \subseteq Slots
    /\ IsFiniteSet(Voters) /\ IsFiniteSet(Slots)
    /\ MaxSubmits \in Nat /\ MaxMoves \in Nat
    /\ MaxCrashes \in Nat /\ MaxExpiries \in Nat

None == {}  \* no answer

VARIABLES
    status,  \* interactions.status
    row,     \* poll_responses: the answer of each participant
    agg,     \* Redis: the counts in agg:poll:{id}
    fields,  \* the options the hash has a field for
    ttl,     \* it expires
    hooks,   \* after-commit hooks of host actions still to run
    pc,      \* next step of each request
    voter,   \* its participant
    answer,  \* and answer
    old,     \* the answer it found
    minus,   \* options it has still to take off the counts
    plus,    \* options it has still to add
    met,     \* history: what out of the ordinary happened
    submits, moves, crashes, expiries

stored  == <<status, row>>
hash    == <<agg, fields, ttl>>
request == <<pc, voter, answer, old, minus, plus>>
budget  == <<submits, moves, crashes, expiries>>
vars    == <<stored, hash, hooks, request, met, budget>>

Statuses == {"idle", "active", "locked", "stopped"}
Labels   == {"idle", "find", "commit", "count"}

(* Requests of one participant that overlap; a reset with a request in        *)
(* progress, or one that starts before the reset has cleared the hash; a      *)
(* request or hook that dies; an expired hash; an answer Redis never had.     *)
Irregular == {"overlap", "reset", "crash", "expiry", "bare"}

Init ==
    /\ status = "idle"
    /\ row = [v \in Voters |-> None]
    /\ agg = [o \in Options |-> 0] /\ fields = {} /\ ttl = FALSE
    /\ hooks = {}
    /\ pc = [d \in Slots |-> "idle"]
    /\ voter \in [Slots -> Voters] /\ \A d, e \in Slots : voter[d] = voter[e]
    /\ answer = [d \in Slots |-> None]
    /\ old = [d \in Slots |-> None]
    /\ minus = [d \in Slots |-> {}] /\ plus = [d \in Slots |-> {}]
    /\ met = {}
    /\ submits = 0 /\ moves = 0 /\ crashes = 0 /\ expiries = 0

Busy == {d \in Slots : pc[d] # "idle"}
Met(kind, happened) == met' = IF happened THEN met \cup {kind} ELSE met
Goto(d, label) == pc' = [pc EXCEPT ![d] = label]

-----------------------------------------------------------------------------
(* A request: load the poll, look for an earlier answer, commit, count.      *)

Load(d, v, a) ==
    /\ pc[d] = "idle" /\ status = "active"
    /\ submits < MaxSubmits /\ submits' = submits + 1
    /\ Goto(d, "find")
    /\ voter' = [voter EXCEPT ![d] = v]
    /\ answer' = [answer EXCEPT ![d] = a]
    /\ met' = met \cup (IF \E e \in Busy : voter[e] = v THEN {"overlap"} ELSE {})
                  \cup (IF "clear" \in hooks THEN {"reset"} ELSE {})
    /\ UNCHANGED <<stored, hash, hooks, old, minus, plus, moves, crashes, expiries>>

Find(d) ==
    /\ pc[d] = "find"
    /\ old' = [old EXCEPT ![d] = row[voter[d]]]
    /\ Goto(d, IF row[voter[d]] = None \/ AllowChange THEN "commit" ELSE "idle")
    /\ UNCHANGED <<stored, hash, hooks, voter, answer, minus, plus, met, budget>>

(* The row is inserted or updated as Find decided.  An insert meets the       *)
(* unique constraint when there is a row now, an update misses its row when a *)
(* reset has deleted it.  (That the same participant has a new row by then,   *)
(* which the update misses too, takes overlapping requests and is left out.)  *)
RowAsFound(d) == row[voter[d]] = None <=> old[d] = None

OldKept(d)  == {}  \* mutant: the earlier answer stays in the counts
TakenOff(d) == old[d]

Commit(d) ==
    /\ pc[d] = "commit" /\ RowAsFound(d)
    /\ row' = [row EXCEPT ![voter[d]] = answer[d]]
    /\ IF d \in Degraded
       THEN /\ Goto(d, "idle")
            /\ UNCHANGED <<minus, plus>>
       ELSE /\ Goto(d, "count")
            /\ minus' = [minus EXCEPT ![d] = TakenOff(d)]
            /\ plus' = [plus EXCEPT ![d] = answer[d]]
    /\ Met("bare", d \in Degraded)
    /\ UNCHANGED <<status, hash, hooks, voter, answer, old, budget>>

CommitRefused(d) ==
    /\ pc[d] = "commit" /\ ~ RowAsFound(d)
    /\ Goto(d, "idle")
    /\ UNCHANGED <<stored, hash, hooks, voter, answer, old, minus, plus, met, budget>>

Count(o, by) ==
    /\ agg' = [agg EXCEPT ![o] = @ + by]
    /\ fields' = fields \cup {o}
    /\ UNCHANGED <<stored, ttl, hooks, voter, answer, old, met, budget>>

CountDown(d, o) ==
    /\ pc[d] = "count" /\ o \in minus[d]
    /\ Count(o, -1)
    /\ minus' = [minus EXCEPT ![d] = @ \ {o}]
    /\ UNCHANGED <<pc, plus>>

CountUp(d, o) ==
    /\ pc[d] = "count" /\ minus[d] = {} /\ o \in plus[d]
    /\ Count(o, 1)
    /\ plus' = [plus EXCEPT ![d] = @ \ {o}]
    /\ Goto(d, IF plus[d] = {o} THEN "idle" ELSE "count")
    /\ UNCHANGED minus

(* The process dies, or a Redis command fails: the row stays as it is.       *)
Crash(d) ==
    /\ d \in Busy
    /\ crashes < MaxCrashes /\ crashes' = crashes + 1
    /\ Goto(d, "idle")
    /\ minus' = [minus EXCEPT ![d] = {}] /\ plus' = [plus EXCEPT ![d] = {}]
    /\ Met("crash", TRUE)
    /\ UNCHANGED <<stored, hash, hooks, voter, answer, old, submits, moves, expiries>>

-----------------------------------------------------------------------------
(* Host actions, each a commit with the hook that follows it.                *)

Move ==
    /\ moves < MaxMoves /\ moves' = moves + 1
    /\ UNCHANGED <<hash, request, submits, crashes, expiries>>

Start ==
    /\ status \in {"idle", "stopped"} /\ status' = "active"
    /\ Move
    /\ UNCHANGED <<row, hooks, met>>

LockAnswers ==
    /\ status = "active" /\ status' = "locked"
    /\ Move
    /\ UNCHANGED <<row, hooks, met>>

Unlock ==
    /\ status = "locked" /\ status' = "active"
    /\ Move
    /\ UNCHANGED <<row, hooks, met>>

Stop ==
    /\ status \in {"active", "locked"} /\ status' = "stopped"
    /\ hooks' = hooks \cup {"expire"}
    /\ Move
    /\ UNCHANGED <<row, met>>

Reset ==
    /\ status \in {"active", "locked", "stopped"} /\ status' = "idle"
    /\ row' = [v \in Voters |-> None]
    /\ hooks' = hooks \cup {"clear"}
    /\ Met("reset", Busy # {})
    /\ Move

HashGone == agg' = [o \in Options |-> 0] /\ fields' = {}

ClearHash ==
    /\ "clear" \in hooks /\ hooks' = hooks \ {"clear"}
    /\ HashGone /\ ttl' = FALSE
    /\ UNCHANGED <<stored, request, met, budget>>

SetExpiry ==
    /\ "expire" \in hooks /\ hooks' = hooks \ {"expire"}
    /\ ttl' = (fields # {})
    /\ UNCHANGED <<stored, agg, fields, request, met, budget>>

(* A hook that fails is passed over.                                         *)
HookLost(h) ==
    /\ h \in hooks /\ hooks' = hooks \ {h}
    /\ crashes < MaxCrashes /\ crashes' = crashes + 1
    /\ Met("crash", h = "clear")
    /\ UNCHANGED <<stored, hash, request, submits, moves, expiries>>

(* 24 hours outlast every request.                                           *)
Expire ==
    /\ ttl /\ Busy = {}
    /\ expiries < MaxExpiries /\ expiries' = expiries + 1
    /\ HashGone /\ ttl' = FALSE
    /\ Met("expiry", TRUE)
    /\ UNCHANGED <<stored, hooks, request, submits, moves, crashes>>

Next ==
    \/ \E d \in Slots :
          \/ \E v \in Voters, a \in Answers : Load(d, v, a)
          \/ Find(d) \/ Commit(d) \/ CommitRefused(d) \/ Crash(d)
          \/ \E o \in Options : CountDown(d, o) \/ CountUp(d, o)
    \/ Start \/ LockAnswers \/ Unlock \/ Stop \/ Reset
    \/ ClearHash \/ SetExpiry \/ Expire \/ \E h \in hooks : HookLost(h)

Spec == Init /\ [][Next]_vars

-----------------------------------------------------------------------------
(* Types; the counts of an option without a field are zero, and only a        *)
(* request that counts has something to count.                                *)
TypeOK ==
    /\ status \in Statuses
    /\ row \in [Voters -> Answers \cup {None}]
    /\ agg \in [Options -> Int] /\ fields \subseteq Options /\ ttl \in BOOLEAN
    /\ hooks \subseteq {"clear", "expire"}
    /\ pc \in [Slots -> Labels]
    /\ voter \in [Slots -> Voters]
    /\ answer \in [Slots -> Answers \cup {None}]
    /\ old \in [Slots -> Answers \cup {None}]
    /\ minus \in [Slots -> SUBSET Options] /\ plus \in [Slots -> SUBSET Options]
    /\ met \subseteq Irregular
    /\ submits \in 0..MaxSubmits /\ moves \in 0..MaxMoves
    /\ crashes \in 0..MaxCrashes /\ expiries \in 0..MaxExpiries
    /\ \A o \in Options \ fields : agg[o] = 0
    /\ \A d \in Slots : minus[d] \cup plus[d] # {} => pc[d] = "count"

Tally(o) == Cardinality({v \in Voters : o \in row[v]})

(* What the results show: the hash when it has counts, the rows otherwise.   *)
Shown(o) ==
    IF fields = {} THEN Tally(o) ELSE IF agg[o] > 0 THEN agg[o] ELSE 0

(* Results follow the answers through stops, restarts, locks and resets, as  *)
(* long as nothing irregular happens: no option is shown with more or fewer   *)
(* answers than there are rows for it, but for the requests that are just     *)
(* counting.  (While a reset has not yet cleared the hash it shows old counts.)*)
CountsFollow ==
    met = {} /\ "clear" \notin hooks =>
       \A o \in Options :
          LET counting == Cardinality({d \in Slots : pc[d] = "count"})
          IN  Shown(o) \in (Tally(o) - counting)..(Tally(o) + counting)
=============================================================================
