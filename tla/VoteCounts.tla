----------------------------- MODULE VoteCounts -----------------------------
(* The vote counts of one question: vote_question (POST /questions/{id}/vote) *)
(* keeps one row per participant in PostgreSQL and adds its change to a       *)
(* pending hash in Redis; the flush loop of every API process moves pending   *)
(* counts to the question row.  Redis commands and transactions are separate  *)
(* steps, so a process can die and another actor can act between any two.     *)
(* Votes refused by the rate limit or the question's status change nothing    *)
(* here and are left out.                                                     *)
EXTENDS Integers, FiniteSets

CONSTANTS
    Participants,
    Req,           \* request slots: each serves one vote at a time
    Degraded,      \* slots of an API process that found Redis unavailable
    FlushA, FlushB,  \* the flush loops of two API processes
    None,          \* no participant
    MaxVotes,      \* bound: votes over a behaviour
    MaxCrashes     \* bound: vote requests and flush rounds that die

Flushers == {FlushA, FlushB}
Sides    == {"up", "down"}
Choices  == Sides \cup {"none"}
Counts   == [Sides -> Int]

ASSUME VoteAssumption ==
    /\ IsFiniteSet(Participants)
    /\ Degraded \subseteq Req
    /\ FlushA # FlushB
    /\ None \notin Participants
    /\ MaxVotes \in Nat /\ MaxCrashes \in Nat

VARIABLES
    votes,     \* QuestionVote rows: each participant's direction, if any
    db,        \* upvote_count and downvote_count of the question row
    pending,   \* Redis hash qa:pending:{question}
    queued,    \* the question is in the set qa:flush_queue
    pc,        \* next step of each vote request
    who,       \* its participant
    old, new,  \* the vote it loaded, the vote it makes of it
    stale,     \* the row it loaded has been deleted since
    fpc,       \* next step of each flush loop
    taken,     \* the pending counts the loop read
    overlapped,  \* a participant voted again before its last vote was answered
    cast,      \* votes received so far
    crashes,   \* vote requests that died
    flushCrashes  \* flush rounds that died

vars == <<votes, db, pending, queued, pc, who, old, new, stale, fpc,
          taken, overlapped, cast, crashes, flushCrashes>>

redis   == <<pending, queued>>
choice  == <<who, old, new>>
flush   == <<fpc, taken>>
budget  == <<overlapped, cast, crashes, flushCrashes>>

Zero == [s \in Sides |-> 0]

Init ==
    /\ votes = [p \in Participants |-> "none"]
    /\ db = Zero /\ pending = Zero
    /\ queued = FALSE
    /\ pc = [r \in Req |-> "idle"]
    /\ who = [r \in Req |-> None]
    /\ old = [r \in Req |-> "none"]
    /\ new = [r \in Req |-> "none"]
    /\ stale = [r \in Req |-> FALSE]
    /\ fpc = [f \in Flushers |-> "idle"]
    /\ taken = [f \in Flushers |-> Zero]
    /\ overlapped = FALSE
    /\ cast = 0 /\ crashes = 0 /\ flushCrashes = 0

-----------------------------------------------------------------------------
(* A vote request.                                                           *)

ToggleToNone(vote, want) ==  \* mutant: a cancelled vote has no direction
    IF vote = want THEN None ELSE want

(* A click on the side already voted cancels, any other click sets the side. *)
Toggle(vote, want) == IF vote = want THEN "none" ELSE want

One(vote, side) == IF vote = side THEN 1 ELSE 0

Delta(r, side) == One(new[r], side) - One(old[r], side)

Goto(r, label) == pc' = [pc EXCEPT ![r] = label]

Close(r) ==
    /\ Goto(r, "idle")
    /\ who' = [who EXCEPT ![r] = None]
    /\ old' = [old EXCEPT ![r] = "none"]
    /\ new' = [new EXCEPT ![r] = "none"]
    /\ stale' = [stale EXCEPT ![r] = FALSE]

(* The participant page disables the buttons while its vote is in flight; a  *)
(* second page or a request given up by the client is not held back.         *)
LoadVote(r, p, want) ==
    /\ pc[r] = "idle" /\ cast < MaxVotes
    /\ overlapped' = (overlapped \/ \E q \in Req : who[q] = p)
    /\ cast' = cast + 1
    /\ who' = [who EXCEPT ![r] = p]
    /\ old' = [old EXCEPT ![r] = votes[p]]
    /\ new' = [new EXCEPT ![r] = Toggle(votes[p], want)]
    /\ Goto(r, IF r \in Degraded THEN "commit" ELSE "up")
    /\ UNCHANGED <<votes, db, redis, stale, flush, crashes, flushCrashes>>

(* record_vote_deltas: HINCRBY up, HINCRBY down, SADD. *)
CountUp(r) ==
    /\ pc[r] = "up"
    /\ pending' = [pending EXCEPT !["up"] = @ + Delta(r, "up")]
    /\ Goto(r, "down")
    /\ UNCHANGED <<votes, db, queued, choice, stale, flush, budget>>

CountDown(r) ==
    /\ pc[r] = "down"
    /\ pending' = [pending EXCEPT !["down"] = @ + Delta(r, "down")]
    /\ Goto(r, "queue")
    /\ UNCHANGED <<votes, db, queued, choice, stale, flush, budget>>

Enqueue(r) ==
    /\ pc[r] = "queue"
    /\ queued' = TRUE
    /\ Goto(r, "commit")
    /\ UNCHANGED <<votes, db, pending, choice, stale, flush, budget>>

(* The commit's INSERT meets another row of the participant, or its UPDATE   *)
(* meets no row: the request fails with an error nobody handles.  A DELETE   *)
(* of a row already gone is only a warning.                                  *)
Refused(r) == \/ old[r] = "none" /\ votes[who[r]] # "none"
              \/ old[r] # "none" /\ new[r] # "none" /\ stale[r]

CommitVote(r) ==
    /\ pc[r] = "commit" /\ ~ Refused(r)
    /\ LET p == who[r]
           deletes == new[r] = "none" /\ ~ stale[r]
       IN  /\ votes' = [votes EXCEPT ![p] = IF stale[r] THEN @ ELSE new[r]]
           /\ stale' = [q \in Req |->
                  stale[q] \/ (deletes /\ q # r /\ who[q] = p /\ old[q] # "none")]
    /\ db' = IF r \in Degraded
             THEN [s \in Sides |-> db[s] + Delta(r, s)] ELSE db
    /\ Goto(r, "answer")
    /\ UNCHANGED <<redis, choice, flush, budget>>

CommitRefused(r) ==
    /\ pc[r] = "commit" /\ Refused(r)
    /\ Close(r)
    /\ UNCHANGED <<votes, db, redis, flush, budget>>

(* The counts are read again and the request answered. *)
Answer(r) ==
    /\ pc[r] = "answer"
    /\ Close(r)
    /\ UNCHANGED <<votes, db, redis, flush, budget>>

-----------------------------------------------------------------------------
(* flush_pending_counts, run by each API process every 2 s.                  *)

Advance(f, label) == fpc' = [fpc EXCEPT ![f] = label]

Scan(f) ==
    /\ fpc[f] = "idle" /\ queued
    /\ Advance(f, "read")
    /\ UNCHANGED <<votes, db, redis, pc, choice, stale, taken, budget>>

AfterReadSkips(counts) ==  \* mutant: an empty hash is skipped but not removed
    IF counts = Zero THEN "idle" ELSE "apply"

(* An empty hash is only taken off the queue. *)
AfterRead(counts) == IF counts = Zero THEN "drop" ELSE "apply"

ReadPending(f) ==
    /\ fpc[f] = "read"
    /\ taken' = [taken EXCEPT ![f] = pending]
    /\ Advance(f, AfterRead(pending))
    /\ UNCHANGED <<votes, db, redis, pc, choice, stale, budget>>

(* UPDATE questions SET upvote_count = upvote_count + ..., and its commit. *)
Apply(f) ==
    /\ fpc[f] = "apply"
    /\ db' = [s \in Sides |-> db[s] + taken[f][s]]
    /\ Advance(f, "take_up")
    /\ UNCHANGED <<votes, redis, pc, choice, stale, taken, budget>>

DropHash(f, side) == [pending EXCEPT ![side] = 0]  \* mutant: HDEL

(* HINCRBY by minus what was applied, so that counts added meanwhile stay. *)
TakeBack(f, side) == [pending EXCEPT ![side] = @ - taken[f][side]]

TakeUp(f) ==
    /\ fpc[f] = "take_up"
    /\ pending' = TakeBack(f, "up")
    /\ Advance(f, "take_down")
    /\ UNCHANGED <<votes, db, queued, pc, choice, stale, taken, budget>>

TakeDown(f) ==
    /\ fpc[f] = "take_down"
    /\ pending' = TakeBack(f, "down")
    /\ Advance(f, "drop")
    /\ UNCHANGED <<votes, db, queued, pc, choice, stale, taken, budget>>

Drop(f) ==
    /\ fpc[f] = "drop"
    /\ queued' = FALSE
    /\ taken' = [taken EXCEPT ![f] = Zero]
    /\ Advance(f, "idle")
    /\ UNCHANGED <<votes, db, pending, pc, choice, stale, budget>>

-----------------------------------------------------------------------------
(* A request dies with its process or with its connection to the database;   *)
(* a flush round dies, or is ended by an error that the loop logs.           *)
Crash(r) ==
    /\ pc[r] # "idle" /\ crashes + flushCrashes < MaxCrashes
    /\ crashes' = crashes + 1
    /\ Close(r)
    /\ UNCHANGED <<votes, db, redis, flush, overlapped, cast, flushCrashes>>

FlushCrash(f) ==
    /\ fpc[f] # "idle" /\ crashes + flushCrashes < MaxCrashes
    /\ flushCrashes' = flushCrashes + 1
    /\ taken' = [taken EXCEPT ![f] = Zero]
    /\ Advance(f, "idle")
    /\ UNCHANGED <<votes, db, redis, pc, choice, stale, overlapped, cast, crashes>>

Serve(r) ==
    \/ CountUp(r) \/ CountDown(r) \/ Enqueue(r)
    \/ CommitVote(r) \/ CommitRefused(r) \/ Answer(r)

Flush(f) ==
    \/ Scan(f) \/ ReadPending(f) \/ Apply(f)
    \/ TakeUp(f) \/ TakeDown(f) \/ Drop(f)

Next ==
    \/ \E r \in Req :
          \/ \E p \in Participants, want \in Sides : LoadVote(r, p, want)
          \/ Serve(r)
          \/ Crash(r)
    \/ \E f \in Flushers : Flush(f) \/ FlushCrash(f)

Spec == Init /\ [][Next]_vars

(* Requests and flush loops keep running; nobody owes a further vote. *)
FairSpec ==
    /\ Spec
    /\ \A r \in Req : WF_vars(Serve(r))
    /\ \A f \in Flushers : WF_vars(Flush(f))

-----------------------------------------------------------------------------
Labels      == {"idle", "up", "down", "queue", "commit", "answer"}
FlushLabels == {"idle", "read", "apply", "take_up", "take_down", "drop"}

TypeOK ==
    /\ votes \in [Participants -> Choices]
    /\ db \in Counts /\ pending \in Counts
    /\ queued \in BOOLEAN
    /\ pc \in [Req -> Labels]
    /\ who \in [Req -> Participants \cup {None}]
    /\ old \in [Req -> Choices]
    /\ new \in [Req -> Choices]
    /\ stale \in [Req -> BOOLEAN]
    /\ fpc \in [Flushers -> FlushLabels]
    /\ taken \in [Flushers -> Counts]
    /\ overlapped \in BOOLEAN
    /\ cast \in 0..MaxVotes
    /\ crashes \in 0..MaxCrashes
    /\ flushCrashes \in 0..MaxCrashes

(* The request's change of a side is in the counts but its vote is not yet   *)
(* in the table.                                                             *)
Ahead(r, side) ==
    pc[r] \in IF side = "up" THEN {"down", "queue", "commit"}
              ELSE {"queue", "commit"}

(* What the counts hold of p's vote on a side. *)
Counted(p, side) ==
    IF \E r \in Req \ Degraded : who[r] = p /\ Ahead(r, side)
    THEN \E r \in Req \ Degraded : who[r] = p /\ Ahead(r, side) /\ new[r] = side
    ELSE votes[p] = side

Supporters(side) == {p \in Participants : Counted(p, side)}

(* Counts a flush loop has added to the row and still has to take back. *)
Owed(f, side) ==
    IF fpc[f] = "take_up" \/ (fpc[f] = "take_down" /\ side = "down")
    THEN taken[f][side] ELSE 0

Total(side) ==
    db[side] + pending[side] - Owed(FlushA, side) - Owed(FlushB, side)

(* The stored and the pending counts together are the number of votes, give  *)
(* or take one per vote request that died, whatever two flush loops and the  *)
(* other voters do in between: provided no flush round died, and each        *)
(* participant waits for an answer before voting again.                      *)
CrashCostsOneVote ==
    flushCrashes = 0 /\ ~ overlapped =>
        \A s \in Sides : LET drift == Total(s) - Cardinality(Supporters(s))
                         IN  - crashes <= drift /\ drift <= crashes

(* A question in the flush queue leaves it: the loop neither skips it nor    *)
(* serves it for ever.                                                       *)
QueueDrains == queued ~> ~ queued

Quiet == (\A r \in Req : pc[r] = "idle") /\ (\A f \in Flushers : fpc[f] = "idle")

(* At rest, counts that wait for the flush are in the flush queue: the loop  *)
(* will write them back ("write the counts pending flush back to the DB").   *)
PendingIsQueued == Quiet /\ pending # Zero => queued
=============================================================================
