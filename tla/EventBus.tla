------------------------------- MODULE EventBus -------------------------------
(* The events of one room: publish() sends each to the sockets of its own      *)
(* process, then to the Redis channel; the subscriber task of every process    *)
(* sends what the channel brings to the sockets it holds; the gateway          *)
(* registers a socket and replays what the client missed.  Events are the      *)
(* numbers 1, 2, ... in the order they are begun.                              *)
EXTENDS Naturals, Sequences, SequencesExt, FiniteSets

CONSTANTS
    Procs,      \* API processes
    MayDegrade, \* those of them that may find Redis unavailable as they start
    Clients,    \* browser tabs, each with one socket at a time
    Audiences,  \* the sets of clients an event may be addressed to (target_modes)
    NoProc,     \* a client without a socket
    MaxEvents,  \* bound: events published
    MaxFaults   \* bound: lost sockets, subscriber deaths, failed publishes, restarts

ASSUME BusAssumption ==
    /\ MayDegrade \subseteq Procs /\ NoProc \notin Procs
    /\ Audiences \subseteq SUBSET Clients
    /\ MaxEvents \in Nat /\ MaxFaults \in Nat

Events == 1..MaxEvents

VARIABLES
    conn,    \* process that holds the socket of each client
    seen,    \* events the client was given
    last,    \* last of them, the lastEventId of the client (0: none)
    since,   \* length of the channel when it last connected
    stage,   \* progress of each publish(): new, local, done
    home,    \* process that runs it
    aud,     \* clients it is addressed to
    todo,    \* sockets its local broadcast has still to send to
    channel, \* events in the order of their PUBLISH
    redis,   \* each process found Redis when it started
    alive,   \* its subscriber task runs
    pos,     \* how much of the channel it has taken
    left,    \* sockets its broadcast of the last event taken has still to send to
    faults   \* faults so far

clientVars == <<conn, seen, last, since>>
pubVars    == <<stage, home, aud, todo, channel>>
subVars    == <<redis, alive, pos, left>>
vars == <<clientVars, pubVars, subVars, faults>>

Stages == {"new", "local", "done"}

Init ==
    /\ conn = [c \in Clients |-> NoProc]
    /\ seen = [c \in Clients |-> {}]
    /\ last = [c \in Clients |-> 0]
    /\ since = [c \in Clients |-> 0]
    /\ stage = [e \in Events |-> "new"]
    /\ home = [e \in Events |-> NoProc]
    /\ aud = [e \in Events |-> {}]
    /\ todo = [e \in Events |-> {}]
    /\ channel = <<>>
    /\ redis \in {r \in [Procs -> BOOLEAN] : \A p \in Procs \ MayDegrade : r[p]}
    /\ alive = redis
    /\ pos = [p \in Procs |-> 0]
    /\ left = [p \in Procs |-> {}]
    /\ faults = 0

Fault == faults < MaxFaults /\ faults' = faults + 1

Everyone(p, audience) == audience  \* mutant: sockets of other processes too
Targets(p, audience)  == {c \in audience : conn[c] = p}

-----------------------------------------------------------------------------
(* The socket of a client.                                                   *)

(* The client presents the id of the envelope it saw last (evt_...), but the *)
(* stream is read by the ids Redis gave its entries (ms-seq), which no live  *)
(* event carries: the read fails and nothing is replayed.                    *)
Replay(c) == <<>>

Connect(c, p) ==
    /\ conn[c] = NoProc
    /\ conn' = [conn EXCEPT ![c] = p]
    /\ seen' = [seen EXCEPT ![c] = @ \cup ToSet(Replay(c))]
    /\ last' = [last EXCEPT ![c] = IF Replay(c) = <<>> THEN @ ELSE Last(Replay(c))]
    /\ since' = [since EXCEPT ![c] = Len(channel)]
    /\ UNCHANGED <<pubVars, subVars, faults>>

(* What was to be sent on a lost socket is lost with it.                     *)
Disconnect(gone) ==
    /\ conn' = [c \in Clients |-> IF c \in gone THEN NoProc ELSE conn[c]]
    /\ todo' = [e \in Events |-> todo[e] \ gone]
    /\ left' = [p \in Procs |-> left[p] \ gone]

Drop(c) ==
    /\ Fault
    /\ conn[c] # NoProc
    /\ Disconnect({c})
    /\ UNCHANGED <<seen, last, since, stage, home, aud, channel,
                   redis, alive, pos>>

Receive(c, e) ==
    /\ seen' = [seen EXCEPT ![c] = @ \cup {e}]
    /\ last' = [last EXCEPT ![c] = e]
    /\ UNCHANGED <<conn, since>>

-----------------------------------------------------------------------------
(* publish(): the local broadcast, then PUBLISH and XADD.                    *)

Begin(e, p, audience) ==
    /\ stage[e] = "new" /\ \A f \in 1..(e - 1) : stage[f] # "new"
    /\ stage' = [stage EXCEPT ![e] = "local"]
    /\ home' = [home EXCEPT ![e] = p]
    /\ aud' = [aud EXCEPT ![e] = audience]
    /\ todo' = [todo EXCEPT ![e] = Targets(p, audience)]
    /\ UNCHANGED <<clientVars, channel, subVars, faults>>

SendLocal(e, c) ==
    /\ c \in todo[e]
    /\ Receive(c, e)
    /\ todo' = [todo EXCEPT ![e] = @ \ {c}]
    /\ UNCHANGED <<stage, home, aud, channel, subVars, faults>>

SentAtOnce(e) == TRUE  \* mutant: PUBLISH does not wait for the local broadcast
SentLocally(e) == todo[e] = {}

(* The pipeline also adds the event to the stream, which Replay never reads. *)
Publish(e) ==
    /\ stage[e] = "local" /\ SentLocally(e)
    /\ stage' = [stage EXCEPT ![e] = "done"]
    /\ channel' = IF redis[home[e]] THEN Append(channel, e) ELSE channel
    /\ UNCHANGED <<clientVars, home, aud, todo, subVars, faults>>

(* Redis refuses the pipeline: the exception ends the request.               *)
PublishFails(e) ==
    /\ stage[e] = "local" /\ SentLocally(e) /\ redis[home[e]]
    /\ Fault
    /\ stage' = [stage EXCEPT ![e] = "done"]
    /\ UNCHANGED <<clientVars, home, aud, todo, channel, subVars>>

-----------------------------------------------------------------------------
(* The subscriber task of a process.                                         *)

(* Who gets an event the channel brings: every socket of its audience, also  *)
(* the ones the publisher on the same process has sent it to already.        *)
NotOwn(p, e)  == IF home[e] = p THEN {} ELSE Targets(p, aud[e])
             \* mutant: skip the events the process published itself
Relayed(p, e) == Targets(p, aud[e])

Take(p) ==
    /\ alive[p] /\ left[p] = {} /\ pos[p] < Len(channel)
    /\ pos' = [pos EXCEPT ![p] = @ + 1]
    /\ left' = [left EXCEPT ![p] = Relayed(p, channel[pos[p] + 1])]
    /\ UNCHANGED <<clientVars, pubVars, redis, alive, faults>>

SendOn(p, c) ==
    /\ c \in left[p]
    /\ Receive(c, channel[pos[p]])
    /\ left' = [left EXCEPT ![p] = @ \ {c}]
    /\ UNCHANGED <<pubVars, redis, alive, pos, faults>>

(* An error of the Redis connection ends the task; nothing starts it again.  *)
SubscriberDies(p) ==
    /\ alive[p] /\ left[p] = {}
    /\ Fault
    /\ alive' = [alive EXCEPT ![p] = FALSE]
    /\ UNCHANGED <<clientVars, pubVars, redis, pos, left>>

(* A process dies with its sockets, its requests and its subscriber, and is  *)
(* started again.                                                            *)
Restart(p) ==
    /\ Fault
    /\ Disconnect({c \in Clients : conn[c] = p})
    /\ stage' = [e \in Events |-> IF home[e] = p /\ stage[e] # "new"
                                  THEN "done" ELSE stage[e]]
    /\ \E found \in IF p \in MayDegrade THEN BOOLEAN ELSE {TRUE} :
          /\ redis' = [redis EXCEPT ![p] = found]
          /\ alive' = [alive EXCEPT ![p] = found]
    /\ pos' = [pos EXCEPT ![p] = Len(channel)]
    /\ UNCHANGED <<seen, last, since, home, aud, channel>>

-----------------------------------------------------------------------------
Next ==
    \/ \E c \in Clients :
          \/ Drop(c)
          \/ \E p \in Procs : Connect(c, p) \/ SendOn(p, c)
          \/ \E e \in Events : SendLocal(e, c)
    \/ \E e \in Events :
          \/ Publish(e) \/ PublishFails(e)
          \/ \E p \in Procs, audience \in Audiences : Begin(e, p, audience)
    \/ \E p \in Procs : Take(p) \/ SubscriberDies(p) \/ Restart(p)

Spec == Init /\ [][Next]_vars

(* The publishing request and the subscriber task keep running: a socket      *)
(* takes what is sent on it or drops.                                        *)
Publishing(e)  == Publish(e) \/ \E c \in Clients : SendLocal(e, c)
Subscribing(p) == Take(p) \/ \E c \in Clients : SendOn(p, c)

Fairness ==
    /\ \A e \in Events : WF_vars(Publishing(e))
    /\ \A p \in Procs : WF_vars(Subscribing(p))

FairSpec == Spec /\ Fairness

-----------------------------------------------------------------------------
(* Types; a broadcast has only open sockets of its own process to send to.    *)
TypeOK ==
    /\ conn \in [Clients -> Procs \cup {NoProc}]
    /\ seen \in [Clients -> SUBSET Events]
    /\ last \in [Clients -> Events \cup {0}]
    /\ since \in [Clients -> Nat]
    /\ stage \in [Events -> Stages]
    /\ home \in [Events -> Procs \cup {NoProc}]
    /\ aud \in [Events -> SUBSET Clients]
    /\ todo \in [Events -> SUBSET Clients]
    /\ \A e \in Events : \A c \in todo[e] : conn[c] = home[e]
    /\ channel \in Seq(Events)
    /\ redis \in [Procs -> BOOLEAN] /\ alive \in [Procs -> BOOLEAN]
    /\ pos \in [Procs -> Nat]
    /\ left \in [Procs -> SUBSET Clients]
    /\ \A p \in Procs : \A c \in left[p] : conn[c] = p
    /\ faults \in 0..MaxFaults

(* Events on the channel addressed to c after position n of it.              *)
Addressed(c, n) ==
    {channel[i] : i \in {j \in (n + 1)..Len(channel) : c \in aud[channel[j]]}}

Served(c) == conn[c] # NoProc /\ alive[conn[c]]

InFlight(p, e) ==
    \E i \in (pos[p] + 1)..Len(channel) : channel[i] = e

(* An event published while the socket of a client is open was given to it,  *)
(* or is still to be: on the way to its process or in the broadcast there.   *)
(* Connecting between the local broadcast and the PUBLISH loses nothing.     *)
NothingLost ==
    \A c \in Clients : Served(c) =>
       \A e \in Addressed(c, since[c]) :
          \/ e \in seen[c]
          \/ InFlight(conn[c], e)
          \/ c \in left[conn[c]] /\ channel[pos[conn[c]]] = e

Quiet ==
    /\ \A e \in Events : stage[e] # "local" /\ todo[e] = {}
    /\ \A p \in Procs : left[p] = {} /\ (alive[p] => pos[p] = Len(channel))

Unpublished == {e \in Events : stage[e] = "done"} \ ToSet(channel)

(* When everything is delivered, clients agree on the latest event: whoever  *)
(* was connected when the last one addressed to it was published has that    *)
(* one last, in whatever order concurrent publishers sent theirs.  (Events   *)
(* Redis never had reach only the sockets of their own process.)             *)
SameLastEvent ==
    Quiet /\ Unpublished = {} =>
       \A c \in Clients : Served(c) =>
          \A i \in (since[c] + 1)..Len(channel) :
             /\ c \in aud[channel[i]]
             /\ \A j \in (i + 1)..Len(channel) : c \notin aud[channel[j]]
             => last[c] = channel[i]

(* Every event published while a client's socket is open reaches the client, *)
(* unless the socket or the subscriber of its process goes first.            *)
Delivered ==
    \A c \in Clients, e \in Events :
       (Served(c) /\ e \in Addressed(c, since[c]))
          ~> (e \in seen[c] \/ ~ Served(c) \/ e \notin Addressed(c, since[c]))
=============================================================================
