------------------------------ MODULE RoomSocket ------------------------------
(* The WebSocket of one mounted component (useRoomWebSocket): the effect that *)
(* connects and its cleanup, the handlers of the sockets it made, the         *)
(* reconnect timers, the wake-up listeners and the watchdog.  JavaScript runs *)
(* one handler at a time; a socket that was closed reports it later.          *)
EXTENDS Naturals, FiniteSets

CONSTANTS
    Targets,     \* the (room, token, mode) the hook may be given
    NoTarget,    \* unmounted, disabled, or without room or token
    MaxSockets,  \* bound: sockets made
    MaxChanges,  \* bound: mounts, unmounts and changes of target
    MaxWakes,    \* bound: wake-ups that force a reconnect
    MaxLosses    \* bound: closes by the network, the server or the watchdog

(* Every change and wake-up makes a socket and may leave a close event that   *)
(* makes another; every loss makes one: the bound on sockets is never met.    *)
ASSUME SocketAssumption ==
    /\ NoTarget \notin Targets
    /\ MaxChanges \in Nat /\ MaxWakes \in Nat /\ MaxLosses \in Nat
    /\ MaxSockets \in Nat
    /\ MaxSockets >= 2 * (MaxChanges + MaxWakes) + MaxLosses

Sockets == 1..MaxSockets
NoSocket == 0

VARIABLES
    want,         \* what the hook is mounted with
    made,         \* sockets made so far
    state,        \* readyState of each
    target,       \* what it was opened for, also the closure of its timer
    wsRef,        \* wsRef.current
    timers,       \* sockets whose close event set a timer that is pending
    timerRef,     \* timerRef.current: the last timer set, unless cleared
    intentional,  \* intentionalCloseRef.current
    connected,    \* what the hook returns
    overtaken,    \* history: a socket was made before the one before it closed
    changes, wakes, losses

vars == <<want, made, state, target, wsRef, timers, timerRef, intentional,
          connected, overtaken, changes, wakes, losses>>
budget == <<changes, wakes, losses>>

States == {"unused", "connecting", "open", "closing", "closed"}
Live   == {"connecting", "open"}

Init ==
    /\ want = NoTarget /\ made = 0
    /\ state = [s \in Sockets |-> "unused"]
    /\ target = [s \in Sockets |-> NoTarget]
    /\ wsRef = NoSocket
    /\ timers = {} /\ timerRef = NoSocket
    /\ intentional = FALSE /\ connected = FALSE
    /\ overtaken = FALSE
    /\ changes = 0 /\ wakes = 0 /\ losses = 0

-----------------------------------------------------------------------------
AllClosed ==  \* mutant: closes every socket
    [s \in Sockets |-> IF state[s] = "closed" THEN "closed" ELSE "closing"]

(* ws.close() on the socket the hook refers to, if any.                      *)
RefClosed ==
    [s \in Sockets |-> IF s = wsRef /\ state[s] \in Live THEN "closing" ELSE state[s]]

KeepsIntent  == intentional' = intentional  \* mutant: the flag is not reset
ResetsIntent == intentional' = FALSE

(* connect() for t, with the sockets in the states of before.                *)
MakeSocket(t, before) ==
    /\ made < MaxSockets
    /\ made' = made + 1
    /\ state' = [before EXCEPT ![made + 1] = "connecting"]
    /\ target' = [target EXCEPT ![made + 1] = t]
    /\ wsRef' = made + 1
    /\ ResetsIntent
    /\ overtaken' = (overtaken \/ \E s \in Sockets : before[s] \in Live \cup {"closing"})

LeaveTimer == UNCHANGED <<timers, timerRef>>  \* mutant: not cleared
ClearTimer == timers' = timers \ {timerRef} /\ timerRef' = NoSocket

Change == changes < MaxChanges /\ changes' = changes + 1 /\ UNCHANGED <<wakes, losses>>

Mount(t) ==
    /\ want = NoTarget /\ want' = t
    /\ MakeSocket(t, state)
    /\ Change
    /\ UNCHANGED <<timers, timerRef, connected>>

(* The effect's cleanup.                                                     *)
Unmount ==
    /\ want # NoTarget /\ want' = NoTarget
    /\ intentional' = TRUE
    /\ ClearTimer
    /\ state' = RefClosed /\ wsRef' = NoSocket
    /\ connected' = FALSE
    /\ Change
    /\ UNCHANGED <<made, target, overtaken>>

(* Other dependencies: the cleanup and the effect, one after the other.      *)
Switch(t) ==
    /\ want \notin {NoTarget, t} /\ want' = t
    /\ ClearTimer
    /\ MakeSocket(t, RefClosed)
    /\ connected' = FALSE
    /\ Change

(* forceReconnectNow: the network is back or the page is shown again.        *)
Wake ==
    /\ want # NoTarget
    /\ wakes < MaxWakes /\ wakes' = wakes + 1
    /\ ClearTimer
    /\ MakeSocket(want, RefClosed)
    /\ UNCHANGED <<want, connected, changes, losses>>

OpenEvent(s) ==
    /\ state[s] = "connecting"
    /\ state' = [state EXCEPT ![s] = "open"]
    /\ connected' = TRUE
    /\ UNCHANGED <<want, made, target, wsRef, timers, timerRef, intentional,
                   overtaken, budget>>

Closes(s) ==
    /\ state' = [state EXCEPT ![s] = "closed"]
    /\ connected' = FALSE
    /\ wsRef' = NoSocket
    /\ IF intentional
       THEN UNCHANGED <<timers, timerRef>>
       ELSE timers' = timers \cup {s} /\ timerRef' = s
    /\ UNCHANGED <<want, made, target, intentional, overtaken, changes, wakes>>

(* onclose of a socket the hook closed.                                      *)
CloseEvent(s) == state[s] = "closing" /\ Closes(s) /\ UNCHANGED losses

(* onclose of a socket the network or the server closed.                     *)
Loss(s) ==
    /\ state[s] \in Live
    /\ losses < MaxLosses /\ losses' = losses + 1
    /\ Closes(s)

(* No message for 35 s: the watchdog closes the socket it finds open.        *)
WatchdogCloses ==
    /\ want # NoTarget /\ wsRef # NoSocket /\ state[wsRef] = "open"
    /\ losses < MaxLosses /\ losses' = losses + 1
    /\ state' = RefClosed
    /\ UNCHANGED <<want, made, target, wsRef, timers, timerRef, intentional,
                   connected, overtaken, changes, wakes>>

(* The timer of a close event: connect() for what its socket was opened for. *)
TimerFires(s) ==
    /\ s \in timers
    /\ timers' = timers \ {s}
    /\ MakeSocket(target[s], state)
    /\ UNCHANGED <<want, timerRef, connected, budget>>

Next ==
    \/ \E t \in Targets : Mount(t) \/ Switch(t)
    \/ Unmount \/ Wake \/ WatchdogCloses
    \/ \E s \in Sockets : OpenEvent(s) \/ CloseEvent(s) \/ Loss(s) \/ TimerFires(s)

Spec == Init /\ [][Next]_vars

(* The server is reachable, close events arrive and timers fire.             *)
FairSpec ==
    /\ Spec
    /\ \A s \in Sockets :
          WF_vars(OpenEvent(s)) /\ WF_vars(CloseEvent(s)) /\ WF_vars(TimerFires(s))

-----------------------------------------------------------------------------
(* Types; sockets are used in order, and a timer belongs to a closed socket. *)
TypeOK ==
    /\ want \in Targets \cup {NoTarget}
    /\ made \in 0..MaxSockets
    /\ state \in [Sockets -> States]
    /\ target \in [Sockets -> Targets \cup {NoTarget}]
    /\ wsRef \in 0..made
    /\ timers \subseteq Sockets /\ timerRef \in 0..made
    /\ intentional \in BOOLEAN /\ connected \in BOOLEAN /\ overtaken \in BOOLEAN
    /\ changes \in 0..MaxChanges /\ wakes \in 0..MaxWakes /\ losses \in 0..MaxLosses
    /\ \A s \in Sockets : state[s] = "unused" <=> s > made
    /\ \A s \in Sockets : target[s] = NoTarget <=> s > made
    /\ \A s \in timers : state[s] = "closed"

AtRest == timers = {} /\ \A s \in Sockets : state[s] \in {"unused", "open", "closed"}

(* A mounted hook that waits for nothing is connected to what it was given   *)
(* and says so, whatever closed, woke up or changed before.                  *)
ConnectedAtRest ==
    want # NoTarget /\ AtRest =>
       connected /\ \E s \in Sockets : state[s] = "open" /\ target[s] = want

(* As long as close events arrive before the next socket is made, the hook   *)
(* has one socket, refers to it while mounted, and reconnects only to what   *)
(* it is mounted with.                                                       *)
OneSocket ==
    ~ overtaken =>
       /\ Cardinality({s \in Sockets : state[s] \in Live}) + Cardinality(timers) <= 1
       /\ \A s \in Sockets : state[s] \in Live => s = wsRef /\ target[s] = want
       /\ \A s \in timers : target[s] = want

(* A mounted hook is eventually connected.                                   *)
Reconnects ==
    \A t \in Targets :
       want = t ~> want # t \/ \E s \in Sockets : state[s] = "open" /\ target[s] = t
=============================================================================
