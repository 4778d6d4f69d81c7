--------------------------- MODULE TransportProofs ----------------------------
(* What stands between a page and the server.  A mounted hook is never left    *)
(* without a socket or a timer that will bring it one, for any targets and any  *)
(* number of sockets, closes, changes and wake-ups; and the Idempotency-Key     *)
(* middleware executes a request whose deliveries are sent one at a time at     *)
(* most once while the entry of its key lives, for any number of deliveries,    *)
(* slots and crashes.                                                          *)
EXTENDS RoomSocket, IdempotentRequests, FiniteSetTheorems, TLAPS

USE SocketAssumption DEF SocketAssumption

(* A socket that is, or through its timer will be, the hook's connection.    *)
Hopeful(s) ==
    target[s] = want /\ (state[s] \in Live \cup {"closing"} \/ s \in timers)

Engaged ==
    want # NoTarget =>
       /\ ~ intentional
       /\ \E s \in Sockets : Hopeful(s)
       /\ connected \/ timers # {} \/ \E s \in Sockets : state[s] = "connecting"

IInv == TypeOK /\ Engaged

-----------------------------------------------------------------------------
(* The invariant holds initially.                                            *)
LEMMA InitHolds == Init => IInv
<1> SUFFICES ASSUME Init PROVE IInv
  OBVIOUS
<1> USE DEF Init, NoSocket
<1>1. TypeOK
  <2>1. intentional \in BOOLEAN /\ connected \in BOOLEAN /\ overtaken \in BOOLEAN
    OBVIOUS
  <2>2. /\ want \in Targets \cup {NoTarget} /\ made \in 0..MaxSockets
        /\ state \in [Sockets -> States]
        /\ target \in [Sockets -> Targets \cup {NoTarget}]
        /\ wsRef \in 0..made /\ timers \subseteq Sockets /\ timerRef \in 0..made
    BY DEF States
  <2>3. /\ changes \in 0..MaxChanges /\ wakes \in 0..MaxWakes
        /\ losses \in 0..MaxLosses
        /\ \A s \in Sockets : state[s] = "unused" <=> s > made
        /\ \A s \in Sockets : target[s] = NoTarget <=> s > made
        /\ \A s \in timers : state[s] = "closed"
    BY DEF Sockets
  <2> QED BY <2>1, <2>2, <2>3 DEF TypeOK
<1>2. Engaged
  BY DEF Engaged
<1> QED BY <1>1, <1>2 DEF IInv

(* connect() from a well-typed state makes a new socket for t, and the flag  *)
(* of a purposeful close is off.                                             *)
LEMMA MakeSocketLemma ==
    ASSUME TypeOK, NEW t \in Targets, NEW before \in [Sockets -> States],
           \A s \in Sockets : before[s] = "unused" <=> s > made,
           MakeSocket(t, before)
    PROVE  /\ made' \in 0..MaxSockets /\ made' = made + 1 /\ made' \in Sockets
           /\ state' \in [Sockets -> States]
           /\ target' \in [Sockets -> Targets \cup {NoTarget}]
           /\ wsRef' \in 0..made'
           /\ state'[made'] = "connecting" /\ target'[made'] = t
           /\ \A s \in Sockets : s # made' =>
                 state'[s] = before[s] /\ target'[s] = target[s]
           /\ \A s \in Sockets : state'[s] = "unused" <=> s > made'
           /\ \A s \in Sockets : target'[s] = NoTarget <=> s > made'
           /\ \A s \in Sockets : before[s] = "closed" => state'[s] = "closed"
           /\ ~ intentional'
<1> USE DEF TypeOK, MakeSocket, ResetsIntent, States, Sockets
<1>1. made' = made + 1 /\ made' \in Sockets /\ made' \in 0..MaxSockets
  OBVIOUS
<1>2. /\ state' \in [Sockets -> States]
      /\ state'[made'] = "connecting"
      /\ \A s \in Sockets : s # made' => state'[s] = before[s]
  BY <1>1
<1>3. /\ target' \in [Sockets -> Targets \cup {NoTarget}]
      /\ target'[made'] = t
      /\ \A s \in Sockets : s # made' => target'[s] = target[s]
  BY <1>1
<1>4. /\ \A s \in Sockets : state'[s] = "unused" <=> s > made'
      /\ \A s \in Sockets : target'[s] = NoTarget <=> s > made'
  BY <1>1, <1>2, <1>3
<1>5. \A s \in Sockets : before[s] = "closed" => state'[s] = "closed"
  <2>1. before[made'] = "unused"
    BY <1>1
  <2> QED BY <1>2, <2>1
<1>6. ~ intentional'
  OBVIOUS
<1> QED BY <1>1, <1>2, <1>3, <1>4, <1>5, <1>6

(* Closing the socket the hook refers to leaves a well-typed set of sockets. *)
LEMMA RefClosedLemma ==
    ASSUME TypeOK
    PROVE  /\ RefClosed \in [Sockets -> States]
           /\ \A s \in Sockets : RefClosed[s] = "unused" <=> s > made
           /\ \A s \in timers : RefClosed[s] = "closed"
  BY DEF TypeOK, RefClosed, States, Live

(* After connect() for what the hook is mounted with, it is engaged.         *)
LEMMA EngagedByMaking ==
    ASSUME TypeOK, NEW before \in [Sockets -> States],
           \A s \in Sockets : before[s] = "unused" <=> s > made,
           want' \in Targets, MakeSocket(want', before)
    PROVE  Engaged'
<1>0. PICK s \in Sockets : s = made'
  BY MakeSocketLemma
<1>1. /\ state'[s] = "connecting" /\ target'[s] = want'
      /\ ~ intentional'
  BY <1>0, MakeSocketLemma
<1>2. Hopeful(s)'
  BY <1>1 DEF Hopeful, Live
<1> QED BY <1>1, <1>2 DEF Engaged

(* Types, and being engaged, are kept by every step.                         *)
LEMMA StepKeeps == IInv /\ [Next]_vars => IInv'
<1> SUFFICES ASSUME TypeOK, Engaged, [Next]_vars PROVE TypeOK' /\ Engaged'
  BY DEF IInv
<1> USE DEF NoSocket
<1>0. \A s \in Sockets : state[s] = "unused" <=> s > made
  BY DEF TypeOK
<1>1. ASSUME NEW t \in Targets, Mount(t) PROVE TypeOK' /\ Engaged'
  <2>1. state \in [Sockets -> States] /\ want' = t /\ MakeSocket(t, state)
    BY <1>1 DEF Mount, TypeOK
  <2>2. Engaged'
    BY <2>1, <1>0, EngagedByMaking
  <2>3. overtaken' \in BOOLEAN /\ intentional' \in BOOLEAN
    BY <2>1 DEF MakeSocket, ResetsIntent, TypeOK
  <2>4. \A s \in timers' : state'[s] = "closed"
    BY <1>1, <2>1, <1>0, MakeSocketLemma DEF Mount, TypeOK, Sockets
  <2> QED BY <1>1, <2>1, <2>2, <2>3, <2>4, <1>0, MakeSocketLemma
          DEF Mount, Change, TypeOK
<1>2. CASE Unmount
  <2>1. TypeOK'
    <3>1. /\ intentional' \in BOOLEAN /\ connected' \in BOOLEAN
          /\ overtaken' \in BOOLEAN
      BY <1>2 DEF Unmount, TypeOK
    <3>2. timers' \subseteq timers /\ timerRef' \in 0..made' /\ wsRef' \in 0..made'
      BY <1>2 DEF Unmount, ClearTimer, TypeOK
    <3> QED BY <1>2, <3>1, <3>2, RefClosedLemma DEF Unmount, Change, TypeOK
  <2> QED BY <1>2, <2>1 DEF Unmount, Engaged
<1>3. ASSUME NEW t \in Targets, Switch(t) PROVE TypeOK' /\ Engaged'
  <2>1. /\ RefClosed \in [Sockets -> States] /\ want' = t
        /\ MakeSocket(t, RefClosed)
        /\ \A s \in Sockets : RefClosed[s] = "unused" <=> s > made
    BY <1>3, RefClosedLemma DEF Switch
  <2>2. Engaged'
    BY <2>1, EngagedByMaking
  <2>3. overtaken' \in BOOLEAN /\ intentional' \in BOOLEAN
    BY <2>1 DEF MakeSocket, ResetsIntent, TypeOK
  <2>4. timers' \subseteq timers /\ timerRef' \in 0..made'
    BY <1>3, <2>1, MakeSocketLemma DEF Switch, ClearTimer, TypeOK
  <2>6. connected' \in BOOLEAN
    BY <1>3 DEF Switch
  <2>5. \A s \in timers' : state'[s] = "closed"
    BY <2>1, <2>4, RefClosedLemma, MakeSocketLemma DEF TypeOK, Sockets
  <2> QED BY <1>3, <2>1, <2>2, <2>3, <2>4, <2>5, <2>6, MakeSocketLemma
          DEF Switch, Change, TypeOK
<1>4. CASE Wake
  <2>1. /\ RefClosed \in [Sockets -> States] /\ want' = want /\ want \in Targets
        /\ MakeSocket(want, RefClosed)
        /\ \A s \in Sockets : RefClosed[s] = "unused" <=> s > made
    BY <1>4, RefClosedLemma DEF Wake, TypeOK
  <2>2. Engaged'
    BY <2>1, EngagedByMaking
  <2>3. overtaken' \in BOOLEAN /\ intentional' \in BOOLEAN
    BY <2>1 DEF MakeSocket, ResetsIntent, TypeOK
  <2>4. timers' \subseteq timers /\ timerRef' \in 0..made'
    BY <1>4, <2>1, MakeSocketLemma DEF Wake, ClearTimer, TypeOK
  <2>5. \A s \in timers' : state'[s] = "closed"
    BY <2>1, <2>4, RefClosedLemma, MakeSocketLemma DEF TypeOK, Sockets
  <2> QED BY <1>4, <2>1, <2>2, <2>3, <2>4, <2>5, MakeSocketLemma
          DEF Wake, TypeOK
<1>5. CASE WatchdogCloses
  <2>1. TypeOK'
    BY <1>5, RefClosedLemma DEF WatchdogCloses, TypeOK
  <2>2. /\ \A s \in Sockets : Hopeful(s) => Hopeful(s)'
        /\ \A s \in Sockets : state[s] = "connecting" => state'[s] = "connecting"
    BY <1>5 DEF WatchdogCloses, RefClosed, Hopeful, Live, TypeOK
  <2> QED BY <1>5, <2>1, <2>2 DEF WatchdogCloses, Engaged
<1>6. ASSUME NEW s \in Sockets, OpenEvent(s) PROVE TypeOK' /\ Engaged'
  <2>1. TypeOK'
    BY <1>6 DEF OpenEvent, TypeOK, States, budget
  <2>2. \A r \in Sockets : Hopeful(r) => Hopeful(r)'
    BY <1>6 DEF OpenEvent, Hopeful, Live, TypeOK
  <2> QED BY <1>6, <2>1, <2>2 DEF OpenEvent, Engaged
<1>7. ASSUME NEW s \in Sockets, state[s] \in Live \cup {"closing"}, Closes(s),
             losses' \in 0..MaxLosses
      PROVE  TypeOK' /\ Engaged'
  <2>1. TypeOK'
    <3>1. s <= made /\ s \in 0..made
      BY <1>7, <1>0 DEF Live, Sockets, TypeOK
    <3>2. timers' \subseteq Sockets /\ timerRef' \in 0..made'
      BY <1>7, <3>1 DEF Closes, TypeOK
    <3>3. \A r \in timers' : state'[r] = "closed"
      BY <1>7 DEF Closes, TypeOK
    <3>4. /\ state' \in [Sockets -> States]
          /\ \A r \in Sockets : state'[r] = "unused" <=> r > made'
      BY <1>7, <1>0, <3>1 DEF Closes, TypeOK, States, Sockets
    <3>5. /\ intentional' \in BOOLEAN /\ connected' \in BOOLEAN
          /\ overtaken' \in BOOLEAN
      BY <1>7 DEF Closes, TypeOK
    <3> QED BY <1>7, <3>2, <3>3, <3>4, <3>5 DEF Closes, TypeOK
  <2>2. want # NoTarget => s \in timers'
    BY <1>7 DEF Closes, Engaged
  <2>3. ASSUME want # NoTarget, NEW r \in Sockets, Hopeful(r)
        PROVE  Hopeful(r)'
    <3>1. CASE r = s
      BY <1>7, <2>2, <2>3, <3>1 DEF Closes, Hopeful
    <3>2. CASE r # s
      BY <1>7, <2>3, <3>2 DEF Closes, Hopeful, TypeOK
    <3> QED BY <3>1, <3>2
  <2>4. want' = want /\ intentional' = intentional
    BY <1>7 DEF Closes
  <2> QED BY <2>1, <2>2, <2>3, <2>4 DEF Engaged
<1>8. ASSUME NEW s \in Sockets, CloseEvent(s) \/ Loss(s)
      PROVE  TypeOK' /\ Engaged'
  BY <1>7, <1>8 DEF CloseEvent, Loss, TypeOK, Live
<1>9. ASSUME NEW s \in Sockets, TimerFires(s) PROVE TypeOK' /\ Engaged'
  <2>1. /\ state \in [Sockets -> States] /\ MakeSocket(target[s], state)
        /\ want' = want /\ timers' = timers \ {s} /\ timerRef' = timerRef
        /\ connected' = connected
    BY <1>9 DEF TimerFires, TypeOK
  <2>2. target[s] \in Targets /\ s <= made
    BY <1>9, <1>0 DEF TimerFires, TypeOK, Sockets
  <2>3. \A r \in timers' : state'[r] = "closed"
    <3>1. \A r \in timers' : r \in Sockets /\ state[r] = "closed"
      BY <2>1 DEF TypeOK
    <3> QED BY <2>1, <2>2, <3>1, <1>0, MakeSocketLemma
  <2>4. overtaken' \in BOOLEAN /\ intentional' \in BOOLEAN
    BY <2>1 DEF MakeSocket, ResetsIntent, TypeOK
  <2>5. TypeOK'
    BY <1>9, <2>1, <2>2, <2>3, <2>4, <1>0, MakeSocketLemma
       DEF TimerFires, TypeOK, budget
  <2>6. ASSUME want # NoTarget PROVE Engaged'
    <3>1. /\ made' \in Sockets /\ made' = made + 1 /\ ~ intentional'
          /\ state'[made'] = "connecting" /\ target'[made'] = target[s]
          /\ \A r \in Sockets : r # made' =>
                state'[r] = state[r] /\ target'[r] = target[r]
      BY <2>1, <2>2, <1>0, MakeSocketLemma
    <3>2. \E r \in Sockets : state'[r] = "connecting"
      BY <3>1
    <3>3. PICK h \in Sockets : Hopeful(h)
      BY <2>6 DEF Engaged
    <3>4. h # made'
      BY <3>1, <3>3, <2>6 DEF Hopeful, TypeOK, Sockets
    <3>5. CASE h = s
      <4>1. PICK r \in Sockets : r = made'
        BY <3>1
      <4>2. Hopeful(r)'
        BY <4>1, <3>1, <3>3, <3>5, <2>1 DEF Hopeful, Live
      <4> QED BY <4>2, <3>1, <3>2 DEF Engaged
    <3>6. CASE h # s
      <4>1. Hopeful(h)'
        BY <3>1, <3>3, <3>4, <3>6, <2>1 DEF Hopeful
      <4> QED BY <4>1, <3>1, <3>2 DEF Engaged
    <3> QED BY <3>5, <3>6
  <2> QED BY <2>1, <2>5, <2>6 DEF Engaged
<1>10. CASE UNCHANGED vars
  BY <1>10 DEF vars, TypeOK, Engaged, Hopeful
<1> QED
  BY <1>1, <1>2, <1>3, <1>4, <1>5, <1>6, <1>8, <1>9, <1>10 DEF Next

(* The invariant holds at every step of every behaviour.                     *)
LEMMA InvariantHolds == Spec => []IInv
<1> QED BY InitHolds, StepKeeps, PTL DEF Spec

(* The state of the hook keeps its types, sockets are used in order, and a   *)
(* timer belongs to a closed socket (useRoomWebSocket).                      *)
THEOREM SocketTypes == Spec => []TypeOK
<1>1. IInv => TypeOK
  BY DEF IInv
<1> QED BY <1>1, InvariantHolds, PTL

(* A mounted hook that waits for no event is connected to what it was given  *)
(* and says so, for any number of targets, losses, wake-ups and changes      *)
(* (connect, onopen, onclose, forceReconnectNow and the effect's cleanup).   *)
THEOREM MountedIsConnected == Spec => []ConnectedAtRest
<1>1. IInv => ConnectedAtRest
  BY DEF IInv, Engaged, Hopeful, AtRest, Live, ConnectedAtRest
<1> QED BY <1>1, InvariantHolds, PTL
-----------------------------------------------------------------------------
(* A socket the hook may still hear of, or that has left it a timer.         *)
Busy(s) == state[s] \in Live \cup {"closing"} \/ s \in timers

(* While no socket was made before the one before it had reported its close:  *)
(* one socket is busy at most, the refs are about it, and if its close was not *)
(* purposeful it is the one for what the hook is mounted with.                *)
Single ==
    ~ overtaken =>
       /\ \A r, s \in Sockets : Busy(r) /\ Busy(s) => r = s
       /\ \A s \in Sockets :
            /\ state[s] \in Live => s = wsRef /\ target[s] = want
            /\ s \in timers => s = timerRef /\ target[s] = want
            /\ state[s] = "closing" => intentional \/ target[s] = want

(* Nothing that is not mounted is live or waits for a timer.                  *)
LEMMA UnmountedIsQuiet ==
    ASSUME TypeOK, Single, ~ overtaken, want = NoTarget
    PROVE  timers = {} /\ \A s \in Sockets : state[s] \notin Live
<1>1. ASSUME NEW s \in Sockets, state[s] \in Live \/ s \in timers PROVE FALSE
  <2>1. target[s] = NoTarget
    BY <1>1 DEF Single
  <2>2. state[s] # "unused"
    BY <1>1 DEF Live, TypeOK
  <2> QED BY <2>1, <2>2 DEF TypeOK
<1>2. timers \subseteq Sockets
  BY DEF TypeOK
<1> QED BY <1>1, <1>2

(* connect() after every earlier socket has reported its close, with no timer *)
(* left: the new socket is the only busy one.                                 *)
LEMMA SingleByMaking ==
    ASSUME TypeOK, NEW before \in [Sockets -> States],
           \A s \in Sockets : before[s] = "unused" <=> s > made,
           want' \in Targets, MakeSocket(want', before), ~ overtaken' => timers' = {}
    PROVE  Single'
<1> SUFFICES ASSUME ~ overtaken' PROVE Single'
  BY DEF Single
<1>1. \A s \in Sockets : before[s] \notin Live \cup {"closing"}
  BY DEF MakeSocket
<1>2. /\ made' \in Sockets /\ state'[made'] = "connecting" /\ target'[made'] = want'
      /\ \A s \in Sockets : s # made' => state'[s] = before[s]
  BY MakeSocketLemma
<1>3. \A s \in Sockets : s # made' => state'[s] \notin Live \cup {"closing"}
  BY <1>1, <1>2
<1>4. timers' = {} /\ wsRef' = made' /\ state'[made'] # "closing"
  BY <1>2 DEF MakeSocket
<1>5. ASSUME NEW s \in Sockets, Busy(s)' PROVE s = made'
  <2>1. state'[s] \in Live \cup {"closing"}
    BY <1>4, <1>5 DEF Busy
  <2> QED BY <1>3, <2>1
<1>6. \A r, s \in Sockets : Busy(r)' /\ Busy(s)' => r = s
  BY <1>5
<1> QED BY <1>2, <1>3, <1>4, <1>6 DEF Single

LEMMA SingleKept == IInv /\ Single /\ [Next]_vars => Single'
<1> SUFFICES ASSUME TypeOK, Engaged, Single, [Next]_vars PROVE Single'
  BY DEF IInv
<1>0. \A s \in Sockets : state[s] = "unused" <=> s > made
  BY DEF TypeOK
<1>1. ~ overtaken => timers \subseteq {timerRef}
  BY DEF Single, TypeOK
<1>2. ASSUME NEW t \in Targets, Mount(t) PROVE Single'
  <2>1. /\ state \in [Sockets -> States] /\ want' = t /\ MakeSocket(t, state)
        /\ want = NoTarget /\ timers' = timers
    BY <1>2 DEF Mount, TypeOK
  <2>2. ~ overtaken' => timers' = {}
    BY <2>1, UnmountedIsQuiet DEF MakeSocket
  <2> QED BY <2>1, <2>2, <1>0, SingleByMaking
<1>3. ASSUME NEW t \in Targets, MakeSocket(t, RefClosed), want' = t, ClearTimer
      PROVE  Single'
  <2>1. /\ RefClosed \in [Sockets -> States]
        /\ \A s \in Sockets : RefClosed[s] = "unused" <=> s > made
    BY RefClosedLemma
  <2>2. ~ overtaken' => timers' = {}
    BY <1>1, <1>3 DEF MakeSocket, ClearTimer
  <2> QED BY <1>3, <2>1, <2>2, SingleByMaking
<1>4. ASSUME NEW t \in Targets, Switch(t) PROVE Single'
  BY <1>3, <1>4 DEF Switch
<1>5. CASE Wake
  <2>1. want \in Targets  BY <1>5 DEF Wake, TypeOK
  <2> QED BY <1>3, <1>5, <2>1 DEF Wake
<1>6. CASE Unmount
  <2>1. /\ overtaken' = overtaken /\ intentional' = TRUE /\ state' = RefClosed
        /\ timers' = timers \ {timerRef}
    BY <1>6 DEF Unmount, ClearTimer
  <2> SUFFICES ASSUME ~ overtaken PROVE Single'
    BY <2>1 DEF Single
  <2>2. timers' = {}
    BY <1>1, <2>1
  <2>3. \A s \in Sockets : state'[s] \notin Live
    BY <2>1 DEF RefClosed, Single, Live
  <2>4. \A s \in Sockets : state'[s] = "closing" => state[s] \in Live \cup {"closing"}
    BY <2>1 DEF RefClosed
  <2>5. \A r, s \in Sockets : Busy(r)' /\ Busy(s)' => r = s
    BY <2>2, <2>3, <2>4 DEF Single, Busy
  <2> QED BY <2>1, <2>2, <2>3, <2>5 DEF Single
<1>7. CASE WatchdogCloses
  <2>1. /\ UNCHANGED <<overtaken, intentional, timers, timerRef, target, want, wsRef>>
        /\ state' = RefClosed
    BY <1>7 DEF WatchdogCloses
  <2> SUFFICES ASSUME ~ overtaken PROVE Single'
    BY <2>1 DEF Single
  <2>2. \A s \in Sockets :
            /\ state'[s] \in Live => state[s] \in Live
            /\ state'[s] = "closing" => state[s] \in Live \cup {"closing"}
    BY <2>1 DEF RefClosed, Live
  <2>3. \A s \in Sockets : Busy(s)' => Busy(s)
    BY <2>1, <2>2 DEF Busy
  <2>4. \A s \in Sockets : state'[s] = "closing" => intentional \/ target[s] = want
    BY <2>2 DEF Single
  <2> QED BY <2>1, <2>2, <2>3, <2>4 DEF Single
<1>8. ASSUME NEW s \in Sockets, OpenEvent(s) PROVE Single'
  <2>1. /\ UNCHANGED <<overtaken, intentional, timers, timerRef, target, want, wsRef>>
        /\ \A r \in Sockets :
              /\ state'[r] \in Live <=> state[r] \in Live
              /\ state'[r] = "closing" <=> state[r] = "closing"
    BY <1>8 DEF OpenEvent, TypeOK, Live
  <2> QED BY <2>1 DEF Single, Busy
<1>9. ASSUME NEW s \in Sockets, Closes(s), state[s] \in Live \cup {"closing"}
      PROVE  Single'
  <2>1. /\ UNCHANGED <<overtaken, intentional, target, want>>
        /\ state'[s] = "closed"
        /\ \A r \in Sockets \ {s} : state'[r] = state[r]
    BY <1>9 DEF Closes, TypeOK
  <2> SUFFICES ASSUME ~ overtaken PROVE Single'
    BY <2>1 DEF Single
  <2>2. \A r \in Sockets \ {s} : ~ Busy(r)
    BY <1>9 DEF Single, Busy
  <2>3. s \notin timers
    BY <1>9 DEF TypeOK, Live
  <2>4. timers = {}
    BY <2>2, <2>3 DEF Busy, TypeOK
  <2>5. \A r \in Sockets : state'[r] \notin Live \cup {"closing"}
    BY <2>1, <2>2 DEF Busy, Live
  <2>6. \A r \in timers' : r = s /\ timerRef' = s /\ ~ intentional
    BY <1>9, <2>4 DEF Closes
  <2>7. ~ intentional => target[s] = want
    BY <1>9 DEF Single
  <2>8. \A r, q \in Sockets : Busy(r)' /\ Busy(q)' => r = q
    BY <2>5, <2>6 DEF Busy
  <2> QED BY <2>1, <2>5, <2>6, <2>7, <2>8 DEF Single
<1>10. ASSUME NEW s \in Sockets, CloseEvent(s) \/ Loss(s) PROVE Single'
  BY <1>9, <1>10 DEF CloseEvent, Loss
<1>11. ASSUME NEW s \in Sockets, TimerFires(s) PROVE Single'
  <2>1. /\ state \in [Sockets -> States] /\ MakeSocket(target[s], state)
        /\ want' = want /\ timers' = timers \ {s} /\ s \in timers
    BY <1>11 DEF TimerFires, TypeOK
  <2> SUFFICES ASSUME ~ overtaken' PROVE Single'
    BY DEF Single
  <2>2. ~ overtaken
    BY <2>1 DEF MakeSocket
  <2>3. target[s] = want /\ timers' = {}
    BY <1>1, <2>1, <2>2 DEF Single
  <2>4. want \in Targets
    <3>1. target[s] # NoTarget
      BY <2>1, <1>0 DEF TypeOK
    <3> QED BY <2>3, <3>1 DEF TypeOK
  <2> QED BY <2>1, <2>3, <2>4, <1>0, SingleByMaking
<1>12. CASE UNCHANGED vars
  BY <1>12 DEF vars, Single, Busy
<1> QED
  BY <1>2, <1>4, <1>5, <1>6, <1>7, <1>8, <1>10, <1>11, <1>12 DEF Next

LEMMA SingleInit == Init => Single
  BY DEF Init, Single, Busy, Live

(* Of the busy socket there is one, either live or with a timer.              *)
LEMMA SingleIsOne == IInv /\ Single => OneSocket
<1> SUFFICES ASSUME TypeOK, Single, ~ overtaken
             PROVE  /\ Cardinality({s \in Sockets : state[s] \in Live})
                          + Cardinality(timers) <= 1
                    /\ \A s \in Sockets : state[s] \in Live => s = wsRef /\ target[s] = want
                    /\ \A s \in timers : target[s] = want
  BY DEF OneSocket, IInv
<1> DEFINE live == {s \in Sockets : state[s] \in Live}
<1>1. live \cap timers = {}
  BY DEF TypeOK, Live
<1>2. \A r, s \in live \cup timers : r = s
  BY DEF Single, Busy, TypeOK
<1>3. CASE live = {}
  <2>1. timers = {} \/ \E s : timers = {s}
    BY <1>2
  <2>2. Cardinality(live) = 0
    BY <1>3, FS_EmptySet
  <2>3. Cardinality(timers) \in {0, 1}
    BY <2>1, FS_EmptySet, FS_Singleton
  <2> QED BY <1>3, <2>2, <2>3 DEF Single, TypeOK
<1>4. CASE live # {}
  <2>1. PICK s \in live : TRUE
    BY <1>4
  <2>2. live = {s} /\ timers = {}
    BY <1>1, <1>2, <2>1
  <2>3. Cardinality(live) = 1 /\ Cardinality(timers) = 0
    BY <2>2, FS_EmptySet, FS_Singleton
  <2> QED BY <2>2, <2>3 DEF Single, TypeOK
<1> QED BY <1>3, <1>4

(* While each socket has reported its close before the next one is made, the  *)
(* hook has one socket or one timer, its ref is that socket, and it reconnects *)
(* only to what it is mounted with, for any number of losses and changes.     *)
THEOREM SocketIsSingle == Spec => []OneSocket
<1> QED BY InitHolds, StepKeeps, SingleInit, SingleKept, SingleIsOne, PTL DEF Spec

-----------------------------------------------------------------------------
(* The middleware, which shares no state with the hook.  The invariant says how   *)
(* many effects each stage of the one delivery in progress allows.              *)
InTurn == ~ overlapped /\ expiries = 0

OneAtATime ==
    \A d, e \in Slots : pc[d] # "idle" /\ pc[e] # "idle" => d = e

(* An effect that no delivery to a degraded process accounts for is behind   *)
(* an entry, and a delivery that is about to run still has one to spend.     *)
Budgeted ==
    /\ entry = "absent" => effects <= bare
    /\ effects <= bare + 1
    /\ \A d \in Slots :
          pc[d] = "run" =>
             /\ d \notin Degraded => entry # "absent" /\ effects <= bare
             /\ d \in Degraded => /\ entry = "absent" => effects <= bare - 1
                                  /\ effects <= bare
    /\ \A d \in Slots :
          /\ pc[d] = "reserve" => entry = "absent"
          /\ pc[d] \in {"get", "reserve"} => d \notin Degraded

StoresAnswers ==
    \A d \in Slots : pc[d] = "store" => Storable(outcome[d])

RequestInv ==
    /\ RequestTypeOK /\ StoresAnswers
    /\ InTurn => OneAtATime /\ Budgeted

USE IdempotencyAssumption DEF IdempotencyAssumption

(* The invariant holds initially.                                            *)
LEMMA RequestStart == RequestInit => RequestInv
<1> SUFFICES ASSUME RequestInit PROVE RequestInv
  OBVIOUS
<1> USE DEF RequestInit
<1>1. RequestTypeOK
  <2>1. outcome \in [Slots -> Outcomes] /\ pc \in [Slots -> Labels]
    BY DEF Outcomes, Labels
  <2>2. entry \in Entries /\ overlapped \in BOOLEAN
    BY DEF Entries
  <2>3. effects \in Nat /\ sent \in 0..MaxSends /\ bare \in Nat
    OBVIOUS
  <2>4. crashes \in 0..MaxCrashes /\ expiries \in 0..MaxExpiries
    OBVIOUS
  <2> QED BY <2>1, <2>2, <2>3, <2>4 DEF RequestTypeOK
<1>2. \A d \in Slots : pc[d] = "idle"
  OBVIOUS
<1>3. StoresAnswers /\ OneAtATime /\ Budgeted
  BY <1>2 DEF StoresAnswers, OneAtATime, Budgeted
<1> QED BY <1>1, <1>3 DEF RequestInv

(* Types, and that only the outcome of an answer reaches the store step, are *)
(* kept by every step.                                                       *)
LEMMA RequestTyping ==
    RequestInv /\ [RequestNext]_requests => RequestTypeOK' /\ StoresAnswers'
<1> SUFFICES ASSUME RequestTypeOK, StoresAnswers, [RequestNext]_requests
             PROVE  RequestTypeOK' /\ StoresAnswers'
  BY DEF RequestInv
<1> USE DEF RequestTypeOK, Entries, Labels, Outcomes, StoresAnswers,
            Storable, Goto, bounded
<1>1. ASSUME NEW d \in Slots, Send(d) PROVE RequestTypeOK' /\ StoresAnswers'
  BY <1>1 DEF Send
<1>2. ASSUME NEW d \in Slots, Get(d) PROVE RequestTypeOK' /\ StoresAnswers'
  BY <1>2 DEF Get
<1>3. ASSUME NEW d \in Slots, Reserve(d) PROVE RequestTypeOK' /\ StoresAnswers'
  BY <1>3 DEF Reserve
<1>4. ASSUME NEW d \in Slots, NEW o \in Outcomes, RunHandler(d, o)
      PROVE RequestTypeOK' /\ StoresAnswers'
  BY <1>4 DEF RunHandler, Commits
<1>5. ASSUME NEW d \in Slots, Store(d) PROVE RequestTypeOK' /\ StoresAnswers'
  BY <1>5 DEF Store
<1>6. ASSUME NEW d \in Slots, Crash(d) PROVE RequestTypeOK' /\ StoresAnswers'
  BY <1>6 DEF Crash
<1>7. CASE Expire
  BY <1>7 DEF Expire
<1>8. CASE UNCHANGED requests
  BY <1>8 DEF requests
<1> QED
  BY <1>1, <1>2, <1>3, <1>4, <1>5, <1>6, <1>7, <1>8 DEF RequestNext

(* A step that leaves the deliveries in turn found them in turn.             *)
LEMMA TurnBefore == RequestInv /\ [RequestNext]_requests /\ InTurn' => InTurn
<1> SUFFICES ASSUME RequestInv, [RequestNext]_requests, InTurn' PROVE InTurn
  OBVIOUS
<1>1. ASSUME NEW d \in Slots, Send(d) PROVE InTurn
  BY <1>1 DEF Send, InTurn, RequestInv, RequestTypeOK
<1>2. ASSUME NEW d \in Slots, Get(d) \/ Reserve(d) \/ Store(d) \/ Crash(d)
      PROVE InTurn
  BY <1>2 DEF Get, Reserve, Store, Crash, InTurn, bounded
<1>3. ASSUME NEW d \in Slots, NEW o \in Outcomes, RunHandler(d, o)
      PROVE InTurn
  BY <1>3 DEF RunHandler, InTurn, bounded
<1>4. CASE Expire
  BY <1>4 DEF Expire, InTurn, RequestInv, RequestTypeOK
<1>5. CASE UNCHANGED requests
  BY <1>5 DEF requests, InTurn
<1> QED BY <1>1, <1>2, <1>3, <1>4, <1>5 DEF RequestNext

(* While the deliveries stay in turn, at most one is in progress and the     *)
(* effects stay within the budget of its stage.                                *)
LEMMA BudgetKept ==
    RequestInv /\ [RequestNext]_requests /\ InTurn' => OneAtATime' /\ Budgeted'
<1> SUFFICES ASSUME RequestInv, [RequestNext]_requests, InTurn'
             PROVE  OneAtATime' /\ Budgeted'
  OBVIOUS
<1>0. InTurn /\ OneAtATime /\ Budgeted /\ RequestTypeOK /\ StoresAnswers
  BY TurnBefore DEF RequestInv
<1> USE <1>0 DEF RequestTypeOK, Labels, Entries, OneAtATime, Budgeted, Goto, bounded
<1>1. ASSUME NEW d \in Slots, Send(d) PROVE OneAtATime' /\ Budgeted'
  <2>1. \A e \in Slots : pc[e] = "idle"
    BY <1>1 DEF Send, InTurn
  <2>2. OneAtATime'
    BY <1>1, <2>1 DEF Send
  <2>3. Budgeted'
    BY <1>1, <2>1 DEF Send
  <2> QED BY <2>2, <2>3
<1>2. ASSUME NEW d \in Slots, Get(d) PROVE OneAtATime' /\ Budgeted'
  BY <1>2 DEF Get, GoesOn
<1>3. ASSUME NEW d \in Slots, Reserve(d) PROVE OneAtATime' /\ Budgeted'
  BY <1>3 DEF Reserve
<1>4. ASSUME NEW d \in Slots, NEW o \in Outcomes, RunHandler(d, o)
      PROVE OneAtATime' /\ Budgeted'
  BY <1>4 DEF RunHandler, Commits
<1>5. ASSUME NEW d \in Slots, Store(d) PROVE OneAtATime' /\ Budgeted'
  <2>1. outcome[d] # "absent"
    BY <1>5 DEF Store, StoresAnswers, Storable
  <2> QED BY <1>5, <2>1 DEF Store
<1>6. ASSUME NEW d \in Slots, Crash(d) PROVE OneAtATime' /\ Budgeted'
  BY <1>6 DEF Crash
<1>7. CASE Expire
  BY <1>7 DEF Expire, InTurn
<1>8. CASE UNCHANGED requests
  BY <1>8 DEF requests
<1> QED
  BY <1>1, <1>2, <1>3, <1>4, <1>5, <1>6, <1>7, <1>8 DEF RequestNext

(* The invariant holds at every step of every behaviour.                     *)
LEMMA RequestsHold == RequestSpec => []RequestInv
<1>1. RequestInit => RequestInv
  BY RequestStart
<1>2. RequestInv /\ [RequestNext]_requests => RequestInv'
  BY RequestTyping, BudgetKept DEF RequestInv
<1> QED BY <1>1, <1>2, PTL DEF RequestSpec

(* The state of the middleware keeps its types (reserve_idempotency_key,     *)
(* dispatch, store_idempotency_result).                                      *)
THEOREM RequestTypes == RequestSpec => []RequestTypeOK
<1>1. RequestInv => RequestTypeOK
  BY DEF RequestInv
<1> QED BY <1>1, RequestsHold, PTL

(* Deliveries under one key, each sent after the one before ended, execute   *)
(* the request once while the entry lives, for any number of deliveries and  *)
(* crashes; processes without Redis add at most one each.                    *)
THEOREM ExecutedOnceInTurn == RequestSpec => []OnceInTurn
<1>1. RequestInv => OnceInTurn
  BY DEF RequestInv, OnceInTurn, InTurn, Budgeted
<1> QED BY <1>1, RequestsHold, PTL
=============================================================================
