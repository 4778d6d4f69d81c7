---------------------------- MODULE EventBusProofs ----------------------------
(* That no event published while a socket is open is lost on the way to it,  *)
(* and that clients at rest have the same event last: proved for any          *)
(* processes, clients, audiences and events.                                  *)
EXTENDS EventBus, TLAPS

USE BusAssumption DEF BusAssumption

(* No subscriber is ahead of the channel, and what is on the channel has     *)
(* been begun, so that its audience does not change any more.                *)
Behind ==
    \A p \in Procs : pos[p] <= Len(channel) /\ (left[p] # {} => pos[p] > 0)
Begun ==
    /\ \A i \in 1..Len(channel) : stage[channel[i]] # "new"
    /\ \A e \in Events : todo[e] # {} => home[e] \in Procs

IInv == TypeOK /\ Behind /\ Begun /\ NothingLost

-----------------------------------------------------------------------------
(* Nothing is replayed: connecting gives a client no event.                  *)
LEMMA NothingReplayed ==
    ASSUME NEW c \in Clients
    PROVE  ToSet(Replay(c)) = {} /\ Replay(c) = <<>>
  BY DEF ToSet, Replay

(* The invariant holds initially.                                            *)
LEMMA InitHolds == Init => IInv
<1> SUFFICES ASSUME Init PROVE IInv
  OBVIOUS
<1> USE DEF Init
<1>1. TypeOK
  <2>1. redis \in [Procs -> BOOLEAN] /\ alive \in [Procs -> BOOLEAN]
    OBVIOUS
  <2>2. /\ conn \in [Clients -> Procs \cup {NoProc}]
        /\ seen \in [Clients -> SUBSET Events]
        /\ last \in [Clients -> Events \cup {0}]
        /\ since \in [Clients -> Nat]
    OBVIOUS
  <2>3. /\ stage \in [Events -> Stages]
        /\ home \in [Events -> Procs \cup {NoProc}]
        /\ aud \in [Events -> SUBSET Clients]
        /\ todo \in [Events -> SUBSET Clients]
        /\ \A e \in Events : \A c \in todo[e] : conn[c] = home[e]
        /\ channel \in Seq(Events)
    BY DEF Stages
  <2>4. /\ pos \in [Procs -> Nat]
        /\ left \in [Procs -> SUBSET Clients]
        /\ \A p \in Procs : \A c \in left[p] : conn[c] = p
        /\ faults \in 0..MaxFaults
    OBVIOUS
  <2> QED BY <2>1, <2>2, <2>3, <2>4 DEF TypeOK
<1>2. Behind /\ Begun
  BY DEF Behind, Begun
<1>3. NothingLost
  BY DEF NothingLost, Served
<1> QED BY <1>1, <1>2, <1>3 DEF IInv

(* Where an event is that a client has to be given.                          *)
Accounted(c, e) ==
    \/ e \in seen[c]
    \/ InFlight(conn[c], e)
    \/ c \in left[conn[c]] /\ channel[pos[conn[c]]] = e

NoneLost ==
    \A c \in Clients : Served(c) =>
       \A i \in (since[c] + 1)..Len(channel) :
          c \in aud[channel[i]] => Accounted(c, channel[i])

(* NothingLost position by position.                                         *)
LEMMA ByPosition == NothingLost <=> NoneLost
  BY DEF NothingLost, NoneLost, Accounted, Addressed

(* A step keeps types, the order of subscribers and channel, and begun       *)
(* events.                                                                   *)
LEMMA TypingKept ==
    TypeOK /\ Behind /\ Begun /\ [Next]_vars => TypeOK' /\ Behind' /\ Begun'
<1> SUFFICES ASSUME TypeOK, Behind, Begun, [Next]_vars
             PROVE  TypeOK' /\ Behind' /\ Begun'
  OBVIOUS
<1> USE DEF TypeOK, Behind, Begun, Stages, clientVars, pubVars, subVars, Fault
<1>1. ASSUME NEW c \in Clients, NEW p \in Procs, Connect(c, p)
      PROVE  TypeOK' /\ Behind' /\ Begun'
  <2>1. /\ seen' = seen
        /\ last' = last
    BY <1>1, NothingReplayed DEF Connect
  <2>2. \A e \in Events : c \notin todo[e]
    BY <1>1 DEF Connect
  <2>3. \A q \in Procs : c \notin left[q]
    BY <1>1 DEF Connect
  <2> QED BY <1>1, <2>1, <2>2, <2>3 DEF Connect
<1>2. ASSUME NEW c \in Clients, Drop(c) PROVE TypeOK' /\ Behind' /\ Begun'
  BY <1>2 DEF Drop, Disconnect
<1>3. ASSUME NEW p \in Procs, NEW c \in Clients, SendOn(p, c)
      PROVE  TypeOK' /\ Behind' /\ Begun'
  <2>0. left[p] # {}
    BY <1>3 DEF SendOn
  <2>1. pos[p] \in Nat /\ pos[p] > 0 /\ pos[p] <= Len(channel)
    BY <2>0
  <2>a. Len(channel) \in Nat
    OBVIOUS
  <2>2. channel[pos[p]] \in Events
    BY <2>1, <2>a
  <2>3. /\ seen' \in [Clients -> SUBSET Events]
        /\ last' \in [Clients -> Events \cup {0}]
    BY <1>3, <2>2 DEF SendOn, Receive
  <2>4. left' \in [Procs -> SUBSET Clients]
        /\ \A q \in Procs : left'[q] \subseteq left[q]
    BY <1>3 DEF SendOn
  <2> QED BY <1>3, <2>3, <2>4 DEF SendOn, Receive
<1>4. ASSUME NEW e \in Events, NEW c \in Clients, SendLocal(e, c)
      PROVE  TypeOK' /\ Behind' /\ Begun'
  BY <1>4 DEF SendLocal, Receive
<1>5. ASSUME NEW e \in Events, NEW p \in Procs, NEW audience \in Audiences,
             Begin(e, p, audience)
      PROVE  TypeOK' /\ Behind' /\ Begun'
  BY <1>5 DEF Begin, Targets
<1>6. ASSUME NEW e \in Events, Publish(e) PROVE TypeOK' /\ Behind' /\ Begun'
  BY <1>6 DEF Publish
<1>7. ASSUME NEW e \in Events, PublishFails(e)
      PROVE  TypeOK' /\ Behind' /\ Begun'
  BY <1>7 DEF PublishFails
<1>8. ASSUME NEW p \in Procs, Take(p) PROVE TypeOK' /\ Behind' /\ Begun'
  BY <1>8 DEF Take, Relayed, Targets
<1>9. ASSUME NEW p \in Procs, SubscriberDies(p)
      PROVE  TypeOK' /\ Behind' /\ Begun'
  BY <1>9 DEF SubscriberDies
<1>10. ASSUME NEW p \in Procs, Restart(p) PROVE TypeOK' /\ Behind' /\ Begun'
  <2>0. PICK found \in BOOLEAN : /\ redis' = [redis EXCEPT ![p] = found]
                                 /\ alive' = [alive EXCEPT ![p] = found]
    BY <1>10 DEF Restart
  <2>1. /\ redis' \in [Procs -> BOOLEAN] /\ alive' \in [Procs -> BOOLEAN]
        /\ faults' \in 0..MaxFaults
    BY <1>10, <2>0 DEF Restart
  <2>2. stage' \in [Events -> Stages]
    BY <1>10 DEF Restart
  <2> QED BY <1>10, <2>1, <2>2 DEF Restart, Disconnect
<1>11. CASE UNCHANGED vars
  BY <1>11 DEF vars
<1> QED
  BY <1>1, <1>2, <1>3, <1>4, <1>5, <1>6, <1>7, <1>8, <1>9, <1>10, <1>11 DEF Next

(* An open socket that a step leaves open, with the same channel, position   *)
(* and broadcast at its process and nothing taken back from the client, has  *)
(* its events accounted for as before.                                       *)
LEMMA Undisturbed ==
    ASSUME TypeOK, NoneLost,
           channel' = channel, pos' = pos, since' = since,
           \A i \in 1..Len(channel) : aud'[channel[i]] = aud[channel[i]],
           \A c \in Clients : seen[c] \subseteq seen'[c],
           \A c \in Clients : Served(c)' =>
              /\ Served(c) /\ conn'[c] = conn[c]
              /\ c \in left[conn[c]] =>
                    \/ c \in left'[conn[c]]
                    \/ channel[pos[conn[c]]] \in seen'[c]
    PROVE  NoneLost'
<1> SUFFICES ASSUME NEW c \in Clients, Served(c)',
                    NEW i \in (since'[c] + 1)..Len(channel'),
                    c \in aud'[channel'[i]]
             PROVE  Accounted(c, channel[i])'
  BY DEF NoneLost
<1>1. Served(c) /\ conn'[c] = conn[c]
  OBVIOUS
<1>2. i \in (since[c] + 1)..Len(channel) /\ i \in 1..Len(channel)
  BY DEF TypeOK
<1>3. Accounted(c, channel[i])
  BY <1>1, <1>2 DEF NoneLost
<1>4. CASE channel[i] \in seen[c]
  BY <1>4, <1>2 DEF Accounted
<1>5. CASE InFlight(conn[c], channel[i])
  BY <1>5, <1>1 DEF Accounted, InFlight
<1>6. CASE c \in left[conn[c]] /\ channel[pos[conn[c]]] = channel[i]
  BY <1>6, <1>1 DEF Accounted
<1> QED BY <1>3, <1>4, <1>5, <1>6 DEF Accounted

(* Every step keeps the events of every open socket accounted for.           *)
LEMMA AccountsKept ==
    TypeOK /\ Behind /\ Begun /\ NoneLost /\ [Next]_vars => NoneLost'
<1> SUFFICES ASSUME TypeOK, Behind, Begun, NoneLost, [Next]_vars
             PROVE  NoneLost'
  OBVIOUS
<1> USE DEF clientVars, pubVars, subVars
<1>1. ASSUME NEW c \in Clients, NEW p \in Procs, Connect(c, p) PROVE NoneLost'
  <2> SUFFICES ASSUME NEW d \in Clients, Served(d)',
                      NEW i \in (since'[d] + 1)..Len(channel'),
                      d \in aud'[channel'[i]]
               PROVE  Accounted(d, channel[i])'
    BY DEF NoneLost
  <2>1. seen' = seen
    BY <1>1, NothingReplayed DEF Connect, TypeOK
  <2>2. d # c
    BY <1>1 DEF Connect, TypeOK
  <2>3. conn'[d] = conn[d] /\ since'[d] = since[d] /\ Served(d)
    BY <1>1, <2>2 DEF Connect, TypeOK, Served
  <2>4. Accounted(d, channel[i])
    BY <1>1, <2>3 DEF NoneLost, Connect
  <2> QED BY <1>1, <2>1, <2>3, <2>4 DEF Accounted, InFlight, Connect
<1>2. ASSUME NEW c \in Clients, Drop(c) PROVE NoneLost'
  BY <1>2, Undisturbed DEF Drop, Disconnect, Served, TypeOK
<1>3. ASSUME NEW p \in Procs, NEW c \in Clients, SendOn(p, c) PROVE NoneLost'
  BY <1>3, Undisturbed DEF SendOn, Receive, Served, TypeOK
<1>4. ASSUME NEW e \in Events, NEW c \in Clients, SendLocal(e, c)
      PROVE  NoneLost'
  BY <1>4, Undisturbed DEF SendLocal, Receive, Served, TypeOK
<1>5. ASSUME NEW e \in Events, NEW p \in Procs, NEW audience \in Audiences,
             Begin(e, p, audience)
      PROVE  NoneLost'
  <2>1. \A i \in 1..Len(channel) : channel[i] # e
    BY <1>5 DEF Begin, Begun
  <2> QED BY <1>5, <2>1, Undisturbed DEF Begin, Served, TypeOK
<1>6. ASSUME NEW e \in Events, Publish(e) PROVE NoneLost'
  <2>1. CASE ~ redis[home[e]]
    BY <1>6, <2>1, Undisturbed DEF Publish, Served, TypeOK
  <2>2. CASE redis[home[e]]
    <3> SUFFICES ASSUME NEW d \in Clients, Served(d)',
                        NEW i \in (since'[d] + 1)..Len(channel'),
                        d \in aud'[channel'[i]]
                 PROVE  Accounted(d, channel[i])'
      BY DEF NoneLost
    <3>1. /\ channel' = Append(channel, e) /\ channel \in Seq(Events)
          /\ Len(channel') = Len(channel) + 1 /\ Len(channel) \in Nat
          /\ \A j \in 1..Len(channel) : channel'[j] = channel[j]
      BY <1>6, <2>2 DEF Publish, TypeOK
    <3>2. /\ Served(d) /\ conn[d] \in Procs /\ since'[d] = since[d]
          /\ since[d] \in Nat /\ pos[conn[d]] \in Nat
          /\ conn' = conn /\ pos' = pos /\ left' = left /\ seen' = seen
          /\ aud' = aud
      BY <1>6 DEF Publish, Served, TypeOK
    <3>3. CASE i = Len(channel) + 1
      <4>1. i \in (pos[conn[d]] + 1)..Len(channel')
        BY <3>1, <3>2, <3>3 DEF Behind
      <4> QED BY <3>2, <4>1 DEF Accounted, InFlight
    <3>4. CASE i # Len(channel) + 1
      <4>1. i \in (since[d] + 1)..Len(channel) /\ i \in 1..Len(channel)
        BY <3>1, <3>2, <3>4
      <4>2. channel'[i] = channel[i]
        BY <3>1, <4>1
      <4>3. Accounted(d, channel[i])
        BY <3>2, <4>1, <4>2 DEF NoneLost
      <4>4. CASE InFlight(conn[d], channel[i])
        <5>1. PICK j \in (pos[conn[d]] + 1)..Len(channel) :
                      channel[j] = channel[i]
          BY <4>4 DEF InFlight
        <5>2. /\ j \in (pos[conn[d]] + 1)..Len(channel')
              /\ channel'[j] = channel[j]
          BY <3>1, <3>2, <5>1
        <5> QED BY <3>2, <4>2, <5>1, <5>2 DEF Accounted, InFlight
      <4>5. CASE d \in left[conn[d]] /\ channel[pos[conn[d]]] = channel[i]
        <5>1. channel'[pos[conn[d]]] = channel[pos[conn[d]]]
          BY <3>1, <3>2, <4>5 DEF Behind
        <5> QED BY <3>2, <4>2, <4>5, <5>1 DEF Accounted
      <4> QED BY <3>2, <4>2, <4>3, <4>4, <4>5 DEF Accounted
    <3> QED BY <3>3, <3>4
  <2> QED BY <2>1, <2>2
<1>7. ASSUME NEW e \in Events, PublishFails(e) PROVE NoneLost'
  BY <1>7, Undisturbed DEF PublishFails, Served, TypeOK
<1>8. ASSUME NEW p \in Procs, Take(p) PROVE NoneLost'
  <2> SUFFICES ASSUME NEW d \in Clients, Served(d)',
                      NEW i \in (since'[d] + 1)..Len(channel'),
                      d \in aud'[channel'[i]]
               PROVE  Accounted(d, channel[i])'
    BY DEF NoneLost
  <2>1. /\ Served(d) /\ conn[d] \in Procs /\ conn' = conn /\ seen' = seen
        /\ channel' = channel /\ since' = since /\ aud' = aud
    BY <1>8 DEF Take, Served, TypeOK
  <2>2. Accounted(d, channel[i])
    BY <2>1 DEF NoneLost
  <2>3. CASE conn[d] # p
    <3>1. pos'[conn[d]] = pos[conn[d]] /\ left'[conn[d]] = left[conn[d]]
      BY <1>8, <2>1, <2>3 DEF Take, TypeOK
    <3> QED BY <2>1, <2>2, <3>1 DEF Accounted, InFlight
  <2>4. CASE conn[d] = p
    <3>1. /\ pos[p] \in Nat /\ pos'[p] = pos[p] + 1 /\ left[p] = {}
          /\ left'[p] = Relayed(p, channel[pos[p] + 1])
      BY <1>8 DEF Take, TypeOK
    <3>2. CASE channel[i] \in seen[d]
      BY <2>1, <3>2 DEF Accounted
    <3>3. CASE InFlight(p, channel[i])
      <4>1. PICK j \in (pos[p] + 1)..Len(channel) : channel[j] = channel[i]
        BY <3>3 DEF InFlight
      <4>2. CASE j = pos[p] + 1
        <5>1. d \in left'[p]
          BY <2>1, <2>4, <3>1, <4>1, <4>2 DEF Relayed, Targets
        <5> QED BY <2>1, <2>4, <3>1, <4>1, <4>2, <5>1 DEF Accounted
      <4>3. CASE j # pos[p] + 1
        <5>1. j \in (pos'[p] + 1)..Len(channel')
          BY <2>1, <3>1, <4>1, <4>3
        <5> QED BY <2>1, <2>4, <4>1, <5>1 DEF Accounted, InFlight
      <4> QED BY <4>2, <4>3
    <3> QED BY <2>2, <2>4, <3>1, <3>2, <3>3 DEF Accounted
  <2> QED BY <2>3, <2>4
<1>9. ASSUME NEW p \in Procs, SubscriberDies(p) PROVE NoneLost'
  BY <1>9, Undisturbed DEF SubscriberDies, Served, TypeOK
<1>10. ASSUME NEW p \in Procs, Restart(p) PROVE NoneLost'
  <2> SUFFICES ASSUME NEW d \in Clients, Served(d)',
                      NEW i \in (since'[d] + 1)..Len(channel'),
                      d \in aud'[channel'[i]]
               PROVE  Accounted(d, channel[i])'
    BY DEF NoneLost
  <2>1. /\ conn'[d] = conn[d] /\ conn[d] \in Procs /\ conn[d] # p
        /\ channel' = channel /\ since' = since /\ aud' = aud /\ seen' = seen
    BY <1>10 DEF Restart, Disconnect, Served, TypeOK
  <2>2. Served(d) /\ pos'[conn[d]] = pos[conn[d]]
    BY <1>10, <2>1 DEF Restart, Served, TypeOK
  <2>3. d \in left[conn[d]] => d \in left'[conn[d]]
    BY <1>10, <2>1 DEF Restart, Disconnect, TypeOK
  <2>4. Accounted(d, channel[i])
    BY <2>1, <2>2 DEF NoneLost
  <2> QED BY <2>1, <2>2, <2>3, <2>4 DEF Accounted, InFlight
<1>11. CASE UNCHANGED vars
  BY <1>11, Undisturbed DEF vars, Served
<1> QED
  BY <1>1, <1>2, <1>3, <1>4, <1>5, <1>6, <1>7, <1>8, <1>9, <1>10, <1>11 DEF Next

(* The invariant holds at every step of every behaviour.                     *)
LEMMA InvariantHolds == Spec => []IInv
<1>1. Init => IInv
  BY InitHolds
<1>2. IInv /\ [Next]_vars => IInv'
  <2>1. NoneLost' => NothingLost'
    BY DEF NothingLost, NoneLost, Accounted, Addressed
  <2> QED BY <2>1, TypingKept, AccountsKept, ByPosition DEF IInv
<1> QED BY <1>1, <1>2, PTL DEF Spec

(* The state of the bus keeps its types, and broadcasts send only to open    *)
(* sockets of their own process (ConnectionManager.broadcast).               *)
THEOREM BusTypes == Spec => []TypeOK
<1>1. IInv => TypeOK
  BY DEF IInv
<1> QED BY <1>1, InvariantHolds, PTL

(* Every event published while a socket is open at a process whose           *)
(* subscriber runs has been given to the client or is still on its way, for  *)
(* any processes, clients, events, drops and restarts (publish, the          *)
(* subscriber loop, the gateway).                                            *)
THEOREM NoEventLost == Spec => []NothingLost
<1>1. IInv => NothingLost
  BY DEF IInv
<1> QED BY <1>1, InvariantHolds, PTL

-----------------------------------------------------------------------------
(* Broadcasts go to those addressed; what is on the channel is published.    *)
ToAddressed ==
    /\ \A e \in Events : todo[e] \subseteq aud[e] /\ (todo[e] # {} => stage[e] = "local")
    /\ \A i \in 1..Len(channel) : stage[channel[i]] = "done"
    /\ \A p \in Procs : \A c \in left[p] : c \in aud[channel[pos[p]]]

(* An event that may still come to the channel, or never will.               *)
OffChannel(e) == stage[e] # "new" /\ \A i \in 1..Len(channel) : channel[i] # e
OnChannel(e, i) == \E j \in i..Len(channel) : channel[j] = e

(* The process of a client has given it what the channel has at a place.     *)
Given(c, i) == i < pos[conn[c]] \/ (i = pos[conn[c]] /\ c \notin left[conn[c]])

(* What a client was given last is at least as late as what the channel had  *)
(* for it: it comes later there, or is not there.                            *)
NotOlder(c, i) ==
    /\ last[c] \in Events /\ c \in aud[last[c]]
    /\ OffChannel(last[c]) \/ OnChannel(last[c], i)
NothingOlder ==
    \A c \in Clients : conn[c] # NoProc =>
       \A i \in (since[c] + 1)..Len(channel) :
          c \in aud[channel[i]] /\ Given(c, i) => NotOlder(c, i)

(* What a subscriber is sending on has a place on the channel.               *)
LEMMA Placed ==
    ASSUME TypeOK, Behind
    PROVE  /\ Len(channel) \in Nat /\ \A i \in 1..Len(channel) : channel[i] \in Events
           /\ \A q \in Procs : left[q] # {} => pos[q] \in 1..Len(channel)
<1>1. Len(channel) \in Nat /\ \A i \in 1..Len(channel) : channel[i] \in Events
  BY DEF TypeOK
<1>2. \A q \in Procs : pos[q] \in Nat
  BY DEF TypeOK
<1> QED BY <1>1, <1>2 DEF Behind

(* A step keeps broadcasts to those addressed.                               *)
LEMMA AddressedKept ==
    TypeOK /\ Behind /\ Begun /\ ToAddressed /\ [Next]_vars => ToAddressed'
<1> SUFFICES ASSUME TypeOK, Behind, Begun, ToAddressed, [Next]_vars
             PROVE  ToAddressed'
  OBVIOUS
<1> USE DEF TypeOK, ToAddressed, clientVars, pubVars, subVars
<1>0. /\ \A i \in 1..Len(channel) : channel[i] \in Events
      /\ \A q \in Procs : left[q] # {} => pos[q] \in 1..Len(channel)
  BY Placed
<1>1. ASSUME NEW c \in Clients, NEW p \in Procs, Connect(c, p) PROVE ToAddressed'
  BY <1>1 DEF Connect
<1>2. ASSUME NEW c \in Clients, Drop(c) PROVE ToAddressed'
  BY <1>2 DEF Drop, Disconnect
<1>3. ASSUME NEW p \in Procs, NEW c \in Clients, SendOn(p, c) PROVE ToAddressed'
  BY <1>3 DEF SendOn
<1>4. ASSUME NEW e \in Events, NEW c \in Clients, SendLocal(e, c)
      PROVE  ToAddressed'
  BY <1>4 DEF SendLocal
<1>5. ASSUME NEW e \in Events, NEW p \in Procs, NEW audience \in Audiences,
             Begin(e, p, audience)
      PROVE  ToAddressed'
  <2>1. \A i \in 1..Len(channel) : channel[i] \in Events /\ channel[i] # e
    BY <1>0, <1>5 DEF Begin
  <2>3. todo'[e] \subseteq aud'[e] /\ stage'[e] = "local"
    BY <1>5 DEF Begin, Targets
  <2>4. \A d \in Events \ {e} :
           todo'[d] = todo[d] /\ aud'[d] = aud[d] /\ stage'[d] = stage[d]
    BY <1>5 DEF Begin
  <2>5. channel' = channel /\ left' = left /\ pos' = pos
    BY <1>5 DEF Begin
  <2>6. \A d \in Events : todo'[d] \subseteq aud'[d] /\ (todo'[d] # {} => stage'[d] = "local")
    BY <2>3, <2>4
  <2>7. \A i \in 1..Len(channel) : stage'[channel[i]] = "done"
    BY <2>1, <2>4
  <2>8. \A q \in Procs : \A c \in left[q] : c \in aud'[channel[pos[q]]]
    BY <1>0, <2>1, <2>4
  <2> QED BY <2>5, <2>6, <2>7, <2>8
<1>6. ASSUME NEW e \in Events, Publish(e) PROVE ToAddressed'
  <2>2. \A i \in 1..Len(channel) : channel'[i] = channel[i]
    BY <1>6 DEF Publish
  <2>3. \A i \in 1..Len(channel') : i \in 1..Len(channel) \/ channel'[i] = e
    BY <1>6 DEF Publish
  <2> QED BY <1>0, <1>6, <2>2, <2>3 DEF Publish, SentLocally
<1>7. ASSUME NEW e \in Events, PublishFails(e) PROVE ToAddressed'
  BY <1>7 DEF PublishFails, SentLocally
<1>8. ASSUME NEW p \in Procs, Take(p) PROVE ToAddressed'
  BY <1>8 DEF Take, Relayed, Targets
<1>9. ASSUME NEW p \in Procs, SubscriberDies(p) PROVE ToAddressed'
  BY <1>9 DEF SubscriberDies
<1>10. ASSUME NEW p \in Procs, Restart(p) PROVE ToAddressed'
  <2>1. \A e \in Events : todo'[e] # {} => home[e] # p /\ stage'[e] = stage[e]
    BY <1>10 DEF Restart, Disconnect
  <2>2. /\ left'[p] = {} /\ \A q \in Procs : left'[q] \subseteq left[q]
        /\ \A q \in Procs \ {p} : pos'[q] = pos[q]
    BY <1>10 DEF Restart, Disconnect
  <2>3. \A e \in Events : todo'[e] \subseteq todo[e] /\ (stage[e] = "done" => stage'[e] = "done")
    BY <1>10 DEF Restart, Disconnect
  <2>4. aud' = aud /\ channel' = channel
    BY <1>10 DEF Restart
  <2>5. ASSUME NEW e \in Events
        PROVE  todo'[e] \subseteq aud[e] /\ (todo'[e] # {} => stage'[e] = "local")
    <3>1. todo'[e] # {} => todo[e] # {}
      BY <2>3
    <3> QED BY <2>1, <2>3, <3>1
  <2>6. \A i \in 1..Len(channel) : stage'[channel[i]] = "done"
    BY <1>0, <2>3
  <2>7. \A q \in Procs : \A c \in left'[q] : c \in aud[channel[pos'[q]]]
    BY <2>2
  <2> QED BY <2>4, <2>5, <2>6, <2>7
<1>11. CASE UNCHANGED vars
  BY <1>11 DEF vars
<1> QED
  BY <1>1, <1>2, <1>3, <1>4, <1>5, <1>6, <1>7, <1>8, <1>9, <1>10, <1>11 DEF Next

(* A step that leaves the channel, gives a client nothing the older, and      *)
(* begins no event anew keeps NothingOlder.                                  *)
LEMMA NoOlderGiven ==
    ASSUME TypeOK, ToAddressed, NothingOlder,
           channel' = channel, since' = since,
           \A e \in Events : stage[e] # "new" => stage'[e] # "new" /\ aud'[e] = aud[e],
           \A c \in Clients : conn'[c] # NoProc =>
              /\ conn[c] # NoProc
              /\ \A i \in 1..Len(channel) : Given(c, i)' => Given(c, i)
              /\ last'[c] = last[c]
    PROVE  NothingOlder'
<1> SUFFICES ASSUME NEW c \in Clients, conn'[c] # NoProc,
                    NEW i \in (since[c] + 1)..Len(channel),
                    c \in aud'[channel[i]], Given(c, i)'
             PROVE  NotOlder(c, i)'
  BY DEF NothingOlder
<1>1. i \in 1..Len(channel) /\ channel[i] \in Events /\ aud'[channel[i]] = aud[channel[i]]
  BY DEF TypeOK, ToAddressed
<1>2. NotOlder(c, i)
  BY <1>1 DEF NothingOlder
<1>3. stage[last[c]] # "new"
  BY <1>1, <1>2 DEF NotOlder, OffChannel, OnChannel, ToAddressed, TypeOK
<1> QED BY <1>2, <1>3 DEF NotOlder, OffChannel, OnChannel

(* Every step keeps it.                                                      *)
LEMMA OlderKept ==
    TypeOK /\ Behind /\ Begun /\ ToAddressed /\ NothingOlder /\ [Next]_vars => NothingOlder'
<1> SUFFICES ASSUME TypeOK, Behind, Begun, ToAddressed, NothingOlder, [Next]_vars
             PROVE  NothingOlder'
  OBVIOUS
<1> USE DEF clientVars, pubVars, subVars
<1>0. Len(channel) \in Nat /\ \A i \in 1..Len(channel) : channel[i] \in Events
  BY Placed
<1>1. ASSUME NEW c \in Clients, NEW p \in Procs, Connect(c, p) PROVE NothingOlder'
  <2> SUFFICES ASSUME NEW d \in Clients, conn'[d] # NoProc,
                      NEW i \in (since'[d] + 1)..Len(channel'),
                      d \in aud'[channel'[i]], Given(d, i)'
               PROVE  NotOlder(d, i)'
    BY DEF NothingOlder
  <2>1. last' = last /\ UNCHANGED <<channel, aud, stage, pos, left>>
    BY <1>1, NothingReplayed DEF Connect, TypeOK
  <2>2. d # c
    BY <1>0, <1>1, <2>1 DEF Connect, TypeOK
  <2>3. conn'[d] = conn[d] /\ since'[d] = since[d]
    BY <1>1, <2>2 DEF Connect, TypeOK
  <2>4. NotOlder(d, i)
    BY <2>1, <2>3 DEF NothingOlder, Given
  <2> QED BY <2>1, <2>4 DEF NotOlder, OffChannel, OnChannel
<1>2. ASSUME NEW c \in Clients, Drop(c) PROVE NothingOlder'
  BY <1>2, NoOlderGiven DEF Drop, Disconnect, Given, TypeOK
<1>3. ASSUME NEW p \in Procs, NEW c \in Clients, SendOn(p, c) PROVE NothingOlder'
  <2>1. pos[p] \in 1..Len(channel) /\ conn[c] = p /\ c \in aud[channel[pos[p]]]
    BY <1>3, Placed DEF SendOn, TypeOK, ToAddressed
  <2>2. /\ UNCHANGED <<conn, since, pos, channel, aud, stage>>
        /\ last' = [last EXCEPT ![c] = channel[pos[p]]]
        /\ left' = [left EXCEPT ![p] = @ \ {c}]
    BY <1>3 DEF SendOn, Receive
  <2> SUFFICES ASSUME NEW d \in Clients, conn[d] # NoProc,
                      NEW i \in (since[d] + 1)..Len(channel),
                      d \in aud[channel[i]], Given(d, i)'
               PROVE  NotOlder(d, i)'
    BY <2>2 DEF NothingOlder
  <2>3. CASE d = c
    <3>1. last'[d] = channel[pos[p]] /\ pos[p] \in i..Len(channel)
      BY <1>0, <2>1, <2>2, <2>3 DEF Given, TypeOK
    <3> QED BY <1>0, <2>1, <2>2, <2>3, <3>1 DEF NotOlder, OnChannel
  <2>4. CASE d # c
    <3>1. last'[d] = last[d] /\ Given(d, i)
      BY <2>2, <2>4 DEF Given, TypeOK
    <3> QED BY <2>2, <3>1 DEF NothingOlder, NotOlder, OffChannel, OnChannel
  <2> QED BY <2>3, <2>4
<1>4. ASSUME NEW e \in Events, NEW c \in Clients, SendLocal(e, c)
      PROVE  NothingOlder'
  <2>1. c \in aud[e] /\ stage[e] = "local" /\ OffChannel(e)
    BY <1>4 DEF SendLocal, ToAddressed, OffChannel
  <2>2. /\ UNCHANGED <<conn, since, pos, left, channel, aud, stage>>
        /\ last' = [last EXCEPT ![c] = e]
    BY <1>4 DEF SendLocal, Receive
  <2> SUFFICES ASSUME NEW d \in Clients, conn[d] # NoProc,
                      NEW i \in (since[d] + 1)..Len(channel),
                      d \in aud[channel[i]], Given(d, i)
               PROVE  NotOlder(d, i)'
    BY <2>2 DEF NothingOlder, Given
  <2>3. CASE d = c
    BY <2>1, <2>2, <2>3 DEF NotOlder, OffChannel, TypeOK
  <2>4. CASE d # c
    BY <2>2, <2>4 DEF NothingOlder, NotOlder, OffChannel, OnChannel, TypeOK
  <2> QED BY <2>3, <2>4
<1>5. ASSUME NEW e \in Events, NEW p \in Procs, NEW audience \in Audiences,
             Begin(e, p, audience)
      PROVE  NothingOlder'
  BY <1>5, NoOlderGiven DEF Begin, Given, TypeOK
<1>6. ASSUME NEW e \in Events, Publish(e) PROVE NothingOlder'
  <2>1. UNCHANGED <<conn, since, pos, left, last, aud>> /\ stage[e] = "local"
    BY <1>6 DEF Publish
  <2>2. \A f \in Events : stage[f] # "new" => stage'[f] # "new"
    BY <1>6 DEF Publish, TypeOK
  <2>3. CASE ~ redis[home[e]]
    BY <1>6, <2>1, <2>2, <2>3, NoOlderGiven DEF Publish, Given
  <2>4. CASE redis[home[e]]
    <3>1. /\ channel' = Append(channel, e) /\ Len(channel') = Len(channel) + 1
          /\ \A j \in 1..Len(channel) : channel'[j] = channel[j]
          /\ channel'[Len(channel) + 1] = e
      BY <1>6, <2>4 DEF Publish, TypeOK
    <3> SUFFICES ASSUME NEW d \in Clients, conn[d] # NoProc,
                        NEW i \in (since[d] + 1)..Len(channel'),
                        d \in aud[channel'[i]], Given(d, i)
                 PROVE  NotOlder(d, i)'
      BY <2>1 DEF NothingOlder, Given
    <3>2. i \in (since[d] + 1)..Len(channel) /\ i \in 1..Len(channel)
      BY <1>0, <3>1 DEF Given, Behind, TypeOK
    <3>3. NotOlder(d, i)
      BY <3>1, <3>2 DEF NothingOlder
    <3>4. CASE last[d] = e
      <4>1. Len(channel) + 1 \in i..Len(channel')
        BY <1>0, <3>1, <3>2
      <4> QED BY <2>1, <3>1, <3>3, <3>4, <4>1 DEF NotOlder, OnChannel
    <3>5. CASE last[d] # e /\ OffChannel(last[d])
      <4>1. \A j \in 1..Len(channel') : channel'[j] # last[d]
        BY <1>0, <3>1, <3>5 DEF OffChannel
      <4> QED BY <2>1, <2>2, <3>3, <3>5, <4>1 DEF NotOlder, OffChannel
    <3>6. CASE OnChannel(last[d], i)
      <4>1. PICK j \in i..Len(channel) : channel[j] = last[d]
        BY <3>6 DEF OnChannel
      <4>2. j \in i..Len(channel') /\ channel'[j] = last[d]
        BY <1>0, <3>1, <3>2, <4>1
      <4> QED BY <2>1, <3>3, <4>2 DEF NotOlder, OnChannel
    <3> QED BY <3>3, <3>4, <3>5, <3>6 DEF NotOlder
  <2> QED BY <2>3, <2>4
<1>7. ASSUME NEW e \in Events, PublishFails(e) PROVE NothingOlder'
  BY <1>7, NoOlderGiven DEF PublishFails, Given, TypeOK
<1>8. ASSUME NEW p \in Procs, Take(p) PROVE NothingOlder'
  <2>1. UNCHANGED <<conn, since, last, channel, aud, stage>>
    BY <1>8 DEF Take
  <2> SUFFICES ASSUME NEW d \in Clients, conn[d] # NoProc,
                      NEW i \in (since[d] + 1)..Len(channel),
                      d \in aud[channel[i]], Given(d, i)'
               PROVE  NotOlder(d, i)'
    BY <2>1 DEF NothingOlder
  <2>2. /\ left[p] = {} /\ pos[p] \in Nat /\ i \in Nat
        /\ pos' = [pos EXCEPT ![p] = @ + 1]
        /\ left' = [left EXCEPT ![p] = {c \in aud[channel[pos[p] + 1]] : conn[c] = p}]
    BY <1>8 DEF Take, Relayed, Targets, TypeOK
  <2>3. Given(d, i)
    BY <2>1, <2>2 DEF Given, TypeOK
  <2> QED BY <2>1, <2>3 DEF NothingOlder, NotOlder, OffChannel, OnChannel
<1>9. ASSUME NEW p \in Procs, SubscriberDies(p) PROVE NothingOlder'
  BY <1>9, NoOlderGiven DEF SubscriberDies, Given
<1>10. ASSUME NEW p \in Procs, Restart(p) PROVE NothingOlder'
  <2>1. \A c \in Clients : conn'[c] # NoProc =>
           conn'[c] = conn[c] /\ conn[c] \in Procs \ {p}
    BY <1>10 DEF Restart, Disconnect, TypeOK
  <2>2. \A q \in Procs \ {p} : pos'[q] = pos[q]
    BY <1>10 DEF Restart, TypeOK
  <2>3. \A c \in Clients : conn'[c] # NoProc =>
           (c \in left[conn[c]] => c \in left'[conn[c]])
    BY <1>10, <2>1 DEF Restart, Disconnect, TypeOK
  <2>4. UNCHANGED <<channel, since, last, aud>>
        /\ \A e \in Events : stage[e] # "new" => stage'[e] # "new"
    BY <1>10 DEF Restart
  <2> QED BY <2>1, <2>2, <2>3, <2>4, NoOlderGiven DEF Given
<1>11. CASE UNCHANGED vars
  BY <1>11, NoOlderGiven DEF vars, Given
<1> QED
  BY <1>1, <1>2, <1>3, <1>4, <1>5, <1>6, <1>7, <1>8, <1>9, <1>10, <1>11 DEF Next

(* At rest the channel's last event for a client is its last.                *)
LEMMA RestIsLast == IInv /\ ToAddressed /\ NothingOlder => SameLastEvent
<1> SUFFICES ASSUME IInv, ToAddressed, NothingOlder, Quiet, Unpublished = {},
                    NEW c \in Clients, Served(c),
                    NEW i \in (since[c] + 1)..Len(channel), c \in aud[channel[i]],
                    \A j \in (i + 1)..Len(channel) : c \notin aud[channel[j]]
             PROVE  last[c] = channel[i]
  BY DEF SameLastEvent
<1> USE DEF IInv, TypeOK
<1>1. /\ conn[c] \in Procs /\ pos[conn[c]] = Len(channel) /\ left[conn[c]] = {}
      /\ i \in 1..Len(channel) /\ conn[c] # NoProc
  BY DEF Served, Quiet
<1>2. NotOlder(c, i)
  BY <1>1 DEF NothingOlder, Given
<1>3. ~ OffChannel(last[c])
  <2>1. SUFFICES ASSUME OffChannel(last[c]) PROVE FALSE
    OBVIOUS
  <2>2. stage[last[c]] = "done"
    BY <1>2, <2>1 DEF OffChannel, NotOlder, Quiet, Stages
  <2>3. last[c] \notin ToSet(channel)
    BY <2>1 DEF OffChannel, ToSet
  <2> QED BY <1>2, <2>2, <2>3 DEF NotOlder, Unpublished
<1>4. PICK j \in i..Len(channel) : channel[j] = last[c]
  BY <1>2, <1>3 DEF NotOlder, OnChannel
<1>5. j = i
  BY <1>1, <1>2, <1>4 DEF NotOlder
<1> QED BY <1>4, <1>5

(* Clients agree on the latest event: once everything is delivered, whoever  *)
(* was connected when the last event addressed to it was published has that  *)
(* one last, in whatever order concurrent publishers sent theirs on their    *)
(* own sockets first, for any processes, clients, audiences and events.      *)
THEOREM ClientsAgree == Spec => []SameLastEvent
<1>1. Init => ToAddressed /\ NothingOlder
  BY DEF Init, ToAddressed, NothingOlder
<1>2. IInv /\ ToAddressed /\ NothingOlder /\ [Next]_vars => ToAddressed' /\ NothingOlder'
  BY AddressedKept, OlderKept DEF IInv
<1> QED BY <1>1, <1>2, InvariantHolds, RestIsLast, PTL DEF Spec
=============================================================================
