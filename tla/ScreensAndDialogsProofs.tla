---------------------- MODULE ScreensAndDialogsProofs ------------------------
(* What the screen, the dialogs and what a browser keeps promise, for any items,   *)
(* pages, requests under way and bounds.                                          *)
EXTENDS ScreensAndDialogs, FiniteSetTheorems, TLAPS

-----------------------------------------------------------------------------
(* The screen.                                                                *)

(* What the argument needs of the types.                                       *)
Steered ==
    /\ storedScreen \in C!Views /\ want \in C!Views
    /\ put \in [ScreenSlots -> C!Puts] /\ ctl \in [C!Mounts -> C!Ctls]
    /\ page \in C!Mounts /\ selected \in C!Items /\ timer \in C!Items \cup {none}

NoQueue == \A m \in C!Mounts : ctl[m].queued = NoData

(* Unless crossed, one update is under way at most.  What waits in a queue is  *)
(* the host's last word, and the update under way will flush it; with nothing  *)
(* waiting the update under way is the last word, and with no update the       *)
(* server has it.                                                              *)
Word ==
    ~ crossedScreen =>
       /\ \A s, t \in C!Busy : s = t
       /\ \A m \in C!Mounts : ctl[m].queued # NoData =>
             /\ want = ctl[m].queued
             /\ \E s \in C!Busy : put[s].by = m /\ C!Flushes(s)
       /\ \A s \in C!Busy :
             /\ put[s].at \in {"kept", "ok"} => storedScreen = put[s].view
             /\ NoQueue => want = put[s].view
       /\ C!Busy = {} => storedScreen = want

WInv == Steered /\ Word

LEMMA NothingIsNoView == NoData \notin C!Views
  BY PartsAssumption DEF PartsAssumption

LEMMA BusyPut ==
    ASSUME Steered, NEW s \in ScreenSlots
    PROVE  s \in C!Busy <=> put[s].by \in C!Mounts
<1>1. C!NoPut.by \notin C!Mounts
  BY DEF C!NoPut, C!Mounts
<1> QED BY <1>1 DEF Steered, C!Puts, C!Busy

LEMMA ViewTypes ==
    /\ \A k \in C!PlainKinds : C!Plain(k) \in C!Views
    /\ \A i \in C!Items : C!Question(i) \in C!Views /\ C!Results(i) \in C!Views
    /\ \A i \in ScreenQuizzes : C!Leaderboard(i) \in C!Views
BY DEF C!Views

LEMMA WordInit == C!Init => WInv
<1> SUFFICES ASSUME C!Init PROVE WInv
  OBVIOUS
<1>1. C!Plain("standby") \in C!Views
  BY ViewTypes DEF C!PlainKinds
<1>2. C!Fresh \in C!Ctls /\ C!Fresh.queued = NoData /\ C!NoPut \in C!Puts
  BY DEF C!Fresh, C!Ctls, C!Puts
<1>3. Steered
  BY <1>1, <1>2 DEF C!Init, Steered, C!Mounts
<1>4. C!Busy = {} /\ NoQueue
  BY <1>2 DEF C!Init, C!Busy, NoQueue
<1> QED BY <1>3, <1>4 DEF C!Init, WInv, Word, NoQueue

(* With no update under way and uncrossed, nothing waits.                      *)
LEMMA IdleIsEmpty ==
    ASSUME Word, ~ crossedScreen, C!Busy = {}
    PROVE  NoQueue /\ storedScreen = want
BY DEF Word, NoQueue

(* A step that leaves the controls, the updates and the last word alone.       *)
LEMMA WordQuiet ==
    ASSUME WInv, UNCHANGED <<storedScreen, put, want>>, ~ crossedScreen' => ~ crossedScreen, page' \in C!Mounts,
           selected' \in C!Items, timer' \in C!Items \cup {none},
           ctl' \in [C!Mounts -> C!Ctls],
           \A m \in C!Mounts : ctl'[m].queued = ctl[m].queued
    PROVE  WInv'
<1>1. Steered'
  BY DEF WInv, Steered
<1>2. C!Busy' = C!Busy /\ (NoQueue' <=> NoQueue) /\ \A s \in ScreenSlots : C!Flushes(s)' <=> C!Flushes(s)
  BY DEF C!Busy, NoQueue, C!Flushes
<1>3. C!Busy \subseteq ScreenSlots
  BY DEF C!Busy
<1>4. Word'
  BY <1>2, <1>3 DEF WInv, Word
<1> QED BY <1>1, <1>4 DEF WInv

(* A new update, sent while none is under way.                                 *)
LEMMA WordSent ==
    ASSUME WInv, NEW s \in ScreenSlots, NEW m \in C!Mounts, NEW v \in C!Views,
           ctl' \in [C!Mounts -> C!Ctls], put' \in [ScreenSlots -> C!Puts],
           page' \in C!Mounts, selected' \in C!Items, timer' \in C!Items \cup {none},
           storedScreen' = storedScreen, want' = v,
           put'[s].by = m, put'[s].view = v, put'[s].at = "sent",
           ~ crossedScreen' => /\ \A t \in ScreenSlots \ {s} : put'[t] = C!NoPut
                               /\ \A n \in C!Mounts : ctl'[n].queued = NoData
    PROVE  WInv'
<1>1. Steered'
  BY DEF WInv, Steered
<1> SUFFICES ASSUME ~ crossedScreen' PROVE Word'
  BY <1>1 DEF WInv, Word
<1>2. put'[s] # C!NoPut
  BY DEF C!NoPut, C!Mounts
<1>3. C!Busy' = {s}
  BY <1>2 DEF C!Busy
<1>4. /\ put'[s].at \notin {"kept", "ok"} /\ want' = put'[s].view
      /\ \A n \in C!Mounts : ctl'[n].queued = NoData
  OBVIOUS
<1>5. \A q, t \in C!Busy' : q = t
  BY <1>3
<1>6. \A q \in C!Busy' : want' = put'[q].view /\ put'[q].at \notin {"kept", "ok"}
  BY <1>3, <1>4
<1>7. C!Busy' # {}
  BY <1>3
<1> QED BY <1>4, <1>5, <1>6, <1>7 DEF Word

LEMMA NewPut ==
    ASSUME NEW m \in C!Mounts, NEW v \in C!Views, NEW d \in BOOLEAN, NEW h \in BOOLEAN
    PROVE  [by |-> m, view |-> v, at |-> "sent", direct |-> d, heard |-> h] \in C!Puts
BY DEF C!Puts

LEMMA Unheard ==
    ASSUME NEW x \in C!Puts, x.by \in C!Mounts
    PROVE  [x EXCEPT !.heard = FALSE] \in C!Puts
<1>1. x # C!NoPut
  BY DEF C!NoPut, C!Mounts
<1> QED BY <1>1 DEF C!Puts

LEMMA MutateSends ==
    ASSUME Steered, NEW m \in C!Mounts, NEW v \in C!Views, \E d \in BOOLEAN : C!Mutate(m, v, d)
    PROVE  /\ put' \in [ScreenSlots -> C!Puts]
           /\ \E s \in ScreenSlots :
                /\ put'[s].by = m /\ put'[s].view = v /\ put'[s].at = "sent"
                /\ C!Busy = {} => \A t \in ScreenSlots \ {s} : put'[t] = C!NoPut
<1>1. PICK d \in BOOLEAN, s \in ScreenSlots \ C!Busy :
        put' = [t \in ScreenSlots |->
                  IF t = s THEN [by |-> m, view |-> v, at |-> "sent",
                                 direct |-> d, heard |-> TRUE]
                  ELSE IF t \in C!Mine(m) THEN [put[t] EXCEPT !.heard = FALSE]
                  ELSE put[t]]
  BY DEF C!Mutate
<1>2. \A t \in ScreenSlots : put[t] \in C!Puts
  BY DEF Steered
<1>3. put' \in [ScreenSlots -> C!Puts]
  BY <1>1, <1>2, NewPut, Unheard DEF C!Mine
<1>4. /\ put'[s].by = m /\ put'[s].view = v /\ put'[s].at = "sent"
      /\ C!Busy = {} => \A t \in ScreenSlots \ {s} : put'[t] = C!NoPut
  BY <1>1 DEF C!Busy, C!Mine
<1> QED BY <1>3, <1>4

LEMMA SayKeeps ==
    ASSUME WInv, NEW m \in C!Mounts, NEW v \in C!Views,
           NEW forced \in BOOLEAN, NEW k \in {ctl[m], C!Overriding(m)},
           C!Say(m, k, v, forced), storedScreen' = storedScreen,
           page' \in C!Mounts, selected' \in C!Items, timer' \in C!Items \cup {none}
    PROVE  WInv'
<1>1. k \in C!Ctls /\ k.queued = ctl[m].queued
  BY DEF WInv, Steered, C!Overriding, C!Ctls
<1>2. [k EXCEPT !.queued = v] \in C!Ctls /\ [k EXCEPT !.queued = v].queued = v
  BY <1>1 DEF C!Ctls
<1>3. [k EXCEPT !.last = v] \in C!Ctls /\ [k EXCEPT !.last = v].queued = ctl[m].queued
  BY <1>1 DEF C!Ctls
<1>4. ctl \in [C!Mounts -> C!Ctls]
  BY DEF WInv, Steered
<1>5. CASE ctl' = [ctl EXCEPT ![m] = k] /\ UNCHANGED put /\ want' = v
           /\ crossedScreen' = (crossedScreen \/ want # v)
  <2>1. ctl' \in [C!Mounts -> C!Ctls] /\ \A n \in C!Mounts : ctl'[n].queued = ctl[n].queued
    BY <1>1, <1>4, <1>5
  <2>2. CASE crossedScreen'
    <3>1. Steered'
      BY <1>5, <2>1 DEF WInv, Steered
    <3> QED BY <2>2, <3>1 DEF WInv, Word
  <2>3. CASE ~ crossedScreen'
    <3>1. want' = want /\ ~ crossedScreen
      BY <1>5, <2>3
    <3> QED BY <1>5, <2>1, <3>1, WordQuiet
  <2> QED BY <2>2, <2>3
<1>6. CASE ctl' = [ctl EXCEPT ![m] = [k EXCEPT !.queued = v]] /\ UNCHANGED put /\ want' = v
           /\ crossedScreen' = (crossedScreen \/ \E s \in C!Mine(m) : put[s].heard /\ put[s].direct)
           /\ C!MustWait(m)
  <2>1. /\ ctl' \in [C!Mounts -> C!Ctls] /\ ctl'[m].queued = v
        /\ \A n \in C!Mounts \ {m} : ctl'[n] = ctl[n]
    BY <1>2, <1>4, <1>6
  <2>2. Steered'
    BY <1>6, <2>1 DEF WInv, Steered
  <2>3. Word'
    <3> SUFFICES ASSUME ~ crossedScreen' PROVE Word'
      BY DEF Word
    <3>1. PICK s \in C!Mine(m) : put[s].heard
      BY <1>6 DEF C!MustWait, C!Updating
    <3>2. s \in C!Busy /\ put[s].by = m /\ C!Flushes(s) /\ ~ crossedScreen
      BY <1>6, <3>1 DEF C!Mine, C!Flushes
    <3>3. C!Busy' = C!Busy /\ (C!Flushes(s)' <=> C!Flushes(s))
      BY <1>6 DEF C!Busy, C!Flushes
    <3>4. ~ NoQueue' /\ C!Busy # {}
      BY <2>1, <3>2, NothingIsNoView DEF NoQueue
    <3>5. \A n \in C!Mounts \ {m} : ctl'[n].queued = NoData
      <4>1. \A n \in C!Mounts : ctl[n].queued # NoData => n = m
        BY <3>2 DEF WInv, Word
      <4> QED BY <2>1, <4>1
    <3> QED BY <1>6, <2>1, <3>2, <3>3, <3>4, <3>5 DEF WInv, Word
  <2> QED BY <2>2, <2>3 DEF WInv
<1>7. CASE /\ ctl' = [ctl EXCEPT ![m] = [k EXCEPT !.last = v]] /\ want' = v
           /\ C!Mutate(m, v, FALSE) /\ ~ C!MustWait(m)
           /\ crossedScreen' = (crossedScreen \/ \E s \in C!Busy : ~ (s \in C!Mine(m) /\ put[s].heard))
  <2>1. ctl' \in [C!Mounts -> C!Ctls] /\ \A n \in C!Mounts : ctl'[n].queued = ctl[n].queued
    BY <1>3, <1>4, <1>7
  <2>2. ~ crossedScreen' => ~ crossedScreen /\ C!Busy = {}
    BY <1>7 DEF C!MustWait, C!Updating
  <2>3. ~ crossedScreen' => \A n \in C!Mounts : ctl'[n].queued = NoData
    BY <2>1, <2>2, IdleIsEmpty DEF WInv, NoQueue
  <2>4. /\ put' \in [ScreenSlots -> C!Puts]
        /\ \E s \in ScreenSlots :
              /\ put'[s].by = m /\ put'[s].view = v /\ put'[s].at = "sent"
              /\ C!Busy = {} => \A t \in ScreenSlots \ {s} : put'[t] = C!NoPut
    <3>1. Steered /\ \E d \in BOOLEAN : C!Mutate(m, v, d)
      BY <1>7 DEF WInv
    <3> QED BY <3>1, MutateSends
  <2>5. PICK s \in ScreenSlots :
              /\ put'[s].by = m /\ put'[s].view = v /\ put'[s].at = "sent"
              /\ C!Busy = {} => \A t \in ScreenSlots \ {s} : put'[t] = C!NoPut
    BY <2>4
  <2>6. ~ crossedScreen' => /\ \A t \in ScreenSlots \ {s} : put'[t] = C!NoPut
                            /\ \A n \in C!Mounts : ctl'[n].queued = NoData
    BY <2>2, <2>3, <2>5
  <2>7. want' = v
    BY <1>7
  <2> QED BY <2>1, <2>4, <2>5, <2>6, <2>7, WordSent
<1> QED BY <1>5, <1>6, <1>7 DEF C!Say

LEMMA ShowAtOnceKeeps ==
    ASSUME WInv, NEW m \in C!Mounts, NEW v \in C!Views, C!ShowAtOnce(m, v), storedScreen' = storedScreen,
           page' \in C!Mounts, selected' \in C!Items, timer' \in C!Items \cup {none}
    PROVE  WInv'
<1>1. /\ C!Overriding(m) \in C!Ctls /\ C!Overriding(m).queued = ctl[m].queued
      /\ ctl \in [C!Mounts -> C!Ctls]
  BY DEF WInv, Steered, C!Overriding, C!Ctls
<1>2. ctl' \in [C!Mounts -> C!Ctls] /\ \A n \in C!Mounts : ctl'[n].queued = ctl[n].queued
  BY <1>1 DEF C!ShowAtOnce
<1>3. ~ crossedScreen' => ~ crossedScreen /\ C!Busy = {}
  BY DEF C!ShowAtOnce
<1>4. ~ crossedScreen' => \A n \in C!Mounts : ctl'[n].queued = NoData
  BY <1>2, <1>3, IdleIsEmpty DEF WInv, NoQueue
<1>5. /\ put' \in [ScreenSlots -> C!Puts]
      /\ \E s \in ScreenSlots :
            /\ put'[s].by = m /\ put'[s].view = v /\ put'[s].at = "sent"
            /\ C!Busy = {} => \A t \in ScreenSlots \ {s} : put'[t] = C!NoPut
  <2>1. Steered /\ \E d \in BOOLEAN : C!Mutate(m, v, d)
    BY DEF WInv, C!ShowAtOnce
  <2> QED BY <2>1, MutateSends
<1>6. PICK s \in ScreenSlots :
            /\ put'[s].by = m /\ put'[s].view = v /\ put'[s].at = "sent"
            /\ C!Busy = {} => \A t \in ScreenSlots \ {s} : put'[t] = C!NoPut
  BY <1>5
<1>7. want' = v
  BY DEF C!ShowAtOnce
<1>8. ~ crossedScreen' => /\ \A t \in ScreenSlots \ {s} : put'[t] = C!NoPut
                          /\ \A n \in C!Mounts : ctl'[n].queued = NoData
  BY <1>3, <1>4, <1>6
<1> QED BY <1>2, <1>5, <1>6, <1>7, <1>8, WordSent

LEMMA UnmountedKeeps ==
    ASSUME WInv, NEW ms \in SUBSET C!Mounts, C!Unmounted(ms), storedScreen' = storedScreen,
           page' \in C!Mounts, selected' \in C!Items, timer' \in C!Items \cup {none}
    PROVE  WInv'
<1>1. /\ ctl \in [C!Mounts -> C!Ctls] /\ put \in [ScreenSlots -> C!Puts]
      /\ C!Fresh \in C!Ctls /\ C!Fresh.queued = NoData
  BY DEF WInv, Steered, C!Fresh, C!Ctls
<1>2. /\ ctl' \in [C!Mounts -> C!Ctls]
      /\ \A m \in C!Mounts : ctl'[m] = IF m \in ms THEN C!Fresh ELSE ctl[m]
  BY <1>1 DEF C!Unmounted
<1>3. /\ put' \in [ScreenSlots -> C!Puts]
      /\ \A s \in ScreenSlots : put'[s] = IF put[s].by \in ms THEN [put[s] EXCEPT !.heard = FALSE]
                                    ELSE put[s]
  BY <1>1, Unheard DEF C!Unmounted
<1>4. Steered'
  BY <1>2, <1>3 DEF WInv, Steered, C!Unmounted
<1> SUFFICES ASSUME ~ crossedScreen' PROVE Word'
  BY <1>4 DEF WInv, Word
<1>5. ~ crossedScreen /\ want' = want /\ \A m \in ms : ctl[m].queued = NoData
  BY DEF C!Unmounted
<1>6. \A m \in C!Mounts : ctl'[m].queued = ctl[m].queued
  BY <1>1, <1>2, <1>5
<1>7. \A s \in ScreenSlots :
        /\ put'[s].by = put[s].by /\ put'[s].view = put[s].view /\ put'[s].at = put[s].at
        /\ put'[s].direct = put[s].direct
        /\ put[s].by \notin ms => put'[s] = put[s]
  BY <1>1, <1>3 DEF C!Puts, C!NoPut
<1>8. C!Busy' = C!Busy
  <2>1. \A s \in ScreenSlots : s \in C!Busy' <=> put'[s].by \in C!Mounts
    <3>1. C!NoPut.by \notin C!Mounts
      BY DEF C!NoPut, C!Mounts
    <3> QED BY <1>4, <3>1 DEF Steered, C!Puts, C!Busy
  <2>2. \A s \in ScreenSlots : s \in C!Busy <=> put[s].by \in C!Mounts
    BY BusyPut DEF WInv
  <2> QED BY <1>7, <2>1, <2>2 DEF C!Busy
<1>9. NoQueue' <=> NoQueue
  BY <1>6 DEF NoQueue
<1>10. ASSUME NEW m \in C!Mounts, ctl'[m].queued # NoData
       PROVE  want' = ctl'[m].queued /\ \E s \in C!Busy' : put'[s].by = m /\ C!Flushes(s)'
  <2>1. ctl[m].queued # NoData /\ m \notin ms
    BY <1>5, <1>6, <1>10
  <2>2. PICK s \in C!Busy : put[s].by = m /\ C!Flushes(s)
    BY <1>5, <2>1 DEF WInv, Word
  <2>3. s \in ScreenSlots /\ put'[s] = put[s]
    BY <1>7, <2>1, <2>2 DEF C!Busy
  <2>4. C!Flushes(s)'
    BY <2>2, <2>3 DEF C!Flushes
  <2> QED BY <1>5, <1>6, <1>8, <2>1, <2>2, <2>3, <2>4 DEF WInv, Word
<1>11. C!Busy \subseteq ScreenSlots
  BY DEF C!Busy
<1>12. \A s, t \in C!Busy' : s = t
  BY <1>5, <1>8 DEF WInv, Word
<1>13. \A s \in C!Busy' :
         /\ put'[s].at \in {"kept", "ok"} => storedScreen' = put'[s].view
         /\ NoQueue' => want' = put'[s].view
  BY <1>5, <1>7, <1>8, <1>9, <1>11 DEF WInv, Word
<1>14. C!Busy' = {} => storedScreen' = want'
  BY <1>5, <1>8 DEF WInv, Word
<1>15. \A m \in C!Mounts : ctl'[m].queued # NoData =>
          /\ want' = ctl'[m].queued
          /\ \E s \in C!Busy' : put'[s].by = m /\ C!Flushes(s)'
  BY <1>10
<1> QED BY <1>12, <1>13, <1>14, <1>15 DEF Word

LEMMA NothingUnheard == [C!NoPut EXCEPT !.heard = FALSE] = C!NoPut
<1> SUFFICES ASSUME NEW x, x = C!NoPut PROVE [x EXCEPT !.heard = FALSE] = x
  OBVIOUS
<1>1. [x EXCEPT !.heard = x.heard] = x /\ x.heard = FALSE
  BY DEF C!NoPut
<1> QED BY <1>1

(* What may change besides, without the controls being told.                   *)
LEMMA TimerTypes ==
    ASSUME NEW i \in C!Items \cup {none}, NEW done, NEW f, NEW m
    PROVE  C!TimerFor(i, done, f, m) \in C!Items \cup {none}
BY DEF C!TimerFor

LEMMA QuietKeeps ==
    ASSUME WInv, C!Quiet, storedScreen' = storedScreen,
           page' \in C!Mounts, selected' \in C!Items, timer' \in C!Items \cup {none}
    PROVE  WInv'
<1>1. /\ UNCHANGED <<storedScreen, put, want>> /\ (~ crossedScreen' => ~ crossedScreen)
      /\ ctl' \in [C!Mounts -> C!Ctls] /\ \A m \in C!Mounts : ctl'[m].queued = ctl[m].queued
  BY DEF C!Quiet, WInv, Steered
<1> QED BY <1>1, WordQuiet

LEMMA PushKeeps ==
    ASSUME WInv, NEW m \in C!Mounts, NEW v \in C!Views, C!Push(m, v),
           storedScreen' = storedScreen,
           page' \in C!Mounts, selected' \in C!Items, timer' \in C!Items \cup {none}
    PROVE  WInv'
<1>1. CASE C!Say(m, ctl[m], v, FALSE)
  <2>1. ctl[m] \in {ctl[m], C!Overriding(m)} /\ FALSE \in BOOLEAN
    OBVIOUS
  <2> QED BY <1>1, <2>1, SayKeeps
<1>2. CASE C!Quiet
  BY <1>2, QuietKeeps
<1> QED BY <1>1, <1>2 DEF C!Push

(* The panel of buttons, and the Q&A's bar.                                    *)
LEMMA ButtonsKeep ==
    ASSUME WInv,
           C!ShowTest \/ C!PressStandby \/ C!ShowOverview \/ C!QaOpened \/ C!QaClosed
    PROVE  WInv'
<1>1. /\ storedScreen' = storedScreen /\ page \in C!Mounts
      /\ page' \in C!Mounts /\ selected' \in C!Items /\ timer' \in C!Items \cup {none}
  BY DEF C!ShowTest, C!PressStandby, C!ShowOverview, C!QaOpened, C!QaClosed, C!PressPanel,
         C!Press,
         C!bench, C!hostRest, C!server, WInv, Steered
<1>2. \A k \in C!PlainKinds : C!Plain(k) \in C!Views
  BY ViewTypes
<1>3. ASSUME NEW k \in C!PlainKinds, C!ShowAtOnce(page, C!Plain(k)) PROVE WInv'
  BY <1>1, <1>2, <1>3, ShowAtOnceKeeps
<1>4. ASSUME NEW k \in C!PlainKinds, C!Push(page, C!Plain(k)) PROVE WInv'
  BY <1>1, <1>2, <1>4, PushKeeps
<1>5. CASE C!ShowTest
  BY <1>3, <1>5 DEF C!ShowTest, C!PlainKinds
<1>6. CASE C!PressStandby
  BY <1>3, <1>4, <1>6 DEF C!PressStandby, C!PlainKinds
<1>7. CASE C!ShowOverview
  BY <1>4, <1>7 DEF C!ShowOverview, C!PlainKinds
<1>8. CASE C!QaOpened
  <2>1. C!Say(page, C!Overriding(page), C!Plain("qa"), TRUE) /\ C!Plain("qa") \in C!Views
    BY <1>2, <1>8 DEF C!QaOpened, C!PlainKinds
  <2> QED BY <1>1, <2>1, SayKeeps
<1>9. CASE C!QaClosed
  BY <1>3, <1>9 DEF C!QaClosed, C!PlainKinds
<1> QED BY <1>5, <1>6, <1>7, <1>8, <1>9

(* To the Q&A: from the workbench, the view is sent by a page that goes.        *)
LEMMA ShowQaKeeps ==
    ASSUME WInv, C!ShowQa
    PROVE  WInv'
<1>1. storedScreen' = storedScreen /\ page \in C!Mounts /\ C!Plain("qa") \in C!Views
  BY ViewTypes DEF C!ShowQa, C!Press, C!hostRest, C!server, WInv, Steered, C!PlainKinds
<1>2. CASE page = "moderation"
  <2>1. C!Say(page, C!Overriding(page), C!Plain("qa"), TRUE) /\ UNCHANGED C!bench
    BY <1>2 DEF C!ShowQa
  <2>2. page' \in C!Mounts /\ selected' \in C!Items /\ timer' \in C!Items \cup {none}
    BY <2>1 DEF C!bench, WInv, Steered
  <2> QED BY <1>1, <2>1, <2>2, SayKeeps
<1>3. CASE page # "moderation"
  <2>1. /\ page' \in C!Mounts /\ selected' \in C!Items /\ timer' \in C!Items \cup {none}
        /\ want' = C!Plain("qa") /\ (~ crossedScreen' => C!Busy = {})
        /\ ctl' = [m \in C!Mounts |-> C!Fresh]
    BY <1>3 DEF C!ShowQa, C!Mounts, WInv, Steered
  <2>2. PICK s \in ScreenSlots \ C!Busy :
          put' = [t \in ScreenSlots |->
                    IF t = s THEN [by |-> "workbench", view |-> C!Plain("qa"),
                                   at |-> "sent", direct |-> FALSE, heard |-> FALSE]
                    ELSE [put[t] EXCEPT !.heard = FALSE]]
    BY <1>3 DEF C!ShowQa
  <2>3. "workbench" \in C!Mounts
    BY DEF C!Mounts
  <2>4. \A t \in ScreenSlots : put[t] \in C!Puts /\ (put[t].by \in C!Mounts \/ put[t] = C!NoPut)
    BY DEF WInv, Steered, C!Puts
  <2>5. C!NoPut \in C!Puts
    BY DEF C!Puts
  <2>6. \A t \in ScreenSlots : [put[t] EXCEPT !.heard = FALSE] \in C!Puts
    BY <2>4, <2>5, Unheard, NothingUnheard
  <2>7. put' \in [ScreenSlots -> C!Puts]
    BY <1>1, <2>2, <2>3, <2>6, NewPut
  <2>8. put'[s].by = "workbench" /\ put'[s].view = C!Plain("qa") /\ put'[s].at = "sent"
    BY <2>2
  <2>9. C!Fresh \in C!Ctls /\ C!Fresh.queued = NoData
    BY DEF C!Fresh, C!Ctls
  <2>10. ctl' \in [C!Mounts -> C!Ctls] /\ \A n \in C!Mounts : ctl'[n].queued = NoData
    BY <2>1, <2>9
  <2>11. ~ crossedScreen' => \A t \in ScreenSlots \ {s} : put'[t] = C!NoPut
    BY <2>1, <2>2, NothingUnheard DEF C!Busy
  <2>12. ~ crossedScreen' => /\ \A t \in ScreenSlots \ {s} : put'[t] = C!NoPut
                             /\ \A n \in C!Mounts : ctl'[n].queued = NoData
    BY <2>10, <2>11
  <2> QED BY <1>1, <2>1, <2>3, <2>7, <2>8, <2>10, <2>12, WordSent
<1> QED BY <1>2, <1>3

(* The workbench.                                                              *)
LEMMA WorkbenchKeeps ==
    ASSUME WInv,
           \/ C!ToggleFollow \/ C!Leave \/ C!Return \/ C!ActionBegins \/ C!ActionEnds
           \/ C!SyncWorkbench \/ C!PressQuiz \/ \E i \in C!Items : C!Select(i)
    PROVE  WInv'
<1>1. /\ page \in C!Mounts /\ selected \in C!Items /\ timer \in C!Items \cup {none}
      /\ none \in C!Items \cup {none} /\ {"workbench", "moderation", "quiz"} = C!Mounts
  BY DEF WInv, Steered, C!Mounts
<1>2. CASE C!ToggleFollow
  <2>1. timer' \in C!Items \cup {none}
    BY <1>1, <1>2, TimerTypes DEF C!ToggleFollow
  <2> QED BY <1>1, <1>2, <2>1, QuietKeeps DEF C!ToggleFollow, C!Press, C!hostRest,
      C!server
<1>3. CASE C!Leave
  <2>1. {"workbench", "quiz"} \in SUBSET C!Mounts
    BY DEF C!Mounts
  <2> QED BY <1>1, <1>3, <2>1, UnmountedKeeps DEF C!Leave, C!Press, C!hostRest, C!server
<1>4. CASE C!Return
  <2>1. {"moderation"} \in SUBSET C!Mounts
    BY DEF C!Mounts
  <2>2. timer' \in C!Items \cup {none}
    BY <1>1, <1>4, TimerTypes DEF C!Return
  <2> QED BY <1>1, <1>4, <2>1, <2>2, UnmountedKeeps DEF C!Return, C!Press, C!hostRest,
      C!server
<1>5. CASE \E i \in C!Items : C!Select(i)
  <2>1. {"quiz"} \in SUBSET C!Mounts
    BY DEF C!Mounts
  <2>2. PICK i \in C!Items : C!Select(i)
    BY <1>5
  <2>3. timer' \in C!Items \cup {none}
    BY <1>1, <2>2, TimerTypes DEF C!Select
  <2> QED BY <1>1, <2>1, <2>2, <2>3, UnmountedKeeps
          DEF C!Select, C!Work, C!hostRest, C!server
<1>6. CASE C!ActionBegins
  BY <1>1, <1>6, QuietKeeps DEF C!ActionBegins, C!Work, C!hostRest, C!server
<1>7. CASE C!ActionEnds
  <2>1. /\ storedScreen' = storedScreen /\ page' \in C!Mounts /\ selected' \in C!Items
        /\ timer' \in C!Items \cup {none}
    BY <1>1, <1>7, TimerTypes DEF C!ActionEnds, C!hostRest, C!server
  <2>2. "workbench" \in C!Mounts
    BY DEF C!Mounts
  <2>3. ASSUME NEW p \in ScreenPolls, NEW v \in {C!Question(p), C!Results(p)}, C!Push("workbench", v)
        PROVE  WInv'
    <3>1. v \in C!Views
      BY ViewTypes DEF C!Items
    <3> QED BY <2>1, <2>2, <2>3, <3>1, PushKeeps
  <2> QED BY <1>7, <2>1, <2>3, QuietKeeps DEF C!ActionEnds
<1>8. CASE C!SyncWorkbench
  <2>1. /\ storedScreen' = storedScreen /\ page' \in C!Mounts /\ selected' \in C!Items
        /\ timer' \in C!Items \cup {none} /\ timer \in C!Items /\ "workbench" \in C!Mounts
    BY <1>1, <1>8 DEF C!SyncWorkbench, C!hostRest, C!server
  <2>2. C!Question(timer) \in C!Views
    BY <2>1, ViewTypes
  <2>3. C!Quiet \/ C!Push("workbench", C!Question(timer))
    BY <1>8 DEF C!SyncWorkbench
  <2> QED BY <2>1, <2>2, <2>3, QuietKeeps, PushKeeps
<1>9. CASE C!PressQuiz
  <2>1. /\ storedScreen' = storedScreen /\ page' \in C!Mounts /\ selected' \in C!Items
        /\ timer' \in C!Items \cup {none} /\ "quiz" \in C!Mounts /\ selected \in ScreenQuizzes
    BY <1>1, <1>9 DEF C!PressQuiz, C!Work, C!bench, C!hostRest, C!server
  <2>2. \A q, b : C!QuizView(selected, q, b) \in C!Views
    <3>1. C!Plain("standby") \in C!Views /\ selected \in C!Items
      BY <1>1, ViewTypes DEF C!PlainKinds
    <3> QED BY <2>1, <3>1, ViewTypes DEF C!QuizView
  <2>3. \E v \in C!Views : C!Push("quiz", v)
    BY <1>9, <2>2 DEF C!PressQuiz
  <2> QED BY <2>1, <2>3, PushKeeps
<1> QED BY <1>2, <1>3, <1>4, <1>5, <1>6, <1>7, <1>8, <1>9

(* A step of the server: the update under way is the only one.                 *)
LEMMA ServerKeeps ==
    ASSUME WInv, NEW s \in ScreenSlots, C!Persist(s) \/ C!Announce(s) \/ C!Fail(s)
    PROVE  WInv'
<1>1. /\ put \in [ScreenSlots -> C!Puts] /\ put[s].at \in {"sent", "kept"} /\ put[s] # C!NoPut
      /\ put[s].view \in C!Views
  BY DEF WInv, Steered, C!Puts, C!NoPut, C!Persist, C!Announce, C!Fail
<1>2. /\ UNCHANGED <<ctl, want, crossedScreen, page, selected, timer>>
      /\ \E a \in {"kept", "ok", "failed"} :
            /\ put' = [put EXCEPT ![s].at = a]
            /\ \/ a = "kept" /\ storedScreen' = put[s].view
               \/ a = "ok" /\ put[s].at = "kept" /\ storedScreen' = storedScreen
               \/ a = "failed" /\ storedScreen' = storedScreen
  BY DEF C!Persist, C!Announce, C!Fail, C!bench, C!server
<1>3. PICK a \in {"kept", "ok", "failed"} :
            /\ put' = [put EXCEPT ![s].at = a]
            /\ \/ a = "kept" /\ storedScreen' = put[s].view
               \/ a = "ok" /\ put[s].at = "kept" /\ storedScreen' = storedScreen
               \/ a = "failed" /\ storedScreen' = storedScreen
  BY <1>2
<1>4. [put[s] EXCEPT !.at = a] \in C!Puts \ {C!NoPut}
  <2>1. put[s] \in C!Puts \ {C!NoPut}
    BY <1>1
  <2>2. [put[s] EXCEPT !.at = a].at # "free"
    BY <2>1 DEF C!Puts
  <2> QED BY <2>1, <2>2 DEF C!Puts, C!NoPut
<1>5. /\ put' \in [ScreenSlots -> C!Puts] /\ put'[s].by = put[s].by /\ put'[s].view = put[s].view
      /\ put'[s].heard = put[s].heard /\ put'[s].direct = put[s].direct
      /\ put'[s].at = a /\ put'[s] # C!NoPut
      /\ \A t \in ScreenSlots \ {s} : put'[t] = put[t]
  BY <1>1, <1>3, <1>4 DEF C!Puts
<1>6. storedScreen' \in C!Views
  BY <1>1, <1>3 DEF WInv, Steered
<1>7. Steered'
  BY <1>2, <1>5, <1>6 DEF WInv, Steered
<1> SUFFICES ASSUME ~ crossedScreen' PROVE Word'
  BY <1>7 DEF WInv, Word
<1>8. C!Busy' = C!Busy /\ s \in C!Busy
  BY <1>1, <1>5 DEF C!Busy
<1>9. \A t \in C!Busy : t = s
  BY <1>2, <1>8 DEF WInv, Word
<1>10. \A t \in ScreenSlots : C!Flushes(t)' <=> C!Flushes(t)
  BY <1>5 DEF C!Flushes
<1>11. \A t \in C!Busy' : put'[t].at \in {"kept", "ok"} => storedScreen' = put'[t].view
  BY <1>2, <1>3, <1>5, <1>8, <1>9 DEF WInv, Word
<1>12. \A t \in C!Busy' : NoQueue' => want' = put'[t].view
  BY <1>2, <1>5, <1>8, <1>9 DEF WInv, Word, NoQueue
<1>13. \A m \in C!Mounts : ctl'[m].queued # NoData =>
          /\ want' = ctl'[m].queued
          /\ \E t \in C!Busy' : put'[t].by = m /\ C!Flushes(t)'
  BY <1>2, <1>5, <1>8, <1>9, <1>10 DEF WInv, Word
<1> QED BY <1>8, <1>9, <1>11, <1>12, <1>13 DEF Word

(* The answer of the only update: what waits is sent in its place.             *)
LEMMA SettleKeeps ==
    ASSUME WInv, NEW s \in ScreenSlots, C!Settle(s)
    PROVE  WInv'
<1> DEFINE m == put[s].by
           next == ctl[m].queued
           ok == put[s].at = "ok"
<1>1. /\ put \in [ScreenSlots -> C!Puts] /\ ctl \in [C!Mounts -> C!Ctls] /\ C!NoPut \in C!Puts
      /\ put[s].at \in {"ok", "failed"}
  BY DEF WInv, Steered, C!Puts, C!Settle
<1>2. put[s] # C!NoPut /\ s \in C!Busy /\ m \in C!Mounts /\ put[s].view \in C!Views
  BY <1>1 DEF C!Puts, C!NoPut, C!Busy
<1>3. ctl[m] \in C!Ctls /\ next \in C!Views \cup {NoData}
  BY <1>1, <1>2 DEF C!Ctls
<1>4. /\ storedScreen' = storedScreen /\ want' = want
      /\ page' \in C!Mounts /\ selected' \in C!Items /\ timer' \in C!Items \cup {none}
  BY DEF C!Settle, C!server, C!bench, WInv, Steered
<1>5. ~ crossedScreen => /\ \A t \in C!Busy : t = s
                         /\ \A n \in C!Mounts : ctl[n].queued # NoData =>
                               n = m /\ want = next /\ C!Flushes(s)
                         /\ ok => storedScreen = put[s].view
                         /\ NoQueue => want = put[s].view
  BY <1>2 DEF WInv, Word
<1>6. CASE C!Flushes(s) /\ next # NoData
  <2>1. /\ ctl' = [ctl EXCEPT ![m].queued = NoData, ![m].last = next]
        /\ put' = [put EXCEPT ![s] = [by |-> m, view |-> next, at |-> "sent",
                                      direct |-> FALSE, heard |-> TRUE]]
        /\ crossedScreen' = (crossedScreen \/ C!Busy # {s})
    BY <1>6 DEF C!Settle
  <2>2. next \in C!Views
    BY <1>3, <1>6
  <2>3. [by |-> m, view |-> next, at |-> "sent", direct |-> FALSE, heard |-> TRUE] \in C!Puts
    BY <1>2, <2>2, NewPut
  <2>4. /\ put' \in [ScreenSlots -> C!Puts] /\ put'[s].by = m /\ put'[s].view = next
        /\ put'[s].at = "sent" /\ \A t \in ScreenSlots \ {s} : put'[t] = put[t]
    BY <1>1, <2>1, <2>3
  <2>5. [ctl[m] EXCEPT !.queued = NoData, !.last = next] \in C!Ctls
    BY <1>3 DEF C!Ctls
  <2>6. /\ ctl' \in [C!Mounts -> C!Ctls] /\ ctl'[m].queued = NoData
        /\ \A n \in C!Mounts \ {m} : ctl'[n] = ctl[n]
    BY <1>1, <1>2, <1>3, <2>1, <2>5 DEF C!Ctls
  <2>7. ~ crossedScreen' => ~ crossedScreen /\ C!Busy = {s}
    BY <2>1
  <2>8. ~ crossedScreen' => /\ \A t \in ScreenSlots \ {s} : put'[t] = C!NoPut
                            /\ \A n \in C!Mounts : ctl'[n].queued = NoData
    BY <1>5, <2>4, <2>6, <2>7, NothingIsNoView DEF C!Busy
  <2>9. CASE crossedScreen'
    <3>1. Steered'
      BY <1>4, <2>4, <2>6 DEF WInv, Steered
    <3> QED BY <2>9, <3>1 DEF WInv, Word
  <2>10. CASE ~ crossedScreen'
    <3>1. want = next
      BY <1>2, <1>5, <1>6, <2>7, <2>10, NothingIsNoView
    <3>2. want' = next
      BY <1>4, <3>1
    <3> QED BY <1>2, <1>4, <2>2, <2>4, <2>6, <2>8, <3>2, WordSent
  <2> QED BY <2>9, <2>10
<1>7. CASE ~ (C!Flushes(s) /\ next # NoData)
  <2>1. /\ ctl' = IF ok /\ put[s].heard /\ put[s].direct
                  THEN [ctl EXCEPT ![m].last = put[s].view] ELSE ctl
        /\ put' = [put EXCEPT ![s] = C!NoPut]
        /\ crossedScreen' = (crossedScreen \/ (~ ok /\ next = NoData))
    BY <1>7 DEF C!Settle
  <2>2. [ctl[m] EXCEPT !.last = put[s].view] \in C!Ctls
    BY <1>2, <1>3 DEF C!Ctls
  <2>3. /\ ctl' \in [C!Mounts -> C!Ctls]
        /\ \A n \in C!Mounts : ctl'[n].queued = ctl[n].queued
    BY <1>1, <1>2, <1>3, <2>1, <2>2 DEF C!Ctls
  <2>4. put' \in [ScreenSlots -> C!Puts] /\ put'[s] = C!NoPut /\ \A t \in ScreenSlots \ {s} : put'[t] = put[t]
    BY <1>1, <2>1
  <2>5. Steered'
    BY <1>4, <2>3, <2>4 DEF WInv, Steered
  <2>6. ASSUME ~ crossedScreen' PROVE Word'
    <3>1. ~ crossedScreen /\ (ok \/ next # NoData)
      BY <2>1, <2>6
    <3>2. \A n \in C!Mounts : ctl[n].queued = NoData
      BY <1>5, <1>7, <3>1, NothingIsNoView
    <3>3. ok /\ storedScreen = want
      BY <1>2, <1>5, <3>1, <3>2, NothingIsNoView DEF NoQueue
    <3>4. C!Busy' = {}
      BY <1>5, <2>4, <3>1 DEF C!Busy
    <3> QED BY <1>4, <2>3, <3>2, <3>3, <3>4 DEF Word
  <2> QED BY <2>5, <2>6 DEF WInv, Word
<1> QED BY <1>6, <1>7

LEMMA OverrideKeeps ==
    ASSUME WInv, NEW m \in C!Mounts, C!OverrideExpires(m)
    PROVE  WInv'
<1>1. ctl \in [C!Mounts -> C!Ctls] /\ ctl' = [ctl EXCEPT ![m].manual = FALSE]
  BY DEF WInv, Steered, C!OverrideExpires
<1>2. [ctl[m] EXCEPT !.manual = FALSE] \in C!Ctls
  BY <1>1 DEF C!Ctls
<1>3. ctl' \in [C!Mounts -> C!Ctls] /\ \A n \in C!Mounts : ctl'[n].queued = ctl[n].queued
  BY <1>1, <1>2 DEF C!Ctls
<1>4. /\ UNCHANGED <<storedScreen, put, want>> /\ (~ crossedScreen' => ~ crossedScreen)
      /\ page' \in C!Mounts /\ selected' \in C!Items /\ timer' \in C!Items \cup {none}
  BY DEF C!OverrideExpires, C!hostRest, C!server, C!bench, WInv, Steered
<1> QED BY <1>3, <1>4, WordQuiet

(* The caches, the screen and its socket do not touch any of it.               *)
LEMMA CachesKeep ==
    ASSUME WInv,
           \/ C!HostPolls \/ C!HostAsked \/ C!HostStores \/ C!ScreenRefetches \/ C!ScreenAsked
           \/ C!ScreenStores \/ C!ReceiveDirect \/ C!ReceiveRelayed \/ C!Connect \/ C!Lose
           \/ UNCHANGED C!vars
    PROVE  WInv'
<1>1. UNCHANGED <<storedScreen, put, ctl, want, crossedScreen, page, selected, timer>>
  BY DEF C!HostPolls, C!HostAsked, C!HostStores, C!ScreenRefetches, C!ScreenAsked,
         C!ScreenStores,
         C!ReceiveDirect, C!ReceiveRelayed, C!Handle, C!Connect, C!Lose, C!queryRest,
         C!server, C!bench,
         C!screen, C!vars
<1>2. C!Quiet /\ storedScreen' = storedScreen /\ page' \in C!Mounts /\ selected' \in C!Items
      /\ timer' \in C!Items \cup {none}
  BY <1>1 DEF C!Quiet, WInv, Steered
<1> QED BY <1>2, QuietKeeps

(* A step of the screen, its hook or the server.                                *)
LEMMA WordNext == WInv /\ [C!Next]_C!vars => WInv'
<1> SUFFICES ASSUME WInv, [C!Next]_C!vars PROVE WInv'
  OBVIOUS
<1>1. CASE C!ShowTest \/ C!PressStandby \/ C!ShowOverview \/ C!QaOpened \/ C!QaClosed
  BY <1>1, ButtonsKeep
<1>2. CASE C!ShowQa
  BY <1>2, ShowQaKeeps
<1>3. CASE \/ C!ToggleFollow \/ C!Leave \/ C!Return \/ C!ActionBegins \/ C!ActionEnds
           \/ C!SyncWorkbench \/ C!PressQuiz \/ \E i \in C!Items : C!Select(i)
  BY <1>3, WorkbenchKeeps
<1>4. CASE \E m \in C!Mounts : C!OverrideExpires(m)
  BY <1>4, OverrideKeeps
<1>5. CASE \E s \in ScreenSlots : C!Persist(s) \/ C!Announce(s) \/ C!Fail(s)
  BY <1>5, ServerKeeps
<1>6. CASE \E s \in ScreenSlots : C!Settle(s)
  BY <1>6, SettleKeeps
<1>7. CASE \/ C!HostPolls \/ C!HostAsked \/ C!HostStores \/ C!ScreenRefetches \/ C!ScreenAsked
           \/ C!ScreenStores \/ C!ReceiveDirect \/ C!ReceiveRelayed \/ C!Connect \/ C!Lose
           \/ UNCHANGED C!vars
  BY <1>7, CachesKeep
<1> QED BY <1>1, <1>2, <1>3, <1>4, <1>5, <1>6, <1>7 DEF C!Next

-----------------------------------------------------------------------------
(* What the screen shows.                                                      *)
(* The page and the workbench: the timer is for what is selected, on a workbench    *)
(* in sight; what is cached is a view.                                             *)
BenchShape ==
    /\ page \in {"workbench", "moderation"} /\ follow \in [page : BOOLEAN, quiz : BOOLEAN]
    /\ timer \in {none, selected} /\ synced \in C!Items \cup {none} /\ paused \in BOOLEAN
    /\ timer # none => page = "workbench" /\ ~ paused
    /\ paused => page = "workbench"
CacheShape ==
    /\ hostQ \in C!Queries(C!Views) /\ screenQ \in C!Queries(C!Views) /\ connected \in BOOLEAN
    /\ crossedScreen \in BOOLEAN /\ blind \in BOOLEAN
    /\ direct \in Seq(C!Views) /\ relay \in Seq(C!Views) /\ Len(direct) <= Len(relay)
OneHeard ==
    \A s, t \in ScreenSlots : /\ put[s].heard /\ put[t].heard /\ put[s].by = put[t].by => s = t

(* What is stored and not announced yet is in an update; otherwise, unless missed,  *)
(* the last announcement that is on its way has it, or the screen.                  *)
Unsaid == \E s \in ScreenSlots : put[s].at = "kept" /\ put[s].view = storedScreen
Said   == IF relay # <<>> THEN relay[Len(relay)] = storedScreen
          ELSE /\ C!Idle(screenQ) /\ C!Loaded(screenQ) => screenQ.data = storedScreen
               /\ screenQ.fetch = "answered" => screenQ.reply = storedScreen
Following == blind \/ Unsaid \/ Said

ScreenInv == BenchShape /\ CacheShape /\ OneHeard /\ Following

(* What the host says adds an update, and ends none.                                *)
KeptStay == \A s \in ScreenSlots : put[s].at = "kept" => put'[s].at = "kept" /\ put'[s].view = put[s].view
Talks    == OneHeard' /\ KeptStay /\ crossedScreen' \in BOOLEAN

-----------------------------------------------------------------------------
LEMMA PutIs ==
    ASSUME Steered, NEW s \in ScreenSlots
    PROVE  /\ put[s] = C!NoPut \/ (put[s].by \in C!Mounts /\ put[s] # C!NoPut)
           /\ C!NoPut.by \notin C!Mounts /\ C!NoPut.heard = FALSE /\ C!NoPut.at = "free"
<1>1. C!NoPut.by \notin C!Mounts /\ C!NoPut.heard = FALSE /\ C!NoPut.at = "free"
  BY DEF C!NoPut, C!Mounts
<1> QED BY <1>1 DEF Steered, C!Puts

LEMMA UnheardIs ==
    ASSUME Steered, NEW s \in ScreenSlots, NEW x, x = [put[s] EXCEPT !.heard = FALSE]
    PROVE  x.heard = FALSE /\ x.by = put[s].by /\ x.at = put[s].at /\ x.view = put[s].view
BY DEF Steered, C!Puts, C!NoPut

LEMMA QuietTalks == ASSUME Steered, OneHeard, crossedScreen \in BOOLEAN, C!Quiet PROVE Talks
<1>1. put' = put /\ crossedScreen' = crossedScreen
  BY DEF C!Quiet
<1>2. OneHeard'
  BY <1>1 DEF OneHeard
<1>3. KeptStay
  BY <1>1 DEF KeptStay
<1> QED BY <1>1, <1>2, <1>3 DEF Talks

LEMMA MutateTalks ==
    ASSUME Steered, OneHeard, NEW m \in C!Mounts, NEW v \in C!Views, NEW d \in BOOLEAN, C!Mutate(m, v, d)
    PROVE  OneHeard' /\ KeptStay
<1>1. PICK s \in ScreenSlots \ C!Busy :
        put' = [t \in ScreenSlots |->
                  IF t = s THEN [by |-> m, view |-> v, at |-> "sent",
                                 direct |-> d, heard |-> TRUE]
                  ELSE IF t \in C!Mine(m) THEN [put[t] EXCEPT !.heard = FALSE]
                  ELSE put[t]]
  BY DEF C!Mutate
<1>2. put[s] = C!NoPut
  BY DEF C!Busy
<1>3. put'[s].by = m
  BY <1>1
<1>4. ASSUME NEW t \in ScreenSlots, t # s
      PROVE  /\ put'[t].by = put[t].by /\ put'[t].at = put[t].at /\ put'[t].view = put[t].view
             /\ put'[t].heard => put[t].heard /\ put[t].by # m
  <2>1. CASE t \in C!Mine(m)
    <3>1. put'[t] = [put[t] EXCEPT !.heard = FALSE]
      BY <1>1, <1>4, <2>1
    <3> QED BY <3>1, UnheardIs
  <2>2. CASE t \notin C!Mine(m)
    <3>1. put'[t] = put[t]
      BY <1>1, <1>4, <2>2
    <3>2. put[t].by # m \/ put[t] = C!NoPut
      BY <2>2 DEF C!Mine, C!Busy
    <3> QED BY <3>1, <3>2, PutIs
  <2> QED BY <2>1, <2>2
<1>5. OneHeard'
  BY <1>3, <1>4 DEF OneHeard
<1>6. KeptStay
  BY <1>2, <1>4, PutIs DEF KeptStay
<1> QED BY <1>5, <1>6

LEMMA SayTalks ==
    ASSUME Steered, OneHeard, crossedScreen \in BOOLEAN, NEW m \in C!Mounts, NEW k, NEW v \in C!Views,
           NEW forced \in BOOLEAN, C!Say(m, k, v, forced)
    PROVE  Talks
<1>1. crossedScreen' \in BOOLEAN
  BY DEF C!Say
<1>2. put' = put \/ C!Mutate(m, v, FALSE)
  BY DEF C!Say
<1>3. CASE put' = put
  BY <1>1, <1>3 DEF Talks, OneHeard, KeptStay
<1>4. CASE C!Mutate(m, v, FALSE)
  BY <1>1, <1>4, MutateTalks DEF Talks
<1> QED BY <1>2, <1>3, <1>4

LEMMA PushTalks ==
    ASSUME Steered, OneHeard, crossedScreen \in BOOLEAN, NEW m \in C!Mounts, NEW v \in C!Views, C!Push(m, v)
    PROVE  Talks
BY QuietTalks, SayTalks DEF C!Push

LEMMA ShowTalks ==
    ASSUME Steered, OneHeard, crossedScreen \in BOOLEAN, NEW m \in C!Mounts, NEW v \in C!Views, C!ShowAtOnce(m, v)
    PROVE  Talks
<1>1. crossedScreen' \in BOOLEAN
  BY DEF C!ShowAtOnce
<1>2. C!Mutate(m, v, TRUE)
  BY DEF C!ShowAtOnce
<1> QED BY <1>1, <1>2, MutateTalks DEF Talks

LEMMA UnmountTalks ==
    ASSUME Steered, OneHeard, crossedScreen \in BOOLEAN, NEW ms, C!Unmounted(ms)
    PROVE  Talks
<1>1. crossedScreen' \in BOOLEAN
  BY DEF C!Unmounted
<1>2. ASSUME NEW s \in ScreenSlots
      PROVE  /\ put'[s].by = put[s].by /\ put'[s].at = put[s].at /\ put'[s].view = put[s].view
             /\ put'[s].heard => put[s].heard
  <2>1. put'[s] = put[s] \/ put'[s] = [put[s] EXCEPT !.heard = FALSE]
    BY <1>2 DEF C!Unmounted
  <2> QED BY <2>1, UnheardIs
<1>3. OneHeard'
  BY <1>2 DEF OneHeard
<1>4. KeptStay
  BY <1>2 DEF KeptStay
<1> QED BY <1>1, <1>3, <1>4 DEF Talks

(* A step of the host's that leaves the server, the caches and the screen alone.     *)
LEMMA HostStep ==
    ASSUME ScreenInv, Talks, UNCHANGED <<storedScreen, direct, relay, hostQ, screenQ, connected, blind>>,
           BenchShape'
    PROVE  ScreenInv'
<1>1. CacheShape'
  BY DEF ScreenInv, CacheShape, Talks
<1>2. OneHeard'
  BY DEF Talks
<1>3. Said' <=> Said
  BY DEF Said
<1>4. Unsaid => Unsaid'
  BY DEF Unsaid, Talks, KeptStay
<1>5. Following'
  BY <1>3, <1>4 DEF ScreenInv, Following
<1> QED BY <1>1, <1>2, <1>5 DEF ScreenInv

LEMMA TimerIs ==
    ASSUME NEW i, NEW done, NEW f, NEW m PROVE C!TimerFor(i, done, f, m) \in {none, i}
BY DEF C!TimerFor

LEMMA PanelKeeps ==
    ASSUME Steered, ScreenInv, C!ShowTest \/ C!PressStandby \/ C!ShowOverview \/ C!QaOpened \/ C!QaClosed
    PROVE  ScreenInv'
<1>1. OneHeard /\ crossedScreen \in BOOLEAN /\ BenchShape /\ page \in C!Mounts
  BY DEF ScreenInv, CacheShape, Steered
<1>2. \A k \in C!PlainKinds : C!Plain(k) \in C!Views
  BY ViewTypes
<1>3. C!Plain("test") \in C!Views /\ C!Plain("overview") \in C!Views /\ C!Plain("qa") \in C!Views
      /\ C!Plain("standby") \in C!Views
  BY <1>2 DEF C!PlainKinds
<1>4. Talks
  <2>1. CASE C!ShowTest
    BY <1>1, <1>3, <2>1, ShowTalks DEF C!ShowTest
  <2>2. CASE C!PressStandby
    BY <1>1, <1>3, <2>2, ShowTalks, PushTalks DEF C!PressStandby
  <2>3. CASE C!ShowOverview
    BY <1>1, <1>3, <2>3, PushTalks DEF C!ShowOverview
  <2>4. CASE C!QaOpened
    BY <1>1, <1>3, <2>4, SayTalks DEF C!QaOpened
  <2>5. CASE C!QaClosed
    BY <1>1, <1>3, <2>5, ShowTalks DEF C!QaClosed
  <2> QED BY <2>1, <2>2, <2>3, <2>4, <2>5
<1>5. UNCHANGED <<storedScreen, direct, relay, hostQ, screenQ, connected, blind>>
      /\ UNCHANGED <<page, follow, selected, timer, synced, paused>>
  BY DEF C!ShowTest, C!PressStandby, C!ShowOverview, C!QaOpened, C!QaClosed, C!PressPanel,
         C!Press, C!hostRest,
     C!server, C!screen, C!bench
<1>6. BenchShape'
  BY <1>1, <1>5 DEF BenchShape
<1> QED BY <1>4, <1>5, <1>6, HostStep

LEMMA QaTurnKeeps == ASSUME Steered, ScreenInv, C!ShowQa PROVE ScreenInv'
<1>1. OneHeard /\ crossedScreen \in BOOLEAN /\ BenchShape /\ page \in C!Mounts
  BY DEF ScreenInv, CacheShape, Steered
<1>2. UNCHANGED <<storedScreen, direct, relay, hostQ, screenQ, connected, blind>>
  BY DEF C!ShowQa, C!Press, C!hostRest, C!server, C!screen
<1>3. CASE page = "moderation"
  <2>1. C!Plain("qa") \in C!Views
    BY ViewTypes DEF C!PlainKinds
  <2>2. C!Say(page, C!Overriding(page), C!Plain("qa"), TRUE) /\ UNCHANGED C!bench
    BY <1>3 DEF C!ShowQa
  <2>3. BenchShape'
    BY <1>1, <2>2 DEF BenchShape, C!bench
  <2> QED BY <1>1, <1>2, <2>1, <2>2, <2>3, SayTalks, HostStep
<1>4. CASE page # "moderation"
  <2>1. /\ ~ paused /\ page' = "moderation" /\ timer' = none /\ synced' = none
        /\ UNCHANGED <<follow, selected, paused>>
    BY <1>4 DEF C!ShowQa
  <2>2. BenchShape'
    BY <1>1, <2>1 DEF BenchShape
  <2>3. crossedScreen' \in BOOLEAN
    BY <1>4 DEF C!ShowQa
  <2>4. PICK s \in ScreenSlots \ C!Busy :
          put' = [t \in ScreenSlots |->
                    IF t = s THEN [by |-> "workbench", view |-> C!Plain("qa"),
                                   at |-> "sent", direct |-> FALSE, heard |-> FALSE]
                    ELSE [put[t] EXCEPT !.heard = FALSE]]
    BY <1>4 DEF C!ShowQa
  <2>5. put[s] = C!NoPut /\ ~ put'[s].heard
    BY <2>4 DEF C!Busy
  <2>6. ASSUME NEW t \in ScreenSlots, t # s
        PROVE  ~ put'[t].heard /\ put'[t].at = put[t].at /\ put'[t].view = put[t].view
    <3>1. put'[t] = [put[t] EXCEPT !.heard = FALSE]
      BY <2>4, <2>6
    <3> QED BY <3>1, UnheardIs
  <2>7. OneHeard' /\ KeptStay
    BY <2>5, <2>6, PutIs DEF OneHeard, KeptStay
  <2> QED BY <1>2, <2>2, <2>3, <2>7, HostStep DEF Talks
<1> QED BY <1>3, <1>4

LEMMA BenchKeeps ==
    ASSUME Steered, ScreenInv,
           \/ C!ToggleFollow \/ C!Leave \/ C!Return \/ C!ActionBegins \/ C!ActionEnds
           \/ C!SyncWorkbench \/ C!PressQuiz \/ \E i \in C!Items : C!Select(i)
    PROVE  ScreenInv'
<1>1. OneHeard /\ crossedScreen \in BOOLEAN /\ BenchShape /\ page \in C!Mounts /\ selected \in C!Items
      /\ follow \in [page : BOOLEAN, quiz : BOOLEAN]
  BY DEF ScreenInv, CacheShape, BenchShape, Steered
<1>2. follow.page \in BOOLEAN /\ follow.quiz \in BOOLEAN /\ (~ follow.page) \in BOOLEAN
  BY <1>1
<1>3. UNCHANGED <<storedScreen, direct, relay, hostQ, screenQ, connected, blind>>
  BY DEF C!ToggleFollow, C!Leave, C!Return, C!ActionBegins, C!ActionEnds, C!SyncWorkbench,
         C!PressQuiz, C!Select,
     C!Press, C!Work, C!hostRest, C!server, C!screen
<1>4. ASSUME Talks, BenchShape' PROVE ScreenInv'
  BY <1>3, <1>4, HostStep
<1>5. CASE C!ToggleFollow
  <2>1. /\ timer' = IF paused \/ page # "workbench" THEN none
                    ELSE C!TimerFor(selected, synced, ~ follow.page, ctl["workbench"].manual)
        /\ UNCHANGED <<page, selected, synced, paused>> /\ C!Quiet
    BY <1>5 DEF C!ToggleFollow
  <2>2. follow' \in [page : BOOLEAN, quiz : BOOLEAN]
    BY <1>2, <1>5 DEF C!ToggleFollow
  <2>3. BenchShape'
    BY <1>1, <2>1, <2>2, TimerIs DEF BenchShape
  <2> QED BY <1>1, <1>4, <2>1, <2>3, QuietTalks
<1>6. CASE C!Leave
  <2>1. /\ ~ paused /\ page' = "moderation" /\ timer' = none /\ synced' = none
        /\ UNCHANGED <<follow, selected, paused>> /\ C!Unmounted({"workbench", "quiz"})
    BY <1>6 DEF C!Leave
  <2>2. BenchShape'
    BY <1>1, <2>1 DEF BenchShape
  <2> QED BY <1>1, <1>4, <2>1, <2>2, UnmountTalks
<1>7. CASE C!Return
  <2>1. /\ page = "moderation" /\ page' = "workbench"
        /\ timer' = C!TimerFor(selected, none, follow.page, FALSE)
        /\ UNCHANGED <<selected, synced, paused>> /\ C!Unmounted({"moderation"})
    BY <1>7 DEF C!Return
  <2>2. follow' = [follow EXCEPT !.quiz = follow.page]
    BY <1>7 DEF C!Return
  <2>3. follow' \in [page : BOOLEAN, quiz : BOOLEAN]
    BY <1>1, <1>2, <2>2
  <2>4. BenchShape'
    BY <1>1, <2>1, <2>3, TimerIs DEF BenchShape
  <2> QED BY <1>1, <1>4, <2>1, <2>4, UnmountTalks
<1>8. CASE C!ActionBegins
  <2>1. /\ page = "workbench" /\ paused' = TRUE /\ timer' = none
        /\ UNCHANGED <<page, follow, selected, synced>> /\ C!Quiet
    BY <1>8 DEF C!ActionBegins, C!Work
  <2>2. paused' \in BOOLEAN
    BY <2>1
  <2>3. BenchShape'
    BY <1>1, <2>1, <2>2 DEF BenchShape
  <2> QED BY <1>1, <1>4, <2>1, <2>3, QuietTalks
<1>9. CASE C!ActionEnds
  <2>1. /\ paused /\ paused' = FALSE
        /\ timer' = C!TimerFor(selected, synced, follow.page, ctl["workbench"].manual)
        /\ UNCHANGED <<page, follow, selected, synced>>
    BY <1>9 DEF C!ActionEnds
  <2>2. BenchShape'
    BY <1>1, <2>1, TimerIs DEF BenchShape
  <2>3. "workbench" \in C!Mounts /\ \A p \in ScreenPolls : C!Question(p) \in C!Views /\ C!Results(p) \in C!Views
    BY ViewTypes DEF C!Mounts, C!Items
  <2>4. CASE C!Quiet
    BY <1>1, <1>4, <2>2, <2>4, QuietTalks
  <2>5. ASSUME NEW p \in ScreenPolls, NEW v \in {C!Question(p), C!Results(p)}, C!Push("workbench", v)
        PROVE  ScreenInv'
    <3>1. v \in C!Views
      BY <2>3
    <3> QED BY <1>1, <1>4, <2>2, <2>3, <2>5, <3>1, PushTalks
  <2> QED BY <1>9, <2>4, <2>5 DEF C!ActionEnds
<1>10. CASE C!SyncWorkbench
  <2>1. timer # none /\ timer' = none /\ UNCHANGED <<page, follow, selected, paused>>
        /\ timer = selected /\ synced' \in {synced, timer}
        /\ (C!Quiet \/ C!Push("workbench", C!Question(timer)))
    BY <1>1, <1>10 DEF C!SyncWorkbench, BenchShape
  <2>2. BenchShape'
    BY <1>1, <2>1 DEF BenchShape
  <2>3. "workbench" \in C!Mounts /\ C!Question(timer) \in C!Views
    BY <1>1, <2>1, ViewTypes DEF C!Mounts
  <2> QED BY <1>1, <1>4, <2>1, <2>2, <2>3, QuietTalks, PushTalks
<1>11. CASE C!PressQuiz
  <2>1. UNCHANGED <<page, follow, selected, timer, synced, paused>> /\ selected \in ScreenQuizzes
    BY <1>11 DEF C!PressQuiz, C!bench
  <2>2. BenchShape'
    BY <1>1, <2>1 DEF BenchShape
  <2>3. \A q, b : C!QuizView(selected, q, b) \in C!Views
    <3>1. C!Plain("standby") \in C!Views
      BY ViewTypes DEF C!PlainKinds
    <3> QED BY <1>1, <2>1, <3>1, ViewTypes DEF C!QuizView
  <2>4. "quiz" \in C!Mounts /\ \E v \in C!Views : C!Push("quiz", v)
    BY <1>11, <2>3 DEF C!PressQuiz, C!Mounts
  <2> QED BY <1>1, <1>4, <2>2, <2>4, PushTalks
<1>12. CASE \E i \in C!Items : C!Select(i)
  <2>1. PICK i \in C!Items : C!Select(i)
    BY <1>12
  <2>2. /\ selected' = i /\ UNCHANGED <<page, synced, paused>> /\ C!Unmounted({"quiz"})
        /\ timer' = IF paused THEN none
                    ELSE C!TimerFor(i, synced, follow.page, ctl["workbench"].manual)
        /\ page = "workbench"
    BY <2>1 DEF C!Select, C!Work
  <2>3. follow' = [follow EXCEPT !.quiz = follow.page]
    BY <2>1 DEF C!Select
  <2>4. follow' \in [page : BOOLEAN, quiz : BOOLEAN]
    BY <1>1, <1>2, <2>3
  <2>5. BenchShape'
    BY <1>1, <2>2, <2>4, TimerIs DEF BenchShape
  <2> QED BY <1>1, <1>4, <2>2, <2>5, UnmountTalks
<1> QED BY <1>5, <1>6, <1>7, <1>8, <1>9, <1>10, <1>11, <1>12

-----------------------------------------------------------------------------
LEMMA ScreenInit == C!Init => ScreenInv
<1> SUFFICES ASSUME C!Init PROVE ScreenInv
  OBVIOUS
<1>1. \E f \in BOOLEAN : follow = [page |-> f, quiz |-> f]
  BY DEF C!Init
<1>2. BenchShape
  <2>1. follow \in [page : BOOLEAN, quiz : BOOLEAN]
    BY <1>1
  <2>2. paused \in BOOLEAN
    BY DEF C!Init
  <2>3. timer \in {none, selected} /\ page = "workbench" /\ ~ paused /\ synced = none
    BY DEF C!Init
  <2> QED BY <2>1, <2>2, <2>3 DEF BenchShape
<1>3. C!Plain("standby") \in C!Views
  BY ViewTypes DEF C!PlainKinds
<1>4. C!Unused \in C!Queries(C!Views) /\ C!Loading \in C!Queries(C!Views) /\ C!Written(C!Unused, storedScreen) \in C!Queries(C!Views)
  BY <1>3 DEF C!Init, C!Queries, C!Fetches, C!Unused, C!Loading, C!Written
<1>5. screenQ \in {C!Unused, C!Loading} /\ hostQ \in C!Queries(C!Views)
  BY <1>4 DEF C!Init
<1>6. connected \in BOOLEAN /\ crossedScreen \in BOOLEAN /\ blind \in BOOLEAN
  BY DEF C!Init
<1>7. direct = <<>> /\ relay = <<>>
  BY DEF C!Init
<1>8. CacheShape
  BY <1>4, <1>5, <1>6, <1>7 DEF CacheShape
<1>9. OneHeard
  BY DEF C!Init, OneHeard, C!NoPut
<1>10. ~ C!Loaded(screenQ) /\ screenQ.fetch # "answered"
  BY <1>5 DEF C!Loaded, C!Unused, C!Loading
<1>11. Following
  BY <1>7, <1>10 DEF Following, Said
<1> QED BY <1>2, <1>8, <1>9, <1>11 DEF ScreenInv

LEMMA ScreenCached ==
    ASSUME NEW q \in C!Queries(C!Views), NEW v \in C!Views
    PROVE  /\ C!Fetched(q) \in C!Queries(C!Views) /\ C!Answered(q, v) \in C!Queries(C!Views)
           /\ C!Stored(q) \in C!Queries(C!Views) /\ C!Written(q, v) \in C!Queries(C!Views)
           /\ C!Answered(q, v).fetch = "answered" /\ C!Answered(q, v).reply = v
           /\ C!Stored(q).fetch = "idle" /\ C!Stored(q).data = q.reply
           /\ C!Written(q, v).data = v /\ C!Written(q, v).fetch = q.fetch
           /\ (C!Idle(q) => C!Fetched(q).fetch = "asked")
BY DEF C!Queries, C!Fetches, C!Fetched, C!Idle, C!Answered, C!Stored, C!Written

(* An update goes on: what is kept is announced, or lost.                           *)
LEMMA PersistKeeps ==
    ASSUME Steered, ScreenInv, NEW s \in ScreenSlots, C!Persist(s)
    PROVE ScreenInv'
<1>1. /\ put[s].at = "sent" /\ storedScreen' = put[s].view /\ put' = [put EXCEPT ![s].at = "kept"]
      /\ UNCHANGED <<direct, relay, hostQ, screenQ, connected, crossedScreen, blind>>
      /\ UNCHANGED <<page, follow, selected, timer, synced, paused>>
  BY DEF C!Persist, C!bench, C!screen
<1>2. put[s] \in C!Puts /\ put[s] # C!NoPut /\ put \in [ScreenSlots -> C!Puts]
  BY <1>1 DEF Steered, C!NoPut
<1>3. /\ put'[s].at = "kept" /\ put'[s].view = put[s].view /\ put'[s].by = put[s].by
      /\ put'[s].heard = put[s].heard /\ \A t \in ScreenSlots \ {s} : put'[t] = put[t]
  BY <1>1, <1>2 DEF C!Puts
<1>4. OneHeard'
  BY <1>3 DEF ScreenInv, OneHeard
<1>5. Unsaid'
  BY <1>1, <1>3 DEF Unsaid
<1>6. BenchShape' /\ CacheShape'
  BY <1>1 DEF ScreenInv, BenchShape, CacheShape
<1> QED BY <1>4, <1>5, <1>6 DEF ScreenInv, Following

LEMMA SequenceGrows ==
    ASSUME NEW q \in Seq(C!Views), NEW v \in C!Views
    PROVE  /\ Append(q, v) \in Seq(C!Views) /\ Len(Append(q, v)) = Len(q) + 1 /\ Len(q) \in Nat
           /\ Append(q, v)[Len(q) + 1] = v
OBVIOUS

LEMMA AnnouncedKeeps ==
    ASSUME Steered, ScreenInv, NEW s \in ScreenSlots, C!Announce(s)
    PROVE ScreenInv'
<1>1. /\ put[s].at = "kept" /\ storedScreen' = storedScreen /\ put' = [put EXCEPT ![s].at = "ok"]
      /\ UNCHANGED <<hostQ, screenQ, connected, crossedScreen>>
      /\ UNCHANGED <<page, follow, selected, timer, synced, paused>>
      /\ blind' = (blind \/ ~ connected \/ storedScreen # put[s].view)
  BY DEF C!Announce, C!bench, C!screen
<1>2. put[s] \in C!Puts /\ put[s] # C!NoPut /\ put \in [ScreenSlots -> C!Puts] /\ put[s].view \in C!Views
  BY <1>1 DEF Steered, C!NoPut, C!Puts
<1>3. /\ put'[s].by = put[s].by /\ put'[s].heard = put[s].heard
      /\ \A t \in ScreenSlots \ {s} : put'[t] = put[t]
  BY <1>1, <1>2 DEF C!Puts
<1>4. OneHeard'
  BY <1>3 DEF ScreenInv, OneHeard
<1>5. direct \in Seq(C!Views) /\ relay \in Seq(C!Views) /\ Len(direct) <= Len(relay)
  BY DEF ScreenInv, CacheShape
<1>6. direct' \in Seq(C!Views) /\ relay' \in Seq(C!Views) /\ Len(direct') <= Len(relay')
  <2>1. CASE connected
    <3>1. direct' = Append(direct, put[s].view) /\ relay' = Append(relay, put[s].view)
      BY <2>1 DEF C!Announce
    <3> QED BY <1>2, <1>5, <3>1, SequenceGrows
  <2>2. CASE ~ connected
    BY <1>5, <2>2 DEF C!Announce
  <2> QED BY <2>1, <2>2
<1>7. blind' \in BOOLEAN
  BY <1>1
<1>8. BenchShape' /\ CacheShape'
  BY <1>1, <1>6, <1>7 DEF ScreenInv, BenchShape, CacheShape
<1>9. ASSUME ~ blind' PROVE Said'
  <2>1. connected /\ storedScreen = put[s].view
    BY <1>1, <1>9
  <2>2. relay' = Append(relay, put[s].view)
    BY <2>1 DEF C!Announce
  <2>3. Len(relay') = Len(relay) + 1 /\ Len(relay) \in Nat /\ relay'[Len(relay')] = put[s].view
    BY <1>2, <1>5, <2>2, SequenceGrows
  <2>4. relay' # <<>>
    BY <2>3
  <2> QED BY <1>1, <2>1, <2>3, <2>4 DEF Said
<1> QED BY <1>4, <1>8, <1>9 DEF ScreenInv, Following

LEMMA FailedKeeps ==
    ASSUME Steered, ScreenInv, NEW s \in ScreenSlots, C!Fail(s)
    PROVE ScreenInv'
<1>1. /\ put[s].at \in {"sent", "kept"} /\ put' = [put EXCEPT ![s].at = "failed"]
      /\ UNCHANGED <<storedScreen, direct, relay, hostQ, screenQ, connected, crossedScreen>>
      /\ UNCHANGED <<page, follow, selected, timer, synced, paused>>
      /\ blind' = (blind \/ put[s].at = "kept")
  BY DEF C!Fail, C!bench, C!screen, C!server
<1>2. put[s] \in C!Puts /\ put[s] # C!NoPut /\ put \in [ScreenSlots -> C!Puts]
  BY <1>1 DEF Steered, C!NoPut
<1>3. /\ put'[s].by = put[s].by /\ put'[s].heard = put[s].heard
      /\ \A t \in ScreenSlots \ {s} : put'[t] = put[t]
  BY <1>1, <1>2 DEF C!Puts
<1>4. OneHeard'
  BY <1>3 DEF ScreenInv, OneHeard
<1>5. blind' \in BOOLEAN
  BY <1>1
<1>6. BenchShape' /\ CacheShape'
  BY <1>1, <1>5 DEF ScreenInv, BenchShape, CacheShape
<1>7. ASSUME ~ blind' PROVE Unsaid' \/ Said'
  <2>1. ~ blind /\ put[s].at # "kept"
    BY <1>1, <1>7
  <2>2. Unsaid => Unsaid'
    BY <1>1, <1>3, <2>1 DEF Unsaid
  <2>3. Said => Said'
    BY <1>1 DEF Said
  <2> QED BY <2>1, <2>2, <2>3 DEF ScreenInv, Following
<1> QED BY <1>4, <1>6, <1>7 DEF ScreenInv, Following

LEMMA SettledKeeps ==
    ASSUME Steered, ScreenInv, NEW s \in ScreenSlots, C!Settle(s)
    PROVE ScreenInv'
<1> DEFINE m == put[s].by
           next == ctl[m].queued
           ok == put[s].at = "ok"
<1>1. /\ put[s].at \in {"ok", "failed"} /\ put[s] \in C!Puts /\ put[s] # C!NoPut
      /\ UNCHANGED <<storedScreen, direct, relay, screenQ, connected, blind>>
      /\ UNCHANGED <<page, follow, selected, timer, synced, paused>>
      /\ hostQ' = IF ok THEN C!Written(hostQ, put[s].view) ELSE hostQ
      /\ put \in [ScreenSlots -> C!Puts]
  BY DEF C!Settle, C!bench, C!screen, C!server, Steered, C!NoPut
<1>2. /\ crossedScreen' = (crossedScreen \/ C!Busy # {s}) \/ crossedScreen' = (crossedScreen \/ (~ ok /\ next = NoData))
  BY DEF C!Settle
<1>3. crossedScreen' \in BOOLEAN
  <2>1. crossedScreen \in BOOLEAN
    BY DEF ScreenInv, CacheShape
  <2> QED BY <1>2, <2>1
<1>4. hostQ' \in C!Queries(C!Views)
  <2>1. hostQ \in C!Queries(C!Views) /\ put[s].view \in C!Views
    BY <1>1 DEF ScreenInv, CacheShape, C!Puts
  <2> QED BY <1>1, <2>1, ScreenCached
<1>5. BenchShape' /\ CacheShape'
  BY <1>1, <1>3, <1>4 DEF ScreenInv, BenchShape, CacheShape
<1>6. PICK x : /\ put' = [put EXCEPT ![s] = x]
               /\ \/ x = C!NoPut
                  \/ put[s].heard /\ x = [by |-> m, view |-> next, at |-> "sent",
                                          direct |-> FALSE, heard |-> TRUE]
  BY DEF C!Settle, C!Flushes
<1>7. put'[s] = x /\ (x.heard => put[s].heard /\ x.by = m) /\ \A t \in ScreenSlots \ {s} : put'[t] = put[t]
  BY <1>1, <1>6 DEF C!NoPut
<1>8. OneHeard'
  BY <1>7 DEF ScreenInv, OneHeard
<1>9. Unsaid => Unsaid'
  BY <1>1, <1>7 DEF Unsaid
<1>10. Said => Said'
  BY <1>1 DEF Said
<1> QED BY <1>1, <1>5, <1>8, <1>9, <1>10 DEF ScreenInv, Following

(* The caches, announcements and the socket.                                        *)
LEMMA OverriddenKeeps ==
    ASSUME Steered, ScreenInv, NEW m \in C!Mounts, C!OverrideExpires(m) PROVE ScreenInv'
<1>1. UNCHANGED <<storedScreen, direct, relay, hostQ, screenQ, connected, blind, put, crossedScreen>>
      /\ UNCHANGED <<page, follow, selected, timer, synced, paused>>
  BY DEF C!OverrideExpires, C!hostRest, C!server, C!screen, C!bench
<1>2. BenchShape'
  BY <1>1 DEF ScreenInv, BenchShape
<1>3. Talks
  BY <1>1 DEF ScreenInv, CacheShape, OneHeard, Talks, KeptStay
<1> QED BY <1>1, <1>2, <1>3, HostStep

LEMMA HostCacheKeeps ==
    ASSUME Steered, ScreenInv, C!HostPolls \/ C!HostAsked \/ C!HostStores PROVE ScreenInv'
<1>1. UNCHANGED <<storedScreen, direct, relay, screenQ, connected, blind, put, crossedScreen>>
      /\ UNCHANGED <<page, follow, selected, timer, synced, paused>>
  BY DEF C!HostPolls, C!HostAsked, C!HostStores, C!queryRest, C!server, C!screen, C!bench
<1>2. hostQ \in C!Queries(C!Views) /\ storedScreen \in C!Views
  BY DEF ScreenInv, CacheShape, Steered
<1>3. hostQ' \in C!Queries(C!Views)
  BY <1>2, ScreenCached DEF C!HostPolls, C!HostAsked, C!HostStores
<1>4. BenchShape' /\ CacheShape'
  BY <1>1, <1>3 DEF ScreenInv, BenchShape, CacheShape
<1>5. OneHeard' /\ Following'
  BY <1>1 DEF ScreenInv, OneHeard, Following, Said, Unsaid
<1> QED BY <1>4, <1>5 DEF ScreenInv

LEMMA ScreenCacheKeeps ==
    ASSUME Steered, ScreenInv, C!ScreenRefetches \/ C!ScreenAsked \/ C!ScreenStores
    PROVE ScreenInv'
<1>1. UNCHANGED <<storedScreen, direct, relay, hostQ, connected, blind, put, crossedScreen>>
      /\ UNCHANGED <<page, follow, selected, timer, synced, paused>>
  BY DEF C!ScreenRefetches, C!ScreenAsked, C!ScreenStores, C!queryRest, C!server, C!bench
<1>2. screenQ \in C!Queries(C!Views) /\ storedScreen \in C!Views
  BY DEF ScreenInv, CacheShape, Steered
<1>3. screenQ' \in C!Queries(C!Views)
  BY <1>2, ScreenCached DEF C!ScreenRefetches, C!ScreenAsked, C!ScreenStores
<1>4. BenchShape' /\ CacheShape'
  BY <1>1, <1>3 DEF ScreenInv, BenchShape, CacheShape
<1>5. Said => Said'
  <2>1. CASE C!ScreenRefetches
    BY <1>1, <1>2, <2>1, ScreenCached DEF C!ScreenRefetches, Said, C!Idle
  <2>2. CASE C!ScreenAsked
    BY <1>1, <1>2, <2>2, ScreenCached DEF C!ScreenAsked, Said, C!Idle
  <2>3. CASE C!ScreenStores
    BY <1>1, <1>2, <2>3, ScreenCached DEF C!ScreenStores, Said, C!Idle
  <2> QED BY <2>1, <2>2, <2>3
<1>6. OneHeard' /\ (Unsaid => Unsaid')
  BY <1>1 DEF ScreenInv, OneHeard, Unsaid
<1> QED BY <1>1, <1>4, <1>5, <1>6 DEF ScreenInv, Following

LEMMA SequenceShrinks ==
    ASSUME NEW q \in Seq(C!Views), q # <<>>
    PROVE  /\ Head(q) \in C!Views /\ Tail(q) \in Seq(C!Views) /\ Len(Tail(q)) = Len(q) - 1
           /\ Len(q) \in Nat \ {0} /\ Head(q) = q[1]
           /\ \A i \in 1..Len(Tail(q)) : Tail(q)[i] = q[i + 1]
OBVIOUS

LEMMA HandledKeeps ==
    ASSUME Steered, ScreenInv, NEW v \in C!Views, C!Handle(v), direct' \in Seq(C!Views),
           relay' \in Seq(C!Views), Len(direct') <= Len(relay'), ~ blind' => (Said => Said')
    PROVE  ScreenInv'
<1>1. UNCHANGED <<storedScreen, hostQ, connected, put, crossedScreen>>
      /\ UNCHANGED <<page, follow, selected, timer, synced, paused>>
      /\ screenQ' = C!Written(screenQ, v) /\ blind' = (blind \/ ~ C!Idle(screenQ))
  BY DEF C!Handle, C!OnScreenViewChanged, C!bench
<1>2. blind' \in BOOLEAN
  BY <1>1
<1>3. screenQ' \in C!Queries(C!Views)
  BY <1>1, ScreenCached DEF ScreenInv, CacheShape
<1>4. BenchShape' /\ CacheShape'
  BY <1>1, <1>2, <1>3 DEF ScreenInv, BenchShape, CacheShape
<1>5. OneHeard' /\ (Unsaid => Unsaid')
  BY <1>1 DEF ScreenInv, OneHeard, Unsaid
<1> QED BY <1>1, <1>4, <1>5 DEF ScreenInv, Following

LEMMA ReceiveKeeps ==
    ASSUME Steered, ScreenInv, C!ReceiveDirect \/ C!ReceiveRelayed PROVE ScreenInv'
<1>1. direct \in Seq(C!Views) /\ relay \in Seq(C!Views) /\ Len(direct) <= Len(relay)
      /\ screenQ \in C!Queries(C!Views)
  BY DEF ScreenInv, CacheShape
<1>2. CASE C!ReceiveDirect
  <2>1. direct # <<>> /\ C!Handle(Head(direct)) /\ direct' = Tail(direct) /\ relay' = relay
    BY <1>2 DEF C!ReceiveDirect
  <2>2. Head(direct) \in C!Views /\ direct' \in Seq(C!Views) /\ Len(direct') <= Len(relay')
        /\ relay' \in Seq(C!Views) /\ Len(relay) # 0
    <3>1. Len(relay) \in Nat
      BY <1>1
    <3> QED BY <1>1, <2>1, <3>1, SequenceShrinks
  <2>3. relay # <<>>
    BY <2>2
  <2>4. Said => Said'
    BY <2>1, <2>3 DEF Said, C!Handle
  <2> QED BY <2>1, <2>2, <2>4, HandledKeeps
<1>3. CASE C!ReceiveRelayed
  <2>1. Len(relay) > Len(direct) /\ C!Handle(Head(relay)) /\ relay' = Tail(relay)
        /\ direct' = direct
    BY <1>3 DEF C!ReceiveRelayed
  <2>2. relay # <<>>
    <3>1. Len(direct) \in Nat
      BY <1>1
    <3> QED BY <2>1, <3>1
  <2>3. /\ Head(relay) \in C!Views /\ relay' \in Seq(C!Views) /\ Len(relay') = Len(relay) - 1
        /\ Len(relay) \in Nat \ {0} /\ Head(relay) = relay[1] /\ Len(direct) \in Nat
        /\ \A i \in 1..Len(relay') : relay'[i] = relay[i + 1]
    BY <1>1, <2>1, <2>2, SequenceShrinks
  <2>4. Len(direct') <= Len(relay') /\ direct' \in Seq(C!Views)
    BY <1>1, <2>1, <2>3
  <2>5. ASSUME ~ blind', Said PROVE Said'
    <3>1. relay[Len(relay)] = storedScreen /\ storedScreen' = storedScreen
      BY <2>1, <2>2, <2>5 DEF Said, C!Handle
    <3>2. CASE relay' = <<>>
      <4>1. Len(relay) = 1
        BY <2>3, <3>2
      <4>2. screenQ' = C!Written(screenQ, Head(relay)) /\ C!Idle(screenQ)
        BY <2>1, <2>5 DEF C!Handle, C!OnScreenViewChanged
      <4>3. screenQ'.data = storedScreen /\ screenQ'.fetch = "idle"
        BY <1>1, <2>3, <3>1, <4>1, <4>2, ScreenCached DEF C!Idle
      <4> QED BY <3>1, <3>2, <4>3 DEF Said
    <3>3. CASE relay' # <<>>
      <4>1. Len(relay') # 0
        BY <2>3, <3>3
      <4>2. Len(relay') \in 1..Len(relay') /\ Len(relay') + 1 = Len(relay)
        BY <2>3, <4>1
      <4> QED BY <2>3, <3>1, <3>3, <4>2 DEF Said
    <3> QED BY <3>2, <3>3
  <2> QED BY <2>1, <2>3, <2>4, <2>5, HandledKeeps
<1> QED BY <1>2, <1>3

LEMMA SocketKeeps == ASSUME Steered, ScreenInv, C!Connect \/ C!Lose PROVE ScreenInv'
<1>1. UNCHANGED <<storedScreen, hostQ, screenQ, put, crossedScreen>>
      /\ UNCHANGED <<page, follow, selected, timer, synced, paused>>
  BY DEF C!Connect, C!Lose, C!queryRest, C!server, C!bench
<1>2. CASE C!Connect
  <2>1. UNCHANGED <<direct, relay, blind>> /\ connected' = TRUE
    BY <1>2 DEF C!Connect, C!queryRest, C!server
  <2>2. connected' \in BOOLEAN
    BY <2>1
  <2>3. BenchShape' /\ CacheShape'
    BY <1>1, <2>1, <2>2 DEF ScreenInv, BenchShape, CacheShape
  <2>4. OneHeard' /\ Following'
    BY <1>1, <2>1 DEF ScreenInv, OneHeard, Following, Said, Unsaid
  <2> QED BY <2>3, <2>4 DEF ScreenInv
<1>3. CASE C!Lose
  <2>1. /\ direct' = <<>> /\ relay' = <<>> /\ connected' = FALSE
        /\ blind' = (blind \/ direct # <<>> \/ relay # <<>>)
    BY <1>3 DEF C!Lose
  <2>2. connected' \in BOOLEAN
    BY <2>1
  <2>3. blind' \in BOOLEAN
    BY <2>1
  <2>4. <<>> \in Seq(C!Views) /\ Len(<<>>) <= Len(<<>>)
    OBVIOUS
  <2>5. BenchShape'
    BY <1>1 DEF ScreenInv, BenchShape
  <2>6. CacheShape'
    BY <1>1, <2>1, <2>2, <2>3, <2>4 DEF ScreenInv, CacheShape
  <2>7. OneHeard'
    BY <1>1 DEF ScreenInv, OneHeard
  <2>8. ASSUME ~ blind' PROVE Unsaid' \/ Said'
    <3>1. ~ blind /\ relay = <<>>
      BY <2>1, <2>8
    <3>2. Said => Said'
      BY <1>1, <2>1, <3>1 DEF Said
    <3>3. Unsaid => Unsaid'
      BY <1>1 DEF Unsaid
    <3> QED BY <3>1, <3>2, <3>3 DEF ScreenInv, Following
  <2> QED BY <2>5, <2>6, <2>7, <2>8 DEF ScreenInv, Following
<1> QED BY <1>2, <1>3

LEMMA ScreenNext == Steered /\ ScreenInv /\ [C!Next]_C!vars => ScreenInv'
<1> SUFFICES ASSUME Steered, ScreenInv, [C!Next]_C!vars PROVE ScreenInv'
  OBVIOUS
<1>1. CASE C!ShowTest \/ C!PressStandby \/ C!ShowOverview \/ C!QaOpened \/ C!QaClosed
  BY <1>1, PanelKeeps
<1>2. CASE C!ShowQa
  BY <1>2, QaTurnKeeps
<1>3. CASE \/ C!ToggleFollow \/ C!Leave \/ C!Return \/ C!ActionBegins \/ C!ActionEnds
           \/ C!SyncWorkbench \/ C!PressQuiz \/ \E i \in C!Items : C!Select(i)
  BY <1>3, BenchKeeps
<1>4. CASE \E m \in C!Mounts : C!OverrideExpires(m)
  BY <1>4, OverriddenKeeps
<1>5. CASE \E s \in ScreenSlots : C!Persist(s) \/ C!Announce(s) \/ C!Fail(s) \/ C!Settle(s)
  BY <1>5, PersistKeeps, AnnouncedKeeps, FailedKeeps, SettledKeeps
<1>6. CASE C!HostPolls \/ C!HostAsked \/ C!HostStores \/ C!ScreenRefetches \/ C!ScreenAsked \/ C!ScreenStores
  BY <1>6, HostCacheKeeps, ScreenCacheKeeps
<1>7. CASE C!ReceiveDirect \/ C!ReceiveRelayed \/ C!Connect \/ C!Lose
  BY <1>7, ReceiveKeeps, SocketKeeps
<1>8. CASE UNCHANGED C!vars
  <2>1. UNCHANGED <<storedScreen, direct, relay, hostQ, screenQ, connected, blind, put, crossedScreen>>
        /\ UNCHANGED <<page, follow, selected, timer, synced, paused>>
    BY <1>8 DEF C!vars, C!server, C!bench, C!screen
  <2>2. BenchShape' /\ CacheShape'
    BY <2>1 DEF ScreenInv, BenchShape, CacheShape
  <2>3. OneHeard' /\ Following'
    BY <2>1 DEF ScreenInv, OneHeard, Following, Said, Unsaid
  <2> QED BY <2>2, <2>3 DEF ScreenInv
<1> QED BY <1>1, <1>2, <1>3, <1>4, <1>5, <1>6, <1>7, <1>8 DEF C!Next

LEMMA ScreenCard == ASSUME NEW X PROVE C!Cardinality(X) = Cardinality(X)
BY DEF C!Cardinality, Cardinality

LEMMA ScreenGives == Steered /\ ScreenInv => C!TypeOK /\ C!ScreenAtRest
<1> SUFFICES ASSUME Steered, ScreenInv PROVE C!TypeOK /\ C!ScreenAtRest
  OBVIOUS
<1>1. ASSUME NEW m \in C!Mounts PROVE Cardinality({s \in C!Mine(m) : put[s].heard}) <= 1
  <2> DEFINE H == {s \in C!Mine(m) : put[s].heard}
  <2>1. \A s, t \in H : s = t
    BY DEF C!Mine, C!Busy, ScreenInv, OneHeard
  <2>2. CASE H = {}
    BY <2>2, FS_EmptySet
  <2>3. CASE H # {}
    <3>1. PICK s \in H : TRUE
      BY <2>3
    <3>2. H = {s}
      BY <2>1, <3>1
    <3> QED BY <3>2, FS_Singleton
  <2> QED BY <2>2, <2>3
<1>2. page \in C!Mounts \ {"quiz"}
  BY DEF ScreenInv, BenchShape, C!Mounts
<1>3. C!TypeOK
  BY <1>1, <1>2, ScreenCard DEF C!TypeOK, Steered, ScreenInv, BenchShape, CacheShape
<1>4. C!ScreenAtRest
  <2> SUFFICES ASSUME C!Busy = {}, direct = <<>>, relay = <<>>, C!Loaded(screenQ), C!Idle(screenQ), ~ blind
               PROVE  screenQ.data = storedScreen
    BY DEF C!ScreenAtRest
  <2>1. ASSUME NEW s \in ScreenSlots PROVE put[s].at # "kept"
    BY DEF C!Busy, C!NoPut
  <2>2. Said
    BY <2>1 DEF ScreenInv, Following, Unsaid
  <2> QED BY <2>2 DEF Said
<1> QED BY <1>3, <1>4

-----------------------------------------------------------------------------
(* The settings of the model.                                                  *)
(* Types, with what a request is and how it was answered.                        *)
AiTypes ==
    /\ storedAi \in A!Configs \cup {NoData} /\ form \in A!Configs
    /\ list \in Providers \cup {NoData}
    /\ status \in {"idle", "testing", "success", "warning", "error"}
    /\ loadingAi \in BOOLEAN /\ openAi \in BOOLEAN /\ timers \in Nat /\ crossedAi \in BOOLEAN
    /\ callAi \in [AiSlots -> A!AiCalls \cup {NoData}]
OwnModels ==
    /\ \A s \in AiSlots :
          callAi[s] # NoData /\ callAi[s].answer # NoData /\ callAi[s].answer.result = "warning" =>
             callAi[s].answer.model.of = callAi[s].answer.of
    /\ crossedAi \/ (A!Matches(form) /\ A!Matches(storedAi) /\ list \in {NoData, form.provider})

AiInv == AiTypes /\ OwnModels /\ A!BusyIsAsked

-----------------------------------------------------------------------------
LEMMA ModelTypes ==
    \A p \in Providers : /\ \A name \in {"default", "other"} :
                               A!Model(p, name) \in A!AllModels /\ A!Model(p, name).of = p
                         /\ \A m \in A!Models(p) : m \in A!AllModels /\ m.of = p
                         /\ A!Default(p) \in A!Configs /\ A!Matches(A!Default(p))
<1> TAKE p \in Providers
<1>1. \A m \in A!Models(p) : m \in A!AllModels /\ m.of = p
  BY DEF A!Models, A!AllModels, A!Model
<1>2. \A name \in {"default", "other"} : A!Model(p, name) \in A!Models(p)
  BY DEF A!Models
<1>3. A!Default(p) \in A!Configs /\ A!Matches(A!Default(p))
  BY <1>1, <1>2 DEF A!Default, A!Config, A!Configs, A!Matches
<1> QED BY <1>1, <1>2, <1>3

LEMMA AiInit == A!Init => AiInv
<1> SUFFICES ASSUME A!Init PROVE AiInv
  OBVIOUS
<1>1. A!Default(Home) \in A!Configs /\ A!Matches(A!Default(Home))
  BY ModelTypes, PartsAssumption DEF PartsAssumption, A!AiAssumption
<1>2. storedAi \in A!Configs \cup {NoData} /\ A!Matches(storedAi)
  <2>1. storedAi = NoData \/ \E p \in Providers : storedAi = A!Config(p, A!Model(p, "default"), TRUE)
    BY DEF A!Init
  <2>2. \A p \in Providers : A!Config(p, A!Model(p, "default"), TRUE) \in A!Configs
                            /\ A!Matches(A!Config(p, A!Model(p, "default"), TRUE))
    BY ModelTypes DEF A!Config, A!Configs, A!Matches
  <2> QED BY <2>1, <2>2 DEF A!Matches
<1>3. AiTypes
  BY <1>1, <1>2 DEF A!Init, AiTypes
<1>4. OwnModels /\ A!BusyIsAsked
  BY <1>1, <1>2 DEF A!Init, OwnModels, A!BusyIsAsked
<1> QED BY <1>3, <1>4 DEF AiInv

LEMMA SeedTypes == AiInv => A!Seed \in A!Configs /\ (crossedAi \/ A!Matches(A!Seed))
  BY ModelTypes, PartsAssumption DEF PartsAssumption, AiInv, AiTypes, OwnModels,
                                     A!AiAssumption, A!Seed

(* The fields of the form.                                                       *)
LEMMA ModelFormKeeps ==
    ASSUME AiInv,
           \/ A!Opens \/ A!Cancel \/ A!TypeKey \/ A!Save \/ A!TimerFires \/ A!Clear
           \/ \E p \in Providers : A!ChangeProvider(p)
           \/ \E m \in A!AllModels : A!PickModel(m)
           \/ UNCHANGED A!vars
    PROVE  AiInv'
<1> USE DEF AiInv
<1>1. UNCHANGED <<loadingAi, callAi>> /\ crossedAi' \in BOOLEAN /\ (crossedAi => crossedAi')
  <2>1. CASE \E m \in A!AllModels : A!PickModel(m)
    <3>1. PICK m \in A!AllModels : crossedAi' = (crossedAi \/ m \notin A!Offered)
      BY <2>1 DEF A!PickModel
    <3>2. UNCHANGED <<loadingAi, callAi>>
      BY <2>1 DEF A!PickModel
    <3> QED BY <3>1, <3>2
  <2>2. CASE \/ A!Opens \/ A!Cancel \/ A!TypeKey \/ A!Save \/ A!TimerFires \/ A!Clear
             \/ \E p \in Providers : A!ChangeProvider(p)
             \/ UNCHANGED A!vars
    BY <2>2 DEF A!Opens, A!Cancel, A!TypeKey, A!Save, A!TimerFires, A!Clear, A!ChangeProvider,
                A!vars, AiTypes
  <2> QED BY <2>1, <2>2
<1>2. status' = status \/ status' = "idle"
  BY DEF A!Opens, A!Cancel, A!TypeKey, A!Save, A!TimerFires, A!Clear, A!ChangeProvider,
         A!PickModel, A!vars
<1>3. timers' \in Nat
  BY DEF A!Opens, A!Cancel, A!TypeKey, A!Save, A!TimerFires, A!Clear, A!ChangeProvider,
         A!PickModel, A!Closes, A!vars,
         AiTypes
<1>4. openAi' \in BOOLEAN
  BY DEF A!Opens, A!Cancel, A!TypeKey, A!Save, A!TimerFires, A!Clear, A!ChangeProvider,
         A!PickModel, A!vars, AiTypes
<1> DEFINE Fine ==
       /\ form' \in A!Configs /\ storedAi' \in A!Configs \cup {NoData}
       /\ list' \in Providers \cup {NoData}
       /\ crossedAi' \/ (A!Matches(form') /\ A!Matches(storedAi') /\ list' \in {NoData, form'.provider})
<1>5. Fine
  <2>1. CASE A!Opens
    BY <1>1, <2>1, SeedTypes DEF A!Opens, AiTypes, OwnModels
  <2>2. CASE A!Cancel \/ A!TimerFires \/ UNCHANGED A!vars
    BY <1>1, <2>2 DEF A!Cancel, A!TimerFires, A!vars, AiTypes, OwnModels
  <2>3. CASE A!TypeKey
    <3>1. /\ form' = [form EXCEPT !.key = ~ @] /\ UNCHANGED <<storedAi, list>> /\ form \in A!Configs
      BY <2>3 DEF A!TypeKey, AiTypes
    <3>2. form' \in A!Configs /\ form'.provider = form.provider /\ form'.model = form.model
      BY <3>1 DEF A!Configs
    <3>3. A!Matches(form) => A!Matches(form')
      BY <3>1, <3>2, PartsAssumption DEF PartsAssumption, A!Matches, A!AiAssumption
    <3> QED BY <1>1, <3>1, <3>2, <3>3 DEF AiTypes, OwnModels
  <2>4. CASE A!Save
    BY <1>1, <2>4 DEF A!Save, AiTypes, OwnModels
  <2>5. CASE A!Clear
    BY <1>1, <2>5, ModelTypes, PartsAssumption DEF PartsAssumption, A!Clear, A!AiAssumption,
        A!Matches
  <2>6. ASSUME NEW p \in Providers, A!ChangeProvider(p) PROVE Fine
    <3>1. /\ form' = [form EXCEPT !.provider = p, !.model = A!Model(p, "default")]
          /\ list' = NoData /\ storedAi' = storedAi /\ form \in A!Configs
      BY <2>6 DEF A!ChangeProvider, A!Switched, AiTypes
    <3>2. form' \in A!Configs /\ A!Matches(form')
      BY <3>1, ModelTypes DEF A!Configs, A!Matches
    <3> QED BY <1>1, <3>1, <3>2 DEF AiTypes, OwnModels
  <2>7. ASSUME NEW m \in A!AllModels, A!PickModel(m) PROVE Fine
    <3>1. /\ form' = [form EXCEPT !.model = m] /\ UNCHANGED <<list, storedAi>> /\ form \in A!Configs
          /\ crossedAi' \/ m \in A!Models(form.provider) \/ (list # NoData /\ m \in A!Models(list))
      BY <2>7 DEF A!PickModel, A!Offered, AiTypes
    <3>2. form' \in A!Configs /\ form'.provider = form.provider /\ form'.model = m
      BY <3>1 DEF A!Configs
    <3>3. form.provider \in Providers /\ (list # NoData => list \in Providers)
      BY DEF AiTypes, A!Configs
    <3>4. crossedAi' \/ A!Matches(form')
      BY <1>1, <3>1, <3>2, <3>3, ModelTypes DEF A!Matches, OwnModels
    <3> QED BY <1>1, <3>1, <3>2, <3>4 DEF AiTypes, OwnModels
  <2> QED BY <2>1, <2>2, <2>3, <2>4, <2>5, <2>6, <2>7
<1>6. AiTypes'
  BY <1>1, <1>2, <1>3, <1>4, <1>5 DEF AiTypes
<1>7. OwnModels' /\ A!BusyIsAsked'
  BY <1>1, <1>5 DEF OwnModels, A!BusyIsAsked, A!Matches
<1> QED BY <1>6, <1>7

(* A request for the list makes it loading.                                      *)
LEMMA ModelAskedKeeps == ASSUME AiInv, A!Test \/ A!FetchModels PROVE AiInv'
<1> USE DEF AiInv
<1>1. PICK kind \in {"test", "models"}, s \in AiSlots :
         /\ callAi[s] = NoData
         /\ callAi' = [callAi EXCEPT ![s] = [kind |-> kind, asked |-> form, answer |-> NoData]]
         /\ IF kind = "models" THEN loadingAi' = TRUE ELSE loadingAi' = loadingAi
         /\ status' = "testing" /\ UNCHANGED <<storedAi, form, list, openAi, timers, crossedAi>>
  BY DEF A!Test, A!FetchModels, A!Asks
<1>2. /\ [kind |-> kind, asked |-> form, answer |-> NoData] \in A!AiCalls
      /\ [kind |-> kind, asked |-> form, answer |-> NoData] # NoData
  BY PartsAssumption DEF PartsAssumption, AiTypes, A!AiCalls, A!AiAssumption
<1>3. /\ callAi' \in [AiSlots -> A!AiCalls \cup {NoData}] /\ callAi'[s] # NoData
      /\ callAi'[s].kind = kind /\ callAi'[s].answer = NoData
      /\ \A t \in AiSlots \ {s} : callAi'[t] = callAi[t]
  BY <1>1, <1>2 DEF AiTypes
<1>4. AiTypes'
  BY <1>1, <1>3 DEF AiTypes
<1>5. OwnModels'
  BY <1>1, <1>3 DEF OwnModels, A!Matches
<1>6. A!BusyIsAsked'
  <2>1. CASE kind = "models"
    BY <1>3, <2>1 DEF A!BusyIsAsked
  <2>2. CASE kind # "models"
    BY <1>1, <1>3, <2>2 DEF A!BusyIsAsked
  <2> QED BY <2>1, <2>2
<1> QED BY <1>4, <1>5, <1>6

(* The server's answer, with a model of the provider it speaks of where the dialog  *)
(* may take it over.                                                             *)
LEMMA ModelServedKeeps == ASSUME AiInv, NEW s \in AiSlots, A!Serves(s) PROVE AiInv'
<1> USE DEF AiInv
<1>1. PICK a \in A!Possible(callAi[s]) :
         /\ callAi[s] # NoData /\ callAi[s].answer = NoData
         /\ callAi' = [callAi EXCEPT ![s].answer = a]
         /\ UNCHANGED <<storedAi, form, list, status, loadingAi, openAi, timers, crossedAi>>
  BY DEF A!Serves
<1>2. callAi[s] \in A!AiCalls
  BY <1>1 DEF AiTypes
<1>3. A!Asked(callAi[s]) \in A!Configs
  BY <1>2, ModelTypes, PartsAssumption DEF PartsAssumption, A!Asked, A!AiCalls,
      A!AiAssumption
<1>4. a \in A!Answers /\ (a.result = "warning" => a.model.of = a.of)
  <2>1. \/ a = A!Answer("warning", Home, A!Model(Home, "default"), FALSE)
        \/ a = A!Answer("success", A!Asked(callAi[s]).provider, A!Asked(callAi[s]).model, TRUE)
        \/ a = A!Answer("error", A!Asked(callAi[s]).provider, A!Asked(callAi[s]).model, FALSE)
        \/ a = A!Answer("warning", A!Asked(callAi[s]).provider,
                      A!Model(A!Asked(callAi[s]).provider, "other"), TRUE)
    BY <1>1 DEF A!Possible
  <2>2. /\ A!Asked(callAi[s]).provider \in Providers /\ A!Asked(callAi[s]).model \in A!AllModels
        /\ Home \in Providers
    BY <1>3, PartsAssumption DEF PartsAssumption, A!Configs, A!AiAssumption
  <2>3. \A p \in Providers, m \in A!AllModels, r \in {"success", "warning", "error"}, b \in BOOLEAN :
           A!Answer(r, p, m, b) \in A!Answers
    BY DEF A!Answer, A!Answers
  <2>4. \A p \in Providers : /\ A!Model(p, "default") \in A!AllModels /\ A!Model(p, "default").of = p
                            /\ A!Model(p, "other") \in A!AllModels /\ A!Model(p, "other").of = p
    BY ModelTypes
  <2>5. a \in A!Answers
    BY <2>1, <2>2, <2>3, <2>4
  <2>6. a.result = "warning" => a.model.of = a.of
    BY <2>1, <2>2, <2>4 DEF A!Answer
  <2> QED BY <2>5, <2>6
<1>5. [callAi[s] EXCEPT !.answer = a] \in A!AiCalls
  BY <1>2, <1>4 DEF A!AiCalls
<1>6. /\ callAi' \in [AiSlots -> A!AiCalls \cup {NoData}] /\ callAi'[s].answer = a
      /\ callAi'[s].kind = callAi[s].kind /\ \A t \in AiSlots \ {s} : callAi'[t] = callAi[t]
  BY <1>1, <1>2, <1>5 DEF AiTypes, A!AiCalls
<1>7. AiTypes'
  BY <1>1, <1>6 DEF AiTypes
<1>8. OwnModels'
  BY <1>1, <1>4, <1>6 DEF OwnModels, A!Matches
<1>9. callAi'[s] # NoData
  BY <1>1, <1>5, PartsAssumption DEF PartsAssumption, AiTypes, A!AiAssumption
<1>10. A!BusyIsAsked'
  BY <1>1, <1>6, <1>9 DEF A!BusyIsAsked
<1> QED BY <1>7, <1>8, <1>10

(* The answer comes in: it changes what is of its own provider, or it is noted.     *)
LEMMA AnswerShownKeeps == ASSUME AiInv, NEW s \in AiSlots, A!Settles(s) PROVE AiInv'
<1> USE DEF AiInv
<1> DEFINE c == callAi[s]
           a == callAi[s].answer
<1>1. /\ c # NoData /\ a # NoData
      /\ form' = A!Tested(c) /\ loadingAi' = A!Loads(c)
      /\ list' = (IF a.models THEN a.of ELSE list)
      /\ status' = IF c.kind = "test" \/ a.models THEN a.result ELSE "error"
      /\ crossedAi' = (crossedAi \/ (a.of # form.provider /\ (a.models \/ A!Replaces(c))))
      /\ callAi' = [callAi EXCEPT ![s] = NoData]
      /\ UNCHANGED <<storedAi, openAi, timers>>
  BY DEF A!Settles
<1>2. c \in A!AiCalls /\ a \in A!Answers
  BY <1>1 DEF AiTypes, A!AiCalls
<1>3. /\ callAi' \in [AiSlots -> A!AiCalls \cup {NoData}] /\ callAi'[s] = NoData
      /\ \A t \in AiSlots \ {s} : callAi'[t] = callAi[t]
  BY <1>1 DEF AiTypes
<1>4. A!Replaces(c) => a.model.of = a.of
  BY <1>1 DEF A!Replaces, OwnModels
<1>5. /\ form' \in A!Configs /\ form'.provider = form.provider
      /\ form'.model = IF A!Replaces(c) THEN a.model ELSE form.model
  BY <1>1, <1>2 DEF A!Tested, A!Configs, A!Answers, AiTypes
<1>6. loadingAi' \in BOOLEAN /\ crossedAi' \in BOOLEAN /\ list' \in Providers \cup {NoData}
      /\ status' \in {"idle", "testing", "success", "warning", "error"}
  <2>1. loadingAi' \in BOOLEAN
    BY <1>1 DEF A!Loads, AiTypes
  <2>2. list' \in Providers \cup {NoData}
    BY <1>1, <1>2 DEF A!Answers, AiTypes
  <2>3. status' \in {"idle", "testing", "success", "warning", "error"}
    BY <1>1, <1>2 DEF A!Answers
  <2>4. crossedAi' \in BOOLEAN
    BY <1>1, Zenon
  <2> QED BY <2>1, <2>2, <2>3, <2>4
<1>7. AiTypes'
  BY <1>1, <1>3, <1>5, <1>6 DEF AiTypes
<1>8. ~ crossedAi' => ~ crossedAi /\ (a.models \/ A!Replaces(c) => a.of = form.provider)
  BY <1>1
<1>9. ~ crossedAi' => A!Matches(form') /\ list' \in {NoData, form'.provider}
  <2> SUFFICES ASSUME ~ crossedAi' PROVE A!Matches(form') /\ list' \in {NoData, form'.provider}
    OBVIOUS
  <2>1. form \in A!Configs /\ form # NoData
    BY PartsAssumption DEF PartsAssumption, AiTypes, A!AiAssumption
  <2>2. form.model.of = form.provider /\ list \in {NoData, form.provider}
    BY <1>8, <2>1 DEF OwnModels, A!Matches
  <2>3. form'.model.of = form'.provider
    BY <1>4, <1>5, <1>8, <2>2
  <2> QED BY <1>1, <1>5, <1>8, <2>2, <2>3 DEF A!Matches
<1>10. OwnModels'
  BY <1>1, <1>3, <1>8, <1>9 DEF OwnModels, A!Matches
<1>11. A!BusyIsAsked'
  BY <1>1, <1>3 DEF A!BusyIsAsked, A!Loads
<1> QED BY <1>7, <1>10, <1>11

LEMMA AiNext == AiInv /\ [A!Next]_A!vars => AiInv'
<1> SUFFICES ASSUME AiInv, [A!Next]_A!vars PROVE AiInv'
  OBVIOUS
<1>1. CASE \/ A!Opens \/ A!Cancel \/ A!TypeKey \/ A!Save \/ A!TimerFires \/ A!Clear
           \/ \E p \in Providers : A!ChangeProvider(p)
           \/ \E m \in A!AllModels : A!PickModel(m)
           \/ UNCHANGED A!vars
  BY <1>1, ModelFormKeeps
<1>2. CASE A!Test \/ A!FetchModels
  BY <1>2, ModelAskedKeeps
<1>3. ASSUME NEW s \in AiSlots, A!Serves(s) \/ A!Settles(s) PROVE AiInv'
  BY <1>3, ModelServedKeeps, AnswerShownKeeps
<1> QED BY <1>1, <1>2, <1>3 DEF A!Next

LEMMA AiGives == AiInv => A!TypeOK /\ A!ModelOfProvider /\ A!BusyIsAsked
<1> SUFFICES ASSUME AiInv PROVE A!TypeOK /\ A!ModelOfProvider
  BY DEF AiInv
<1>1. A!TypeOK
  BY DEF AiInv, AiTypes, A!TypeOK
<1>2. crossedAi \/ A!Matches(A!Headers)
  BY SeedTypes DEF A!Headers, A!Matches
<1> QED BY <1>1, <1>2 DEF AiInv, OwnModels, A!ModelOfProvider

-----------------------------------------------------------------------------
(* The decision report.                                                        *)
(* Types, with what a request has read and been answered.                         *)
ReportTypes ==
    /\ activity \in Nat /\ shown \in D!Reports \cup {NoData}
    /\ settings \in [version : Nat, report : D!Reports \cup {NoData}]
    /\ openReport \in BOOLEAN /\ force \in BOOLEAN /\ loadingReport \in BOOLEAN /\ failedReport \in BOOLEAN
    /\ callReport \in [ReportSlots -> D!ReportCalls \cup {NoData}]
    /\ \A s \in ReportSlots : callReport[s] # NoData =>
          /\ callReport[s].seen \in D!Reports \cup {NoData} /\ callReport[s].reply \in D!Reports \cup {NoData}
          /\ callReport[s].at = "analyses" =>
                callReport[s].seen \in D!Reports /\ callReport[s].read \in [version : Nat, report : Nat \cup {NoData}]

(* What was found or generated is what is stored, unless another request was under  *)
(* way when it was.                                                               *)
Agrees ==
    late \/ \A s \in ReportSlots :
       callReport[s] # NoData /\ callReport[s].at \in {"found", "done"} /\ settings.report # NoData =>
          callReport[s].reply = settings.report
Shows == D!AtRest /\ ~ late /\ settings.report # NoData => shown = settings.report

ReportInv == ReportTypes /\ Agrees /\ Shows /\ D!BusyIsAsked

-----------------------------------------------------------------------------
LEMMA ReportInit == D!Init => ReportInv
<1> SUFFICES ASSUME D!Init PROVE ReportInv
  OBVIOUS
<1>1. activity = 0 /\ shown = NoData /\ settings \in {[version |-> 0, report |-> NoData], [version |-> 0, report |-> 0]}
  BY DEF D!Init, D!Settings
<1>2. settings.version = 0 /\ settings.report \in {0, NoData} /\ 0 \in D!Reports
  BY <1>1 DEF D!Reports
<1>4. settings \in [version : Nat, report : D!Reports \cup {NoData}]
  BY <1>1, <1>2
<1>5. callReport = [s \in ReportSlots |-> NoData]
  BY DEF D!Init
<1>6. openReport \in BOOLEAN /\ force \in BOOLEAN /\ loadingReport \in BOOLEAN /\ failedReport \in BOOLEAN
  BY Zenon DEF D!Init
<1>7. ReportTypes
  BY <1>1, <1>4, <1>5, <1>6 DEF ReportTypes
<1>3. Agrees /\ Shows /\ D!BusyIsAsked
  BY DEF D!Init, Agrees, Shows, D!AtRest, D!BusyIsAsked
<1> QED BY <1>7, <1>3 DEF ReportInv

(* The session goes on, its settings are saved: no report is there any more.        *)
LEMMA ReportSessionKeeps ==
    ASSUME ReportInv, D!GoesOn \/ D!SavesSettings \/ UNCHANGED D!vars
    PROVE  ReportInv'
<1> USE DEF ReportInv
<1>1. /\ UNCHANGED <<callReport, openReport, force, shown, loadingReport, failedReport, late>>
      /\ activity' \in Nat /\ activity <= activity'
      /\ settings' = settings \/ settings' = [version |-> settings.version + 1, report |-> NoData]
  BY DEF D!GoesOn, D!SavesSettings, D!Settings, D!vars, D!server, D!dialog, ReportTypes
<1>2. D!Reports \subseteq D!Reports'
  BY <1>1 DEF D!Reports, ReportTypes
<1>3. settings' \in [version : Nat, report : D!Reports' \cup {NoData}]
  BY <1>1, <1>2 DEF ReportTypes
<1>4. ReportTypes'
  BY <1>1, <1>2, <1>3 DEF ReportTypes
<1>5. settings'.report # NoData => settings'.report = settings.report
  BY <1>1
<1>6. Agrees' /\ Shows' /\ D!BusyIsAsked'
  BY <1>1, <1>5 DEF Agrees, Shows, D!AtRest, D!BusyIsAsked
<1> QED BY <1>4, <1>6

(* A request of the dialog.                                                       *)
LEMMA ReportAskedKeeps ==
    ASSUME ReportInv, NEW by \in {"effect", "refresh"}, NEW at \in {"look", "generate"}, NEW f \in BOOLEAN,
           D!Asks(D!Request(by, at, f)), openReport' \in BOOLEAN, force' \in BOOLEAN,
           UNCHANGED <<D!server, shown, late>>
    PROVE  ReportInv'
<1> USE DEF ReportInv
<1> DEFINE r == D!Request(by, at, f)
<1>1. PICK s \in ReportSlots : callReport[s] = NoData /\ callReport' = [callReport EXCEPT ![s] = r]
  BY DEF D!Asks
<1>2. /\ r \in D!ReportCalls /\ r.at = at /\ r.mounted /\ r.seen = NoData /\ r.reply = NoData
  BY DEF D!Request, D!ReportCalls
<1>3. r # NoData
  BY <1>2, PartsAssumption DEF PartsAssumption, D!ReportAssumption
<1>4. /\ callReport' \in [ReportSlots -> D!ReportCalls \cup {NoData}] /\ callReport'[s] = r
      /\ \A t \in ReportSlots \ {s} : callReport'[t] = callReport[t]
  BY <1>1, <1>2 DEF ReportTypes
<1>5. loadingReport' = TRUE /\ failedReport' = FALSE /\ D!Reports' = D!Reports
  BY DEF D!Asks, D!server, D!Reports
<1> HIDE DEF r
<1>6. ReportTypes'
  BY <1>2, <1>4, <1>5 DEF ReportTypes, D!server
<1>7. Agrees' /\ Shows' /\ D!BusyIsAsked'
  BY <1>2, <1>3, <1>4, <1>5 DEF Agrees, Shows, D!AtRest, D!BusyIsAsked, D!server
<1> QED BY <1>6, <1>7

LEMMA ReportDialogKeeps ==
    ASSUME ReportInv, D!Closes \/ D!Refresh \/ \E f \in BOOLEAN : D!Opens(f)
    PROVE  ReportInv'
<1> USE DEF ReportInv
<1>1. CASE D!Refresh
  BY <1>1, ReportAskedKeeps DEF D!Refresh, ReportTypes
<1>2. ASSUME NEW f \in BOOLEAN, D!Opens(f) PROVE ReportInv'
  BY <1>2, ReportAskedKeeps DEF D!Opens
<1>3. CASE D!Closes
  <2>1. /\ openReport' = FALSE /\ callReport' = [s \in ReportSlots |-> D!Unmounted(callReport[s])]
        /\ UNCHANGED <<activity, settings, force, shown, loadingReport, failedReport, late>>
    BY <1>3 DEF D!Closes, D!server
  <2>2. \A s \in ReportSlots :
           /\ callReport'[s] \in D!ReportCalls \cup {NoData}
           /\ callReport'[s] # NoData => /\ callReport[s] # NoData
                                         /\ callReport'[s].at = callReport[s].at /\ callReport'[s].seen = callReport[s].seen
                                         /\ callReport'[s].reply = callReport[s].reply /\ callReport'[s].read = callReport[s].read
    <3> TAKE s \in ReportSlots
    <3>1. callReport[s] \in D!ReportCalls \cup {NoData} /\ callReport'[s] = D!Unmounted(callReport[s])
      BY <2>1 DEF ReportTypes
    <3> QED BY <3>1 DEF D!Unmounted, D!ReportCalls
  <2>3. ReportTypes'
    BY <2>1, <2>2 DEF ReportTypes, D!Reports
  <2>4. Agrees' /\ Shows' /\ D!BusyIsAsked'
    BY <2>1, <2>2 DEF Agrees, Shows, D!AtRest, D!BusyIsAsked
  <2> QED BY <2>3, <2>4
<1> QED BY <1>1, <1>2, <1>3

(* A step of a request that leaves settings and dialog alone.                      *)
LEMMA ReportStepKeeps ==
    ASSUME ReportInv, NEW s \in ReportSlots, NEW r \in D!ReportCalls, callReport[s] # NoData,
           callReport' = [callReport EXCEPT ![s] = r], r.mounted = callReport[s].mounted,
           r.seen \in D!Reports \cup {NoData}, r.reply \in D!Reports \cup {NoData},
           r.at = "analyses" => r.seen \in D!Reports /\ r.read \in [version : Nat, report : Nat \cup {NoData}],
           late \/ (r.at \in {"found", "done"} /\ settings.report # NoData => r.reply = settings.report),
           UNCHANGED <<D!server, D!dialog, late>>
    PROVE  ReportInv'
<1> USE DEF ReportInv
<1>1. /\ callReport' \in [ReportSlots -> D!ReportCalls \cup {NoData}] /\ callReport'[s] = r /\ r # NoData
      /\ \A t \in ReportSlots \ {s} : callReport'[t] = callReport[t]
  BY PartsAssumption DEF PartsAssumption, ReportTypes, D!ReportAssumption
<1>2. UNCHANGED <<activity, settings, openReport, force, shown, loadingReport, failedReport>> /\ D!Reports' = D!Reports
  BY DEF D!server, D!dialog, D!Reports
<1>3. ReportTypes'
  BY <1>1, <1>2 DEF ReportTypes
<1>4. Agrees' /\ Shows' /\ D!BusyIsAsked'
  BY <1>1, <1>2 DEF Agrees, Shows, D!AtRest, D!BusyIsAsked
<1> QED BY <1>3, <1>4

LEMMA ReportHandlerKeeps ==
    ASSUME ReportInv, NEW s \in ReportSlots, D!Looks(s) \/ D!Reads(s) \/ D!Fails(s)
    PROVE  ReportInv'
<1> USE DEF ReportInv
<1> DEFINE c == callReport[s]
<1>1. c \in D!ReportCalls /\ c # NoData
  BY DEF D!Looks, D!Reads, D!Fails, D!At, ReportTypes
<1>2. /\ settings.report \in D!Reports \cup {NoData} /\ activity \in D!Reports /\ D!Reports \subseteq Nat
      /\ settings \in [version : Nat, report : Nat \cup {NoData}]
      /\ c.seen \in D!Reports \cup {NoData} /\ c.reply \in D!Reports \cup {NoData}
  BY <1>1 DEF ReportTypes, D!Reports
<1>3. CASE D!Looks(s)
  <2> DEFINE r == [c EXCEPT !.at = "found", !.reply = settings.report]
  <2>1. callReport' = [callReport EXCEPT ![s] = r] /\ UNCHANGED <<D!server, D!dialog, late>>
    BY <1>3 DEF D!Looks, D!Step
  <2>2. /\ r \in D!ReportCalls /\ r.at = "found" /\ r.reply = settings.report /\ r.seen = c.seen
        /\ r.mounted = c.mounted
    BY <1>1, <1>2 DEF D!ReportCalls
  <2> HIDE DEF r
  <2> QED BY <1>1, <1>2, <2>1, <2>2, ReportStepKeeps
<1>4. CASE D!Reads(s) /\ ~ c.force /\ settings.report # NoData
  <2> DEFINE r == [c EXCEPT !.at = "done", !.reply = settings.report]
  <2>1. callReport' = [callReport EXCEPT ![s] = r] /\ UNCHANGED <<D!server, D!dialog, late>>
    BY <1>4 DEF D!Reads, D!Step
  <2>2. /\ r \in D!ReportCalls /\ r.at = "done" /\ r.reply = settings.report /\ r.seen = c.seen
        /\ r.mounted = c.mounted
    BY <1>1, <1>2 DEF D!ReportCalls
  <2> HIDE DEF r
  <2> QED BY <1>1, <1>2, <2>1, <2>2, ReportStepKeeps
<1>5. CASE D!Reads(s) /\ ~ (~ c.force /\ settings.report # NoData)
  <2> DEFINE r == [c EXCEPT !.at = "analyses", !.read = settings, !.seen = activity]
  <2>1. callReport' = [callReport EXCEPT ![s] = r] /\ UNCHANGED <<D!server, D!dialog, late>>
    BY <1>5 DEF D!Reads, D!Step
  <2>2. /\ r \in D!ReportCalls /\ r.at = "analyses" /\ r.reply = c.reply /\ r.seen = activity
        /\ r.read = settings /\ r.mounted = c.mounted
    BY <1>1, <1>2 DEF D!ReportCalls
  <2> HIDE DEF r
  <2> QED BY <1>1, <1>2, <2>1, <2>2, ReportStepKeeps
<1>6. CASE D!Fails(s)
  <2> DEFINE r == [c EXCEPT !.at = "failed"]
  <2>1. callReport' = [callReport EXCEPT ![s] = r] /\ UNCHANGED <<D!server, D!dialog, late>>
    BY <1>6 DEF D!Fails, D!Step
  <2>2. r \in D!ReportCalls /\ r.at = "failed" /\ r.reply = c.reply /\ r.seen = c.seen /\ r.mounted = c.mounted
    BY <1>1 DEF D!ReportCalls
  <2> HIDE DEF r
  <2> QED BY <1>1, <1>2, <2>1, <2>2, ReportStepKeeps
<1> QED BY <1>3, <1>4, <1>5, <1>6

(* The report is written: no other request is under way, or it is noted.             *)
LEMMA ReportWritesKeeps == ASSUME ReportInv, NEW s \in ReportSlots, D!Writes(s) PROVE ReportInv'
<1> USE DEF ReportInv
<1> DEFINE c == callReport[s]
           r == [c EXCEPT !.at = "done", !.reply = c.seen]
<1>1. /\ c # NoData /\ c.at = "analyses" /\ settings' = [version |-> c.read.version, report |-> c.seen]
      /\ late' = (late \/ D!Crosses(s)) /\ callReport' = [callReport EXCEPT ![s] = r]
      /\ UNCHANGED <<activity, openReport, force, shown, loadingReport, failedReport>>
  BY DEF D!Writes, D!At, D!Written, D!Settings, D!Step, D!dialog
<1>2. /\ c \in D!ReportCalls /\ c.seen \in D!Reports /\ c.read.version \in Nat /\ D!Reports \subseteq Nat
      /\ D!Reports' = D!Reports
  BY <1>1 DEF ReportTypes, D!Reports
<1>3. /\ r \in D!ReportCalls /\ r.at = "done" /\ r.reply = c.seen /\ r.seen = c.seen
      /\ r.mounted = c.mounted
  BY <1>2 DEF D!ReportCalls
<1> HIDE DEF r
<1>4. /\ callReport' \in [ReportSlots -> D!ReportCalls \cup {NoData}] /\ callReport'[s] = r /\ r # NoData
      /\ \A t \in ReportSlots \ {s} : callReport'[t] = callReport[t]
  BY <1>1, <1>3, PartsAssumption DEF PartsAssumption, ReportTypes, D!ReportAssumption
<1>5. ~ late' => ~ late /\ \A t \in ReportSlots \ {s} : callReport[t] = NoData
  BY <1>1 DEF D!Crosses
<1>6. settings' \in [version : Nat, report : D!Reports \cup {NoData}] /\ settings'.report = c.seen
  BY <1>1, <1>2
<1>7. ReportTypes'
  BY <1>1, <1>2, <1>3, <1>4, <1>6 DEF ReportTypes
<1>8. Agrees' /\ Shows' /\ D!BusyIsAsked'
  BY <1>1, <1>3, <1>4, <1>5, <1>6 DEF Agrees, Shows, D!AtRest, D!BusyIsAsked
<1> QED BY <1>7, <1>8

(* The last request comes in: what it brings is what is stored.                      *)
LEMMA ReportEndKeeps ==
    ASSUME ReportInv, NEW s \in ReportSlots, callReport[s] # NoData, callReport' = [callReport EXCEPT ![s] = NoData],
           UNCHANGED <<D!server, openReport, force>>, loadingReport' \in BOOLEAN, failedReport' \in BOOLEAN,
           shown' \in D!Reports \cup {NoData}, late' \/ ~ late,
           callReport[s].mounted => ~ loadingReport',
           loadingReport' => loadingReport,
           ~ late' /\ ~ failedReport' /\ settings.report # NoData /\ (\A t \in ReportSlots \ {s} : callReport[t] = NoData) =>
              shown' = settings.report
    PROVE  ReportInv'
<1> USE DEF ReportInv
<1>1. /\ callReport' \in [ReportSlots -> D!ReportCalls \cup {NoData}] /\ callReport'[s] = NoData
      /\ \A t \in ReportSlots \ {s} : callReport'[t] = callReport[t]
  BY DEF ReportTypes
<1>2. UNCHANGED <<activity, settings>> /\ D!Reports' = D!Reports
  BY DEF D!server, D!Reports
<1>3. ReportTypes'
  BY <1>1, <1>2 DEF ReportTypes
<1>4. Agrees' /\ Shows'
  BY <1>1, <1>2 DEF Agrees, Shows, D!AtRest
<1>5. D!BusyIsAsked'
  BY <1>1, <1>2 DEF D!BusyIsAsked
<1> QED BY <1>3, <1>4, <1>5

LEMMA ReportEndsKeeps ==
    ASSUME ReportInv, NEW s \in ReportSlots, D!LookEnds(s) \/ D!Ends(s)
    PROVE ReportInv'
<1> USE DEF ReportInv
<1> DEFINE c == callReport[s]
<1>1. c # NoData /\ c \in D!ReportCalls
  BY DEF D!LookEnds, D!Ends, D!At, ReportTypes
<1>2. c.reply \in D!Reports \cup {NoData} /\ c.seen \in D!Reports \cup {NoData}
  BY <1>1 DEF ReportTypes
<1>3. CASE D!LookEnds(s) /\ c.mounted /\ c.reply # NoData
  <2>1. /\ shown' = c.reply /\ loadingReport' = FALSE /\ callReport' = [callReport EXCEPT ![s] = NoData] /\ c.at = "found"
        /\ UNCHANGED <<D!server, openReport, force, failedReport, late>>
    BY <1>3 DEF D!LookEnds, D!At
  <2>2. ~ late /\ settings.report # NoData => c.reply = settings.report
    BY <1>1, <2>1 DEF Agrees
  <2>3. failedReport' \in BOOLEAN
    BY <2>1 DEF ReportTypes
  <2> QED BY <1>1, <1>2, <2>1, <2>2, <2>3, ReportEndKeeps
<1>4. CASE D!LookEnds(s) /\ ~ (c.mounted /\ c.reply # NoData)
  <2> DEFINE r == [c EXCEPT !.at = "generate"]
  <2>1. callReport' = [callReport EXCEPT ![s] = r] /\ UNCHANGED <<D!server, D!dialog, late>>
    BY <1>4 DEF D!LookEnds, D!Step, D!dialog
  <2>2. /\ r \in D!ReportCalls /\ r.at = "generate" /\ r.reply = c.reply /\ r.seen = c.seen
        /\ r.mounted = c.mounted
    BY <1>1 DEF D!ReportCalls
  <2> HIDE DEF r
  <2> QED BY <1>1, <1>2, <2>1, <2>2, ReportStepKeeps
<1>5. CASE D!Ends(s)
  <2>1. /\ loadingReport' = D!Settled(c) /\ failedReport' = (IF c.mounted THEN c.at = "failed" ELSE failedReport)
        /\ shown' = (IF c.mounted /\ c.at = "done" THEN c.reply ELSE shown)
        /\ late' = (late \/ D!Crosses(s)) /\ callReport' = [callReport EXCEPT ![s] = NoData]
        /\ UNCHANGED <<D!server, openReport, force>> /\ c.at \in {"done", "failed"}
    BY <1>5 DEF D!Ends, D!At
  <2>2. c.mounted \in BOOLEAN
    BY <1>1 DEF D!ReportCalls
  <2>3. failedReport' \in BOOLEAN /\ loadingReport' \in BOOLEAN
    BY <2>1, <2>2 DEF ReportTypes, D!Settled
  <2>4. shown' \in D!Reports \cup {NoData}
    BY <1>2, <2>1 DEF ReportTypes
  <2>5. ~ late' => ~ late /\ c.mounted
    BY <2>1, <2>2 DEF D!Crosses
  <2>6. ~ late /\ c.at = "done" /\ settings.report # NoData => c.reply = settings.report
    BY <1>1 DEF Agrees
  <2>7. (c.mounted => ~ loadingReport') /\ (loadingReport' => loadingReport)
    BY <2>1, <2>2 DEF D!Settled
  <2>8. ~ late' /\ ~ failedReport' /\ settings.report # NoData => shown' = settings.report
    BY <2>1, <2>5, <2>6
  <2> QED BY <1>1, <2>1, <2>3, <2>4, <2>5, <2>7, <2>8, ReportEndKeeps
<1> QED BY <1>3, <1>4, <1>5

LEMMA ReportNext == ReportInv /\ [D!Next]_D!vars => ReportInv'
<1> SUFFICES ASSUME ReportInv, [D!Next]_D!vars PROVE ReportInv'
  OBVIOUS
<1>1. CASE D!GoesOn \/ D!SavesSettings \/ UNCHANGED D!vars
  BY <1>1, ReportSessionKeeps
<1>2. CASE D!Closes \/ D!Refresh \/ \E f \in BOOLEAN : D!Opens(f)
  BY <1>2, ReportDialogKeeps
<1>3. ASSUME NEW s \in ReportSlots, D!Looks(s) \/ D!Reads(s) \/ D!Writes(s) \/ D!Fails(s) \/ D!LookEnds(s) \/ D!Ends(s)
      PROVE  ReportInv'
  BY <1>3, ReportHandlerKeeps, ReportWritesKeeps, ReportEndsKeeps
<1> QED BY <1>1, <1>2, <1>3 DEF D!Next

LEMMA ReportGives == ReportInv => D!TypeOK /\ D!PrintsWhatIsShown /\ D!BusyIsAsked
<1> SUFFICES ASSUME ReportInv PROVE D!TypeOK /\ D!PrintsWhatIsShown
  BY DEF ReportInv
<1>1. D!TypeOK
  BY DEF ReportInv, ReportTypes, D!TypeOK
<1>2. D!PrintsWhatIsShown
  BY DEF ReportInv, Shows, D!PrintsWhatIsShown
<1> QED BY <1>1, <1>2

-----------------------------------------------------------------------------
(* The generator of polls.                                                     *)
MadePolls == [number : Nat, place : Places, edited : BOOLEAN, press : Nat]
PollOK(q) == q \in MadePolls /\ q.press \in 1 .. presses
Creations ==
    [room : {"this", "other"}, at : {"sent", "done", "listing", "listed"},
     polls : SUBSET MadePolls, gone : BOOLEAN]

(* Types, with what is under way.                                                *)
Generating ==
    /\ presses \in Nat /\ \A q \in created : PollOK(q)
    /\ route \in [room : {"this", "other", "elsewhere"}, poll : created \cup {NoData}]
    /\ batch = NoData \/ batch \in [number : Nat, picked : SUBSET Places, edited : SUBSET Places]
    /\ openGenerator \in BOOLEAN /\ writing \in BOOLEAN /\ failedGenerator \in BOOLEAN
    /\ again \in BOOLEAN /\ unread \in BOOLEAN /\ (openGenerator => G!Workbench)
    /\ creating = NoData \/
          /\ creating \in Creations /\ creating.polls # {}
          /\ \A q \in creating.polls : PollOK(q)
          /\ creating.room = "this" /\ creating.at # "sent" => creating.polls \subseteq created

(* The list is one that the server had.                                          *)
Given   == [items : SUBSET created]
ListReplies == Given \cup {NoData}
Lists   == [data : Given, fetch : G!Fetches, reply : ListReplies, stale : BOOLEAN]
Listing == bench \in Lists /\ (bench.fetch = "answered" => bench.reply \in Given)

(* What is created is not there, and what its request asks for is not either.     *)
SameKey(q, r) == q.number = r.number /\ q.place = r.place
Single(polls) == \A q, r \in polls : SameKey(q, r) => q = r
NoTwins ==
    /\ creating # NoData => Single(creating.polls)
    /\ again \/ /\ Single(created)
                /\ creating # NoData /\ creating.at = "sent" /\ creating.room = "this" =>
                      \A q \in creating.polls, r \in created : ~ SameKey(q, r)

(* While a creation waits its list is on the way; once it was read the list has   *)
(* what was created, and every answer still to come.                             *)
HasIn(b, polls) == polls \subseteq b.data.items /\ (b.fetch = "answered" => polls \subseteq b.reply.items)
Has(polls) == HasIn(bench, polls)
Waiting ==
    creating # NoData /\ creating.at = "listing" =>
       /\ creating.room = "this" /\ bench.fetch # "idle"
       /\ bench.fetch = "answered" => creating.polls \subseteq bench.reply.items
Chosen ==
    /\ Waiting
    /\ creating # NoData /\ creating.room = "this" /\ creating.at = "listed" /\ ~ unread => Has(creating.polls)
    /\ G!Here /\ route.poll # NoData /\ ~ unread => Has({route.poll})

GenInv == Generating /\ Listing /\ NoTwins /\ Chosen

-----------------------------------------------------------------------------
LEMMA GenInit == G!Init => GenInv
<1> SUFFICES ASSUME G!Init PROVE GenInv
  OBVIOUS
<1>1. Generating
  BY DEF G!Init, Generating, G!Workbench
<1>2. Listing
  <2>1. bench = [data |-> G!ListOf({}), fetch |-> "idle", reply |-> NoData, stale |-> FALSE]
    BY DEF G!Init, G!Written, G!Unused
  <2>2. NoData \in ListReplies /\ G!ListOf({}) \in Given
    BY DEF ListReplies, Given, G!ListOf
  <2> QED BY <2>1, <2>2 DEF Listing, G!Fetches, Lists
<1>3. NoTwins /\ Chosen
  BY DEF G!Init, NoTwins, Chosen, Waiting, Single
<1> QED BY <1>1, <1>2, <1>3 DEF GenInv

(* The polls of a press: one of each picked place.                               *)
LEMMA PickedPolls ==
    ASSUME NEW b \in [number : Nat, picked : SUBSET Places, edited : SUBSET Places],
           b.picked # {}, NEW n \in Nat
    PROVE  /\ G!Picked(b, n) \subseteq MadePolls /\ G!Picked(b, n) # {} /\ Single(G!Picked(b, n))
           /\ \A q \in G!Picked(b, n) : q.press = n
<1>1. \A p \in b.picked : G!Poll(b.number, p, p \in b.edited, n) \in MadePolls
  <2> TAKE p \in b.picked
  <2>1. (p \in b.edited) \in BOOLEAN
    OBVIOUS
  <2> QED BY <2>1 DEF G!Poll, MadePolls
<1>2. \A q \in G!Picked(b, n) : q = G!Poll(b.number, q.place, q.place \in b.edited, n) /\ q.press = n
  BY DEF G!Picked, G!Poll
<1>3. G!Picked(b, n) \subseteq MadePolls
  BY <1>1 DEF G!Picked
<1>4. Single(G!Picked(b, n))
  BY <1>2 DEF Single, SameKey
<1>5. G!Picked(b, n) # {}
  BY DEF G!Picked
<1> QED BY <1>2, <1>3, <1>4, <1>5

(* The first of a request's polls is one of them.                                *)
LEMMA FirstIsOne ==
    ASSUME NEW polls \in SUBSET MadePolls, polls # {}
    PROVE  G!First(polls) \in polls
<1>1. {q.place : q \in polls} \in SUBSET Places /\ {q.place : q \in polls} # {}
  BY DEF MadePolls
<1>2. PICK p \in {q.place : q \in polls} : \A x \in {q.place : q \in polls} : p <= x
  BY <1>1, PartsAssumption DEF PartsAssumption, G!GeneratorAssumption
<1>3. \E q \in polls : \A r \in polls : q.place <= r.place
  BY <1>2
<1> QED BY <1>3 DEF G!First

(* A list that is loaded always is.                                              *)
LEMMA AlwaysLoaded == Generating /\ Listing => G!Loaded(bench)
<1> SUFFICES ASSUME Generating, Listing PROVE G!Loaded(bench)
  OBVIOUS
<1>1. bench.data \in [items : SUBSET MadePolls]
  BY DEF Generating, Listing, Lists, Given, PollOK
<1>2. bench.data \in [items : SUBSET [number : Nat, place : Places, edited : BOOLEAN, press : Nat]]
  BY <1>1 DEF MadePolls
<1> QED BY <1>2, PartsAssumption DEF PartsAssumption, G!GeneratorAssumption, G!Loaded

(* The dialog: what is generated, picked and edited touches neither server nor     *)
(* list.                                                                        *)
LEMMA GeneratorDialogKeeps ==
    ASSUME GenInv,
           \/ G!Opens \/ G!Closes \/ G!Generate \/ G!Generated \/ G!GenerateFails \/ G!PickAll
           \/ \E p \in Places : G!Pick(p) \/ G!EditTitle(p)
           \/ UNCHANGED G!vars
    PROVE  GenInv'
<1> USE DEF GenInv
<1>1. /\ UNCHANGED <<created, bench, route, creating, presses, again, unread>>
      /\ openGenerator' = openGenerator \/ openGenerator' = FALSE \/ (openGenerator' = TRUE /\ G!Workbench)
      /\ writing' = writing \/ writing' = FALSE \/ writing' = TRUE
      /\ failedGenerator' = failedGenerator \/ failedGenerator' = FALSE \/ failedGenerator' = TRUE
  BY DEF G!Opens, G!Closes, G!Generate, G!Generated, G!GenerateFails, G!PickAll, G!Pick,
         G!EditTitle, G!vars, G!past,
         G!dialog
<1>2. batch' = NoData \/ batch' \in [number : Nat, picked : SUBSET Places, edited : SUBSET Places]
  <2> DEFINE Batches == [number : Nat, picked : SUBSET Places, edited : SUBSET Places]
  <2>1. batch = NoData \/ batch \in Batches
    BY DEF Generating
  <2>2. CASE G!Generated
    <3>1. CASE batch = NoData
      BY <2>2, <3>1 DEF G!Generated, G!Batch
    <3>2. CASE batch # NoData
      BY <2>1, <2>2, <3>2 DEF G!Generated, G!Batch
    <3> QED BY <3>1, <3>2
  <2>3. CASE G!PickAll
    BY <2>1, <2>3 DEF G!PickAll
  <2>4. ASSUME NEW p \in Places, G!Pick(p) PROVE batch' \in Batches
    BY <2>1, <2>4 DEF G!Pick, G!Toggles
  <2>5. ASSUME NEW p \in Places, G!EditTitle(p) PROVE batch' \in Batches
    BY <2>1, <2>5 DEF G!EditTitle
  <2>6. CASE G!Opens \/ G!Closes \/ G!Generate \/ G!GenerateFails \/ UNCHANGED G!vars
    BY <2>1, <2>6 DEF G!Opens, G!Closes, G!Generate, G!GenerateFails, G!vars, G!dialog
  <2> QED BY <2>2, <2>3, <2>4, <2>5, <2>6
<1>3. openGenerator' \in BOOLEAN /\ writing' \in BOOLEAN /\ failedGenerator' \in BOOLEAN
  BY <1>1 DEF Generating
<1>4. Generating'
  BY <1>1, <1>2, <1>3 DEF Generating, PollOK, G!Workbench
<1>5. Listing'
  BY <1>1 DEF Listing, Lists, Given, ListReplies
<1>6. NoTwins' /\ Chosen'
  BY <1>1 DEF NoTwins, Chosen, Waiting, Has, HasIn, G!Here
<1> QED BY <1>4, <1>5, <1>6

(* The press: what it asks for is not there, or it is noted.                      *)
LEMMA GeneratorCreateKeeps == ASSUME GenInv, G!Create PROVE GenInv'
<1> USE DEF GenInv
<1> DEFINE polls == G!Picked(batch, presses + 1)
<1>1. /\ creating = NoData /\ openGenerator /\ batch # NoData /\ batch.picked # {}
      /\ presses' = presses + 1 /\ failedGenerator' = FALSE
      /\ creating' = [room |-> route.room, at |-> "sent", polls |-> polls, gone |-> FALSE]
      /\ again' = (again \/ (G!Here /\ G!Known(polls)))
      /\ UNCHANGED <<created, bench, route, openGenerator, batch, writing, unread>>
  BY DEF G!Create, G!MayCreate
<1>2. /\ polls \subseteq MadePolls /\ polls # {} /\ Single(polls) /\ presses + 1 \in 1 .. presses'
      /\ \A q \in polls : q.press = presses + 1
  BY <1>1, PickedPolls DEF Generating
<1> HIDE DEF polls
<1>3. /\ creating' \in Creations /\ creating'.polls = polls /\ creating'.at = "sent"
      /\ creating'.room = route.room
  <2>1. route.room \in {"this", "other"}
    BY <1>1 DEF Generating, G!Workbench
  <2> QED BY <1>1, <1>2, <2>1 DEF Creations
<1>4. again' \in BOOLEAN
  BY <1>1 DEF Generating, G!Known, G!Here
<1>5. Generating'
  <2>1. \A q \in MadePolls : PollOK(q) => PollOK(q)'
    BY <1>1 DEF PollOK, Generating
  <2>2. \A q \in polls : PollOK(q)'
    BY <1>1, <1>2 DEF PollOK
  <2>3. presses' \in Nat /\ \A q \in created : PollOK(q)'
    BY <1>1, <2>1 DEF Generating, PollOK
  <2> QED BY <1>1, <1>2, <1>3, <1>4, <2>2, <2>3 DEF Generating, G!Workbench
<1>6. Listing' /\ Chosen'
  BY <1>1, <1>3 DEF Listing, Lists, Given, ListReplies, Chosen, Waiting, Has, HasIn, G!Here
<1>7. ~ again' /\ route.room = "this" => \A q \in polls, r \in created : ~ SameKey(q, r)
  BY <1>1 DEF G!Known, SameKey, G!Here
<1>8. NoTwins'
  BY <1>1, <1>2, <1>3, <1>7 DEF NoTwins
<1> QED BY <1>5, <1>6, <1>8

LEMMA CommitsKeeps == ASSUME GenInv, G!Commits PROVE GenInv'
<1> USE DEF GenInv
<1>1. /\ creating # NoData /\ creating.at = "sent"
      /\ created' = IF creating.room = "this" THEN created \cup creating.polls ELSE created
      /\ creating' = [creating EXCEPT !.at = "done"]
      /\ UNCHANGED <<bench, route, openGenerator, batch, writing, failedGenerator, presses, again, unread>>
  BY DEF G!Commits, G!At, G!dialog, G!past
<1>2. creating \in Creations
  BY <1>1 DEF Generating
<1>3. /\ creating' \in Creations /\ creating'.polls = creating.polls /\ creating'.at = "done"
      /\ creating'.room = creating.room
  BY <1>1, <1>2 DEF Creations
<1>4. created \subseteq created' /\ (creating.room = "this" => creating.polls \subseteq created')
  BY <1>1
<1>5. Generating'
  <2>1. \A q \in created' : PollOK(q)'
    BY <1>1 DEF Generating, PollOK
  <2>2. \A q \in creating.polls : PollOK(q)'
    BY <1>1 DEF Generating, PollOK
  <2> QED BY <1>1, <1>3, <1>4, <2>1, <2>2 DEF Generating, G!Workbench
<1>6. Listing'
  BY <1>1, <1>4 DEF Listing, Lists, Given, ListReplies
<1>7. NoTwins'
  BY <1>1, <1>3 DEF NoTwins, Single, SameKey
<1>8. Chosen'
  BY <1>1, <1>3 DEF Chosen, Waiting, Has, HasIn, G!Here
<1> QED BY <1>5, <1>6, <1>7, <1>8

LEMMA FailsKeeps == ASSUME GenInv, G!CreateFails PROVE GenInv'
<1> USE DEF GenInv
<1>1. /\ creating # NoData /\ creating' = NoData /\ failedGenerator' = (failedGenerator \/ ~ creating.gone)
      /\ UNCHANGED <<created, bench, route, openGenerator, batch, writing, presses, again, unread>>
  BY DEF G!CreateFails, G!At, G!past
<1>2. failedGenerator' \in BOOLEAN
  BY <1>1 DEF Generating
<1>3. Generating' /\ Listing'
  BY <1>1, <1>2 DEF Generating, Listing, Lists, Given, ListReplies, PollOK, G!Workbench
<1>4. NoTwins' /\ Chosen'
  BY <1>1 DEF NoTwins, Chosen, Waiting, Has, HasIn, G!Here
<1> QED BY <1>3, <1>4

(* A step of a request that is committed leaves its polls as they are.            *)
LEMMA GeneratorStepKeeps ==
    ASSUME GenInv, creating # NoData, NEW at \in {"listing", "listed"}, creating.at # "sent",
           creating' = [creating EXCEPT !.at = at], unread' \in BOOLEAN,
           UNCHANGED <<created, route, openGenerator, batch, writing, failedGenerator, presses, again>>,
           Listing', G!Here /\ route.poll # NoData /\ ~ unread' => HasIn(bench', {route.poll}),
           creating.room = "this" /\ at = "listed" /\ ~ unread' => HasIn(bench', creating.polls),
           at = "listing" => creating.room = "this" /\ bench'.fetch = "asked"
    PROVE  GenInv'
<1> USE DEF GenInv
<1>1. creating \in Creations
  BY DEF Generating
<1>2. /\ creating' \in Creations /\ creating'.polls = creating.polls /\ creating'.at = at
      /\ creating'.room = creating.room
  BY <1>1 DEF Creations
<1>3. Generating'
  BY <1>2 DEF Generating, PollOK, G!Workbench
<1>4. NoTwins'
  BY <1>2 DEF NoTwins
<1>5. Chosen'
  BY <1>2 DEF Chosen, Waiting, Has, HasIn, G!Here
<1> QED BY <1>3, <1>4, <1>5

(* A list that is asked for again, or noted as stale, keeps what it has.            *)
LEMMA ListAgain ==
    ASSUME Generating, Listing, created' = created,
           \/ bench' = G!Refetched(bench) \/ bench' = G!Marked(bench) \/ bench' = G!GivenUp(bench)
    PROVE  /\ Listing' /\ bench'.data = bench.data
           /\ bench'.fetch = "answered" => bench.fetch = "answered" /\ bench'.reply = bench.reply
           /\ bench' = G!Refetched(bench) => bench'.fetch = "asked"
<1>1. bench \in Lists /\ NoData \in ListReplies /\ Lists' = Lists /\ Given' = Given
  BY DEF Listing, ListReplies, Given, Lists
<1>2. /\ G!Refetched(bench) = [bench EXCEPT !.fetch = "asked", !.reply = NoData]
      /\ G!Marked(bench) = [bench EXCEPT !.stale = TRUE]
  BY AlwaysLoaded DEF G!Refetched, G!Marked
<1>3. CASE bench' = G!Refetched(bench)
  BY <1>1, <1>2, <1>3 DEF Listing, Lists, G!Fetches
<1>4. CASE bench' = G!Marked(bench)
  BY <1>1, <1>2, <1>4 DEF Listing, Lists, G!Fetches
<1>5. CASE bench' = G!GivenUp(bench)
  BY <1>1, <1>2, <1>5 DEF Listing, Lists, G!Fetches, G!GivenUp
<1>6. bench' = G!Refetched(bench) => bench'.fetch = "asked"
  BY <1>1, <1>2 DEF Lists
<1> QED BY <1>3, <1>4, <1>5, <1>6

LEMMA GeneratorCreatedKeeps == ASSUME GenInv, G!Created PROVE GenInv'
<1> USE DEF GenInv
<1>1. /\ creating # NoData /\ creating.at = "done"
      /\ UNCHANGED <<created, route, openGenerator, batch, writing, failedGenerator, presses, again>>
  BY DEF G!Created, G!At, G!dialog
<1>2. CASE creating.room = "this" /\ G!Here /\ bench' = G!Refetched(bench) /\ UNCHANGED unread
           /\ creating' = [creating EXCEPT !.at = "listing"]
  <2>1. Listing' /\ bench'.data = bench.data /\ bench'.fetch = "asked"
    BY <1>1, <1>2, ListAgain
  <2>2. G!Here /\ route.poll # NoData /\ ~ unread' => HasIn(bench', {route.poll})
    BY <1>1, <1>2, <2>1 DEF Has, HasIn, Chosen
  <2> QED BY <1>1, <1>2, <2>1, <2>2, GeneratorStepKeeps DEF Generating
<1>3. CASE creating.room = "this" /\ unread' = TRUE /\ creating' = [creating EXCEPT !.at = "listed"]
           /\ (bench' = G!Refetched(bench) \/ bench' = G!Marked(bench))
  <2>1. Listing'
    BY <1>1, <1>3, ListAgain
  <2> QED BY <1>1, <1>3, <2>1, GeneratorStepKeeps
<1>4. CASE creating.room = "other" /\ creating' = [creating EXCEPT !.at = "listed"]
           /\ UNCHANGED <<bench, unread>>
  <2>1. Listing'
    BY <1>1, <1>4 DEF Listing, Lists, Given, ListReplies
  <2>2. G!Here /\ route.poll # NoData /\ ~ unread' => HasIn(bench', {route.poll})
    BY <1>1, <1>4 DEF Has, HasIn, Chosen
  <2> QED BY <1>1, <1>4, <2>1, <2>2, GeneratorStepKeeps DEF Generating
<1> QED BY <1>2, <1>3, <1>4 DEF G!Created, G!Awaited

(* What a mounted list becomes.                                                  *)
LEMMA MountedList ==
    ASSUME Listing
    PROVE  LET b == G!Mounted(bench) IN
           /\ b \in Lists /\ b.data = bench.data
           /\ b.fetch = "answered" => bench.fetch = "answered" /\ b.reply = bench.reply
           /\ b.fetch = "idle" => bench.fetch = "idle"
           /\ bench.fetch # "idle" => b = bench
  BY DEF Listing, Lists, G!Mounted, G!Fetched, G!Idle, G!Fetches

LEMMA SendsKeeps == ASSUME GenInv, G!Sends PROVE GenInv'
<1> USE DEF GenInv
<1>1. /\ creating # NoData /\ creating.at = "listed" /\ creating' = NoData
      /\ openGenerator' = (openGenerator /\ creating.gone)
      /\ UNCHANGED <<created, batch, writing, failedGenerator, presses, again, unread>>
  BY DEF G!Sends, G!At, G!past
<1>2. /\ G!First(creating.polls) \in creating.polls /\ creating.room \in {"this", "other"}
      /\ creating.room = "this" => creating.polls \subseteq created
  BY <1>1, FirstIsOne DEF Generating, Creations
<1>3. creating.gone \in BOOLEAN /\ openGenerator \in BOOLEAN
  BY <1>1 DEF Generating, Creations
<1>4. /\ route' \in [room : {"this", "other", "elsewhere"}, poll : created \cup {NoData}]
      /\ G!Workbench => G!Workbench'
      /\ G!Here' /\ route'.poll # NoData => creating.room = "this" /\ route'.poll = G!First(creating.polls)
  <2>1. CASE ~ G!Workbench
    BY <2>1 DEF G!Sends, Generating, G!Workbench, G!Here
  <2>2. CASE G!Workbench /\ creating.room = "this"
    <3>1. route' = [room |-> "this", poll |-> G!First(creating.polls)]
      BY <2>2 DEF G!Sends
    <3> QED BY <1>2, <2>2, <3>1 DEF G!Workbench, G!Here
  <2>3. CASE G!Workbench /\ creating.room = "other"
    <3>1. route' = [room |-> "other", poll |-> NoData]
      BY <2>3 DEF G!Sends
    <3> QED BY <1>2, <2>3, <3>1 DEF G!Workbench, G!Here
  <2> QED BY <1>2, <2>1, <2>2, <2>3
<1>5. openGenerator' \in BOOLEAN /\ (openGenerator' => G!Workbench')
  BY <1>1, <1>3, <1>4 DEF Generating
<1>6. Generating'
  BY <1>1, <1>4, <1>5 DEF Generating, PollOK
<1>7. /\ Listing' /\ bench'.data = bench.data
      /\ bench'.fetch = "answered" => bench.fetch = "answered" /\ bench'.reply = bench.reply
  <2>1. bench' = bench \/ bench' = G!Mounted(bench)
    BY DEF G!Sends
  <2> QED BY <1>1, <2>1, MountedList DEF Listing, Lists, Given, ListReplies
<1>8. NoTwins'
  BY <1>1 DEF NoTwins
<1>9. G!Here' /\ route'.poll # NoData /\ ~ unread' => HasIn(bench', {route'.poll})
  <2> SUFFICES ASSUME G!Here', route'.poll # NoData, ~ unread' PROVE HasIn(bench', {route'.poll})
    OBVIOUS
  <2>1. Has(creating.polls) /\ route'.poll \in creating.polls
    BY <1>1, <1>2, <1>4 DEF Chosen
  <2> QED BY <1>7, <2>1 DEF Has, HasIn
<1>10. Chosen'
  BY <1>1, <1>9 DEF Chosen, Waiting, Has
<1> QED BY <1>6, <1>7, <1>8, <1>10

(* The host goes and comes back to a new dialog, or takes it to another room.       *)
LEMMA ComesKeeps ==
    ASSUME GenInv, NEW room \in {"this", "other"}, G!Comes(room),
           UNCHANGED <<created, openGenerator, batch, writing, failedGenerator, creating, presses, again, unread>>
    PROVE  GenInv'
<1> USE DEF GenInv
<1>1. route' = [room |-> room, poll |-> NoData] /\ (bench' = G!Mounted(bench) \/ bench' = bench)
  BY DEF G!Comes
<1>2. Generating'
  BY <1>1 DEF Generating, PollOK, G!Workbench
<1>3. /\ Listing' /\ bench'.data = bench.data
      /\ bench'.fetch = "answered" => bench.fetch = "answered" /\ bench'.reply = bench.reply
      /\ bench'.fetch = "idle" => bench.fetch = "idle"
  BY <1>1, MountedList DEF Listing, Lists, Given, ListReplies
<1>4. NoTwins'
  BY DEF NoTwins
<1>5. Chosen'
  BY <1>1, <1>3 DEF Chosen, Waiting, Has, HasIn
<1> QED BY <1>2, <1>3, <1>4, <1>5

LEMMA MovesKeep ==
    ASSUME GenInv, G!Leaves \/ \E room \in {"this", "other"} : G!Enters(room) \/ G!Crosses(room)
    PROVE  GenInv'
<1> USE DEF GenInv
<1>1. ASSUME NEW room \in {"this", "other"}, G!Enters(room) \/ G!Crosses(room) PROVE GenInv'
  BY <1>1, ComesKeeps DEF G!Enters, G!Crosses, G!dialog, G!past
<1>2. CASE G!Leaves
  <2>1. /\ route' = [room |-> "elsewhere", poll |-> NoData] /\ openGenerator' = FALSE /\ batch' = NoData
        /\ writing' = FALSE /\ failedGenerator' = FALSE /\ again' = (again \/ creating # NoData)
        /\ creating' = IF creating = NoData THEN NoData ELSE [creating EXCEPT !.gone = TRUE]
        /\ UNCHANGED <<created, bench, presses, unread>>
    BY <1>2 DEF G!Leaves
  <2>2. again' \in BOOLEAN
    BY <2>1 DEF Generating
  <2>3. creating' # NoData =>
           /\ creating # NoData /\ creating' \in Creations /\ creating'.room = creating.room
           /\ creating'.polls = creating.polls /\ creating'.at = creating.at
    BY <2>1 DEF Generating, Creations
  <2>4. Generating'
    BY <2>1, <2>2, <2>3 DEF Generating, PollOK
  <2>5. Listing' /\ NoTwins'
    BY <2>1, <2>3 DEF Listing, Lists, Given, ListReplies, NoTwins
  <2>6. Chosen'
    BY <2>1, <2>3 DEF Chosen, Waiting, Has, HasIn, G!Here
  <2> QED BY <2>4, <2>5, <2>6
<1> QED BY <1>1, <1>2

(* The wait for the list ends, whatever became of its fetch.                      *)
LEMMA WaitEnds ==
    ASSUME GenInv, G!Waited, unread' \in BOOLEAN, Listing',
           UNCHANGED <<created, route, openGenerator, batch, writing, failedGenerator, presses, again>>,
           G!Here /\ route.poll # NoData /\ ~ unread' => HasIn(bench', {route.poll}),
           creating # NoData /\ creating.room = "this" /\ creating.at \in {"listing", "listed"} /\ ~ unread'
              => HasIn(bench', creating.polls)
    PROVE  GenInv'
<1> USE DEF GenInv
<1>1. CASE creating # NoData /\ creating.at = "listing"
  <2>1. creating' = [creating EXCEPT !.at = "listed"]
    BY <1>1 DEF G!Waited, G!At
  <2> QED BY <1>1, <2>1, GeneratorStepKeeps
<1>2. CASE ~ (creating # NoData /\ creating.at = "listing")
  <2>1. creating' = creating
    BY <1>2 DEF G!Waited, G!At
  <2>2. Generating' /\ NoTwins'
    BY <2>1 DEF Generating, NoTwins, PollOK, G!Workbench
  <2>3. Chosen'
    BY <1>2, <2>1 DEF Chosen, Waiting, Has, HasIn, G!Here
  <2> QED BY <2>2, <2>3
<1> QED BY <1>1, <1>2

(* The list is asked for again, or its fetch fails: the wait for it is over.        *)
LEMMA ListMissedKeeps == ASSUME GenInv, G!Asks \/ G!ListFails PROVE GenInv'
<1> USE DEF GenInv
<1>1. /\ G!Waited /\ unread' = (unread \/ (creating # NoData /\ creating.at = "listing"))
      /\ bench' = G!Refetched(bench) \/ bench' = G!GivenUp(bench)
      /\ UNCHANGED <<created, route, openGenerator, batch, writing, failedGenerator, presses, again>>
  BY DEF G!Asks, G!ListFails, G!Missed, G!At, G!dialog
<1>2. /\ Listing' /\ bench'.data = bench.data
      /\ bench'.fetch = "answered" => bench.fetch = "answered" /\ bench'.reply = bench.reply
  BY <1>1, ListAgain
<1>3. unread' \in BOOLEAN
  BY <1>1 DEF Generating
<1>4. \A polls : HasIn(bench, polls) => HasIn(bench', polls)
  BY <1>2 DEF Has, HasIn
<1>5. G!Here /\ route.poll # NoData /\ ~ unread' => HasIn(bench', {route.poll})
  BY <1>1, <1>4 DEF Chosen, Has
<1>6. creating # NoData /\ creating.room = "this" /\ creating.at \in {"listing", "listed"} /\ ~ unread'
         => HasIn(bench', creating.polls)
  BY <1>1, <1>4 DEF Chosen, Has
<1> QED BY <1>1, <1>2, <1>3, <1>5, <1>6, WaitEnds

(* What the server answers with is all there is; what is stored is what was asked.  *)
LEMMA ServesListKeeps == ASSUME GenInv, G!Serves PROVE GenInv'
<1> USE DEF GenInv
<1>1. /\ bench.fetch = "asked" /\ bench' = [bench EXCEPT !.fetch = "answered", !.reply = G!ListOf(created)]
      /\ UNCHANGED <<created, route, openGenerator, batch, writing, failedGenerator, creating, presses, again, unread>>
  BY DEF G!Serves, G!Answered, G!dialog, G!past
<1>2. /\ bench \in Lists /\ Lists' = Lists /\ Given' = Given /\ G!ListOf(created) \in Given \cap ListReplies
      /\ G!ListOf(created).items = created
  BY <1>1 DEF Listing, ListReplies, Given, Lists, G!ListOf
<1>3. Listing' /\ bench'.data = bench.data /\ bench'.fetch = "answered" /\ bench'.reply.items = created
  BY <1>1, <1>2 DEF Listing, Lists, G!Fetches
<1>4. Generating' /\ NoTwins'
  BY <1>1 DEF Generating, NoTwins, PollOK, G!Workbench
<1>5. Chosen'
  <2>1. route.poll # NoData => {route.poll} \in SUBSET created
    BY DEF Generating
  <2>2. creating # NoData /\ creating.room = "this" /\ creating.at # "sent" => creating.polls \in SUBSET created
    BY DEF Generating
  <2>3. Waiting'
    BY <1>1, <1>3, <2>2 DEF Chosen, Waiting
  <2> QED BY <1>1, <1>3, <2>1, <2>2, <2>3 DEF Chosen, Has, HasIn, G!Here
<1> QED BY <1>3, <1>4, <1>5

LEMMA StoresListKeeps == ASSUME GenInv, G!Stores PROVE GenInv'
<1> USE DEF GenInv
<1>1. /\ bench.fetch = "answered" /\ G!Waited
      /\ bench' = [data |-> bench.reply, fetch |-> "idle", reply |-> NoData, stale |-> FALSE]
      /\ unread' = (unread /\ bench.reply.items # created)
      /\ UNCHANGED <<created, route, openGenerator, batch, writing, failedGenerator, presses, again>>
  BY DEF G!Stores, G!Stored, G!dialog
<1>2. /\ bench \in Lists /\ NoData \in ListReplies /\ Lists' = Lists /\ bench.reply \in Given
  BY <1>1 DEF Listing, ListReplies, Given, Lists
<1>3. Listing' /\ bench'.data = bench.reply /\ bench'.fetch = "idle"
  BY <1>1, <1>2 DEF Listing, Lists, G!Fetches
<1>4. unread' \in BOOLEAN
  BY <1>1 DEF Generating
<1>5. \A polls \in SUBSET created : bench.reply.items = created \/ polls \subseteq bench.reply.items => HasIn(bench', polls)
  BY <1>3 DEF Has, HasIn
<1>6. G!Here /\ route.poll # NoData /\ ~ unread' => HasIn(bench', {route.poll})
  <2>1. route.poll # NoData => {route.poll} \in SUBSET created
    BY DEF Generating
  <2>2. G!Here /\ route.poll # NoData /\ ~ unread' =>
           bench.reply.items = created \/ {route.poll} \subseteq bench.reply.items
    BY <1>1 DEF Chosen, Has, HasIn
  <2> QED BY <1>5, <2>1, <2>2
<1>7. creating # NoData /\ creating.room = "this" /\ creating.at \in {"listing", "listed"} /\ ~ unread'
         => HasIn(bench', creating.polls)
  <2>1. creating # NoData /\ creating.room = "this" /\ creating.at # "sent" => creating.polls \in SUBSET created
    BY DEF Generating
  <2>2. creating # NoData /\ creating.room = "this" /\ creating.at \in {"listing", "listed"} /\ ~ unread' =>
           bench.reply.items = created \/ creating.polls \subseteq bench.reply.items
    BY <1>1 DEF Chosen, Waiting, Has, HasIn
  <2> QED BY <1>5, <2>1, <2>2
<1> QED BY <1>1, <1>3, <1>4, <1>6, <1>7, WaitEnds

LEMMA GenNext == GenInv /\ [G!Next]_G!vars => GenInv'
<1> SUFFICES ASSUME GenInv, [G!Next]_G!vars PROVE GenInv'
  OBVIOUS
<1>1. CASE \/ G!Opens \/ G!Closes \/ G!Generate \/ G!Generated \/ G!GenerateFails \/ G!PickAll
           \/ \E p \in Places : G!Pick(p) \/ G!EditTitle(p)
           \/ UNCHANGED G!vars
  BY <1>1, GeneratorDialogKeeps
<1>2. CASE G!Create \/ G!Commits \/ G!CreateFails \/ G!Created \/ G!Sends
  BY <1>2, GeneratorCreateKeeps, CommitsKeeps, FailsKeeps, GeneratorCreatedKeeps,
      SendsKeeps
<1>3. CASE G!Leaves \/ \E room \in {"this", "other"} : G!Enters(room) \/ G!Crosses(room)
  BY <1>3, MovesKeep
<1>4. CASE G!Asks \/ G!ListFails \/ G!Serves \/ G!Stores
  BY <1>4, ListMissedKeeps, ServesListKeeps, StoresListKeeps
<1> QED BY <1>1, <1>2, <1>3, <1>4 DEF G!Next

LEMMA GenGives == GenInv => G!TypeOK /\ G!CreatedOnce /\ G!SelectedIsListed
<1> SUFFICES ASSUME GenInv PROVE G!TypeOK /\ G!CreatedOnce /\ G!SelectedIsListed
  OBVIOUS
<1> USE DEF GenInv
<1>1. G!TypeOK
  BY DEF Generating, Listing, Lists, Given, G!TypeOK, G!IsPoll, PollOK, MadePolls,
         G!Loaded
<1>2. G!CreatedOnce
  BY DEF NoTwins, Single, SameKey, G!CreatedOnce
<1>3. G!SelectedIsListed
  BY DEF Chosen, Has, HasIn, G!SelectedIsListed
<1> QED BY <1>1, <1>2, <1>3

-----------------------------------------------------------------------------
(* The host's tokens.                                                          *)
Renewals == [at : {"none", "asked", "granted", "denied"}, pair : 0 .. issued]
TokenRequests == [at : T!Stages, pair : 0 .. issued, again : BOOLEAN, excused : BOOLEAN]

(* Types, with what a renewal and a request are.                                 *)
Tokens ==
    /\ issued \in Nat /\ expired \in 0 .. issued /\ lapsed \in 0 .. issued
    /\ elapsed \in 0 .. issued /\ storedTokens \in 0 .. issued
    /\ authed \in [SignInTabs -> BOOLEAN] /\ entering \in [SignInTabs -> 0 .. issued]
    /\ renewal \in [SignInTabs -> Renewals] /\ request \in [SignInTabs -> [SignInCalls -> TokenRequests]]
    /\ wanted \in BOOLEAN /\ failedRenewal \in BOOLEAN /\ afloat \in BOOLEAN
TokensAwaited ==
    \A t \in SignInTabs, c \in SignInCalls :
       request[t][c].at \in {"before", "after"} => renewal[t].at # "none"

(* Only what was under way at a sign-out can bring tokens back.                  *)
Stands ==
    /\ \A t \in SignInTabs : renewal[t].at = "granted" => renewal[t].pair > expired
    /\ wanted /\ ~ failedRenewal => storedTokens # 0
    /\ ~ wanted /\ ~ afloat => storedTokens = 0 /\ \A t \in SignInTabs : renewal[t].at = "none"

(* A request is refused once, and a second time with a reason.                   *)
Reasons(r) ==
    /\ r.again /\ ~ r.excused => r.at # "refused" /\ (r.at = "sent" => r.pair > expired)
    /\ r.at = "unauthenticated" => r.excused
    /\ storedTokens = 0 /\ r.at # "none" => r.excused
Refusals == \A t \in SignInTabs, c \in SignInCalls : Reasons(request[t][c])

SignInv == Tokens /\ TokensAwaited /\ Stands /\ Refusals

LEMMA SignInit == T!Init => SignInv
<1> SUFFICES ASSUME T!Init PROVE SignInv
  OBVIOUS
<1>1. T!NoRenewal \in Renewals /\ T!Quiet \in TokenRequests /\ issued \in Nat /\ 0 \in 0 .. issued
  BY DEF T!Init, T!NoRenewal, Renewals, T!Quiet, TokenRequests, T!Stages
<1>2. renewal \in [SignInTabs -> Renewals] /\ request \in [SignInTabs -> [SignInCalls -> TokenRequests]]
  BY <1>1 DEF T!Init
<1>a. /\ expired \in 0 .. issued /\ lapsed \in 0 .. issued /\ elapsed \in 0 .. issued
      /\ storedTokens \in 0 .. issued
  BY DEF T!Init
<1>b. authed \in [SignInTabs -> BOOLEAN] /\ entering \in [SignInTabs -> 0 .. issued]
  BY <1>1 DEF T!Init
<1>c. wanted \in BOOLEAN /\ failedRenewal \in BOOLEAN /\ afloat \in BOOLEAN
  BY DEF T!Init
<1>3. Tokens
  BY <1>1, <1>2, <1>a, <1>b, <1>c DEF Tokens
<1>4. TokensAwaited /\ Stands /\ Refusals
  BY DEF T!Init, TokensAwaited, Stands, Refusals, Reasons, T!Quiet, T!NoRenewal
<1> QED BY <1>3, <1>4 DEF SignInv

(* Time: what was just renewed is not refused yet.                               *)
LEMMA AgeingKeeps ==
    ASSUME SignInv, T!AccessExpires \/ T!BrowserSeesExpiry \/ T!RefreshLapses
    PROVE  SignInv'
<1> USE DEF SignInv
<1>1. /\ UNCHANGED <<issued, storedTokens, authed, entering, request, renewal, wanted, failedRenewal, afloat>>
      /\ expired' \in 0 .. issued /\ lapsed' \in 0 .. issued /\ elapsed' \in 0 .. issued
      /\ expired' = expired \/ \A j \in T!JustIssued : expired' < j
  BY DEF T!AccessExpires, T!BrowserSeesExpiry, T!RefreshLapses, T!past, Tokens
<1>2. \A t \in SignInTabs : renewal[t].at = "granted" => renewal[t].pair \in T!JustIssued
  BY DEF T!JustIssued
<1>3. \A t \in SignInTabs, c \in SignInCalls : T!Again(request[t][c]) => request[t][c].pair \in T!JustIssued
  BY DEF T!JustIssued
<1>4. \A t \in SignInTabs : renewal[t].pair \in Nat
  BY DEF Tokens, Renewals
<1>5. Tokens' /\ TokensAwaited'
  BY <1>1 DEF Tokens, TokensAwaited, Renewals, TokenRequests
<1>6. Stands'
  BY <1>1, <1>2, <1>4 DEF Stands
<1>7. Refusals'
  BY <1>1, <1>3 DEF Refusals, Reasons, T!Again
<1> QED BY <1>5, <1>6, <1>7

(* A change to one request.                                                      *)
LEMMA TokenRequestKeeps ==
    ASSUME SignInv, NEW t \in SignInTabs, NEW c \in SignInCalls, NEW r \in TokenRequests,
           request' = [request EXCEPT ![t][c] = r], Reasons(r),
           UNCHANGED <<issued, expired, lapsed, elapsed, storedTokens, authed, entering, T!past>>,
           \/ renewal' = renewal /\ r.at \notin {"before", "after"}
           \/ renewal' = T!Joined(t) /\ storedTokens # 0
    PROVE  SignInv'
<1> USE DEF SignInv
<1>1. /\ request' \in [SignInTabs -> [SignInCalls -> TokenRequests]] /\ request'[t][c] = r
      /\ \A u \in SignInTabs, d \in SignInCalls : u # t \/ d # c => request'[u][d] = request[u][d]
  BY DEF Tokens
<1>2. /\ renewal' \in [SignInTabs -> Renewals]
      /\ \A u \in SignInTabs : renewal'[u] = renewal[u] \/
            (storedTokens # 0 /\ renewal[u].at = "none" /\ renewal'[u].at = "asked")
      /\ renewal' = T!Joined(t) => renewal'[t].at # "none"
  <2>1. CASE renewal' = renewal
    BY <2>1 DEF Tokens, T!Joined
  <2>2. CASE renewal' # renewal
    <3>1. /\ renewal' = [renewal EXCEPT ![t] = [at |-> "asked", pair |-> storedTokens]]
          /\ renewal[t].at = "none" /\ storedTokens # 0
      BY <2>2 DEF T!Joined
    <3>2. [at |-> "asked", pair |-> storedTokens] \in Renewals
      BY DEF Tokens, Renewals
    <3> QED BY <3>1, <3>2 DEF Tokens
  <2> QED BY <2>1, <2>2
<1>3. Tokens'
  BY <1>1, <1>2 DEF Tokens, T!past, Renewals, TokenRequests
<1>4. TokensAwaited'
  BY <1>1, <1>2 DEF TokensAwaited
<1>5. Stands'
  BY <1>2 DEF Stands, T!past
<1>6. Refusals'
  BY <1>1 DEF Refusals, Reasons
<1> QED BY <1>3, <1>4, <1>5, <1>6

LEMMA AsksKeeps ==
    ASSUME SignInv, NEW t \in SignInTabs, NEW c \in SignInCalls, T!Asks(t, c)
    PROVE  SignInv'
<1> USE DEF SignInv
<1> DEFINE q == [T!Quiet EXCEPT !.excused = storedTokens = 0]
<1>1. /\ UNCHANGED <<issued, expired, lapsed, elapsed, storedTokens, authed, entering, T!past>>
      /\ IF storedTokens # 0 /\ storedTokens <= elapsed
         THEN request' = [request EXCEPT ![t][c] = T!Waits(q, "before")] /\ renewal' = T!Joined(t)
         ELSE request' = [request EXCEPT ![t][c] = T!Sent(q, storedTokens)] /\ renewal' = renewal
  BY DEF T!Asks, T!server
<1>2. q \in TokenRequests /\ q.at = "none" /\ ~ q.again /\ (storedTokens = 0 => q.excused)
  <2>1. 0 \in 0 .. issued /\ (storedTokens = 0) \in BOOLEAN
    BY DEF Tokens
  <2> QED BY <2>1 DEF T!Quiet, TokenRequests, T!Stages
<1> HIDE DEF q
<1>3. CASE storedTokens # 0 /\ storedTokens <= elapsed
  <2>1. T!Waits(q, "before") \in TokenRequests /\ Reasons(T!Waits(q, "before"))
    BY <1>2, <1>3 DEF T!Waits, TokenRequests, Reasons, T!Stages
  <2> QED BY <1>1, <1>3, <2>1, TokenRequestKeeps
<1>4. CASE ~ (storedTokens # 0 /\ storedTokens <= elapsed)
  <2>1. T!Sent(q, storedTokens) \in TokenRequests /\ Reasons(T!Sent(q, storedTokens)) /\ T!Sent(q, storedTokens).at = "sent"
    BY <1>2 DEF T!Sent, TokenRequests, Reasons, T!Stages, Tokens
  <2> QED BY <1>1, <1>4, <2>1, TokenRequestKeeps
<1> QED BY <1>3, <1>4

(* What an answer does.                                                          *)
LEMMA TokenAnswerKeeps ==
    ASSUME SignInv, NEW t \in SignInTabs, NEW c \in SignInCalls, T!Answers(t, c) \/ T!ShowsError(t, c)
    PROVE  SignInv'
<1> USE DEF SignInv
<1> DEFINE r == request[t][c]
<1>1. UNCHANGED <<issued, expired, lapsed, elapsed, storedTokens, authed, entering, T!past>>
  BY DEF T!Answers, T!Serves, T!Hears401, T!ShowsError, T!server
<1>2. r \in TokenRequests /\ Reasons(r) /\ request \in [SignInTabs -> [SignInCalls -> TokenRequests]]
  BY DEF Tokens, Refusals
<1>3. T!Quiet \in TokenRequests /\ Reasons(T!Quiet) /\ T!Quiet.at = "none"
  BY DEF T!Quiet, TokenRequests, Reasons, T!Stages, Tokens
<1>4. CASE T!Serves(t, c)
  <2>1. CASE r.pair > expired
    <3>1. request' = [request EXCEPT ![t][c] = T!Quiet] /\ renewal' = renewal
      BY <1>4, <2>1 DEF T!Serves
    <3> QED BY <1>1, <1>3, <3>1, TokenRequestKeeps
  <2>2. CASE ~ (r.pair > expired)
    <3>1. request' = [request EXCEPT ![t][c] = [r EXCEPT !.at = "refused"]] /\ renewal' = renewal
      BY <1>4, <2>2 DEF T!Serves
    <3>2. /\ [r EXCEPT !.at = "refused"] \in TokenRequests
          /\ [r EXCEPT !.at = "refused"].at = "refused"
      BY <1>2 DEF TokenRequests, T!Stages
    <3>3. Reasons([r EXCEPT !.at = "refused"])
      BY <1>2, <1>4, <2>2 DEF T!Serves, Reasons, TokenRequests
    <3> QED BY <1>1, <3>1, <3>2, <3>3, TokenRequestKeeps
  <2> QED BY <2>1, <2>2
<1>5. CASE T!Hears401(t, c)
  <2>1. CASE T!MayRetry(r)
    <3>1. /\ request' = [request EXCEPT ![t][c] = T!Waits(r, "after")]
          /\ renewal' = T!Joined(t) /\ storedTokens # 0
      BY <1>5, <2>1 DEF T!Hears401, T!MayRetry
    <3>2. T!Waits(r, "after") \in TokenRequests /\ Reasons(T!Waits(r, "after"))
      BY <1>2, <2>1 DEF T!Waits, TokenRequests, T!Stages, Reasons, T!MayRetry
    <3> QED BY <1>1, <3>1, <3>2, TokenRequestKeeps
  <2>2. CASE ~ T!MayRetry(r)
    <3> DEFINE e == [r EXCEPT !.at = "unauthenticated"]
    <3>1. request' = [request EXCEPT ![t][c] = e] /\ renewal' = renewal
      BY <1>2, <1>5, <2>2 DEF T!Hears401
    <3>2. e \in TokenRequests /\ e.at = "unauthenticated" /\ Reasons(e)
      BY <1>2, <1>5, <2>2 DEF T!Hears401, TokenRequests, T!Stages, Reasons, T!MayRetry
    <3> HIDE DEF e
    <3> QED BY <1>1, <3>1, <3>2, TokenRequestKeeps
  <2> QED BY <2>1, <2>2
<1>6. CASE T!ShowsError(t, c)
  BY <1>1, <1>3, <1>6, TokenRequestKeeps DEF T!ShowsError
<1> QED BY <1>4, <1>5, <1>6 DEF T!Answers

(* A renewal is granted a pair of its own, or fails.                             *)
LEMMA RenewsKeeps ==
    ASSUME SignInv, NEW t \in SignInTabs, T!Renews(t) \/ T!RenewalLost(t)
    PROVE  SignInv'
<1> USE DEF SignInv
<1>1. /\ renewal[t].at = "asked" /\ issued' \in Nat /\ issued <= issued'
      /\ UNCHANGED <<expired, lapsed, elapsed, storedTokens, authed, entering, request, T!past>>
      /\ \/ issued' = issued + 1 /\ renewal' = [renewal EXCEPT ![t] = [at |-> "granted", pair |-> issued + 1]]
         \/ issued' = issued /\ renewal' = [renewal EXCEPT ![t].at = "denied"]
  BY DEF T!Renews, T!RenewalLost, T!server, Tokens
<1>2. /\ renewal' \in [SignInTabs -> Renewals'] /\ renewal'[t].at \in {"granted", "denied"}
      /\ renewal'[t].at = "granted" => renewal'[t].pair > expired
      /\ \A u \in SignInTabs \ {t} : renewal'[u] = renewal[u]
  <2>1. Renewals \subseteq Renewals' /\ renewal[t] \in Renewals /\ renewal \in [SignInTabs -> Renewals]
    BY <1>1 DEF Tokens, Renewals
  <2>2. CASE renewal' = [renewal EXCEPT ![t] = [at |-> "granted", pair |-> issued + 1]] /\ issued' = issued + 1
    <3>1. [at |-> "granted", pair |-> issued + 1] \in Renewals' /\ issued + 1 > expired
      BY <2>2 DEF Renewals, Tokens
    <3> QED BY <2>1, <2>2, <3>1
  <2>3. CASE renewal' = [renewal EXCEPT ![t].at = "denied"]
    <3>1. [renewal[t] EXCEPT !.at = "denied"] \in Renewals' /\ [renewal[t] EXCEPT !.at = "denied"].at = "denied"
      BY <1>1, <2>1 DEF Renewals
    <3> QED BY <2>1, <2>3, <3>1
  <2> QED BY <1>1, <2>2, <2>3
<1>3. request' \in [SignInTabs -> [SignInCalls -> TokenRequests']]
  BY <1>1 DEF Tokens, TokenRequests
<1>4. Tokens'
  BY <1>1, <1>2, <1>3 DEF Tokens, T!past
<1>5. TokensAwaited' /\ Stands'
  BY <1>1, <1>2 DEF TokensAwaited, Stands, T!past
<1>6. Refusals'
  BY <1>1 DEF Refusals, Reasons
<1> QED BY <1>4, <1>5, <1>6

(* A request that goes on with a pair, or without any.                           *)
LEMMA RequestGoesOn ==
    ASSUME Tokens, NEW r \in TokenRequests, NEW pair \in 0 .. issued
    PROVE  /\ T!GoOn(r, pair) \in TokenRequests
           /\ T!GoOn(r, pair).at = "after" => FALSE
           /\ T!GoOn(r, pair).at = "before" => pair # 0
           /\ T!GoOn(r, pair).at = "none" <=> r.at = "none"
           /\ T!GoOn(r, pair).excused = r.excused
           /\ T!GoOn(r, pair).at = "refused" => T!GoOn(r, pair) = r
           /\ T!GoOn(r, pair).at = "sent" => T!GoOn(r, pair) = r \/ T!GoOn(r, pair).pair = pair
           /\ T!GoOn(r, pair).at = "unauthenticated" => T!GoOn(r, pair) = r \/ pair = 0
<1>1. CASE r.at = "before"
  BY <1>1 DEF T!GoOn, T!Sent, TokenRequests, T!Stages
<1>2. CASE r.at = "after" /\ pair = 0
  <2>1. T!GoOn(r, pair) = [r EXCEPT !.at = "unauthenticated"]
    BY <1>2 DEF T!GoOn, Tokens
  <2> QED BY <1>2, <2>1 DEF TokenRequests, T!Stages
<1>3. CASE r.at = "after" /\ pair # 0 /\ pair > elapsed
  BY <1>3 DEF T!GoOn, T!Sent, TokenRequests, T!Stages
<1>4. CASE r.at = "after" /\ pair # 0 /\ ~ (pair > elapsed)
  BY <1>4 DEF T!GoOn, T!Waits, TokenRequests, T!Stages
<1>5. CASE r.at \notin {"before", "after"}
  BY <1>5 DEF T!GoOn
<1> QED BY <1>1, <1>2, <1>3, <1>4, <1>5

(* Every request is given the reason.                                            *)
LEMMA ExcusedAll ==
    ASSUME NEW all \in [SignInTabs -> [SignInCalls -> TokenRequests]]
    PROVE  /\ T!Excused(all) \in [SignInTabs -> [SignInCalls -> TokenRequests]]
           /\ \A t \in SignInTabs, c \in SignInCalls :
                 /\ T!Excused(all)[t][c].at = all[t][c].at
                 /\ all[t][c].at # "none" => T!Excused(all)[t][c].excused
                 /\ all[t][c].at = "none" => T!Excused(all)[t][c].excused = all[t][c].excused
                 /\ T!Excused(all)[t][c].again = all[t][c].again
                 /\ T!Excused(all)[t][c].pair = all[t][c].pair
<1> DEFINE x(t, c) == [all[t][c] EXCEPT !.excused = @ \/ all[t][c].at # "none"]
<1>1. \A t \in SignInTabs, c \in SignInCalls :
         /\ x(t, c) \in TokenRequests /\ x(t, c).at = all[t][c].at
         /\ x(t, c).again = all[t][c].again /\ x(t, c).pair = all[t][c].pair
         /\ all[t][c].at # "none" => x(t, c).excused
         /\ all[t][c].at = "none" => x(t, c).excused = all[t][c].excused
  <2> TAKE t \in SignInTabs, c \in SignInCalls
  <2>1. all[t][c] \in TokenRequests
    OBVIOUS
  <2>2. CASE all[t][c].at # "none"
    <3>1. x(t, c) = [all[t][c] EXCEPT !.excused = TRUE]
      BY <2>1, <2>2 DEF TokenRequests
    <3> QED BY <2>1, <2>2, <3>1 DEF TokenRequests
  <2>3. CASE all[t][c].at = "none"
    <3>1. x(t, c) = [all[t][c] EXCEPT !.excused = @]
      BY <2>1, <2>3 DEF TokenRequests
    <3> QED BY <2>1, <2>3, <3>1 DEF TokenRequests
  <2> QED BY <2>2, <2>3
<1>2. T!Excused(all) = [t \in SignInTabs |-> [c \in SignInCalls |-> x(t, c)]]
  BY DEF T!Excused
<1> HIDE DEF x
<1> QED BY <1>1, <1>2
(* The renewal of a page ends, and what waited goes on.                          *)
LEMMA RenewalEndsKeeps ==
    ASSUME SignInv, NEW t \in SignInTabs, T!RenewalEnds(t)
    PROVE  SignInv'
<1> USE DEF SignInv
<1> DEFINE pair == IF renewal[t].at = "granted" THEN renewal[t].pair ELSE 0
           gone == [request EXCEPT ![t] = [c \in SignInCalls |-> T!GoOn(request[t][c], pair)]]
           Again2 == \E c \in SignInCalls : gone[t][c].at = "before"
<1>1. /\ pair \in 0 .. issued /\ (pair # 0 => renewal[t].at = "granted" /\ pair > expired)
      /\ renewal[t].at # "none" /\ (renewal[t].at = "granted" => pair # 0)
      /\ request \in [SignInTabs -> [SignInCalls -> TokenRequests]] /\ 0 \in 0 .. issued
  BY DEF Tokens, Stands, Renewals, T!RenewalEnds
<1>2. /\ UNCHANGED <<issued, expired, lapsed, elapsed, authed, entering, wanted, afloat>>
      /\ storedTokens' = pair /\ request' = (IF pair = 0 THEN T!Excused(gone) ELSE gone)
      /\ failedRenewal' = (failedRenewal \/ pair = 0)
      /\ renewal' = [renewal EXCEPT ![t] = IF Again2 THEN [at |-> "asked", pair |-> pair] ELSE T!NoRenewal]
  BY DEF T!RenewalEnds, T!server
<1>3. /\ gone \in [SignInTabs -> [SignInCalls -> TokenRequests]]
      /\ \A c \in SignInCalls : gone[t][c] = T!GoOn(request[t][c], pair)
      /\ \A u \in SignInTabs \ {t} : gone[u] = request[u]
  BY <1>1, RequestGoesOn
<1>4. /\ renewal' \in [SignInTabs -> Renewals] /\ \A u \in SignInTabs \ {t} : renewal'[u] = renewal[u]
      /\ IF Again2 THEN renewal'[t].at = "asked" ELSE renewal'[t].at = "none"
  <2>1. [at |-> "asked", pair |-> pair] \in Renewals /\ T!NoRenewal \in Renewals /\ T!NoRenewal.at = "none"
    BY <1>1 DEF Renewals, T!NoRenewal
  <2> QED BY <1>2, <2>1 DEF Tokens
<1>5. /\ request' \in [SignInTabs -> [SignInCalls -> TokenRequests]]
      /\ \A u \in SignInTabs, c \in SignInCalls : /\ request'[u][c].at = gone[u][c].at
                                                  /\ request'[u][c].again = gone[u][c].again
                                                  /\ request'[u][c].pair = gone[u][c].pair
                                                  /\ pair # 0 => request'[u][c] = gone[u][c]
                                                  /\ pair = 0 /\ gone[u][c].at # "none" => request'[u][c].excused
  <2>1. CASE pair = 0
    <3>1. request' = T!Excused(gone)
      BY <1>2, <2>1
    <3> HIDE DEF gone, pair
    <3> QED BY <1>3, <2>1, <3>1, ExcusedAll
  <2>2. CASE pair # 0
    <3>1. request' = gone
      BY <1>2, <2>2
    <3> HIDE DEF gone, pair
    <3> QED BY <1>3, <2>2, <3>1
  <2> QED BY <2>1, <2>2
<1>6. Tokens'
  BY <1>1, <1>2, <1>4, <1>5 DEF Tokens, Renewals, TokenRequests
<1>7. TokensAwaited'
  <2> SUFFICES ASSUME NEW u \in SignInTabs, NEW c \in SignInCalls, gone[u][c].at \in {"before", "after"}
               PROVE  renewal'[u].at # "none"
    BY <1>5 DEF TokensAwaited
  <2>1. CASE u = t
    <3>1. gone[t][c].at = "before"
      BY <1>1, <1>3, <2>1, RequestGoesOn
    <3> QED BY <1>4, <2>1, <3>1
  <2>2. CASE u # t
    BY <1>3, <1>4, <2>2 DEF TokensAwaited
  <2> QED BY <2>1, <2>2
<1>8. Stands'
  BY <1>1, <1>2, <1>4 DEF Stands
<1>9. Refusals'
  <2> SUFFICES ASSUME NEW u \in SignInTabs, NEW c \in SignInCalls PROVE Reasons(request[u][c])'
    BY DEF Refusals
  <2>1. CASE pair = 0
    <3>1. request'[u][c].at # "none" => request'[u][c].excused
      BY <1>5, <2>1
    <3> QED BY <3>1 DEF Reasons
  <2>2. CASE pair # 0
    <3>1. request'[u][c] = gone[u][c] /\ storedTokens' # 0 /\ request[u][c] \in TokenRequests
      BY <1>1, <1>2, <1>5, <2>2
    <3>2. Reasons(request[u][c])
      BY DEF Refusals
    <3>3. CASE u # t
      BY <1>2, <1>3, <3>1, <3>2, <3>3 DEF Reasons
    <3>4. CASE u = t
      <4>1. request'[u][c] = T!GoOn(request[t][c], pair)
        BY <1>3, <3>1, <3>4
      <4> QED BY <1>1, <1>2, <2>2, <3>1, <3>2, <3>4, <4>1, RequestGoesOn DEF Reasons
    <3> QED BY <3>3, <3>4
  <2> QED BY <2>1, <2>2
<1> QED BY <1>6, <1>7, <1>8, <1>9

(* The host signs in, with a pair issued for it.                                 *)
LEMMA SigningInKeeps ==
    ASSUME SignInv, NEW t \in SignInTabs, T!Submits(t) \/ T!SignedIn(t)
    PROVE  SignInv'
<1> USE DEF SignInv
<1>1. /\ issued' \in Nat /\ issued <= issued'
      /\ UNCHANGED <<expired, lapsed, elapsed, request, renewal, afloat>>
      /\ entering' \in [SignInTabs -> 0 .. issued'] /\ authed' \in [SignInTabs -> BOOLEAN]
      /\ \/ UNCHANGED <<storedTokens, wanted, failedRenewal>>
         \/ storedTokens' \in 1 .. issued /\ wanted' = TRUE /\ failedRenewal' = FALSE
  <2>1. CASE T!Submits(t)
    <3>1. /\ issued \in Nat /\ issued' = issued + 1 /\ authed' = authed
          /\ entering' = [entering EXCEPT ![t] = issued + 1] /\ entering \in [SignInTabs -> 0 .. issued]
      BY <2>1 DEF T!Submits, Tokens
    <3>2. entering' \in [SignInTabs -> 0 .. issued']
      BY <3>1
    <3> QED BY <2>1, <3>1, <3>2 DEF T!Submits, T!past, Tokens
  <2>2. CASE T!SignedIn(t)
    <3>1. entering[t] \in 1 .. issued /\ 0 \in 0 .. issued
      BY <2>2 DEF T!SignedIn, Tokens
    <3>2. entering' \in [SignInTabs -> 0 .. issued] /\ authed' \in [SignInTabs -> BOOLEAN] /\ issued' = issued
      BY <2>2, <3>1 DEF T!SignedIn, T!server, Tokens
    <3>3. /\ UNCHANGED <<expired, lapsed, elapsed, request, renewal, afloat>>
          /\ storedTokens' = entering[t] /\ wanted' = TRUE /\ failedRenewal' = FALSE
      BY <2>2 DEF T!SignedIn, T!server
    <3>4. issued \in Nat
      BY DEF Tokens
    <3>5. issued' \in Nat /\ issued <= issued' /\ entering' \in [SignInTabs -> 0 .. issued']
      BY <3>2, <3>4
    <3>6. storedTokens' \in 1 .. issued
      BY <3>1, <3>3
    <3> QED BY <3>2, <3>3, <3>5, <3>6, Zenon
  <2> QED BY <2>1, <2>2
<1>2. renewal' \in [SignInTabs -> Renewals'] /\ request' \in [SignInTabs -> [SignInCalls -> TokenRequests']]
  <2>1. Renewals \subseteq Renewals' /\ TokenRequests \subseteq TokenRequests'
    BY <1>1 DEF Renewals, TokenRequests, Tokens
  <2> QED BY <1>1, <2>1 DEF Tokens
<1>3. Tokens'
  <2>1. /\ expired \in 0 .. issued' /\ lapsed \in 0 .. issued' /\ elapsed \in 0 .. issued'
        /\ storedTokens' \in 0 .. issued' /\ wanted' \in BOOLEAN /\ failedRenewal' \in BOOLEAN
    <3>1. expired \in 0 .. issued /\ lapsed \in 0 .. issued /\ elapsed \in 0 .. issued
      BY DEF Tokens
    <3>2. storedTokens \in 0 .. issued /\ wanted \in BOOLEAN /\ failedRenewal \in BOOLEAN /\ issued \in Nat
      BY DEF Tokens
    <3>3. /\ expired \in 0 .. issued' /\ lapsed \in 0 .. issued' /\ elapsed \in 0 .. issued'
          /\ \A n \in 0 .. issued : n \in 0 .. issued'
      BY <1>1, <3>1, <3>2
    <3>4. storedTokens' \in 0 .. issued'
      BY <1>1, <3>2, <3>3
    <3>5. wanted' \in BOOLEAN /\ failedRenewal' \in BOOLEAN
      BY <1>1, <3>2, Zenon
    <3> QED BY <3>3, <3>4, <3>5
  <2>2. afloat \in BOOLEAN
    BY DEF Tokens
  <2> QED BY <1>1, <1>2, <2>1, <2>2 DEF Tokens
<1>4. TokensAwaited' /\ Stands'
  BY <1>1 DEF TokensAwaited, Stands
<1>5. Refusals'
  BY <1>1 DEF Refusals, Reasons
<1> QED BY <1>3, <1>4, <1>5

(* The host signs out: nothing is under way, or it is noted.                     *)
LEMMA LogOutKeeps ==
    ASSUME SignInv, NEW t \in SignInTabs, T!LogOut(t)
    PROVE  SignInv'
<1> USE DEF SignInv
<1>1. /\ UNCHANGED <<issued, expired, lapsed, elapsed, entering, renewal, failedRenewal>>
      /\ storedTokens' = 0 /\ request' = T!Excused(request) /\ wanted' = FALSE
      /\ authed' = [authed EXCEPT ![t] = FALSE]
      /\ afloat' = \E u \in SignInTabs : renewal[u].at # "none" \/ entering[u] # 0
  BY DEF T!LogOut, T!server
<1>2. /\ request' \in [SignInTabs -> [SignInCalls -> TokenRequests]]
      /\ \A u \in SignInTabs, c \in SignInCalls :
            /\ request'[u][c].at = request[u][c].at
            /\ request[u][c].at # "none" => request'[u][c].excused
  BY <1>1, ExcusedAll DEF Tokens
<1>3. Tokens'
  <2>1. authed' \in [SignInTabs -> BOOLEAN] /\ storedTokens' \in 0 .. issued /\ wanted' \in BOOLEAN
    <3>1. authed' \in [SignInTabs -> BOOLEAN]
      BY <1>1 DEF Tokens
    <3>2. 0 \in 0 .. issued
      BY DEF Tokens
    <3> QED BY <1>1, <3>1, <3>2
  <2>3. afloat' \in BOOLEAN
    BY <1>1
  <2>2. Renewals' = Renewals /\ TokenRequests' = TokenRequests
    BY <1>1 DEF Renewals, TokenRequests
  <2> QED BY <1>1, <1>2, <2>1, <2>2, <2>3 DEF Tokens
<1>4. TokensAwaited'
  BY <1>1, <1>2 DEF TokensAwaited
<1>5. Stands'
  BY <1>1 DEF Stands
<1>6. Refusals'
  BY <1>1, <1>2 DEF Refusals, Reasons
<1> QED BY <1>3, <1>4, <1>5, <1>6

LEMMA ReloadKeeps ==
    ASSUME SignInv, NEW t \in SignInTabs, T!Reloads(t)
    PROVE  SignInv'
<1> USE DEF SignInv
<1>1. /\ UNCHANGED <<issued, expired, lapsed, elapsed, storedTokens, wanted, failedRenewal, afloat>>
      /\ authed' = [authed EXCEPT ![t] = storedTokens # 0] /\ entering' = [entering EXCEPT ![t] = 0]
      /\ request' = [request EXCEPT ![t] = [c \in SignInCalls |-> T!Quiet]]
      /\ renewal' = [renewal EXCEPT ![t] = T!NoRenewal]
  BY DEF T!Reloads, T!server, T!past
<1>2. /\ T!NoRenewal \in Renewals /\ T!NoRenewal.at = "none" /\ T!Quiet \in TokenRequests /\ T!Quiet.at = "none"
      /\ Reasons(T!Quiet) /\ 0 \in 0 .. issued
  BY DEF T!NoRenewal, Renewals, T!Quiet, TokenRequests, T!Stages, Reasons, Tokens
<1>3. /\ request' \in [SignInTabs -> [SignInCalls -> TokenRequests]] /\ renewal' \in [SignInTabs -> Renewals]
      /\ renewal'[t] = T!NoRenewal /\ \A u \in SignInTabs \ {t} : renewal'[u] = renewal[u] /\ request'[u] = request[u]
      /\ \A c \in SignInCalls : request'[t][c] = T!Quiet
  BY <1>1, <1>2 DEF Tokens
<1>4. authed' \in [SignInTabs -> BOOLEAN] /\ entering' \in [SignInTabs -> 0 .. issued]
  BY <1>1, <1>2 DEF Tokens
<1>5. Tokens'
  BY <1>1, <1>3, <1>4 DEF Tokens, Renewals, TokenRequests
<1>6. TokensAwaited'
  BY <1>2, <1>3 DEF TokensAwaited
<1>7. Stands'
  BY <1>1, <1>2, <1>3 DEF Stands
<1>8. Refusals'
  BY <1>1, <1>2, <1>3 DEF Refusals, Reasons
<1> QED BY <1>5, <1>6, <1>7, <1>8

(* A step of the sign-in keeps it.                                               *)
LEMMA SignInNext == SignInv /\ [T!Next]_T!vars => SignInv'
<1> SUFFICES ASSUME SignInv, [T!Next]_T!vars PROVE SignInv'
  OBVIOUS
<1>1. CASE T!AccessExpires \/ T!BrowserSeesExpiry \/ T!RefreshLapses
  BY <1>1, AgeingKeeps
<1>2. ASSUME NEW t \in SignInTabs, NEW c \in SignInCalls, T!Asks(t, c) \/ T!Answers(t, c) \/ T!ShowsError(t, c)
      PROVE  SignInv'
  BY <1>2, AsksKeeps, TokenAnswerKeeps
<1>3. ASSUME NEW t \in SignInTabs,
             T!Renewing(t) \/ T!RenewalLost(t) \/ T!Submits(t) \/ T!SignedIn(t) \/ T!LogOut(t) \/ T!Reloads(t)
      PROVE  SignInv'
  BY <1>3, RenewsKeeps, RenewalEndsKeeps, SigningInKeeps, LogOutKeeps,
      ReloadKeeps DEF T!Renewing
<1>4. CASE UNCHANGED T!vars
  BY <1>4 DEF T!vars, SignInv, Tokens, TokensAwaited, Stands, Refusals, Reasons, Renewals,
              TokenRequests
<1> QED BY <1>1, <1>2, <1>3, <1>4 DEF T!Next

(* What it gives.                                                                *)
LEMMA SignInGives == SignInv => T!TypeOK /\ T!SignInStands /\ T!NoNeedlessRefusal
<1> SUFFICES ASSUME SignInv PROVE T!TypeOK /\ T!SignInStands /\ T!NoNeedlessRefusal
  OBVIOUS
<1>1. T!TypeOK
  BY DEF SignInv, Tokens, TokensAwaited, T!TypeOK, Renewals, TokenRequests
<1>2. T!SignInStands /\ T!NoNeedlessRefusal
  BY DEF SignInv, Tokens, Stands, Refusals, Reasons, T!SignInStands, T!NoNeedlessRefusal
<1> QED BY <1>1, <1>2

-----------------------------------------------------------------------------
(* Joining.                                                                    *)
(* Types: what is stored names a session and a code or neither, a page that asks   *)
(* for a session has its code, a request to join has a tab, a session and a code.   *)
Kept     == [session : Sessions, code : Sessions] \cup {J!Nowhere}
JoinPages    == [at : {"join", "callback", "ticket"}, code : Sessions]
            \cup [at : {"entry", "room"}, code : {none}]
JoinRequests == [at : {"sent", "admitted", "refused"}, tab : JoinTabs, session : Sessions,
             code : Sessions, own : BOOLEAN]
JoinBounds  == [live : SUBSET Sessions, sso : SUBSET Sessions, walks : Nat, joins : Nat,
             leaves : Nat, moves : Nat, reopens : Nat, faults : Nat]
JoinTypes ==
    /\ leftJoin \in JoinBounds /\ statusJoin \in [Sessions -> J!Statuses] /\ rows \in [Sessions -> Nat]
    /\ storedJoin \in Kept /\ pageJoin \in [JoinTabs -> JoinPages]
    /\ byCode \in [JoinTabs -> [Sessions -> J!Queries(J!Statuses)]]
    /\ stateQ \in [JoinTabs -> [Sessions -> J!Queries(J!Statuses)]]
    /\ broken \in [JoinTabs -> SUBSET Sessions] /\ post \in [JoinPosts -> JoinRequests \cup {J!NoPost}]
    /\ seen \in [JoinTabs -> Kept] /\ over \in [JoinTabs -> BOOLEAN] /\ told \in [JoinTabs -> BOOLEAN]
    /\ held \in [JoinTabs -> BOOLEAN] /\ moved \in [JoinTabs -> BOOLEAN]

(* The code of a request is its session's, until the address changes under it.     *)
Codes ==
    renamed \/ (J!CodeIsOfSession /\ \A k \in J!Joins : post[k].code = post[k].session)

(* Unless something was asked while a join was under way, there is one at most, and  *)
(* it is for the session that is meant.                                            *)
Meaning ==
    ~ crossedJoin => /\ J!Joins = {} => storedJoin.session = meant
                     /\ \A k \in J!Joins : post[k].session = meant
                     /\ \A j, k \in J!Joins : j = k

(* Without a doubt about s: one request at most is under way for it, it has made a   *)
(* participant only when it was admitted, and one made before is in what is stored.  *)
OnceIn(s) ==
    /\ \A j, k \in J!Joins : post[j].session = s /\ post[k].session = s => j = k
    /\ \A k \in J!Joins : post[k].session = s =>
          rows[s] <= 1 /\ (post[k].at # "admitted" => rows[s] = 0)
    /\ (\A k \in J!Joins : post[k].session # s) =>
          rows[s] = 0 \/ (rows[s] = 1 /\ storedJoin.session = s)
Once == \A s \in Sessions : s \in doubt \/ OnceIn(s)

(* A page that offers the form of the session one is in had it before.              *)
Offering(t) == pageJoin[t].at = "callback" \/ (pageJoin[t].at = "join" /\ J!Loaded(byCode[t][pageJoin[t].code]))
Forms == \A t \in JoinTabs : Offering(t) /\ pageJoin[t].code = storedJoin.session => held[t]

(* An end that is cached, answered, announced or shown is one.                      *)
Ended(s) == reopened \/ statusJoin[s] = "ended"
Reads(t, s) == stateQ[t][s].data = "ended" \/ stateQ[t][s].reply = "ended"
Told(t) == pageJoin[t].at = "room" /\ ~ moved[t] /\ (told[t] \/ over[t])
Endings ==
    /\ \A t \in JoinTabs, s \in Sessions : Reads(t, s) => Ended(s)
    /\ \A t \in JoinTabs : Told(t) => seen[t] # J!Nowhere /\ Ended(seen[t].session)

JoinInv == JoinTypes /\ Codes /\ Meaning /\ Once /\ Forms /\ Endings

-----------------------------------------------------------------------------
LEMMA Cached ==
    ASSUME NEW q \in J!Queries(J!Statuses), NEW d \in J!Statuses
    PROVE  /\ J!Fetched(q) \in J!Queries(J!Statuses) /\ J!Answered(q, d) \in J!Queries(J!Statuses)
           /\ J!Stored(q) \in J!Queries(J!Statuses) /\ J!Cancelled(q) \in J!Queries(J!Statuses)
           /\ J!Fetched(q).data = q.data /\ J!Fetched(q).reply = q.reply
           /\ J!Answered(q, d).data = q.data /\ J!Answered(q, d).reply = d
           /\ J!Stored(q).data = q.reply /\ J!Stored(q).reply = NoData
           /\ J!Cancelled(q).data = q.data /\ J!Cancelled(q).reply = NoData
BY DEF J!Queries, J!Fetches, J!Fetched, J!Idle, J!Answered, J!Stored, J!Cancelled

LEMMA Blank ==
    /\ J!Unused \in J!Queries(J!Statuses) /\ J!Loading \in J!Queries(J!Statuses)
    /\ NoData \notin J!Statuses
BY PartsAssumption DEF PartsAssumption, J!JoiningAssumption, J!Queries, J!Fetches,
                       J!Unused, J!Loading

LEMMA Named == \A c \in Kept : c # J!Nowhere => c.session \in Sessions /\ c.code \in Sessions
BY DEF Kept

LEMMA Spent ==
    ASSUME leftJoin \in JoinBounds,
           NEW kind \in {"walks", "joins", "leaves", "moves", "faults"}, J!Use(kind)
    PROVE  leftJoin' \in JoinBounds
BY DEF J!Use, JoinBounds

LEMMA JoinInit == J!Init => JoinInv
<1> SUFFICES ASSUME J!Init PROVE JoinInv
  OBVIOUS
<1>1. leftJoin \in JoinBounds
  BY PartsAssumption DEF PartsAssumption, J!Init, J!JoiningAssumption, JoinBounds
<1>2. statusJoin \in [Sessions -> J!Statuses] /\ rows \in [Sessions -> Nat]
  BY DEF J!Init, J!Statuses
<1>3. storedJoin \in Kept /\ pageJoin \in [JoinTabs -> JoinPages] /\ seen \in [JoinTabs -> Kept]
  BY DEF J!Init, Kept, JoinPages, J!At, J!Nowhere
<1>4. byCode \in [JoinTabs -> [Sessions -> J!Queries(J!Statuses)]]
      /\ stateQ \in [JoinTabs -> [Sessions -> J!Queries(J!Statuses)]]
  BY Blank DEF J!Init
<1>5. broken \in [JoinTabs -> SUBSET Sessions] /\ post \in [JoinPosts -> JoinRequests \cup {J!NoPost}]
  BY DEF J!Init
<1>6. /\ over \in [JoinTabs -> BOOLEAN] /\ told \in [JoinTabs -> BOOLEAN]
      /\ held \in [JoinTabs -> BOOLEAN] /\ moved \in [JoinTabs -> BOOLEAN]
  BY DEF J!Init
<1>7. JoinTypes
  BY <1>1, <1>2, <1>3, <1>4, <1>5, <1>6 DEF JoinTypes
<1>8. J!Joins = {}
  BY DEF J!Init, J!Joins, J!Under, J!NoPost
<1>9. Codes /\ Meaning /\ Once
  BY <1>8 DEF J!Init, Codes, J!CodeIsOfSession, Meaning, Once, OnceIn, J!Nowhere
<1>10. Forms
  BY DEF J!Init, Forms, Offering, J!At
<1>11. Endings
  BY Blank DEF J!Init, Endings, Reads, Told, J!Unused, J!At, J!Statuses
<1> QED BY <1>7, <1>9, <1>10, <1>11 DEF JoinInv

-----------------------------------------------------------------------------
(* Requests that stay what they were, whatever their pages do.                      *)
LEMMA SamePosts ==
    ASSUME Meaning, Once, UNCHANGED <<rows, storedJoin, meant, crossedJoin, doubt>>,
           \A k \in JoinPosts : post'[k].at = post[k].at /\ post'[k].session = post[k].session
    PROVE  J!Joins' = J!Joins /\ Meaning' /\ Once'
<1>1. J!Joins' = J!Joins
  BY DEF J!Joins, J!Under
<1>2. J!Joins \subseteq JoinPosts
  BY DEF J!Joins
<1>3. Meaning'
  BY <1>1, <1>2 DEF Meaning
<1>4. ASSUME NEW s \in Sessions, OnceIn(s) PROVE OnceIn(s)'
  BY <1>1, <1>2, <1>4 DEF OnceIn
<1> QED BY <1>1, <1>3, <1>4 DEF Once

LEMMA AbandonedIs ==
    ASSUME post \in [JoinPosts -> JoinRequests \cup {J!NoPost}], NEW t
    PROVE  /\ J!Abandoned(t) \in [JoinPosts -> JoinRequests \cup {J!NoPost}]
           /\ \A k \in JoinPosts : /\ J!Abandoned(t)[k].at = post[k].at
                                   /\ J!Abandoned(t)[k].session = post[k].session
                                   /\ J!Abandoned(t)[k].code = post[k].code
<1>1. ASSUME NEW k \in JoinPosts, NEW r, r = J!Abandoned(t)[k]
      PROVE  /\ r \in JoinRequests \cup {J!NoPost} /\ r.at = post[k].at
             /\ r.session = post[k].session /\ r.code = post[k].code
  <2>1. post[k] \in JoinRequests \cup {J!NoPost} /\ r = IF post[k].tab = t THEN [post[k] EXCEPT !.own = FALSE] ELSE post[k]
    BY <1>1 DEF J!Abandoned
  <2>2. CASE post[k] \in JoinRequests
    BY <2>1, <2>2 DEF JoinRequests
  <2>3. CASE post[k] = J!NoPost
    <3>1. J!NoPost.own = FALSE /\ J!NoPost = [a \in DOMAIN J!NoPost |-> J!NoPost[a]]
      BY DEF J!NoPost
    <3>2. [J!NoPost EXCEPT !.own = FALSE] = J!NoPost
      BY <3>1
    <3> QED BY <2>1, <2>3, <3>2
  <2> QED BY <2>1, <2>2, <2>3
<1> QED BY <1>1 DEF J!Abandoned

LEMMA RecodedIs ==
    ASSUME post \in [JoinPosts -> JoinRequests \cup {J!NoPost}], NEW t, NEW s \in Sessions
    PROVE  /\ J!Recoded(t, s) \in [JoinPosts -> JoinRequests \cup {J!NoPost}]
           /\ \A k \in JoinPosts : /\ J!Recoded(t, s)[k].at = post[k].at
                                   /\ J!Recoded(t, s)[k].session = post[k].session
                                   /\ ~ (post[k].tab = t /\ post[k].own) => J!Recoded(t, s)[k].code = post[k].code
<1>1. ASSUME NEW k \in JoinPosts, NEW r, r = J!Recoded(t, s)[k]
      PROVE  /\ r \in JoinRequests \cup {J!NoPost} /\ r.at = post[k].at
             /\ r.session = post[k].session
             /\ ~ (post[k].tab = t /\ post[k].own) => r.code = post[k].code
  <2>1. post[k] \in JoinRequests \cup {J!NoPost} /\ r = IF post[k].tab = t /\ post[k].own THEN [post[k] EXCEPT !.code = s] ELSE post[k]
    BY <1>1 DEF J!Recoded
  <2>2. CASE post[k] \in JoinRequests
    BY <2>1, <2>2 DEF JoinRequests
  <2>3. CASE post[k] = J!NoPost
    <3>1. post[k].own = FALSE
      BY <2>3 DEF J!NoPost
    <3>2. r = post[k]
      BY <2>1, <3>1
    <3> QED BY <2>3, <3>2
  <2> QED BY <2>1, <2>2, <2>3
<1> QED BY <1>1 DEF J!Recoded

(* A page shows the room: what it reads is what is stored, an end that is cached is   *)
(* one.                                                                            *)
LEMMA RoomShown ==
    ASSUME JoinTypes, Endings, NEW t \in JoinTabs, NEW c \in Kept, J!ShowsRoom(t, c),
           UNCHANGED <<statusJoin, reopened>>
    PROVE  /\ pageJoin' = [pageJoin EXCEPT ![t] = J!At("room", none)] /\ pageJoin' \in [JoinTabs -> JoinPages]
           /\ seen' \in [JoinTabs -> Kept] /\ stateQ' \in [JoinTabs -> [Sessions -> J!Queries(J!Statuses)]]
           /\ over' \in [JoinTabs -> BOOLEAN] /\ told' \in [JoinTabs -> BOOLEAN]
           /\ moved' \in [JoinTabs -> BOOLEAN] /\ Endings'
<1> USE DEF JoinTypes
<1>1. pageJoin' = [pageJoin EXCEPT ![t] = J!At("room", none)] /\ seen' = [seen EXCEPT ![t] = c]
  BY DEF J!ShowsRoom
<1>2. pageJoin' \in [JoinTabs -> JoinPages] /\ seen' \in [JoinTabs -> Kept]
  BY <1>1 DEF JoinPages, J!At
<1>3. /\ over' = [over EXCEPT ![t] = c # J!Nowhere /\ stateQ[t][c.session].data = "ended"]
      /\ told' = [told EXCEPT ![t] = FALSE] /\ moved' = [moved EXCEPT ![t] = FALSE]
  BY DEF J!ShowsRoom
<1>4. (c # J!Nowhere /\ stateQ[t][c.session].data = "ended") \in BOOLEAN
  BY Zenon
<1>5. over' \in [JoinTabs -> BOOLEAN] /\ told' \in [JoinTabs -> BOOLEAN] /\ moved' \in [JoinTabs -> BOOLEAN]
  BY <1>3, <1>4
<1>6. /\ stateQ' \in [JoinTabs -> [Sessions -> J!Queries(J!Statuses)]]
      /\ \A u \in JoinTabs, s \in Sessions : Reads(u, s)' = Reads(u, s)
  <2>1. CASE c = J!Nowhere
    BY <2>1 DEF J!ShowsRoom, Reads
  <2>2. CASE c # J!Nowhere
    <3>1. c.session \in Sessions /\ stateQ' = [stateQ EXCEPT ![t][c.session] = J!Fetched(@)]
      BY <2>2, Named DEF J!ShowsRoom
    <3>2. stateQ[t][c.session] \in J!Queries(J!Statuses)
      BY <3>1
    <3>3. "draft" \in J!Statuses
      BY DEF J!Statuses
    <3>4. J!Fetched(stateQ[t][c.session]) \in J!Queries(J!Statuses)
          /\ J!Fetched(stateQ[t][c.session]).data = stateQ[t][c.session].data
          /\ J!Fetched(stateQ[t][c.session]).reply = stateQ[t][c.session].reply
      BY <3>2, <3>3, Cached
    <3> QED BY <3>1, <3>4 DEF Reads
  <2> QED BY <2>1, <2>2
<1>7. \A u \in JoinTabs, s \in Sessions : Reads(u, s)' => Ended(s)'
  BY <1>6 DEF Endings, Ended
<1>8. ASSUME NEW u \in JoinTabs, Told(u)' PROVE seen'[u] # J!Nowhere /\ Ended(seen[u].session)'
  <2>1. CASE u = t
    <3>1. c # J!Nowhere /\ stateQ[t][c.session].data = "ended"
      BY <1>3, <1>8, <2>1 DEF Told
    <3>2. Ended(c.session)
      BY <3>1, Named DEF Endings, Reads
    <3> QED BY <1>1, <2>1, <3>1, <3>2 DEF Ended
  <2>2. CASE u # t
    <3>1. Told(u) /\ seen'[u] = seen[u]
      BY <1>1, <1>3, <1>8, <2>2 DEF Told
    <3> QED BY <3>1 DEF Endings, Ended
  <2> QED BY <2>1, <2>2
<1>9. Endings'
  BY <1>7, <1>8 DEF Endings
<1> QED BY <1>1, <1>2, <1>5, <1>6, <1>9

(* Another page is shown: no end is said in it.                                     *)
LEMMA PageShown ==
    ASSUME JoinTypes, Endings, NEW t \in JoinTabs, NEW p \in JoinPages, p.at # "room",
           J!ShowsPage(t, p), UNCHANGED <<statusJoin, reopened>>
    PROVE  /\ pageJoin' = [pageJoin EXCEPT ![t] = p] /\ pageJoin' \in [JoinTabs -> JoinPages]
           /\ UNCHANGED J!room /\ Endings'
<1>1. pageJoin' = [pageJoin EXCEPT ![t] = p] /\ UNCHANGED <<seen, stateQ, over, told, moved>>
  BY DEF J!ShowsPage, J!room
<1>2. pageJoin' \in [JoinTabs -> JoinPages]
  BY <1>1 DEF JoinTypes
<1>3. \A u \in JoinTabs : Told(u)' => Told(u)
  BY <1>1 DEF Told, JoinTypes
<1>4. \A u \in JoinTabs, s \in Sessions : Reads(u, s)' = Reads(u, s)
  BY <1>1 DEF Reads
<1>5. Endings'
  BY <1>1, <1>3, <1>4 DEF Endings, Ended
<1> QED BY <1>1, <1>2, <1>5 DEF J!room

(* The form of s is shown, or its room.                                            *)
LEMMA JoinShown ==
    ASSUME JoinTypes, Endings, Forms, NEW t \in JoinTabs, NEW s \in Sessions,
           J!ShowsJoin(t, s, storedJoin'), storedJoin' \in Kept, storedJoin' = storedJoin \/ storedJoin' = J!Nowhere,
           UNCHANGED <<statusJoin, reopened>>
    PROVE  /\ pageJoin' \in [JoinTabs -> JoinPages] /\ seen' \in [JoinTabs -> Kept]
           /\ stateQ' \in [JoinTabs -> [Sessions -> J!Queries(J!Statuses)]]
           /\ byCode' \in [JoinTabs -> [Sessions -> J!Queries(J!Statuses)]]
           /\ over' \in [JoinTabs -> BOOLEAN] /\ told' \in [JoinTabs -> BOOLEAN]
           /\ moved' \in [JoinTabs -> BOOLEAN] /\ held' \in [JoinTabs -> BOOLEAN]
           /\ Endings' /\ Forms'
           /\ \/ post' = J!Abandoned(t)
              \/ pageJoin[t].at = "join" /\ post' = J!Recoded(t, s)
<1>1. held' = [held EXCEPT ![t] = FALSE] /\ held' \in [JoinTabs -> BOOLEAN]
  BY DEF J!ShowsJoin, JoinTypes
<1>2. CASE J!Loaded(byCode[t][s]) /\ storedJoin'.session = s
  <2>1. J!ShowsRoom(t, storedJoin') /\ post' = J!Abandoned(t) /\ UNCHANGED byCode
    BY <1>2 DEF J!ShowsJoin
  <2>2. /\ pageJoin' = [pageJoin EXCEPT ![t] = J!At("room", none)] /\ pageJoin' \in [JoinTabs -> JoinPages]
        /\ seen' \in [JoinTabs -> Kept] /\ stateQ' \in [JoinTabs -> [Sessions -> J!Queries(J!Statuses)]]
        /\ over' \in [JoinTabs -> BOOLEAN] /\ told' \in [JoinTabs -> BOOLEAN]
        /\ moved' \in [JoinTabs -> BOOLEAN] /\ Endings'
    BY <2>1, RoomShown
  <2>3. ASSUME NEW u \in JoinTabs, Offering(u)', pageJoin'[u].code = storedJoin'.session
        PROVE held'[u]
    <3>1. u # t /\ pageJoin'[u] = pageJoin[u] /\ byCode'[u] = byCode[u] /\ held'[u] = held[u]
      BY <1>1, <2>1, <2>2, <2>3 DEF Offering, J!At, JoinTypes
    <3>2. pageJoin[u].code # none
      BY <2>3, <3>1, PartsAssumption DEF PartsAssumption, Offering, J!JoiningAssumption,
          JoinTypes, JoinPages
    <3>3. storedJoin' = storedJoin
      BY <2>3, <3>1, <3>2 DEF J!Nowhere
    <3> QED BY <2>1, <2>3, <3>1, <3>3 DEF Forms, Offering
  <2>4. Forms'
    BY <2>3 DEF Forms
  <2> QED BY <1>1, <2>1, <2>2, <2>4 DEF JoinTypes
<1>3. CASE ~ (J!Loaded(byCode[t][s]) /\ storedJoin'.session = s)
  <2>1. /\ J!ShowsPage(t, J!At("join", s)) /\ byCode' = [byCode EXCEPT ![t][s] = J!Fetched(@)]
        /\ post' = J!Abandoned(t) \/ (pageJoin[t].at = "join" /\ post' = J!Recoded(t, s))
    BY <1>3 DEF J!ShowsJoin
  <2>2. J!At("join", s) \in JoinPages /\ J!At("join", s).at # "room"
    BY DEF J!At, JoinPages
  <2>3. /\ pageJoin' = [pageJoin EXCEPT ![t] = J!At("join", s)] /\ pageJoin' \in [JoinTabs -> JoinPages]
        /\ UNCHANGED J!room /\ Endings'
    BY <2>1, <2>2, PageShown
  <2>4. byCode[t][s] \in J!Queries(J!Statuses) /\ "draft" \in J!Statuses
    BY DEF JoinTypes, J!Statuses
  <2>5. J!Fetched(byCode[t][s]) \in J!Queries(J!Statuses) /\ J!Fetched(byCode[t][s]).data = byCode[t][s].data
    BY <2>4, Cached
  <2>6. byCode' \in [JoinTabs -> [Sessions -> J!Queries(J!Statuses)]]
    BY <2>1, <2>5 DEF JoinTypes
  <2>7. ASSUME NEW u \in JoinTabs, Offering(u)', pageJoin'[u].code = storedJoin'.session
        PROVE held'[u]
    <3>1. CASE u = t
      <4>1. pageJoin'[u] = J!At("join", s) /\ byCode'[u][s] = J!Fetched(byCode[t][s])
        BY <2>1, <2>3, <3>1 DEF JoinTypes
      <4>2. J!Loaded(byCode[t][s]) /\ storedJoin'.session = s
        BY <2>5, <2>7, <4>1 DEF Offering, J!At, J!Loaded
      <4> QED BY <1>3, <4>2
    <3>2. CASE u # t
      <4>1. pageJoin'[u] = pageJoin[u] /\ byCode'[u] = byCode[u] /\ held'[u] = held[u]
        BY <1>1, <2>1, <2>3, <3>2 DEF JoinTypes
      <4>2. pageJoin[u].code # none
        BY <2>7, <4>1, PartsAssumption DEF PartsAssumption, Offering, J!JoiningAssumption,
            JoinTypes, JoinPages
      <4>3. storedJoin' = storedJoin
        BY <2>7, <4>1, <4>2 DEF J!Nowhere
      <4> QED BY <2>7, <4>1, <4>3 DEF Forms, Offering
    <3> QED BY <3>1, <3>2
  <2>8. Forms'
    BY <2>7 DEF Forms
  <2> QED BY <1>1, <2>1, <2>3, <2>6, <2>8 DEF J!room, JoinTypes
<1> QED BY <1>2, <1>3

(* An address is entered.                                                          *)
LEMMA EntersKeeps ==
    ASSUME JoinInv, NEW t \in JoinTabs, NEW s \in Sessions, J!Enters(t, s) PROVE JoinInv'
<1> USE DEF JoinInv
<1>1. /\ J!ShowsJoin(t, s, storedJoin) /\ pageJoin[t].at \in {"entry", "join"} /\ J!Use("walks")
      /\ renamed' = (renamed \/ (pageJoin[t].at = "join" /\ J!Submitting(t)))
      /\ UNCHANGED <<statusJoin, rows, storedJoin, broken, meant, crossedJoin, doubt, reopened>>
  BY DEF J!Enters
<1>2. storedJoin' = storedJoin /\ storedJoin' \in Kept /\ J!ShowsJoin(t, s, storedJoin')
  BY <1>1 DEF JoinTypes
<1>3. /\ pageJoin' \in [JoinTabs -> JoinPages] /\ seen' \in [JoinTabs -> Kept]
      /\ stateQ' \in [JoinTabs -> [Sessions -> J!Queries(J!Statuses)]]
      /\ byCode' \in [JoinTabs -> [Sessions -> J!Queries(J!Statuses)]]
      /\ over' \in [JoinTabs -> BOOLEAN] /\ told' \in [JoinTabs -> BOOLEAN]
      /\ moved' \in [JoinTabs -> BOOLEAN] /\ held' \in [JoinTabs -> BOOLEAN]
      /\ Endings' /\ Forms'
      /\ post' = J!Abandoned(t) \/ (pageJoin[t].at = "join" /\ post' = J!Recoded(t, s))
  BY <1>1, <1>2, JoinShown
<1>4. leftJoin' \in JoinBounds
  BY <1>1, Spent DEF JoinTypes
<1>5. post \in [JoinPosts -> JoinRequests \cup {J!NoPost}]
  BY DEF JoinTypes
<1>6. /\ post' \in [JoinPosts -> JoinRequests \cup {J!NoPost}]
      /\ \A k \in JoinPosts : /\ post'[k].at = post[k].at /\ post'[k].session = post[k].session
                              /\ ~ (pageJoin[t].at = "join" /\ post[k].tab = t /\ post[k].own) =>
                                    post'[k].code = post[k].code
  BY <1>3, <1>5, AbandonedIs, RecodedIs
<1>7. JoinTypes'
  BY <1>1, <1>3, <1>4, <1>6 DEF JoinTypes
<1>8. J!Joins' = J!Joins /\ Meaning' /\ Once'
  BY <1>1, <1>6, SamePosts
<1>9. Codes'
  <2>1. CASE renamed'
    BY <2>1 DEF Codes
  <2>2. CASE ~ renamed'
    <3>1. ~ renamed /\ (pageJoin[t].at = "join" => ~ J!Submitting(t))
      BY <1>1, <2>2
    <3>2. \A k \in J!Joins : post'[k].code = post[k].code
      BY <1>6, <3>1 DEF J!Submitting, J!Joins
    <3>3. J!CodeIsOfSession'
      BY <1>1, <3>1 DEF Codes, J!CodeIsOfSession
    <3> QED BY <1>6, <1>8, <3>1, <3>2, <3>3 DEF Codes, J!Joins
  <2> QED BY <2>1, <2>2
<1> QED BY <1>3, <1>7, <1>8, <1>9


(* The way back, another window, a fetch by the code: nothing is asked for.          *)
LEMMA TurnsBackKeeps ==
    ASSUME JoinInv, NEW t \in JoinTabs, J!TurnsBack(t) PROVE JoinInv'
<1> USE DEF JoinInv
<1>1. /\ J!Use("walks") /\ J!ShowsPage(t, J!At("entry", none)) /\ post' = J!Abandoned(t)
      /\ held' = [held EXCEPT ![t] = FALSE]
      /\ UNCHANGED <<statusJoin, rows, storedJoin, byCode, broken, J!past, reopened>>
  BY DEF J!TurnsBack
<1>2. J!At("entry", none) \in JoinPages /\ J!At("entry", none).at # "room"
  BY DEF J!At, JoinPages
<1>3. /\ pageJoin' = [pageJoin EXCEPT ![t] = J!At("entry", none)] /\ pageJoin' \in [JoinTabs -> JoinPages]
      /\ UNCHANGED J!room /\ Endings'
  BY <1>1, <1>2, PageShown
<1>4. leftJoin' \in JoinBounds
  BY <1>1, Spent DEF JoinTypes
<1>5. post \in [JoinPosts -> JoinRequests \cup {J!NoPost}]
  BY DEF JoinTypes
<1>6. /\ post' \in [JoinPosts -> JoinRequests \cup {J!NoPost}]
      /\ \A k \in JoinPosts : /\ post'[k].at = post[k].at /\ post'[k].session = post[k].session
                              /\ post'[k].code = post[k].code
  BY <1>1, <1>5, AbandonedIs
<1>7. JoinTypes'
  BY <1>1, <1>3, <1>4, <1>6 DEF JoinTypes, J!room
<1>8. J!Joins' = J!Joins /\ Meaning' /\ Once'
  BY <1>1, <1>6, SamePosts DEF J!past
<1>9. Codes'
  BY <1>1, <1>6, <1>8 DEF Codes, J!CodeIsOfSession, J!past, J!Joins
<1>10. Forms'
  BY <1>1, <1>3 DEF Forms, Offering, J!At, JoinTypes
<1> QED BY <1>3, <1>7, <1>8, <1>9, <1>10

(* A fetch by code is asked, answered, given up.                                   *)
LEMMA ByCodeKept ==
    ASSUME JoinInv, NEW t \in JoinTabs, NEW s \in Sessions, NEW q \in J!Queries(J!Statuses),
           byCode' = [byCode EXCEPT ![t][s] = q], q.data = byCode[t][s].data,
           broken' \in [JoinTabs -> SUBSET Sessions], leftJoin' \in JoinBounds,
           UNCHANGED <<statusJoin, rows, storedJoin, pageJoin, post, J!room, held, J!past, reopened>>
    PROVE  JoinInv'
<1> USE DEF JoinInv
<1>1. JoinTypes'
  BY DEF JoinTypes, J!room
<1>2. Meaning' /\ Once'
  BY SamePosts DEF J!past
<1>3. Codes'
  BY DEF Codes, J!CodeIsOfSession, J!past, J!Joins, J!Under
<1>4. \A u \in JoinTabs, r \in Sessions : byCode'[u][r].data = byCode[u][r].data
  BY DEF JoinTypes
<1>5. \A u \in JoinTabs : pageJoin[u].at = "join" => pageJoin[u].code \in Sessions
  BY DEF JoinTypes, JoinPages
<1>6. Forms'
  BY <1>4, <1>5 DEF Forms, Offering, J!Loaded
<1>7. Endings'
  BY DEF Endings, Ended, Reads, Told, J!room
<1> QED BY <1>1, <1>2, <1>3, <1>6, <1>7

LEMMA FetchesKeep ==
    ASSUME JoinInv, NEW t \in JoinTabs, NEW s \in Sessions,
           J!IntervalFires(t) \/ J!WindowFocused(t) \/ J!AnswersByCode(t, s) \/ J!FetchFails(t, s)
    PROVE  JoinInv'
<1> USE DEF JoinInv
<1>1. pageJoin[t].at = "join" => pageJoin[t].code \in Sessions
  BY DEF JoinTypes, JoinPages
<1>2. leftJoin \in JoinBounds /\ broken \in [JoinTabs -> SUBSET Sessions] /\ "draft" \in J!Statuses
      /\ statusJoin[s] \in J!Statuses
  BY DEF JoinTypes, J!Statuses
<1>3. \A r \in Sessions : byCode[t][r] \in J!Queries(J!Statuses)
  BY DEF JoinTypes
<1>4. \A r \in Sessions : /\ J!Fetched(byCode[t][r]) \in J!Queries(J!Statuses)
                          /\ J!Fetched(byCode[t][r]).data = byCode[t][r].data
                          /\ J!Cancelled(byCode[t][r]) \in J!Queries(J!Statuses)
                          /\ J!Cancelled(byCode[t][r]).data = byCode[t][r].data
  BY <1>2, <1>3, Cached
<1>5. CASE J!IntervalFires(t)
  <2>1. /\ pageJoin[t].at = "join" /\ byCode' = [byCode EXCEPT ![t][pageJoin[t].code] = J!Fetched(@)]
        /\ UNCHANGED <<statusJoin, rows, storedJoin, pageJoin, broken, post, J!room, held, J!past, reopened, leftJoin>>
    BY <1>5 DEF J!IntervalFires
  <2> QED BY <1>1, <1>2, <1>4, <2>1, ByCodeKept
<1>6. CASE J!WindowFocused(t)
  <2>1. /\ pageJoin[t].at = "join" /\ byCode' = [byCode EXCEPT ![t][pageJoin[t].code] = J!Fetched(@)]
        /\ J!Use("walks")
        /\ UNCHANGED <<statusJoin, rows, storedJoin, pageJoin, broken, post, J!room, held, J!past, reopened>>
    BY <1>6 DEF J!WindowFocused
  <2>2. leftJoin' \in JoinBounds
    BY <1>2, <2>1, Spent
  <2> QED BY <1>1, <1>2, <1>4, <2>1, <2>2, ByCodeKept
<1>7. CASE J!AnswersByCode(t, s)
  <2>1. /\ byCode' = [byCode EXCEPT ![t][s] = J!Answered(@, statusJoin[s])]
        /\ UNCHANGED <<statusJoin, rows, storedJoin, pageJoin, broken, post, J!room, held, J!past, reopened, leftJoin>>
    BY <1>7 DEF J!AnswersByCode
  <2>2. /\ J!Answered(byCode[t][s], statusJoin[s]) \in J!Queries(J!Statuses)
        /\ J!Answered(byCode[t][s], statusJoin[s]).data = byCode[t][s].data
    BY <1>2, <1>3, Cached
  <2> QED BY <1>2, <2>1, <2>2, ByCodeKept
<1>8. CASE J!FetchFails(t, s)
  <2>1. /\ byCode' = [byCode EXCEPT ![t][s] = J!Cancelled(@)] /\ J!Use("faults")
        /\ broken' = [broken EXCEPT ![t] = @ \cup {s}]
        /\ UNCHANGED <<statusJoin, rows, storedJoin, pageJoin, post, J!room, held, J!past, reopened>>
    BY <1>8 DEF J!FetchFails
  <2>2. leftJoin' \in JoinBounds /\ broken' \in [JoinTabs -> SUBSET Sessions]
    BY <1>2, <2>1, Spent
  <2> QED BY <1>4, <2>1, <2>2, ByCodeKept
<1> QED BY <1>5, <1>6, <1>7, <1>8

(* The answer by the code is stored: who is in the session goes to its room.         *)
LEMMA StoresByCodeKeeps ==
    ASSUME JoinInv, NEW t \in JoinTabs, NEW s \in Sessions, J!StoresByCode(t, s) PROVE JoinInv'
<1> USE DEF JoinInv
<1>1. /\ byCode' = [byCode EXCEPT ![t][s] = J!Stored(@)]
      /\ broken' = [broken EXCEPT ![t] = @ \ {s}]
      /\ UNCHANGED <<statusJoin, rows, storedJoin, J!past, reopened, leftJoin>>
  BY DEF J!StoresByCode
<1>2. byCode[t][s] \in J!Queries(J!Statuses) /\ "draft" \in J!Statuses
  BY DEF JoinTypes, J!Statuses
<1>3. J!Stored(byCode[t][s]) \in J!Queries(J!Statuses) /\ J!Stored(byCode[t][s]).data = byCode[t][s].reply
  BY <1>2, Cached
<1>4. /\ byCode' \in [JoinTabs -> [Sessions -> J!Queries(J!Statuses)]]
      /\ broken' \in [JoinTabs -> SUBSET Sessions]
  BY <1>1, <1>3 DEF JoinTypes
<1>5. byCode'[t][s].data = byCode[t][s].reply
      /\ \A u \in JoinTabs, r \in Sessions : <<u, r>> # <<t, s>> => byCode'[u][r] = byCode[u][r]
  BY <1>1, <1>3 DEF JoinTypes
<1>6. post \in [JoinPosts -> JoinRequests \cup {J!NoPost}]
  BY DEF JoinTypes
<1>7. \A u \in JoinTabs : pageJoin[u].at = "join" => pageJoin[u].code \in Sessions
  BY DEF JoinTypes, JoinPages
<1>8. CASE pageJoin[t] = J!At("join", s) /\ J!IsIn(s) /\ byCode[t][s].reply # byCode[t][s].data
  <2>1. /\ J!ShowsRoom(t, storedJoin) /\ post' = J!Abandoned(t) /\ held' = [held EXCEPT ![t] = FALSE]
        /\ storedJoin \in Kept
    BY <1>8 DEF J!StoresByCode, JoinTypes
  <2>2. /\ pageJoin' = [pageJoin EXCEPT ![t] = J!At("room", none)] /\ pageJoin' \in [JoinTabs -> JoinPages]
        /\ seen' \in [JoinTabs -> Kept] /\ stateQ' \in [JoinTabs -> [Sessions -> J!Queries(J!Statuses)]]
        /\ over' \in [JoinTabs -> BOOLEAN] /\ told' \in [JoinTabs -> BOOLEAN]
        /\ moved' \in [JoinTabs -> BOOLEAN] /\ Endings'
    BY <1>1, <2>1, RoomShown
  <2>3. /\ post' \in [JoinPosts -> JoinRequests \cup {J!NoPost}]
        /\ \A k \in JoinPosts : /\ post'[k].at = post[k].at /\ post'[k].session = post[k].session
                                /\ post'[k].code = post[k].code
    BY <1>6, <2>1, AbandonedIs
  <2>4. JoinTypes'
    BY <1>1, <1>4, <2>1, <2>2, <2>3 DEF JoinTypes
  <2>5. J!Joins' = J!Joins /\ Meaning' /\ Once'
    BY <1>1, <2>3, SamePosts DEF J!past
  <2>6. Codes'
    BY <1>1, <2>3, <2>5 DEF Codes, J!CodeIsOfSession, J!past, J!Joins
  <2>7. ASSUME NEW u \in JoinTabs, Offering(u)', pageJoin'[u].code = storedJoin'.session
        PROVE held'[u]
    <3>1. u # t /\ pageJoin'[u] = pageJoin[u] /\ held'[u] = held[u]
      BY <2>1, <2>2, <2>7 DEF Offering, J!At, JoinTypes
    <3>2. pageJoin[u].at = "join" => byCode'[u][pageJoin[u].code] = byCode[u][pageJoin[u].code]
      BY <1>5, <1>7, <3>1
    <3> QED BY <1>1, <2>7, <3>1, <3>2 DEF Forms, Offering
  <2>8. Forms'
    BY <2>7 DEF Forms
  <2> QED BY <2>2, <2>4, <2>5, <2>6, <2>8
<1>9. CASE ~ (pageJoin[t] = J!At("join", s) /\ J!IsIn(s) /\ byCode[t][s].reply # byCode[t][s].data)
  <2>1. UNCHANGED <<pageJoin, J!room, held, post>>
    BY <1>9 DEF J!StoresByCode
  <2>2. JoinTypes'
    BY <1>1, <1>4, <2>1 DEF JoinTypes, J!room
  <2>3. Meaning' /\ Once'
    BY <1>1, <2>1, SamePosts DEF J!past
  <2>4. Codes'
    BY <1>1, <2>1 DEF Codes, J!CodeIsOfSession, J!past, J!Joins, J!Under
  <2>5. Endings'
    BY <1>1, <2>1 DEF Endings, Ended, Reads, Told, J!room
  <2>6. ASSUME NEW u \in JoinTabs, Offering(u)', pageJoin'[u].code = storedJoin'.session
        PROVE held'[u]
    <3>1. pageJoin'[u] = pageJoin[u] /\ held'[u] = held[u] /\ storedJoin' = storedJoin
      BY <1>1, <2>1
    <3>2. CASE <<u, pageJoin[u].code>> # <<t, s>> \/ pageJoin[u].at = "callback"
      <4>1. pageJoin[u].at = "join" => byCode'[u][pageJoin[u].code] = byCode[u][pageJoin[u].code]
        BY <1>5, <1>7, <3>2
      <4> QED BY <2>6, <3>1, <4>1 DEF Forms, Offering
    <3>3. CASE u = t /\ pageJoin[u].code = s /\ pageJoin[u].at = "join"
      <4>1. pageJoin[t] = J!At("join", s)
        BY <3>3 DEF JoinTypes, JoinPages, J!At
      <4>2. byCode[t][s].reply = byCode[t][s].data
        BY <1>9, <2>6, <3>1, <3>3, <4>1 DEF J!IsIn
      <4> QED BY <1>5, <2>6, <3>1, <3>3, <4>2 DEF Forms, Offering, J!Loaded
    <3> QED BY <2>6, <3>1, <3>2, <3>3 DEF Offering
  <2>7. Forms'
    BY <2>6 DEF Forms
  <2> QED BY <2>2, <2>3, <2>4, <2>5, <2>7
<1> QED BY <1>8, <1>9

(* A request is sent for the session whose form, or ticket, a page has.              *)
LEMMA Sending ==
    ASSUME JoinInv, NEW t \in JoinTabs, NEW s \in Sessions, J!Sends(t, s), Offering(t),
           pageJoin[t].code = s, UNCHANGED <<rows, storedJoin, renamed>>
    PROVE  post' \in [JoinPosts -> JoinRequests \cup {J!NoPost}] /\ Codes' /\ Meaning' /\ Once'
<1> USE DEF JoinInv
<1> DEFINE new == [at |-> "sent", tab |-> t, session |-> s, code |-> s, own |-> TRUE]
<1>1. PICK k \in JoinPosts : ~ J!Under(k) /\ post' = [post EXCEPT ![k] = new]
  BY DEF J!Sends
<1>2. /\ meant' = s /\ crossedJoin' = (crossedJoin \/ J!Joins # {})
      /\ doubt' = IF held[t] \/ \E j \in J!Joins : post[j].session = s
                  THEN doubt \cup {s} ELSE doubt
  BY DEF J!Sends
<1>3. new \in JoinRequests /\ new.at = "sent" /\ new.session = s /\ new.code = s
  BY DEF JoinRequests
<1> HIDE DEF new
<1>4. post' \in [JoinPosts -> JoinRequests \cup {J!NoPost}]
  BY <1>1, <1>3 DEF JoinTypes
<1>5. post'[k] = new /\ \A j \in JoinPosts : j # k => post'[j] = post[j]
  BY <1>1 DEF JoinTypes
<1>6. J!Joins' = J!Joins \cup {k} /\ k \notin J!Joins /\ J!Joins \subseteq JoinPosts
  BY <1>1, <1>3, <1>5 DEF J!Joins, J!Under
<1>7. Codes'
  BY <1>3, <1>5, <1>6 DEF Codes, J!CodeIsOfSession
<1>8. Meaning'
  BY <1>2, <1>3, <1>5, <1>6 DEF Meaning
<1>9. ASSUME NEW r \in Sessions, r \notin doubt' PROVE OnceIn(r)'
  <2>1. OnceIn(r)
    BY <1>2, <1>9 DEF Once
  <2>2. CASE r # s
    BY <1>3, <1>5, <1>6, <2>1, <2>2 DEF OnceIn
  <2>3. CASE r = s
    <3>1. ~ held[t] /\ \A j \in J!Joins : post[j].session # s
      BY <1>2, <1>9, <2>3
    <3>2. storedJoin.session # s
      BY <3>1 DEF Forms
    <3>3. rows[s] = 0
      BY <2>1, <2>3, <3>1, <3>2 DEF OnceIn
    <3> QED BY <1>3, <1>5, <1>6, <2>3, <3>1, <3>3 DEF OnceIn
  <2> QED BY <2>2, <2>3
<1>10. Once'
  BY <1>9 DEF Once
<1> QED BY <1>4, <1>7, <1>8, <1>10

LEMMA PressesKeeps ==
    ASSUME JoinInv, NEW t \in JoinTabs, J!Presses(t) PROVE JoinInv'
<1> USE DEF JoinInv
<1>1. /\ J!Offered(t) /\ J!Use("joins") /\ J!Sends(t, pageJoin[t].code)
      /\ UNCHANGED <<statusJoin, rows, storedJoin, pageJoin, byCode, broken, J!room, held, renamed, reopened>>
  BY DEF J!Presses
<1>2. pageJoin[t].at = "join" /\ pageJoin[t].code \in Sessions /\ byCode[t][pageJoin[t].code].data = "live"
  BY <1>1 DEF J!Offered, JoinTypes, JoinPages
<1>3. Offering(t)
  BY <1>2, Blank DEF Offering, J!Loaded, J!Statuses
<1>4. post' \in [JoinPosts -> JoinRequests \cup {J!NoPost}] /\ Codes' /\ Meaning' /\ Once'
  BY <1>1, <1>2, <1>3, Sending
<1>5. leftJoin' \in JoinBounds
  BY <1>1, Spent DEF JoinTypes
<1>6. JoinTypes'
  BY <1>1, <1>4, <1>5 DEF JoinTypes, J!room
<1>7. Forms' /\ Endings'
  BY <1>1 DEF Forms, Offering, Endings, Ended, Reads, Told, J!room
<1> QED BY <1>4, <1>6, <1>7

LEMMA SendsTicketKeeps ==
    ASSUME JoinInv, NEW t \in JoinTabs, J!SendsTicket(t) PROVE JoinInv'
<1> USE DEF JoinInv
<1>1. /\ pageJoin[t].at = "callback" /\ J!Sends(t, pageJoin[t].code)
      /\ pageJoin' = [pageJoin EXCEPT ![t].at = "ticket"]
      /\ UNCHANGED <<statusJoin, rows, storedJoin, byCode, broken, J!room, held, renamed, reopened, leftJoin>>
  BY DEF J!SendsTicket
<1>2. pageJoin[t].code \in Sessions /\ Offering(t)
  BY <1>1 DEF Offering, JoinTypes, JoinPages
<1>3. post' \in [JoinPosts -> JoinRequests \cup {J!NoPost}] /\ Codes' /\ Meaning' /\ Once'
  BY <1>1, <1>2, Sending
<1>4. pageJoin[t] \in [at : {"join", "callback", "ticket"}, code : Sessions]
  BY <1>1 DEF JoinTypes, JoinPages
<1>5. pageJoin' \in [JoinTabs -> JoinPages] /\ pageJoin'[t].at = "ticket"
      /\ \A u \in JoinTabs : u # t => pageJoin'[u] = pageJoin[u]
  BY <1>1, <1>4 DEF JoinTypes, JoinPages
<1>6. JoinTypes'
  BY <1>1, <1>3, <1>5 DEF JoinTypes, J!room
<1>7. Forms'
  BY <1>1, <1>5 DEF Forms, Offering
<1>8. Endings'
  BY <1>1, <1>5 DEF Endings, Ended, Reads, Told, J!room
<1> QED BY <1>3, <1>6, <1>7, <1>8

LEMMA SignsInElsewhereKeeps ==
    ASSUME JoinInv, NEW t \in JoinTabs, J!SignsInElsewhere(t) PROVE JoinInv'
<1> USE DEF JoinInv
<1> DEFINE c == pageJoin[t].code
<1>1. /\ J!Offered(t) /\ J!Use("joins") /\ J!ShowsPage(t, J!At("callback", c)) /\ UNCHANGED held
      /\ byCode' = [byCode EXCEPT ![t] = [s \in Sessions |-> IF s = c THEN J!Loading ELSE J!Unused]]
      /\ broken' = [broken EXCEPT ![t] = {}]
      /\ UNCHANGED <<statusJoin, rows, storedJoin, post, J!past, reopened>>
  BY DEF J!SignsInElsewhere
<1>2. pageJoin[t].at = "join" /\ c \in Sessions /\ byCode[t][c].data = "live"
  BY <1>1 DEF J!Offered, JoinTypes, JoinPages
<1>3. Offering(t)
  BY <1>2, Blank DEF Offering, J!Loaded, J!Statuses
<1>4. J!At("callback", c) \in JoinPages /\ J!At("callback", c).at = "callback" /\ J!At("callback", c).code = c
  BY <1>2 DEF J!At, JoinPages
<1> HIDE DEF c
<1>5. /\ pageJoin' = [pageJoin EXCEPT ![t] = J!At("callback", c)] /\ pageJoin' \in [JoinTabs -> JoinPages]
      /\ UNCHANGED J!room /\ Endings'
  BY <1>1, <1>4, PageShown
<1>6. /\ byCode' \in [JoinTabs -> [Sessions -> J!Queries(J!Statuses)]]
      /\ broken' \in [JoinTabs -> SUBSET Sessions]
  BY <1>1, Blank DEF JoinTypes
<1>7. leftJoin' \in JoinBounds
  BY <1>1, Spent DEF JoinTypes
<1>8. JoinTypes'
  BY <1>1, <1>5, <1>6, <1>7 DEF JoinTypes, J!room
<1>9. Meaning' /\ Once'
  BY <1>1, SamePosts DEF J!past
<1>10. Codes'
  BY <1>1 DEF Codes, J!CodeIsOfSession, J!past, J!Joins, J!Under
<1>11. ASSUME NEW u \in JoinTabs, Offering(u)', pageJoin'[u].code = storedJoin'.session
       PROVE held'[u]
  <2>1. CASE u = t
    <3>1. pageJoin[t].code = storedJoin.session
      BY <1>1, <1>4, <1>5, <1>11, <2>1 DEF JoinTypes, c
    <3> QED BY <1>1, <1>3, <2>1, <3>1 DEF Forms
  <2>2. CASE u # t
    <3>1. pageJoin'[u] = pageJoin[u] /\ byCode'[u] = byCode[u] /\ held' = held /\ storedJoin' = storedJoin
      BY <1>1, <1>5, <2>2 DEF JoinTypes
    <3> QED BY <1>11, <3>1 DEF Forms, Offering
  <2> QED BY <2>1, <2>2
<1>12. Forms'
  BY <1>11 DEF Forms
<1> QED BY <1>5, <1>8, <1>9, <1>10, <1>12

(* A request is served, its answer is lost, it is answered with a refusal.           *)
LEMMA PostKept ==
    ASSUME JoinInv, NEW k \in JoinPosts, NEW r \in JoinRequests \cup {J!NoPost}, post' = [post EXCEPT ![k] = r],
           Codes', Meaning', Once', rows' \in [Sessions -> Nat], leftJoin' \in JoinBounds,
           UNCHANGED <<statusJoin, storedJoin, pageJoin, byCode, broken, J!room, held, reopened>>
    PROVE  JoinInv'
<1> USE DEF JoinInv
<1>1. JoinTypes'
  BY DEF JoinTypes, J!room
<1>2. Forms' /\ Endings'
  BY DEF Forms, Offering, Endings, Ended, Reads, Told, J!room
<1> QED BY <1>1, <1>2

LEMMA PostIs ==
    ASSUME JoinInv, NEW k \in JoinPosts, post[k].at # "none",
           NEW a \in {"sent", "admitted", "refused"}, post' = [post EXCEPT ![k].at = a]
    PROVE  /\ post[k] \in JoinRequests /\ [post[k] EXCEPT !.at = a] \in JoinRequests
           /\ post' = [post EXCEPT ![k] = [post[k] EXCEPT !.at = a]]
           /\ post'[k].at = a /\ post'[k].session = post[k].session
           /\ post'[k].code = post[k].code /\ \A j \in JoinPosts : j # k => post'[j] = post[j]
           /\ J!Joins' = J!Joins /\ k \in J!Joins /\ J!Joins \subseteq JoinPosts
<1>1. post[k] \in JoinRequests
  BY DEF JoinInv, JoinTypes, J!NoPost
<1>2. [post[k] EXCEPT !.at = a] \in JoinRequests
  BY <1>1 DEF JoinRequests
<1>3. post' = [post EXCEPT ![k] = [post[k] EXCEPT !.at = a]]
  OBVIOUS
<1>4. /\ post'[k].at = a /\ post'[k].session = post[k].session /\ post'[k].code = post[k].code
      /\ \A j \in JoinPosts : j # k => post'[j] = post[j]
  BY <1>1, <1>3 DEF JoinInv, JoinTypes, JoinRequests
<1>5. J!Joins' = J!Joins /\ k \in J!Joins /\ J!Joins \subseteq JoinPosts
  BY <1>4 DEF J!Joins, J!Under
<1> QED BY <1>1, <1>2, <1>3, <1>4, <1>5

LEMMA ServesKeeps ==
    ASSUME JoinInv, NEW k \in JoinPosts, J!Serves(k) PROVE JoinInv'
<1> USE DEF JoinInv
<1> DEFINE s == post[k].session
<1>1. PICK a \in {"admitted", "refused"} :
         /\ post[k].at = "sent" /\ post' = [post EXCEPT ![k].at = a] /\ leftJoin' \in JoinBounds
         /\ rows' = IF a = "admitted" THEN [rows EXCEPT ![s] = @ + 1] ELSE rows
         /\ UNCHANGED <<statusJoin, storedJoin, pageJoin, byCode, broken, J!room, held, J!past, reopened>>
  BY Spent DEF J!Serves, JoinTypes
<1>2. /\ post[k] \in JoinRequests /\ [post[k] EXCEPT !.at = a] \in JoinRequests
      /\ post' = [post EXCEPT ![k] = [post[k] EXCEPT !.at = a]]
      /\ post'[k].at = a /\ post'[k].session = post[k].session
      /\ post'[k].code = post[k].code /\ \A j \in JoinPosts : j # k => post'[j] = post[j]
      /\ J!Joins' = J!Joins /\ k \in J!Joins /\ J!Joins \subseteq JoinPosts
  BY <1>1, PostIs
<1>3. s \in Sessions
  BY <1>2 DEF JoinRequests
<1>4. /\ rows' \in [Sessions -> Nat] /\ rows \in [Sessions -> Nat]
      /\ rows'[s] = IF a = "admitted" THEN rows[s] + 1 ELSE rows[s]
      /\ \A r \in Sessions : r # s => rows'[r] = rows[r]
  BY <1>1, <1>3 DEF JoinTypes
<1>5. Codes' /\ Meaning'
  BY <1>1, <1>2 DEF Codes, J!CodeIsOfSession, Meaning, J!past
<1>6. ASSUME NEW r \in Sessions, r \notin doubt' PROVE OnceIn(r)'
  <2>1. OnceIn(r)
    BY <1>1, <1>6 DEF Once, J!past
  <2>2. CASE r # s
    BY <1>1, <1>2, <1>4, <2>1, <2>2 DEF OnceIn
  <2>3. CASE r = s
    <3>1. rows[s] = 0 /\ \A j \in J!Joins : post[j].session = s => j = k
      BY <1>1, <1>2, <2>1, <2>3 DEF OnceIn
    <3>2. rows'[s] <= 1 /\ (a # "admitted" => rows'[s] = 0)
      BY <1>4, <3>1
    <3> QED BY <1>2, <2>3, <3>1, <3>2 DEF OnceIn
  <2> QED BY <2>2, <2>3
<1>7. Once'
  BY <1>6 DEF Once
<1> QED BY <1>1, <1>2, <1>4, <1>5, <1>7, PostKept

LEMMA AnswerLostKeeps ==
    ASSUME JoinInv, NEW k \in JoinPosts, J!AnswerLost(k) PROVE JoinInv'
<1> USE DEF JoinInv
<1>1. /\ post[k].at = "admitted" /\ post' = [post EXCEPT ![k].at = "refused"] /\ J!Use("faults")
      /\ doubt' = doubt \cup {post[k].session}
      /\ UNCHANGED <<statusJoin, rows, storedJoin, pageJoin, byCode, broken, J!room, held, meant, crossedJoin,
                     renamed, reopened>>
  BY DEF J!AnswerLost
<1>2. /\ post[k] \in JoinRequests /\ [post[k] EXCEPT !.at = "refused"] \in JoinRequests
      /\ post' = [post EXCEPT ![k] = [post[k] EXCEPT !.at = "refused"]]
      /\ post'[k].at = "refused" /\ post'[k].session = post[k].session
      /\ post'[k].code = post[k].code /\ \A j \in JoinPosts : j # k => post'[j] = post[j]
      /\ J!Joins' = J!Joins /\ k \in J!Joins /\ J!Joins \subseteq JoinPosts
  BY <1>1, PostIs
<1>3. leftJoin' \in JoinBounds /\ rows' \in [Sessions -> Nat]
  BY <1>1, Spent DEF JoinTypes
<1>4. Codes' /\ Meaning'
  BY <1>1, <1>2 DEF Codes, J!CodeIsOfSession, Meaning
<1>5. ASSUME NEW r \in Sessions, r \notin doubt' PROVE OnceIn(r)'
  BY <1>1, <1>2, <1>5 DEF Once, OnceIn
<1>6. Once'
  BY <1>5 DEF Once
<1> QED BY <1>1, <1>2, <1>3, <1>4, <1>6, PostKept

(* A request that is over.                                                         *)
LEMMA PostOver ==
    ASSUME JoinInv, NEW k \in JoinPosts, post[k].at # "none", post'[k] = J!NoPost,
           \A j \in JoinPosts \ {k} : /\ post'[j].at = post[j].at /\ post'[j].session = post[j].session
                                 /\ post'[j].code = post[j].code
    PROVE  /\ post[k] \in JoinRequests /\ J!Joins' = J!Joins \ {k} /\ k \in J!Joins /\ J!Joins \subseteq JoinPosts
<1>1. post[k] \in JoinRequests
  BY DEF JoinInv, JoinTypes, J!NoPost
<1> QED BY <1>1 DEF J!Joins, J!Under, J!NoPost

LEMMA NotJoinedKeeps ==
    ASSUME JoinInv, NEW k \in JoinPosts, J!NotJoined(k) PROVE JoinInv'
<1> USE DEF JoinInv
<1>1. /\ post[k].at = "refused" /\ post' = [post EXCEPT ![k] = J!NoPost]
      /\ meant' = IF meant = post[k].session THEN storedJoin.session ELSE meant
      /\ UNCHANGED <<statusJoin, rows, storedJoin, pageJoin, byCode, broken, J!room, held, crossedJoin, renamed,
                     doubt, reopened, leftJoin>>
  BY DEF J!NotJoined
<1>2. post'[k] = J!NoPost /\ \A j \in JoinPosts \ {k} : post'[j] = post[j]
  BY <1>1 DEF JoinTypes
<1>3. post[k] \in JoinRequests /\ J!Joins' = J!Joins \ {k} /\ k \in J!Joins /\ J!Joins \subseteq JoinPosts
  BY <1>1, <1>2, PostOver
<1>4. leftJoin' \in JoinBounds /\ rows' \in [Sessions -> Nat]
  BY <1>1 DEF JoinTypes
<1>5. Codes'
  BY <1>1, <1>2, <1>3 DEF Codes, J!CodeIsOfSession
<1>6. Meaning'
  BY <1>1, <1>2, <1>3 DEF Meaning
<1>7. ASSUME NEW r \in Sessions, r \notin doubt' PROVE OnceIn(r)'
  <2>1. OnceIn(r)
    BY <1>1, <1>7 DEF Once
  <2>2. CASE r # post[k].session
    BY <1>1, <1>2, <1>3, <2>1, <2>2 DEF OnceIn
  <2>3. CASE r = post[k].session
    <3>1. rows'[r] = 0 /\ \A j \in J!Joins' : post'[j].session # r
      BY <1>1, <1>2, <1>3, <2>1, <2>3 DEF OnceIn
    <3> QED BY <3>1 DEF OnceIn
  <2> QED BY <2>2, <2>3
<1>8. Once'
  BY <1>7 DEF Once
<1> QED BY <1>1, <1>4, <1>5, <1>6, <1>8, PostKept

(* The answer comes for a page that listens no longer.                              *)
LEMMA DropsKeeps ==
    ASSUME JoinInv, NEW k \in JoinPosts, J!Joined(k), J!Drops(k) PROVE JoinInv'
<1> USE DEF JoinInv
<1>1. /\ post[k].at = "admitted" /\ post' = [post EXCEPT ![k] = J!NoPost]
      /\ meant' = IF meant = post[k].session THEN storedJoin.session ELSE meant
      /\ doubt' = doubt \cup {post[k].session}
      /\ UNCHANGED <<statusJoin, rows, storedJoin, pageJoin, byCode, broken, J!room, held, crossedJoin, renamed,
                     reopened, leftJoin>>
  BY DEF J!Joined, J!Drops
<1>2. post'[k] = J!NoPost /\ \A j \in JoinPosts \ {k} : post'[j] = post[j]
  BY <1>1 DEF JoinTypes
<1>3. post[k] \in JoinRequests /\ J!Joins' = J!Joins \ {k} /\ k \in J!Joins /\ J!Joins \subseteq JoinPosts
  BY <1>1, <1>2, PostOver
<1>4. leftJoin' \in JoinBounds /\ rows' \in [Sessions -> Nat]
  BY <1>1 DEF JoinTypes
<1>5. Codes'
  BY <1>1, <1>2, <1>3 DEF Codes, J!CodeIsOfSession
<1>6. Meaning'
  BY <1>1, <1>2, <1>3 DEF Meaning
<1>7. ASSUME NEW r \in Sessions, r \notin doubt' PROVE OnceIn(r)'
  <2>1. OnceIn(r) /\ r # post[k].session
    BY <1>1, <1>7 DEF Once
  <2> QED BY <1>1, <1>2, <1>3, <2>1 DEF OnceIn
<1>8. Once'
  BY <1>7 DEF Once
<1> QED BY <1>1, <1>4, <1>5, <1>6, <1>8, PostKept

(* The session joined is stored.                                                   *)
LEMMA KeepsKeeps ==
    ASSUME JoinInv, NEW k \in JoinPosts, J!Joined(k), J!Keeps(k, post[k].tab, post[k].session)
    PROVE  JoinInv'
<1> USE DEF JoinInv
<1> DEFINE t == post[k].tab
           s == post[k].session
<1>1. /\ post[k].at = "admitted" /\ storedJoin' = [session |-> s, code |-> post[k].code]
      /\ rows' = [r \in Sessions |-> IF r = s THEN rows[r] ELSE 0]
      /\ held' = [J!HeldElsewhere(t, s) EXCEPT ![t] = FALSE]
      /\ \/ pageJoin[t].at = "room" /\ post' = [post EXCEPT ![k] = J!NoPost] /\ UNCHANGED <<pageJoin, J!room>>
         \/ /\ pageJoin[t].at # "room" /\ J!ShowsRoom(t, storedJoin')
            /\ post' = [J!Abandoned(t) EXCEPT ![k] = J!NoPost]
      /\ UNCHANGED <<statusJoin, byCode, broken, meant, crossedJoin, renamed, doubt, reopened, leftJoin>>
  BY DEF J!Joined, J!Keeps
<1>2. post[k] \in JoinRequests
  BY <1>1 DEF JoinTypes, J!NoPost
<1>3. t \in JoinTabs /\ s \in Sessions /\ post[k].code \in Sessions
  BY <1>2 DEF JoinRequests
<1>4. storedJoin' \in Kept /\ storedJoin'.session = s /\ storedJoin'.code = post[k].code
  BY <1>1, <1>3 DEF Kept
<1>5. /\ J!Abandoned(t) \in [JoinPosts -> JoinRequests \cup {J!NoPost}]
      /\ \A j \in JoinPosts : /\ J!Abandoned(t)[j].at = post[j].at
                              /\ J!Abandoned(t)[j].session = post[j].session
                              /\ J!Abandoned(t)[j].code = post[j].code
  BY AbandonedIs DEF JoinTypes
<1> HIDE DEF t, s
<1>6. /\ post' \in [JoinPosts -> JoinRequests \cup {J!NoPost}] /\ post'[k] = J!NoPost
      /\ \A j \in JoinPosts \ {k} : /\ post'[j].at = post[j].at
                                    /\ post'[j].session = post[j].session
                                    /\ post'[j].code = post[j].code
  BY <1>1, <1>5 DEF JoinTypes
<1>7. J!Joins' = J!Joins \ {k} /\ k \in J!Joins /\ J!Joins \subseteq JoinPosts
  BY <1>1, <1>6, PostOver
<1>8. rows' \in [Sessions -> Nat] /\ rows'[s] = rows[s] /\ \A r \in Sessions : r # s => rows'[r] = 0
  BY <1>1, <1>3 DEF JoinTypes
<1>9. /\ pageJoin' \in [JoinTabs -> JoinPages] /\ pageJoin'[t].at = "room"
      /\ \A u \in JoinTabs : u # t => pageJoin'[u] = pageJoin[u]
      /\ seen' \in [JoinTabs -> Kept] /\ stateQ' \in [JoinTabs -> [Sessions -> J!Queries(J!Statuses)]]
      /\ over' \in [JoinTabs -> BOOLEAN] /\ told' \in [JoinTabs -> BOOLEAN]
      /\ moved' \in [JoinTabs -> BOOLEAN] /\ Endings'
  <2>1. CASE pageJoin[t].at = "room" /\ UNCHANGED <<pageJoin, J!room>>
    BY <1>1, <2>1 DEF JoinTypes, J!room, Endings, Ended, Reads, Told
  <2>2. CASE J!ShowsRoom(t, storedJoin')
    <3>1. /\ pageJoin' = [pageJoin EXCEPT ![t] = J!At("room", none)] /\ pageJoin' \in [JoinTabs -> JoinPages]
          /\ seen' \in [JoinTabs -> Kept] /\ stateQ' \in [JoinTabs -> [Sessions -> J!Queries(J!Statuses)]]
          /\ over' \in [JoinTabs -> BOOLEAN] /\ told' \in [JoinTabs -> BOOLEAN]
          /\ moved' \in [JoinTabs -> BOOLEAN] /\ Endings'
      BY <1>1, <1>3, <1>4, <2>2, RoomShown
    <3> QED BY <1>3, <3>1 DEF JoinTypes, J!At
  <2> QED BY <1>1, <2>1, <2>2
<1>10. /\ held' \in [JoinTabs -> BOOLEAN]
       /\ \A u \in JoinTabs : u # t /\ pageJoin[u].code = s
                          /\ (pageJoin[u].at = "callback" \/ J!Loaded(byCode[u][s])) => held'[u]
  <2>1. \A u \in JoinTabs : J!HeldElsewhere(t, s)[u] \in BOOLEAN
    BY Zenon DEF J!HeldElsewhere
  <2>2. J!HeldElsewhere(t, s) \in [JoinTabs -> BOOLEAN]
    BY <2>1 DEF J!HeldElsewhere
  <2>3. \A u \in JoinTabs : u # t /\ pageJoin[u].code = s
                        /\ (pageJoin[u].at = "callback" \/ J!Loaded(byCode[u][s])) => J!HeldElsewhere(t, s)[u]
    BY Zenon DEF J!HeldElsewhere
  <2> QED BY <1>1, <2>2, <2>3
<1>11. JoinTypes'
  BY <1>1, <1>4, <1>6, <1>8, <1>9, <1>10 DEF JoinTypes
<1>12. Codes'
  BY <1>1, <1>4, <1>6, <1>7 DEF Codes, J!CodeIsOfSession, s
<1>13. Meaning'
  BY <1>1, <1>4, <1>6, <1>7 DEF Meaning, s
<1>14. ASSUME NEW r \in Sessions, r \notin doubt' PROVE OnceIn(r)'
  <2>1. OnceIn(r)
    BY <1>1, <1>14 DEF Once
  <2>2. CASE r # s
    BY <1>6, <1>7, <1>8, <2>1, <2>2 DEF OnceIn
  <2>3. CASE r = s
    <3>1. rows[s] <= 1 /\ \A j \in J!Joins : post[j].session = s => j = k
      BY <1>7, <2>1, <2>3 DEF OnceIn, s
    <3>4. rows[s] \in Nat
      BY <1>3 DEF JoinTypes
    <3>2. rows'[s] <= 1 /\ (rows'[s] = 0 \/ rows'[s] = 1)
      BY <1>8, <3>1, <3>4
    <3> QED BY <1>4, <1>6, <1>7, <2>3, <3>1, <3>2 DEF OnceIn
  <2> QED BY <2>2, <2>3
<1>15. Once'
  BY <1>14 DEF Once
<1>16. Forms'
  BY <1>1, <1>4, <1>9, <1>10 DEF Forms, Offering
<1> QED BY <1>9, <1>11, <1>12, <1>13, <1>15, <1>16

(* A room page asks for its session's state and is answered.                        *)
LEMMA StateKept ==
    ASSUME JoinInv, NEW t \in JoinTabs, NEW s \in Sessions, NEW q \in J!Queries(J!Statuses),
           q.data = "ended" \/ q.reply = "ended" => Ended(s),
           stateQ' = [stateQ EXCEPT ![t][s] = q],
           UNCHANGED <<statusJoin, rows, storedJoin, pageJoin, byCode, broken, post, seen, over, told,
                       moved, held, J!past, reopened, leftJoin>>
    PROVE  JoinInv'
<1> USE DEF JoinInv
<1>1. JoinTypes'
  BY DEF JoinTypes
<1>2. Meaning' /\ Once'
  BY SamePosts DEF J!past
<1>3. Codes' /\ Forms'
  BY DEF Codes, J!CodeIsOfSession, J!past, J!Joins, J!Under, Forms, Offering
<1>4. ASSUME NEW u \in JoinTabs, NEW r \in Sessions, Reads(u, r)' PROVE Ended(r)'
  <2>1. stateQ'[u][r] = IF u = t /\ r = s THEN q ELSE stateQ[u][r]
    BY DEF JoinTypes
  <2> QED BY <1>4, <2>1 DEF Reads, Endings, Ended
<1>5. \A u \in JoinTabs : Told(u)' => seen'[u] # J!Nowhere /\ Ended(seen[u].session)'
  BY DEF Endings, Ended, Told
<1>6. Endings'
  BY <1>4, <1>5 DEF Endings
<1> QED BY <1>1, <1>2, <1>3, <1>6

LEMMA StatesKeep ==
    ASSUME JoinInv, NEW t \in JoinTabs, NEW s \in Sessions, J!RoomPolls(t) \/ J!AnswersState(t, s)
    PROVE  JoinInv'
<1> USE DEF JoinInv
<1>1. \A r \in Sessions : stateQ[t][r] \in J!Queries(J!Statuses) /\ statusJoin[r] \in J!Statuses
  BY DEF JoinTypes
<1>2. CASE J!RoomPolls(t)
  <2> DEFINE r == seen[t].session
             q == J!Fetched(stateQ[t][r])
  <2>1. /\ J!Polled(t) /\ stateQ' = [stateQ EXCEPT ![t][r] = q]
        /\ UNCHANGED <<statusJoin, rows, storedJoin, pageJoin, byCode, broken, post, seen, over, told,
                       moved, held, J!past, reopened, leftJoin>>
    BY <1>2 DEF J!RoomPolls
  <2>2. r \in Sessions
    BY <2>1, Named DEF J!Polled, JoinTypes
  <2>3. q \in J!Queries(J!Statuses) /\ q.data = stateQ[t][r].data /\ q.reply = stateQ[t][r].reply
    BY <1>1, <2>2, Cached
  <2> HIDE DEF q
  <2>4. q.data = "ended" \/ q.reply = "ended" => Ended(r)
    BY <2>2, <2>3 DEF Endings, Reads
  <2> QED BY <2>1, <2>2, <2>3, <2>4, StateKept
<1>3. CASE J!AnswersState(t, s)
  <2> DEFINE q == J!Answered(stateQ[t][s], statusJoin[s])
  <2>1. /\ stateQ' = [stateQ EXCEPT ![t][s] = q]
        /\ UNCHANGED <<statusJoin, rows, storedJoin, pageJoin, byCode, broken, post, seen, over, told,
                       moved, held, J!past, reopened, leftJoin>>
    BY <1>3 DEF J!AnswersState
  <2>2. q \in J!Queries(J!Statuses) /\ q.data = stateQ[t][s].data /\ q.reply = statusJoin[s]
    BY <1>1, Cached
  <2> HIDE DEF q
  <2>3. q.data = "ended" \/ q.reply = "ended" => Ended(s)
    BY <2>2 DEF Endings, Reads, Ended
  <2> QED BY <2>1, <2>2, <2>3, StateKept
<1> QED BY <1>2, <1>3

(* The state is stored: the room is rendered with what is stored by now.             *)
LEMMA StoresStateKeeps ==
    ASSUME JoinInv, NEW t \in JoinTabs, NEW s \in Sessions, J!StoresState(t, s) PROVE JoinInv'
<1> USE DEF JoinInv
<1> DEFINE q == J!Stored(stateQ[t][s])
           asks == [stateQ EXCEPT ![t][s] = q]
<1>1. /\ IF J!Polled(t) /\ s = seen[t].session THEN J!Renders(t, asks)
         ELSE stateQ' = asks /\ UNCHANGED <<seen, over, told, moved>>
      /\ UNCHANGED <<statusJoin, rows, storedJoin, pageJoin, byCode, broken, post, held, J!past, reopened,
                     leftJoin>>
  BY DEF J!StoresState
<1>2. stateQ[t][s] \in J!Queries(J!Statuses) /\ "draft" \in J!Statuses
  BY DEF JoinTypes, J!Statuses
<1>3. q \in J!Queries(J!Statuses) /\ q.data = stateQ[t][s].reply /\ q.reply = NoData
  BY <1>2, Cached
<1>4. NoData # "ended"
  BY Blank DEF J!Statuses
<1> HIDE DEF q
<1>5. q.data = "ended" \/ q.reply = "ended" => Ended(s)
  BY <1>3, <1>4 DEF Endings, Reads
<1>6. CASE ~ (J!Polled(t) /\ s = seen[t].session)
  BY <1>1, <1>3, <1>5, <1>6, StateKept
<1>7. CASE J!Polled(t) /\ s = seen[t].session
  <2> DEFINE c == storedJoin.session
             ends == storedJoin # J!Nowhere /\ asks[t][c].data = "ended"
  <2>1. /\ seen' = [seen EXCEPT ![t] = storedJoin]
        /\ stateQ' = IF c \in {none, seen[t].session} THEN asks
                     ELSE [asks EXCEPT ![t][c] = J!Fetched(@)]
        /\ moved' = [moved EXCEPT ![t] = @ \/ c # seen[t].session]
        /\ told' = [told EXCEPT ![t] = @ /\ c = seen[t].session]
        /\ over' = [over EXCEPT ![t] = @ \/ ends]
    BY <1>1, <1>7 DEF J!Renders
  <2>2. asks \in [JoinTabs -> [Sessions -> J!Queries(J!Statuses)]]
    BY <1>3 DEF JoinTypes
  <2>3. \A u \in JoinTabs, r \in Sessions :
           asks[u][r].data = "ended" \/ asks[u][r].reply = "ended" => Ended(r)
    <3>1. \A u \in JoinTabs, r \in Sessions :
             asks[u][r] = IF u = t /\ r = s THEN q ELSE stateQ[u][r]
      BY DEF JoinTypes
    <3> QED BY <1>5, <3>1 DEF Endings, Reads
  <2>4. ends => Ended(c)
    BY <2>3, Named DEF JoinTypes
  <2>5. c \in Sessions \cup {none}
    BY DEF JoinTypes, Kept, J!Nowhere
  <2>6. ends \in BOOLEAN
    BY Zenon
  <2>12. (over[t] \/ ends) \in BOOLEAN /\ (over[t] \/ ends => over[t] \/ ends)
    BY Zenon
  <2> HIDE DEF asks, ends
  <2>7. /\ stateQ' \in [JoinTabs -> [Sessions -> J!Queries(J!Statuses)]]
        /\ \A u \in JoinTabs, r \in Sessions : Reads(u, r)' => Ended(r)
    <3>1. CASE c \in {none, seen[t].session}
      BY <2>1, <2>2, <2>3, <3>1 DEF Reads
    <3>2. CASE c \notin {none, seen[t].session}
      <4>1. c \in Sessions /\ asks[t][c] \in J!Queries(J!Statuses)
        BY <2>2, <2>5, <3>2
      <4>2. /\ J!Fetched(asks[t][c]) \in J!Queries(J!Statuses)
            /\ J!Fetched(asks[t][c]).data = asks[t][c].data
            /\ J!Fetched(asks[t][c]).reply = asks[t][c].reply
        BY <1>2, <4>1, Cached
      <4>3. stateQ' = [asks EXCEPT ![t][c] = J!Fetched(asks[t][c])]
        BY <2>1, <3>2
      <4>4. stateQ' \in [JoinTabs -> [Sessions -> J!Queries(J!Statuses)]]
        BY <2>2, <4>1, <4>2, <4>3
      <4>5. \A u \in JoinTabs, r \in Sessions : /\ stateQ'[u][r].data = asks[u][r].data
                                           /\ stateQ'[u][r].reply = asks[u][r].reply
        BY <2>2, <4>1, <4>2, <4>3
      <4> QED BY <2>3, <4>4, <4>5 DEF Reads
    <3> QED BY <3>1, <3>2
  <2>8. over' \in [JoinTabs -> BOOLEAN] /\ told' \in [JoinTabs -> BOOLEAN] /\ moved' \in [JoinTabs -> BOOLEAN]
    <3>1. (moved[t] \/ c # seen[t].session) \in BOOLEAN /\ (told[t] /\ c = seen[t].session) \in BOOLEAN
      BY Zenon
    <3> QED BY <2>1, <2>12, <3>1 DEF JoinTypes
  <2>9. JoinTypes'
    BY <1>1, <2>1, <2>7, <2>8 DEF JoinTypes
  <2>10. Meaning' /\ Once' /\ Codes' /\ Forms'
    BY <1>1, SamePosts DEF J!past, Codes, J!CodeIsOfSession, J!Joins, J!Under, Forms,
                           Offering
  <2>11. ASSUME NEW u \in JoinTabs, Told(u)'
         PROVE seen'[u] # J!Nowhere /\ Ended(seen[u].session)'
    <3>1. CASE u # t
      BY <1>1, <2>1, <2>11, <3>1 DEF Told, Endings, Ended, JoinTypes
    <3>2. CASE u = t
      <4>1. pageJoin[t].at = "room" /\ ~ moved[t] /\ c = seen[t].session /\ (told[t] \/ over[t] \/ ends)
        BY <1>1, <2>1, <2>11, <3>2 DEF Told, JoinTypes
      <4>2. Ended(c)
        BY <2>4, <4>1 DEF Told, Endings
      <4>3. storedJoin # J!Nowhere
        <5>1. seen[t] \in Kept /\ seen[t] # J!Nowhere
          BY <1>7 DEF J!Polled, JoinTypes
        <5> QED BY <4>1, <5>1, Named, PartsAssumption DEF PartsAssumption, J!Nowhere,
            J!JoiningAssumption
      <4> QED BY <1>1, <2>1, <3>2, <4>2, <4>3 DEF Ended, JoinTypes
    <3> QED BY <3>1, <3>2
  <2>13. Endings'
    BY <1>1, <2>7, <2>11 DEF Endings, Ended
  <2> QED BY <2>9, <2>10, <2>13
<1> QED BY <1>6, <1>7

LEMMA HearsKeeps ==
    ASSUME JoinInv, NEW t \in JoinTabs, J!HearsOfTheEnd(t) PROVE JoinInv'
<1> USE DEF JoinInv
<1>1. /\ told[t] /\ over' = [over EXCEPT ![t] = TRUE] /\ told' = [told EXCEPT ![t] = FALSE]
      /\ UNCHANGED <<statusJoin, rows, storedJoin, pageJoin, byCode, broken, post, seen, stateQ, moved,
                     held, J!past, reopened, leftJoin>>
  BY DEF J!HearsOfTheEnd
<1>2. JoinTypes'
  BY <1>1 DEF JoinTypes
<1>3. Meaning' /\ Once' /\ Codes' /\ Forms'
  BY <1>1, SamePosts DEF J!past, Codes, J!CodeIsOfSession, J!Joins, J!Under, Forms,
                         Offering
<1>4. \A u \in JoinTabs : Told(u)' => Told(u)
  BY <1>1 DEF Told, JoinTypes
<1>5. Endings'
  BY <1>1, <1>4 DEF Endings, Ended, Reads
<1> QED BY <1>2, <1>3, <1>5

LEMMA LeavesKeeps ==
    ASSUME JoinInv, NEW t \in JoinTabs, J!Leaves(t) PROVE JoinInv'
<1> USE DEF JoinInv
<1>1. /\ J!Polled(t) /\ J!Use("leaves") /\ storedJoin' = J!Nowhere /\ rows' = [s \in Sessions |-> 0]
      /\ J!ShowsJoin(t, seen[t].code, J!Nowhere)
      /\ meant' = none /\ crossedJoin' = (crossedJoin \/ J!Joins # {})
      /\ UNCHANGED <<statusJoin, broken, renamed, doubt, reopened>>
  BY DEF J!Leaves
<1>2. seen[t].code \in Sessions /\ pageJoin[t].at = "room"
  BY <1>1, Named DEF J!Polled, JoinTypes
<1>3. storedJoin' \in Kept /\ J!ShowsJoin(t, seen[t].code, storedJoin')
  BY <1>1 DEF Kept
<1>4. /\ pageJoin' \in [JoinTabs -> JoinPages] /\ seen' \in [JoinTabs -> Kept]
      /\ stateQ' \in [JoinTabs -> [Sessions -> J!Queries(J!Statuses)]]
      /\ byCode' \in [JoinTabs -> [Sessions -> J!Queries(J!Statuses)]]
      /\ over' \in [JoinTabs -> BOOLEAN] /\ told' \in [JoinTabs -> BOOLEAN]
      /\ moved' \in [JoinTabs -> BOOLEAN] /\ held' \in [JoinTabs -> BOOLEAN]
      /\ Endings' /\ Forms'
      /\ post' = J!Abandoned(t) \/ (pageJoin[t].at = "join" /\ post' = J!Recoded(t, seen[t].code))
  BY <1>1, <1>2, <1>3, JoinShown
<1>5. leftJoin' \in JoinBounds
  BY <1>1, Spent DEF JoinTypes
<1>6. /\ post' \in [JoinPosts -> JoinRequests \cup {J!NoPost}]
      /\ \A k \in JoinPosts : /\ post'[k].at = post[k].at /\ post'[k].session = post[k].session
                              /\ post'[k].code = post[k].code
  BY <1>2, <1>4, AbandonedIs DEF JoinTypes
<1>7. JoinTypes'
  BY <1>1, <1>3, <1>4, <1>5, <1>6 DEF JoinTypes
<1>8. J!Joins' = J!Joins /\ J!Joins \subseteq JoinPosts
  BY <1>6 DEF J!Joins, J!Under
<1>9. Codes' /\ Meaning'
  BY <1>1, <1>6, <1>8 DEF Codes, J!CodeIsOfSession, Meaning, J!Nowhere
<1>10. ASSUME NEW r \in Sessions, r \notin doubt' PROVE OnceIn(r)'
  <2>1. OnceIn(r) /\ rows'[r] = 0
    BY <1>1, <1>10 DEF Once
  <2> QED BY <1>6, <1>8, <2>1 DEF OnceIn
<1>11. Once'
  BY <1>10 DEF Once
<1> QED BY <1>4, <1>7, <1>9, <1>11

(* The host opens and ends sessions.                                               *)
LEMMA OpensKeeps ==
    ASSUME JoinInv, NEW s \in Sessions, J!Opens(s) PROVE JoinInv'
<1> USE DEF JoinInv
<1>1. /\ statusJoin' = [statusJoin EXCEPT ![s] = "live"] /\ J!Use("moves")
      /\ reopened' = (reopened \/ statusJoin[s] = "ended")
      /\ UNCHANGED <<rows, storedJoin, pageJoin, byCode, broken, post, J!room, held, J!past>>
  BY DEF J!Opens
<1>2. leftJoin' \in JoinBounds
  BY <1>1, Spent DEF JoinTypes
<1>3. JoinTypes'
  BY <1>1, <1>2 DEF JoinTypes, J!room, J!Statuses
<1>4. Meaning' /\ Once' /\ Codes' /\ Forms'
  BY <1>1, SamePosts DEF J!past, Codes, J!CodeIsOfSession, J!Joins, J!Under, Forms,
                         Offering
<1>5. \A r \in Sessions : Ended(r) => Ended(r)'
  BY <1>1 DEF Ended, JoinTypes
<1>6. \A u \in JoinTabs : seen[u] # J!Nowhere => seen[u].session \in Sessions
  BY Named DEF JoinTypes
<1>7. Endings'
  BY <1>1, <1>5, <1>6 DEF Endings, Reads, Told, J!room
<1> QED BY <1>3, <1>4, <1>7

LEMMA EndsKeeps ==
    ASSUME JoinInv, NEW s \in Sessions, J!Ends(s) PROVE JoinInv'
<1> USE DEF JoinInv
<1>1. PICK lost \in SUBSET JoinTabs :
         told' = [t \in JoinTabs |-> told[t] \/ (t \notin lost /\ J!Polled(t) /\ seen[t].session = s)]
  BY DEF J!Ends
<1>2. /\ statusJoin' = [statusJoin EXCEPT ![s] = "ended"] /\ J!Use("moves")
      /\ UNCHANGED <<rows, storedJoin, pageJoin, byCode, broken, post, seen, stateQ, over, moved,
                     held, J!past, reopened>>
  BY DEF J!Ends
<1>3. leftJoin' \in JoinBounds
  BY <1>2, Spent DEF JoinTypes
<1>4. told' \in [JoinTabs -> BOOLEAN]
  <2>1. \A t \in JoinTabs : (told[t] \/ (t \notin lost /\ J!Polled(t) /\ seen[t].session = s)) \in BOOLEAN
    BY Zenon
  <2> QED BY <1>1, <2>1
<1>5. JoinTypes'
  BY <1>2, <1>3, <1>4 DEF JoinTypes, J!Statuses
<1>6. Meaning' /\ Once' /\ Codes' /\ Forms'
  BY <1>2, SamePosts DEF J!past, Codes, J!CodeIsOfSession, J!Joins, J!Under, Forms,
                         Offering
<1>7. Ended(s)' /\ \A r \in Sessions : Ended(r) => Ended(r)'
  BY <1>2 DEF Ended, JoinTypes
<1>8. ASSUME NEW u \in JoinTabs, Told(u)' PROVE seen'[u] # J!Nowhere /\ Ended(seen[u].session)'
  <2>1. pageJoin[u].at = "room" /\ ~ moved[u] /\ seen'[u] = seen[u]
        /\ (told[u] \/ over[u] \/ (J!Polled(u) /\ seen[u].session = s))
    BY <1>1, <1>2, <1>8 DEF Told
  <2>2. CASE told[u] \/ over[u]
    <3>1. seen[u] # J!Nowhere /\ Ended(seen[u].session)
      BY <2>1, <2>2 DEF Endings, Told
    <3>2. seen[u].session \in Sessions
      BY <3>1, Named DEF JoinTypes
    <3> QED BY <1>2, <1>7, <2>1, <3>1, <3>2
  <2>3. CASE J!Polled(u) /\ seen[u].session = s
    BY <1>2, <1>7, <2>1, <2>3 DEF J!Polled
  <2> QED BY <2>1, <2>2, <2>3
<1>9. Endings'
  BY <1>2, <1>7, <1>8 DEF Endings, Reads
<1> QED BY <1>5, <1>6, <1>9

-----------------------------------------------------------------------------
LEMMA JoinNext == ASSUME JoinInv, [J!Next]_J!vars PROVE JoinInv'
<1>1. ASSUME UNCHANGED J!vars PROVE JoinInv'
  <2>1. UNCHANGED <<statusJoin, rows, storedJoin, pageJoin, byCode, broken, post, seen, stateQ, over, told,
                   meant, crossedJoin, renamed, held, doubt, moved, reopened, leftJoin>>
    BY <1>1 DEF J!vars
  <2>2. Meaning' /\ Once'
    BY <2>1, SamePosts DEF JoinInv
  <2>3. Codes' /\ Forms' /\ Endings'
    BY <2>1 DEF JoinInv, Codes, J!CodeIsOfSession, J!Joins, J!Under, Forms, Offering,
                Endings, Ended,
                Reads, Told
  <2>4. JoinTypes'
    BY <2>1 DEF JoinInv, JoinTypes
  <2> QED BY <2>2, <2>3, <2>4 DEF JoinInv
<1>2. ASSUME NEW t \in JoinTabs, J!Browser(t) PROVE JoinInv'
  <2>1. CASE J!TurnsBack(t) \/ J!Presses(t) \/ J!SignsInElsewhere(t) \/ J!SendsTicket(t)
             \/ J!HearsOfTheEnd(t) \/ J!Leaves(t)
    BY <2>1, TurnsBackKeeps, PressesKeeps, SignsInElsewhereKeeps, SendsTicketKeeps,
        HearsKeeps,
       LeavesKeeps
  <2>2. CASE J!WindowFocused(t) \/ J!IntervalFires(t) \/ J!RoomPolls(t)
    <3>1. PICK s \in Sessions : TRUE
      <4>1. pageJoin[t].at = "join" \/ seen[t] # J!Nowhere
        BY <2>2 DEF J!WindowFocused, J!IntervalFires, J!RoomPolls, J!Polled
      <4>2. pageJoin[t].at = "join" => pageJoin[t].code \in Sessions
        BY DEF JoinInv, JoinTypes, JoinPages
      <4>3. seen[t] # J!Nowhere => seen[t].session \in Sessions
        BY Named DEF JoinInv, JoinTypes
      <4> QED BY <4>1, <4>2, <4>3
    <3> QED BY <2>2, <3>1, FetchesKeep, StatesKeep
  <2>3. CASE \E s \in Sessions : J!Enters(t, s) \/ J!AnswersByCode(t, s) \/ J!StoresByCode(t, s)
                               \/ J!FetchFails(t, s) \/ J!AnswersState(t, s) \/ J!StoresState(t, s)
    BY <2>3, EntersKeeps, FetchesKeep, StoresByCodeKeeps, StatesKeep, StoresStateKeeps
  <2> QED BY <1>2, <2>1, <2>2, <2>3 DEF J!Browser
<1>3. ASSUME NEW k \in JoinPosts, J!Posting(k) \/ J!AnswerLost(k) PROVE JoinInv'
  <2>1. J!Joined(k) => J!Drops(k) \/ J!Keeps(k, post[k].tab, post[k].session)
    BY DEF J!Joined
  <2> QED BY <1>3, <2>1, ServesKeeps, AnswerLostKeeps, NotJoinedKeeps, DropsKeeps,
      KeepsKeeps
          DEF J!Posting
<1>4. ASSUME NEW s \in Sessions, J!Opens(s) \/ J!Ends(s) PROVE JoinInv'
  BY <1>4, OpensKeeps, EndsKeeps
<1> QED BY <1>1, <1>2, <1>3, <1>4 DEF J!Next

LEMMA JoinGives ==
    ASSUME JoinInv
    PROVE  J!TypeOK /\ J!JoinedAsMeant /\ J!CodeIsOfSession /\ J!EndedIsTrue /\ J!JoinedOnce
<1> USE DEF JoinInv
<1>1. \A c \in Kept : c.session \in Sessions \cup {none} /\ c.code \in Sessions \cup {none}
  BY DEF Kept, J!Nowhere
<1>2. \A p \in JoinPages : /\ p.at \in {"entry", "join", "callback", "ticket", "room"}
                           /\ p.at \in {"join", "callback", "ticket"} => p.code \in Sessions
  BY DEF JoinPages
<1>3. J!TypeOK
  <2>1. /\ statusJoin \in [Sessions -> J!Statuses] /\ rows \in [Sessions -> Nat]
        /\ storedJoin.session \in Sessions \cup {none} /\ storedJoin.code \in Sessions \cup {none}
    BY <1>1 DEF JoinTypes
  <2>2. ASSUME NEW t \in JoinTabs
        PROVE  /\ pageJoin[t].at \in {"entry", "join", "callback", "ticket", "room"}
               /\ pageJoin[t].at \in {"join", "callback", "ticket"} => pageJoin[t].code \in Sessions
               /\ byCode[t] \in [Sessions -> J!Queries(J!Statuses)]
               /\ stateQ[t] \in [Sessions -> J!Queries(J!Statuses)]
               /\ broken[t] \subseteq Sessions
    <3>1. pageJoin[t] \in JoinPages
      BY DEF JoinTypes
    <3> QED BY <1>2, <3>1 DEF JoinTypes
  <2> QED BY <2>1, <2>2 DEF J!TypeOK
<1>4. J!JoinedAsMeant /\ J!CodeIsOfSession
  BY DEF J!JoinedAsMeant, Meaning, Codes, J!CodeIsOfSession
<1>5. J!EndedIsTrue
  BY DEF J!EndedIsTrue, Endings, Told, Ended
<1>6. J!JoinedOnce
  <2>1. ASSUME NEW s \in Sessions, OnceIn(s) PROVE rows[s] <= 1
    <3>1. rows[s] \in Nat
      BY DEF JoinTypes
    <3> QED BY <2>1, <3>1 DEF OnceIn
  <2> QED BY <2>1 DEF J!JoinedOnce, Once
<1> QED BY <1>3, <1>4, <1>5, <1>6

-----------------------------------------------------------------------------
(* The pages that only show.                                                   *)
ViewBounds == [changes : Nat, faults : Nat, pages : SUBSET DOMAIN L!PageOf,
               kinds : SUBSET DOMAIN L!KindOf]

(* Types: what a query has, or was answered, was so once.                          *)
WasSo(q, d) == d = NoData \/ \A t \in view.reads[q] : d[t] \in Nat /\ d[t] <= now[t]
ViewShape ==
    /\ leftViews \in ViewBounds /\ view \in L!Pages /\ now \in [L!Topics -> Nat]
    /\ change \in [Writers -> L!Kinds \cup {NoData}] /\ owed \subseteq L!Queried
    /\ ready \in BOOLEAN /\ linked \in BOOLEAN /\ inbox \in Seq(view.hears)
    /\ \A q \in L!Queried : /\ cache[q].fetch \in L!Fetches
                            /\ WasSo(q, cache[q].data) /\ WasSo(q, cache[q].reply)
    /\ DOMAIN cache = L!Queried /\ cache = [q \in L!Queried |-> cache[q]]
    /\ ~ ready => \A q \in L!Queried : cache[q].fetch = "idle" /\ cache[q].data = NoData

(* A query that nothing was left behind of is up to date, is being asked, or an      *)
(* event that will have it asked again is on its way or not announced yet.           *)
Coming(q) ==
    \E w \in Writers : /\ change[w] # NoData /\ ~ change[w].early
                       /\ change[w].topic \in view.reads[q] /\ change[w].event \in view.hears
Fresh(q) ==
    \/ cache[q].fetch = "asked"
    \/ cache[q].fetch = "answered" /\ cache[q].reply = L!Current(q)
    \/ cache[q].fetch = "idle" /\ cache[q].data = L!Current(q)
Followed ==
    \A q \in L!Queried \ owed : ~ ready \/ inbox # <<>> \/ Coming(q) \/ Fresh(q)

ViewInv == ViewShape /\ Followed

-----------------------------------------------------------------------------
LEMMA PageReads ==
    ASSUME NEW v \in L!Pages
    PROVE  /\ "none" \notin v.hears /\ v.gated \in BOOLEAN
           /\ \A q \in DOMAIN v.reads : v.reads[q] \subseteq L!Topics
<1> DEFINE Good(w) == /\ "none" \notin w.hears /\ w.gated \in BOOLEAN
                      /\ \A q \in DOMAIN w.reads : w.reads[q] \subseteq L!Topics
<1>1. ASSUME NEW topic \in L!Topics, NEW hears, NEW gated \in BOOLEAN, "none" \notin hears
      PROVE  Good(L!Page(L!One(topic), hears, gated))
  <2>1. \A q \in DOMAIN L!One(topic) : L!One(topic)[q] \subseteq L!Topics
    BY DEF L!One
  <2> QED BY <1>1, <2>1 DEF L!Page
<1>2. ASSUME NEW gated \in BOOLEAN PROVE Good(L!Page(L!Numbers, L!Activity, gated))
  <2>1. \A q \in DOMAIN L!Numbers : L!Numbers[q] \subseteq L!Topics
    BY DEF L!Numbers, L!Topics
  <2>2. "none" \notin L!Activity
    BY DEF L!Activity
  <2> QED BY <1>2, <2>1, <2>2 DEF L!Page
<1>3. Good(L!QuizPresentPage)
  <2> DEFINE r == [questions |-> {"quiz"}, leaderboard |-> {"scores"}]
  <2>1. \A q \in DOMAIN r : r[q] \subseteq L!Topics
    BY DEF L!Topics
  <2>2. "none" \notin {"started", "scores"} /\ FALSE \in BOOLEAN
    OBVIOUS
  <2> HIDE DEF r
  <2>3. Good(L!Page(r, {"started", "scores"}, FALSE))
    BY <2>1, <2>2 DEF L!Page
  <2> QED BY <2>3 DEF r, L!QuizPresentPage
<1>4. "qa" \in L!Topics /\ "survey" \in L!Topics /\ "ideas" \in L!Topics
  BY DEF L!Topics
<1> HIDE DEF Good
<1>5. Good(L!QaScreenView) /\ Good(L!QaPresentPage) /\ Good(L!IdeasScreenView)
  BY <1>1, <1>4 DEF L!QaScreenView, L!QaPresentPage, L!IdeasScreenView
<1>6. Good(L!SurveyScreenView) /\ Good(L!SurveyPresentPage) /\ Good(L!IdeasPresentPage)
  BY <1>1, <1>4 DEF L!SurveyScreenView, L!SurveyPresentPage, L!IdeasPresentPage
<1>7. Good(L!OverviewScreenView) /\ Good(L!OverviewPresentPage) /\ Good(L!RoomOverviewPage)
  BY <1>2 DEF L!OverviewScreenView, L!OverviewPresentPage, L!RoomOverviewPage
<1>8. v \in {L!QaScreenView, L!QaPresentPage, L!SurveyScreenView, L!SurveyPresentPage, L!IdeasScreenView,
             L!IdeasPresentPage, L!QuizPresentPage, L!OverviewScreenView,
             L!OverviewPresentPage,
             L!RoomOverviewPage}
  BY DEF L!Pages, L!PageOf
<1>9. Good(v)
  BY <1>3, <1>5, <1>6, <1>7, <1>8
<1> QED BY <1>9 DEF Good

LEMMA KindIs ==
    ASSUME NEW k \in L!Kinds
    PROVE  k.topic \in L!Topics /\ k.early \in BOOLEAN /\ k # NoData
<1>1. k # NoData
  BY PartsAssumption DEF PartsAssumption, L!ViewAssumption
<1>2. k \in {L!PollChange, L!QaChange, L!QuizStart, L!QuizReveal, L!QuizClose, L!QuizAnswer, L!IdeaChange,
             L!QuietIdea, L!Survey, L!Joining}
  BY DEF L!Kinds, L!KindOf
<1> DEFINE Good(c) == c.topic \in L!Topics /\ c.early \in BOOLEAN
<1>3. ASSUME NEW topic \in L!Topics, NEW event, NEW early \in BOOLEAN
      PROVE  Good(L!Kind(topic, event, early))
  BY DEF L!Kind
<1>4. \A topic \in {"poll", "qa", "quiz", "scores", "ideas", "survey", "people"} : topic \in L!Topics
  BY DEF L!Topics
<1> HIDE DEF Good
<1>5. Good(L!PollChange) /\ Good(L!QaChange) /\ Good(L!QuizStart) /\ Good(L!QuizReveal) /\ Good(L!QuizClose)
  BY <1>3, <1>4 DEF L!PollChange, L!QaChange, L!QuizStart, L!QuizReveal, L!QuizClose
<1>6. Good(L!QuizAnswer) /\ Good(L!IdeaChange) /\ Good(L!QuietIdea) /\ Good(L!Survey) /\ Good(L!Joining)
  BY <1>3, <1>4 DEF L!QuizAnswer, L!IdeaChange, L!QuietIdea, L!Survey, L!Joining
<1>7. Good(k)
  BY <1>2, <1>5, <1>6
<1> QED BY <1>1, <1>7 DEF Good

LEMMA ChosenKind ==
    ASSUME leftViews \in ViewBounds, NEW k \in leftViews.kinds PROVE L!KindOf[k] \in L!Kinds
BY DEF ViewBounds, L!Kinds

LEMMA ViewSpent ==
    ASSUME leftViews \in ViewBounds, NEW kind \in {"changes", "faults"}, L!Use(kind)
    PROVE  leftViews' \in ViewBounds
BY DEF L!Use, ViewBounds

LEMMA ViewInit == L!Init => ViewInv
<1> SUFFICES ASSUME L!Init PROVE ViewInv
  OBVIOUS
<1>1. leftViews \in ViewBounds
  BY PartsAssumption DEF PartsAssumption, L!Init, L!ViewAssumption, ViewBounds
<1>2. view \in L!Pages
  BY <1>1 DEF L!Init, L!Pages, ViewBounds
<1>3. now \in [L!Topics -> Nat] /\ change \in [Writers -> L!Kinds \cup {NoData}]
      /\ owed \subseteq L!Queried /\ linked \in BOOLEAN /\ inbox \in Seq(view.hears)
  BY DEF L!Init
<1>4. ready \in BOOLEAN
  BY <1>2, PageReads DEF L!Init
<1>5. DOMAIN cache = L!Queried /\ cache = [q \in L!Queried |-> cache[q]]
  BY DEF L!Init
<1>6. ASSUME NEW q \in L!Queried
      PROVE  /\ cache[q].fetch \in L!Fetches /\ cache[q].data = NoData
             /\ cache[q].reply = NoData
             /\ cache[q].fetch = IF ready THEN "asked" ELSE "idle"
  BY <1>6, <1>4 DEF L!Init, L!Loading, L!Unused, L!Fetches
<1>7. ViewShape
  BY <1>1, <1>2, <1>3, <1>4, <1>5, <1>6 DEF ViewShape, WasSo
<1>8. Followed
  BY <1>6 DEF Followed, Fresh
<1> QED BY <1>7, <1>8 DEF ViewInv

-----------------------------------------------------------------------------
(* What a change leaves of the cache: nothing that was so is not, and only the       *)
(* queries that read its topic may be behind.                                      *)
LEMMA WriteKeeps ==
    ASSUME ViewShape, NEW k \in L!Kinds, L!Writes(k), UNCHANGED <<view, cache, ready>>
    PROVE  /\ now' \in [L!Topics -> Nat] /\ owed' \subseteq L!Queried
           /\ \A q \in L!Queried : /\ WasSo(q, cache[q].data)' /\ WasSo(q, cache[q].reply)'
                                   /\ q \notin L!Readers(k.topic) => (Fresh(q) => Fresh(q)')
<1>1. k.topic \in L!Topics
  BY KindIs
<1>2. now' = [now EXCEPT ![k.topic] = @ + 1] /\ now \in [L!Topics -> Nat] /\ view \in L!Pages
  BY DEF L!Writes, ViewShape
<1>3. now' \in [L!Topics -> Nat] /\ \A t \in L!Topics : now[t] <= now'[t]
  BY <1>1, <1>2
<1>4. owed' \subseteq L!Queried
  BY DEF L!Writes, L!Owes, L!Readers, ViewShape
<1>5. ASSUME NEW q \in L!Queried
      PROVE  /\ WasSo(q, cache[q].data)' /\ WasSo(q, cache[q].reply)'
             /\ q \notin L!Readers(k.topic) => (Fresh(q) => Fresh(q)')
  <2>1. view.reads[q] \subseteq L!Topics
    BY <1>2, <1>5, PageReads DEF L!Queried
  <2>2. ASSUME NEW d, WasSo(q, d) 
      PROVE  d = NoData \/ \A t \in view.reads[q] : d[t] \in Nat /\ d[t] <= now'[t]
    <3>1. CASE d = NoData
      BY <3>1
    <3>2. ASSUME d # NoData, NEW t \in view.reads[q] PROVE d[t] \in Nat /\ d[t] <= now'[t]
      <4>1. d[t] \in Nat /\ d[t] <= now[t] /\ now[t] <= now'[t] /\ now[t] \in Nat /\ now'[t] \in Nat
        BY <2>1, <2>2, <3>2, <1>2, <1>3 DEF WasSo
      <4> QED BY <4>1
    <3> QED BY <3>1, <3>2
  <2>3. WasSo(q, cache[q].data) /\ WasSo(q, cache[q].reply)
    BY <1>5 DEF ViewShape
  <2>4. WasSo(q, cache[q].data)' /\ WasSo(q, cache[q].reply)'
    BY <2>2, <2>3 DEF WasSo
  <2>5. ASSUME q \notin L!Readers(k.topic), Fresh(q) PROVE Fresh(q)'
    <3>1. L!Current(q)' = L!Current(q)
      BY <1>2, <1>5, <2>1, <2>5 DEF L!Current, L!Readers
    <3> QED BY <2>5, <3>1 DEF Fresh
  <2> QED BY <2>4, <2>5
<1> QED BY <1>3, <1>4, <1>5

LEMMA ComingKept ==
    ASSUME NEW q, Coming(q), NEW w \in Writers, view' = view, NEW c,
           change \in [Writers -> L!Kinds \cup {NoData}],
           change' = [change EXCEPT ![w] = c], change[w] = NoData \/ change[w].early
    PROVE  Coming(q)'
BY DEF Coming

LEMMA CommitKeeps ==
    ASSUME ViewInv, NEW w \in Writers, NEW k \in L!Kinds, L!Commits(w, k) PROVE ViewInv'
<1>1. ViewShape /\ Followed /\ change \in [Writers -> L!Kinds \cup {NoData}] /\ view \in L!Pages
  BY DEF ViewInv, ViewShape
<1>2. L!Writes(k) /\ UNCHANGED <<view, ready, cache, inbox, linked>> /\ ~ k.early
      /\ change' = [change EXCEPT ![w] = IF k.event = "none" THEN NoData ELSE k]
      /\ change[w] = NoData /\ L!Use("changes")
  BY DEF L!Commits
<1>3. /\ now' \in [L!Topics -> Nat] /\ owed' \subseteq L!Queried
      /\ \A q \in L!Queried : /\ WasSo(q, cache[q].data)' /\ WasSo(q, cache[q].reply)'
                              /\ q \notin L!Readers(k.topic) => (Fresh(q) => Fresh(q)')
  BY <1>1, <1>2, WriteKeeps
<1>4. leftViews' \in ViewBounds
  BY <1>1, <1>2, ViewSpent DEF ViewShape
<1>5. change' \in [Writers -> L!Kinds \cup {NoData}]
  BY <1>1, <1>2
<1>6. ViewShape'
  BY <1>1, <1>2, <1>3, <1>4, <1>5 DEF ViewShape, L!Queried
<1>7. ASSUME NEW q \in L!Queried, q \notin owed', ready, inbox = <<>>
      PROVE  Coming(q)' \/ Fresh(q)'
  <2>1. q \notin owed /\ (L!Unannounced(k) => q \notin L!Readers(k.topic))
    BY <1>2, <1>7 DEF L!Writes, L!Owes
  <2>2. CASE q \in L!Readers(k.topic)
    <3>1. k.event \in view.hears /\ k.event # "none"
      BY <1>1, <2>1, <2>2, PageReads DEF L!Unannounced
    <3>2. change'[w] = k /\ k # NoData
      BY <1>1, <1>2, <3>1, KindIs
    <3> QED BY <1>2, <2>2, <3>1, <3>2 DEF Coming, L!Readers
  <2>3. CASE q \notin L!Readers(k.topic)
    <3>1. Coming(q) => Coming(q)'
      BY <1>1, <1>2, ComingKept
    <3> QED BY <1>1, <1>3, <1>7, <2>1, <2>3, <3>1 DEF Followed
  <2> QED BY <2>2, <2>3
<1>8. Followed'
  BY <1>2, <1>7 DEF Followed, L!Queried
<1> QED BY <1>6, <1>8 DEF ViewInv

LEMMA CommitAfterKeeps ==
    ASSUME ViewInv, NEW w \in Writers, L!CommitsAfter(w) PROVE ViewInv'
<1> DEFINE k == change[w]
<1>1. ViewShape /\ Followed /\ change \in [Writers -> L!Kinds \cup {NoData}] /\ view \in L!Pages
  BY DEF ViewInv, ViewShape
<1>2. L!Writes(k) /\ UNCHANGED <<view, ready, cache, inbox, linked, leftViews>> /\ k.early
      /\ change' = [change EXCEPT ![w] = NoData] /\ k \in L!Kinds
  BY <1>1 DEF L!CommitsAfter
<1>3. /\ now' \in [L!Topics -> Nat] /\ owed' \subseteq L!Queried
      /\ \A q \in L!Queried : /\ WasSo(q, cache[q].data)' /\ WasSo(q, cache[q].reply)'
                              /\ q \notin L!Readers(k.topic) => (Fresh(q) => Fresh(q)')
  BY <1>1, <1>2, WriteKeeps
<1>5. change' \in [Writers -> L!Kinds \cup {NoData}]
  BY <1>1, <1>2
<1>6. ViewShape'
  BY <1>1, <1>2, <1>3, <1>5 DEF ViewShape, L!Queried
<1>7. ASSUME NEW q \in L!Queried, q \notin owed', ready, inbox = <<>>
      PROVE  Coming(q)' \/ Fresh(q)'
  <2>1. q \notin owed /\ q \notin L!Readers(k.topic)
    BY <1>2, <1>7 DEF L!Writes, L!Owes, L!Unannounced
  <2>2. Coming(q) => Coming(q)'
    BY <1>1, <1>2, ComingKept
  <2> QED BY <1>1, <1>3, <1>7, <2>1, <2>2 DEF Followed
<1>8. Followed'
  BY <1>2, <1>7 DEF Followed, L!Queried
<1> QED BY <1>6, <1>8 DEF ViewInv

(* An event that is said reaches the page as one of its own.                        *)
LEMMA SaysKeeps ==
    ASSUME ViewShape, NEW k, L!Says(k)
    PROVE  /\ inbox' \in Seq(view.hears) /\ (inbox # <<>> => inbox' # <<>>)
           /\ (L!Heard(k) => inbox' # <<>>)
<1>1. inbox \in Seq(view.hears)
  BY DEF ViewShape
<1>2. CASE L!Heard(k)
  <2>1. inbox' = Append(inbox, k.event) /\ k.event \in view.hears
    BY <1>2 DEF L!Says, L!Heard
  <2>2. ASSUME NEW S, NEW e \in S, NEW s \in Seq(S)
        PROVE  Append(s, e) \in Seq(S) /\ Append(s, e) # <<>>
    <3>1. Append(s, e) \in Seq(S)
      OBVIOUS
    <3>2. Len(Append(s, e)) = Len(s) + 1 /\ Len(s) \in Nat
      OBVIOUS
    <3>3. Append(s, e) # <<>>
      BY <3>2
    <3> QED BY <3>1, <3>3
  <2> QED BY <1>1, <1>2, <2>1, <2>2
<1>3. CASE ~ L!Heard(k)
  BY <1>1, <1>3 DEF L!Says
<1> QED BY <1>2, <1>3

(* A step that touches neither what is read nor what has come of it.                *)
LEMMA SameFresh ==
    ASSUME NEW q, UNCHANGED <<now, view, cache>>
    PROVE  /\ Fresh(q)' = Fresh(q) /\ WasSo(q, cache[q].data)' = WasSo(q, cache[q].data)
           /\ WasSo(q, cache[q].reply)' = WasSo(q, cache[q].reply)
<1>1. Fresh(q)' <=> Fresh(q)
  BY DEF Fresh, L!Current
<1>2. WasSo(q, cache[q].data)' <=> WasSo(q, cache[q].data)
  BY DEF WasSo
<1>3. WasSo(q, cache[q].reply)' <=> WasSo(q, cache[q].reply)
  BY DEF WasSo
<1> QED BY <1>1, <1>2, <1>3 DEF Fresh, WasSo

LEMMA AnnounceKeeps ==
    ASSUME ViewInv, NEW w \in Writers, L!Announces(w) PROVE ViewInv'
<1>1. ViewShape /\ Followed /\ change \in [Writers -> L!Kinds \cup {NoData}]
  BY DEF ViewInv, ViewShape
<1>2. L!Says(change[w]) /\ UNCHANGED <<now, view, ready, cache, linked, leftViews>>
      /\ change' = [change EXCEPT ![w] = NoData]
      /\ owed' = owed \cup (IF linked THEN {} ELSE L!Readers(change[w].topic))
  BY DEF L!Announces, L!Owes
<1>3. /\ inbox' \in Seq(view.hears) /\ (inbox # <<>> => inbox' # <<>>)
      /\ (L!Heard(change[w]) => inbox' # <<>>)
  BY <1>1, <1>2, SaysKeeps
<1>4. ViewShape'
  BY <1>1, <1>2, <1>3, SameFresh DEF ViewShape, L!Queried, L!Readers
<1>5. ASSUME NEW q \in L!Queried, q \notin owed', ready, inbox' = <<>>
      PROVE  Coming(q)' \/ Fresh(q)'
  <2>1. q \notin owed /\ inbox = <<>> /\ ~ L!Heard(change[w])
    BY <1>2, <1>3, <1>5
  <2>2. Fresh(q) => Fresh(q)'
    BY <1>2, SameFresh
  <2>3. ASSUME Coming(q) PROVE Coming(q)'
    <3>1. PICK v \in Writers : /\ change[v] # NoData /\ ~ change[v].early
                               /\ change[v].topic \in view.reads[q]
                               /\ change[v].event \in view.hears
      BY <2>3 DEF Coming
    <3>2. CASE v = w
      <4>1. ~ linked
        BY <2>1, <3>1, <3>2 DEF L!Heard
      <4> QED BY <1>2, <1>5, <3>1, <3>2, <4>1 DEF L!Readers
    <3>3. CASE v # w
      <4>1. change'[v] = change[v]
        BY <1>1, <1>2, <3>3
      <4> QED BY <1>2, <3>1, <4>1 DEF Coming
    <3> QED BY <3>2, <3>3
  <2> QED BY <1>1, <1>5, <2>1, <2>2, <2>3 DEF Followed
<1>6. Followed'
  BY <1>2, <1>5 DEF Followed, L!Queried
<1> QED BY <1>4, <1>6 DEF ViewInv

LEMMA AnnounceFirstKeeps ==
    ASSUME ViewInv, NEW w \in Writers, NEW k \in L!Kinds, L!AnnouncesFirst(w, k) PROVE ViewInv'
<1>1. ViewShape /\ Followed /\ change \in [Writers -> L!Kinds \cup {NoData}]
  BY DEF ViewInv, ViewShape
<1>2. L!Says(k) /\ UNCHANGED <<now, view, ready, cache, linked, owed>> /\ change[w] = NoData
      /\ change' = [change EXCEPT ![w] = k] /\ L!Use("changes")
  BY DEF L!AnnouncesFirst
<1>3. inbox' \in Seq(view.hears) /\ (inbox # <<>> => inbox' # <<>>)
  BY <1>1, <1>2, SaysKeeps
<1>4. leftViews' \in ViewBounds
  BY <1>1, <1>2, ViewSpent DEF ViewShape
<1>5. ViewShape'
  BY <1>1, <1>2, <1>3, <1>4, SameFresh DEF ViewShape, L!Queried
<1>6. ASSUME NEW q \in L!Queried, q \notin owed, ready, inbox' = <<>>
      PROVE  Coming(q)' \/ Fresh(q)'
  <2>1. Fresh(q) => Fresh(q)'
    BY <1>2, SameFresh
  <2>2. Coming(q) => Coming(q)'
    BY <1>1, <1>2, ComingKept
  <2> QED BY <1>1, <1>3, <1>6, <2>1, <2>2 DEF Followed
<1>7. Followed'
  BY <1>2, <1>6 DEF Followed, L!Queried
<1> QED BY <1>5, <1>7 DEF ViewInv

-----------------------------------------------------------------------------
(* The page's own steps.                                                           *)
LEMMA FoundKeeps == ASSUME ViewInv, L!SessionFound PROVE ViewInv'
<1>1. ViewShape /\ ~ ready /\ ready' = TRUE
      /\ UNCHANGED <<now, change, view, inbox, linked, owed, leftViews>>
      /\ cache' = [q \in L!Queried |-> L!Mounted(cache[q])]
  BY DEF ViewInv, L!SessionFound
<1>2. ASSUME NEW q \in L!Queried
      PROVE  /\ cache'[q].fetch = "asked" /\ cache'[q].data = cache[q].data
             /\ cache'[q].reply = cache[q].reply
  <2>1. cache[q].fetch = "idle" /\ cache[q].data = NoData
    BY <1>1, <1>2 DEF ViewShape
  <2>2. cache'[q] = [cache[q] EXCEPT !.fetch = "asked"]
    BY <1>1, <2>1 DEF L!Mounted, L!Fetched, L!Loaded, L!Idle
  <2> QED BY <2>2, <2>1
<1>3. ASSUME NEW q \in L!Queried
      PROVE  WasSo(q, cache[q].data)' /\ WasSo(q, cache[q].reply)'
  <2>1. WasSo(q, cache[q].data) /\ WasSo(q, cache[q].reply)
    BY <1>1, <1>3 DEF ViewShape
  <2> QED BY <1>1, <1>2, <1>3, <2>1 DEF WasSo
<1>4. DOMAIN cache' = L!Queried /\ cache' = [q \in L!Queried |-> cache'[q]]
  BY <1>1
<1>5. ViewShape'
  BY <1>1, <1>2, <1>3, <1>4 DEF ViewShape, L!Queried, L!Fetches
<1>6. Followed'
  BY <1>1, <1>2 DEF Followed, Fresh, L!Queried
<1> QED BY <1>5, <1>6 DEF ViewInv

LEMMA DeliverKeeps == ASSUME ViewInv, L!Deliver PROVE ViewInv'
<1>1. ViewShape /\ Followed /\ UNCHANGED <<now, change, view, ready, linked, leftViews>>
      /\ inbox # <<>> /\ inbox' = Tail(inbox) /\ cache' = L!Invalidates
      /\ owed' = owed \cup L!FirstAnswers
  BY DEF ViewInv, L!Deliver, L!Owes
<1>2. inbox' \in Seq(view.hears)
  BY <1>1 DEF ViewShape
<1>3. CASE ~ ready
  <2>1. cache' = cache
    BY <1>1, <1>3 DEF L!Invalidates
  <2>2. ViewShape'
    BY <1>1, <1>2, <2>1, SameFresh DEF ViewShape, L!Queried, L!FirstAnswers
  <2> QED BY <1>1, <1>3, <2>2 DEF ViewInv, Followed
<1>4. CASE ready
  <2>1. cache' = [q \in L!Queried |-> L!Refetched(cache[q])]
    BY <1>1, <1>4 DEF L!Invalidates
  <2>2. ASSUME NEW q \in L!Queried
        PROVE  /\ cache'[q].fetch \in L!Fetches /\ cache'[q].data = cache[q].data
               /\ cache'[q].reply \in {cache[q].reply, NoData}
               /\ cache'[q].fetch = "asked" \/ q \in L!FirstAnswers
    <3>1. cache'[q] = L!Refetched(cache[q]) /\ cache[q].fetch \in L!Fetches
      BY <1>1, <2>1, <2>2 DEF ViewShape
    <3>2. CASE ~ L!Idle(cache[q]) /\ ~ L!Loaded(cache[q])
      BY <3>1, <3>2, <2>2 DEF L!Refetched, L!FirstAnswers, L!Fetches, L!Idle
    <3>3. CASE L!Idle(cache[q]) \/ L!Loaded(cache[q])
      <4>1. cache'[q] = [cache[q] EXCEPT !.fetch = "asked", !.reply = NoData]
        BY <3>1, <3>3 DEF L!Refetched
      <4> QED BY <4>1 DEF L!Fetches
    <3> QED BY <3>2, <3>3
  <2>3. ViewShape'
    <3>1. ASSUME NEW q \in L!Queried
          PROVE  WasSo(q, cache[q].data)' /\ WasSo(q, cache[q].reply)'
      <4>1. WasSo(q, cache[q].data) /\ WasSo(q, cache[q].reply)
        BY <1>1, <3>1 DEF ViewShape
      <4> QED BY <1>1, <2>2, <3>1, <4>1 DEF WasSo
    <3> QED BY <1>1, <1>2, <1>4, <2>1, <2>2, <3>1 DEF ViewShape, L!Queried, L!FirstAnswers
  <2>4. Followed'
    BY <1>1, <2>2 DEF Followed, Fresh, L!Queried
  <2> QED BY <2>3, <2>4 DEF ViewInv
<1> QED BY <1>3, <1>4

LEMMA LoseKeeps == ASSUME ViewInv, L!LoseSocket PROVE ViewInv'
<1>1. ViewShape /\ Followed /\ UNCHANGED <<now, change, view, ready, cache>>
      /\ linked' = FALSE /\ inbox' = <<>> /\ L!Use("faults")
      /\ owed' = owed \cup (IF inbox = <<>> THEN {} ELSE L!Queried)
  BY DEF ViewInv, L!LoseSocket, L!Owes
<1>2. leftViews' \in ViewBounds
  BY <1>1, ViewSpent DEF ViewShape
<1>3. ViewShape'
  <2>0. owed' \subseteq L!Queried
    BY <1>1 DEF ViewShape
  <2>1. linked' \in BOOLEAN
    BY <1>1
  <2>2. <<>> \in Seq(view.hears)
    OBVIOUS
  <2> QED BY <1>1, <1>2, <2>0, <2>1, <2>2, SameFresh DEF ViewShape, L!Queried
<1>4. ASSUME NEW q \in L!Queried, q \notin owed', ready PROVE Coming(q)' \/ Fresh(q)'
  <2>1. q \notin owed /\ inbox = <<>>
    BY <1>1, <1>4
  <2>2. Coming(q) => Coming(q)'
    BY <1>1 DEF Coming
  <2> QED BY <1>1, <1>4, <2>1, <2>2, SameFresh DEF Followed
<1>5. Followed'
  BY <1>1, <1>4 DEF Followed, L!Queried
<1> QED BY <1>3, <1>5 DEF ViewInv

LEMMA ReconnectKeeps == ASSUME ViewInv, L!Reconnect PROVE ViewInv'
<1>1. ViewShape /\ Followed /\ linked' = TRUE
      /\ UNCHANGED <<now, change, view, ready, cache, inbox, owed, leftViews>>
  BY DEF ViewInv, L!Reconnect
<1>2. ViewShape'
  BY <1>1, SameFresh DEF ViewShape, L!Queried
<1>3. \A q : Coming(q) => Coming(q)'
  BY <1>1 DEF Coming
<1>4. Followed'
  BY <1>1, <1>3, SameFresh DEF Followed, L!Queried
<1> QED BY <1>2, <1>4 DEF ViewInv

(* A step of one query leaves the others, and those who wait for an event.           *)
LEMMA QueryKeeps ==
    ASSUME ViewInv, NEW q \in L!Queried, NEW c, UNCHANGED <<now, change, view, ready, inbox, linked>>,
           ready, leftViews' \in ViewBounds, cache' = [cache EXCEPT ![q] = c],
           c.fetch \in L!Fetches, WasSo(q, c.data), WasSo(q, c.reply),
           owed' \subseteq L!Queried, owed \ {q} \subseteq owed',
           q \in owed' \/ Fresh(q)' \/ (q \notin owed /\ (Fresh(q) => Fresh(q)'))
    PROVE  ViewInv'
<1>1. ViewShape /\ Followed
  BY DEF ViewInv
<1>2. /\ cache'[q] = c /\ DOMAIN cache' = L!Queried /\ cache' = [p \in L!Queried |-> cache'[p]]
      /\ \A p \in L!Queried : p # q => cache'[p] = cache[p]
  BY <1>1 DEF ViewShape
<1>3. ASSUME NEW p \in L!Queried
      PROVE  cache'[p].fetch \in L!Fetches /\ WasSo(p, cache[p].data)' /\ WasSo(p, cache[p].reply)'
  <2>1. CASE p = q
    BY <1>2, <2>1 DEF WasSo
  <2>2. CASE p # q
    BY <1>1, <1>2, <1>3, <2>2 DEF ViewShape, WasSo
  <2> QED BY <2>1, <2>2
<1>4. ViewShape'
  BY <1>1, <1>2, <1>3 DEF ViewShape, L!Queried
<1>5. ASSUME NEW p \in L!Queried, p \notin owed', inbox = <<>> PROVE Coming(p)' \/ Fresh(p)'
  <2>1. Coming(p) => Coming(p)'
    BY DEF Coming
  <2>2. CASE p = q
    BY <1>1, <1>5, <2>1, <2>2 DEF Followed
  <2>3. CASE p # q
    <3>1. Fresh(p) => Fresh(p)'
      BY <1>2, <2>3 DEF Fresh, L!Current
    <3> QED BY <1>1, <1>5, <2>1, <2>3, <3>1 DEF Followed
  <2> QED BY <2>2, <2>3
<1>6. Followed'
  BY <1>5 DEF Followed, L!Queried
<1> QED BY <1>4, <1>6 DEF ViewInv

LEMMA QueryIs ==
    ASSUME ViewInv, NEW q \in L!Queried
    PROVE  /\ cache[q].fetch \in L!Fetches /\ WasSo(q, cache[q].data) /\ WasSo(q, cache[q].reply)
           /\ WasSo(q, NoData) /\ WasSo(q, L!Current(q))
           /\ ~ ready => cache[q].fetch = "idle" /\ cache[q].data = NoData
<1>1. ViewShape /\ view \in L!Pages /\ now \in [L!Topics -> Nat]
  BY DEF ViewInv, ViewShape
<1>2. \A t \in view.reads[q] : t \in L!Topics
  BY <1>1, PageReads DEF L!Queried
<1>3. \A t \in view.reads[q] : L!Current(q)[t] \in Nat /\ L!Current(q)[t] <= now[t]
  BY <1>1, <1>2 DEF L!Current
<1> QED BY <1>1, <1>3 DEF ViewShape, WasSo

LEMMA IntervalKeeps == ASSUME ViewInv, NEW q \in L!Queried, L!IntervalFires(q) PROVE ViewInv'
<1> DEFINE c == L!Fetched(cache[q])
<1>1. ready /\ UNCHANGED <<now, change, view, ready, inbox, linked, owed, leftViews>>
      /\ L!Idle(cache[q]) /\ cache' = [cache EXCEPT ![q] = c]
  BY DEF L!IntervalFires, L!Polled
<1>2. c.fetch = "asked" /\ c.data = cache[q].data /\ c.reply = cache[q].reply
  BY <1>1 DEF L!Fetched, L!Idle
<1>3. ViewShape /\ DOMAIN cache = L!Queried
  BY DEF ViewInv, ViewShape
<1>4. Fresh(q)'
  BY <1>1, <1>2, <1>3 DEF Fresh
<1>5. c.fetch \in L!Fetches /\ WasSo(q, c.data) /\ WasSo(q, c.reply)
  BY <1>2, QueryIs DEF L!Fetches
<1> HIDE DEF c
<1> QED BY <1>1, <1>3, <1>4, <1>5, QueryKeeps DEF ViewShape

LEMMA ServeKeeps == ASSUME ViewInv, NEW q \in L!Queried, L!Serves(q) PROVE ViewInv'
<1> DEFINE c == L!Answered(cache[q], L!Current(q))
<1>1. cache[q].fetch = "asked" /\ cache' = [cache EXCEPT ![q] = c] /\ owed' = owed \ {q}
      /\ UNCHANGED <<now, change, view, ready, inbox, linked, leftViews>>
  BY DEF L!Serves
<1>2. ready
  BY <1>1, QueryIs DEF L!Fetches
<1>3. c.fetch = "answered" /\ c.data = cache[q].data /\ c.reply = L!Current(q)
  BY <1>1 DEF L!Answered
<1>4. ViewShape /\ DOMAIN cache = L!Queried
  BY DEF ViewInv, ViewShape
<1>5. L!Current(q)' = L!Current(q)
  BY <1>1 DEF L!Current
<1>6. Fresh(q)'
  BY <1>1, <1>3, <1>4, <1>5 DEF Fresh
<1>7. c.fetch \in L!Fetches /\ WasSo(q, c.data) /\ WasSo(q, c.reply)
  BY <1>3, QueryIs DEF L!Fetches
<1> HIDE DEF c
<1> QED BY <1>1, <1>2, <1>4, <1>6, <1>7, QueryKeeps DEF ViewShape

LEMMA StoreKeeps == ASSUME ViewInv, NEW q \in L!Queried, L!Stores(q) PROVE ViewInv'
<1> DEFINE c == L!Stored(cache[q])
<1>1. cache[q].fetch = "answered" /\ cache' = [cache EXCEPT ![q] = c]
      /\ UNCHANGED <<now, change, view, ready, inbox, linked, owed, leftViews>>
  BY DEF L!Stores
<1>2. ready
  BY <1>1, QueryIs
<1>3. c.fetch = "idle" /\ c.data = cache[q].reply /\ c.reply = NoData
  BY DEF L!Stored
<1>4. ViewShape /\ DOMAIN cache = L!Queried
  BY DEF ViewInv, ViewShape
<1>5. L!Current(q)' = L!Current(q)
  BY <1>1 DEF L!Current
<1>6. Fresh(q) => Fresh(q)'
  BY <1>1, <1>3, <1>4, <1>5 DEF Fresh
<1>7. c.fetch \in L!Fetches /\ WasSo(q, c.data) /\ WasSo(q, c.reply)
  BY <1>3, QueryIs DEF L!Fetches
<1> HIDE DEF c
<1> QED BY <1>1, <1>2, <1>4, <1>6, <1>7, QueryKeeps DEF ViewShape

LEMMA FailKeeps == ASSUME ViewInv, NEW q \in L!Queried, L!Fails(q) PROVE ViewInv'
<1> DEFINE c == L!Cancelled(cache[q])
<1>1. ~ L!Idle(cache[q]) /\ cache' = [cache EXCEPT ![q] = c] /\ owed' = owed \cup {q}
      /\ L!Use("faults") /\ UNCHANGED <<now, change, view, ready, inbox, linked>>
  BY DEF L!Fails, L!Owes
<1>2. ready
  BY <1>1, QueryIs DEF L!Idle
<1>3. c.fetch = "idle" /\ c.data = cache[q].data /\ c.reply = NoData
  <2>1. c = [cache[q] EXCEPT !.fetch = "idle", !.reply = NoData]
    BY DEF L!Cancelled
  <2> QED BY <2>1, QueryIs
<1>4. ViewShape /\ leftViews \in ViewBounds
  BY DEF ViewInv, ViewShape
<1>5. leftViews' \in ViewBounds
  BY <1>1, <1>4, ViewSpent
<1>7. c.fetch \in L!Fetches /\ WasSo(q, c.data) /\ WasSo(q, c.reply)
  BY <1>3, QueryIs DEF L!Fetches
<1> HIDE DEF c
<1> QED BY <1>1, <1>2, <1>4, <1>5, <1>7, QueryKeeps DEF ViewShape

LEMMA ViewNext == ViewInv /\ [L!Next]_L!vars => ViewInv'
<1> SUFFICES ASSUME ViewInv, [L!Next]_L!vars PROVE ViewInv'
  OBVIOUS
<1>1. ViewShape /\ leftViews \in ViewBounds
  BY DEF ViewInv, ViewShape
<1>2. ASSUME NEW w \in Writers, NEW k \in leftViews.kinds,
             L!Commits(w, L!KindOf[k]) \/ L!AnnouncesFirst(w, L!KindOf[k])
      PROVE  ViewInv'
  BY <1>1, <1>2, ChosenKind, CommitKeeps, AnnounceFirstKeeps
<1>3. ASSUME NEW w \in Writers, L!Announces(w) \/ L!CommitsAfter(w) PROVE ViewInv'
  BY <1>3, AnnounceKeeps, CommitAfterKeeps
<1>4. CASE L!SessionFound \/ L!Deliver \/ L!LoseSocket \/ L!Reconnect
  BY <1>4, FoundKeeps, DeliverKeeps, LoseKeeps, ReconnectKeeps
<1>5. ASSUME NEW q \in L!Queried, L!IntervalFires(q) \/ L!Serves(q) \/ L!Stores(q) \/ L!Fails(q)
      PROVE  ViewInv'
  BY <1>5, IntervalKeeps, ServeKeeps, StoreKeeps, FailKeeps
<1>6. CASE UNCHANGED L!vars
  <2>1. \A q : Coming(q) => Coming(q)'
    BY <1>6 DEF Coming, L!vars
  <2>2. Followed'
    BY <1>6, <2>1, SameFresh DEF ViewInv, Followed, L!Queried, L!vars
  <2>3. ViewShape'
    BY <1>1, <1>6, SameFresh DEF ViewShape, L!Queried, L!vars
  <2> QED BY <2>2, <2>3 DEF ViewInv
<1> QED BY <1>2, <1>3, <1>4, <1>5, <1>6 DEF L!Next

LEMMA ViewGives == ViewInv => L!TypeOK /\ L!ViewAtRest
<1> SUFFICES ASSUME ViewInv PROVE L!TypeOK /\ L!ViewAtRest
  OBVIOUS
<1>1. L!TypeOK
  BY DEF ViewInv, ViewShape, L!TypeOK, WasSo
<1>2. ASSUME L!AtRest PROVE \A q \in L!Queried : ~ Coming(q)
  BY <1>2 DEF L!AtRest, Coming
<1>3. L!ViewAtRest
  BY <1>2 DEF ViewInv, Followed, L!ViewAtRest, L!AtRest, Fresh, L!Idle
<1> QED BY <1>1, <1>3

-----------------------------------------------------------------------------
(* A behaviour follows one part, and a step of it is a step of the part.           *)
LEMMA PartIsKept == [Next]_vars => part' = part
BY DEF Next, vars

LEMMA ScreenStep == part = "screen" /\ [Next]_vars => [C!Next]_C!vars
BY DEF Next, vars, varsC, C!vars, C!server, C!bench, C!screen

LEMMA ViewStep == part = "views" /\ [Next]_vars => [L!Next]_L!vars
BY DEF Next, vars, varsL, L!vars

LEMMA AiStep == part = "ai" /\ [Next]_vars => [A!Next]_A!vars
BY DEF Next, vars, varsA, A!vars

LEMMA ReportStep == part = "report" /\ [Next]_vars => [D!Next]_D!vars
BY DEF Next, vars, varsD, D!vars, D!server, D!dialog

LEMMA GeneratorStep == part = "generator" /\ [Next]_vars => [G!Next]_G!vars
BY DEF Next, vars, varsG, G!vars, G!dialog, G!past

LEMMA SignInStep == part = "signin" /\ [Next]_vars => [T!Next]_T!vars
BY DEF Next, vars, varsT, T!vars

LEMMA JoinStep == part = "joining" /\ [Next]_vars => [J!Next]_J!vars
BY DEF Next, vars, varsJ, J!vars

(* What holds of the part that is followed.                                        *)
PartInv ==
    /\ part \in {"screen", "views", "ai", "report", "generator", "signin", "joining"}
    /\ part = "screen" => WInv /\ ScreenInv
    /\ part = "views" => ViewInv
    /\ part = "ai" => AiInv
    /\ part = "report" => ReportInv
    /\ part = "generator" => GenInv
    /\ part = "signin" => SignInv
    /\ part = "joining" => JoinInv

LEMMA PartsInit == Init => PartInv
BY WordInit, ScreenInit, ViewInit, AiInit, ReportInit, GenInit, SignInit, JoinInit DEF Init, PartInv

LEMMA PartsNext == PartInv /\ [Next]_vars => PartInv'
<1> SUFFICES ASSUME PartInv, [Next]_vars PROVE PartInv'
  OBVIOUS
<1>1. part' = part /\ part \in {"screen", "views", "ai", "report", "generator", "signin", "joining"}
  BY PartIsKept DEF PartInv
<1>2. part = "screen" => (WInv /\ ScreenInv)'
  BY ScreenStep, WordNext, ScreenNext DEF PartInv, WInv
<1>3. part = "views" => (ViewInv)'
  BY ViewStep, ViewNext DEF PartInv
<1>4. part = "ai" => (AiInv)'
  BY AiStep, AiNext DEF PartInv
<1>5. part = "report" => (ReportInv)'
  BY ReportStep, ReportNext DEF PartInv
<1>6. part = "generator" => (GenInv)'
  BY GeneratorStep, GenNext DEF PartInv
<1>7. part = "signin" => (SignInv)'
  BY SignInStep, SignInNext DEF PartInv
<1>8. part = "joining" => (JoinInv)'
  BY JoinStep, JoinNext DEF PartInv
<1> QED BY <1>1, <1>2, <1>3, <1>4, <1>5, <1>6, <1>7, <1>8 DEF PartInv

LEMMA PartsHold == Spec => []PartInv
BY PartsInit, PartsNext, PTL DEF Spec

(* The last word wins: once every update of the screen is answered the server shows *)
(* the last view the host asked for and no queue holds another (useScreenControl); a *)
(* sign-in stands until a sign-out, and a sign-out stands, whatever pages renew tokens *)
(* meanwhile (lib/api.ts); a browser is in the session its user joined last, or in    *)
(* none after leaving.  For any polls, pages, requests under way and bounds, but for   *)
(* the steps that the histories name.                                              *)
THEOREM TheLastWordWins == Spec => []LastWordWins
<1>1. PartInv => LastWordWins
  BY IdleIsEmpty, SignInGives, JoinGives DEF PartInv, WInv, LastWordWins, C!LastWordWins, NoQueue
<1> QED BY <1>1, PartsHold, PTL

(* What a dialog shows is so: the model in the form, in storage and in the headers of *)
(* an AI request is its provider's, what looks busy waits for a request, a host whose *)
(* tokens can be renewed is not refused, a session said to have ended has, and the    *)
(* code kept is that of the session kept.                                          *)
THEOREM NoDialogLies == Spec => []DialogsAreTrue
<1>1. PartInv => DialogsAreTrue
  BY AiGives, ReportGives, SignInGives, JoinGives DEF PartInv, DialogsAreTrue
<1> QED BY <1>1, PartsHold, PTL

(* A generated poll is created once however often requests fail or are pressed for    *)
(* again before they are answered, and a browser is one participant of a session.    *)
THEOREM OneOfEach == Spec => []CreatedOnce
<1>1. PartInv => CreatedOnce
  BY GenGives, JoinGives DEF PartInv, CreatedOnce
<1> QED BY <1>1, PartsHold, PTL

(* The workbench's address names a poll that its list has, whatever requests, rooms   *)
(* and dialogs that are gone cross: unless the wait for the list ended without it - a *)
(* fetch that failed, was paused or replaced, a list nobody looked at -, and then     *)
(* from the next current list on (handleBatchCreate).                              *)
THEOREM NoDeadAddress == Spec => []SelectedIsListed
<1>1. PartInv => SelectedIsListed
  BY GenGives DEF PartInv, SelectedIsListed
<1> QED BY <1>1, PartsHold, PTL


(* At rest the screen shows the view that is stored, though announcements come twice  *)
(* and fetches answer between them, unless one was missed or met a fetch; a page that  *)
(* only shows has what the server has of every query no change left behind; and the    *)
(* report one prints is the one that is shown.                                       *)
THEOREM ScreensShowWhatIs == Spec => []ShownAtRest
<1>1. PartInv => ShownAtRest
  BY ScreenGives, ViewGives, ReportGives DEF PartInv, WInv, ShownAtRest
<1> QED BY <1>1, PartsHold, PTL

(* Types, for every part: whatever pages, requests, sequences and bounds there are,   *)
(* what is stored, cached and under way is what the code puts there.                  *)
THEOREM PartsTyped == Spec => []TypeOK
<1>1. PartInv => TypeOK
  BY ScreenGives, ViewGives, AiGives, ReportGives, GenGives, SignInGives, JoinGives
     DEF PartInv, WInv, TypeOK
<1> QED BY <1>1, PartsHold, PTL
==============================================================================
