------------------------- MODULE RoomControlProofs -------------------------
(* What holds of the room control for any room, any number of requests, with *)
(* or without Redis: the types, the single active interaction, the ownership *)
(* of the room lock, the conditional updates of the poll actions, the atomic *)
(* room that the poll endpoint implements, and what the viewers are told.    *)
EXTENDS RoomControl, SequenceTheorems, TLAPS

(* A busy slot has an operation and a target; an idle one holds no row.      *)
Working ==
    \A p \in Req :
        /\ pc[p] # "idle" => /\ act[p] \in PollActs \cup PatchActs
                             /\ tgt[p] \in Interactions
        /\ pc[p] = "stop_other" => other[p] \in Interactions \ {tgt[p]}
        /\ pc[p] = "idle" => wrote[p] = {}

Typed == TypeOK /\ Working

LEMMA GoalType ==
    ASSUME NEW c \in PollActs \cup PatchActs, c \notin {"reveal", "hide"}
    PROVE  Goal[c] \in Statuses
  BY DEF Goal, PollActs, PatchActs, Statuses

LEMMA NewRowType ==
    ASSUME TypeOK, NEW p \in Req, act[p] \in PollActs \cup PatchActs,
           tgt[p] \in Interactions
    PROVE  NewRow(p) \in Row
  <1>1. rows[tgt[p]] \in Row  BY DEF TypeOK
  <1>2. act[p] \notin {"reveal", "hide"} => Goal[act[p]] \in Statuses
    BY GoalType
  <1>3. /\ "idle" \in Statuses  /\ "active" \in Statuses
    BY DEF Statuses
  <1>4. seen[p].visible \in BOOLEAN  BY DEF TypeOK, Row
  <1> QED  BY <1>1, <1>2, <1>3, <1>4 DEF NewRow, Row

LEMMA EventsType ==
    ASSUME TypeOK, Working, NEW p \in Req, pc[p] # "idle"
    PROVE  Events(p) \in Seq(Interactions \X Statuses)
  <1>1. tgt[p] \in Interactions /\ act[p] \in PollActs \cup PatchActs
    BY DEF Working
  <1>2. <<tgt[p], "active">> \in Interactions \X Statuses
    BY <1>1 DEF Statuses
  <1>3. other[p] # None => <<other[p], "stopped">> \in Interactions \X Statuses
    BY DEF Statuses, TypeOK
  <1>4. act[p] \in {"stop", "lock", "unlock", "reset", "patch_active"}
        => <<tgt[p], Goal[act[p]]>> \in Interactions \X Statuses
    BY <1>1, GoalType
  <1> QED  BY <1>2, <1>3, <1>4 DEF Events

LEMMA TypedInit == Init => Typed
  <1> SUFFICES ASSUME Init PROVE Typed
    OBVIOUS
  <1>1. Blank \in Row /\ NoDraft \in [Interactions -> Row]
    BY DEF Blank, NoDraft, Row, Statuses
  <1>2. rows \in [Interactions -> Row] /\ announced \in [Interactions -> Statuses]
    BY DEF Init, Row
  <1>3. /\ lock \in Req \cup {None}
        /\ pc \in [Req -> Labels]
        /\ act \in [Req -> PollActs \cup PatchActs \cup {"none"}]
        /\ tgt \in [Req -> Interactions \cup {None}]
        /\ other \in [Req -> Interactions \cup {None}]
        /\ failure \in [Req -> Failures]
    BY DEF Init, Labels, Failures
  <1>4. /\ seen \in [Req -> Row]
        /\ wrote \in [Req -> SUBSET Interactions]
        /\ draft \in [Req -> [Interactions -> Row]]
        /\ token \in [Req -> BOOLEAN]
    BY <1>1 DEF Init
  <1>5. outbox \in [Req -> Seq(Interactions \X Statuses)]
    <2>1. <<>> \in Seq(Interactions \X Statuses)  OBVIOUS
    <2> QED  BY <2>1 DEF Init
  <1>6. issued \in 0..MaxRequests /\ faults \in 0..MaxFaults
    BY RoomAssumption DEF Init
  <1>7. Working  BY DEF Init, Working
  <1> QED  BY <1>2, <1>3, <1>4, <1>5, <1>6, <1>7 DEF Typed, TypeOK

LEMMA CloseTyped ==
    ASSUME Typed, NEW p \in Req, Close(p), UNCHANGED <<rows, lock, announced>>,
           issued' \in 0..MaxRequests, faults' \in 0..MaxFaults
    PROVE  Typed'
  <1>1. Blank \in Row /\ NoDraft \in [Interactions -> Row]
    BY DEF Blank, NoDraft, Row, Statuses
  <1>2. /\ rows' \in [Interactions -> Row]
        /\ lock' \in Req \cup {None}
        /\ announced' \in [Interactions -> Statuses]
    BY DEF Typed, TypeOK
  <1>3. /\ pc' \in [Req -> Labels]
        /\ act' \in [Req -> PollActs \cup PatchActs \cup {"none"}]
        /\ tgt' \in [Req -> Interactions \cup {None}]
        /\ other' \in [Req -> Interactions \cup {None}]
        /\ failure' \in [Req -> Failures]
    BY DEF Typed, TypeOK, Close, Goto, Labels, Failures
  <1>4. /\ seen' \in [Req -> Row]
        /\ wrote' \in [Req -> SUBSET Interactions]
        /\ draft' \in [Req -> [Interactions -> Row]]
        /\ token' \in [Req -> BOOLEAN]
    BY <1>1 DEF Typed, TypeOK, Close, EndTxn
  <1>5. outbox' \in [Req -> Seq(Interactions \X Statuses)]
    <2>1. <<>> \in Seq(Interactions \X Statuses)  OBVIOUS
    <2> QED  BY <2>1 DEF Typed, TypeOK, Close
  <1>6. Working'
    BY DEF Typed, TypeOK, Working, Close, EndTxn, Goto
  <1> QED  BY <1>2, <1>3, <1>4, <1>5, <1>6 DEF Typed, TypeOK

LEMMA RaiseTyped ==
    ASSUME Typed, NEW p \in Req, NEW error \in Failures, pc[p] # "idle",
           Raise(p, error), UNCHANGED txn \/ EndTxn(p)
    PROVE  Typed'
  <1>1. NoDraft \in [Interactions -> Row]
    BY DEF Blank, NoDraft, Row, Statuses
  <1>2. /\ pc' \in [Req -> Labels]
        /\ failure' \in [Req -> Failures]
    BY DEF Typed, TypeOK, Raise, Goto, Labels
  <1>3. /\ wrote' \in [Req -> SUBSET Interactions]
        /\ draft' \in [Req -> [Interactions -> Row]]
    BY <1>1 DEF Typed, TypeOK, EndTxn, txn
  <1>4. Working'
    BY DEF Typed, TypeOK, Working, Raise, Goto, request, txn, EndTxn
  <1> QED  BY <1>2, <1>3, <1>4 DEF Typed, TypeOK, Raise, request, budget

LEMMA WriteTyped ==
    ASSUME Typed, NEW p \in Req, NEW i \in Interactions, NEW row \in Row,
           Write(p, i, row)
    PROVE  /\ wrote' \in [Req -> SUBSET Interactions]
           /\ draft' \in [Req -> [Interactions -> Row]]
  BY DEF Typed, TypeOK, Write

LEMMA TypedNext == Typed /\ [Next]_vars => Typed'
  <1> SUFFICES ASSUME Typed, [Next]_vars PROVE Typed'
    OBVIOUS
  <1> USE RoomAssumption
  <1>1. ASSUME NEW p \in Req, NEW a \in Acts, NEW i \in Interactions,
               Load(p, a, i)
        PROVE  Typed'
    <2>1. a \in PollActs \cup PatchActs  OBVIOUS
    <2>2. rows[i] \in Row  BY DEF Typed, TypeOK
    <2>3. TypeOK'
      BY <1>1, <2>1, <2>2 DEF Typed, TypeOK, Load, Accept, Goto, Labels, txn
    <2>4. Working'
      BY <1>1, <2>1 DEF Typed, TypeOK, Working, Load, Accept, Goto, txn
    <2> QED  BY <2>3, <2>4 DEF Typed
  <1>2. ASSUME NEW p \in Req, NEW a \in Acts, NEW i \in Interactions,
               Decline(p, a, i)
        PROVE  Typed'
    BY <1>2 DEF Typed, TypeOK, Working, Decline, Accept, request, txn
  <1>3. ASSUME NEW p \in Req, AcquireLock(p) PROVE Typed'
    BY <1>3 DEF Typed, TypeOK, Working, AcquireLock, Goto, Labels, request,
                txn, budget
  <1>4. ASSUME NEW p \in Req, LockBusy(p) PROVE Typed'
    BY <1>4, CloseTyped DEF LockBusy, budget, Typed, TypeOK
  <1>5. ASSUME NEW p \in Req, FindActive(p) PROVE Typed'
    <2>1. /\ UNCHANGED <<rows, lock, request, txn, token, failure, outbox, budget>>
          /\ pc[p] = "find"
      BY <1>5 DEF FindActive
    <2>2. \/ Goto(p, "update") /\ UNCHANGED <<other, announced>>
          \/ \E j \in Interactions \ {tgt[p]} :
               /\ other' = [other EXCEPT ![p] = j]
               /\ Goto(p, "stop_other")
               /\ \/ announced' = [announced EXCEPT ![j] = "stopped"]
                  \/ UNCHANGED announced
      BY <1>5 DEF FindActive
    <2>3. CASE Goto(p, "update") /\ UNCHANGED <<other, announced>>
      BY <2>1, <2>3 DEF Typed, TypeOK, Working, Goto, Labels, request, txn, budget
    <2>4. ASSUME NEW j \in Interactions \ {tgt[p]},
                 other' = [other EXCEPT ![p] = j],
                 Goto(p, "stop_other"),
                 \/ announced' = [announced EXCEPT ![j] = "stopped"]
                 \/ UNCHANGED announced
          PROVE  Typed'
      <3>1. announced' \in [Interactions -> Statuses]
        BY <2>4 DEF Typed, TypeOK, Statuses
      <3>2. TypeOK'
        BY <2>1, <2>4, <3>1 DEF Typed, TypeOK, Goto, Labels, request, txn, budget
      <3>3. Working'
        BY <2>1, <2>4 DEF Typed, TypeOK, Working, Goto, request, txn
      <3> QED  BY <3>2, <3>3 DEF Typed
    <2> QED  BY <2>2, <2>3, <2>4
  <1>6. ASSUME NEW p \in Req,
               RefuseOpen(p) \/ StopOtherLost(p) \/ UpdateLost(p)
        PROVE  Typed'
    BY <1>6, RaiseTyped DEF RefuseOpen, StopOtherLost, UpdateLost, Failures
  <1>7. ASSUME NEW p \in Req, IndexViolation(p) \/ DeadlockVictim(p)
        PROVE  Typed'
    BY <1>7, RaiseTyped DEF IndexViolation, DeadlockVictim, WaitsFor, Failures
  <1>8. ASSUME NEW p \in Req, StopOther(p) PROVE Typed'
    <2>1. other[p] \in Interactions
      BY <1>8 DEF StopOther, Typed, Working
    <2>2. [rows[other[p]] EXCEPT !.status = "stopped"] \in Row
      <3>1. rows[other[p]] \in Row /\ "stopped" \in Statuses
        BY <2>1 DEF Typed, TypeOK, Statuses
      <3> QED  BY <3>1 DEF Row
    <2>3. TypeOK'
      BY <1>8, <2>1, <2>2, WriteTyped
      DEF StopOther, Typed, TypeOK, Goto, Labels, request, budget
    <2>4. Working'
      BY <1>8 DEF StopOther, Typed, TypeOK, Working, Write, Goto, request
    <2> QED  BY <2>3, <2>4 DEF Typed
  <1>9. ASSUME NEW p \in Req, Update(p) PROVE Typed'
    <2>1. tgt[p] \in Interactions /\ act[p] \in PollActs \cup PatchActs
      BY <1>9 DEF Update, Typed, Working
    <2>2. NewRow(p) \in Row  BY <2>1, NewRowType DEF Typed
    <2>3. TypeOK'
      BY <1>9, <2>1, <2>2, WriteTyped
      DEF Update, AfterUpdate, Typed, TypeOK, Goto, Labels, request, budget
    <2>4. Working'
      BY <1>9 DEF Update, AfterUpdate, Typed, TypeOK, Working, Write, Goto,
                  request
    <2> QED  BY <2>3, <2>4 DEF Typed
  <1>10. ASSUME NEW p \in Req, EnterIndex(p) PROVE Typed'
    BY <1>10 DEF EnterIndex, AfterUpdate, Typed, TypeOK, Working, Goto, Labels,
                 request, txn, budget
  <1>11. ASSUME NEW p \in Req, Commit(p) PROVE Typed'
    <2>1. rows' \in [Interactions -> Row]
      BY <1>11 DEF Commit, View, Typed, TypeOK
    <2>2. NoDraft \in [Interactions -> Row]
      BY DEF Blank, NoDraft, Row, Statuses
    <2>3. Events(p) \in Seq(Interactions \X Statuses)
      BY <1>11, EventsType DEF Commit, Typed
    <2>4. TypeOK'
      BY <1>11, <2>1, <2>2, <2>3
      DEF Commit, EndTxn, Typed, TypeOK, Goto, Labels, request, budget
    <2>5. Working'
      BY <1>11 DEF Commit, EndTxn, Typed, TypeOK, Working, Goto, request
    <2> QED  BY <2>4, <2>5 DEF Typed
  <1>12. ASSUME NEW p \in Req, Rollback(p) PROVE Typed'
    BY <1>12, CloseTyped DEF Rollback, budget, Typed, TypeOK
  <1>13. ASSUME NEW p \in Req, Release(p) PROVE Typed'
    BY <1>13 DEF Release, FreeLock, Typed, TypeOK, Working, Goto, Labels,
                 request, txn, budget
  <1>14. ASSUME NEW p \in Req, Publish(p) PROVE Typed'
    <2>1. outbox[p] \in Seq(Interactions \X Statuses) /\ outbox[p] # <<>>
      BY <1>14 DEF Publish, Typed, TypeOK
    <2>2. /\ Head(outbox[p]) \in Interactions \X Statuses
          /\ Tail(outbox[p]) \in Seq(Interactions \X Statuses)
      BY <2>1
    <2>3. TypeOK'
      BY <1>14, <2>2 DEF Publish, Typed, TypeOK, request, txn, budget
    <2>4. Working'
      BY <1>14 DEF Publish, Typed, Working, request, txn
    <2> QED  BY <2>3, <2>4 DEF Typed
  <1>15. ASSUME NEW p \in Req, Finish(p) PROVE Typed'
    BY <1>15, CloseTyped DEF Finish, budget, Typed, TypeOK
  <1>16. ASSUME NEW p \in Req, Crash(p) PROVE Typed'
    <2>1. faults' \in 0..MaxFaults
      BY <1>16 DEF Crash, Fault, Typed, TypeOK
    <2> QED  BY <1>16, <2>1, CloseTyped DEF Crash, Typed, TypeOK
  <1>17. ASSUME LockExpires PROVE Typed'
    BY <1>17 DEF LockExpires, Fault, Typed, TypeOK, Working, request, txn
  <1>18. ASSUME UNCHANGED vars PROVE Typed'
    BY <1>18 DEF vars, Typed, TypeOK, Working
  <1> QED
    BY <1>1, <1>2, <1>3, <1>4, <1>5, <1>6, <1>7, <1>8, <1>9, <1>10, <1>11,
       <1>12, <1>13, <1>14, <1>15, <1>16, <1>17, <1>18 DEF Next, Serve

(* The types of the room control, for every room and every set of requests.  *)
THEOREM TypeCorrect == Spec => []TypeOK
  <1>1. Spec => []Typed  BY TypedInit, TypedNext, PTL DEF Spec
  <1> QED  BY <1>1, PTL DEF Typed

-----------------------------------------------------------------------------
(* Two open transactions never hold the same row.                            *)
RowsExclusive ==
    \A p, q \in Req : p # q => wrote[p] \cap wrote[q] = {}

(* The only active version a transaction writes is that of its target.       *)
OnlyTargetActive ==
    \A p \in Req : \A i \in wrote[p] : IsActive(draft[p][i]) => i = tgt[p]

(* A transaction with an entry in the index sees no other active row, and no *)
(* other open transaction has an entry: whichever of them commits next, the  *)
(* committed table keeps one active row.                                     *)
EntryAlone ==
    \A p \in Req : \A i \in wrote[p] : HasEntry(p, i) =>
        \A j \in Interactions \ {i} :
            /\ ~ IsActive(View(p, j))
            /\ \A q \in Req \ {p} : j \in wrote[q] => ~ HasEntry(q, j)

Slot == RowsExclusive /\ OnlyTargetActive /\ OneActive /\ EntryAlone

LEMMA SlotInit == Init => Slot
  BY DEF Init, Slot, RowsExclusive, OnlyTargetActive, OneActive, EntryAlone,
         IsActive

(* A step that touches no row, no draft and no index insertion.              *)
LEMMA SlotQuiet ==
    ASSUME Typed, Slot, UNCHANGED <<rows, wrote, draft>>,
           \A q \in Req : wrote[q] # {} =>
               /\ tgt'[q] = tgt[q]
               /\ pc'[q] = "index" <=> pc[q] = "index"
    PROVE  Slot'
  BY DEF Slot, RowsExclusive, OnlyTargetActive, OneActive, EntryAlone, HasEntry,
         View, IsActive

(* A transaction that ends without a commit.                                 *)
LEMMA SlotEnd ==
    ASSUME Typed, Slot, NEW p \in Req, EndTxn(p), UNCHANGED rows,
           \A q \in Req \ {p} : tgt'[q] = tgt[q] /\ pc'[q] = pc[q]
    PROVE  Slot'
  <1>1. /\ wrote'[p] = {}
        /\ \A q \in Req \ {p} : wrote'[q] = wrote[q] /\ draft'[q] = draft[q]
    BY DEF Typed, TypeOK, EndTxn
  <1>2. RowsExclusive'
    BY <1>1 DEF Slot, RowsExclusive
  <1>3. OnlyTargetActive'
    BY <1>1 DEF Slot, OnlyTargetActive, IsActive
  <1>4. OneActive'
    BY DEF Slot, OneActive, IsActive
  <1>5. EntryAlone'
    BY <1>1 DEF Slot, EntryAlone, HasEntry, View, IsActive
  <1> QED  BY <1>2, <1>3, <1>4, <1>5 DEF Slot

LEMMA SlotClose ==
    ASSUME Typed, Slot, NEW p \in Req, Close(p), UNCHANGED rows
    PROVE  Slot'
  <1>1. \A q \in Req \ {p} : tgt'[q] = tgt[q] /\ pc'[q] = pc[q]
    BY DEF Typed, TypeOK, Close, Goto
  <1> QED  BY <1>1, SlotEnd DEF Close

LEMMA SlotRaise ==
    ASSUME Typed, Slot, NEW p \in Req, NEW error \in Failures, Raise(p, error),
           (UNCHANGED txn /\ pc[p] # "index") \/ EndTxn(p)
    PROVE  Slot'
  <1>1. /\ UNCHANGED <<rows, tgt>>
        /\ pc'[p] # "index"
        /\ \A q \in Req \ {p} : pc'[q] = pc[q]
    BY DEF Typed, TypeOK, Raise, Goto, request
  <1>2. CASE UNCHANGED txn /\ pc[p] # "index"
    BY <1>1, <1>2, SlotQuiet DEF txn
  <1>3. CASE EndTxn(p)
    BY <1>1, <1>3, SlotEnd
  <1> QED  BY <1>2, <1>3

(* Stopping the running interaction adds a row that is not active.           *)
LEMMA SlotStopOther ==
    ASSUME Typed, Slot, NEW p \in Req, StopOther(p)
    PROVE  Slot'
  <1>1. other[p] \in Interactions /\ RowFree(p, other[p])
    BY DEF StopOther, Typed, Working
  <1> DEFINE o == other[p]
             r == [rows[o] EXCEPT !.status = "stopped"]
  <1>2. rows[o] \in Row /\ r.status = "stopped"
    <2>1. rows[o] \in Row  BY <1>1 DEF Typed, TypeOK
    <2> QED  BY <2>1 DEF Row
  <1>3. /\ UNCHANGED <<rows, tgt>>
        /\ pc[p] = "stop_other" /\ pc'[p] = "update"
        /\ \A q \in Req \ {p} : /\ pc'[q] = pc[q]
                                /\ wrote'[q] = wrote[q]
                                /\ draft'[q] = draft[q]
        /\ wrote'[p] = wrote[p] \cup {o}
        /\ draft'[p] = [draft[p] EXCEPT ![o] = r]
    BY DEF StopOther, Typed, TypeOK, Write, Goto, request
  <1>4. draft'[p][o] = r /\ \A j \in Interactions \ {o} : draft'[p][j] = draft[p][j]
    BY <1>1, <1>3 DEF Typed, TypeOK
  <1>5. ~ IsActive(r)  BY <1>2 DEF IsActive
  <1>6. RowsExclusive'
    BY <1>1, <1>3 DEF Slot, RowsExclusive, RowFree
  <1> HIDE DEF o, r
  <1>a. ASSUME NEW q \in Req, NEW i \in wrote'[q], IsActive(draft'[q][i])
        PROVE  i \in wrote[q] /\ IsActive(draft[q][i])
    <2>1. CASE q = p
      <3>1. i # o  BY <1>4, <1>5, <1>a, <2>1
      <3>2. i \in wrote[p] /\ i \in Interactions
        BY <1>3, <1>a, <2>1, <3>1 DEF Typed, TypeOK
      <3> QED  BY <1>4, <1>a, <2>1, <3>1, <3>2
    <2>2. CASE q # p
      BY <1>3, <1>a, <2>2
    <2> QED  BY <2>1, <2>2
  <1>7. OnlyTargetActive'
    BY <1>3, <1>a DEF Slot, OnlyTargetActive, IsActive
  <1>8. OneActive'
    BY <1>3 DEF Slot, OneActive, IsActive
  <1>9. \A q \in Req : \A i \in wrote'[q] :
            HasEntry(q, i)' => i \in wrote[q] /\ HasEntry(q, i)
    <2> SUFFICES ASSUME NEW q \in Req, NEW i \in wrote'[q], HasEntry(q, i)'
                 PROVE  i \in wrote[q] /\ HasEntry(q, i)
      OBVIOUS
    <2>1. i \in wrote[q] /\ IsActive(draft[q][i])
      BY <1>a DEF HasEntry, IsActive
    <2>2. pc[q] = "index" => pc'[q] = "index" /\ tgt'[q] = tgt[q]
      BY <1>3
    <2> QED  BY <2>1, <2>2 DEF HasEntry
  <1>10. \A q \in Req, j \in Interactions : IsActive(View(q, j))' => IsActive(View(q, j))
    <2> SUFFICES ASSUME NEW q \in Req, NEW j \in Interactions, IsActive(View(q, j))'
                 PROVE  IsActive(View(q, j))
      OBVIOUS
    <2>1. CASE q # p
      BY <1>3, <2>1 DEF View, IsActive
    <2>2. CASE q = p /\ j = o
      BY <1>3, <1>4, <1>5, <2>2 DEF View, IsActive
    <2>3. CASE q = p /\ j # o
      BY <1>3, <1>4, <2>3 DEF View, IsActive
    <2> QED  BY <2>1, <2>2, <2>3
  <1>11. EntryAlone'
    BY <1>9, <1>10 DEF Slot, EntryAlone, Typed, TypeOK
  <1> QED  BY <1>6, <1>7, <1>8, <1>11 DEF Slot

(* A request's own update: a row that becomes active is not in the index yet, *)
(* one that stays active is the only active row there is.                     *)
LEMMA SlotUpdate ==
    ASSUME Typed, Slot, NEW p \in Req, Update(p)
    PROVE  Slot'
  <1> DEFINE t == tgt[p]
             r == NewRow(p)
  <1>1. t \in Interactions /\ RowFree(p, t)
    BY DEF Update, Typed, Working
  <1>2. /\ UNCHANGED <<rows, tgt>>
        /\ pc[p] = "update"
        /\ pc'[p] = IF Activates(p) THEN "index" ELSE AfterUpdate(p)
        /\ \A q \in Req \ {p} : /\ pc'[q] = pc[q]
                                /\ wrote'[q] = wrote[q]
                                /\ draft'[q] = draft[q]
        /\ wrote'[p] = wrote[p] \cup {t}
        /\ draft'[p] = [draft[p] EXCEPT ![t] = r]
    BY DEF Update, Typed, TypeOK, Write, Goto, request
  <1>3. draft'[p][t] = r /\ \A j \in Interactions \ {t} : draft'[p][j] = draft[p][j]
    BY <1>1, <1>2 DEF Typed, TypeOK
  <1>4. IsActive(r) /\ pc'[p] # "index" => IsActive(rows[t])
    BY <1>2 DEF Activates
  <1>5. \A q \in Req : wrote[q] \subseteq Interactions
    BY DEF Typed, TypeOK
  <1> HIDE DEF r
  <1>6. RowsExclusive'
    BY <1>1, <1>2 DEF Slot, RowsExclusive, RowFree
  <1>7. OnlyTargetActive'
    <2> SUFFICES ASSUME NEW q \in Req, NEW i \in wrote'[q], IsActive(draft[q][i])'
                 PROVE  i = tgt'[q]
      BY DEF OnlyTargetActive
    <2>1. CASE q # p
      BY <1>2, <2>1 DEF Slot, OnlyTargetActive, IsActive
    <2>2. CASE q = p
      <3>1. tgt'[p] = t  BY <1>2
      <3>2. CASE i = t  BY <2>2, <3>1, <3>2
      <3>3. CASE i # t
        <4>1. i \in wrote[p] /\ i \in Interactions
          BY <1>2, <1>5, <2>2, <3>3
        <4>2. IsActive(draft[p][i])
          BY <1>3, <2>2, <3>3, <4>1 DEF IsActive
        <4> QED  BY <2>2, <3>1, <4>1, <4>2 DEF Slot, OnlyTargetActive
      <3> QED  BY <3>2, <3>3
    <2> QED  BY <2>1, <2>2
  <1>8. OneActive'
    BY <1>2 DEF Slot, OneActive, IsActive
  <1>9. ASSUME NEW j \in Interactions \ {t}, IsActive(View(p, j)), IsActive(rows[t])
        PROVE  FALSE
    <2>1. j \notin wrote[p]
      BY <1>9 DEF View, Slot, OnlyTargetActive
    <2> QED  BY <1>1, <1>9, <2>1 DEF View, Slot, OneActive
  <1>10. ASSUME NEW q \in Req \ {p}, NEW j \in wrote[q], HasEntry(q, j),
                IsActive(rows[t]), j # t
         PROVE  FALSE
    <2>1. ~ IsActive(View(q, t))
      BY <1>1, <1>10 DEF Slot, EntryAlone
    <2> QED  BY <1>1, <1>10, <2>1 DEF View, RowFree
  <1>11. ASSUME NEW q \in Req \ {p}, NEW j \in wrote'[q]
         PROVE  j \in wrote[q] /\ (HasEntry(q, j)' <=> HasEntry(q, j))
    BY <1>2, <1>11 DEF HasEntry, IsActive
  <1>12. ASSUME NEW j \in wrote'[p], HasEntry(p, j)'
         PROVE  j = t /\ IsActive(rows[t])
    <2>1. j = t
      BY <1>2, <1>7, <1>12 DEF OnlyTargetActive, HasEntry
    <2> QED  BY <1>2, <1>3, <1>4, <1>12, <2>1 DEF HasEntry, IsActive
  <1>13. EntryAlone'
    <2> SUFFICES ASSUME NEW q \in Req, NEW i \in wrote'[q], HasEntry(q, i)',
                        NEW j \in Interactions \ {i}
                 PROVE  /\ ~ IsActive(View(q, j))'
                        /\ \A k \in Req \ {q} : j \in wrote'[k] => ~ HasEntry(k, j)'
      BY DEF EntryAlone
    <2>1. CASE q = p
      <3>1. i = t /\ IsActive(rows[t])  BY <1>12, <2>1
      <3>2. ~ IsActive(View(p, j))  BY <1>9, <3>1
      <3>3. ~ IsActive(View(p, j))'
        BY <1>2, <1>3, <3>1, <3>2 DEF View, IsActive
      <3>4. \A k \in Req \ {q} : j \in wrote'[k] => ~ HasEntry(k, j)'
        BY <1>10, <1>11, <2>1, <3>1
      <3> QED  BY <2>1, <3>3, <3>4
    <2>2. CASE q # p
      <3>1. i \in wrote[q] /\ HasEntry(q, i)  BY <1>11, <2>2
      <3>2. /\ ~ IsActive(View(q, j))
            /\ \A k \in Req \ {q} : j \in wrote[k] => ~ HasEntry(k, j)
        BY <3>1 DEF Slot, EntryAlone
      <3>3. ~ IsActive(View(q, j))'
        BY <1>2, <2>2, <3>2 DEF View, IsActive
      <3>4. ASSUME j \in wrote'[p], HasEntry(p, j)' PROVE FALSE
        BY <1>10, <1>12, <2>2, <3>1, <3>4
      <3> QED  BY <1>11, <3>2, <3>3, <3>4
    <2> QED  BY <2>1, <2>2
  <1> QED  BY <1>6, <1>7, <1>8, <1>13 DEF Slot

(* The index lets an active version in when it is settled and has no other.  *)
LEMMA SlotEnterIndex ==
    ASSUME Typed, Slot, NEW p \in Req, EnterIndex(p)
    PROVE  Slot'
  <1>1. /\ UNCHANGED <<rows, tgt, wrote, draft>>
        /\ \A q \in Req \ {p} : pc'[q] = pc[q]
    BY DEF EnterIndex, Typed, TypeOK, Goto, request, txn
  <1>2. \A q \in Req \ {p} : \A i \in wrote[q] : ~ HasEntry(q, i)
    BY DEF EnterIndex, IndexSettled, TouchesIndex
  <1>3. \A q \in Req \ {p} : \A i \in wrote'[q] : ~ HasEntry(q, i)'
    BY <1>1, <1>2 DEF HasEntry, IsActive
  <1>4. \A j \in Interactions \ {tgt[p]} : ~ IsActive(View(p, j))
    BY DEF EnterIndex, IndexTaken
  <1>5. RowsExclusive' /\ OnlyTargetActive' /\ OneActive'
    BY <1>1 DEF Slot, RowsExclusive, OnlyTargetActive, OneActive, IsActive
  <1>6. EntryAlone'
    <2> SUFFICES ASSUME NEW i \in wrote'[p], HasEntry(p, i)',
                        NEW j \in Interactions \ {i}
                 PROVE  /\ ~ IsActive(View(p, j))'
                        /\ \A k \in Req \ {p} : j \in wrote'[k] => ~ HasEntry(k, j)'
      BY <1>3 DEF EntryAlone
    <2>1. i = tgt[p]
      BY <1>1, <1>5 DEF OnlyTargetActive, HasEntry
    <2>2. ~ IsActive(View(p, j))'
      BY <1>1, <1>4, <2>1 DEF View, IsActive
    <2> QED  BY <1>3, <2>2
  <1> QED  BY <1>5, <1>6 DEF Slot

LEMMA SlotCommit ==
    ASSUME Typed, Slot, NEW p \in Req, Commit(p)
    PROVE  Slot'
  <1>1. /\ tgt' = tgt
        /\ pc[p] = "commit"
        /\ wrote'[p] = {}
        /\ \A i \in Interactions : rows'[i] = View(p, i)
        /\ \A q \in Req \ {p} : /\ pc'[q] = pc[q]
                                /\ wrote'[q] = wrote[q]
                                /\ draft'[q] = draft[q]
    BY DEF Commit, EndTxn, Typed, TypeOK, Goto, request
  <1>2. \A q \in Req : wrote[q] \subseteq Interactions
    BY DEF Typed, TypeOK
  <1>3. RowsExclusive'
    BY <1>1 DEF Slot, RowsExclusive
  <1>4. OnlyTargetActive'
    BY <1>1 DEF Slot, OnlyTargetActive, IsActive
  <1>5. ASSUME NEW i \in wrote[p], IsActive(View(p, i)) PROVE HasEntry(p, i)
    BY <1>1, <1>5 DEF View, HasEntry
  <1>6. OneActive'
    <2> SUFFICES ASSUME NEW i \in Interactions, NEW j \in Interactions,
                        IsActive(View(p, i)), IsActive(View(p, j)), i # j
                 PROVE  FALSE
      BY <1>1 DEF OneActive, IsActive
    <2>1. CASE i \in wrote[p]
      BY <1>5, <2>1 DEF Slot, EntryAlone
    <2>2. CASE j \in wrote[p]
      BY <1>5, <2>2 DEF Slot, EntryAlone
    <2>3. CASE i \notin wrote[p] /\ j \notin wrote[p]
      BY <2>3 DEF Slot, OneActive, View
    <2> QED  BY <2>1, <2>2, <2>3
  <1>7. EntryAlone'
    <2> SUFFICES ASSUME NEW q \in Req \ {p}, NEW i \in wrote[q], HasEntry(q, i),
                        NEW j \in Interactions \ {i}
                 PROVE  /\ ~ IsActive(View(q, j))'
                        /\ \A k \in Req \ {q} : j \in wrote'[k] => ~ HasEntry(k, j)'
      BY <1>1 DEF EntryAlone, HasEntry, IsActive
    <2>1. /\ ~ IsActive(View(q, j))
          /\ \A k \in Req \ {q} : j \in wrote[k] => ~ HasEntry(k, j)
      BY DEF Slot, EntryAlone
    <2>2. \A k \in Req \ {q} : j \in wrote'[k] => ~ HasEntry(k, j)'
      BY <1>1, <2>1 DEF HasEntry, IsActive
    <2>3. ~ IsActive(View(q, j))'
      <3>1. CASE j \in wrote[q]
        BY <1>1, <2>1, <3>1 DEF View, IsActive
      <3>2. CASE j \notin wrote[q] /\ j \in wrote[p]
        <4>1. ~ IsActive(View(p, j))  BY <1>5, <2>1, <3>2
        <4> QED  BY <1>1, <3>2, <4>1 DEF View, IsActive
      <3>3. CASE j \notin wrote[q] /\ j \notin wrote[p]
        BY <1>1, <2>1, <3>3 DEF View, IsActive
      <3> QED  BY <3>1, <3>2, <3>3
    <2> QED  BY <2>2, <2>3
  <1> QED  BY <1>3, <1>4, <1>6, <1>7 DEF Slot

LEMMA SlotNext == Typed /\ Slot /\ [Next]_vars => Slot'
  <1> SUFFICES ASSUME Typed, Slot, [Next]_vars PROVE Slot'
    OBVIOUS
  <1>1. ASSUME NEW p \in Req, NEW a \in Acts, NEW i \in Interactions,
               Load(p, a, i)
        PROVE  Slot'
    <2>1. wrote[p] = {}
      BY <1>1 DEF Load, Accept, Typed, Working
    <2> QED  BY <1>1, <2>1, SlotQuiet DEF Load, Goto, txn, Typed, TypeOK
  <1>2. ASSUME NEW p \in Req, NEW a \in Acts, NEW i \in Interactions,
               Decline(p, a, i)
        PROVE  Slot'
    BY <1>2, SlotQuiet DEF Decline, request, txn
  <1>3. ASSUME NEW p \in Req,
               AcquireLock(p) \/ FindActive(p) \/ Release(p) \/ Publish(p)
        PROVE  Slot'
    <2>1. /\ UNCHANGED <<rows, wrote, draft, tgt>>
          /\ pc[p] # "index" /\ pc'[p] # "index"
          /\ \A q \in Req \ {p} : pc'[q] = pc[q]
      BY <1>3 DEF AcquireLock, FindActive, Release, Publish, Goto, request, txn,
                  Typed, TypeOK
    <2> QED  BY <2>1, SlotQuiet
  <1>4. ASSUME NEW p \in Req,
               LockBusy(p) \/ Rollback(p) \/ Finish(p) \/ Crash(p)
        PROVE  Slot'
    BY <1>4, SlotClose DEF LockBusy, Rollback, Finish, Crash
  <1>5. ASSUME NEW p \in Req,
               RefuseOpen(p) \/ StopOtherLost(p) \/ UpdateLost(p)
        PROVE  Slot'
    BY <1>5, SlotRaise DEF RefuseOpen, StopOtherLost, UpdateLost, Failures
  <1>6. ASSUME NEW p \in Req, IndexViolation(p) \/ DeadlockVictim(p)
        PROVE  Slot'
    BY <1>6, SlotRaise DEF IndexViolation, DeadlockVictim, Failures
  <1>7. ASSUME NEW p \in Req, StopOther(p) PROVE Slot'
    BY <1>7, SlotStopOther
  <1>8. ASSUME NEW p \in Req, Update(p) PROVE Slot'
    BY <1>8, SlotUpdate
  <1>9. ASSUME NEW p \in Req, EnterIndex(p) PROVE Slot'
    BY <1>9, SlotEnterIndex
  <1>10. ASSUME NEW p \in Req, Commit(p) PROVE Slot'
    BY <1>10, SlotCommit
  <1>11. ASSUME LockExpires PROVE Slot'
    BY <1>11, SlotQuiet DEF LockExpires, request, txn
  <1>12. ASSUME UNCHANGED vars PROVE Slot'
    BY <1>12, SlotQuiet DEF vars
  <1> QED
    BY <1>1, <1>2, <1>3, <1>4, <1>5, <1>6, <1>7, <1>8, <1>9, <1>10, <1>11,
       <1>12 DEF Next, Serve

(* One active interaction per room, for any number of interactions and of    *)
(* requests, with the room lock, without it, or expired under its holder.    *)
THEOREM SingleActive == Spec => []OneActive
  <1>1. Spec => [](Typed /\ Slot)
    BY TypedInit, TypedNext, SlotInit, SlotNext, PTL DEF Spec
  <1> QED  BY <1>1, PTL DEF Slot

-----------------------------------------------------------------------------
(* A request about to commit holds the row of its target.                    *)
TargetHeld ==
    \A p \in Req :
        \/ pc[p] \in {"index", "commit"}
        \/ pc[p] = "release" /\ failure[p] = "none" /\ act[p] \in PollActs
        => tgt[p] \in wrote[p]

(* The row a poll action has locked still has the status the action loaded,  *)
(* or keeps the status it had when it was locked.                            *)
SeenStands ==
    \A p \in Req :
        tgt[p] \in wrote[p] /\ act[p] \in PollActs =>
            IF Optimistic(p) THEN rows[tgt[p]].status = seen[p].status
            ELSE draft[p][tgt[p]].status = rows[tgt[p]].status

Held == TargetHeld /\ SeenStands

LEMMA HeldInit == Init => Held
  BY DEF Init, Held, TargetHeld, SeenStands

(* What a step may do to a request whose handler does not run: nothing, apart *)
(* from changing rows the request does not hold.                              *)
Untouched(q) ==
    /\ pc'[q] = pc[q] /\ act'[q] = act[q] /\ tgt'[q] = tgt[q]
    /\ seen'[q] = seen[q] /\ failure'[q] = failure[q]
    /\ wrote'[q] = wrote[q] /\ draft'[q] = draft[q]
    /\ tgt[q] \in wrote[q] => rows'[tgt[q]] = rows[tgt[q]]

HeldBy(q) ==
    /\ \/ pc[q] \in {"index", "commit"}
       \/ pc[q] = "release" /\ failure[q] = "none" /\ act[q] \in PollActs
       => tgt[q] \in wrote[q]
    /\ tgt[q] \in wrote[q] /\ act[q] \in PollActs =>
            IF Optimistic(q) THEN rows[tgt[q]].status = seen[q].status
            ELSE draft[q][tgt[q]].status = rows[tgt[q]].status

LEMMA HeldStep ==
    ASSUME Held, NEW p \in Req, HeldBy(p)', \A q \in Req \ {p} : Untouched(q)
    PROVE  Held'
  <1>1. \A q \in Req : HeldBy(q)  BY DEF Held, TargetHeld, SeenStands, HeldBy
  <1>2. \A q \in Req \ {p} : HeldBy(q)'
    BY <1>1 DEF HeldBy, Untouched, Optimistic
  <1> QED  BY <1>2 DEF Held, TargetHeld, SeenStands, HeldBy

LEMMA HeldNext == Typed /\ Slot /\ Held /\ [Next]_vars => Held'
  <1> SUFFICES ASSUME Typed, Slot, Held, [Next]_vars PROVE Held'
    OBVIOUS
  <1>0. \A p \in Req : HeldBy(p)  BY DEF Held, TargetHeld, SeenStands, HeldBy
  <1>1. ASSUME NEW p \in Req, NEW a \in Acts, NEW i \in Interactions,
               Load(p, a, i)
        PROVE  Held'
    <2>1. wrote'[p] = {} /\ pc'[p] \in {"lock", "update"}
      BY <1>1 DEF Load, Accept, Goto, txn, Typed, Working, TypeOK
    <2>2. HeldBy(p)'  BY <2>1 DEF HeldBy
    <2>3. \A q \in Req \ {p} : Untouched(q)
      BY <1>1 DEF Load, Accept, Goto, txn, Typed, TypeOK, Untouched
    <2> QED  BY <2>2, <2>3, HeldStep
  <1>2. ASSUME NEW p \in Req, NEW a \in Acts, NEW i \in Interactions,
               Decline(p, a, i)
        PROVE  Held'
    BY <1>2 DEF Decline, request, txn, Held, TargetHeld, SeenStands, Optimistic
  <1>3. ASSUME NEW p \in Req,
               \/ AcquireLock(p) \/ FindActive(p) \/ EnterIndex(p)
               \/ Release(p) \/ Publish(p)
        PROVE  Held'
    <2>1. UNCHANGED <<rows, wrote, draft, act, tgt, seen, failure>>
      BY <1>3 DEF AcquireLock, FindActive, EnterIndex, Release, Publish,
                  request, txn
    <2>2. \A q \in Req \ {p} : pc'[q] = pc[q]
      BY <1>3 DEF AcquireLock, FindActive, EnterIndex, Release, Publish, Goto,
                  Typed, TypeOK
    <2>3. \/ pc'[p] \in {"find", "stop_other", "update", "rollback", "publish"}
          \/ pc[p] = "index"
          \/ pc[p] = "release" /\ failure[p] = "none" /\ act[p] \in PollActs
      BY <1>3 DEF AcquireLock, FindActive, EnterIndex, Release, Publish, Goto,
                  Typed, TypeOK
    <2>4. HeldBy(p)'  BY <1>0, <2>1, <2>3 DEF HeldBy, Optimistic
    <2>5. \A q \in Req \ {p} : Untouched(q)  BY <2>1, <2>2 DEF Untouched
    <2> QED  BY <2>4, <2>5, HeldStep
  <1>4. ASSUME NEW p \in Req, Close(p), UNCHANGED rows PROVE Held'
    <2>1. wrote'[p] = {} /\ pc'[p] = "idle"
      BY <1>4 DEF Close, EndTxn, Goto, Typed, TypeOK
    <2>2. HeldBy(p)'  BY <2>1 DEF HeldBy
    <2>3. \A q \in Req \ {p} : Untouched(q)
      BY <1>4 DEF Close, EndTxn, Goto, Typed, TypeOK, Untouched
    <2> QED  BY <2>2, <2>3, HeldStep
  <1>5. ASSUME NEW p \in Req, NEW error \in {"invalid", "error"},
               Raise(p, error), UNCHANGED txn \/ EndTxn(p)
        PROVE  Held'
    <2>1. /\ pc'[p] \in {"release", "rollback"} /\ failure'[p] # "none"
          /\ UNCHANGED <<rows, act, tgt, seen>>
      BY <1>5 DEF Raise, Goto, request, Typed, TypeOK
    <2>a. wrote'[p] = {} \/ (wrote'[p] = wrote[p] /\ draft'[p] = draft[p])
      BY <1>5 DEF EndTxn, txn, Typed, TypeOK
    <2>2. HeldBy(p)'  BY <1>0, <2>1, <2>a DEF HeldBy, Optimistic
    <2>3. \A q \in Req \ {p} : Untouched(q)
      BY <1>5 DEF Raise, EndTxn, Goto, request, txn, Typed, TypeOK, Untouched
    <2> QED  BY <2>2, <2>3, HeldStep
  <1>6. ASSUME NEW p \in Req, StopOther(p) PROVE Held'
    <2>1. other[p] \in Interactions /\ other[p] # tgt[p] /\ pc'[p] = "update"
      BY <1>6 DEF StopOther, Goto, Typed, Working, TypeOK
    <2>2. /\ tgt[p] \in wrote'[p] => tgt[p] \in wrote[p]
          /\ tgt[p] \in wrote[p] => draft'[p][tgt[p]] = draft[p][tgt[p]]
          /\ UNCHANGED <<rows, act, tgt, seen>>
      BY <1>6, <2>1 DEF StopOther, Write, request, Typed, TypeOK
    <2>3. HeldBy(p)'  BY <1>0, <2>1, <2>2 DEF HeldBy, Optimistic
    <2>4. \A q \in Req \ {p} : Untouched(q)
      BY <1>6 DEF StopOther, Write, Goto, request, Typed, TypeOK, Untouched
    <2> QED  BY <2>3, <2>4, HeldStep
  <1>7. ASSUME NEW p \in Req, Update(p) PROVE Held'
    <2>1. tgt[p] \in Interactions /\ rows[tgt[p]] \in Row
      BY <1>7 DEF Update, Typed, Working, TypeOK
    <2>2. /\ tgt[p] \in wrote'[p] /\ draft'[p][tgt[p]] = NewRow(p)
          /\ UNCHANGED <<rows, act, tgt, seen>>
      BY <1>7, <2>1 DEF Update, Write, request, Typed, TypeOK
    <2>3. Optimistic(p) => rows[tgt[p]].status = seen[p].status
      BY <1>7 DEF Update, Matches
    <2>4. act[p] \in {"reveal", "hide"} => NewRow(p).status = rows[tgt[p]].status
      BY <2>1 DEF NewRow, Row
    <2>5. HeldBy(p)'
      BY <2>2, <2>3, <2>4 DEF HeldBy, Optimistic
    <2>6. \A q \in Req \ {p} : Untouched(q)
      BY <1>7 DEF Update, Write, Goto, request, Typed, TypeOK, Untouched
    <2> QED  BY <2>5, <2>6, HeldStep
  <1>8. ASSUME NEW p \in Req, Commit(p) PROVE Held'
    <2>1. wrote'[p] = {} /\ pc'[p] \in {"release", "publish"}
          /\ (pc'[p] = "release" => act'[p] \notin PollActs)
      BY <1>8 DEF Commit, EndTxn, Goto, request, Typed, TypeOK, PollActs
    <2>2. HeldBy(p)'  BY <2>1 DEF HeldBy
    <2>3. ASSUME NEW q \in Req \ {p} PROVE Untouched(q)
      <3>1. tgt[q] \in wrote[q] => tgt[q] \notin wrote[p] /\ tgt[q] \in Interactions
        BY DEF Slot, RowsExclusive, Typed, TypeOK
      <3> QED
        BY <1>8, <3>1 DEF Commit, EndTxn, View, Goto, request, Typed, TypeOK,
                          Untouched
    <2> QED  BY <2>2, <2>3, HeldStep
  <1>9. ASSUME LockExpires \/ UNCHANGED vars PROVE Held'
    BY <1>9 DEF LockExpires, vars, request, txn, Held, TargetHeld, SeenStands,
                Optimistic
  <1>10. ASSUME NEW p \in Req,
                LockBusy(p) \/ Rollback(p) \/ Finish(p) \/ Crash(p)
         PROVE  Held'
    BY <1>4, <1>10 DEF LockBusy, Rollback, Finish, Crash
  <1>11. ASSUME NEW p \in Req,
                \/ RefuseOpen(p) \/ StopOtherLost(p) \/ UpdateLost(p)
                \/ IndexViolation(p) \/ DeadlockVictim(p)
         PROVE  Held'
    BY <1>5, <1>11 DEF RefuseOpen, StopOtherLost, UpdateLost, IndexViolation,
                       DeadlockVictim
  <1> QED
    BY <1>1, <1>2, <1>3, <1>6, <1>7, <1>8, <1>9, <1>10, <1>11 DEF Next, Serve

(* Only a commit changes the committed table. *)
LEMMA OnlyCommitWrites ==
    ASSUME [Next]_vars, rows' # rows
    PROVE  \E q \in Req : Commit(q)
  <1>1. CASE LockExpires \/ UNCHANGED vars
    BY <1>1 DEF LockExpires, vars
  <1>2. ASSUME NEW p \in Req, NEW a \in Acts, NEW i \in Interactions,
               Load(p, a, i) \/ Decline(p, a, i)
        PROVE  UNCHANGED rows
    BY <1>2 DEF Load, Decline
  <1>3. ASSUME NEW p \in Req,
               \/ AcquireLock(p) \/ LockBusy(p) \/ FindActive(p)
               \/ StopOther(p) \/ Update(p) \/ EnterIndex(p)
        PROVE  UNCHANGED rows
    BY <1>3 DEF AcquireLock, LockBusy, FindActive, StopOther, Update, EnterIndex
  <1>4. ASSUME NEW p \in Req,
               \/ RefuseOpen(p) \/ StopOtherLost(p) \/ UpdateLost(p)
               \/ IndexViolation(p) \/ DeadlockVictim(p)
        PROVE  UNCHANGED rows
    BY <1>4 DEF RefuseOpen, StopOtherLost, UpdateLost, IndexViolation,
                DeadlockVictim, Raise
  <1>5. ASSUME NEW p \in Req,
               Rollback(p) \/ Release(p) \/ Publish(p) \/ Finish(p) \/ Crash(p)
        PROVE  UNCHANGED rows
    BY <1>5 DEF Rollback, Release, Publish, Finish, Crash
  <1> QED
    BY <1>1, <1>2, <1>3, <1>4, <1>5 DEF Next, Serve

LEMMA CommitsFromSeen ==
    ASSUME Typed, Slot, Held, [Next]_vars, NEW p \in Req,
           pc[p] = "commit", act[p] \in PollActs,
           rows'[tgt[p]].status # rows[tgt[p]].status
    PROVE  rows[tgt[p]].status = seen[p].status
  <1>1. tgt[p] \in wrote[p] /\ tgt[p] \in Interactions
    BY DEF Held, TargetHeld, Typed, TypeOK
  <1>2. PICK q \in Req : Commit(q)
    BY OnlyCommitWrites
  <1>3. q = p
    BY <1>1, <1>2 DEF Commit, View, Slot, RowsExclusive
  <1>4. rows'[tgt[p]] = draft[p][tgt[p]]
    BY <1>1, <1>2, <1>3 DEF Commit, View
  <1> QED  BY <1>1, <1>4 DEF Held, SeenStands

(* A poll action never overwrites a status it has not loaded, whatever other *)
(* poll actions and patches commit between its read and its write.           *)
THEOREM NoLostPollTransition == Spec => PollActionsFromSeen
  <1>1. Typed /\ Slot /\ Held /\ [Next]_vars
        => [\A p \in Req :
              /\ pc[p] = "commit" /\ act[p] \in PollActs
              /\ rows'[tgt[p]].status # rows[tgt[p]].status
              => rows[tgt[p]].status = seen[p].status]_vars
    BY CommitsFromSeen
  <1>2. Spec => [](Typed /\ Slot /\ Held)
    BY TypedInit, TypedNext, SlotInit, SlotNext, HeldInit, HeldNext, PTL DEF Spec
  <1> QED  BY <1>1, <1>2, PTL DEF Spec, PollActionsFromSeen

(* A request keeps the room lock until it gives it back or the key expires.  *)
THEOREM LockOwned == Spec => LockKept
  <1>1. Typed /\ [Next]_vars
        => [\A p \in Req : lock = p /\ token[p] /\ lock' # p
              => (token'[p] = FALSE \/ UNCHANGED <<pc, token>>)]_vars
    <2> SUFFICES ASSUME Typed, [Next]_vars, NEW p \in Req,
                        lock = p, token[p], lock' # p
                 PROVE  token'[p] = FALSE \/ UNCHANGED <<pc, token>>
      OBVIOUS
    <2>1. p # None  BY RoomAssumption
    <2>2. CASE LockExpires  BY <2>2 DEF LockExpires
    <2>3. CASE \E q \in Req : Release(q)
      BY <2>3 DEF Release, FreeLock, Typed, TypeOK
    <2>4. CASE \E q \in Req : AcquireLock(q)
      BY <2>1, <2>4 DEF AcquireLock
    <2> QED
      BY <2>2, <2>3, <2>4
      DEF Next, Serve, vars, Load, Accept, Decline, LockBusy, FindActive,
          RefuseOpen, StopOther, StopOtherLost, Update, UpdateLost, EnterIndex,
          IndexViolation, DeadlockVictim, Commit, Rollback, Publish, Finish,
          Crash, Raise
  <1>2. Spec => []Typed  BY TypedInit, TypedNext, PTL DEF Spec
  <1> QED  BY <1>1, <1>2, PTL DEF Spec, LockKept

-----------------------------------------------------------------------------
(* The poll endpoint implements the atomic room: while hosts send poll actions *)
(* only, every commit of RoomControl is one move of PollRoom, for any number   *)
(* of polls and of requests, with or without Redis.                            *)

(* What the statements a request has behind it have made sure of, up to its    *)
(* commit: its action was allowed from the status it loaded, it has written no *)
(* row but its target's and that of the poll it displaces, the target's new    *)
(* version has the status of the action table, and the displaced poll was      *)
(* running when it was locked and is stopped in the request's version.         *)
PlanOf(p) ==
    /\ pc[p] = "idle" => other[p] = None
    /\ pc[p] # "idle" => act[p] \in PollActs /\ seen[p].status \in Sources[act[p]]
    /\ pc[p] \in {"lock", "find", "stop_other"} => wrote[p] = {}
    /\ pc[p] \in {"find", "stop_other"} => act[p] = "start"
    /\ other[p] # None => act[p] = "start" /\ other[p] # tgt[p]
    /\ wrote[p] \subseteq {tgt[p], other[p]}
    /\ tgt[p] \in wrote[p] /\ Optimistic(p) => draft[p][tgt[p]].status = Goal[act[p]]
    /\ other[p] \in wrote[p] =>
          draft[p][other[p]].status = "stopped" /\ IsActive(rows[other[p]])

Planned == \A p \in Req : PlanOf(p)

(* A step that is not one of request q leaves its plan alone, and the rows it  *)
(* holds.                                                                      *)
Aside(q) ==
    /\ pc'[q] = pc[q] /\ act'[q] = act[q] /\ tgt'[q] = tgt[q] /\ seen'[q] = seen[q]
    /\ other'[q] = other[q] /\ wrote'[q] = wrote[q] /\ draft'[q] = draft[q]
    /\ \A i \in wrote[q] : rows'[i] = rows[i]

LEMMA PlannedInit == Init => Planned
  BY RoomAssumption DEF Init, Planned, PlanOf

LEMMA PlannedStep ==
    ASSUME Planned, NEW p \in Req, PlanOf(p)', \A q \in Req \ {p} : Aside(q)
    PROVE  Planned'
  <1>1. \A q \in Req \ {p} : PlanOf(q)'
    BY DEF Planned, PlanOf, Aside, Optimistic, IsActive
  <1> QED  BY <1>1 DEF Planned

(* The early steps and the late ones: nothing is written.                      *)
LEMMA PlannedQuiet ==
    ASSUME Typed, Planned, NEW p \in Req,
           AcquireLock(p) \/ EnterIndex(p) \/ Release(p) \/ Publish(p)
    PROVE  Planned'
  <1>1. UNCHANGED <<rows, act, tgt, seen, other, wrote, draft>>
    BY DEF AcquireLock, EnterIndex, Release, Publish, request, txn
  <1>2. \A q \in Req \ {p} : pc'[q] = pc[q]
    BY DEF AcquireLock, EnterIndex, Release, Publish, Goto, Typed, TypeOK
  <1>3. \A q \in Req \ {p} : Aside(q)
    BY <1>1, <1>2 DEF Aside
  <1>4. /\ pc[p] # "idle" /\ pc'[p] # "idle"
        /\ pc'[p] \in {"lock", "find", "stop_other"} => pc[p] = "lock" /\ act[p] \in Opening
    BY DEF AcquireLock, EnterIndex, AfterUpdate, Release, Publish, Goto, Typed, TypeOK
  <1>5. act[p] \in Opening /\ act[p] \in PollActs => act[p] = "start"
    BY DEF Opening, PollActs
  <1>6. PlanOf(p)'
    BY <1>1, <1>4, <1>5 DEF Planned, PlanOf, Optimistic, IsActive
  <1> QED  BY <1>3, <1>6, PlannedStep

LEMMA PlannedClose ==
    ASSUME Typed, Planned, NEW p \in Req, Close(p), UNCHANGED rows
    PROVE  Planned'
  <1>1. PlanOf(p)'
    BY RoomAssumption DEF Close, EndTxn, Goto, Typed, TypeOK, PlanOf
  <1>2. \A q \in Req \ {p} : Aside(q)
    BY DEF Close, EndTxn, Goto, Typed, TypeOK, Aside
  <1> QED  BY <1>1, <1>2, PlannedStep

LEMMA PlannedRaise ==
    ASSUME Typed, Planned, NEW p \in Req, NEW error \in {"invalid", "error"},
           Raise(p, error), UNCHANGED txn \/ EndTxn(p), pc[p] # "idle"
    PROVE  Planned'
  <1>1. /\ pc'[p] \in {"release", "rollback"}
        /\ UNCHANGED <<rows, act, tgt, seen, other>>
    BY DEF Raise, Goto, request, Typed, TypeOK
  <1>2. wrote'[p] = {} \/ (wrote'[p] = wrote[p] /\ draft'[p] = draft[p])
    BY DEF EndTxn, txn, Typed, TypeOK
  <1>3. PlanOf(p)'
    BY <1>1, <1>2 DEF Planned, PlanOf, Optimistic, IsActive
  <1>4. \A q \in Req \ {p} : Aside(q)
    BY DEF Raise, EndTxn, Goto, request, txn, Typed, TypeOK, Aside
  <1> QED  BY <1>3, <1>4, PlannedStep

LEMMA PlannedLoad ==
    ASSUME Typed, Planned, Acts \subseteq PollActs,
           NEW p \in Req, NEW a \in Acts, NEW i \in Interactions, Load(p, a, i)
    PROVE  Planned'
  <1>1. /\ a \in PollActs /\ rows[i].status \in Sources[a]
        /\ wrote[p] = {} /\ other[p] = None
    BY DEF Load, Accept, Declined, Typed, Working, Planned, PlanOf
  <1>2. /\ act'[p] = a /\ tgt'[p] = i /\ seen'[p] = rows[i]
        /\ pc'[p] \in {"lock", "update"}
        /\ wrote'[p] = {} /\ other'[p] = None
    BY <1>1 DEF Load, Goto, txn, Typed, TypeOK
  <1>3. PlanOf(p)'
    BY <1>1, <1>2 DEF PlanOf
  <1>4. \A q \in Req \ {p} : Aside(q)
    BY DEF Load, Goto, txn, Typed, TypeOK, Aside
  <1> QED  BY <1>3, <1>4, PlannedStep

LEMMA PlannedFind ==
    ASSUME Typed, Planned, NEW p \in Req, FindActive(p)
    PROVE  Planned'
  <1>1. /\ pc[p] = "find"
        /\ UNCHANGED <<rows, act, tgt, seen, wrote, draft>>
        /\ \/ pc'[p] = "update" /\ other' = other
           \/ \E j \in Interactions \ {tgt[p]} :
                pc'[p] = "stop_other" /\ other' = [other EXCEPT ![p] = j]
    BY DEF FindActive, Goto, request, txn, Typed, TypeOK
  <1>2. wrote[p] = {} /\ act[p] = "start"
    BY <1>1 DEF Planned, PlanOf
  <1>3. other'[p] # None => other'[p] # tgt[p]
    BY <1>1 DEF Planned, PlanOf, Typed, TypeOK
  <1>4. PlanOf(p)'
    BY <1>1, <1>2, <1>3 DEF Planned, PlanOf
  <1>5. \A q \in Req \ {p} : Aside(q)
    BY <1>1 DEF FindActive, Goto, Typed, TypeOK, Aside
  <1> QED  BY <1>4, <1>5, PlannedStep

LEMMA PlannedStopOther ==
    ASSUME Typed, Planned, NEW p \in Req, StopOther(p)
    PROVE  Planned'
  <1>1. /\ pc[p] = "stop_other" /\ pc'[p] = "update"
        /\ other[p] \in Interactions /\ other[p] # tgt[p]
        /\ rows[other[p]] \in Row
    BY DEF StopOther, Goto, Typed, Working, TypeOK
  <1>2. wrote[p] = {} /\ act[p] = "start"
    BY <1>1 DEF Planned, PlanOf
  <1>3. /\ UNCHANGED <<rows, act, tgt, seen, other>>
        /\ wrote'[p] = {other[p]}
        /\ draft'[p][other[p]] = [rows[other[p]] EXCEPT !.status = "stopped"]
    BY <1>1, <1>2 DEF StopOther, Write, request, Typed, TypeOK
  <1>4. draft'[p][other[p]].status = "stopped"
    BY <1>1, <1>3 DEF Row
  <1>5. IsActive(rows[other[p]])
    BY <1>2 DEF StopOther, StillRunning
  <1>6. PlanOf(p)'
    BY <1>1, <1>2, <1>3, <1>4, <1>5 DEF Planned, PlanOf, IsActive
  <1>7. \A q \in Req \ {p} : Aside(q)
    BY DEF StopOther, Write, Goto, request, Typed, TypeOK, Aside
  <1> QED  BY <1>6, <1>7, PlannedStep

(* The new version of the target has the status of the action table.           *)
LEMMA GoalReached ==
    ASSUME Typed, NEW p \in Req, act[p] \in PollActs, Optimistic(p), tgt[p] \in Interactions
    PROVE  NewRow(p).status = Goal[act[p]]
  <1>1. rows[tgt[p]] \in Row  BY DEF Typed, TypeOK
  <1>2. act[p] \in {"start", "stop", "lock", "unlock", "reset"}
    BY DEF PollActs, Optimistic
  <1>3. act[p] \notin PatchActs
    BY <1>2 DEF PatchActs
  <1> QED  BY <1>1, <1>2, <1>3 DEF NewRow, Goal, Row

LEMMA PlannedUpdate ==
    ASSUME Typed, Planned, NEW p \in Req, Update(p)
    PROVE  Planned'
  <1>1. tgt[p] \in Interactions /\ pc[p] = "update" /\ pc'[p] \in {"index", "release", "commit"}
    BY DEF Update, AfterUpdate, Goto, Typed, Working, TypeOK
  <1>2. act[p] \in PollActs
    BY <1>1 DEF Planned, PlanOf
  <1>3. /\ UNCHANGED <<rows, act, tgt, seen, other>>
        /\ wrote'[p] = wrote[p] \cup {tgt[p]}
        /\ draft'[p] = [draft[p] EXCEPT ![tgt[p]] = NewRow(p)]
    BY DEF Update, Write, request, Typed, TypeOK
  <1>4. /\ draft'[p][tgt[p]] = NewRow(p)
        /\ \A i \in Interactions \ {tgt[p]} : draft'[p][i] = draft[p][i]
    BY <1>1, <1>3 DEF Typed, TypeOK
  <1>5. Optimistic(p) => NewRow(p).status = Goal[act[p]]
    BY <1>1, <1>2, GoalReached
  <1>6. other[p] \in wrote'[p] =>
            /\ other[p] \in wrote[p]
            /\ draft'[p][other[p]] = draft[p][other[p]]
    BY <1>1, <1>3, <1>4, RoomAssumption DEF Planned, PlanOf, Typed, TypeOK
  <1>7. PlanOf(p)'
    BY <1>1, <1>2, <1>3, <1>4, <1>5, <1>6 DEF Planned, PlanOf, Optimistic, IsActive
  <1>8. \A q \in Req \ {p} : Aside(q)
    BY DEF Update, Write, Goto, request, Typed, TypeOK, Aside
  <1> QED  BY <1>7, <1>8, PlannedStep

LEMMA PlannedCommit ==
    ASSUME Typed, Slot, Planned, NEW p \in Req, Commit(p)
    PROVE  Planned'
  <1>1. /\ pc[p] = "commit" /\ pc'[p] \in {"release", "publish"}
        /\ UNCHANGED <<act, tgt, seen, other>>
        /\ wrote'[p] = {}
    BY DEF Commit, EndTxn, Goto, request, Typed, TypeOK
  <1>2. PlanOf(p)'
    BY <1>1 DEF Planned, PlanOf
  <1>3. ASSUME NEW q \in Req \ {p} PROVE Aside(q)
    <2>1. \A i \in wrote[q] : i \in Interactions /\ i \notin wrote[p]
      BY DEF Slot, RowsExclusive, Typed, TypeOK
    <2> QED
      BY <2>1 DEF Commit, EndTxn, View, Goto, request, Typed, TypeOK, Aside
  <1> QED  BY <1>2, <1>3, PlannedStep

LEMMA PlannedNext ==
    ASSUME Acts \subseteq PollActs, Typed, Slot, Planned, [Next]_vars
    PROVE  Planned'
  <1>1. ASSUME NEW p \in Req, NEW a \in Acts, NEW i \in Interactions,
               Load(p, a, i)
        PROVE  Planned'
    BY <1>1, PlannedLoad
  <1>2. ASSUME NEW p \in Req, NEW a \in Acts, NEW i \in Interactions,
               Decline(p, a, i)
        PROVE  Planned'
    BY <1>2 DEF Decline, request, txn, Planned, PlanOf, Optimistic, IsActive
  <1>3. ASSUME NEW p \in Req,
               AcquireLock(p) \/ EnterIndex(p) \/ Release(p) \/ Publish(p)
        PROVE  Planned'
    BY <1>3, PlannedQuiet
  <1>4. ASSUME NEW p \in Req,
               LockBusy(p) \/ Rollback(p) \/ Finish(p) \/ Crash(p)
        PROVE  Planned'
    BY <1>4, PlannedClose DEF LockBusy, Rollback, Finish, Crash
  <1>5. ASSUME NEW p \in Req,
               RefuseOpen(p) \/ StopOtherLost(p) \/ UpdateLost(p)
        PROVE  Planned'
    BY <1>5, PlannedRaise DEF RefuseOpen, StopOtherLost, UpdateLost
  <1>6. ASSUME NEW p \in Req, IndexViolation(p) \/ DeadlockVictim(p)
        PROVE  Planned'
    BY <1>6, PlannedRaise DEF IndexViolation, DeadlockVictim, WaitsFor
  <1>7. ASSUME NEW p \in Req, FindActive(p) \/ StopOther(p) \/ Update(p) \/ Commit(p)
        PROVE  Planned'
    BY <1>7, PlannedFind, PlannedStopOther, PlannedUpdate, PlannedCommit
  <1>8. ASSUME LockExpires \/ UNCHANGED vars PROVE Planned'
    BY <1>8 DEF LockExpires, vars, request, txn, Planned, PlanOf, Optimistic, IsActive
  <1> QED
    BY <1>1, <1>2, <1>3, <1>4, <1>5, <1>6, <1>7, <1>8 DEF Next, Serve

-----------------------------------------------------------------------------
(* The refinement.                                                             *)

Board == [i \in Interactions |-> rows[i].status]

LEMMA RoomInit == Init => Room!Init
  BY DEF Init, IsActive, Room!Init, Room!Statuses, Statuses

(* A commit is a move of the room: the target's old status is the one the      *)
(* action was allowed from, and no other poll is active after the commit.      *)
LEMMA CommitMoves ==
    ASSUME Typed, Slot, Held, Planned, NEW p \in Req, Commit(p), OneActive'
    PROVE  Room!Next \/ Board' = Board
  <1>0. PICK t \in Interactions : t = tgt[p]
    BY DEF Commit, Typed, Working
  <1>1. /\ pc[p] = "commit" /\ t \in Interactions /\ t \in wrote[p]
        /\ act[p] \in PollActs /\ seen[p].status \in Sources[act[p]]
    BY <1>0 DEF Commit, Held, TargetHeld, Planned, PlanOf
  <1>2. /\ \A i \in wrote[p] : i \in Interactions /\ rows'[i] = draft[p][i]
        /\ \A i \in Interactions \ wrote[p] : rows'[i] = rows[i]
    BY DEF Commit, View, Typed, TypeOK
  <1>3. /\ Board' = [i \in Interactions |-> rows'[i].status]
        /\ \A i \in Interactions : Board[i] = rows[i].status /\ Board'[i] = rows'[i].status
    BY DEF Board
  <1>4. CASE ~ Optimistic(p)
    <2>1. act[p] # "start"
      BY <1>1, <1>4 DEF Optimistic
    <2>2. other[p] = None /\ wrote[p] = {t}
      BY <1>0, <1>1, <2>1, RoomAssumption DEF Planned, PlanOf, Typed, TypeOK
    <2>3. rows'[t].status = rows[t].status
      BY <1>0, <1>1, <1>2, <1>4 DEF Held, SeenStands
    <2>4. \A i \in Interactions : rows'[i].status = rows[i].status
      BY <1>2, <2>2, <2>3
    <2> QED  BY <2>4 DEF Board
  <1>5. CASE Optimistic(p)
    <2>1. /\ rows[t].status \in Sources[act[p]]
          /\ rows'[t].status = Goal[act[p]]
      BY <1>0, <1>1, <1>2, <1>5 DEF Held, SeenStands, Planned, PlanOf
    <2>2. act[p] \in {"start", "stop", "lock", "unlock", "reset"}
      BY <1>1, <1>5 DEF PollActs, Optimistic
    <2>3. CASE act[p] = "start"
      <3>1. rows[t].status \in {"idle", "stopped"} /\ rows'[t].status = "active"
        BY <2>1, <2>3 DEF Sources, Goal
      <3>2. ASSUME NEW j \in Interactions \ {t}
            PROVE  rows'[j].status = IF rows[j].status = "active" THEN "stopped"
                                     ELSE rows[j].status
        <4>1. CASE j \in wrote[p]
          <5>1. j = other[p]  BY <1>0, <4>1 DEF Planned, PlanOf
          <5> QED  BY <1>2, <4>1, <5>1 DEF Planned, PlanOf, IsActive
        <4>2. CASE j \notin wrote[p]
          <5>1. rows'[j] = rows[j]  BY <1>2, <4>2
          <5>2. rows[j].status # "active"
            BY <1>1, <3>1, <5>1 DEF OneActive, IsActive
          <5> QED  BY <5>1, <5>2
        <4> QED  BY <4>1, <4>2
      <3>3. /\ Board[t] \in {"idle", "stopped"}
            /\ Board' = [j \in Interactions |->
                           IF j = t THEN "active"
                           ELSE IF Board[j] = "active" THEN "stopped" ELSE Board[j]]
        BY <1>1, <1>3, <3>1, <3>2
      <3>4. Room!Start(t)
        BY <3>3 DEF Room!Start, Board
      <3> QED  BY <1>1, <3>4 DEF Room!Next
    <2>4. CASE act[p] # "start"
      <3>1. other[p] = None /\ wrote[p] = {t}
        BY <1>0, <1>1, <2>4, RoomAssumption DEF Planned, PlanOf, Typed, TypeOK
      <3>2. \A j \in Interactions \ {t} : rows'[j] = rows[j]
        BY <1>2, <3>1
      <3>3. Board' = [Board EXCEPT ![t] = Goal[act[p]]]
        BY <1>1, <1>3, <2>1, <3>2 DEF Board
      <3>4. act[p] = "unlock" => \A j \in Interactions \ {t} : Board[j] # "active"
        <4>1. act[p] = "unlock" => rows'[t].status = "active"
          BY <2>1 DEF Goal
        <4> QED  BY <1>1, <1>3, <3>2, <4>1 DEF OneActive, IsActive
      <3>5. Board[t] \in Sources[act[p]]
        BY <1>1, <1>3, <2>1
      <3>6. \/ act[p] = "lock" /\ Room!Lock(t)
            \/ act[p] = "unlock" /\ Room!Unlock(t)
            \/ act[p] = "stop" /\ Room!Stop(t)
            \/ act[p] = "reset" /\ Room!Reset(t)
        <4>1. CASE act[p] = "lock"
          <5>1. Sources[act[p]] = {"active"} /\ Goal[act[p]] = "locked"
            BY <4>1 DEF Sources, Goal
          <5>2. Room!Move(t, {"active"}, "locked")
            BY <3>3, <3>5, <5>1 DEF Room!Move, Board
          <5> QED  BY <4>1, <5>2 DEF Room!Lock
        <4>2. CASE act[p] = "unlock"
          <5>1. Sources[act[p]] = {"locked"} /\ Goal[act[p]] = "active"
            BY <4>2 DEF Sources, Goal
          <5>2. Room!Move(t, {"locked"}, "active")
            BY <3>3, <3>5, <5>1 DEF Room!Move, Board
          <5>3. Room!SlotFree(t)
            BY <3>4, <4>2 DEF Room!SlotFree, Board
          <5> QED  BY <4>2, <5>2, <5>3 DEF Room!Unlock
        <4>3. CASE act[p] = "stop"
          <5>1. Sources[act[p]] = {"active", "locked"} /\ Goal[act[p]] = "stopped"
            BY <4>3 DEF Sources, Goal
          <5>2. Room!Move(t, {"active", "locked"}, "stopped")
            BY <3>3, <3>5, <5>1 DEF Room!Move, Board
          <5> QED  BY <4>3, <5>2 DEF Room!Stop
        <4>4. CASE act[p] = "reset"
          <5>1. Sources[act[p]] = {"active", "locked", "stopped"} /\ Goal[act[p]] = "idle"
            BY <4>4 DEF Sources, Goal
          <5>2. Room!Move(t, {"active", "locked", "stopped"}, "idle")
            BY <3>3, <3>5, <5>1 DEF Room!Move, Board
          <5> QED  BY <4>4, <5>2 DEF Room!Reset
        <4> QED  BY <2>2, <2>4, <4>1, <4>2, <4>3, <4>4
      <3> QED  BY <1>1, <3>6 DEF Room!Next
    <2> QED  BY <2>3, <2>4
  <1> QED  BY <1>4, <1>5

LEMMA RoomStep ==
    ASSUME Typed, Slot, Held, Planned, [Next]_vars
    PROVE  [Room!Next]_Board
  <1>1. CASE rows' = rows
    BY <1>1 DEF Board
  <1>2. CASE rows' # rows
    <2>1. PICK p \in Req : Commit(p)
      BY <1>2, OnlyCommitWrites
    <2>2. OneActive'
      BY SlotNext DEF Slot
    <2> QED  BY <2>1, <2>2, CommitMoves
  <1> QED  BY <1>1, <1>2

(* While hosts send poll actions (POST /polls/{id}/actions) and no patches,    *)
(* each commit of each request is a start, lock, unlock, stop or reset of the  *)
(* atomic room, and no other step changes the board of statuses.               *)
THEOREM RoomImplemented ==
    ASSUME Acts \subseteq PollActs
    PROVE  Spec => RoomSpec
  <1>1. Planned /\ Typed /\ Slot /\ [Next]_vars => Planned'
    BY PlannedNext
  <1>2. Spec => [](Typed /\ Slot /\ Held /\ Planned)
    BY <1>1, TypedInit, TypedNext, SlotInit, SlotNext, HeldInit, HeldNext,
       PlannedInit, PTL DEF Spec
  <1>3. Typed /\ Slot /\ Held /\ Planned /\ [Next]_vars => [Room!Next]_Board
    BY RoomStep
  <1> QED  BY <1>2, <1>3, RoomInit, PTL DEF Spec, RoomSpec, Room!Spec, Board

-----------------------------------------------------------------------------
(* What the viewers are told, while requests come one at a time.               *)

(* The stages of a request that runs alone: it has decided, and its transaction *)
(* is open; or it has committed, and its hooks still publish.                  *)
Decided(p) ==
    \/ pc[p] \in {"update", "index", "commit"}
    \/ pc[p] = "release" /\ failure[p] = "none" /\ act[p] \in PollActs
Committed(p) ==
    \/ pc[p] = "publish"
    \/ pc[p] = "release" /\ failure[p] = "none" /\ act[p] \notin PollActs

SoloActs == PollActs \cup {"patch_active"}

(* It serves a poll action or a patch that opens; it writes its target and the *)
(* interaction it displaces; before it commits both have the status its events *)
(* will tell.                                                                  *)
SoloWork(p) ==
    /\ pc[p] # "idle" => act[p] \in SoloActs
    /\ pc[p] \in {"idle", "lock", "find"} => other[p] = None
    /\ pc[p] \in {"lock", "find", "stop_other"} => wrote[p] = {}
    /\ pc[p] \in {"find", "stop_other"} => act[p] \in Opening
    /\ other[p] # None => act[p] \in Opening /\ other[p] \in Interactions \ {tgt[p]}
    /\ act[p] = "patch_active" => ~ IsActive(seen[p])
    /\ pc[p] \notin {"release", "rollback"} => failure[p] = "none"
    /\ pc[p] = "rollback" => failure[p] # "none"
SoloRows(p) ==
    /\ wrote[p] \subseteq {tgt[p], other[p]}
    /\ tgt[p] \in wrote[p] =>
          draft[p][tgt[p]].status =
             IF act[p] \in {"reveal", "hide"} THEN rows[tgt[p]].status ELSE Goal[act[p]]
    /\ other[p] \in wrote[p] => draft[p][other[p]].status = "stopped"
    /\ Decided(p) /\ other[p] # None => other[p] \in wrote[p]

(* A patch told of the displaced poll before it writes it: no other interaction *)
(* can be running that would make it fail.                                     *)
SoloOpens(p) ==
    act[p] = "patch_active" /\ pc[p] \in {"stop_other", "update", "index"} =>
       \A j \in Interactions \ {tgt[p], other[p]} : ~ IsActive(rows[j])
ToldEarly(p, i) ==
    /\ act[p] = "patch_active" /\ pc[p] \in {"stop_other", "update", "index", "commit"}
    /\ i = other[p]
SoloTold(p) ==
    /\ ~ Committed(p) => \A i \in Polls : 
          announced[i] = IF ToldEarly(p, i) THEN "stopped" ELSE rows[i].status
    /\ Committed(p) =>
          /\ \A k \in 1..Len(outbox[p]) : outbox[p][k][2] = rows[outbox[p][k][1]].status
          /\ \A i \in Polls : announced[i] = rows[i].status
                              \/ \E k \in 1..Len(outbox[p]) : outbox[p][k][1] = i

SoloOf(p) == SoloWork(p) /\ SoloRows(p) /\ SoloOpens(p) /\ SoloTold(p)
Solo == \A p \in Req : SoloOf(p)

(* One slot, no crash, no expiry, and of the patches the one that opens.        *)
OneByOne == (\E p : Req = {p}) /\ MaxFaults = 0 /\ Acts \subseteq SoloActs

LEMMA SoloInit == Init => Solo
  <1> SUFFICES ASSUME Init, NEW p \in Req PROVE SoloOf(p)
    BY DEF Solo
  <1>1. /\ pc[p] = "idle" /\ act[p] = "none" /\ tgt[p] = None /\ other[p] = None
        /\ wrote[p] = {} /\ failure[p] = "none"
    BY DEF Init
  <1>2. \A i \in Polls : announced[i] = rows[i].status
    BY RoomAssumption DEF Init, RoomAssumption
  <1>3. ~ Committed(p) /\ \A i \in Polls : ~ ToldEarly(p, i)
    BY <1>1 DEF Committed, ToldEarly
  <1>4. SoloWork(p) /\ SoloRows(p) /\ SoloOpens(p)
    BY <1>1 DEF SoloWork, SoloRows, SoloOpens, Decided
  <1> QED  BY <1>2, <1>3, <1>4 DEF SoloOf, SoloTold

LEMMA SoloStep ==
    ASSUME OneByOne, NEW p \in Req, SoloOf(p)'
    PROVE  Solo'
  BY DEF OneByOne, Solo

(* The status that the request's own update gives its target.                  *)
LEMMA NewStatus ==
    ASSUME Typed, NEW p \in Req, pc[p] # "idle", SoloWork(p)
    PROVE  NewRow(p).status =
              IF act[p] \in {"reveal", "hide"} THEN rows[tgt[p]].status ELSE Goal[act[p]]
  <1>1. act[p] \in SoloActs /\ rows[tgt[p]] \in Row
    BY DEF SoloWork, Typed, TypeOK, Working
  <1>2. act[p] \in PatchActs => act[p] = "patch_active" /\ Goal[act[p]] # seen[p].status
    BY <1>1 DEF SoloActs, PollActs, PatchActs, Goal, SoloWork, IsActive
  <1>3. CASE act[p] \in {"reveal", "hide"}
    BY <1>1, <1>3 DEF NewRow, Row
  <1>4. CASE act[p] \in PollActs \ {"reveal", "hide"}
    BY <1>4, GoalReached DEF Optimistic, Typed, Working
  <1>5. CASE act[p] = "patch_active"
    <2>1. NewRow(p) = [rows[tgt[p]] EXCEPT !.status = Goal[act[p]]]
      BY <1>2, <1>5 DEF NewRow, PatchActs
    <2>2. NewRow(p).status = Goal[act[p]]
      BY <1>1, <2>1 DEF Row
    <2> QED  BY <1>5, <2>2
  <1> QED  BY <1>1, <1>3, <1>4, <1>5 DEF SoloActs

(* A request that has ended left nothing to tell.                               *)
LEMMA SoloClose ==
    ASSUME OneByOne, Typed, Solo, NEW p \in Req, Close(p), UNCHANGED <<rows, announced>>,
           \A i \in Polls : announced[i] = rows[i].status
    PROVE  Solo'
  <1>1. /\ pc'[p] = "idle" /\ act'[p] = "none" /\ tgt'[p] = None /\ other'[p] = None
        /\ wrote'[p] = {} /\ failure'[p] = "none"
    BY DEF Close, EndTxn, Goto, Typed, TypeOK
  <1>2. \A i \in Polls : announced'[i] = rows'[i].status
    OBVIOUS
  <1>3. ~ Committed(p)' /\ \A i \in Polls : ~ ToldEarly(p, i)'
    BY <1>1 DEF Committed, ToldEarly
  <1>4. SoloWork(p)' /\ SoloRows(p)' /\ SoloOpens(p)'
    BY <1>1 DEF SoloWork, SoloRows, SoloOpens, Decided
  <1>5. SoloTold(p)'
    BY <1>2, <1>3 DEF SoloTold
  <1> QED  BY <1>4, <1>5, SoloStep DEF SoloOf

(* A request that fails has told nothing.                                       *)
LEMMA SoloRaise ==
    ASSUME OneByOne, Typed, Solo, NEW p \in Req, NEW error \in {"invalid", "error"},
           Raise(p, error), UNCHANGED txn \/ EndTxn(p), pc[p] # "idle", 
           \A i \in Polls : announced[i] = rows[i].status
    PROVE  Solo'
  <1>1. /\ pc'[p] \in {"release", "rollback"} /\ failure'[p] = error
        /\ UNCHANGED <<rows, act, tgt, seen, other, announced>>
    BY DEF Raise, Goto, request, Typed, TypeOK
  <1>2. wrote'[p] = {} \/ (wrote'[p] = wrote[p] /\ draft'[p] = draft[p])
    BY DEF EndTxn, txn, Typed, TypeOK
  <1>3. ~ Decided(p)' /\ ~ Committed(p)'
    BY <1>1 DEF Decided, Committed
  <1>4. SoloWork(p)'
    BY <1>1 DEF Solo, SoloOf, SoloWork, IsActive
  <1>5. SoloRows(p)'
    BY <1>1, <1>2, <1>3 DEF Solo, SoloOf, SoloRows
  <1>6. SoloOpens(p)' /\ \A i \in Polls : ~ ToldEarly(p, i)'
    BY <1>1 DEF SoloOpens, ToldEarly
  <1>7. SoloTold(p)'
    BY <1>1, <1>3, <1>6 DEF SoloTold
  <1> QED  BY <1>4, <1>5, <1>6, <1>7, SoloStep DEF SoloOf

(* A step of a request that changes none of its rows and tells nothing.        *)
LEMMA SoloQuiet ==
    ASSUME OneByOne, Typed, Solo, NEW p \in Req,
           AcquireLock(p) \/ EnterIndex(p) \/ Release(p)
    PROVE  Solo'
  <1>1. UNCHANGED <<rows, act, tgt, seen, other, wrote, draft, failure, outbox, announced>>
    BY DEF AcquireLock, EnterIndex, Release, request, txn
  <1>2. \/ pc[p] = "lock" /\ pc'[p] = IF act[p] \in Opening THEN "find" ELSE "update"
        \/ /\ pc[p] = "index"
           /\ pc'[p] = IF act[p] \in RoomLocked \cap PollActs THEN "release" ELSE "commit"
        \/ /\ pc[p] = "release"
           /\ pc'[p] = IF failure[p] # "none" THEN "rollback"
                       ELSE IF act[p] \in PollActs THEN "commit" ELSE "publish"
    BY DEF AcquireLock, EnterIndex, AfterUpdate, Release, Goto, Typed, TypeOK
  <1>3. SoloWork(p) /\ SoloRows(p) /\ SoloOpens(p) /\ SoloTold(p)
    BY DEF Solo, SoloOf
  <1>4. SoloWork(p)'
    BY <1>1, <1>2, <1>3 DEF SoloWork, IsActive
  <1>5. Committed(p)' <=> Committed(p)
    BY <1>2, <1>1, <1>3 DEF Committed, SoloWork
  <1>6. Decided(p)' => Decided(p) \/ other[p] = None
    BY <1>1, <1>2, <1>3 DEF Decided, SoloWork
  <1>7. SoloRows(p)'
    BY <1>1, <1>2, <1>3, <1>6 DEF SoloRows, SoloWork
  <1>8. SoloOpens(p)'
    BY <1>1, <1>2, <1>3 DEF SoloOpens, Opening, IsActive
  <1>9. \A i \in Polls : ToldEarly(p, i)' <=> ToldEarly(p, i)
    <2>1. \/ pc[p] \in {"lock", "release"} /\ pc'[p] \in {"find", "update", "rollback", "publish"}
             /\ (pc'[p] = "update" => act[p] # "patch_active")
          \/ pc[p] = "release" /\ pc'[p] = "commit" /\ act[p] \in PollActs
          \/ pc[p] = "index" /\ pc'[p] = "commit"
          \/ pc[p] = "index" /\ pc'[p] = "release" /\ act[p] \in PollActs
      BY <1>1, <1>2 DEF Opening
    <2> QED  BY <1>1, <2>1 DEF ToldEarly, PollActs
  <1>10. SoloTold(p)'
    BY <1>1, <1>3, <1>5, <1>9 DEF SoloTold
  <1> QED  BY <1>4, <1>7, <1>8, <1>10, SoloStep DEF SoloOf

LEMMA SoloLoad ==
    ASSUME OneByOne, Typed, Solo, NEW p \in Req, NEW a \in Acts, NEW i \in Interactions,
           Load(p, a, i)
    PROVE  Solo'
  <1>1. /\ pc[p] = "idle" /\ wrote[p] = {} /\ a \in SoloActs
        /\ SoloWork(p) /\ SoloTold(p) /\ ~ Committed(p)
    BY DEF Load, Accept, Typed, Working, OneByOne, Solo, SoloOf, Committed
  <1>2. /\ pc'[p] = IF a \in RoomLocked THEN "lock" ELSE "update"
        /\ act'[p] = a /\ tgt'[p] = i /\ seen'[p] = rows[i]
        /\ UNCHANGED <<rows, other, wrote, draft, failure, outbox, announced>>
    BY DEF Load, Goto, txn, Typed, TypeOK
  <1>3. a = "patch_active" => ~ IsActive(rows[i])
    BY DEF Load, Declined, PollActs
  <1>4. other'[p] = None /\ failure'[p] = "none" /\ pc'[p] \in {"lock", "update"}
        /\ (a = "patch_active" => pc'[p] = "lock")
    BY <1>1, <1>2 DEF SoloWork, RoomLocked
  <1>5. SoloWork(p)'
    BY <1>1, <1>2, <1>3, <1>4 DEF SoloWork, IsActive
  <1>6. SoloRows(p)' /\ SoloOpens(p)'
    BY <1>1, <1>2, <1>4 DEF SoloRows, SoloOpens
  <1>7. ~ Committed(p)' /\ \A j \in Polls : ~ ToldEarly(p, j) /\ ~ ToldEarly(p, j)'
    BY <1>1, <1>2, <1>4 DEF Committed, ToldEarly
  <1>8. SoloTold(p)'
    BY <1>1, <1>2, <1>7 DEF SoloTold
  <1> QED  BY <1>5, <1>6, <1>8, SoloStep DEF SoloOf

LEMMA SoloFind ==
    ASSUME OneByOne, Typed, Slot, Solo, NEW p \in Req, FindActive(p)
    PROVE  Solo'
  <1>1. /\ pc[p] = "find" /\ wrote[p] = {} /\ other[p] = None /\ act[p] \in Opening
        /\ SoloWork(p) /\ SoloTold(p) /\ ~ Committed(p)
        /\ \A j \in Polls : announced[j] = rows[j].status
    BY DEF FindActive, Solo, SoloOf, SoloWork, SoloTold, Committed, ToldEarly
  <1>2. UNCHANGED <<rows, act, tgt, seen, wrote, draft, failure, outbox>>
    BY DEF FindActive, request, txn
  <1>3. pc'[p] \in {"update", "stop_other"} /\ wrote'[p] = {}
    BY <1>1, <1>2 DEF FindActive, Goto, Typed, TypeOK
  <1>4. ~ Committed(p)'
    BY <1>3 DEF Committed
  <1> DEFINE running == {j \in Interactions \ {tgt[p]} : IsActive(rows[j])}
  <1>5. CASE running = {} /\ pc'[p] = "update" /\ UNCHANGED <<other, announced>>
    <2>1. SoloWork(p)'
      BY <1>1, <1>2, <1>5 DEF SoloWork, IsActive
    <2>2. SoloRows(p)'
      BY <1>1, <1>2, <1>5 DEF SoloRows
    <2>3. SoloOpens(p)'
      BY <1>2, <1>5 DEF SoloOpens, IsActive
    <2>4. \A i \in Polls : ~ ToldEarly(p, i)'
      BY <1>1, <1>5, RoomAssumption DEF ToldEarly, RoomAssumption
    <2>5. SoloTold(p)'
      BY <1>1, <1>2, <1>4, <1>5, <2>4 DEF SoloTold
    <2> QED  BY <2>1, <2>2, <2>3, <2>5, SoloStep DEF SoloOf
  <1>6. ASSUME NEW j \in running, other'[p] = j, pc'[p] = "stop_other",
               IF act[p] = "patch_active" /\ j \in Polls
               THEN announced' = [announced EXCEPT ![j] = "stopped"]
               ELSE UNCHANGED announced
        PROVE  Solo'
    <2>1. SoloWork(p)'
      BY <1>1, <1>2, <1>6 DEF SoloWork, IsActive
    <2>2. SoloRows(p)'
      BY <1>3, <1>6 DEF SoloRows, Decided
    <2>3. SoloOpens(p)'
      BY <1>2, <1>6 DEF SoloOpens, Slot, OneActive, IsActive
    <2>4. ASSUME NEW i \in Polls 
         PROVE  announced'[i] = IF ToldEarly(p, i)' THEN "stopped" ELSE rows'[i].status
      BY <1>1, <1>2, <1>6, RoomAssumption DEF ToldEarly, Typed, TypeOK, RoomAssumption
    <2>5. SoloTold(p)'
      BY <1>4, <2>4 DEF SoloTold
    <2> QED  BY <2>1, <2>2, <2>3, <2>5, SoloStep DEF SoloOf
  <1> QED  BY <1>5, <1>6 DEF FindActive, Goto, Typed, TypeOK

LEMMA SoloStop ==
    ASSUME OneByOne, Typed, Solo, NEW p \in Req, StopOther(p)
    PROVE  Solo'
  <1> DEFINE o == other[p]
  <1>1. /\ pc[p] = "stop_other" /\ wrote[p] = {} /\ act[p] \in Opening
        /\ o \in Interactions \ {tgt[p]} /\ rows[o] \in Row
        /\ SoloWork(p) /\ SoloOpens(p) /\ SoloTold(p) /\ ~ Committed(p)
    BY DEF StopOther, Solo, SoloOf, SoloWork, Committed, Typed, TypeOK, Working
  <1>2. /\ UNCHANGED <<rows, act, tgt, seen, other, failure, outbox, announced>>
        /\ wrote'[p] = {o} /\ draft'[p][o] = [rows[o] EXCEPT !.status = "stopped"]
        /\ pc'[p] = "update"
    BY <1>1 DEF StopOther, Write, Goto, request, Typed, TypeOK
  <1>3. draft'[p][o].status = "stopped"
    BY <1>1, <1>2 DEF Row
  <1>4. SoloWork(p)'
    BY <1>1, <1>2 DEF SoloWork, IsActive
  <1>5. SoloRows(p)'
    BY <1>1, <1>2, <1>3 DEF SoloRows
  <1>6. SoloOpens(p)'
    BY <1>1, <1>2 DEF SoloOpens, IsActive
  <1>7. ~ Committed(p)' /\ \A i \in Polls : ToldEarly(p, i)' <=> ToldEarly(p, i)
    BY <1>1, <1>2 DEF Committed, ToldEarly
  <1>8. SoloTold(p)'
    BY <1>1, <1>2, <1>7 DEF SoloTold
  <1> QED  BY <1>4, <1>5, <1>6, <1>8, SoloStep DEF SoloOf

LEMMA SoloUpdate ==
    ASSUME OneByOne, Typed, Solo, NEW p \in Req, Update(p)
    PROVE  Solo'
  <1> DEFINE t == tgt[p]
  <1>1. /\ pc[p] = "update" /\ t \in Interactions
        /\ SoloWork(p) /\ SoloRows(p) /\ SoloOpens(p) /\ SoloTold(p) /\ ~ Committed(p)
    BY DEF Update, Solo, SoloOf, Committed, Typed, Working
  <1>2. /\ UNCHANGED <<rows, act, tgt, seen, other, failure, outbox, announced>>
        /\ wrote'[p] = wrote[p] \cup {t} /\ draft'[p] = [draft[p] EXCEPT ![t] = NewRow(p)]
        /\ pc'[p] \in {"index", "release", "commit"}
        /\ pc'[p] = "release" => act[p] \in PollActs
    BY DEF Update, AfterUpdate, Write, Goto, request, Typed, TypeOK
  <1>3. /\ draft'[p][t].status =
              IF act[p] \in {"reveal", "hide"} THEN rows[t].status ELSE Goal[act[p]]
        /\ \A i \in Interactions \ {t} : draft'[p][i] = draft[p][i]
    BY <1>1, <1>2, NewStatus DEF Typed, TypeOK
  <1>4. SoloWork(p)'
    BY <1>1, <1>2 DEF SoloWork, IsActive
  <1>5. SoloRows(p)'
    <2>1. wrote[p] \subseteq Interactions
      BY DEF Typed, TypeOK
    <2>2. other[p] # None => other[p] \in wrote[p] /\ other[p] # t /\ other[p] \in Interactions
      BY <1>1 DEF SoloRows, SoloWork, Decided
    <2>3. other[p] \in wrote'[p] => draft'[p][other[p]].status = "stopped"
      BY <1>1, <1>2, <1>3, <2>1, <2>2, RoomAssumption DEF SoloRows, RoomAssumption
    <2> QED  BY <1>1, <1>2, <1>3, <2>2, <2>3 DEF SoloRows
  <1>6. SoloOpens(p)'
    BY <1>1, <1>2 DEF SoloOpens, IsActive
  <1>7. ~ Committed(p)' /\ \A i \in Polls : ToldEarly(p, i)' <=> ToldEarly(p, i)
    BY <1>1, <1>2 DEF Committed, ToldEarly, PollActs
  <1>8. SoloTold(p)'
    BY <1>1, <1>2, <1>7 DEF SoloTold
  <1> QED  BY <1>4, <1>5, <1>6, <1>8, SoloStep DEF SoloOf

(* The patch that opens never fails once it has told: no other row is active.  *)
LEMMA SoloFails ==
    ASSUME OneByOne, Typed, Solo, NEW p \in Req,
           \/ RefuseOpen(p) \/ StopOtherLost(p) \/ UpdateLost(p)
           \/ IndexViolation(p) \/ DeadlockVictim(p)
    PROVE  Solo'
  <1>0. SoloWork(p) /\ SoloRows(p) /\ SoloOpens(p) /\ SoloTold(p)
    BY DEF Solo, SoloOf
  <1>1. ~ DeadlockVictim(p)
    BY DEF DeadlockVictim, WaitsFor, OneByOne
  <1>2. PICK error \in {"invalid", "error"} :
           Raise(p, error) /\ (UNCHANGED txn \/ EndTxn(p))
    BY <1>1 DEF RefuseOpen, StopOtherLost, UpdateLost, IndexViolation
  <1>3. pc[p] \in {"find", "stop_other", "update", "index"}
    BY <1>1 DEF RefuseOpen, StopOtherLost, UpdateLost, IndexViolation
  <1>4. pc[p] = "find" \/ act[p] # "patch_active"
    <2>1. CASE RefuseOpen(p)
      BY <2>1 DEF RefuseOpen
    <2>2. CASE StopOtherLost(p) \/ UpdateLost(p)
      BY <2>2 DEF StopOtherLost, UpdateLost, Matches, Optimistic, PollActs
    <2>3. CASE IndexViolation(p) /\ act[p] = "patch_active"
      <3>1. PICK j \in Interactions \ {tgt[p]} : IsActive(View(p, j))
        BY <2>3 DEF IndexViolation, IndexTaken
      <3>2. CASE j = other[p]
        <4>1. j \in wrote[p] /\ draft[p][j].status = "stopped"
          <5>1. pc[p] = "index" /\ other[p] # None
            BY <2>3, <3>2, RoomAssumption DEF IndexViolation, RoomAssumption
          <5> QED  BY <1>0, <3>2, <5>1 DEF SoloRows, Decided
        <4> QED  BY <3>1, <4>1 DEF View, IsActive
      <3>3. CASE j # other[p]
        <4>1. j \notin wrote[p] /\ ~ IsActive(rows[j])
          BY <1>0, <2>3, <3>3 DEF SoloRows, SoloOpens, IndexViolation
        <4> QED  BY <3>1, <4>1 DEF View
      <3> QED  BY <3>2, <3>3
    <2> QED  BY <1>1, <2>1, <2>2, <2>3
  <1>5. \A i \in Polls : announced[i] = rows[i].status
    BY <1>0, <1>3, <1>4 DEF SoloTold, Committed, ToldEarly
  <1> QED  BY <1>2, <1>3, <1>5, SoloRaise

LEMMA TwoInARow ==
    ASSUME NEW a, NEW b
    PROVE  Len(<<a>> \o <<b>>) = 2 /\ (<<a>> \o <<b>>)[1] = a /\ (<<a>> \o <<b>>)[2] = b
  <1>1. <<a>> \in Seq({a, b}) /\ <<b>> \in Seq({a, b})
    OBVIOUS
  <1>2. Len(<<a>>) = 1 /\ Len(<<b>>) = 1 /\ <<a>>[1] = a /\ <<b>>[1] = b
    OBVIOUS
  <1>3. /\ Len(<<a>> \o <<b>>) = 1 + 1
        /\ \A i \in 1..(1 + 1) : (<<a>> \o <<b>>)[i] = IF i <= 1 THEN <<a>>[i] ELSE <<b>>[i - 1]
    <2>1. /\ Len(<<a>> \o <<b>>) = Len(<<a>>) + Len(<<b>>)
          /\ \A i \in 1..(Len(<<a>>) + Len(<<b>>)) :
                (<<a>> \o <<b>>)[i] =
                   IF i <= Len(<<a>>) THEN <<a>>[i] ELSE <<b>>[i - Len(<<a>>)]
      BY <1>1, ConcatProperties, Zenon
    <2> QED  BY <1>2, <2>1, Zenon
  <1>4. 1 \in 1..(1 + 1) /\ 2 \in 1..(1 + 1) /\ ~ 2 <= 1 /\ 2 - 1 = 1 /\ 1 + 1 = 2
    OBVIOUS
  <1>5. (<<a>> \o <<b>>)[1] = <<a>>[1] /\ (<<a>> \o <<b>>)[2] = <<b>>[1]
    <2> DEFINE w == <<a>> \o <<b>>
    <2> HIDE DEF w
    <2> QED BY <1>3, <1>4 DEF w
  <1> QED  BY <1>2, <1>3, <1>4, <1>5

(* The commit: the events are what the rows have become.                       *)
LEMMA SoloCommit ==
    ASSUME OneByOne, Typed, Held, Solo, NEW p \in Req, Commit(p)
    PROVE  Solo'
  <1> DEFINE t == tgt[p]
             o == other[p]
  <1>1. /\ pc[p] = "commit" /\ t \in wrote[p] /\ t \in Interactions
        /\ act[p] \in SoloActs /\ failure[p] = "none"
        /\ SoloWork(p) /\ SoloRows(p) /\ SoloTold(p) /\ ~ Committed(p)
    BY DEF Commit, Solo, SoloOf, SoloWork, Committed, Typed, TypeOK, Held, TargetHeld, Working
  <1>2. /\ UNCHANGED <<act, tgt, seen, other, failure, announced>>
        /\ rows' = [i \in Interactions |-> View(p, i)]
        /\ wrote'[p] = {} /\ outbox'[p] = Events(p)
        /\ pc'[p] = IF act[p] = "patch_active" THEN "release" ELSE "publish"
    BY DEF Commit, EndTxn, Goto, request, Typed, TypeOK
  <1>3. Committed(p)' /\ ~ Decided(p)'
    BY <1>1, <1>2 DEF Committed, Decided, PollActs
  <1>4. /\ rows'[t].status =
              IF act[p] \in {"reveal", "hide"} THEN rows[t].status ELSE Goal[act[p]]
        /\ o # None => o \in Interactions \ {t} /\ rows'[o].status = "stopped"
        /\ \A i \in Interactions \ {t, o} : rows'[i] = rows[i]
    BY <1>1, <1>2 DEF View, SoloRows, SoloWork, Decided
  <1>5. SoloWork(p)'
    BY <1>1, <1>2 DEF SoloWork, IsActive
  <1>6. SoloRows(p)' /\ SoloOpens(p)'
    BY <1>2, <1>3 DEF SoloRows, SoloOpens
  <1>7. \A i \in Polls : i \in Interactions /\ i # None
    BY RoomAssumption DEF RoomAssumption
  <1>8. o # None => act[p] \in {"start", "patch_active"}
    BY <1>1 DEF SoloWork, Opening
  <1>9. SoloTold(p)'
    <2>1. CASE act[p] = "start" /\ o # None
      <3>1. act[p] \notin {"stop", "lock", "unlock", "reset", "patch_active"}
        BY <2>1
      <3>b. outbox'[p] = << <<o, "stopped">> >> \o << <<t, "active">> >>
        BY <1>2, <2>1, <3>1 DEF Events
      <3>2. /\ Len(outbox'[p]) = 2 /\ outbox'[p][1] = <<o, "stopped">>
            /\ outbox'[p][2] = <<t, "active">>
        BY <3>b, TwoInARow
      <3>3. rows'[t].status = "active" /\ rows'[o].status = "stopped"
        BY <1>4, <2>1 DEF Goal
      <3>4. \A k \in 1..Len(outbox'[p]) : outbox'[p][k][2] = rows'[outbox'[p][k][1]].status
        BY <3>2, <3>3
      <3>5. \A i \in Polls : i \in {t, o} \/ announced'[i] = rows'[i].status
        BY <1>1, <1>2, <1>4, <1>7, <2>1 DEF SoloTold, ToldEarly
      <3>6. \A i \in Polls : announced'[i] = rows'[i].status
                             \/ \E k \in 1..Len(outbox'[p]) : outbox'[p][k][1] = i
        BY <3>2, <3>5
      <3> QED  BY <1>3, <3>4, <3>6 DEF SoloTold
    <2>2. CASE act[p] \in {"reveal", "hide"}
      <3>1. outbox'[p] = <<>> /\ o = None
        BY <1>2, <1>8, <2>2 DEF Events
      <3>2. \A i \in Polls : announced'[i] = rows'[i].status
        BY <1>1, <1>2, <1>4, <1>7, <2>2, <3>1 DEF SoloTold, ToldEarly
      <3> QED  BY <1>3, <3>1, <3>2 DEF SoloTold
    <2>3. CASE \/ act[p] \in {"stop", "lock", "unlock", "reset", "patch_active"}
               \/ act[p] = "start" /\ o = None
      <3>1. outbox'[p] = << <<t, Goal[act[p]]>> >>
        <4>1. CASE act[p] = "start" /\ o = None
          <5>1. act[p] \notin {"stop", "lock", "unlock", "reset", "patch_active"}
            BY <4>1
          <5>2. Events(p) = <<>> \o << <<t, "active">> >>
            BY <4>1, <5>1 DEF Events
          <5> QED  BY <1>2, <4>1, <5>2 DEF Goal
        <4>2. CASE act[p] # "start"
          BY <1>2, <2>3, <4>2 DEF Events
        <4> QED  BY <2>3, <4>1, <4>2
      <3>2. Len(outbox'[p]) = 1 /\ outbox'[p][1] = <<t, Goal[act[p]]>>
        BY <3>1
      <3>3. rows'[t].status = Goal[act[p]]
        BY <1>4, <2>3
      <3>4. \A k \in 1..Len(outbox'[p]) : outbox'[p][k][2] = rows'[outbox'[p][k][1]].status
        BY <3>2, <3>3
      <3>5. ASSUME NEW i \in Polls, i # t PROVE announced'[i] = rows'[i].status
        <4>1. CASE i = o
          <5>1. act[p] = "patch_active"
            BY <1>7, <1>8, <2>3, <4>1
          <5>2. announced[i] = "stopped" /\ rows'[i].status = "stopped"
            BY <1>1, <1>4, <1>7, <4>1, <5>1 DEF SoloTold, ToldEarly
          <5> QED  BY <1>2, <5>2
        <4>2. CASE i # o
          BY <1>1, <1>2, <1>4, <1>7, <3>5, <4>2 DEF SoloTold, ToldEarly
        <4> QED  BY <4>1, <4>2
      <3>6. \A i \in Polls : announced'[i] = rows'[i].status
                             \/ \E k \in 1..Len(outbox'[p]) : outbox'[p][k][1] = i
        BY <3>2, <3>5
      <3> QED  BY <1>3, <3>4, <3>6 DEF SoloTold
    <2> QED  BY <1>1, <2>1, <2>2, <2>3 DEF SoloActs, PollActs
  <1> QED  BY <1>5, <1>6, <1>9, SoloStep DEF SoloOf

LEMMA SoloPublish ==
    ASSUME OneByOne, Typed, Solo, NEW p \in Req, Publish(p)
    PROVE  Solo'
  <1> DEFINE q == outbox[p]
             e == Head(q)
  <1>1. /\ pc[p] = "publish" /\ q # <<>> /\ q \in Seq(Interactions \X Statuses)
        /\ SoloWork(p) /\ SoloRows(p) /\ SoloTold(p) /\ Committed(p)
    BY DEF Publish, Solo, SoloOf, Committed, Typed, TypeOK
  <1>2. /\ UNCHANGED <<rows, pc, act, tgt, seen, other, wrote, draft, failure>>
        /\ announced' = [announced EXCEPT ![e[1]] = e[2]] /\ outbox'[p] = Tail(q)
    BY DEF Publish, request, txn, Typed, TypeOK
  <1>3. /\ e = q[1] /\ Len(q) \in Nat /\ Len(q) >= 1 /\ Len(Tail(q)) = Len(q) - 1
        /\ \A k \in 1..(Len(q) - 1) : Tail(q)[k] = q[k + 1]
    BY <1>1
  <1>4. e[1] \in Interactions /\ e[2] = rows[e[1]].status
    BY <1>1, <1>3 DEF SoloTold
  <1>5. \A k \in 1..Len(outbox'[p]) : outbox'[p][k][2] = rows'[outbox'[p][k][1]].status
    <2> SUFFICES ASSUME NEW k \in 1..(Len(q) - 1)
                 PROVE  Tail(q)[k][2] = rows[Tail(q)[k][1]].status
      BY <1>2, <1>3
    <2>1. k + 1 \in 1..Len(q)
      BY <1>3
    <2> QED  BY <1>1, <1>3, <2>1 DEF SoloTold
  <1>6. ASSUME NEW i \in Polls
        PROVE  announced'[i] = rows'[i].status
               \/ \E k \in 1..Len(outbox'[p]) : outbox'[p][k][1] = i
    <2>1. i \in Interactions
      BY RoomAssumption DEF RoomAssumption
    <2>2. CASE e[1] = i
      BY <1>2, <1>4, <2>1, <2>2 DEF Typed, TypeOK
    <2>3. CASE e[1] # i /\ announced[i] = rows[i].status
      BY <1>2, <2>1, <2>3 DEF Typed, TypeOK
    <2>4. CASE e[1] # i /\ announced[i] # rows[i].status
      <3>1. PICK k \in 1..Len(q) : q[k][1] = i
        BY <1>1, <2>4 DEF SoloTold
      <3>2. k - 1 \in 1..(Len(q) - 1) /\ Tail(q)[k - 1] = q[k]
        BY <1>3, <2>4, <3>1
      <3> QED  BY <1>2, <1>3, <3>1, <3>2
    <2> QED  BY <2>2, <2>3, <2>4
  <1>7. SoloWork(p)'
    BY <1>1, <1>2 DEF SoloWork, IsActive
  <1>8. SoloRows(p)' /\ SoloOpens(p)'
    BY <1>1, <1>2 DEF SoloRows, SoloOpens, Decided
  <1>9. SoloTold(p)'
    BY <1>1, <1>2, <1>5, <1>6 DEF SoloTold, Committed
  <1> QED  BY <1>7, <1>8, <1>9, SoloStep DEF SoloOf

LEMMA SoloNext ==
    ASSUME OneByOne, Typed, Slot, Held, Solo, [Next]_vars
    PROVE  Solo'
  <1>1. ASSUME NEW p \in Req, NEW a \in Acts, NEW i \in Interactions, Decline(p, a, i)
        PROVE  Solo'
    BY <1>1 DEF Decline, request, txn, Solo, SoloOf, SoloWork, SoloRows, SoloOpens, SoloTold,
                Decided, Committed, ToldEarly, IsActive
  <1>2. ASSUME NEW p \in Req, LockBusy(p) \/ Rollback(p) \/ Finish(p)
        PROVE  Solo'
    <2>1. Close(p) /\ UNCHANGED <<rows, announced>>
      BY <1>2 DEF LockBusy, Rollback, Finish
    <2>2. \A i \in Polls : announced[i] = rows[i].status
      <3>1. CASE pc[p] \in {"lock", "rollback"}
        <4>1. ~ Committed(p) /\ \A i \in Polls : ~ ToldEarly(p, i)
          BY <3>1 DEF Committed, ToldEarly
        <4> QED  BY <4>1 DEF Solo, SoloOf, SoloTold
      <3>2. CASE pc[p] = "publish" /\ outbox[p] = <<>>
        BY <3>2 DEF Committed, Solo, SoloOf, SoloTold
      <3> QED  BY <1>2, <3>1, <3>2 DEF LockBusy, Rollback, Finish
    <2> QED  BY <2>1, <2>2, SoloClose
  <1>3. ASSUME LockExpires \/ \E p \in Req : Crash(p) PROVE Solo'
    BY <1>3 DEF LockExpires, Crash, Fault, OneByOne, Typed, TypeOK
  <1>4. CASE UNCHANGED vars
    BY <1>4 DEF vars, Solo, SoloOf, SoloWork, SoloRows, SoloOpens, SoloTold, Decided,
                Committed, ToldEarly, IsActive
  <1>5. ASSUME NEW p \in Req, Serve(p) PROVE Solo'
    BY <1>2, <1>5, SoloQuiet, SoloFind, SoloStop, SoloUpdate, SoloFails, SoloCommit,
       SoloPublish DEF Serve
  <1> QED  BY <1>1, <1>3, <1>4, <1>5, SoloLoad DEF Next

(* While requests come one at a time, none crashes, and of the patches only the *)
(* one that opens an interaction is sent, the viewers are told every status a   *)
(* request leaves behind, the one of the poll it displaced included             *)
(* (execute_poll_action and update_interaction with their post-commit hooks).   *)
THEOREM ToldWhenQuiet ==
    ASSUME OneByOne
    PROVE  Spec => []AnnouncedWhenQuiet
  <1>1. Typed /\ Slot /\ Held /\ Solo /\ [Next]_vars => Solo'
    BY SoloNext
  <1>2. Spec => [](Typed /\ Slot /\ Held /\ Solo)
    BY <1>1, TypedInit, TypedNext, SlotInit, SlotNext, HeldInit, HeldNext, SoloInit,
       PTL DEF Spec
  <1>3. Solo => AnnouncedWhenQuiet
    BY DEF OneByOne, Solo, SoloOf, SoloTold, Committed, ToldEarly, AnnouncedWhenQuiet
  <1> QED  BY <1>2, <1>3, PTL
=============================================================================
