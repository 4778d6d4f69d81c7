-------------------------- MODULE WorkbenchProofs --------------------------
(* What the host's workbench keeps of its list, its items and the buttons of its      *)
(* selected poll, for any items, names, orders, hosts, requests and bounds.  The other *)
(* parts of the host's pages, and their theorems, are in HostPagesProofs.              *)
EXTENDS HostPages, FiniteSetTheorems, FunctionTheorems, SequenceTheorems, TLAPS

-----------------------------------------------------------------------------
(* The workbench.                                                              *)
(* Lists: a row put elsewhere, and a row taken out, leave a list of items.          *)
LEMMA RemovedSeq ==
    ASSUME NEW X, NEW s \in Seq(X), NEW n \in 1 .. Len(s)
    PROVE  W!RemoveAt(s, n) \in Seq(X) /\ Len(W!RemoveAt(s, n)) = Len(s) - 1
<1>1. Len(s) \in Nat /\ n \in Int /\ \A i \in 1 .. Len(s) : s[i] \in X
  BY LenProperties, ElementOfSeq
<1>2. SubSeq(s, 1, n - 1) \in Seq(X) /\ Len(SubSeq(s, 1, n - 1)) = n - 1
  BY <1>1, SubSeqProperties
<1>3. SubSeq(s, n + 1, Len(s)) \in Seq(X) /\ Len(SubSeq(s, n + 1, Len(s))) = Len(s) - n
  BY <1>1, SubSeqProperties
<1>4. W!RemoveAt(s, n) \in Seq(X) /\ Len(W!RemoveAt(s, n)) = (n - 1) + (Len(s) - n)
  <2>1. \A a, b \in Seq(X) : a \o b \in Seq(X) /\ Len(a \o b) = Len(a) + Len(b)
    BY ConcatProperties
  <2> QED BY <1>2, <1>3, <2>1, Zenon DEF W!RemoveAt
<1> QED BY <1>1, <1>4

LEMMA InsertedSeq ==
    ASSUME NEW X, NEW s \in Seq(X), NEW n \in 1 .. Len(s) + 1, NEW e \in X
    PROVE  W!InsertAt(s, n, e) \in Seq(X)
<1>1. Len(s) \in Nat /\ n \in Int /\ \A i \in 1 .. Len(s) : s[i] \in X
  BY LenProperties, ElementOfSeq
<1>2. SubSeq(s, 1, n - 1) \in Seq(X) /\ SubSeq(s, n, Len(s)) \in Seq(X)
  BY <1>1, SubSeqProperties
<1>3. <<e>> \in Seq(X)
  OBVIOUS
<1>4. SubSeq(s, 1, n - 1) \o <<e>> \in Seq(X)
  BY <1>2, <1>3, ConcatProperties
<1>5. (SubSeq(s, 1, n - 1) \o <<e>>) \o SubSeq(s, n, Len(s)) \in Seq(X)
  BY <1>2, <1>4, ConcatProperties
<1> QED BY <1>5 DEF W!InsertAt

LEMMA RearrangedSeq ==
    ASSUME NEW X, NEW s \in Seq(X), NEW from \in DOMAIN s, NEW to \in DOMAIN s
    PROVE  W!Rearranged(s, from, to) \in Seq(X)
<1>1. DOMAIN s = 1 .. Len(s) /\ Len(s) \in Nat
  BY LenProperties
<1>2. W!RemoveAt(s, from) \in Seq(X) /\ Len(W!RemoveAt(s, from)) = Len(s) - 1
  BY <1>1, RemovedSeq
<1>3. to \in 1 .. Len(W!RemoveAt(s, from)) + 1
  BY <1>1, <1>2
<1>4. s[from] \in X
  BY <1>1, ElementOfSeq
<1> QED BY <1>2, <1>3, <1>4, InsertedSeq DEF W!Rearranged

LEMMA MovedSeq ==
    ASSUME NEW X, W!Shown \in Seq(X), NEW from \in DOMAIN W!Shown, NEW to \in DOMAIN W!Shown
    PROVE  W!Moved(from, to) \in Seq(X)
BY RearrangedSeq DEF W!Moved

LEMMA WithoutSeq ==
    ASSUME NEW X, NEW s \in Seq(X), NEW i
    PROVE  W!Without(s, i) \in Seq(X)
<1>1. CASE W!Contains(s, i)
  <2>1. DOMAIN s = 1 .. Len(s)
    BY LenProperties
  <2>2. W!Position(s, i) \in 1 .. Len(s)
    BY <1>1, <2>1 DEF W!Contains, W!Position
  <2> QED BY <1>1, <2>2, RemovedSeq DEF W!Without
<1>2. CASE ~ W!Contains(s, i)
  BY <1>2 DEF W!Without
<1> QED BY <1>1, <1>2

LEMMA SameItems ==
    ASSUME NEW X, NEW s \in Seq(X), NEW t \in Seq(X), W!ToSet(s) = W!ToSet(t), NEW i, W!Contains(s, i)
    PROVE  W!Contains(t, i)
<1>1. DOMAIN s = 1 .. Len(s) /\ DOMAIN t = 1 .. Len(t)
  BY LenProperties
<1>2. i \in W!ToSet(s)
  BY <1>1 DEF W!Contains, W!ToSet
<1> QED BY <1>1, <1>2 DEF W!Contains, W!ToSet

LEMMA ListedItem ==
    ASSUME NEW X, NEW s \in Seq(X), NEW i, W!Contains(s, i) PROVE i \in X
BY ElementOfSeq DEF W!Contains

(* The query of the list.                                                        *)
ListOK(q) == q \in W!Queries(W!Lists) /\ q.data \in W!Lists /\ (q.fetch = "answered" => q.reply \in W!Lists)

LEMMA ListMoves ==
    ASSUME NEW q, ListOK(q)
    PROVE  /\ ListOK(W!Fetched(q)) /\ ListOK(W!Refetched(q)) /\ ListOK(W!Cancelled(q))
           /\ ListOK(W!GivenUp(q))
           /\ q.fetch = "answered" => ListOK(W!Stored(q))
           /\ \A d \in W!Lists : ListOK(W!Written(q, d)) /\ ListOK(W!Answered(q, d))
<1> USE DEF W!Queries, W!Fetches, ListOK
<1> HIDE DEF W!Lists
<1>1. ListOK(W!Fetched(q))
  BY DEF W!Fetched
<1>2. ListOK(W!Refetched(q))
  BY DEF W!Refetched
<1>3. ListOK(W!Cancelled(q))
  BY DEF W!Cancelled
<1>4. q.fetch = "answered" => ListOK(W!Stored(q))
  BY DEF W!Stored
<1>5. ASSUME NEW d \in W!Lists PROVE ListOK(W!Written(q, d)) /\ ListOK(W!Answered(q, d))
  BY DEF W!Written, W!Answered
<1>6. ListOK(W!GivenUp(q))
  BY DEF W!GivenUp
<1> QED BY <1>1, <1>2, <1>3, <1>4, <1>5, <1>6

(* The items of the room, and the requests that are under way.                     *)
CallOK(r) ==
    /\ r \in W!Requests
    /\ r.kind = "poll" => r.item \in Polls /\ r.act \in W!PollActs
    /\ r.kind = "board" => r.item \in Boards /\ r.act \in W!BoardActs
    /\ r.kind \in {"create", "delete"} => r.item \in W!Items
    /\ r.kind = "reorder" => r.act \in Seq(W!Items) /\ r.before \in W!Lists

BenchShape ==
    /\ order \in Seq(W!Items) /\ board \in [W!Items -> W!Rows] /\ ListOK(list)
    /\ calls = [c \in Calls |-> calls[c]]
    /\ \A c \in Calls : calls[c] # NoData => CallOK(calls[c])

(* What a switch made at rest was to start runs, or the request that starts it is    *)
(* still to be served and will not be refused; nothing else is asked meanwhile but    *)
(* to reorder the list and, for a first start, to go live.                          *)
ServesNext(c)      == calls[c] # NoData /\ calls[c].at = "asked"
OpensIt(r, i) == r.item = i /\ \/ r.kind = "board" /\ r.act = "active"
                               \/ r.kind = "poll" /\ r.act = "start"
KeptFor(i) ==
    /\ i \in W!Items
    /\ \A c \in Calls : ServesNext(c) => calls[c].kind \in {"reorder", "golive"} \/ OpensIt(calls[c], i)
    /\ \/ board[i].status = "active"
       \/ /\ board[i].status \in {"idle", "stopped"} /\ W!Contains(order, i)
          /\ \E c \in Calls : ServesNext(c) /\ OpensIt(calls[c], i)
PromiseInv == promised.item # none /\ ~ promised.unlocks => KeptFor(promised.item)

BenchInv == BenchShape /\ PromiseInv

LEMMA BenchInit == W!Init => BenchInv
<1> SUFFICES ASSUME W!Init PROVE BenchInv
  OBVIOUS
<1>1. PICK case \in WorkbenchCases :
         /\ order = case.order
         /\ board = [i \in W!Items |-> [status |-> case.status[i], shown |-> FALSE]]
         /\ list = W!Written(W!Unused, W!Listing) /\ calls = [c \in Calls |-> NoData]
         /\ promised = W!NoPromise
  BY DEF W!Init
<1>2. case.order \in Seq(W!Items) /\ case.status \in [W!Items -> W!Status]
  BY PartsAssumption DEF PartsAssumption, W!WorkbenchAssumption
<1>3. board \in [W!Items -> W!Rows]
  BY <1>1, <1>2 DEF W!Rows
<1>4. W!Listing \in W!Lists
  BY <1>1, <1>2 DEF W!Listing, W!Lists
<1>5. ListOK(list)
  <2> HIDE DEF W!Lists, W!Listing
  <2> QED BY <1>1, <1>4 DEF ListOK, W!Queries, W!Fetches, W!Written, W!Unused
<1> QED BY <1>1, <1>2, <1>3, <1>5 DEF BenchInv, BenchShape, PromiseInv, W!NoPromise

LEMMA ListingOK == ASSUME BenchShape PROVE W!Listing \in W!Lists
BY DEF BenchShape, W!Listing, W!Lists, W!Rows

LEMMA ShownSeq == ASSUME BenchShape PROVE W!Shown \in Seq(W!Items)
BY DEF BenchShape, ListOK, W!Lists, W!Shown

(* The calls of Send and Ended.                                                  *)
LEMMA SendShape ==
    ASSUME BenchShape, NEW r, CallOK(r), W!Send(r), UNCHANGED <<order, board>>, ListOK(list')
    PROVE  BenchShape'
BY DEF BenchShape, W!Send, CallOK

LEMMA NewCallOK ==
    /\ \A act \in {"live", "ended"} : \A kind \in {"session", "golive"} : CallOK(W!NewCall(kind, none, act))
    /\ \A i \in W!Items : CallOK(W!NewCall("delete", i, "delete"))
    /\ \A i \in Polls, act \in W!PollActs : CallOK(W!NewCall("poll", i, act))
    /\ \A i \in Boards, act \in W!BoardActs : CallOK(W!NewCall("board", i, act))
    /\ \A i \in W!Items : CallOK(W!NewCall("create", i, "create"))
    /\ \A act \in Seq(W!Items), d \in W!Lists :
         CallOK([W!NewCall("reorder", none, act) EXCEPT !.before = d])
<1> USE DEF CallOK, W!NewCall, W!Kinds, W!Requests
<1>1. \A act \in {"live", "ended"} : \A kind \in {"session", "golive"} : CallOK(W!NewCall(kind, none, act))
  OBVIOUS
<1>2. \A i \in W!Items : CallOK(W!NewCall("delete", i, "delete")) /\ CallOK(W!NewCall("create", i, "create"))
  OBVIOUS
<1>3. \A i \in Polls, act \in W!PollActs : CallOK(W!NewCall("poll", i, act))
  BY DEF W!Items
<1>4. \A i \in Boards, act \in W!BoardActs : CallOK(W!NewCall("board", i, act))
  BY DEF W!Items
<1>5. \A act \in Seq(W!Items), d \in W!Lists :
         CallOK([W!NewCall("reorder", none, act) EXCEPT !.before = d])
  OBVIOUS
<1> QED BY <1>1, <1>2, <1>3, <1>4, <1>5

LEMMA CallIs == ASSUME NEW r, CallOK(r)
    PROVE r # NoData /\ r.kind \in W!Kinds /\ {"at", "reply"} \subseteq DOMAIN r
BY PartsAssumption DEF PartsAssumption, W!WorkbenchAssumption, CallOK, W!Requests

LEMMA OpensOK == ASSUME NEW i \in W!Items PROVE CallOK(W!Opens(i))
<1>1. CASE i \in Boards
  BY <1>1, NewCallOK DEF W!Opens, W!BoardActs
<1>2. CASE i \notin Boards
  BY <1>2, NewCallOK DEF W!Opens, W!PollActs, W!Items
<1> QED BY <1>1, <1>2

LEMMA SelectShape ==
    ASSUME BenchShape, NEW i, NEW fresh, W!SelectItem(i, fresh)
    PROVE BenchShape'
<1>1. i \in W!Items
  BY ShownSeq, ListedItem DEF W!SelectItem
<1>2. order' = order /\ board' = board /\ list' = list
  BY DEF W!SelectItem, W!server
<1>3. CASE W!StartsOnSwitch(i)
  BY <1>1, <1>2, <1>3, OpensOK, SendShape DEF W!SelectItem, BenchShape
<1>4. CASE ~ W!StartsOnSwitch(i)
  BY <1>2, <1>4 DEF W!SelectItem, BenchShape, W!wire, CallOK
<1> QED BY <1>3, <1>4

LEMMA PressShape == ASSUME BenchShape, NEW r, CallOK(r), W!Presses(r) PROVE BenchShape'
BY SendShape DEF W!Presses, W!server, W!cache, BenchShape

LEMMA HostShape == ASSUME BenchShape, W!Host PROVE BenchShape'
<1>1. ASSUME NEW i, NEW fresh, W!SelectItem(i, fresh) PROVE BenchShape'
  BY <1>1, SelectShape
<1>2. ASSUME NEW step, NEW fresh, W!GoBy(step, fresh) PROVE BenchShape'
  BY <1>2, SelectShape DEF W!GoBy
<1>3. CASE W!ToggleAuto
  BY <1>3 DEF W!ToggleAuto, BenchShape, W!server, W!cache, W!wire, CallOK
<1>4. ASSUME NEW act \in W!PollActs, W!PressPoll(act) PROVE BenchShape'
  BY <1>4, NewCallOK, PressShape DEF W!PressPoll, W!Items
<1>5. CASE W!PressBoard
  BY <1>5, NewCallOK, PressShape DEF W!PressBoard, W!Items, W!BoardActs
<1>6. CASE W!PressSession
  BY <1>6, NewCallOK, PressShape DEF W!PressSession
<1>7. ASSUME NEW from \in DOMAIN W!Shown, NEW to \in DOMAIN W!Shown, W!Reorder(from, to)
      PROVE BenchShape'
  <2>1. W!Moved(from, to) \in Seq(W!Items) /\ list.data \in W!Lists /\ ListOK(list)
    BY ShownSeq, MovedSeq DEF BenchShape, ListOK
  <2>2. [list.data EXCEPT !.order = W!Moved(from, to)] \in W!Lists
    BY <2>1 DEF W!Lists
  <2>3. ListOK(W!Written(W!Cancelled(list), [list.data EXCEPT !.order = W!Moved(from, to)]))
    <3> HIDE DEF W!Lists
    <3> QED BY <2>1, <2>2, ListMoves
  <2>4. CallOK([W!NewCall("reorder", none, W!Moved(from, to)) EXCEPT !.before = list.data])
    BY <2>1, NewCallOK
  <2> QED BY <1>7, <2>3, <2>4, SendShape DEF W!Reorder, W!server
<1>8. ASSUME NEW i \in W!Items, W!Create(i) PROVE BenchShape'
  BY <1>8, NewCallOK, SendShape DEF W!Create, W!server, W!cache, BenchShape
<1>9. CASE W!Delete
  <2>1. W!Current \in W!Items
    BY <1>9, ShownSeq, ListedItem DEF W!Delete, W!Current
  <2> QED BY <1>9, <2>1, NewCallOK, SendShape DEF W!Delete, W!server, W!cache, BenchShape
<1> QED BY <1>1, <1>2, <1>3, <1>4, <1>5, <1>6, <1>7, <1>8, <1>9 DEF W!Host

(* The server.                                                                   *)
LEMMA ActedType ==
    ASSUME BenchShape, NEW r, CallOK(r), r.kind \in {"poll", "board"}
    PROVE  W!Acted(r) \in [W!Items -> W!Rows]
<1>1. r.act \in W!PollActs \cup W!BoardActs
  BY DEF CallOK
<1>2. ASSUME NEW i \in W!Items PROVE W!Acted(r)[i] \in W!Rows
  <2>1. board[i] \in W!Rows
    BY DEF BenchShape
  <2>2. CASE i = r.item /\ r.act \in {"reveal", "hide"}
    <3>1. W!Acted(r)[i] = [board[i] EXCEPT !.shown = r.act = "reveal"]
      BY <2>2 DEF W!Acted
    <3> QED BY <2>1, <3>1 DEF W!Rows
  <2>3. CASE i = r.item /\ r.act \in {"start", "reset"}
    <3>1. W!Acted(r)[i] = [status |-> W!Goal[r.act], shown |-> FALSE]
      BY <2>3 DEF W!Acted
    <3>2. W!Goal[r.act] \in W!Status
      BY <2>3 DEF W!Goal, W!Status
    <3> QED BY <3>1, <3>2 DEF W!Rows
  <2>4. CASE i = r.item /\ r.act \notin {"start", "reset", "reveal", "hide"}
    <3>1. W!Acted(r)[i] = [board[i] EXCEPT !.status = W!Goal[r.act]]
      BY <2>4 DEF W!Acted
    <3>2. W!Goal[r.act] \in W!Status
      BY <1>1, <2>4 DEF W!Goal, W!Status, W!PollActs, W!BoardActs
    <3> QED BY <2>1, <3>1, <3>2 DEF W!Rows
  <2>5. CASE i # r.item
    <3>1. W!Acted(r)[i] \in {board[i], [board[i] EXCEPT !.status = "stopped"]}
      BY <2>5 DEF W!Acted
    <3> QED BY <2>1, <3>1 DEF W!Rows, W!Status
  <2> QED BY <2>2, <2>3, <2>4, <2>5
<1> QED BY <1>2 DEF W!Acted

LEMMA AppliesShape ==
    ASSUME BenchShape, NEW r, CallOK(r), NEW mine, W!Applies(r, mine)
    PROVE  order' \in Seq(W!Items) /\ board' \in [W!Items -> W!Rows]
<1>1. CASE r.kind \in {"poll", "board"}
  <2>1. board' = W!Acted(r) /\ order' = order
    BY <1>1 DEF W!Applies
  <2> QED BY <1>1, <2>1, ActedType DEF BenchShape
<1>2. CASE r.kind \in {"session", "golive"}
  BY <1>2 DEF W!Applies, BenchShape
<1>3. CASE r.kind = "reorder"
  BY <1>3 DEF W!Applies, BenchShape, CallOK
<1>4. CASE r.kind = "create"
  <2>1. order' = Append(order, r.item) /\ board' = board /\ r.item \in W!Items
    BY <1>4 DEF W!Applies, CallOK
  <2> QED BY <2>1, AppendProperties DEF BenchShape
<1>5. CASE r.kind = "delete"
  <2>1. order' = W!Without(order, r.item) /\ board' = board
    BY <1>5 DEF W!Applies
  <2> QED BY <2>1, WithoutSeq DEF BenchShape
<1> QED BY <1>1, <1>2, <1>3, <1>4, <1>5 DEF CallOK, W!Requests, W!Kinds

LEMMA CallMoves ==
    ASSUME NEW r, CallOK(r), NEW x \in W!Rows \cup {NoData}
    PROVE  /\ CallOK([r EXCEPT !.at = "failed"])
           /\ CallOK([[r EXCEPT !.at = "done"] EXCEPT !.reply = x])
<1> USE DEF CallOK, W!Requests
<1> HIDE DEF W!Rows, W!Lists
<1>1. CallOK([r EXCEPT !.at = "failed"])
  OBVIOUS
<1>2. CallOK([[r EXCEPT !.at = "done"] EXCEPT !.reply = x])
  OBVIOUS
<1> QED BY <1>1, <1>2

LEMMA ServeShape == ASSUME BenchShape, NEW c \in Calls, W!Serve(c) PROVE BenchShape'
<1>1. list' = list /\ calls[c] # NoData /\ CallOK(calls[c])
  BY DEF W!Serve, W!cache, BenchShape
<1>2. order' \in Seq(W!Items) /\ board' \in [W!Items -> W!Rows]
  <2>1. CASE W!Refused(calls[c])
    BY <2>1 DEF W!Serve, W!server, BenchShape
  <2>2. CASE ~ W!Refused(calls[c])
    BY <1>1, <2>2, AppliesShape DEF W!Serve
  <2> QED BY <2>1, <2>2
<1>3. PICK r : calls' = [calls EXCEPT ![c] = r] /\ CallOK(r)
  <2>1. CASE W!Refused(calls[c])
    <3>1. calls' = [calls EXCEPT ![c] = [@ EXCEPT !.at = "failed"]]
      BY <2>1 DEF W!Serve
    <3>2. CallOK([calls[c] EXCEPT !.at = "failed"])
      BY <1>1, CallMoves
    <3> QED BY <3>1, <3>2 DEF BenchShape
  <2>2. CASE ~ W!Refused(calls[c])
    <3>1. PICK x : /\ calls' = [calls EXCEPT ![c].at = "done", ![c].reply = x]
                   /\ x = IF calls[c].kind = "poll" THEN board'[calls[c].item] ELSE NoData
      BY <2>2 DEF W!Serve
    <3>2. calls' = [calls EXCEPT ![c] = [[@ EXCEPT !.at = "done"] EXCEPT !.reply = x]]
      BY <3>1 DEF BenchShape
    <3>3. x \in W!Rows \cup {NoData}
      BY <1>1, <1>2, <3>1 DEF CallOK, W!Items
    <3>4. CallOK([[calls[c] EXCEPT !.at = "done"] EXCEPT !.reply = x])
      BY <1>1, <3>3, CallMoves
    <3> QED BY <3>2, <3>4 DEF BenchShape
  <2> QED BY <2>1, <2>2
<1> QED BY <1>1, <1>2, <1>3 DEF BenchShape

LEMMA RivalShape ==
    ASSUME BenchShape, NEW kind \in {"poll", "board"}, NEW i, NEW act, W!Rival(kind, i, act),
           CallOK(W!NewCall(kind, i, act))
    PROVE  BenchShape'
<1>1. order' \in Seq(W!Items) /\ board' \in [W!Items -> W!Rows]
  BY AppliesShape DEF W!Rival
<1> QED BY <1>1 DEF W!Rival, BenchShape, W!wire, W!cache

(* What another host does: a button, or an edit of the list.                         *)
Buttoned(kind, i, act) ==
    kind \in {"poll", "board"} /\ W!Rival(kind, i, act) /\ CallOK(W!NewCall(kind, i, act))
Edited(kind, i, act) ==
    /\ W!Rival(kind, i, act)
    /\ \/ kind = "create" /\ i \in W!Items /\ W!Fresh(i)
       \/ kind = "delete" /\ i \in W!Items
       \/ kind = "reorder" /\ \E from, to \in DOMAIN order : act = W!Rearranged(order, from, to)

LEMMA OthersAre ==
    ASSUME BenchShape, W!Others
    PROVE  \E kind, i, act : Buttoned(kind, i, act) \/ Edited(kind, i, act)
<1>1. ASSUME NEW p \in Polls, NEW act \in W!PollActs, W!Rival("poll", p, act)
      PROVE  Buttoned("poll", p, act)
  BY <1>1, NewCallOK DEF Buttoned
<1>2. ASSUME NEW b \in Boards, NEW act \in W!BoardActs, W!Rival("board", b, act)
      PROVE  Buttoned("board", b, act)
  BY <1>2, NewCallOK DEF Buttoned
<1>3. ASSUME NEW i \in W!Items, W!Fresh(i), W!Rival("create", i, "create")
      PROVE  Edited("create", i, "create")
  BY <1>3 DEF Edited
<1>4. ASSUME NEW i \in W!ToSet(order), W!Rival("delete", i, "delete")
      PROVE  Edited("delete", i, "delete")
  <2>1. i \in W!Items
    BY LenProperties, ElementOfSeq DEF BenchShape, W!ToSet
  <2> QED BY <1>4, <2>1 DEF Edited
<1>5. ASSUME NEW from \in DOMAIN order, NEW to \in DOMAIN order,
             W!Rival("reorder", none, W!Rearranged(order, from, to))
      PROVE  Edited("reorder", none, W!Rearranged(order, from, to))
  BY <1>5 DEF Edited
<1> QED BY <1>1, <1>2, <1>3, <1>4, <1>5 DEF W!Others

LEMMA EditsDo ==
    ASSUME BenchShape, NEW kind, NEW i, NEW act, Edited(kind, i, act)
    PROVE  /\ UNCHANGED <<board, told, list, bench, selected, calls, newest, guard>>
           /\ promised' = W!NoPromise /\ order' \in Seq(W!Items)
           /\ missed' = IF list.fetch # "asked" THEN missed \cup {none} ELSE missed
           /\ gone' \subseteq gone \cup W!Items
<1>1. PICK r : r = W!NewCall(kind, i, act)
  OBVIOUS
<1>2. r.kind = kind /\ r.item = i /\ r.act = act
  BY <1>1 DEF W!NewCall
<1>3. kind \in {"create", "delete", "reorder"} /\ order \in Seq(W!Items)
  BY DEF Edited, BenchShape
<1>4. /\ W!Applies(r, FALSE) /\ UNCHANGED <<list, bench, selected, calls, newest, guard>>
      /\ promised' = W!NoPromise
      /\ missed' = IF list.fetch # "asked" THEN missed \cup {none} ELSE missed
  BY <1>1, <1>3 DEF Edited, W!Rival, W!EditsList, W!cache, W!place, W!wire
<1>5. CASE kind = "create"
  <2>1. order' = Append(order, i) /\ i \in W!Items /\ UNCHANGED <<board, told, gone>>
    BY <1>2, <1>4, <1>5 DEF W!Applies, Edited
  <2> QED BY <1>3, <1>4, <2>1, AppendProperties
<1>6. CASE kind = "delete"
  <2>1. order' = W!Without(order, i) /\ i \in W!Items /\ gone' = gone \cup {i} /\ UNCHANGED <<board, told>>
    BY <1>2, <1>4, <1>6 DEF W!Applies, Edited
  <2> QED BY <1>3, <1>4, <2>1, WithoutSeq
<1>7. CASE kind = "reorder"
  <2>1. order' = act /\ UNCHANGED <<board, told, gone>>
    BY <1>2, <1>4, <1>7 DEF W!Applies
  <2>2. act \in Seq(W!Items)
    BY <1>3, <1>7, RearrangedSeq DEF Edited
  <2> QED BY <1>4, <2>1, <2>2
<1> QED BY <1>3, <1>5, <1>6, <1>7

LEMMA EditsShape ==
    ASSUME BenchShape, NEW kind, NEW i, NEW act, Edited(kind, i, act) PROVE BenchShape'
BY EditsDo DEF BenchShape, CallOK

(* The answers, and the errors.                                                  *)
LEMMA EndedShape ==
    ASSUME BenchShape, NEW c \in Calls, NEW next, W!Ended(c, next), next = NoData \/ CallOK(next),
           UNCHANGED <<order, board>>, ListOK(list')
    PROVE  BenchShape'
BY DEF BenchShape, W!Ended

LEMMA AnswersShape ==
    ASSUME BenchShape, NEW c \in Calls, W!Ends(c) \/ W!Lose(c)
    PROVE BenchShape'
<1>1. CASE W!Done(c)
  <2>1. ListOK(list')
    <3>1. list' \in {W!Refetched(list), list}
      BY <1>1 DEF W!Done
    <3> QED BY <3>1, ListMoves DEF BenchShape
  <2>2. PICK next : W!Ended(c, next) /\ (next = NoData \/ CallOK(next))
    BY <1>1, NewCallOK DEF W!Done
  <2>3. order' = order /\ board' = board
    BY <1>1 DEF W!Done, W!server
  <2> QED BY <2>1, <2>2, <2>3, EndedShape
<1>2. CASE W!Failed(c)
  BY <1>2, EndedShape DEF W!Failed, W!server, W!cache, BenchShape
<1>3. CASE W!Reordered(c)
  <2>1. ListOK(list')
    <3>1. CallOK(calls[c]) /\ calls[c].kind = "reorder"
      BY <1>3 DEF W!Reordered, BenchShape
    <3>2. ListOK(W!Written(list, calls[c].before)) /\ ListOK(list)
      BY <3>1, ListMoves DEF BenchShape, CallOK
    <3>3. list' \in {W!Refetched(W!Written(list, calls[c].before)), W!Refetched(list)}
      BY <1>3 DEF W!Reordered, W!ReadAgain
    <3> QED BY <3>2, <3>3, ListMoves
  <2> QED BY <1>3, <2>1, EndedShape DEF W!Reordered, W!server
<1>4. CASE W!Lose(c)
  <2>1. calls' = [calls EXCEPT ![c] = [@ EXCEPT !.at = "failed"]]
    BY <1>4 DEF W!Lose
  <2>2. CallOK([calls[c] EXCEPT !.at = "failed"])
    BY <1>4, CallMoves DEF W!Lose, BenchShape
  <2> QED BY <1>4, <2>1, <2>2 DEF W!Lose, BenchShape, W!server, W!cache
<1> QED BY <1>1, <1>2, <1>3, <1>4 DEF W!Ends

(* A fetch that fails.                                                             *)
LEMMA LostFetch ==
    ASSUME NEW t, W!LoseFetch(t)
    PROVE  /\ t = "list" => list' = W!GivenUp(list) /\ missed' = missed \cup {none} /\ bench' = bench
           /\ t # "list" => list' = list
           /\ t = "session" => missed' = missed /\ bench' = bench
           /\ t \notin {"list", "session"}
              => bench' = [bench EXCEPT ![t] = W!GivenUp(@)] /\ missed' = missed \cup {t}
           /\ list' \in {list, W!GivenUp(list)}
<1>1. CASE t = "list"
  BY <1>1 DEF W!LoseFetch
<1>2. CASE t = "session"
  BY <1>2 DEF W!LoseFetch
<1>3. CASE t \notin {"list", "session"}
  BY <1>3 DEF W!LoseFetch
<1> QED BY <1>1, <1>2, <1>3

(* The events and the fetches touch the pages' copies only.                        *)
LEMMA FetchesShape ==
    ASSUME BenchShape,
           \/ W!Deliver \/ W!LoseEvent \/ W!Link \/ W!Open \/ (\E p \in Polls : W!GuardEnds(p))
           \/ (\E t \in W!Targets : W!Backup(t) \/ W!AnswerFetch(t) \/ W!StoreFetch(t) \/ W!LoseFetch(t))
           \/ UNCHANGED W!vars
    PROVE  BenchShape' /\ UNCHANGED <<order, board, calls>>
<1>1. UNCHANGED <<order, board, calls>>
  BY DEF W!Deliver, W!LoseEvent, W!Link, W!Open, W!GuardEnds, W!Backup, W!AnswerFetch,
         W!StoreFetch, W!LoseFetch, W!vars,
         W!server, W!wire
<1>2. ListOK(list')
  <2>0. ListOK(list)
    BY DEF BenchShape
  <2>1. CASE W!Deliver
    <3>1. list' \in {W!Refetched(list), list}
      BY <2>1 DEF W!Deliver
    <3> QED BY <2>0, <3>1, ListMoves
  <2>2. CASE W!LoseEvent \/ W!Link \/ W!Open \/ (\E p \in Polls : W!GuardEnds(p)) \/ UNCHANGED W!vars
    BY <2>0, <2>2 DEF W!LoseEvent, W!Link, W!Open, W!GuardEnds, W!vars, W!cache
  <2>3. ASSUME NEW t, W!Backup(t) PROVE ListOK(list')
    <3>1. list' \in {W!Fetched(list), list}
      BY <2>3 DEF W!Backup
    <3> QED BY <2>0, <3>1, ListMoves
  <2>4. ASSUME NEW t, W!AnswerFetch(t) PROVE ListOK(list')
    <3>1. list' \in {W!Answered(list, W!Listing), list}
      <4>1. CASE t = "list"
        BY <2>4, <4>1 DEF W!AnswerFetch
      <4>2. CASE t = "session"
        BY <2>4, <4>2 DEF W!AnswerFetch
      <4>3. CASE t # "list" /\ t # "session"
        BY <2>4, <4>3 DEF W!AnswerFetch
      <4> QED BY <4>1, <4>2, <4>3
    <3> QED BY <2>0, <3>1, ListMoves, ListingOK
  <2>5. ASSUME NEW t, W!StoreFetch(t) PROVE ListOK(list')
    <3>1. list' = list \/ (list.fetch = "answered" /\ list' = W!Stored(list))
      <4>1. CASE t = "list"
        BY <2>5, <4>1 DEF W!StoreFetch
      <4>2. CASE t = "session"
        BY <2>5, <4>2 DEF W!StoreFetch
      <4>3. CASE t # "list" /\ t # "session"
        BY <2>5, <4>3 DEF W!StoreFetch
      <4> QED BY <4>1, <4>2, <4>3
    <3> QED BY <2>0, <3>1, ListMoves
  <2>6. ASSUME NEW t, W!LoseFetch(t) PROVE ListOK(list')
    BY <2>0, <2>6, LostFetch, ListMoves
  <2> QED BY <2>1, <2>2, <2>3, <2>4, <2>5, <2>6
<1> QED BY <1>1, <1>2 DEF BenchShape, CallOK

(* The promise.                                                                  *)
LEMMA PromiseStays ==
    ASSUME PromiseInv, UNCHANGED <<order, board, calls, promised>> PROVE PromiseInv'
BY DEF PromiseInv, KeptFor, ServesNext, OpensIt

LEMMA PromiseEnds == ASSUME promised' = W!NoPromise PROVE PromiseInv'
BY DEF PromiseInv, W!NoPromise

(* One call ends, or is replaced by one that opens nothing.                        *)
LEMMA OtherCall ==
    ASSUME BenchShape, PromiseInv, NEW c \in Calls, NEW r, calls' = [calls EXCEPT ![c] = r],
           UNCHANGED <<order, board, promised>>, calls[c] = NoData \/ calls[c].at # "asked",
           r = NoData \/ r.at # "asked" \/ r.kind \in {"reorder", "golive"}
    PROVE  PromiseInv'
<1> SUFFICES ASSUME promised.item # none, ~ promised.unlocks PROVE KeptFor(promised.item)'
  BY DEF PromiseInv
<1> DEFINE i == promised.item
<1>1. KeptFor(i)
  BY DEF PromiseInv
<1>2. calls' = [d \in Calls |-> IF d = c THEN r ELSE calls[d]]
  BY DEF BenchShape
<1>3. ~ ServesNext(c) /\ (ServesNext(c)' => r.kind \in {"reorder", "golive"})
  BY <1>2 DEF ServesNext
<1>4. \A d \in Calls : d # c => ServesNext(d)' = ServesNext(d) /\ calls'[d] = calls[d]
  BY <1>2 DEF ServesNext
<1>5. calls'[c] = r
  BY <1>2
<1> QED BY <1>1, <1>3, <1>4, <1>5 DEF KeptFor, OpensIt

LEMMA SwitchPromises ==
    ASSUME BenchShape, NEW i, NEW fresh, W!SelectItem(i, fresh) PROVE PromiseInv'
<1>1. CASE ~ (W!Calm /\ W!ShouldStart /\ i # W!Current)
  BY <1>1, PromiseEnds DEF W!SelectItem
<1>2. CASE W!Calm /\ W!ShouldStart /\ i # W!Current
  <2>1. promised' = [item |-> i, unlocks |-> list.data.status[i] = "locked"]
    BY <1>2 DEF W!SelectItem
  <2>2. i \in W!Items /\ order' = order /\ board' = board
    BY ShownSeq, ListedItem DEF W!SelectItem, W!server
  <2>3. list.data = W!Listing /\ \A c \in Calls : calls[c] = NoData
    BY <1>2 DEF W!Calm
  <2>4. list.data.status[i] = board[i].status /\ W!Contains(order, i)
    BY <2>2, <2>3 DEF W!Listing, W!SelectItem, W!Shown
  <2>5. board[i].status \in W!Status
    BY <2>2 DEF BenchShape, W!Rows
  <2>6. CASE W!StartsOnSwitch(i)
    <3>1. PICK c \in Calls : calls' = [calls EXCEPT ![c] = W!Opens(i)]
      BY <2>6 DEF W!SelectItem, W!Send
    <3>2. calls' = [d \in Calls |-> IF d = c THEN W!Opens(i) ELSE NoData]
      BY <2>3, <3>1 DEF BenchShape
    <3>3. ASSUME list.data.status[i] # "locked" PROVE KeptFor(i)'
      <4>1. board[i].status \in {"idle", "stopped"}
        BY <2>4, <2>5, <2>6, <3>3 DEF W!StartsOnSwitch, W!Starts, W!Status
      <4>2. W!Opens(i) = IF i \in Boards THEN W!NewCall("board", i, "active")
                         ELSE W!NewCall("poll", i, "start")
        BY <3>3 DEF W!Opens
      <4>3. OpensIt(W!Opens(i), i) /\ W!Opens(i).at = "asked"
        BY <4>2 DEF OpensIt, W!NewCall
      <4>4. W!Opens(i) # NoData
        BY <2>2, OpensOK, CallIs
      <4>5. ServesNext(c)' /\ OpensIt(calls'[c], i) /\ \A d \in Calls : ServesNext(d)' => d = c
        BY <3>2, <4>3, <4>4 DEF ServesNext
      <4> HIDE DEF OpensIt, ServesNext
      <4> QED BY <2>2, <2>4, <4>1, <4>5 DEF KeptFor, OpensIt
    <3> QED BY <2>1, <3>3 DEF PromiseInv
  <2>7. CASE ~ W!StartsOnSwitch(i)
    <3>1. board[i].status = "active"
      BY <1>2, <2>4, <2>7 DEF W!StartsOnSwitch, W!Starts
    <3>2. calls' = calls
      BY <2>7 DEF W!SelectItem, W!wire
    <3>3. KeptFor(i)'
      BY <2>2, <2>3, <3>1, <3>2 DEF KeptFor, ServesNext
    <3> QED BY <2>1, <3>3 DEF PromiseInv
  <2> QED BY <2>6, <2>7
<1> QED BY <1>1, <1>2

(* A request that is served while a switch is to be kept opens that item, or does     *)
(* not touch the items' status.                                                   *)
LEMMA ServeKeeps == ASSUME BenchInv, NEW c \in Calls, W!Serve(c) PROVE PromiseInv'
<1> SUFFICES ASSUME promised.item # none, ~ promised.unlocks PROVE KeptFor(promised.item)'
  <2>1. promised' = promised
    BY DEF W!Serve, W!trace
  <2> QED BY <2>1 DEF PromiseInv
<1> DEFINE i == promised.item
           r == calls[c]
<1>1. promised' = promised /\ KeptFor(i)
  BY DEF W!Serve, W!trace, BenchInv, PromiseInv
<1>2. ServesNext(c) /\ CallOK(r)
  BY DEF W!Serve, ServesNext, BenchInv, BenchShape
<1>3. r.kind \in {"reorder", "golive"} \/ OpensIt(r, i)
  BY <1>1, <1>2 DEF KeptFor
<1>4. i \in W!Items /\ order \in Seq(W!Items) /\ board[i] \in W!Rows
  BY <1>1 DEF KeptFor, BenchInv, BenchShape
<1>5. \A d \in Calls : d # c => calls'[d] = calls[d]
  BY DEF W!Serve, BenchInv, BenchShape
<1>6. calls'[c].kind = r.kind /\ calls'[c].item = r.item /\ calls'[c].act = r.act
  <2>1. CASE W!Refused(r)
    <3>1. calls' = [calls EXCEPT ![c].at = "failed"]
      BY <2>1 DEF W!Serve
    <3>2. calls'[c] = [r EXCEPT !.at = "failed"]
      BY <3>1 DEF BenchInv, BenchShape
    <3> QED BY <3>2
  <2>2. CASE ~ W!Refused(r)
    <3>1. PICK x : calls' = [calls EXCEPT ![c].at = "done", ![c].reply = x]
      BY <2>2 DEF W!Serve
    <3>2. calls'[c] = [[r EXCEPT !.at = "done"] EXCEPT !.reply = x]
      BY <3>1 DEF BenchInv, BenchShape
    <3> QED BY <3>2
  <2> QED BY <2>1, <2>2
<1>7. \A d \in Calls : /\ ServesNext(d)' => calls'[d].kind \in {"reorder", "golive"} \/ OpensIt(calls'[d], i)
                       /\ d # c /\ ServesNext(d) => ServesNext(d)' /\ calls'[d] = calls[d]
  <2>1. ASSUME NEW d \in Calls, d # c, ServesNext(d)'
        PROVE  calls'[d].kind \in {"reorder", "golive"} \/ OpensIt(calls'[d], i)
    BY <1>1, <1>5, <2>1 DEF KeptFor, ServesNext
  <2>2. calls'[c].kind \in {"reorder", "golive"} \/ OpensIt(calls'[c], i)
    BY <1>3, <1>6 DEF OpensIt
  <2>3. ASSUME NEW d \in Calls, d # c, ServesNext(d)
        PROVE ServesNext(d)' /\ calls'[d] = calls[d]
    BY <1>5, <2>3 DEF ServesNext
  <2> QED BY <2>1, <2>2, <2>3
<1>8. CASE r.kind \in {"reorder", "golive"} /\ ~ OpensIt(r, i)
  <2>1. board' = board /\ (W!Contains(order, i) => W!Contains(order', i))
    <3>1. CASE W!Refused(r)
      BY <3>1 DEF W!Serve, W!server
    <3>2. CASE ~ W!Refused(r) /\ r.kind = "golive"
      BY <3>2 DEF W!Serve, W!Applies
    <3>3. CASE ~ W!Refused(r) /\ r.kind = "reorder"
      <4>1. order' = r.act /\ board' = board
        BY <3>3 DEF W!Serve, W!Applies
      <4>2. W!ToSet(r.act) = W!ToSet(order) /\ r.act \in Seq(W!Items)
        BY <1>2, <3>3 DEF W!Refused, CallOK
      <4> QED BY <1>4, <4>1, <4>2, SameItems
    <3> QED BY <1>8, <3>1, <3>2, <3>3
  <2>2. (\E d \in Calls : ServesNext(d) /\ OpensIt(calls[d], i)) => \E d \in Calls : ServesNext(d)'
          /\ OpensIt(calls'[d], i)
    BY <1>7, <1>8
  <2> HIDE DEF OpensIt, ServesNext
  <2> QED BY <1>1, <1>7, <2>1, <2>2 DEF KeptFor, OpensIt
<1>9. CASE OpensIt(r, i)
  <2>1. board'[i].status = "active"
    <3>1. /\ r.item = i
          /\ \/ r.kind = "board" /\ r.act = "active"
             \/ r.kind = "poll" /\ r.act = "start"
      BY <1>9 DEF OpensIt
    <3>2. CASE board[i].status = "active"
      <4>1. W!Refused(r)
        BY <3>1, <3>2 DEF W!Refused, W!Sources
      <4> QED BY <3>2, <4>1 DEF W!Serve, W!server
    <3>3. CASE board[i].status \in {"idle", "stopped"} /\ W!Contains(order, i)
      <4>1. ~ W!Refused(r)
        BY <3>1, <3>3 DEF W!Refused, W!Sources
      <4>2. board' = W!Acted(r)
        BY <3>1, <4>1 DEF W!Serve, W!Applies
      <4>3. W!Acted(r)[i].status = "active"
        <5>1. CASE r.act = "start"
          <6>1. W!Acted(r)[i] = [status |-> W!Goal["start"], shown |-> FALSE]
            BY <1>4, <3>1, <5>1 DEF W!Acted
          <6> QED BY <6>1 DEF W!Goal
        <5>2. CASE r.act = "active"
          <6>1. W!Acted(r)[i] = [board[i] EXCEPT !.status = W!Goal["active"]]
            BY <1>4, <3>1, <5>2 DEF W!Acted
          <6> QED BY <1>4, <6>1 DEF W!Goal, W!Rows
        <5> QED BY <3>1, <5>1, <5>2
      <4> QED BY <4>2, <4>3
    <3> QED BY <1>1, <3>2, <3>3 DEF KeptFor
  <2> QED BY <1>1, <1>4, <1>7, <2>1 DEF KeptFor
<1> QED BY <1>1, <1>3, <1>8, <1>9

LEMMA HostKeeps == ASSUME BenchInv, W!Host PROVE BenchInv'
<1>0. BenchShape' /\ BenchShape /\ PromiseInv
  BY HostShape DEF BenchInv
<1>1. ASSUME NEW i, NEW fresh, W!SelectItem(i, fresh) PROVE PromiseInv'
  BY <1>0, <1>1, SwitchPromises
<1>2. ASSUME NEW step, NEW fresh, W!GoBy(step, fresh) PROVE PromiseInv'
  BY <1>0, <1>2, SwitchPromises DEF W!GoBy
<1>3. CASE W!ToggleAuto
  <2>1. UNCHANGED <<order, board, calls, promised>>
    BY <1>3 DEF W!ToggleAuto, W!server, W!wire, W!trace
  <2> QED BY <1>0, <2>1, PromiseStays DEF BenchInv
<1>4. CASE (\E act \in W!PollActs : W!PressPoll(act)) \/ W!PressBoard \/ W!PressSession
  <2>1. promised' = W!NoPromise
    BY <1>4 DEF W!PressPoll, W!PressBoard, W!PressSession, W!Presses
  <2> QED BY <1>0, <2>1, PromiseEnds DEF BenchInv
<1>5. ASSUME NEW from, NEW to, W!Reorder(from, to) PROVE PromiseInv'
  <2> DEFINE r == [W!NewCall("reorder", none, W!Moved(from, to)) EXCEPT !.before = list.data]
  <2>1. r.kind = "reorder"
    BY DEF W!NewCall
  <2>2. W!Send(r) /\ order' = order /\ board' = board /\ promised' = promised
    BY <1>5 DEF W!Reorder, W!server, W!trace
  <2> HIDE DEF r
  <2>3. PICK c \in Calls : calls[c] = NoData /\ calls' = [calls EXCEPT ![c] = r]
    BY <2>2 DEF W!Send
  <2> QED BY <1>0, <2>1, <2>2, <2>3, OtherCall
<1>6. CASE (\E i \in W!Items : W!Create(i)) \/ W!Delete
  <2>1. promised' = W!NoPromise
    BY <1>6 DEF W!Create, W!Delete
  <2> QED BY <1>0, <2>1, PromiseEnds DEF BenchInv
<1> QED BY <1>0, <1>1, <1>2, <1>3, <1>4, <1>5, <1>6 DEF W!Host, BenchInv

LEMMA EndsKeeps == ASSUME BenchInv, NEW c \in Calls, W!Ends(c) \/ W!Lose(c) PROVE BenchInv'
<1>0. BenchShape' /\ BenchShape /\ PromiseInv
  BY AnswersShape DEF BenchInv
<1>1. CASE W!Ends(c)
  <2>1. calls[c].at # "asked" /\ order' = order /\ board' = board /\ promised' = promised
    BY <1>1 DEF W!Ends, W!Done, W!Failed, W!Reordered, W!server, W!trace
  <2>2. PICK r : W!Ended(c, r) /\ (r = NoData \/ r.kind = "golive")
    BY <1>1 DEF W!Ends, W!Done, W!Failed, W!Reordered, W!NewCall
  <2>3. calls' = [calls EXCEPT ![c] = r]
    BY <2>2 DEF W!Ended
  <2>4. UNCHANGED <<order, board, promised>>
    BY <2>1
  <2> QED BY <1>0, <2>1, <2>2, <2>3, <2>4, OtherCall DEF BenchInv
<1>2. CASE W!Lose(c)
  <2>1. promised' = W!NoPromise
    BY <1>2 DEF W!Lose
  <2> QED BY <1>0, <2>1, PromiseEnds DEF BenchInv
<1> QED BY <1>0, <1>1, <1>2 DEF BenchInv

LEMMA RivalKeeps == ASSUME BenchInv, W!Others PROVE BenchInv'
<1>1. BenchShape
  BY DEF BenchInv
<1>2. PICK kind, i, act : Buttoned(kind, i, act) \/ Edited(kind, i, act)
  BY <1>1, OthersAre
<1>3. BenchShape' /\ promised' = W!NoPromise
  BY <1>1, <1>2, RivalShape, EditsShape DEF Buttoned, Edited, W!Rival
<1> QED BY <1>3, PromiseEnds DEF BenchInv

LEMMA BenchNext == BenchInv /\ [W!Next]_W!vars => BenchInv'
<1> SUFFICES ASSUME BenchInv, [W!Next]_W!vars PROVE BenchInv'
  OBVIOUS
<1>1. ASSUME NEW c \in Calls, W!Serve(c) PROVE BenchInv'
  BY <1>1, ServeShape, ServeKeeps DEF BenchInv
<1>2. CASE \/ W!Deliver \/ W!LoseEvent \/ W!Link \/ W!Open \/ (\E p \in Polls : W!GuardEnds(p))
           \/ (\E t \in W!Targets : W!Backup(t) \/ W!AnswerFetch(t) \/ W!StoreFetch(t) \/ W!LoseFetch(t))
           \/ UNCHANGED W!vars
  <2>1. promised' = promised
    BY <1>2 DEF W!Deliver, W!LoseEvent, W!Link, W!Open, W!GuardEnds, W!Backup,
                W!AnswerFetch, W!StoreFetch, W!LoseFetch, W!vars,
                W!trace
  <2> QED BY <1>2, <2>1, FetchesShape, PromiseStays DEF BenchInv
<1> QED BY <1>1, <1>2, HostKeeps, EndsKeeps, RivalKeeps DEF W!Next, W!Faults

(* Only items are deleted.                                                        *)
GoneInv == gone \subseteq W!Items

LEMMA GoneInit == W!Init => GoneInv
BY DEF W!Init, GoneInv

LEMMA GoneNext == BenchInv /\ GoneInv /\ [W!Next]_W!vars => GoneInv'
<1> SUFFICES ASSUME BenchShape, GoneInv, [W!Next]_W!vars PROVE GoneInv'
  BY DEF BenchInv
<1>1. CASE W!Host
  BY <1>1 DEF W!Host, W!GoBy, W!SelectItem, W!ToggleAuto, W!PressPoll, W!PressBoard, W!PressSession,
              W!Presses, W!Reorder, W!Create, W!Delete, W!server, GoneInv
<1>2. CASE W!Others
  <2>1. PICK kind, i, act : Buttoned(kind, i, act) \/ Edited(kind, i, act)
    BY <1>2, OthersAre
  <2>2. CASE Buttoned(kind, i, act)
    <3>1. gone' = gone
      BY <2>2 DEF Buttoned, W!Rival, W!Applies, W!NewCall
    <3> QED BY <3>1 DEF GoneInv
  <2>3. CASE Edited(kind, i, act)
    BY <2>3, EditsDo DEF GoneInv
  <2> QED BY <2>1, <2>2, <2>3
<1>3. ASSUME NEW c \in Calls, W!Serve(c) PROVE GoneInv'
  <2>1. calls[c] # NoData /\ CallOK(calls[c])
    BY <1>3 DEF W!Serve, BenchShape
  <2>2. CASE W!Refused(calls[c])
    BY <1>3, <2>2 DEF W!Serve, W!server, GoneInv
  <2>3. CASE ~ W!Refused(calls[c])
    <3>1. W!Applies(calls[c], TRUE)
      BY <1>3, <2>3 DEF W!Serve
    <3>2. calls[c].kind \in W!Kinds /\ (calls[c].kind = "delete" => calls[c].item \in W!Items)
      BY <2>1, CallIs DEF CallOK
    <3>3. gone' \subseteq gone \cup W!Items
      BY <3>1, <3>2 DEF W!Applies, W!Kinds
    <3> QED BY <3>3 DEF GoneInv
  <2> QED BY <2>2, <2>3
<1>4. ASSUME NEW c \in Calls, W!Ends(c) \/ W!Lose(c) PROVE GoneInv'
  BY <1>4 DEF W!Ends, W!Done, W!Failed, W!Reordered, W!Lose, W!server, GoneInv
<1>5. CASE \/ W!Deliver \/ W!LoseEvent \/ W!Link \/ W!Open \/ (\E p \in Polls : W!GuardEnds(p))
           \/ (\E t \in W!Targets : W!Backup(t) \/ W!AnswerFetch(t) \/ W!StoreFetch(t) \/ W!LoseFetch(t))
           \/ UNCHANGED W!vars
  BY <1>5 DEF W!Deliver, W!LoseEvent, W!Link, W!Open, W!GuardEnds, W!Backup, W!AnswerFetch,
              W!StoreFetch, W!LoseFetch, W!vars, W!server, GoneInv
<1> QED BY <1>1, <1>2, <1>3, <1>4, <1>5 DEF W!Next, W!Faults

LEMMA BenchGives == BenchInv => W!SelectedRuns
<1> SUFFICES ASSUME BenchInv, W!AtRest, promised.item # none, ~ promised.unlocks
             PROVE  board[promised.item].status = "active"
  BY DEF W!SelectedRuns
<1>1. \A c \in Calls : ~ ServesNext(c)
  BY DEF W!AtRest, ServesNext
<1> QED BY <1>1 DEF BenchInv, PromiseInv, KeptFor

-----------------------------------------------------------------------------
(* W!Lists without an item twice, and sets as sequences.                             *)
LEMMA JoinedSeq ==
    ASSUME NEW X, NEW a \in Seq(X), NEW b \in Seq(X)
    PROVE  /\ a \o b \in Seq(X) /\ Len(a \o b) = Len(a) + Len(b)
           /\ \A i \in 1 .. Len(a) + Len(b) : (a \o b)[i] = IF i <= Len(a) THEN a[i] ELSE b[i - Len(a)]
BY ConcatProperties

OneEach(s) == W!IsInjective(s)

LEMMA RemovedAt ==
    ASSUME NEW X, NEW s \in Seq(X), NEW n \in 1 .. Len(s)
    PROVE  /\ W!RemoveAt(s, n) \in Seq(X) /\ Len(W!RemoveAt(s, n)) = Len(s) - 1
           /\ \A i \in 1 .. Len(s) - 1 : W!RemoveAt(s, n)[i] = s[IF i < n THEN i ELSE i + 1]
<1>1. Len(s) \in Nat /\ n \in Int /\ \A i \in 1 .. Len(s) : s[i] \in X
  BY LenProperties, ElementOfSeq
<1>2. PICK a, b, r : a = SubSeq(s, 1, n - 1) /\ b = SubSeq(s, n + 1, Len(s)) /\ r = a \o b
  OBVIOUS
<1>3. a \in Seq(X) /\ Len(a) = n - 1 /\ \A i \in 1 .. n - 1 : a[i] = s[i]
  <2>1. \A i \in 1 .. n - 1 : s[i] \in X
    BY <1>1
  <2>2. /\ a \in Seq(X) /\ Len(a) = IF 1 <= n - 1 THEN n - 1 - 1 + 1 ELSE 0
        /\ \A i \in 1 .. n - 1 - 1 + 1 : a[i] = s[1 + i - 1]
    BY <1>1, <1>2, <2>1, SubSeqProperties
  <2>3. n - 1 - 1 + 1 = n - 1 /\ (IF 1 <= n - 1 THEN n - 1 - 1 + 1 ELSE 0) = n - 1
    BY <1>1
  <2>4. ASSUME NEW i \in 1 .. n - 1 PROVE 1 + i - 1 = i
    OBVIOUS
  <2> QED BY <2>2, <2>3, <2>4
<1>4. b \in Seq(X) /\ Len(b) = Len(s) - n /\ \A i \in 1 .. Len(s) - n : b[i] = s[n + i]
  <2>1. \A i \in n + 1 .. Len(s) : s[i] \in X
    BY <1>1
  <2>2. /\ b \in Seq(X) /\ Len(b) = IF n + 1 <= Len(s) THEN Len(s) - (n + 1) + 1 ELSE 0
        /\ \A i \in 1 .. Len(s) - (n + 1) + 1 : b[i] = s[n + 1 + i - 1]
    BY <1>1, <1>2, <2>1, SubSeqProperties
  <2> QED BY <1>1, <2>2
<1>5. /\ r \in Seq(X) /\ Len(r) = Len(a) + Len(b)
      /\ \A i \in 1 .. Len(a) + Len(b) : r[i] = IF i <= Len(a) THEN a[i] ELSE b[i - Len(a)]
  <2>1. /\ a \o b \in Seq(X) /\ Len(a \o b) = Len(a) + Len(b)
        /\ \A i \in 1 .. Len(a) + Len(b) : (a \o b)[i] = IF i <= Len(a) THEN a[i] ELSE b[i - Len(a)]
    BY <1>3, <1>4, JoinedSeq
  <2> QED BY <1>2, <2>1, Zenon
<1>6. ASSUME NEW i \in 1 .. Len(s) - 1 PROVE r[i] = s[IF i < n THEN i ELSE i + 1]
  <2>1. CASE i < n
    <3>1. i \in 1 .. n - 1 /\ i <= n - 1 /\ i \in 1 .. (n - 1) + (Len(s) - n)
      BY <1>1, <2>1
    <3>2. r[i] = a[i]
      BY <1>3, <1>4, <1>5, <3>1
    <3> QED BY <1>3, <2>1, <3>1, <3>2
  <2>2. CASE ~ (i < n)
    <3>1. PICK j : j = i - (n - 1)
      OBVIOUS
    <3>2. j \in 1 .. Len(s) - n /\ n + j = i + 1 /\ ~ (i <= n - 1) /\ i \in 1 .. (n - 1) + (Len(s) - n)
      BY <1>1, <2>2, <3>1
    <3>3. r[i] = b[j]
      BY <1>3, <1>4, <1>5, <3>1, <3>2
    <3> QED BY <1>4, <2>2, <3>2, <3>3
  <2> QED BY <2>1, <2>2
<1>7. W!RemoveAt(s, n) = r
  BY <1>2 DEF W!RemoveAt
<1>8. r \in Seq(X) /\ Len(r) = Len(s) - 1
  BY <1>1, <1>3, <1>4, <1>5
<1> QED BY <1>6, <1>7, <1>8, Zenon

LEMMA InsertedAt ==
    ASSUME NEW X, NEW s \in Seq(X), NEW n \in 1 .. Len(s) + 1, NEW e \in X
    PROVE  /\ W!InsertAt(s, n, e) \in Seq(X) /\ Len(W!InsertAt(s, n, e)) = Len(s) + 1
           /\ \A i \in 1 .. Len(s) + 1 :
                W!InsertAt(s, n, e)[i] = IF i < n THEN s[i] ELSE IF i = n THEN e ELSE s[i - 1]
<1>1. Len(s) \in Nat /\ n \in Int /\ \A i \in 1 .. Len(s) : s[i] \in X
  BY LenProperties, ElementOfSeq
<1>2. PICK a, b, o, c, r : /\ a = SubSeq(s, 1, n - 1) /\ b = SubSeq(s, n, Len(s)) /\ o = <<e>>
                           /\ c = a \o o /\ r = c \o b
  OBVIOUS
<1>3. a \in Seq(X) /\ Len(a) = n - 1 /\ \A i \in 1 .. n - 1 : a[i] = s[i]
  <2>1. \A i \in 1 .. n - 1 : s[i] \in X
    BY <1>1
  <2>2. /\ a \in Seq(X) /\ Len(a) = IF 1 <= n - 1 THEN n - 1 - 1 + 1 ELSE 0
        /\ \A i \in 1 .. n - 1 - 1 + 1 : a[i] = s[1 + i - 1]
    BY <1>1, <1>2, <2>1, SubSeqProperties
  <2>3. n - 1 - 1 + 1 = n - 1 /\ (IF 1 <= n - 1 THEN n - 1 - 1 + 1 ELSE 0) = n - 1
    BY <1>1
  <2>4. ASSUME NEW i \in 1 .. n - 1 PROVE 1 + i - 1 = i
    OBVIOUS
  <2> QED BY <2>2, <2>3, <2>4
<1>4. b \in Seq(X) /\ Len(b) = Len(s) - n + 1 /\ \A i \in 1 .. Len(s) - n + 1 : b[i] = s[n + i - 1]
  <2>1. \A i \in n .. Len(s) : s[i] \in X
    BY <1>1
  <2>2. /\ b \in Seq(X) /\ Len(b) = IF n <= Len(s) THEN Len(s) - n + 1 ELSE 0
        /\ \A i \in 1 .. Len(s) - n + 1 : b[i] = s[n + i - 1]
    BY <1>1, <1>2, <2>1, SubSeqProperties
  <2> QED BY <1>1, <2>2
<1>5. o \in Seq(X) /\ Len(o) = 1 /\ o[1] = e
  BY <1>2
<1>6. c \in Seq(X) /\ Len(c) = n /\ \A i \in 1 .. n : c[i] = IF i < n THEN s[i] ELSE e
  <2>1. /\ c \in Seq(X) /\ Len(c) = Len(a) + Len(o)
        /\ \A i \in 1 .. Len(a) + Len(o) : c[i] = IF i <= Len(a) THEN a[i] ELSE o[i - Len(a)]
    <3>1. /\ a \o o \in Seq(X) /\ Len(a \o o) = Len(a) + Len(o)
          /\ \A i \in 1 .. Len(a) + Len(o) : (a \o o)[i] = IF i <= Len(a) THEN a[i] ELSE o[i - Len(a)]
      BY <1>3, <1>5, JoinedSeq
    <3> QED BY <1>2, <3>1, Zenon
  <2>2. ASSUME NEW i \in 1 .. n PROVE c[i] = IF i < n THEN s[i] ELSE e
    <3>1. CASE i < n
      BY <1>1, <1>3, <1>5, <2>1, <3>1
    <3>2. CASE i = n
      <4>1. i - Len(a) = 1 /\ ~ (i <= Len(a))
        BY <1>1, <1>3, <3>2
      <4> QED BY <1>1, <1>3, <1>5, <2>1, <3>2, <4>1
    <3> QED BY <1>1, <3>1, <3>2
  <2> QED BY <1>1, <1>3, <1>5, <2>1, <2>2
<1>7. /\ r \in Seq(X) /\ Len(r) = Len(c) + Len(b)
      /\ \A i \in 1 .. Len(c) + Len(b) : r[i] = IF i <= Len(c) THEN c[i] ELSE b[i - Len(c)]
  <2>1. /\ c \o b \in Seq(X) /\ Len(c \o b) = Len(c) + Len(b)
        /\ \A i \in 1 .. Len(c) + Len(b) : (c \o b)[i] = IF i <= Len(c) THEN c[i] ELSE b[i - Len(c)]
    BY <1>4, <1>6, JoinedSeq
  <2> QED BY <1>2, <2>1, Zenon
<1>8. ASSUME NEW i \in 1 .. Len(s) + 1
      PROVE  r[i] = IF i < n THEN s[i] ELSE IF i = n THEN e ELSE s[i - 1]
  <2>1. CASE i <= n
    <3>1. r[i] = c[i] /\ i \in 1 .. n
      BY <1>1, <1>4, <1>6, <1>7, <2>1
    <3> QED BY <1>1, <1>6, <2>1, <3>1
  <2>2. CASE i > n
    <3>1. i - n \in 1 .. Len(s) - n + 1 /\ n + (i - n) - 1 = i - 1 /\ ~ (i <= n) /\ ~ (i < n) /\ i # n
      BY <1>1, <2>2
    <3>2. r[i] = b[i - n]
      BY <1>1, <1>4, <1>6, <1>7, <3>1
    <3> QED BY <1>4, <3>1, <3>2
  <2> QED BY <1>1, <2>1, <2>2
<1>9. W!InsertAt(s, n, e) = r
  BY <1>2 DEF W!InsertAt
<1> QED BY <1>1, <1>4, <1>6, <1>7, <1>8, <1>9

LEMMA RemovedOnce ==
    ASSUME NEW X, NEW s \in Seq(X), OneEach(s), NEW n \in 1 .. Len(s)
    PROVE  OneEach(W!RemoveAt(s, n)) /\ \A i \in 1 .. Len(s) - 1 : W!RemoveAt(s, n)[i] # s[n]
<1>1. PICK r : r = W!RemoveAt(s, n)
  OBVIOUS
<1>2. /\ r \in Seq(X) /\ Len(r) = Len(s) - 1 /\ Len(s) \in Nat
      /\ \A i \in 1 .. Len(s) - 1 : r[i] = s[IF i < n THEN i ELSE i + 1]
  BY <1>1, RemovedAt, LenProperties
<1>3. \A i, j \in 1 .. Len(s) : s[i] = s[j] => i = j
  BY LenProperties DEF OneEach, W!IsInjective
<1>4. DOMAIN r = 1 .. Len(s) - 1
  BY <1>2, LenProperties
<1>5. ASSUME NEW i \in 1 .. Len(s) - 1 PROVE r[i] # s[n]
  <2>1. PICK k : k = IF i < n THEN i ELSE i + 1
    OBVIOUS
  <2>2. k \in 1 .. Len(s) /\ k # n /\ r[i] = s[k]
    BY <1>2, <2>1
  <2> QED BY <1>3, <2>2
<1>6. ASSUME NEW i \in 1 .. Len(s) - 1, NEW j \in 1 .. Len(s) - 1, r[i] = r[j] PROVE i = j
  <2>1. PICK k, l : k = (IF i < n THEN i ELSE i + 1) /\ l = (IF j < n THEN j ELSE j + 1)
    OBVIOUS
  <2>2. k \in 1 .. Len(s) /\ l \in 1 .. Len(s) /\ s[k] = s[l]
    BY <1>2, <1>6, <2>1
  <2>3. k = l
    BY <1>3, <2>2
  <2> QED BY <1>2, <2>1, <2>3
<1> QED BY <1>1, <1>4, <1>5, <1>6 DEF OneEach, W!IsInjective

LEMMA InsertedOnce ==
    ASSUME NEW X, NEW s \in Seq(X), OneEach(s), NEW n \in 1 .. Len(s) + 1, NEW e \in X,
           \A i \in 1 .. Len(s) : s[i] # e
    PROVE  OneEach(W!InsertAt(s, n, e))
<1>1. PICK r : r = W!InsertAt(s, n, e)
  OBVIOUS
<1>2. /\ r \in Seq(X) /\ Len(r) = Len(s) + 1 /\ Len(s) \in Nat
      /\ \A i \in 1 .. Len(s) + 1 : r[i] = IF i < n THEN s[i] ELSE IF i = n THEN e ELSE s[i - 1]
  <2>2. /\ W!InsertAt(s, n, e) \in Seq(X) /\ Len(W!InsertAt(s, n, e)) = Len(s) + 1
        /\ \A i \in 1 .. Len(s) + 1 :
             W!InsertAt(s, n, e)[i] = IF i < n THEN s[i] ELSE IF i = n THEN e ELSE s[i - 1]
    BY InsertedAt
  <2>3. Len(s) \in Nat
    BY LenProperties
  <2> QED BY <1>1, <2>2, <2>3, Zenon
<1>3. \A i, j \in 1 .. Len(s) : s[i] = s[j] => i = j
  BY LenProperties DEF OneEach, W!IsInjective
<1>4. DOMAIN r = 1 .. Len(s) + 1
  BY <1>2, LenProperties
<1>5. ASSUME NEW i \in 1 .. Len(s) + 1, NEW j \in 1 .. Len(s) + 1, r[i] = r[j] PROVE i = j
  <2>1. \A k \in 1 .. Len(s) + 1 :
           k = n \/ \E l \in 1 .. Len(s) : r[k] = s[l] /\ l = IF k < n THEN k ELSE k - 1
    <3>1. ASSUME NEW k \in 1 .. Len(s) + 1, k # n
          PROVE  \E l \in 1 .. Len(s) : r[k] = s[l] /\ l = IF k < n THEN k ELSE k - 1
      <4>1. CASE k < n
        <5>1. k \in 1 .. Len(s) /\ r[k] = s[k]
          BY <1>2, <4>1
        <5> QED BY <4>1, <5>1
      <4>2. CASE ~ (k < n)
        <5>1. k - 1 \in 1 .. Len(s) /\ r[k] = s[k - 1]
          BY <1>2, <3>1, <4>2
        <5> QED BY <4>2, <5>1
      <4> QED BY <4>1, <4>2
    <3> QED BY <3>1
  <2>2. r[n] = e
    BY <1>2
  <2>3. CASE i = n
    BY <1>2, <1>5, <2>1, <2>2, <2>3
  <2>4. CASE j = n
    BY <1>2, <1>5, <2>1, <2>2, <2>4
  <2>5. CASE i # n /\ j # n
    <3>1. PICK k \in 1 .. Len(s) : r[i] = s[k] /\ k = IF i < n THEN i ELSE i - 1
      BY <2>1, <2>5
    <3>2. PICK l \in 1 .. Len(s) : r[j] = s[l] /\ l = IF j < n THEN j ELSE j - 1
      BY <2>1, <2>5
    <3>3. k = l
      BY <1>3, <1>5, <3>1, <3>2
    <3> QED BY <1>2, <2>5, <3>1, <3>2, <3>3
  <2> QED BY <2>3, <2>4, <2>5
<1> QED BY <1>1, <1>4, <1>5 DEF OneEach, W!IsInjective

LEMMA AppendedOnce ==
    ASSUME NEW X, NEW s \in Seq(X), OneEach(s), NEW e \in X, ~ W!Contains(s, e)
    PROVE  OneEach(Append(s, e))
<1>1. PICK r : r = Append(s, e)
  OBVIOUS
<1>2. /\ r \in Seq(X) /\ Len(r) = Len(s) + 1 /\ Len(s) \in Nat /\ r[Len(s) + 1] = e
      /\ \A i \in 1 .. Len(s) : r[i] = s[i] /\ s[i] # e
  BY <1>1, AppendProperties, LenProperties DEF W!Contains
<1>3. \A i, j \in 1 .. Len(s) : s[i] = s[j] => i = j
  BY LenProperties DEF OneEach, W!IsInjective
<1>4. DOMAIN r = 1 .. Len(s) + 1 /\ \A i \in 1 .. Len(s) + 1 : i \in 1 .. Len(s) \/ i = Len(s) + 1
  BY <1>2, LenProperties
<1> QED BY <1>1, <1>2, <1>3, <1>4 DEF OneEach, W!IsInjective

LEMMA WithoutOnce ==
    ASSUME NEW X, NEW s \in Seq(X), OneEach(s), NEW i PROVE OneEach(W!Without(s, i))
<1>1. CASE W!Contains(s, i)
  <2>1. DOMAIN s = 1 .. Len(s)
    BY LenProperties
  <2>2. W!Position(s, i) \in 1 .. Len(s)
    BY <1>1, <2>1 DEF W!Contains, W!Position
  <2> QED BY <1>1, <2>2, RemovedOnce DEF W!Without
<1>2. CASE ~ W!Contains(s, i)
  BY <1>2 DEF W!Without
<1> QED BY <1>1, <1>2

LEMMA RearrangedOnce ==
    ASSUME NEW X, NEW s \in Seq(X), OneEach(s), NEW from \in DOMAIN s, NEW to \in DOMAIN s
    PROVE  OneEach(W!Rearranged(s, from, to))
<1>1. DOMAIN s = 1 .. Len(s) /\ Len(s) \in Nat
  BY LenProperties
<1>2. PICK r, e : r = W!RemoveAt(s, from) /\ e = s[from]
  OBVIOUS
<1>3. /\ r \in Seq(X) /\ Len(r) = Len(s) - 1 /\ OneEach(r) /\ \A i \in 1 .. Len(s) - 1 : r[i] # e
  BY <1>1, <1>2, RemovedAt, RemovedOnce
<1>4. e \in X /\ to \in 1 .. Len(r) + 1
  BY <1>1, <1>2, <1>3, ElementOfSeq
<1>5. OneEach(W!InsertAt(r, to, e))
  BY <1>3, <1>4, InsertedOnce
<1> QED BY <1>2, <1>5 DEF W!Rearranged

LEMMA MovedOnce ==
    ASSUME NEW X, W!Shown \in Seq(X), OneEach(W!Shown), NEW from \in DOMAIN W!Shown, NEW to \in DOMAIN W!Shown
    PROVE  OneEach(W!Moved(from, to))
BY RearrangedOnce DEF W!Moved

(* A finite set as a sequence has all its elements.                                *)
LEMMA SetSeq ==
    ASSUME NEW S, IsFiniteSet(S)
    PROVE  /\ W!SetToSeq(S) \in Seq(S)
           /\ \A x \in S : \E i \in 1 .. Len(W!SetToSeq(S)) : W!SetToSeq(S)[i] = x
<1>1. PICK n : n = Cardinality(S) /\ n \in Nat
  BY FS_CardinalityType
<1>2. W!Cardinality(S) = n
  BY <1>1 DEF W!Cardinality, Cardinality
<1>3. IsFiniteSet(1 .. n) /\ Cardinality(1 .. n) = n
  <2>1. 1 \in Int /\ n \in Int
    BY <1>1
  <2>2. IsFiniteSet(1 .. n) /\ Cardinality(1 .. n) = IF 1 > n THEN 0 ELSE n - 1 + 1
    BY <2>1, FS_Interval
  <2> QED BY <1>1, <2>2
<1>4. \E f \in [1 .. n -> S] : W!IsInjective(f)
  <2>1. PICK f : f \in Bijection(1 .. n, S)
    BY <1>1, FS_CardinalityType DEF ExistsBijection
  <2> QED BY <2>1 DEF Bijection, Injection, IsInjective, W!IsInjective
<1>5. PICK f : f = W!SetToSeq(S) /\ f \in [1 .. n -> S] /\ W!IsInjective(f)
  BY <1>2, <1>4 DEF W!SetToSeq
<1>6. f \in Injection(1 .. n, S)
  BY <1>5 DEF Injection, IsInjective, W!IsInjective
<1>7. f \in Surjection(1 .. n, S)
  BY <1>1, <1>3, <1>6, FS_Injection
<1>8. \A x \in S : \E i \in 1 .. n : f[i] = x
  BY <1>7 DEF Surjection
<1>9. f \in Seq(S) /\ Len(f) = n
  BY <1>1, <1>5
<1> QED BY <1>5, <1>8, <1>9

(* The events of one action: those of the polls that a start stops, then its own.    *)
Events == [poll : Polls, what : {"reveal", "hide", "start", "idle", "active", "locked", "stopped"}, mine : BOOLEAN]
Off(r)  == IF r.act \in {"start", "active"} THEN W!Running(r.item) \cap Polls ELSE {}
What(r) == IF r.act \in {"reveal", "hide", "start"} THEN r.act ELSE W!Goal[r.act]

LEMMA OffEvents ==
    ASSUME BenchShape, NEW r
    PROVE  LET s == W!SetToSeq({W!Event(p, "stopped", FALSE) : p \in Off(r)}) IN
           /\ s \in Seq(Events)
           /\ \A k \in 1 .. Len(s) : s[k].poll \in Off(r) /\ s[k] = W!Event(s[k].poll, "stopped", FALSE)
           /\ \A p \in Off(r) : \E k \in 1 .. Len(s) : s[k] = W!Event(p, "stopped", FALSE)
<1> DEFINE S == {W!Event(p, "stopped", FALSE) : p \in Off(r)}
           N == {k \in 1 .. Len(order) : order[k] \in Off(r)}
           f == [k \in N |-> W!Event(order[k], "stopped", FALSE)]
<1>1. order \in Seq(W!Items) /\ Len(order) \in Nat /\ DOMAIN order = 1 .. Len(order)
  BY LenProperties DEF BenchShape
<1>2. IsFiniteSet(N)
  <2>1. 1 \in Int /\ Len(order) \in Int
    BY <1>1
  <2>2. IsFiniteSet(1 .. Len(order))
    BY <2>1, FS_Interval
  <2> QED BY <2>2, FS_Subset
<1>3. \A p \in Off(r) : \E k \in N : order[k] = p
  BY <1>1 DEF Off, W!Running, W!Contains
<1>4. f \in Surjection(N, S)
  <2>1. \A k \in N : f[k] \in S
    OBVIOUS
  <2>2. ASSUME NEW e \in S PROVE \E k \in N : f[k] = e
    <3>1. PICK p \in Off(r) : e = W!Event(p, "stopped", FALSE)
      OBVIOUS
    <3>2. PICK k \in N : order[k] = p
      BY <1>3
    <3> QED BY <3>1, <3>2
  <2>3. f \in [N -> S]
    BY <2>1
  <2> HIDE DEF f, S, N
  <2> QED BY <2>2, <2>3 DEF Surjection
<1>5. IsFiniteSet(S)
  <2> HIDE DEF f, S, N
  <2> QED BY <1>2, <1>4, FS_Surjection
<1>6. PICK s : s = W!SetToSeq(S)
  OBVIOUS
<1>7. s \in Seq(S) /\ \A e \in S : \E k \in 1 .. Len(s) : s[k] = e
  <2> HIDE DEF S
  <2> QED BY <1>5, <1>6, SetSeq
<1>8. \A e \in S : e \in Events /\ e.poll \in Off(r) /\ e = W!Event(e.poll, "stopped", FALSE)
  <2> SUFFICES ASSUME NEW p \in Off(r)
               PROVE  LET e == W!Event(p, "stopped", FALSE) IN
                      e \in Events /\ e.poll \in Off(r) /\ e = W!Event(e.poll, "stopped", FALSE)
    OBVIOUS
  <2>1. p \in Polls
    BY DEF Off
  <2> QED BY <2>1 DEF Events, W!Event
<1>9. \A k \in 1 .. Len(s) : s[k] \in S
  BY <1>7, ElementOfSeq
<1>10. \A p \in Off(r) : W!Event(p, "stopped", FALSE) \in S
  OBVIOUS
<1>11. s \in Seq(Events)
  <2>1. Len(s) \in Nat /\ s \in [1 .. Len(s) -> S]
    BY <1>7, LenProperties, <1>9
  <2>2. s \in [1 .. Len(s) -> Events]
    <3> HIDE DEF S, Events
    <3> QED BY <2>1, <1>8
  <2> QED BY <2>1, <2>2
<1> HIDE DEF S
<1> QED BY <1>6, <1>7, <1>8, <1>9, <1>10, <1>11 DEF S

LEMMA SaidIs ==
    ASSUME BenchShape, NEW r, CallOK(r), r.kind \in {"poll", "board"}, NEW mine \in BOOLEAN
    PROVE  LET s == W!Said(r, mine) IN
           /\ s \in Seq(Events)
           /\ \A k \in 1 .. Len(s) :
                \/ s[k].poll \in Off(r) /\ s[k] = W!Event(s[k].poll, "stopped", FALSE)
                \/ k = Len(s) /\ r.item \in Polls /\ s[k] = W!Event(r.item, What(r), mine)
           /\ \A p \in Off(r) : \E k \in 1 .. Len(s) : s[k] = W!Event(p, "stopped", FALSE)
           /\ r.item \in Polls => s # <<>> /\ s[Len(s)] = W!Event(r.item, What(r), mine)
<1>1. PICK a : a = W!SetToSeq({W!Event(p, "stopped", FALSE) : p \in Off(r)})
  OBVIOUS
<1>2. PICK b : b = IF r.item \in Polls THEN <<W!Event(r.item, What(r), mine)>> ELSE <<>>
  OBVIOUS
<1>3. PICK s : s = W!Said(r, mine)
  OBVIOUS
<1>4. s = a \o b
  BY <1>1, <1>2, <1>3 DEF W!Said, Off, What
<1>5. /\ a \in Seq(Events)
      /\ \A k \in 1 .. Len(a) : a[k].poll \in Off(r) /\ a[k] = W!Event(a[k].poll, "stopped", FALSE)
      /\ \A p \in Off(r) : \E k \in 1 .. Len(a) : a[k] = W!Event(p, "stopped", FALSE)
  BY <1>1, OffEvents
<1>6. What(r) \in {"reveal", "hide", "start", "idle", "active", "locked", "stopped"}
  BY DEF What, W!Goal, CallOK, W!PollActs, W!BoardActs
<1>7. r.item \in Polls => W!Event(r.item, What(r), mine) \in Events
  BY <1>6 DEF W!Event, Events
<1>8. /\ b \in Seq(Events) /\ Len(b) = (IF r.item \in Polls THEN 1 ELSE 0)
      /\ r.item \in Polls => b[1] = W!Event(r.item, What(r), mine)
  <2> HIDE DEF Events
  <2>1. CASE r.item \in Polls
    BY <1>2, <1>7, <2>1
  <2>2. CASE r.item \notin Polls
    <3>1. <<>> \in Seq(Events) /\ Len(<<>>) = 0
      OBVIOUS
    <3> QED BY <1>2, <2>2, <3>1
  <2> QED BY <2>1, <2>2
<1>9. /\ s \in Seq(Events) /\ Len(s) = Len(a) + Len(b)
      /\ \A i \in 1 .. Len(a) + Len(b) : s[i] = IF i <= Len(a) THEN a[i] ELSE b[i - Len(a)]
  <2> HIDE DEF Events
  <2>1. /\ a \o b \in Seq(Events) /\ Len(a \o b) = Len(a) + Len(b)
        /\ \A i \in 1 .. Len(a) + Len(b) : (a \o b)[i] = IF i <= Len(a) THEN a[i] ELSE b[i - Len(a)]
    BY <1>5, <1>8, JoinedSeq
  <2> QED BY <1>4, <2>1, Zenon
<1>10. Len(a) \in Nat
  BY <1>5, LenProperties
<1>11. \A k \in 1 .. Len(a) : k \in 1 .. Len(s) /\ s[k] = a[k]
  BY <1>8, <1>9, <1>10
<1>12. ASSUME NEW k \in 1 .. Len(s), k \notin 1 .. Len(a)
       PROVE  k = Len(s) /\ r.item \in Polls /\ s[k] = W!Event(r.item, What(r), mine)
  <2>1. r.item \in Polls /\ k = Len(a) + 1 /\ k = Len(s) /\ k - Len(a) = 1 /\ ~ (k <= Len(a))
    BY <1>8, <1>9, <1>10, <1>12
  <2>2. s[k] = b[1]
    BY <1>8, <1>9, <2>1
  <2> QED BY <1>8, <2>1, <2>2
<1>13. r.item \in Polls => Len(s) \in 1 .. Len(s) /\ Len(s) \notin 1 .. Len(a) /\ s # <<>>
  BY <1>8, <1>9, <1>10
<1>14. \A k \in 1 .. Len(s) :
                \/ s[k].poll \in Off(r) /\ s[k] = W!Event(s[k].poll, "stopped", FALSE)
                \/ k = Len(s) /\ r.item \in Polls /\ s[k] = W!Event(r.item, What(r), mine)
  <2> SUFFICES ASSUME NEW k \in 1 .. Len(s)
               PROVE \/ s[k].poll \in Off(r) /\ s[k] = W!Event(s[k].poll, "stopped", FALSE)
                     \/ k = Len(s) /\ r.item \in Polls /\ s[k] = W!Event(r.item, What(r), mine)
    OBVIOUS
  <2>1. CASE k \in 1 .. Len(a)
    <3>1. s[k] = a[k] /\ a[k].poll \in Off(r) /\ a[k] = W!Event(a[k].poll, "stopped", FALSE)
      BY <1>5, <1>11, <2>1
    <3> QED BY <3>1
  <2>2. CASE k \notin 1 .. Len(a)
    BY <1>12, <2>2
  <2> QED BY <2>1, <2>2
<1>15. \A p \in Off(r) : \E k \in 1 .. Len(s) : s[k] = W!Event(p, "stopped", FALSE)
  BY <1>5, <1>11
<1>16. r.item \in Polls => s # <<>> /\ s[Len(s)] = W!Event(r.item, What(r), mine)
  BY <1>12, <1>13
<1> HIDE DEF Events
<1> QED BY <1>3, <1>9, <1>14, <1>15, <1>16, Zenon

(* The lists of the room, of the page and of the requests have no item twice.       *)
ListTidy(q) == OneEach(q.data.order) /\ (q.fetch = "answered" => OneEach(q.reply.order))
CallTidy(c) ==
    LET r == calls[c] IN
    /\ r.kind = "reorder" => OneEach(r.act) /\ OneEach(r.before.order)
    /\ r.kind = "create" => newest["create"] = c /\ (r.at = "asked" => ~ W!Contains(order, r.item))
CallsTidy ==
    /\ newest = [m \in W!Mutations |-> newest[m]]
    /\ \A c \in Calls : calls[c] # NoData => CallTidy(c)
PlaceTidy == selected \in W!Items \cup {none} /\ guard \subseteq Polls /\ missed \subseteq Polls \cup {none}
TidyInv == OneEach(order) /\ ListTidy(list) /\ CallsTidy /\ told \in Seq(Events) /\ PlaceTidy

LEMMA ListTidyMoves ==
    ASSUME NEW q, ListOK(q), ListTidy(q)
    PROVE  /\ ListTidy(W!Fetched(q)) /\ ListTidy(W!Refetched(q)) /\ ListTidy(W!Cancelled(q))
           /\ ListTidy(W!GivenUp(q))
           /\ q.fetch = "answered" => ListTidy(W!Stored(q))
           /\ \A d \in W!Lists : OneEach(d.order) => ListTidy(W!Written(q, d)) /\ ListTidy(W!Answered(q, d))
<1> USE DEF ListTidy, W!Queries, W!Fetches, ListOK
<1> HIDE DEF W!Lists, OneEach
<1>1. ListTidy(W!Fetched(q))
  BY DEF W!Fetched
<1>2. ListTidy(W!Refetched(q))
  BY DEF W!Refetched
<1>3. ListTidy(W!Cancelled(q))
  BY DEF W!Cancelled
<1>4. q.fetch = "answered" => ListTidy(W!Stored(q))
  BY DEF W!Stored
<1>5. ASSUME NEW d \in W!Lists, OneEach(d.order) PROVE ListTidy(W!Written(q, d)) /\ ListTidy(W!Answered(q, d))
  BY <1>5 DEF W!Written, W!Answered
<1>6. ListTidy(W!GivenUp(q))
  BY DEF W!GivenUp
<1> QED BY <1>1, <1>2, <1>3, <1>4, <1>5, <1>6

LEMMA CallNumbers == 0 \notin Calls /\ Calls \subseteq Nat
BY PartsAssumption DEF PartsAssumption, W!WorkbenchAssumption

LEMMA SendTidy ==
    ASSUME BenchShape, CallsTidy, NEW r, CallOK(r), W!Send(r), order' = order,
           r.kind = "reorder" => OneEach(r.act) /\ OneEach(r.before.order),
           r.kind = "create" => newest["create"] = 0 /\ ~ W!Contains(order, r.item)
    PROVE  CallsTidy' /\ guard' = guard
<1>1. PICK c \in Calls :
        /\ calls[c] = NoData /\ calls' = [calls EXCEPT ![c] = r] /\ guard' = guard
        /\ newest' = IF r.kind = "golive" THEN newest ELSE [newest EXCEPT ![r.kind] = c]
  BY DEF W!Send
<1>2. calls' = [d \in Calls |-> IF d = c THEN r ELSE calls[d]]
  BY <1>1 DEF BenchShape
<1>3. newest' = [m \in W!Mutations |-> IF r.kind # "golive" /\ m = r.kind THEN c ELSE newest[m]]
  <2>1. newest = [m \in W!Mutations |-> newest[m]]
    BY DEF CallsTidy
  <2>2. CASE r.kind = "golive"
    BY <1>1, <2>1, <2>2
  <2>3. CASE r.kind # "golive"
    BY <1>1, <2>1, <2>3
  <2> QED BY <2>2, <2>3
<1>4. "create" \in W!Mutations
  BY DEF W!Mutations, W!Kinds
<1>5. ASSUME NEW d \in Calls, calls'[d] # NoData PROVE CallTidy(d)'
  <2>1. CASE d = c
    <3>1. calls'[d] = r
      BY <1>2, <2>1
    <3>2. r.kind = "create" => newest'["create"] = d
      BY <1>3, <1>4, <2>1
    <3> QED BY <3>1, <3>2 DEF CallTidy
  <2>2. CASE d # c
    <3>1. calls'[d] = calls[d] /\ CallTidy(d)
      BY <1>2, <1>5, <2>2 DEF CallsTidy
    <3>2. CASE calls[d].kind = "create"
      <4>1. newest["create"] = d /\ newest["create"] # 0
        BY <3>1, <3>2, CallNumbers DEF CallTidy
      <4>2. newest'["create"] = newest["create"]
        BY <1>3, <1>4, <4>1
      <4> QED BY <3>1, <3>2, <4>2 DEF CallTidy
    <3>3. CASE calls[d].kind # "create"
      BY <3>1, <3>3 DEF CallTidy
    <3> QED BY <3>2, <3>3
  <2> QED BY <2>1, <2>2
<1>6. newest' = [m \in W!Mutations |-> newest'[m]]
  BY <1>3
<1> QED BY <1>1, <1>5, <1>6 DEF CallsTidy

LEMMA EndedTidy ==
    ASSUME BenchShape, CallsTidy, NEW c \in Calls, NEW next, W!Ended(c, next), order' = order,
           next = NoData \/ next.kind = "golive"
    PROVE  CallsTidy'
<1>1. /\ calls' = [d \in Calls |-> IF d = c THEN next ELSE calls[d]]
      /\ newest' = [m \in W!Mutations |-> IF newest[m] = c THEN 0 ELSE newest[m]]
  BY DEF W!Ended, BenchShape
<1>2. "create" \in W!Mutations
  BY DEF W!Mutations, W!Kinds
<1>3. ASSUME NEW d \in Calls, calls'[d] # NoData PROVE CallTidy(d)'
  <2>1. CASE d = c
    <3>1. calls'[d] = next
      BY <1>1, <2>1
    <3> QED BY <1>3, <3>1 DEF CallTidy
  <2>2. CASE d # c
    <3>1. calls'[d] = calls[d] /\ CallTidy(d)
      BY <1>1, <1>3, <2>2 DEF CallsTidy
    <3>2. newest["create"] = d => newest'["create"] = d
      BY <1>1, <1>2, <2>2
    <3> QED BY <3>1, <3>2 DEF CallTidy
  <2> QED BY <2>1, <2>2
<1>4. newest' = [m \in W!Mutations |-> newest'[m]]
  BY <1>1
<1> QED BY <1>3, <1>4 DEF CallsTidy

(* One request is served or fails, and no item that another is to create is put in.  *)
LEMMA MovedTidy ==
    ASSUME BenchShape, CallsTidy, NEW c \in Calls, calls[c] # NoData, NEW r, calls' = [calls EXCEPT ![c] = r],
           r.kind = calls[c].kind, r.act = calls[c].act, r.before = calls[c].before, r.at # "asked",
           newest' = newest,
           \A d \in Calls : /\ d # c /\ calls[d] # NoData /\ calls[d].kind = "create" /\ calls[d].at = "asked"
                            /\ ~ W!Contains(order, calls[d].item)
                            => ~ W!Contains(order, calls[d].item)'
    PROVE  CallsTidy'
<1>1. calls' = [d \in Calls |-> IF d = c THEN r ELSE calls[d]]
  BY DEF BenchShape
<1>2. ASSUME NEW d \in Calls, calls'[d] # NoData PROVE CallTidy(d)'
  <2>1. CASE d = c
    <3>1. calls'[d] = r /\ CallTidy(c)
      BY <1>1, <2>1 DEF CallsTidy
    <3> QED BY <2>1, <3>1 DEF CallTidy
  <2>2. CASE d # c
    <3>1. calls'[d] = calls[d] /\ CallTidy(d)
      BY <1>1, <1>2, <2>2 DEF CallsTidy
    <3>2. calls[d].kind = "create" /\ calls[d].at = "asked" => ~ W!Contains(order, calls[d].item)'
      BY <1>2, <2>2, <3>1 DEF CallTidy
    <3>3. W!Contains(order, calls[d].item)' = W!Contains(order', calls'[d].item)
      BY <3>1 DEF W!Contains
    <3> QED BY <3>1, <3>2, <3>3 DEF CallTidy
  <2> QED BY <2>1, <2>2
<1> QED BY <1>2 DEF CallsTidy

(* What the page's user does.                                                     *)
LEMMA SelectTidy ==
    ASSUME BenchShape, TidyInv, NEW i, NEW fresh, W!SelectItem(i, fresh)
    PROVE  TidyInv'
<1>1. i \in W!Items
  BY ShownSeq, ListedItem DEF W!SelectItem
<1>2. /\ UNCHANGED <<order, list, told, missed>> /\ selected' = i
  BY DEF W!SelectItem, W!server, W!socket, W!Selects
<1>3. CallsTidy' /\ guard' = guard
  <2>1. CASE W!StartsOnSwitch(i)
    <3>1. W!Opens(i).kind \in {"poll", "board"} /\ W!Send(W!Opens(i)) /\ CallOK(W!Opens(i))
      BY <1>1, <2>1, OpensOK DEF W!SelectItem, W!Opens, W!NewCall
    <3> QED BY <1>2, <3>1, SendTidy DEF TidyInv
  <2>2. CASE ~ W!StartsOnSwitch(i)
    BY <1>2, <2>2 DEF W!SelectItem, W!wire, TidyInv, CallsTidy, CallTidy
  <2> QED BY <2>1, <2>2
<1> QED BY <1>1, <1>2, <1>3 DEF TidyInv, PlaceTidy, ListTidy

LEMMA PressTidy ==
    ASSUME BenchShape, TidyInv, NEW r, CallOK(r), W!Presses(r), r.kind \in {"poll", "board", "session"}
    PROVE  TidyInv'
<1>1. /\ UNCHANGED <<order, list, told, missed, selected>> /\ W!Send(r)
  BY DEF W!Presses, W!server, W!cache, W!socket, W!place
<1>2. CallsTidy' /\ guard' = guard
  BY <1>1, SendTidy DEF TidyInv
<1> QED BY <1>1, <1>2 DEF TidyInv, PlaceTidy, ListTidy

LEMMA HostTidy == ASSUME BenchShape, TidyInv, W!Host PROVE TidyInv'
<1>1. ASSUME NEW i, NEW fresh, W!SelectItem(i, fresh) PROVE TidyInv'
  BY <1>1, SelectTidy
<1>2. ASSUME NEW step, NEW fresh, W!GoBy(step, fresh) PROVE TidyInv'
  BY <1>2, SelectTidy DEF W!GoBy
<1>3. CASE W!ToggleAuto
  BY <1>3 DEF W!ToggleAuto, TidyInv, PlaceTidy, ListTidy, CallsTidy, CallTidy, W!server, W!cache, W!wire,
              W!socket, W!trace
<1>4. ASSUME NEW act \in W!PollActs, W!PressPoll(act) PROVE TidyInv'
  <2>1. W!NewCall("poll", W!Current, act).kind = "poll"
    BY DEF W!NewCall
  <2> QED BY <1>4, <2>1, NewCallOK, PressTidy DEF W!PressPoll
<1>5. CASE W!PressBoard
  <2>1. PICK act \in W!BoardActs : W!Presses(W!NewCall("board", W!Current, act)) /\ W!Current \in Boards
    BY <1>5 DEF W!PressBoard, W!BoardActs
  <2>2. W!NewCall("board", W!Current, act).kind = "board"
    BY DEF W!NewCall
  <2> QED BY <2>1, <2>2, NewCallOK, PressTidy
<1>6. CASE W!PressSession
  <2>1. PICK act \in {"live", "ended"} : W!Presses(W!NewCall("session", none, act))
    BY <1>6 DEF W!PressSession
  <2>2. W!NewCall("session", none, act).kind = "session"
    BY DEF W!NewCall
  <2> QED BY <2>1, <2>2, NewCallOK, PressTidy
<1>7. ASSUME NEW from \in DOMAIN W!Shown, NEW to \in DOMAIN W!Shown, W!Reorder(from, to)
      PROVE TidyInv'
  <2>1. W!Moved(from, to) \in Seq(W!Items) /\ list.data \in W!Lists /\ ListOK(list)
    BY ShownSeq, MovedSeq DEF BenchShape, ListOK
  <2>2. OneEach(W!Moved(from, to)) /\ OneEach(list.data.order)
    <3>1. OneEach(W!Shown) /\ W!Shown \in Seq(W!Items)
      BY ShownSeq DEF TidyInv, ListTidy, W!Shown
    <3> QED BY <3>1, MovedOnce DEF W!Shown
  <2>3. PICK n : n = [list.data EXCEPT !.order = W!Moved(from, to)]
    OBVIOUS
  <2>4. n \in W!Lists /\ OneEach(n.order)
    BY <2>1, <2>2, <2>3 DEF W!Lists
  <2>5. ListTidy(list')
    <3>1. list' = W!Written(W!Cancelled(list), n)
      BY <1>7, <2>3 DEF W!Reorder
    <3>2. ListOK(W!Cancelled(list)) /\ ListTidy(W!Cancelled(list))
      <4> HIDE DEF W!Lists
      <4> QED BY <2>1, ListMoves, ListTidyMoves DEF TidyInv
    <3> QED BY <2>4, <3>1, <3>2, ListTidyMoves
  <2>6. PICK r : r = [W!NewCall("reorder", none, W!Moved(from, to)) EXCEPT !.before = list.data]
    OBVIOUS
  <2>7. CallOK(r)
    BY <2>1, <2>6, NewCallOK
  <2>8. r.kind = "reorder" /\ r.act = W!Moved(from, to) /\ r.before = list.data
    BY <2>6 DEF W!NewCall
  <2>9. W!Send(r) /\ UNCHANGED <<order, told, missed, selected>>
    BY <1>7, <2>6 DEF W!Reorder, W!server, W!place, W!socket, W!trace
  <2>10. CallsTidy' /\ guard' = guard
    BY <2>2, <2>7, <2>8, <2>9, SendTidy DEF TidyInv
  <2>11. ListTidy(list)'
    BY <2>5 DEF ListTidy
  <2> QED BY <2>9, <2>10, <2>11 DEF TidyInv, PlaceTidy
<1>8. ASSUME NEW i \in W!Items, W!Create(i) PROVE TidyInv'
  <2>1. PICK r : r = W!NewCall("create", i, "create")
    OBVIOUS
  <2>2. CallOK(r) /\ r.kind = "create" /\ r.item = i
    BY <2>1, NewCallOK DEF W!NewCall
  <2>3. /\ W!Send(r) /\ UNCHANGED <<order, list, told, missed, selected>>
        /\ newest["create"] = 0 /\ ~ W!Contains(order, i)
    BY <1>8, <2>1 DEF W!Create, W!Fresh, W!server, W!cache, W!place, W!socket, W!Pending
  <2>4. CallsTidy' /\ guard' = guard
    BY <2>2, <2>3, SendTidy DEF TidyInv
  <2> QED BY <2>3, <2>4 DEF TidyInv, PlaceTidy, ListTidy
<1>9. CASE W!Delete
  <2>1. PICK r : r = W!NewCall("delete", W!Current, "delete")
    OBVIOUS
  <2>2. CallOK(r) /\ r.kind = "delete"
    <3>1. W!Current \in W!Items
      BY <1>9, ShownSeq, ListedItem DEF W!Delete, W!Current
    <3> QED BY <2>1, <3>1, NewCallOK DEF W!NewCall
  <2>3. W!Send(r) /\ UNCHANGED <<order, list, told, missed, selected>>
    BY <1>9, <2>1 DEF W!Delete, W!server, W!cache, W!place, W!socket
  <2>4. CallsTidy' /\ guard' = guard
    BY <2>2, <2>3, SendTidy DEF TidyInv
  <2> QED BY <2>3, <2>4 DEF TidyInv, PlaceTidy, ListTidy
<1> QED BY <1>1, <1>2, <1>3, <1>4, <1>5, <1>6, <1>7, <1>8, <1>9 DEF W!Host

LEMMA AppendedFew ==
    ASSUME NEW X, NEW s \in Seq(X), NEW e \in X, NEW i, i # e, ~ W!Contains(s, i)
    PROVE  ~ W!Contains(Append(s, e), i)
<1>1. PICK r : r = Append(s, e)
  OBVIOUS
<1>2. /\ r \in Seq(X) /\ Len(r) = Len(s) + 1 /\ Len(s) \in Nat /\ r[Len(s) + 1] = e
      /\ \A k \in 1 .. Len(s) : r[k] = s[k] /\ s[k] # i
  BY <1>1, AppendProperties, LenProperties DEF W!Contains
<1>3. DOMAIN r = 1 .. Len(s) + 1 /\ \A k \in 1 .. Len(s) + 1 : k \in 1 .. Len(s) \/ k = Len(s) + 1
  BY <1>2, LenProperties
<1> QED BY <1>1, <1>2, <1>3 DEF W!Contains

LEMMA WithoutFew ==
    ASSUME NEW X, NEW s \in Seq(X), NEW i, NEW j, W!Contains(W!Without(s, i), j) PROVE W!Contains(s, j)
<1>1. CASE W!Contains(s, i)
  <2>1. PICK n : n = W!Position(s, i)
    OBVIOUS
  <2>2. n \in 1 .. Len(s) /\ DOMAIN s = 1 .. Len(s) /\ Len(s) \in Nat
    BY <1>1, <2>1, LenProperties DEF W!Contains, W!Position
  <2>3. PICK r : r = W!RemoveAt(s, n)
    OBVIOUS
  <2>4. /\ r \in Seq(X) /\ Len(r) = Len(s) - 1
        /\ \A k \in 1 .. Len(s) - 1 : r[k] = s[IF k < n THEN k ELSE k + 1]
    <3>1. /\ W!RemoveAt(s, n) \in Seq(X) /\ Len(W!RemoveAt(s, n)) = Len(s) - 1
          /\ \A k \in 1 .. Len(s) - 1 : W!RemoveAt(s, n)[k] = s[IF k < n THEN k ELSE k + 1]
      BY <2>2, RemovedAt
    <3> QED BY <2>3, <3>1, Zenon
  <2>5. W!Without(s, i) = r
    BY <1>1, <2>1, <2>3 DEF W!Without
  <2>6. PICK k \in 1 .. Len(s) - 1 : r[k] = j
    <3>1. DOMAIN r = 1 .. Len(s) - 1
      BY <2>2, <2>4, LenProperties
    <3> QED BY <2>5, <3>1 DEF W!Contains
  <2>7. (IF k < n THEN k ELSE k + 1) \in 1 .. Len(s)
    BY <2>2
  <2> QED BY <2>2, <2>4, <2>6, <2>7 DEF W!Contains
<1>2. CASE ~ W!Contains(s, i)
  BY <1>2 DEF W!Without
<1> QED BY <1>1, <1>2

(* The server: the events it sends, and the order that it keeps.                    *)
LEMMA AppliesTidy ==
    ASSUME BenchShape, TidyInv, NEW r, CallOK(r), NEW mine \in BOOLEAN, W!Applies(r, mine),
           r.kind = "reorder" => OneEach(r.act) /\ W!ToSet(r.act) = W!ToSet(order),
           r.kind = "create" => ~ W!Contains(order, r.item)
    PROVE  /\ OneEach(order') /\ told' \in Seq(Events)
           /\ r.kind # "create" => \A i : W!Contains(order', i) => W!Contains(order, i)
<1>0. OneEach(order) /\ told \in Seq(Events) /\ order \in Seq(W!Items)
  BY DEF TidyInv, BenchShape
<1>1. CASE r.kind \in {"poll", "board"}
  <2>1. told' = told \o W!Said(r, mine) /\ order' = order
    BY <1>1 DEF W!Applies
  <2>2. W!Said(r, mine) \in Seq(Events)
    BY <1>1, SaidIs
  <2>3. told \o W!Said(r, mine) \in Seq(Events)
    <3> HIDE DEF Events
    <3> QED BY <1>0, <2>2, JoinedSeq
  <2> QED BY <1>0, <2>1, <2>3
<1>2. CASE r.kind \in {"session", "golive"}
  BY <1>0, <1>2 DEF W!Applies
<1>3. CASE r.kind = "reorder"
  <2>1. order' = r.act /\ told' = told /\ r.act \in Seq(W!Items)
    BY <1>3 DEF W!Applies, CallOK
  <2>2. \A i : W!Contains(r.act, i) => W!Contains(order, i)
    BY <1>0, <1>3, <2>1, SameItems
  <2> QED BY <1>0, <1>3, <2>1, <2>2
<1>4. CASE r.kind = "create"
  <2>1. order' = Append(order, r.item) /\ told' = told /\ r.item \in W!Items
    BY <1>4 DEF W!Applies, CallOK
  <2>2. OneEach(Append(order, r.item))
    BY <1>0, <1>4, <2>1, AppendedOnce
  <2> QED BY <1>0, <1>4, <2>1, <2>2
<1>5. CASE r.kind = "delete"
  <2>1. order' = W!Without(order, r.item) /\ told' = told
    BY <1>5 DEF W!Applies
  <2>2. OneEach(W!Without(order, r.item))
    BY <1>0, WithoutOnce
  <2>3. \A i : W!Contains(W!Without(order, r.item), i) => W!Contains(order, i)
    BY <1>0, WithoutFew
  <2> QED BY <1>0, <2>1, <2>2, <2>3
<1> QED BY <1>1, <1>2, <1>3, <1>4, <1>5, CallIs DEF W!Kinds

LEMMA ServeTidy == ASSUME BenchShape, TidyInv, NEW c \in Calls, W!Serve(c) PROVE TidyInv'
<1>1. /\ calls[c] # NoData /\ CallOK(calls[c]) /\ CallTidy(c) /\ calls[c].at = "asked"
      /\ UNCHANGED <<list, selected, newest, guard, missed>>
  BY DEF W!Serve, W!cache, W!place, W!trace, BenchShape, TidyInv, CallsTidy
<1>2. CASE W!Refused(calls[c])
  <2>1. UNCHANGED <<order, told>> /\ calls' = [calls EXCEPT ![c] = [@ EXCEPT !.at = "failed"]]
    BY <1>2 DEF W!Serve, W!server
  <2>2. PICK n : n = [calls[c] EXCEPT !.at = "failed"]
    OBVIOUS
  <2>3. n.kind = calls[c].kind /\ n.act = calls[c].act /\ n.before = calls[c].before /\ n.at = "failed"
    BY <1>1, <2>2, CallIs
  <2>4. calls' = [calls EXCEPT ![c] = n]
    BY <2>1, <2>2 DEF BenchShape
  <2>5. CallsTidy'
    <3>1. ASSUME NEW d \in Calls, d # c, ~ W!Contains(order, calls[d].item)
          PROVE  ~ W!Contains(order, calls[d].item)'
      <4>1. calls'[d] = calls[d] /\ order' = order
        BY <2>1, <2>4, <3>1 DEF BenchShape
      <4> QED BY <3>1, <4>1 DEF W!Contains
    <3> QED BY <1>1, <2>1, <2>3, <2>4, <3>1, MovedTidy DEF TidyInv
  <2> QED BY <1>1, <2>1, <2>5 DEF TidyInv, PlaceTidy, ListTidy
<1>3. CASE ~ W!Refused(calls[c])
  <2>1. PICK x : calls' = [calls EXCEPT ![c].at = "done", ![c].reply = x]
    BY <1>3 DEF W!Serve
  <2>2. PICK n : n = [[calls[c] EXCEPT !.at = "done"] EXCEPT !.reply = x]
    OBVIOUS
  <2>3. n.kind = calls[c].kind /\ n.act = calls[c].act /\ n.before = calls[c].before /\ n.at = "done"
    BY <1>1, <2>2, CallIs
  <2>4. calls' = [calls EXCEPT ![c] = n]
    BY <2>1, <2>2 DEF BenchShape
  <2>5. W!Applies(calls[c], TRUE)
    BY <1>3 DEF W!Serve
  <2>6. calls[c].kind = "reorder" => OneEach(calls[c].act) /\ W!ToSet(calls[c].act) = W!ToSet(order)
    BY <1>1, <1>3 DEF CallTidy, W!Refused
  <2>7. calls[c].kind = "create" => ~ W!Contains(order, calls[c].item)
    BY <1>1 DEF CallTidy
  <2>8. /\ OneEach(order') /\ told' \in Seq(Events)
        /\ calls[c].kind # "create" => \A i : W!Contains(order', i) => W!Contains(order, i)
    BY <1>1, <2>5, <2>6, <2>7, AppliesTidy
  <2>9. ASSUME NEW d \in Calls, d # c, calls[d] # NoData, calls[d].kind = "create", calls[d].at = "asked",
               ~ W!Contains(order, calls[d].item)
        PROVE  ~ W!Contains(order, calls[d].item)'
    <3>1. calls[c].kind # "create"
      BY <1>1, <2>9 DEF TidyInv, CallsTidy, CallTidy
    <3>2. calls'[d] = calls[d]
      BY <2>4, <2>9 DEF BenchShape
    <3>3. ~ W!Contains(order', calls[d].item)
      BY <2>8, <2>9, <3>1
    <3> QED BY <3>2, <3>3 DEF W!Contains
  <2>10. CallsTidy'
    BY <1>1, <2>3, <2>4, <2>9, MovedTidy DEF TidyInv
  <2> QED BY <1>1, <2>8, <2>10 DEF TidyInv, PlaceTidy, ListTidy, OneEach, W!IsInjective
<1> QED BY <1>2, <1>3

LEMMA RivalTidy ==
    ASSUME BenchShape, TidyInv, NEW kind \in {"poll", "board"}, NEW i, NEW act, W!Rival(kind, i, act),
           CallOK(W!NewCall(kind, i, act))
    PROVE  TidyInv'
<1>1. PICK r : r = W!NewCall(kind, i, act)
  OBVIOUS
<1>2. CallOK(r) /\ r.kind \in {"poll", "board"}
  BY <1>1 DEF W!NewCall
<1>3. W!Applies(r, FALSE) /\ UNCHANGED <<list, selected, calls, newest, guard, missed>>
  BY <1>1 DEF W!Rival, W!EditsList, W!cache, W!place, W!wire
<1>4. order' = order
  BY <1>2, <1>3 DEF W!Applies
<1>5. told' \in Seq(Events)
  BY <1>2, <1>3, AppliesTidy
<1> QED BY <1>3, <1>4, <1>5 DEF TidyInv, PlaceTidy, ListTidy, CallsTidy, CallTidy, W!Contains

LEMMA EditsOnce ==
    ASSUME BenchShape, OneEach(order), NEW kind, NEW i, NEW act, Edited(kind, i, act)
    PROVE  /\ OneEach(order')
           /\ \A d \in Calls : calls[d] # NoData /\ calls[d].kind = "create"
                             /\ ~ W!Contains(order, calls[d].item)
                             => ~ W!Contains(order', calls[d].item)
<1>1. PICK r : r = W!NewCall(kind, i, act)
  OBVIOUS
<1>2. r.kind = kind /\ r.item = i /\ r.act = act
  BY <1>1 DEF W!NewCall
<1>3. kind \in {"create", "delete", "reorder"} /\ order \in Seq(W!Items)
  BY DEF Edited, BenchShape
<1>4. W!Applies(r, FALSE) /\ ~ W!Refused(r)
  BY <1>1 DEF Edited, W!Rival
<1>5. CASE kind = "create"
  <2>1. order' = Append(order, i) /\ i \in W!Items /\ W!Fresh(i)
    BY <1>2, <1>4, <1>5 DEF W!Applies, Edited
  <2>2. ~ W!Contains(order, i) /\ \A c \in Calls : calls[c] # NoData /\ calls[c].kind = "create"
                                                 => calls[c].item # i
    BY <2>1 DEF W!Fresh
  <2>3. OneEach(Append(order, i))
    BY <1>3, <2>1, <2>2, AppendedOnce
  <2>4. \A j : j # i /\ ~ W!Contains(order, j) => ~ W!Contains(Append(order, i), j)
    BY <1>3, <2>1, AppendedFew
  <2> QED BY <2>1, <2>2, <2>3, <2>4
<1>6. CASE kind = "delete"
  <2>1. order' = W!Without(order, i)
    BY <1>2, <1>4, <1>6 DEF W!Applies
  <2> QED BY <1>3, <2>1, WithoutOnce, WithoutFew
<1>7. CASE kind = "reorder"
  <2>1. order' = act
    BY <1>2, <1>4, <1>7 DEF W!Applies
  <2>2. PICK from \in DOMAIN order, to \in DOMAIN order : act = W!Rearranged(order, from, to)
    BY <1>7 DEF Edited
  <2>3. OneEach(act) /\ act \in Seq(W!Items)
    BY <1>3, <2>2, RearrangedSeq, RearrangedOnce
  <2>4. W!ToSet(act) = W!ToSet(order)
    BY <1>2, <1>4, <1>7 DEF W!Refused
  <2>5. \A j : W!Contains(act, j) => W!Contains(order, j)
    BY <1>3, <2>3, <2>4, SameItems
  <2> QED BY <2>1, <2>3, <2>5
<1> QED BY <1>3, <1>5, <1>6, <1>7

LEMMA EditsTidy ==
    ASSUME BenchShape, TidyInv, NEW kind, NEW i, NEW act, Edited(kind, i, act) PROVE TidyInv'
<1>1. /\ UNCHANGED <<told, list, selected, calls, newest, guard>>
      /\ missed' \in {missed, missed \cup {none}}
  BY EditsDo
<1>2. OneEach(order')
  BY EditsOnce DEF TidyInv
<1>3. CallsTidy'
  <2>1. ASSUME NEW d \in Calls, calls[d] # NoData PROVE CallTidy(d)'
    <3>1. CallTidy(d)
      BY <2>1 DEF TidyInv, CallsTidy
    <3>2. calls[d].kind = "create" /\ ~ W!Contains(order, calls[d].item)
          => ~ W!Contains(order', calls[d].item)
      BY <2>1, EditsOnce DEF TidyInv
    <3>3. W!Contains(order, calls[d].item)' = W!Contains(order', calls[d].item)
      BY <1>1 DEF W!Contains
    <3> QED BY <1>1, <3>1, <3>2, <3>3 DEF CallTidy
  <2> QED BY <1>1, <2>1 DEF TidyInv, CallsTidy
<1> QED BY <1>1, <1>2, <1>3 DEF TidyInv, PlaceTidy, ListTidy, OneEach, W!IsInjective

(* The answers.                                                                  *)
LEMMA NeighbourIs == ASSUME BenchShape, NEW i PROVE W!Neighbour(i) \in W!Items \cup {none}
<1>1. PICK rest : rest = W!Without(W!Shown, i)
  OBVIOUS
<1>2. rest \in Seq(W!Items)
  BY <1>1, ShownSeq, WithoutSeq
<1>3. CASE rest = <<>>
  BY <1>1, <1>3 DEF W!Neighbour
<1>4. CASE rest # <<>>
  <2>1. PICK at : at = IF W!Contains(W!Shown, i) THEN W!Position(W!Shown, i) ELSE 1
    OBVIOUS
  <2>2. at \in Nat \ {0}
    <3>1. DOMAIN W!Shown = 1 .. Len(W!Shown) /\ Len(W!Shown) \in Nat
      BY ShownSeq, LenProperties
    <3>2. W!Contains(W!Shown, i) => W!Position(W!Shown, i) \in 1 .. Len(W!Shown)
      BY <3>1 DEF W!Contains, W!Position
    <3> QED BY <2>1, <3>1, <3>2
  <2>3. Len(rest) \in Nat /\ Len(rest) # 0
    BY <1>2, <1>4, LenProperties, EmptySeq
  <2>4. (IF at > Len(rest) THEN Len(rest) ELSE at) \in 1 .. Len(rest)
    BY <2>2, <2>3
  <2>5. W!Neighbour(i) = rest[IF at > Len(rest) THEN Len(rest) ELSE at]
    BY <1>1, <1>4, <2>1 DEF W!Neighbour
  <2> QED BY <1>2, <2>4, <2>5, ElementOfSeq
<1> QED BY <1>3, <1>4

LEMMA EndsTidy == ASSUME BenchShape, TidyInv, NEW c \in Calls, W!Ends(c) \/ W!Lose(c) PROVE TidyInv'
<1>0. ListOK(list) /\ ListTidy(list) /\ CallsTidy
  BY DEF BenchShape, TidyInv
<1>1. CASE W!Done(c)
  <2>1. calls[c] # NoData /\ CallOK(calls[c]) /\ UNCHANGED <<order, told>>
    BY <1>1 DEF W!Done, BenchShape, W!server, W!socket
  <2>2. ListTidy(list')
    <3>1. list' \in {W!Refetched(list), list}
      BY <1>1 DEF W!Done
    <3> QED BY <1>0, <3>1, ListTidyMoves
  <2>3. PICK next : W!Ended(c, next) /\ (next = NoData \/ next.kind = "golive")
    <3>1. W!NewCall("golive", none, "live").kind = "golive"
      BY DEF W!NewCall
    <3> QED BY <1>1, <3>1 DEF W!Done
  <2>4. CallsTidy'
    BY <1>0, <2>1, <2>3, EndedTidy
  <2>5. selected' \in W!Items \cup {none}
    <3>1. CASE calls[c].kind = "create"
      <4>1. \E fresh \in BOOLEAN : W!Selects(calls[c].item, fresh)
        BY <1>1, <3>1 DEF W!Done
      <4> QED BY <2>1, <3>1, <4>1 DEF W!Selects, CallOK
    <3>2. CASE calls[c].kind = "delete"
      <4>1. \E fresh \in BOOLEAN : W!Selects(W!Neighbour(calls[c].item), fresh)
        BY <1>1, <3>2 DEF W!Done
      <4> QED BY <4>1, NeighbourIs DEF W!Selects
    <3>3. CASE calls[c].kind \notin {"create", "delete"}
      BY <1>1, <3>3 DEF W!Done, TidyInv, PlaceTidy
    <3> QED BY <3>1, <3>2, <3>3
  <2>6. guard' \subseteq Polls /\ missed' \subseteq Polls \cup {none}
    <3>1. guard' \in {guard, guard \cup {calls[c].item}} /\ (calls[c].kind # "poll" => guard' = guard)
      BY <1>1 DEF W!Done
    <3>2. missed' \in {missed, missed \cup {calls[c].item}} /\ (calls[c].kind # "poll" => missed' = missed)
      BY <1>1 DEF W!Done
    <3> QED BY <2>1, <3>1, <3>2 DEF TidyInv, PlaceTidy, CallOK
  <2> QED BY <2>1, <2>2, <2>4, <2>5, <2>6 DEF TidyInv, PlaceTidy, ListTidy
<1>2. CASE W!Failed(c)
  <2>1. W!Ended(c, NoData) /\ UNCHANGED <<order, told, list, selected, guard, missed>>
    BY <1>2 DEF W!Failed, W!server, W!cache, W!place, W!socket, W!trace
  <2>2. CallsTidy'
    BY <1>0, <2>1, EndedTidy
  <2> QED BY <2>1, <2>2 DEF TidyInv, PlaceTidy, ListTidy
<1>3. CASE W!Reordered(c)
  <2>1. W!Ended(c, NoData) /\ UNCHANGED <<order, told, selected, guard, missed>>
    BY <1>3 DEF W!Reordered, W!server, W!place, W!socket, W!trace
  <2>2. CallsTidy'
    BY <1>0, <2>1, EndedTidy
  <2>3. ListTidy(list')
    <3>1. CallOK(calls[c]) /\ calls[c].kind = "reorder" /\ CallTidy(c)
      BY <1>0, <1>3 DEF W!Reordered, BenchShape, CallsTidy
    <3>2. calls[c].before \in W!Lists /\ OneEach(calls[c].before.order)
      BY <3>1 DEF CallOK, CallTidy
    <3>3. ListOK(W!Written(list, calls[c].before)) /\ ListTidy(W!Written(list, calls[c].before))
      <4> HIDE DEF W!Lists
      <4> QED BY <1>0, <3>2, ListMoves, ListTidyMoves
    <3>4. list' \in {W!Refetched(W!Written(list, calls[c].before)), W!Refetched(list)}
      BY <1>3 DEF W!Reordered, W!ReadAgain
    <3> QED BY <1>0, <3>3, <3>4, ListTidyMoves
  <2> QED BY <2>1, <2>2, <2>3 DEF TidyInv, PlaceTidy, ListTidy
<1>4. CASE W!Lose(c)
  <2>1. /\ calls[c] # NoData /\ CallOK(calls[c]) /\ calls' = [calls EXCEPT ![c] = [@ EXCEPT !.at = "failed"]]
        /\ UNCHANGED <<order, told, list, selected, newest, guard>>
    BY <1>4 DEF W!Lose, BenchShape, W!server, W!cache, W!place, W!socket
  <2>2. PICK n : n = [calls[c] EXCEPT !.at = "failed"]
    OBVIOUS
  <2>3. n.kind = calls[c].kind /\ n.act = calls[c].act /\ n.before = calls[c].before /\ n.at = "failed"
    BY <2>1, <2>2, CallIs
  <2>4. calls' = [calls EXCEPT ![c] = n]
    BY <2>1, <2>2 DEF BenchShape
  <2>5. CallsTidy'
    <3>1. ASSUME NEW d \in Calls, d # c, ~ W!Contains(order, calls[d].item)
          PROVE  ~ W!Contains(order, calls[d].item)'
      <4>1. calls'[d] = calls[d] /\ order' = order
        BY <2>1, <2>4, <3>1 DEF BenchShape
      <4> QED BY <3>1, <4>1 DEF W!Contains
    <3> QED BY <1>0, <2>1, <2>3, <2>4, <3>1, MovedTidy
  <2>6. missed' \subseteq Polls \cup {none}
    <3>1. \/ missed' \in {missed, missed \cup {none}}
          \/ missed' = missed \cup {calls[c].item} /\ calls[c].kind = "poll"
      BY <1>4 DEF W!Lose
    <3> QED BY <2>1, <3>1 DEF TidyInv, PlaceTidy, CallOK
  <2> QED BY <2>1, <2>5, <2>6 DEF TidyInv, PlaceTidy, ListTidy
<1> QED BY <1>1, <1>2, <1>3, <1>4 DEF W!Ends

(* The events and the fetches.                                                    *)
LEMMA ToldHead ==
    ASSUME told \in Seq(Events), told # <<>>
    PROVE  /\ Head(told) \in Events /\ Tail(told) \in Seq(Events)
           /\ Len(told) \in Nat \ {0} /\ Len(Tail(told)) = Len(told) - 1 /\ Head(told) = told[1]
           /\ \A k \in 1 .. Len(told) - 1 : Tail(told)[k] = told[k + 1]
<1> HIDE DEF Events
<1>1. \A k \in 1 .. Len(told) - 1 : Tail(told)[k] = told[k + 1]
  BY HeadTailProperties
<1>2. Len(told) \in Nat \ {0}
  BY LenProperties, EmptySeq
<1> QED BY <1>1, <1>2, HeadTailProperties

LEMMA FetchesTidy ==
    ASSUME BenchShape, TidyInv,
           \/ W!Deliver \/ W!LoseEvent \/ W!Link \/ W!Open \/ (\E p \in Polls : W!GuardEnds(p))
           \/ (\E t \in W!Targets : W!Backup(t) \/ W!AnswerFetch(t) \/ W!StoreFetch(t) \/ W!LoseFetch(t))
           \/ UNCHANGED W!vars
    PROVE  TidyInv'
<1>1. UNCHANGED <<order, calls, newest, selected>> /\ BenchShape'
  BY FetchesShape DEF W!Deliver, W!LoseEvent, W!Link, W!Open, W!GuardEnds, W!Backup, W!AnswerFetch,
         W!StoreFetch, W!LoseFetch, W!vars, W!server, W!wire, W!place
<1>2. CallsTidy'
  BY <1>1 DEF TidyInv, CallsTidy, CallTidy, W!Contains
<1>3. ListOK(list) /\ ListTidy(list)
  BY DEF BenchShape, TidyInv
<1>4. CASE W!Deliver
  <2>1. Head(told) \in Events /\ told' = Tail(told) /\ Tail(told) \in Seq(Events) /\ guard' = guard
    BY <1>4, ToldHead DEF W!Deliver, TidyInv, W!wire
  <2>2. list' \in {W!Refetched(list), list} /\ missed' \in {missed, missed \cup {Head(told).poll}}
    BY <1>4 DEF W!Deliver
  <2>3. ListTidy(list')
    BY <1>3, <2>2, ListTidyMoves
  <2>4. missed' \subseteq Polls \cup {none}
    BY <2>1, <2>2 DEF TidyInv, PlaceTidy, Events
  <2>5. told' \in Seq(Events)
    BY <2>1
  <2> HIDE DEF Events
  <2> QED BY <1>1, <1>2, <2>1, <2>3, <2>4, <2>5 DEF TidyInv, PlaceTidy, ListTidy
<1>5. CASE W!LoseEvent
  <2>1. Head(told) \in Events /\ told' = Tail(told) /\ Tail(told) \in Seq(Events) /\ UNCHANGED <<guard, list>>
        /\ missed' = missed \cup {Head(told).poll}
    BY <1>5, ToldHead DEF W!LoseEvent, TidyInv, W!wire, W!cache
  <2>2. missed' \subseteq Polls \cup {none}
    BY <2>1 DEF TidyInv, PlaceTidy, Events
  <2>3. told' \in Seq(Events)
    BY <2>1
  <2> HIDE DEF Events
  <2> QED BY <1>1, <1>2, <2>1, <2>2, <2>3 DEF TidyInv, PlaceTidy, ListTidy
<1>6. CASE W!Link \/ W!Open \/ UNCHANGED W!vars
  <2>1. UNCHANGED <<guard, list, told, missed>>
    BY <1>6 DEF W!Link, W!Open, W!vars, W!cache, W!wire, W!trace, W!socket
  <2> QED BY <1>1, <1>2, <2>1 DEF TidyInv, PlaceTidy, ListTidy
<1>7. ASSUME NEW p \in Polls, W!GuardEnds(p) PROVE TidyInv'
  <2>1. UNCHANGED <<list, told, missed>> /\ guard' \subseteq guard
    BY <1>7 DEF W!GuardEnds, W!cache, W!trace, W!socket
  <2> QED BY <1>1, <1>2, <2>1 DEF TidyInv, PlaceTidy, ListTidy
<1>8. ASSUME NEW t, W!Backup(t) PROVE TidyInv'
  <2>1. list' \in {W!Fetched(list), list} /\ UNCHANGED <<guard, told, missed>>
    BY <1>8 DEF W!Backup, W!wire, W!socket, W!trace
  <2>2. ListTidy(list')
    BY <1>3, <2>1, ListTidyMoves
  <2> QED BY <1>1, <1>2, <2>1, <2>2 DEF TidyInv, PlaceTidy, ListTidy
<1>9. ASSUME NEW t, W!AnswerFetch(t) PROVE TidyInv'
  <2>1. list' \in {W!Answered(list, W!Listing), list}
    <3>1. CASE t = "list"
      BY <1>9, <3>1 DEF W!AnswerFetch
    <3>2. CASE t = "session"
      BY <1>9, <3>2 DEF W!AnswerFetch
    <3>3. CASE t # "list" /\ t # "session"
      BY <1>9, <3>3 DEF W!AnswerFetch
    <3> QED BY <3>1, <3>2, <3>3
  <2>2. UNCHANGED <<guard, told, missed>>
    BY <1>9 DEF W!AnswerFetch, W!wire, W!socket, W!trace
  <2>3. W!Listing \in W!Lists /\ OneEach(W!Listing.order)
    BY ListingOK DEF TidyInv, W!Listing
  <2>4. ListTidy(list')
    <3> HIDE DEF W!Lists, W!Listing
    <3> QED BY <1>3, <2>1, <2>3, ListTidyMoves
  <2> QED BY <1>1, <1>2, <2>2, <2>4 DEF TidyInv, PlaceTidy, ListTidy
<1>10. ASSUME NEW t \in W!Targets, W!StoreFetch(t) PROVE TidyInv'
  <2>1. list' = list \/ (list.fetch = "answered" /\ list' = W!Stored(list))
    <3>1. CASE t = "list"
      BY <1>10, <3>1 DEF W!StoreFetch
    <3>2. CASE t = "session"
      BY <1>10, <3>2 DEF W!StoreFetch
    <3>3. CASE t # "list" /\ t # "session"
      BY <1>10, <3>3 DEF W!StoreFetch
    <3> QED BY <3>1, <3>2, <3>3
  <2>2. ListTidy(list')
    BY <1>3, <2>1, ListTidyMoves
  <2>3. UNCHANGED <<guard, told>>
    BY <1>10 DEF W!StoreFetch, W!wire, W!socket
  <2>4. missed' \subseteq missed \cup Polls
    <3>1. CASE t = "list"
      BY <1>10, <3>1 DEF W!StoreFetch
    <3>2. CASE t = "session"
      BY <1>10, <3>2 DEF W!StoreFetch
    <3>3. CASE t # "list" /\ t # "session"
      BY <1>10, <3>3 DEF W!StoreFetch, W!Targets
    <3> QED BY <3>1, <3>2, <3>3
  <2> QED BY <1>1, <1>2, <2>2, <2>3, <2>4 DEF TidyInv, PlaceTidy, ListTidy
<1>11. ASSUME NEW t \in W!Targets, W!LoseFetch(t) PROVE TidyInv'
  <2>1. ListTidy(list')
    BY <1>3, <1>11, LostFetch, ListTidyMoves
  <2>2. UNCHANGED <<guard, told>>
    BY <1>11 DEF W!LoseFetch, W!wire, W!socket
  <2>3. missed' \subseteq missed \cup Polls \cup {none}
    BY <1>11, LostFetch DEF W!Targets
  <2> QED BY <1>1, <1>2, <2>1, <2>2, <2>3 DEF TidyInv, PlaceTidy, ListTidy
<1> QED BY <1>4, <1>5, <1>6, <1>7, <1>8, <1>9, <1>10, <1>11

LEMMA TidyInit == W!Init => TidyInv
<1> SUFFICES ASSUME W!Init PROVE TidyInv
  OBVIOUS
<1>1. PICK case \in WorkbenchCases : order = case.order /\ OneEach(case.order)
  BY PartsAssumption DEF W!Init, PartsAssumption, W!WorkbenchAssumption, OneEach
<1>2. /\ list = W!Written(W!Unused, W!Listing) /\ calls = [c \in Calls |-> NoData] /\ told = <<>>
      /\ newest = [m \in W!Mutations |-> 0] /\ guard = {} /\ missed = {} /\ selected = none
  BY DEF W!Init
<1>3. ListTidy(list)
  <2>1. list.data = W!Listing /\ list.fetch = "idle" /\ W!Listing.order = order
    BY <1>2 DEF W!Written, W!Unused, W!Listing
  <2> QED BY <1>1, <2>1 DEF ListTidy
<1>4. CallsTidy
  BY <1>2 DEF CallsTidy
<1>5. told \in Seq(Events)
  <2>1. <<>> \in Seq(Events)
    OBVIOUS
  <2> QED BY <1>2, <2>1
<1> QED BY <1>1, <1>2, <1>3, <1>4, <1>5 DEF TidyInv, PlaceTidy

LEMMA TidyNext == BenchInv /\ TidyInv /\ [W!Next]_W!vars => TidyInv'
<1> SUFFICES ASSUME BenchShape, TidyInv, [W!Next]_W!vars PROVE TidyInv'
  BY DEF BenchInv
<1>1. CASE W!Host
  BY <1>1, HostTidy
<1>2. CASE W!Others
  <2>1. PICK kind, i, act : Buttoned(kind, i, act) \/ Edited(kind, i, act)
    BY <1>2, OthersAre
  <2> QED BY <2>1, RivalTidy, EditsTidy DEF Buttoned
<1>3. ASSUME NEW c \in Calls, W!Serve(c) PROVE TidyInv'
  BY <1>3, ServeTidy
<1>4. ASSUME NEW c \in Calls, W!Ends(c) \/ W!Lose(c) PROVE TidyInv'
  BY <1>4, EndsTidy
<1>5. CASE \/ W!Deliver \/ W!LoseEvent \/ W!Link \/ W!Open \/ (\E p \in Polls : W!GuardEnds(p))
           \/ (\E t \in W!Targets : W!Backup(t) \/ W!AnswerFetch(t) \/ W!StoreFetch(t) \/ W!LoseFetch(t))
           \/ UNCHANGED W!vars
  BY <1>5, FetchesTidy
<1> QED BY <1>1, <1>2, <1>3, <1>4, <1>5 DEF W!Next, W!Faults

LEMMA TidyGives == BenchInv /\ GoneInv /\ TidyInv => W!TypeOK
<1> SUFFICES ASSUME BenchShape, GoneInv, TidyInv PROVE W!TypeOK
  BY DEF BenchInv
<1>1. \A s \in Seq(W!Items) : W!ToSet(s) \subseteq W!Items
  <2> SUFFICES ASSUME NEW s \in Seq(W!Items) PROVE W!ToSet(s) \subseteq W!Items
    OBVIOUS
  <2>1. DOMAIN s = 1 .. Len(s)
    BY LenProperties
  <2> QED BY <2>1, ElementOfSeq DEF W!ToSet
<1>2. W!ToSet(order) \subseteq W!Items /\ W!ToSet(W!Shown) \subseteq W!Items
  BY <1>1, ShownSeq DEF BenchShape
<1>3. W!IsInjective(order)
  BY DEF TidyInv, OneEach
<1>4. board \in [W!Items -> W!Rows]
  BY DEF BenchShape
<1>5. \A c \in Calls : calls[c] # NoData => calls[c].kind \in W!Kinds
  BY CallIs DEF BenchShape
<1> QED BY <1>2, <1>3, <1>4, <1>5 DEF W!TypeOK, TidyInv, PlaceTidy, GoneInv

(* The order of the list: the page's last list is in the room's order, or a new one   *)
(* comes, unless the page was not told.                                            *)
Comes(r) == r # NoData /\ (r.kind = "reorder" \/ (r.kind \in {"create", "delete"} /\ r.at = "done"))
OrderComes == list.fetch = "asked" \/ \E c \in Calls : Comes(calls[c])
LastList == IF list.fetch = "answered" THEN list.reply ELSE list.data
OrderInv == none \in missed \/ OrderComes \/ LastList.order = order

LEMMA ListAsked == ASSUME NEW q, ListOK(q) PROVE W!Refetched(q).fetch = "asked" /\ q.data # NoData
<1>1. NoData \notin W!Lists
  BY PartsAssumption DEF PartsAssumption, W!WorkbenchAssumption, W!Lists
<1>2. q.data # NoData
  BY <1>1 DEF ListOK
<1>3. W!Refetched(q) = [q EXCEPT !.fetch = "asked", !.reply = NoData]
  BY <1>2 DEF W!Refetched, W!Loaded
<1>4. "fetch" \in DOMAIN q
  BY DEF ListOK, W!Queries
<1> QED BY <1>2, <1>3, <1>4

LEMMA OrderKept ==
    ASSUME OrderInv, order' = order, list' = list \/ list'.fetch = "asked",
           none \in missed => none \in missed',
           \A c \in Calls : Comes(calls[c]) => Comes(calls'[c])
    PROVE  OrderInv'
<1>1. CASE list'.fetch = "asked"
  BY <1>1 DEF OrderInv, OrderComes
<1>2. CASE list' = list
  BY <1>2 DEF OrderInv, OrderComes, LastList, Comes
<1> QED BY <1>1, <1>2

LEMMA SendComes == ASSUME NEW r, W!Send(r) PROVE \A c \in Calls : Comes(calls[c]) => Comes(calls'[c])
<1>1. PICK c \in Calls : calls[c] = NoData /\ calls' = [calls EXCEPT ![c] = r]
  BY DEF W!Send
<1>2. \A d \in Calls : d # c => calls'[d] = calls[d]
  BY <1>1
<1> QED BY <1>1, <1>2 DEF Comes

LEMMA HostOrder == ASSUME BenchShape, OrderInv, W!Host PROVE OrderInv'
<1>1. ASSUME NEW i, NEW fresh, W!SelectItem(i, fresh) PROVE OrderInv'
  <2>1. UNCHANGED <<order, list, missed>>
    BY <1>1 DEF W!SelectItem, W!server
  <2>2. W!Send(W!Opens(i)) \/ calls' = calls
    BY <1>1 DEF W!SelectItem, W!wire
  <2>3. \A c \in Calls : Comes(calls[c]) => Comes(calls'[c])
    BY <2>2, SendComes
  <2> QED BY <2>1, <2>3, OrderKept
<1>2. ASSUME NEW step, NEW fresh, W!GoBy(step, fresh) PROVE OrderInv'
  BY <1>1, <1>2 DEF W!GoBy
<1>3. CASE W!ToggleAuto
  BY <1>3, OrderKept DEF W!ToggleAuto, W!server, W!cache, W!wire, W!trace
<1>4. ASSUME NEW r, W!Presses(r) PROVE OrderInv'
  <2>1. UNCHANGED <<order, list, missed>> /\ W!Send(r)
    BY <1>4 DEF W!Presses, W!server, W!cache
  <2> QED BY <2>1, SendComes, OrderKept
<1>5. ASSUME NEW act \in W!PollActs, W!PressPoll(act) PROVE OrderInv'
  BY <1>4, <1>5 DEF W!PressPoll
<1>6. CASE W!PressBoard
  BY <1>4, <1>6 DEF W!PressBoard
<1>7. CASE W!PressSession
  BY <1>4, <1>7 DEF W!PressSession
<1>8. ASSUME NEW from \in DOMAIN W!Shown, NEW to \in DOMAIN W!Shown, W!Reorder(from, to)
      PROVE OrderInv'
  <2>1. PICK r : r = [W!NewCall("reorder", none, W!Moved(from, to)) EXCEPT !.before = list.data]
    OBVIOUS
  <2>2. r.kind = "reorder"
    BY <2>1 DEF W!NewCall
  <2>3. W!Send(r)
    BY <1>8, <2>1 DEF W!Reorder
  <2>4. PICK c \in Calls : calls' = [calls EXCEPT ![c] = r]
    BY <2>3 DEF W!Send
  <2>5. calls'[c] = r
    BY <2>4 DEF BenchShape
  <2>6. r # NoData
    <3>1. W!Moved(from, to) \in Seq(W!Items) /\ list.data \in W!Lists
      BY ShownSeq, MovedSeq DEF BenchShape, ListOK
    <3> QED BY <2>1, <3>1, NewCallOK, CallIs
  <2> QED BY <2>2, <2>5, <2>6 DEF OrderInv, OrderComes, Comes
<1>9. ASSUME NEW i \in W!Items, W!Create(i) PROVE OrderInv'
  <2>1. UNCHANGED <<order, list, missed>> /\ W!Send(W!NewCall("create", i, "create"))
    BY <1>9 DEF W!Create, W!server, W!cache
  <2> QED BY <2>1, SendComes, OrderKept
<1>10. CASE W!Delete
  <2>1. UNCHANGED <<order, list, missed>> /\ W!Send(W!NewCall("delete", W!Current, "delete"))
    BY <1>10 DEF W!Delete, W!server, W!cache
  <2> QED BY <2>1, SendComes, OrderKept
<1> QED BY <1>1, <1>2, <1>3, <1>5, <1>6, <1>7, <1>8, <1>9, <1>10 DEF W!Host

LEMMA ServeOrder == ASSUME BenchShape, OrderInv, NEW c \in Calls, W!Serve(c) PROVE OrderInv'
<1>1. /\ calls[c] # NoData /\ CallOK(calls[c]) /\ calls[c].at = "asked" /\ UNCHANGED <<list, missed>>
  BY DEF W!Serve, W!cache, W!trace, BenchShape
<1>2. BenchShape'
  BY ServeShape
<1>3. PICK n : calls' = [calls EXCEPT ![c] = n] /\ n.kind = calls[c].kind
               /\ (W!Refused(calls[c]) \/ n.at = "done")
  <2>1. CASE W!Refused(calls[c])
    <3>1. calls' = [calls EXCEPT ![c] = [@ EXCEPT !.at = "failed"]]
      BY <2>1 DEF W!Serve
    <3>2. PICK n : n = [calls[c] EXCEPT !.at = "failed"]
      OBVIOUS
    <3>3. n.kind = calls[c].kind /\ calls' = [calls EXCEPT ![c] = n]
      BY <3>1, <3>2 DEF BenchShape
    <3> QED BY <2>1, <3>3
  <2>2. CASE ~ W!Refused(calls[c])
    <3>1. PICK x : calls' = [calls EXCEPT ![c].at = "done", ![c].reply = x]
      BY <2>2 DEF W!Serve
    <3>2. PICK n : n = [[calls[c] EXCEPT !.at = "done"] EXCEPT !.reply = x]
      OBVIOUS
    <3>3. {"at", "reply"} \subseteq DOMAIN calls[c]
      BY <1>1, CallIs
    <3>4. n.kind = calls[c].kind /\ n.at = "done"
      BY <3>2, <3>3
    <3>5. calls' = [calls EXCEPT ![c] = n]
      BY <3>1, <3>2 DEF BenchShape
    <3> QED BY <3>4, <3>5
  <2> QED BY <2>1, <2>2
<1>4. calls' = [d \in Calls |-> IF d = c THEN n ELSE calls[d]]
  BY <1>3 DEF BenchShape
<1>5. calls'[c] = n /\ \A d \in Calls : d # c => calls'[d] = calls[d]
  BY <1>4
<1>6. CASE ~ W!Refused(calls[c]) /\ calls[c].kind \in {"reorder", "create", "delete"}
  <2>1. n # NoData
    <3>1. PICK x : calls' = [calls EXCEPT ![c].at = "done", ![c].reply = x]
                   /\ x = IF calls[c].kind = "poll" THEN board'[calls[c].item] ELSE NoData
      BY <1>6 DEF W!Serve
    <3>2. x = NoData
      BY <1>6, <3>1
    <3>3. calls'[c] = [[calls[c] EXCEPT !.at = "done"] EXCEPT !.reply = x]
      BY <3>1 DEF BenchShape
    <3> QED BY <1>1, <1>5, <3>2, <3>3, CallMoves, CallIs
  <2> QED BY <1>3, <1>5, <1>6, <2>1 DEF OrderInv, OrderComes, Comes
<1>7. CASE W!Refused(calls[c]) \/ calls[c].kind \notin {"reorder", "create", "delete"}
  <2>1. order' = order
    BY <1>1, <1>7, CallIs DEF W!Serve, W!server, W!Applies, W!Kinds
  <2>2. Comes(calls[c]) => Comes(calls'[c])
    <3>1. n # NoData
      <4>1. PICK x \in W!Rows \cup {NoData} :
               calls'[c] \in {[calls[c] EXCEPT !.at = "failed"], [[calls[c] EXCEPT !.at = "done"] EXCEPT !.reply = x]}
        <5>1. CASE W!Refused(calls[c])
          BY <5>1 DEF W!Serve, BenchShape
        <5>2. CASE ~ W!Refused(calls[c])
          <6>1. PICK x : /\ calls' = [calls EXCEPT ![c].at = "done", ![c].reply = x]
                         /\ x = IF calls[c].kind = "poll" THEN board'[calls[c].item] ELSE NoData
            BY <5>2 DEF W!Serve
          <6>2. x \in W!Rows \cup {NoData}
            BY <1>1, <1>2, <6>1 DEF CallOK, BenchShape, W!Items
          <6> QED BY <6>1, <6>2 DEF BenchShape
        <5> QED BY <5>1, <5>2
      <4> QED BY <1>1, <1>5, <4>1, CallMoves, CallIs
    <3> QED BY <1>1, <1>3, <1>5, <3>1 DEF Comes
  <2>3. \A d \in Calls : Comes(calls[d]) => Comes(calls'[d])
    BY <1>5, <2>2
  <2> QED BY <1>1, <2>1, <2>3, OrderKept
<1> QED BY <1>6, <1>7

LEMMA EndsOrder == ASSUME BenchShape, OrderInv, NEW c \in Calls, W!Ends(c) \/ W!Lose(c) PROVE OrderInv'
<1>0. ListOK(list)
  BY DEF BenchShape
<1>1. CASE W!Done(c)
  <2>1. /\ calls[c].at = "done" /\ calls[c].kind # "reorder" /\ order' = order /\ missed \subseteq missed'
        /\ list' = IF W!ListRead(calls[c]) THEN W!Refetched(list) ELSE list
    BY <1>1 DEF W!Done, W!server
  <2>2. CASE calls[c].kind \in {"create", "delete"}
    <3>1. list'.fetch = "asked"
      BY <1>0, <2>1, <2>2, ListAsked DEF W!ListRead
    <3> QED BY <3>1 DEF OrderInv, OrderComes
  <2>3. CASE calls[c].kind \notin {"create", "delete"}
    <3>1. list' = list \/ list'.fetch = "asked"
      BY <1>0, <2>1, ListAsked
    <3>2. \A d \in Calls : Comes(calls[d]) => Comes(calls'[d])
      <4>1. \A d \in Calls : d # c => calls'[d] = calls[d]
        BY <1>1 DEF W!Done, W!Ended, BenchShape
      <4> QED BY <2>1, <2>3, <4>1 DEF Comes
    <3> QED BY <2>1, <3>1, <3>2, OrderKept
  <2> QED BY <2>2, <2>3
<1>2. CASE W!Failed(c)
  <2>1. UNCHANGED <<order, list, missed>> /\ calls[c].at = "failed" /\ calls[c].kind # "reorder"
    BY <1>2 DEF W!Failed, W!server, W!cache, W!trace
  <2>2. \A d \in Calls : d # c => calls'[d] = calls[d]
    BY <1>2 DEF W!Failed, W!Ended, BenchShape
  <2>3. \A d \in Calls : Comes(calls[d]) => Comes(calls'[d])
    BY <2>1, <2>2 DEF Comes
  <2> QED BY <2>1, <2>3, OrderKept
<1>3. CASE W!Reordered(c)
  <2>1. list' \in {W!Refetched(W!Written(list, calls[c].before)), W!Refetched(list)}
    BY <1>3 DEF W!Reordered, W!ReadAgain
  <2>2. calls[c].before \in W!Lists
    BY <1>3 DEF W!Reordered, BenchShape, CallOK
  <2>3. ListOK(W!Written(list, calls[c].before))
    <3> HIDE DEF W!Lists
    <3> QED BY <1>0, <2>2, ListMoves
  <2>4. list'.fetch = "asked"
    BY <1>0, <2>1, <2>3, ListAsked
  <2> QED BY <2>4 DEF OrderInv, OrderComes
<1>4. CASE W!Lose(c)
  <2>1. UNCHANGED <<order, list>> /\ calls' = [calls EXCEPT ![c] = [@ EXCEPT !.at = "failed"]]
        /\ missed \subseteq missed' /\ calls[c] # NoData
    BY <1>4 DEF W!Lose, W!server, W!cache
  <2>2. calls[c].kind \in {"create", "delete"} /\ calls[c].at = "done" => none \in missed'
    BY <1>4 DEF W!Lose
  <2>3. PICK n : n = [calls[c] EXCEPT !.at = "failed"]
    OBVIOUS
  <2>4. n.kind = calls[c].kind /\ n # NoData
    <3>1. CallOK(calls[c]) /\ NoData \in W!Rows \cup {NoData}
      BY <2>1 DEF BenchShape
    <3>2. CallOK(n)
      BY <2>3, <3>1, CallMoves
    <3> QED BY <2>3, <3>2, CallIs
  <2>5. \A d \in Calls : calls'[d] = IF d = c THEN n ELSE calls[d]
    BY <2>1, <2>3 DEF BenchShape
  <2>6. CASE calls[c].kind \in {"create", "delete"} /\ calls[c].at = "done"
    BY <2>2, <2>6 DEF OrderInv
  <2>7. CASE ~ (calls[c].kind \in {"create", "delete"} /\ calls[c].at = "done")
    <3>1. \A d \in Calls : Comes(calls[d]) => Comes(calls'[d])
      BY <2>4, <2>5, <2>7 DEF Comes
    <3> QED BY <2>1, <3>1, OrderKept
  <2> QED BY <2>6, <2>7
<1> QED BY <1>1, <1>2, <1>3, <1>4 DEF W!Ends

LEMMA FetchesOrder ==
    ASSUME BenchShape, OrderInv,
           \/ W!Deliver \/ W!LoseEvent \/ W!Link \/ W!Open \/ (\E p \in Polls : W!GuardEnds(p))
           \/ (\E t \in W!Targets : W!Backup(t) \/ W!AnswerFetch(t) \/ W!StoreFetch(t) \/ W!LoseFetch(t))
           \/ UNCHANGED W!vars
    PROVE  OrderInv'
<1>1. UNCHANGED <<order, calls>> /\ ListOK(list)
  BY FetchesShape DEF BenchShape
<1>2. CASE W!Deliver
  <2>1. list' \in {list, W!Refetched(list)} /\ missed \subseteq missed'
    BY <1>2 DEF W!Deliver
  <2> QED BY <1>1, <2>1, ListAsked, OrderKept
<1>3. CASE W!LoseEvent \/ W!Link \/ W!Open \/ (\E p \in Polls : W!GuardEnds(p)) \/ UNCHANGED W!vars
  <2>1. list' = list /\ missed \subseteq missed'
    BY <1>3 DEF W!LoseEvent, W!Link, W!Open, W!GuardEnds, W!vars, W!cache, W!trace
  <2> QED BY <1>1, <2>1, OrderKept
<1>4. ASSUME NEW t, W!Backup(t) PROVE OrderInv'
  <2>1. list' \in {list, W!Fetched(list)} /\ missed' = missed
    BY <1>4 DEF W!Backup, W!trace
  <2>2. list' = list \/ list'.fetch = "asked"
    BY <1>1, <2>1 DEF W!Fetched, ListOK, W!Queries
  <2> QED BY <1>1, <2>1, <2>2, OrderKept
<1>5. ASSUME NEW t, W!AnswerFetch(t) PROVE OrderInv'
  <2>1. missed' = missed
    BY <1>5 DEF W!AnswerFetch, W!trace
  <2>2. CASE t = "list"
    <3>1. list' = W!Answered(list, W!Listing)
      BY <1>5, <2>2 DEF W!AnswerFetch
    <3>2. list'.fetch = "answered" /\ list'.reply = W!Listing
      <4> HIDE DEF W!Listing
      <4> QED BY <1>1, <3>1 DEF W!Answered, ListOK, W!Queries
    <3>3. LastList'.order = order'
      BY <1>1, <3>2 DEF LastList, W!Listing
    <3> QED BY <3>3 DEF OrderInv
  <2>3. CASE t # "list"
    <3>1. list' = list
      <4>1. CASE t = "session"
        BY <1>5, <4>1 DEF W!AnswerFetch
      <4>2. CASE t # "session"
        BY <1>5, <2>3, <4>2 DEF W!AnswerFetch
      <4> QED BY <4>1, <4>2
    <3> QED BY <1>1, <2>1, <3>1, OrderKept
  <2> QED BY <2>2, <2>3
<1>6. ASSUME NEW t \in W!Targets, W!StoreFetch(t) PROVE OrderInv'
  <2>1. CASE t = "list"
    <3>1. /\ list.fetch = "answered" /\ list' = W!Stored(list)
          /\ missed' = IF list.reply.order = order THEN missed \ {none} ELSE missed
      BY <1>6, <2>1 DEF W!StoreFetch
    <3>2. LastList = list.reply /\ LastList' = list.reply
      BY <3>1 DEF LastList, W!Stored
    <3>3. ~ OrderComes => ~ OrderComes'
      BY <1>1, <3>1 DEF OrderComes, W!Stored
    <3>4. CASE list.reply.order = order
      BY <1>1, <3>2, <3>4 DEF OrderInv
    <3>5. CASE list.reply.order # order
      <4>1. none \in missed \/ \E c \in Calls : Comes(calls[c])
        BY <3>1, <3>2, <3>5 DEF OrderInv, OrderComes
      <4>2. missed' = missed /\ calls' = calls
        BY <1>1, <3>1, <3>5
      <4> QED BY <4>1, <4>2 DEF OrderInv, OrderComes, Comes
    <3> QED BY <3>4, <3>5
  <2>2. CASE t # "list"
    <3>1. list' = list /\ (none \in missed => none \in missed')
      <4>0. none \notin Polls
        BY PartsAssumption DEF PartsAssumption, W!WorkbenchAssumption, W!Items
      <4>1. CASE t = "session"
        BY <1>6, <4>1 DEF W!StoreFetch
      <4>2. CASE t # "session"
        BY <1>6, <2>2, <4>0, <4>2 DEF W!StoreFetch, W!Targets
      <4> QED BY <4>1, <4>2
    <3> QED BY <1>1, <3>1, OrderKept
  <2> QED BY <2>1, <2>2
<1>7. ASSUME NEW t \in W!Targets, W!LoseFetch(t) PROVE OrderInv'
  <2>1. CASE t = "list"
    BY <1>7, <2>1, LostFetch DEF OrderInv
  <2>2. CASE t # "list"
    BY <1>1, <1>7, <2>2, LostFetch, OrderKept
  <2> QED BY <2>1, <2>2
<1> QED BY <1>2, <1>3, <1>4, <1>5, <1>6, <1>7

LEMMA OrderInit == W!Init => OrderInv
<1> SUFFICES ASSUME W!Init PROVE OrderInv
  OBVIOUS
<1>1. list = W!Written(W!Unused, W!Listing)
  BY DEF W!Init
<1>2. LastList = W!Listing
  BY <1>1 DEF LastList, W!Written, W!Unused
<1> QED BY <1>2 DEF OrderInv, W!Listing

LEMMA OrderNext == BenchInv /\ OrderInv /\ [W!Next]_W!vars => OrderInv'
<1> SUFFICES ASSUME BenchShape, OrderInv, [W!Next]_W!vars PROVE OrderInv'
  BY DEF BenchInv
<1>1. CASE W!Host
  BY <1>1, HostOrder
<1>2. CASE W!Others
  <2>1. PICK kind, i, act : Buttoned(kind, i, act) \/ Edited(kind, i, act)
    BY <1>2, OthersAre
  <2>2. CASE Buttoned(kind, i, act)
    <3>1. UNCHANGED <<order, list, calls, missed>>
      BY <2>2 DEF Buttoned, W!Rival, W!EditsList, W!Applies, W!NewCall, W!cache, W!wire
    <3> QED BY <3>1, OrderKept
  <2>3. CASE Edited(kind, i, act)
    BY <2>3, EditsDo DEF OrderInv, OrderComes
  <2> QED BY <2>1, <2>2, <2>3
<1>3. ASSUME NEW c \in Calls, W!Serve(c) PROVE OrderInv'
  BY <1>3, ServeOrder
<1>4. ASSUME NEW c \in Calls, W!Ends(c) \/ W!Lose(c) PROVE OrderInv'
  BY <1>4, EndsOrder
<1>5. CASE \/ W!Deliver \/ W!LoseEvent \/ W!Link \/ W!Open \/ (\E p \in Polls : W!GuardEnds(p))
           \/ (\E t \in W!Targets : W!Backup(t) \/ W!AnswerFetch(t) \/ W!StoreFetch(t) \/ W!LoseFetch(t))
           \/ UNCHANGED W!vars
  BY <1>5, FetchesOrder
<1> QED BY <1>1, <1>2, <1>3, <1>4, <1>5 DEF W!Next, W!Faults

LEMMA OrderGives == OrderInv => W!OrderAtRest
<1> SUFFICES ASSUME OrderInv, W!AtRest, none \notin missed PROVE W!Shown = order
  BY DEF W!OrderAtRest
<1>1. list.fetch = "idle" /\ \A c \in Calls : calls[c] = NoData
  BY DEF W!AtRest, W!Idle
<1>2. LastList.order = order
  BY <1>1 DEF OrderInv, OrderComes, Comes
<1> QED BY <1>1, <1>2 DEF LastList, W!Shown

(* The events that are pending.  An event names a poll's new status, or lights its    *)
(* results or puts them out; a start and a reset do both.                            *)
Names(e)  == e.what \notin {"reveal", "hide"}
Lights(e) == e.what \notin {"active", "locked", "stopped"}
NamesAfter(s, p, n)  == \E k \in n + 1 .. Len(s) : s[k].poll = p /\ Names(s[k])
LightsAfter(s, p, n) == \E k \in n + 1 .. Len(s) : s[k].poll = p /\ Lights(s[k])
(* The last event of each kind has what the poll has now.                             *)
NamesTruly(s, p, b) ==
    \A n \in 1 .. Len(s) : s[n].poll = p /\ Names(s[n]) /\ s[n].what # "start" /\ ~ NamesAfter(s, p, n)
                           => b.status = s[n].what
LightsTruly(s, p, b) ==
    \A n \in 1 .. Len(s) : s[n].poll = p /\ s[n].what \in {"reveal", "hide"} /\ ~ LightsAfter(s, p, n)
                           => b.shown = (s[n].what = "reveal")
(* Another host's events, which the page does not leave out.                           *)
Named(s, p) == \E n \in 1 .. Len(s) : s[n].poll = p /\ ~ s[n].mine /\ Names(s[n])
Lighted(s, p) == \E n \in 1 .. Len(s) : s[n].poll = p /\ ~ s[n].mine /\ Lights(s[n])

LEMMA TailTruly ==
    ASSUME NEW s \in Seq(Events), s # <<>>, NEW p, NEW b
    PROVE  /\ NamesTruly(s, p, b) => NamesTruly(Tail(s), p, b)
           /\ LightsTruly(s, p, b) => LightsTruly(Tail(s), p, b)
           /\ Named(s, p) => Named(Tail(s), p) \/ (s[1].poll = p /\ ~ s[1].mine /\ Names(s[1]))
           /\ Lighted(s, p) => Lighted(Tail(s), p) \/ (s[1].poll = p /\ ~ s[1].mine /\ Lights(s[1]))
<1>1. PICK t : t = Tail(s)
  OBVIOUS
<1>2. Len(s) \in Nat \ {0} /\ Len(t) = Len(s) - 1 /\ \A k \in 1 .. Len(s) - 1 : t[k] = s[k + 1]
  <2> HIDE DEF Events
  <2>1. \A k \in 1 .. Len(s) - 1 : Tail(s)[k] = s[k + 1]
    BY HeadTailProperties
  <2>2. Len(s) \in Nat \ {0}
    BY LenProperties, EmptySeq
  <2> QED BY <1>1, <2>1, <2>2, HeadTailProperties
<1>3. ASSUME NEW k \in 1 .. Len(s), k # 1 PROVE k - 1 \in 1 .. Len(t) /\ t[k - 1] = s[k]
  <2>1. k - 1 \in 1 .. Len(s) - 1 /\ (k - 1) + 1 = k
    BY <1>2, <1>3
  <2> QED BY <1>2, <2>1
<1>4. ASSUME NEW k \in 1 .. Len(t) PROVE k + 1 \in 1 .. Len(s) /\ t[k] = s[k + 1]
  BY <1>2
<1>5. ASSUME NEW n \in 1 .. Len(t)
      PROVE  /\ NamesAfter(s, p, n + 1) => NamesAfter(t, p, n)
             /\ LightsAfter(s, p, n + 1) => LightsAfter(t, p, n)
  <2>1. \A k \in (n + 1) + 1 .. Len(s) : k - 1 \in n + 1 .. Len(t) /\ t[k - 1] = s[k]
    BY <1>2, <1>3
  <2> QED BY <2>1 DEF NamesAfter, LightsAfter
<1>6. NamesTruly(s, p, b) => NamesTruly(t, p, b)
  BY <1>4, <1>5 DEF NamesTruly
<1>7. LightsTruly(s, p, b) => LightsTruly(t, p, b)
  BY <1>4, <1>5 DEF LightsTruly
<1>8. Named(s, p) => Named(t, p) \/ (s[1].poll = p /\ ~ s[1].mine /\ Names(s[1]))
  BY <1>3 DEF Named
<1>9. Lighted(s, p) => Lighted(t, p) \/ (s[1].poll = p /\ ~ s[1].mine /\ Lights(s[1]))
  BY <1>3 DEF Lighted
<1> QED BY <1>1, <1>6, <1>7, <1>8, <1>9

LEMMA JoinTruly ==
    ASSUME NEW s \in Seq(Events), NEW t \in Seq(Events), NEW p, NEW b, NEW c,
           NamesTruly(s, p, b), LightsTruly(s, p, b), NamesTruly(t, p, c), LightsTruly(t, p, c),
           c.status = b.status \/ NamesAfter(t, p, 0), c.shown = b.shown \/ LightsAfter(t, p, 0)
    PROVE  /\ NamesTruly(s \o t, p, c) /\ LightsTruly(s \o t, p, c)
           /\ Named(s, p) \/ Named(t, p) => Named(s \o t, p)
           /\ Lighted(s, p) \/ Lighted(t, p) => Lighted(s \o t, p)
<1>1. PICK r : r = s \o t
  OBVIOUS
<1>2. /\ Len(r) = Len(s) + Len(t) /\ Len(s) \in Nat /\ Len(t) \in Nat
      /\ \A i \in 1 .. Len(s) + Len(t) : r[i] = IF i <= Len(s) THEN s[i] ELSE t[i - Len(s)]
  <2> HIDE DEF Events
  <2>1. /\ Len(s \o t) = Len(s) + Len(t)
        /\ \A i \in 1 .. Len(s) + Len(t) : (s \o t)[i] = IF i <= Len(s) THEN s[i] ELSE t[i - Len(s)]
    BY JoinedSeq
  <2> QED BY <1>1, <2>1, LenProperties
<1>3. ASSUME NEW i \in 1 .. Len(s) PROVE i \in 1 .. Len(r) /\ r[i] = s[i]
  BY <1>2
<1>4. ASSUME NEW i \in 1 .. Len(t) PROVE Len(s) + i \in 1 .. Len(r) /\ r[Len(s) + i] = t[i]
  <2>1. (Len(s) + i) - Len(s) = i /\ ~ (Len(s) + i <= Len(s)) /\ Len(s) + i \in 1 .. Len(s) + Len(t)
    BY <1>2
  <2> QED BY <1>2, <2>1
<1>5. ASSUME NEW n \in 1 .. Len(r), n \notin 1 .. Len(s)
    PROVE n - Len(s) \in 1 .. Len(t) /\ r[n] = t[n - Len(s)]
  BY <1>2, <1>5
<1>6. ASSUME NEW n \in 1 .. Len(s)
      PROVE  /\ NamesAfter(s, p, n) \/ NamesAfter(t, p, 0) => NamesAfter(r, p, n)
             /\ LightsAfter(s, p, n) \/ LightsAfter(t, p, 0) => LightsAfter(r, p, n)
  <2>1. \A k \in n + 1 .. Len(s) : k \in n + 1 .. Len(r) /\ r[k] = s[k]
    BY <1>2, <1>3
  <2>2. \A k \in 0 + 1 .. Len(t) : Len(s) + k \in n + 1 .. Len(r) /\ r[Len(s) + k] = t[k]
    BY <1>2, <1>4
  <2> QED BY <2>1, <2>2 DEF NamesAfter, LightsAfter
<1>7. ASSUME NEW n \in 1 .. Len(t)
      PROVE  /\ NamesAfter(t, p, n) => NamesAfter(r, p, Len(s) + n)
             /\ LightsAfter(t, p, n) => LightsAfter(r, p, Len(s) + n)
  <2>1. \A k \in n + 1 .. Len(t) : Len(s) + k \in (Len(s) + n) + 1 .. Len(r) /\ r[Len(s) + k] = t[k]
    BY <1>2, <1>4
  <2> QED BY <2>1 DEF NamesAfter, LightsAfter
<1>8. NamesTruly(r, p, c)
  <2> SUFFICES ASSUME NEW n \in 1 .. Len(r), r[n].poll = p, Names(r[n]), r[n].what # "start",
        ~ NamesAfter(r, p, n)
               PROVE  c.status = r[n].what
    BY DEF NamesTruly
  <2>1. CASE n \in 1 .. Len(s)
    <3>1. ~ NamesAfter(s, p, n) /\ ~ NamesAfter(t, p, 0) /\ r[n] = s[n]
      BY <1>3, <1>6, <2>1
    <3> QED BY <2>1, <3>1 DEF NamesTruly
  <2>2. CASE n \notin 1 .. Len(s)
    <3>1. PICK m : m = n - Len(s)
      OBVIOUS
    <3>2. m \in 1 .. Len(t) /\ r[n] = t[m] /\ n = Len(s) + m
      BY <1>2, <1>5, <2>2, <3>1
    <3>3. ~ NamesAfter(t, p, m)
      BY <1>7, <3>2
    <3> QED BY <3>2, <3>3 DEF NamesTruly
  <2> QED BY <2>1, <2>2
<1>9. LightsTruly(r, p, c)
  <2> SUFFICES ASSUME NEW n \in 1 .. Len(r), r[n].poll = p, r[n].what \in {"reveal", "hide"},
                      ~ LightsAfter(r, p, n)
               PROVE  c.shown = (r[n].what = "reveal")
    BY DEF LightsTruly
  <2>1. CASE n \in 1 .. Len(s)
    <3>1. ~ LightsAfter(s, p, n) /\ ~ LightsAfter(t, p, 0) /\ r[n] = s[n]
      BY <1>3, <1>6, <2>1
    <3>2. b.shown = (s[n].what = "reveal")
      BY <2>1, <3>1 DEF LightsTruly
    <3> QED BY <3>1, <3>2
  <2>2. CASE n \notin 1 .. Len(s)
    <3>1. PICK m : m = n - Len(s)
      OBVIOUS
    <3>2. m \in 1 .. Len(t) /\ r[n] = t[m] /\ n = Len(s) + m
      BY <1>2, <1>5, <2>2, <3>1
    <3>3. ~ LightsAfter(t, p, m)
      BY <1>7, <3>2
    <3>4. c.shown = (t[m].what = "reveal")
      BY <3>2, <3>3 DEF LightsTruly
    <3> QED BY <3>2, <3>4
  <2> QED BY <2>1, <2>2
<1>10. Named(s, p) \/ Named(t, p) => Named(r, p)
  BY <1>3, <1>4 DEF Named
<1>11. Lighted(s, p) \/ Lighted(t, p) => Lighted(r, p)
  BY <1>3, <1>4 DEF Lighted
<1> QED BY <1>1, <1>8, <1>9, <1>10, <1>11

(* What an action sends names every poll whose status it changes, and lights every     *)
(* poll whose results it shows or hides.                                            *)
LEMMA SaidTruly ==
    ASSUME BenchShape, NEW r, CallOK(r), r.kind \in {"poll", "board"}, NEW mine \in BOOLEAN, NEW p \in Polls
    PROVE  LET s == W!Said(r, mine)  b == board[p]  c == W!Acted(r)[p] IN
           /\ NamesTruly(s, p, c) /\ LightsTruly(s, p, c)
           /\ c.status = b.status \/ NamesAfter(s, p, 0)
           /\ c.shown = b.shown \/ LightsAfter(s, p, 0)
           /\ (mine /\ r.kind = "poll" /\ r.item = p) \/ c.status = b.status \/ Named(s, p)
           /\ (mine /\ r.kind = "poll" /\ r.item = p) \/ c.shown = b.shown \/ Lighted(s, p)
<1>1. PICK s : s = W!Said(r, mine)
  OBVIOUS
<1>2. PICK b, c : b = board[p] /\ c = W!Acted(r)[p]
  OBVIOUS
<1>3. /\ \A k \in 1 .. Len(s) :
           \/ s[k].poll \in Off(r) /\ s[k] = W!Event(s[k].poll, "stopped", FALSE)
           \/ k = Len(s) /\ r.item \in Polls /\ s[k] = W!Event(r.item, What(r), mine)
      /\ \A q \in Off(r) : \E k \in 1 .. Len(s) : s[k] = W!Event(q, "stopped", FALSE)
      /\ r.item \in Polls => s # <<>> /\ s[Len(s)] = W!Event(r.item, What(r), mine)
      /\ s \in Seq(Events)
  <2>1. LET z == W!Said(r, mine) IN
        /\ z \in Seq(Events)
        /\ \A k \in 1 .. Len(z) :
             \/ z[k].poll \in Off(r) /\ z[k] = W!Event(z[k].poll, "stopped", FALSE)
             \/ k = Len(z) /\ r.item \in Polls /\ z[k] = W!Event(r.item, What(r), mine)
        /\ \A q \in Off(r) : \E k \in 1 .. Len(z) : z[k] = W!Event(q, "stopped", FALSE)
        /\ r.item \in Polls => z # <<>> /\ z[Len(z)] = W!Event(r.item, What(r), mine)
    BY SaidIs
  <2> HIDE DEF Events
  <2> QED BY <1>1, <2>1, Zenon
<1>4. p \in W!Items /\ b \in W!Rows /\ Len(s) \in Nat /\ r.item \notin Off(r)
      /\ r.act \in W!PollActs \cup W!BoardActs
  BY <1>2, <1>3, LenProperties DEF W!Items, BenchShape, CallOK, Off, W!Running
<1>5. CASE p = r.item
  <2>1. c = CASE r.act \in {"reveal", "hide"} -> [b EXCEPT !.shown = r.act = "reveal"]
              [] r.act \in {"start", "reset"} -> [status |-> W!Goal[r.act], shown |-> FALSE]
              [] OTHER -> [b EXCEPT !.status = W!Goal[r.act]]
    BY <1>2, <1>4, <1>5 DEF W!Acted
  <2>2. r.act \in {"reveal", "hide"} => c.status = b.status /\ c.shown = (r.act = "reveal")
    <3>1. ASSUME r.act \in {"reveal", "hide"} PROVE c = [b EXCEPT !.shown = r.act = "reveal"]
      BY <2>1, <3>1
    <3> QED BY <1>4, <3>1 DEF W!Rows
  <2>3. r.act \in {"start", "reset"} => c.status = W!Goal[r.act]
    BY <2>1
  <2>4. r.act \notin {"reveal", "hide", "start", "reset"} => c.status = W!Goal[r.act] /\ c.shown = b.shown
    BY <1>4, <2>1 DEF W!Rows
  <2>5. PICK e : e = W!Event(r.item, What(r), mine)
    OBVIOUS
  <2>6. /\ e.poll = p /\ e.mine = mine /\ e.what = What(r)
        /\ Len(s) \in 0 + 1 .. Len(s) /\ s[Len(s)] = e
    BY <1>3, <1>4, <1>5, <2>5, EmptySeq DEF W!Event
  <2>7. \A k \in 1 .. Len(s) : s[k].poll = p => s[k] = e
    BY <1>3, <1>4, <1>5, <2>5 DEF W!Event
  <2>8. Names(e) /\ e.what # "start" => c.status = e.what
    <3>1. ASSUME Names(e), e.what # "start"
          PROVE  r.act \notin {"reveal", "hide", "start"} /\ e.what = W!Goal[r.act]
      BY <1>4, <2>6, <3>1 DEF Names, What, W!PollActs, W!BoardActs
    <3> QED BY <2>3, <2>4, <3>1
  <2>9. e.what \in {"reveal", "hide"} => c.shown = (e.what = "reveal")
    <3>1. ASSUME e.what \in {"reveal", "hide"} PROVE r.act = e.what
      BY <1>4, <2>6, <3>1 DEF What, W!PollActs, W!BoardActs, W!Goal
    <3> QED BY <2>2, <3>1
  <2>10. c.status = b.status \/ Names(e)
    BY <1>4, <2>2, <2>6 DEF Names, What, W!PollActs, W!BoardActs, W!Goal
  <2>11. c.shown = b.shown \/ Lights(e)
    BY <1>4, <2>4, <2>6 DEF Lights, What, W!PollActs, W!BoardActs, W!Goal
  <2>12. NamesTruly(s, p, c)
    BY <2>7, <2>8 DEF NamesTruly
  <2>13. LightsTruly(s, p, c)
    BY <2>7, <2>9 DEF LightsTruly
  <2>14. c.status = b.status \/ NamesAfter(s, p, 0)
    BY <2>6, <2>10 DEF NamesAfter
  <2>15. c.shown = b.shown \/ LightsAfter(s, p, 0)
    BY <2>6, <2>11 DEF LightsAfter
  <2>16. r.kind = "poll"
    BY <1>5, PartsAssumption DEF CallOK, PartsAssumption, W!WorkbenchAssumption
  <2>17. ~ mine => (c.status = b.status \/ Named(s, p)) /\ (c.shown = b.shown \/ Lighted(s, p))
    <3>1. Len(s) \in 1 .. Len(s)
      BY <1>4, <2>6
    <3> QED BY <2>6, <2>10, <2>11, <3>1 DEF Named, Lighted
  <2> QED BY <1>1, <1>2, <1>5, <2>12, <2>13, <2>14, <2>15, <2>16, <2>17
<1>6. CASE p # r.item
  <2>1. /\ p \in Off(r) => c = [b EXCEPT !.status = "stopped"]
        /\ p \notin Off(r) => c = b
    BY <1>2, <1>4, <1>6 DEF W!Acted, Off
  <2>2. /\ c.shown = b.shown
        /\ p \in Off(r) => c.status = "stopped"
        /\ p \notin Off(r) => c.status = b.status
    BY <1>4, <2>1 DEF W!Rows
  <2>3. \A k \in 1 .. Len(s) : s[k].poll = p => p \in Off(r) /\ s[k] = W!Event(p, "stopped", FALSE)
    BY <1>3, <1>6 DEF W!Event
  <2>4. NamesTruly(s, p, c) /\ LightsTruly(s, p, c)
    BY <2>2, <2>3 DEF NamesTruly, LightsTruly, W!Event
  <2>5. p \in Off(r) => Named(s, p) /\ NamesAfter(s, p, 0)
    <3>1. ASSUME p \in Off(r) PROVE Named(s, p) /\ NamesAfter(s, p, 0)
      <4>1. PICK k \in 1 .. Len(s) : s[k] = W!Event(p, "stopped", FALSE)
        BY <1>3, <3>1
      <4>2. k \in 0 + 1 .. Len(s) /\ s[k].poll = p /\ ~ s[k].mine /\ Names(s[k])
        BY <4>1 DEF W!Event, Names
      <4> QED BY <4>1, <4>2 DEF Named, NamesAfter
    <3> QED BY <3>1
  <2> QED BY <1>1, <1>2, <2>2, <2>4, <2>5
<1> QED BY <1>5, <1>6

(* The page's copy of a poll of which it was told all has what the server has, or an  *)
(* event that another host caused, or the answer to the page's own action, is still   *)
(* to bring it.                                                                   *)
RowQuery(q) == q \in W!Queries(W!Rows) /\ (q.fetch = "answered" => q.reply \in W!Rows)
BenchQueries == bench = [p \in Polls |-> bench[p]] /\ \A p \in Polls : RowQuery(bench[p])
Answers(r)   == r # NoData /\ r.kind = "poll" /\ r.at = "done"
RepliesOK    == \A c \in Calls : Answers(calls[c]) => calls[c].reply \in W!Rows
Answering(p) == \E c \in Calls : Answers(calls[c]) /\ calls[c].item = p
Follows(p) ==
    /\ Named(told, p) \/ bench[p].data.status = board[p].status
    /\ Lighted(told, p) \/ bench[p].data.shown = board[p].shown
PollInv(p) ==
    /\ NamesTruly(told, p, board[p]) /\ LightsTruly(told, p, board[p])
    /\ p \notin missed /\ W!Loaded(bench[p]) => Answering(p) \/ Follows(p)
ButtonsInv == BenchQueries /\ RepliesOK /\ \A p \in Polls : PollInv(p)

LEMMA RowMoves ==
    ASSUME NEW q, RowQuery(q)
    PROVE  /\ RowQuery(W!Fetched(q)) /\ W!Fetched(q).data = q.data
           /\ RowQuery(W!GivenUp(q)) /\ W!GivenUp(q).data = q.data
           /\ q.fetch = "answered" => RowQuery(W!Stored(q)) /\ W!Stored(q).data = q.reply
           /\ \A d \in W!Rows :
                /\ RowQuery(W!Written(q, d)) /\ W!Written(q, d).data = d
                /\ RowQuery(W!Patched(q, d)) /\ W!Patched(q, d).data = IF W!Loaded(q) THEN d ELSE q.data
                /\ RowQuery(W!Answered(q, d)) /\ W!Answered(q, d).data = q.data
<1> USE DEF RowQuery, W!Queries, W!Fetches
<1> HIDE DEF W!Rows
<1>1. RowQuery(W!Fetched(q)) /\ W!Fetched(q).data = q.data
  BY DEF W!Fetched
<1>2. q.fetch = "answered" => RowQuery(W!Stored(q)) /\ W!Stored(q).data = q.reply
  BY DEF W!Stored
<1>3. ASSUME NEW d \in W!Rows
      PROVE  /\ RowQuery(W!Written(q, d)) /\ W!Written(q, d).data = d
             /\ RowQuery(W!Answered(q, d)) /\ W!Answered(q, d).data = q.data
  BY DEF W!Written, W!Answered
<1>4. ASSUME NEW d \in W!Rows
      PROVE  RowQuery(W!Patched(q, d)) /\ W!Patched(q, d).data = IF W!Loaded(q) THEN d ELSE q.data
  <2> HIDE DEF RowQuery
  <2> QED BY <1>3 DEF W!Patched
<1>5. RowQuery(W!GivenUp(q)) /\ W!GivenUp(q).data = q.data
  BY DEF W!GivenUp
<1> HIDE DEF RowQuery
<1> QED BY <1>1, <1>2, <1>3, <1>4, <1>5

LEMMA PollStays ==
    ASSUME NEW p, PollInv(p), told' = told, board' = board, p \in missed => p \in missed',
           bench'[p].data = bench[p].data, Answering(p) => Answering(p)'
    PROVE  PollInv(p)'
<1>1. Follows(p) => Follows(p)'
  BY DEF Follows, Named, Lighted, Names, Lights
<1>2. NamesTruly(told, p, board[p])' /\ LightsTruly(told, p, board[p])'
  BY DEF PollInv, NamesTruly, LightsTruly, NamesAfter, LightsAfter, Names, Lights
<1>3. W!Loaded(bench[p])' => W!Loaded(bench[p])
  BY DEF W!Loaded
<1> QED BY <1>1, <1>2, <1>3 DEF PollInv

(* One request changes.                                                          *)
LEMMA OneReply ==
    ASSUME BenchShape, NEW c \in Calls, NEW r, calls' = [calls EXCEPT ![c] = r], RepliesOK,
           Answers(r) => r.reply \in W!Rows
    PROVE  RepliesOK' /\ \A p : Answering(p) /\ ~ (Answers(calls[c]) /\ calls[c].item = p) => Answering(p)'
<1>1. \A d \in Calls : calls'[d] = IF d = c THEN r ELSE calls[d]
  BY DEF BenchShape
<1>2. RepliesOK'
  BY <1>1 DEF RepliesOK, Answers
<1>3. ASSUME NEW p, Answering(p), ~ (Answers(calls[c]) /\ calls[c].item = p) PROVE Answering(p)'
  <2>1. PICK d \in Calls : Answers(calls[d]) /\ calls[d].item = p
    BY <1>3 DEF Answering
  <2>2. calls'[d] = calls[d]
    BY <1>1, <1>3, <2>1
  <2> QED BY <2>1, <2>2 DEF Answering, Answers
<1> QED BY <1>2, <1>3

LEMMA SendButtons ==
    ASSUME BenchShape, ButtonsInv, UNCHANGED <<board, told, missed>>, BenchQueries',
           \A p \in Polls : bench'[p].data = bench[p].data,
           calls' = calls \/ \E r : r.at = "asked" /\ W!Send(r)
    PROVE  ButtonsInv'
<1>1. RepliesOK' /\ \A p : Answering(p) => Answering(p)'
  <2>1. CASE calls' = calls
    BY <2>1 DEF ButtonsInv, RepliesOK, Answering, Answers
  <2>2. ASSUME NEW r, r.at = "asked", W!Send(r) PROVE RepliesOK' /\ \A p : Answering(p) => Answering(p)'
    <3>1. PICK c \in Calls : calls[c] = NoData /\ calls' = [calls EXCEPT ![c] = r]
      BY <2>2 DEF W!Send
    <3>2. ~ Answers(calls[c]) /\ ~ Answers(r)
      BY <2>2, <3>1 DEF Answers
    <3> QED BY <3>1, <3>2, OneReply DEF ButtonsInv
  <2> QED BY <2>1, <2>2
<1>2. \A p \in Polls : PollInv(p)'
  BY <1>1, PollStays DEF ButtonsInv
<1> QED BY <1>1, <1>2 DEF ButtonsInv

LEMMA FetchedQueries ==
    ASSUME BenchQueries, NEW i \in Polls, bench' = [bench EXCEPT ![i] = W!Fetched(@)]
    PROVE  BenchQueries' /\ \A p \in Polls : bench'[p].data = bench[p].data
<1>1. bench' = [p \in Polls |-> IF p = i THEN W!Fetched(bench[p]) ELSE bench[p]]
  BY DEF BenchQueries
<1>2. ASSUME NEW p \in Polls PROVE RowQuery(bench'[p]) /\ bench'[p].data = bench[p].data
  <2>1. RowQuery(bench[p])
    BY DEF BenchQueries
  <2>2. RowQuery(W!Fetched(bench[p])) /\ W!Fetched(bench[p]).data = bench[p].data
    BY <2>1, RowMoves
  <2>3. bench'[p] = IF p = i THEN W!Fetched(bench[p]) ELSE bench[p]
    BY <1>1
  <2> QED BY <2>1, <2>2, <2>3
<1> QED BY <1>1, <1>2 DEF BenchQueries

LEMMA OtherQuery ==
    ASSUME BenchQueries, NEW i \in Polls, NEW n, RowQuery(n), n.data = bench[i].data,
           bench' = [bench EXCEPT ![i] = n]
    PROVE  BenchQueries' /\ \A p \in Polls : bench'[p].data = bench[p].data
<1>1. bench' = [p \in Polls |-> IF p = i THEN n ELSE bench[p]]
  BY DEF BenchQueries
<1>2. \A p \in Polls : RowQuery(bench'[p]) /\ bench'[p].data = bench[p].data
  BY <1>1 DEF BenchQueries
<1> QED BY <1>1, <1>2 DEF BenchQueries, RowQuery

LEMMA SameQueries == BenchQueries /\ bench' = bench => BenchQueries'
        /\ \A p \in Polls : bench'[p].data = bench[p].data
BY DEF BenchQueries, RowQuery

LEMMA SelectQueries ==
    ASSUME BenchQueries, NEW i, NEW fresh, W!Selects(i, fresh)
    PROVE  BenchQueries' /\ \A p \in Polls : bench'[p].data = bench[p].data
<1>1. bench' = bench \/ (i \in Polls /\ bench' = [bench EXCEPT ![i] = W!Fetched(@)])
  BY DEF W!Selects
<1> QED BY <1>1, FetchedQueries, SameQueries

LEMMA HostButtons == ASSUME BenchShape, ButtonsInv, W!Host PROVE ButtonsInv'
<1>0. \A kind, i, act : W!NewCall(kind, i, act).at = "asked"
  BY DEF W!NewCall
<1>1. ASSUME NEW i, NEW fresh, W!SelectItem(i, fresh) PROVE ButtonsInv'
  <2>1. UNCHANGED <<board, told, missed>> /\ W!Selects(i, fresh)
    BY <1>1 DEF W!SelectItem, W!server, W!socket
  <2>2. calls' = calls \/ W!Send(W!Opens(i))
    BY <1>1 DEF W!SelectItem, W!wire
  <2>3. W!Opens(i).at = "asked"
    BY <1>0 DEF W!Opens
  <2> QED BY <2>1, <2>2, <2>3, SelectQueries, SendButtons DEF ButtonsInv
<1>2. ASSUME NEW step, NEW fresh, W!GoBy(step, fresh) PROVE ButtonsInv'
  BY <1>1, <1>2 DEF W!GoBy
<1>3. CASE W!ToggleAuto
  <2>1. UNCHANGED <<board, told, missed, bench, calls>>
    BY <1>3 DEF W!ToggleAuto, W!server, W!cache, W!wire, W!trace, W!socket
  <2> QED BY <2>1, SameQueries, SendButtons DEF ButtonsInv
<1>4. ASSUME NEW kind, NEW i, NEW act, W!Presses(W!NewCall(kind, i, act)) PROVE ButtonsInv'
  <2>1. UNCHANGED <<board, told, missed, bench>> /\ W!Send(W!NewCall(kind, i, act))
    BY <1>4 DEF W!Presses, W!server, W!cache, W!socket
  <2> QED BY <1>0, <2>1, SameQueries, SendButtons DEF ButtonsInv
<1>5. ASSUME NEW act \in W!PollActs, W!PressPoll(act) PROVE ButtonsInv'
  BY <1>4, <1>5 DEF W!PressPoll
<1>6. CASE W!PressBoard
  BY <1>4, <1>6 DEF W!PressBoard
<1>7. CASE W!PressSession
  BY <1>4, <1>7 DEF W!PressSession
<1>8. ASSUME NEW from \in DOMAIN W!Shown, NEW to \in DOMAIN W!Shown, W!Reorder(from, to)
      PROVE ButtonsInv'
  <2>1. PICK r : r = [W!NewCall("reorder", none, W!Moved(from, to)) EXCEPT !.before = list.data]
    OBVIOUS
  <2>2. r.at = "asked"
    BY <2>1 DEF W!NewCall
  <2>3. UNCHANGED <<board, told, missed, bench>> /\ W!Send(r)
    BY <1>8, <2>1 DEF W!Reorder, W!server, W!socket, W!trace
  <2> QED BY <2>2, <2>3, SameQueries, SendButtons DEF ButtonsInv
<1>9. ASSUME NEW i \in W!Items, W!Create(i) PROVE ButtonsInv'
  <2>1. UNCHANGED <<board, told, missed, bench>> /\ W!Send(W!NewCall("create", i, "create"))
    BY <1>9 DEF W!Create, W!server, W!cache, W!socket
  <2> QED BY <1>0, <2>1, SameQueries, SendButtons DEF ButtonsInv
<1>10. CASE W!Delete
  <2>1. UNCHANGED <<board, told, missed, bench>> /\ W!Send(W!NewCall("delete", W!Current, "delete"))
    BY <1>10 DEF W!Delete, W!server, W!cache, W!socket
  <2> QED BY <1>0, <2>1, SameQueries, SendButtons DEF ButtonsInv
<1> QED BY <1>1, <1>2, <1>3, <1>5, <1>6, <1>7, <1>8, <1>9, <1>10 DEF W!Host

LEMMA SaidButtons ==
    ASSUME BenchShape, TidyInv, ButtonsInv, NEW r, CallOK(r), r.kind \in {"poll", "board"},
           NEW mine \in BOOLEAN, board' = W!Acted(r), told' = told \o W!Said(r, mine), NEW p \in Polls
    PROVE  /\ NamesTruly(told, p, board[p])' /\ LightsTruly(told, p, board[p])'
           /\ (mine /\ r.kind = "poll" /\ r.item = p) \/ ~ Follows(p) \/ bench' # bench \/ Follows(p)'
<1>1. PICK s, t, b, c, u : s = told /\ t = W!Said(r, mine) /\ b = board[p] /\ c = W!Acted(r)[p] /\ u = s \o t
  OBVIOUS
<1>2. s \in Seq(Events) /\ t \in Seq(Events)
  <2>1. W!Said(r, mine) \in Seq(Events)
    BY SaidIs
  <2> QED BY <1>1, <2>1 DEF TidyInv
<1>3. /\ NamesTruly(t, p, c) /\ LightsTruly(t, p, c)
      /\ c.status = b.status \/ NamesAfter(t, p, 0)
      /\ c.shown = b.shown \/ LightsAfter(t, p, 0)
      /\ (mine /\ r.kind = "poll" /\ r.item = p) \/ c.status = b.status \/ Named(t, p)
      /\ (mine /\ r.kind = "poll" /\ r.item = p) \/ c.shown = b.shown \/ Lighted(t, p)
  <2>1. LET z == W!Said(r, mine)  y == board[p]  x == W!Acted(r)[p] IN
           /\ NamesTruly(z, p, x) /\ LightsTruly(z, p, x)
           /\ x.status = y.status \/ NamesAfter(z, p, 0)
           /\ x.shown = y.shown \/ LightsAfter(z, p, 0)
           /\ (mine /\ r.kind = "poll" /\ r.item = p) \/ x.status = y.status \/ Named(z, p)
           /\ (mine /\ r.kind = "poll" /\ r.item = p) \/ x.shown = y.shown \/ Lighted(z, p)
    BY SaidTruly
  <2> QED BY <1>1, <2>1, Zenon
<1>4. NamesTruly(s, p, b) /\ LightsTruly(s, p, b)
  BY <1>1 DEF ButtonsInv, PollInv
<1>5. /\ NamesTruly(u, p, c) /\ LightsTruly(u, p, c)
      /\ Named(s, p) \/ Named(t, p) => Named(u, p)
      /\ Lighted(s, p) \/ Lighted(t, p) => Lighted(u, p)
  <2>1. /\ NamesTruly(s \o t, p, c) /\ LightsTruly(s \o t, p, c)
        /\ Named(s, p) \/ Named(t, p) => Named(s \o t, p)
        /\ Lighted(s, p) \/ Lighted(t, p) => Lighted(s \o t, p)
    <3> HIDE DEF Events
    <3> QED BY <1>2, <1>3, <1>4, JoinTruly
  <2> QED BY <1>1, <2>1, Zenon
<1>6. told' = u /\ board'[p] = c
  BY <1>1
<1>7. NamesTruly(told, p, board[p])' /\ LightsTruly(told, p, board[p])'
  <2>1. NamesTruly(told', p, board'[p]) /\ LightsTruly(told', p, board'[p])
    BY <1>5, <1>6, Zenon
  <2> QED BY <2>1 DEF NamesTruly, LightsTruly, NamesAfter, LightsAfter, Names, Lights
<1>8. ASSUME ~ (mine /\ r.kind = "poll" /\ r.item = p), Follows(p), bench' = bench PROVE Follows(p)'
  <2>1. Named(u, p) \/ bench[p].data.status = c.status
    <3>1. Named(s, p) \/ bench[p].data.status = b.status
      BY <1>1, <1>8 DEF Follows
    <3>2. c.status = b.status \/ Named(t, p)
      BY <1>3, <1>8
    <3> QED BY <1>5, <3>1, <3>2
  <2>2. Lighted(u, p) \/ bench[p].data.shown = c.shown
    <3>1. Lighted(s, p) \/ bench[p].data.shown = b.shown
      BY <1>1, <1>8 DEF Follows
    <3>2. c.shown = b.shown \/ Lighted(t, p)
      BY <1>3, <1>8
    <3> QED BY <1>5, <3>1, <3>2
  <2>3. Named(told', p) \/ bench'[p].data.status = board'[p].status
    BY <1>6, <1>8, <2>1, Zenon
  <2>4. Lighted(told', p) \/ bench'[p].data.shown = board'[p].shown
    BY <1>6, <1>8, <2>2, Zenon
  <2> QED BY <2>3, <2>4 DEF Follows, Named, Lighted, Names, Lights
<1> QED BY <1>7, <1>8

LEMMA RivalButtons ==
    ASSUME BenchShape, TidyInv, ButtonsInv, NEW kind \in {"poll", "board"}, NEW i, NEW act,
           W!Rival(kind, i, act), CallOK(W!NewCall(kind, i, act))
    PROVE  ButtonsInv'
<1>1. PICK r : r = W!NewCall(kind, i, act)
  OBVIOUS
<1>2. CallOK(r) /\ r.kind \in {"poll", "board"}
  BY <1>1 DEF W!NewCall
<1>3. /\ board' = W!Acted(r) /\ told' = told \o W!Said(r, FALSE)
      /\ UNCHANGED <<bench, calls, missed>>
  BY <1>1, <1>2 DEF W!Rival, W!EditsList, W!Applies, W!cache, W!wire
<1>4. ASSUME NEW p \in Polls PROVE PollInv(p)'
  <2>1. NamesTruly(told, p, board[p])' /\ LightsTruly(told, p, board[p])' /\ (~ Follows(p) \/ Follows(p)')
    BY <1>2, <1>3, SaidButtons
  <2>2. Answering(p) => Answering(p)'
    BY <1>3 DEF Answering, Answers
  <2>3. p \notin missed /\ W!Loaded(bench[p]) => Answering(p) \/ Follows(p)
    BY DEF ButtonsInv, PollInv
  <2>4. p \notin missed' /\ W!Loaded(bench[p])' => p \notin missed /\ W!Loaded(bench[p])
    BY <1>3 DEF W!Loaded
  <2> QED BY <2>1, <2>2, <2>3, <2>4 DEF PollInv
<1>5. BenchQueries' /\ RepliesOK'
  BY <1>3, SameQueries DEF ButtonsInv, RepliesOK, Answers
<1> QED BY <1>4, <1>5 DEF ButtonsInv

LEMMA EditsButtons ==
    ASSUME BenchShape, ButtonsInv, NEW kind, NEW i, NEW act, Edited(kind, i, act) PROVE ButtonsInv'
<1>1. UNCHANGED <<board, told, bench, calls>> /\ missed \subseteq missed'
  BY EditsDo
<1>2. BenchQueries' /\ RepliesOK' /\ \A p : Answering(p) => Answering(p)'
  BY <1>1, SameQueries DEF ButtonsInv, RepliesOK, Answering, Answers
<1>3. \A p \in Polls : PollInv(p)'
  BY <1>1, <1>2, PollStays DEF ButtonsInv
<1> QED BY <1>2, <1>3 DEF ButtonsInv

LEMMA ServeButtons ==
    ASSUME BenchShape, TidyInv, ButtonsInv, NEW c \in Calls, W!Serve(c)
    PROVE  ButtonsInv'
<1>1. /\ calls[c] # NoData /\ CallOK(calls[c]) /\ calls[c].at = "asked"
      /\ UNCHANGED <<bench, missed>>
  BY DEF W!Serve, W!cache, W!trace, BenchShape
<1>2. BenchShape' /\ BenchQueries'
  BY <1>1, ServeShape, SameQueries DEF ButtonsInv
<1>3. ~ Answers(calls[c])
  BY <1>1 DEF Answers
<1>4. CASE W!Refused(calls[c])
  <2>1. UNCHANGED <<board, told>> /\ calls' = [calls EXCEPT ![c] = [@ EXCEPT !.at = "failed"]]
    BY <1>4 DEF W!Serve, W!server
  <2>2. PICK n : n = [calls[c] EXCEPT !.at = "failed"]
    OBVIOUS
  <2>3. calls' = [calls EXCEPT ![c] = n]
    BY <2>1, <2>2 DEF BenchShape
  <2>4. ~ Answers(n)
    BY <1>1, <2>2, CallIs DEF Answers
  <2>5. RepliesOK' /\ \A p : Answering(p) => Answering(p)'
    BY <1>3, <2>3, <2>4, OneReply DEF ButtonsInv
  <2>6. \A p \in Polls : PollInv(p)'
    BY <1>1, <2>1, <2>5, PollStays DEF ButtonsInv
  <2> QED BY <1>2, <2>5, <2>6 DEF ButtonsInv
<1>5. CASE ~ W!Refused(calls[c])
  <2>1. PICK x : /\ calls' = [calls EXCEPT ![c].at = "done", ![c].reply = x]
                 /\ x = IF calls[c].kind = "poll" THEN board'[calls[c].item] ELSE NoData
    BY <1>5 DEF W!Serve
  <2>2. PICK n : n = [[calls[c] EXCEPT !.at = "done"] EXCEPT !.reply = x]
    OBVIOUS
  <2>3. calls' = [calls EXCEPT ![c] = n]
    BY <2>1, <2>2 DEF BenchShape
  <2>4. {"at", "reply"} \subseteq DOMAIN calls[c]
    BY <1>1, CallIs
  <2>5. n.kind = calls[c].kind /\ n.item = calls[c].item /\ n.at = "done" /\ n.reply = x
    BY <2>2, <2>4
  <2>6. Answers(n) => n.reply \in W!Rows
    BY <1>1, <1>2, <2>1, <2>5 DEF Answers, CallOK, BenchShape, W!Items
  <2>7. RepliesOK' /\ \A p : Answering(p) => Answering(p)'
    BY <1>3, <2>3, <2>6, OneReply DEF ButtonsInv
  <2>8. CASE calls[c].kind \in {"poll", "board"}
    <3>1. board' = W!Acted(calls[c]) /\ told' = told \o W!Said(calls[c], TRUE)
      BY <1>5, <2>8 DEF W!Serve, W!Applies
    <3>2. ASSUME NEW p \in Polls PROVE PollInv(p)'
      <4>1. /\ NamesTruly(told, p, board[p])' /\ LightsTruly(told, p, board[p])'
            /\ (calls[c].kind = "poll" /\ calls[c].item = p) \/ ~ Follows(p) \/ Follows(p)'
        BY <1>1, <2>8, <3>1, SaidButtons
      <4>2. p \notin missed' /\ W!Loaded(bench[p])' => p \notin missed /\ W!Loaded(bench[p])
        BY <1>1 DEF W!Loaded
      <4>3. p \notin missed /\ W!Loaded(bench[p]) => Answering(p) \/ Follows(p)
        BY DEF ButtonsInv, PollInv
      <4>4. CASE calls[c].kind = "poll" /\ calls[c].item = p
        <5>1. calls'[c] = n
          BY <2>3 DEF BenchShape
        <5>2. n # NoData
          BY <1>1, <1>2, <2>1, <2>2, CallMoves, CallIs DEF BenchShape, CallOK, W!Items
        <5>3. Answering(p)'
          BY <2>5, <4>4, <5>1, <5>2 DEF Answering, Answers
        <5> QED BY <4>1, <5>3 DEF PollInv
      <4>5. CASE ~ (calls[c].kind = "poll" /\ calls[c].item = p)
        BY <2>7, <4>1, <4>2, <4>3, <4>5 DEF PollInv
      <4> QED BY <4>4, <4>5
    <3> QED BY <1>2, <2>7, <3>2 DEF ButtonsInv
  <2>9. CASE calls[c].kind \notin {"poll", "board"}
    <3>1. UNCHANGED <<board, told>>
      BY <1>1, <1>5, <2>9, CallIs DEF W!Serve, W!Applies, W!Kinds
    <3>2. \A p \in Polls : PollInv(p)'
      BY <1>1, <2>7, <3>1, PollStays DEF ButtonsInv
    <3> QED BY <1>2, <2>7, <3>2 DEF ButtonsInv
  <2> QED BY <2>8, <2>9
<1> QED BY <1>4, <1>5

LEMMA EndsButtons ==
    ASSUME BenchShape, ButtonsInv, NEW c \in Calls, W!Ends(c) \/ W!Lose(c)
    PROVE  ButtonsInv'
<1>0. calls[c] # NoData /\ CallOK(calls[c]) /\ UNCHANGED <<board, told>> /\ missed \subseteq missed'
  BY DEF W!Ends, W!Done, W!Failed, W!Reordered, W!Lose, W!server, W!socket, W!trace, BenchShape
<1>1. ASSUME NEW r, calls' = [calls EXCEPT ![c] = r], ~ Answers(r), ~ Answers(calls[c]), bench' = bench
      PROVE  ButtonsInv'
  <2>1. RepliesOK' /\ \A p : Answering(p) => Answering(p)'
    BY <1>1, OneReply DEF ButtonsInv
  <2>2. \A p \in Polls : PollInv(p)'
    BY <1>0, <1>1, <2>1, PollStays DEF ButtonsInv
  <2> QED BY <1>1, <2>1, <2>2, SameQueries DEF ButtonsInv
<1>2. CASE W!Done(c)
  <2>1. PICK r : calls' = [calls EXCEPT ![c] = r] /\ ~ Answers(r)
    <3>1. W!NewCall("golive", none, "live").kind = "golive"
      BY DEF W!NewCall
    <3> QED BY <1>2, <3>1 DEF W!Done, W!Ended, Answers
  <2>2. RepliesOK' /\ \A p : Answering(p) /\ ~ (Answers(calls[c]) /\ calls[c].item = p) => Answering(p)'
    BY <2>1, OneReply DEF ButtonsInv
  <2>3. CASE calls[c].kind = "poll"
    <3>1. PICK i, d : i = calls[c].item /\ d = calls[c].reply
      OBVIOUS
    <3>2. i \in Polls /\ d \in W!Rows /\ Answers(calls[c])
      BY <1>0, <1>2, <2>3, <3>1 DEF W!Done, CallOK, ButtonsInv, RepliesOK, Answers
    <3>3. bench' = [bench EXCEPT ![i] = W!Patched(@, d)] /\ (d = board[i] \/ i \in missed')
      BY <1>2, <2>3, <3>1 DEF W!Done, W!Benched
    <3>4. bench' = [p \in Polls |-> IF p = i THEN W!Patched(bench[p], d) ELSE bench[p]]
      BY <3>3 DEF ButtonsInv, BenchQueries
    <3>5. \A p \in Polls : RowQuery(bench[p])
      BY DEF ButtonsInv, BenchQueries
    <3>6. RowQuery(W!Patched(bench[i], d))
            /\ W!Patched(bench[i], d).data = IF W!Loaded(bench[i]) THEN d ELSE bench[i].data
      BY <3>2, <3>5, RowMoves
    <3>7. BenchQueries'
      BY <3>4, <3>5, <3>6 DEF BenchQueries, RowQuery
    <3>8. ASSUME NEW p \in Polls PROVE PollInv(p)'
      <4>1. CASE p # i
        <5>1. bench'[p] = bench[p]
          BY <3>4, <4>1
        <5> QED BY <1>0, <2>2, <3>1, <4>1, <5>1, PollStays DEF ButtonsInv
      <4>2. CASE p = i
        <5>1. NamesTruly(told, p, board[p])' /\ LightsTruly(told, p, board[p])'
          <6>1. NamesTruly(told, p, board[p]) /\ LightsTruly(told, p, board[p])
            BY DEF ButtonsInv, PollInv
          <6> QED BY <1>0, <6>1 DEF NamesTruly, LightsTruly, NamesAfter, LightsAfter, Names, Lights
        <5>2. ASSUME p \notin missed', W!Loaded(bench[p])' PROVE Follows(p)'
          <6>1. d = board'[p] /\ bench'[p] = W!Patched(bench[p], d)
            BY <1>0, <3>3, <3>4, <4>2, <5>2
          <6>2. W!Loaded(bench[p])
            BY <3>6, <4>2, <5>2, <6>1 DEF W!Loaded
          <6>3. bench'[p].data = board'[p]
            BY <3>6, <4>2, <6>1, <6>2
          <6> QED BY <6>3 DEF Follows
        <5> QED BY <5>1, <5>2 DEF PollInv
      <4> QED BY <4>1, <4>2
    <3> QED BY <2>2, <3>7, <3>8 DEF ButtonsInv
  <2>4. CASE calls[c].kind # "poll"
    <3>1. \A p : Answering(p) => Answering(p)'
      BY <2>2, <2>4 DEF Answers
    <3>2. BenchQueries' /\ \A p \in Polls : bench'[p].data = bench[p].data
      <4>1. bench' = bench \/ \E i, fresh : W!Selects(i, fresh)
        BY <1>2, <2>4 DEF W!Done, W!Benched
      <4> QED BY <4>1, SameQueries, SelectQueries DEF ButtonsInv
    <3>3. \A p \in Polls : PollInv(p)'
      BY <1>0, <3>1, <3>2, PollStays DEF ButtonsInv
    <3> QED BY <2>2, <3>2, <3>3 DEF ButtonsInv
  <2> QED BY <2>3, <2>4
<1>3. CASE W!Failed(c)
  BY <1>1, <1>3 DEF W!Failed, W!Ended, W!cache, Answers
<1>4. CASE W!Reordered(c)
  BY <1>1, <1>4 DEF W!Reordered, W!Ended, Answers
<1>5. CASE W!Lose(c)
  <2>1. calls' = [calls EXCEPT ![c] = [@ EXCEPT !.at = "failed"]] /\ bench' = bench
    BY <1>5 DEF W!Lose, W!cache
  <2>2. PICK r : r = [calls[c] EXCEPT !.at = "failed"]
    OBVIOUS
  <2>3. calls' = [calls EXCEPT ![c] = r] /\ ~ Answers(r)
    <3>1. r.at = "failed"
      BY <1>0, <2>2, CallIs
    <3> QED BY <2>1, <2>2, <3>1 DEF BenchShape, Answers
  <2>4. CASE ~ Answers(calls[c])
    BY <1>1, <2>1, <2>3, <2>4
  <2>5. CASE Answers(calls[c])
    <3>1. calls[c].item \in missed'
      BY <1>5, <2>5 DEF W!Lose, Answers
    <3>2. RepliesOK' /\ \A p : Answering(p) /\ ~ (Answers(calls[c]) /\ calls[c].item = p) => Answering(p)'
      BY <2>3, OneReply DEF ButtonsInv
    <3>3. ASSUME NEW p \in Polls PROVE PollInv(p)'
      <4>1. CASE p # calls[c].item
        BY <1>0, <2>1, <3>2, <4>1, PollStays DEF ButtonsInv
      <4>2. CASE p = calls[c].item
        <5>1. NamesTruly(told, p, board[p]) /\ LightsTruly(told, p, board[p])
          BY DEF ButtonsInv, PollInv
        <5>2. NamesTruly(told, p, board[p])' /\ LightsTruly(told, p, board[p])'
          BY <1>0, <5>1 DEF NamesTruly, LightsTruly, NamesAfter, LightsAfter, Names, Lights
        <5> QED BY <3>1, <4>2, <5>2 DEF PollInv
      <4> QED BY <4>1, <4>2
    <3> QED BY <2>1, <3>2, <3>3, SameQueries DEF ButtonsInv
  <2> QED BY <2>4, <2>5
<1> QED BY <1>2, <1>3, <1>4, <1>5 DEF W!Ends

(* An event that the page uses brings one field up to date, or another that is        *)
(* pending will.                                                                  *)
LEMMA CarriesIs ==
    ASSUME NEW d \in W!Rows, NEW e \in Events
    PROVE  /\ W!OnEvent(d, e) \in W!Rows
           /\ W!OnEvent(d, e).status = IF Names(e) /\ e.what # "start" THEN e.what ELSE d.status
           /\ W!OnEvent(d, e).shown = IF e.what \in {"reveal", "hide"} THEN e.what = "reveal" ELSE d.shown
<1>0. e.what \in {"reveal", "hide", "start", "idle", "active", "locked", "stopped"}
  BY DEF Events
<1>1. CASE e.what = "reveal"
  <2>1. W!OnEvent(d, e) = [d EXCEPT !.shown = TRUE]
    BY <1>1 DEF W!OnEvent, W!Carries
  <2> QED BY <1>1, <2>1 DEF W!Rows, Names
<1>2. CASE e.what = "hide"
  <2>1. W!OnEvent(d, e) = [d EXCEPT !.shown = FALSE]
    BY <1>2 DEF W!OnEvent, W!Carries
  <2> QED BY <1>2, <2>1 DEF W!Rows, Names
<1>3. CASE e.what = "start"
  <2>1. W!OnEvent(d, e) = d
    BY <1>3 DEF W!OnEvent, W!Carries
  <2> QED BY <1>3, <2>1 DEF Names
<1>4. CASE e.what \notin {"reveal", "hide", "start"}
  <2>1. W!OnEvent(d, e) = [d EXCEPT !.status = e.what]
    BY <1>4 DEF W!OnEvent, W!Carries
  <2> QED BY <1>0, <1>4, <2>1 DEF W!Rows, W!Status, Names
<1> QED BY <1>1, <1>2, <1>3, <1>4

LEMMA UsedTruly ==
    ASSUME NEW s \in Seq(Events), s # <<>>, NEW b, NEW p, s[1].poll = p,
           NamesTruly(s, p, b), LightsTruly(s, p, b),
           ~ \E f \in W!ToSet(Tail(s)) : f.poll = p /\ f.mine
    PROVE  /\ Names(s[1]) /\ s[1].what # "start" => Named(Tail(s), p) \/ b.status = s[1].what
           /\ s[1].what \in {"reveal", "hide"} => Lighted(Tail(s), p) \/ b.shown = (s[1].what = "reveal")
<1>1. PICK t : t = Tail(s)
  OBVIOUS
<1>2. Len(s) \in Nat \ {0} /\ Len(t) = Len(s) - 1 /\ (\A k \in 1 .. Len(s) - 1 : t[k] = s[k + 1])
        /\ t \in Seq(Events)
  <2> HIDE DEF Events
  <2>1. \A k \in 1 .. Len(s) - 1 : Tail(s)[k] = s[k + 1]
    BY HeadTailProperties
  <2>2. Len(s) \in Nat \ {0}
    BY LenProperties, EmptySeq
  <2> QED BY <1>1, <2>1, <2>2, HeadTailProperties
<1>3. ASSUME NEW k \in 1 + 1 .. Len(s), s[k].poll = p
      PROVE  k - 1 \in 1 .. Len(t) /\ t[k - 1] = s[k] /\ ~ s[k].mine
  <2>1. k - 1 \in 1 .. Len(s) - 1 /\ (k - 1) + 1 = k
    BY <1>2
  <2>2. k - 1 \in 1 .. Len(t) /\ t[k - 1] = s[k]
    BY <1>2, <2>1
  <2>3. t[k - 1] \in W!ToSet(t)
    <3>1. DOMAIN t = 1 .. Len(t)
      BY <1>2, LenProperties
    <3> QED BY <2>2, <3>1 DEF W!ToSet
  <2> QED BY <1>1, <1>3, <2>2, <2>3
<1>4. NamesAfter(s, p, 1) => Named(t, p)
  BY <1>3 DEF NamesAfter, Named
<1>5. LightsAfter(s, p, 1) => Lighted(t, p)
  BY <1>3 DEF LightsAfter, Lighted
<1>6. 1 \in 1 .. Len(s)
  BY <1>2
<1>7. Names(s[1]) /\ s[1].what # "start" => Named(t, p) \/ b.status = s[1].what
  BY <1>4, <1>6 DEF NamesTruly
<1>8. s[1].what \in {"reveal", "hide"} => Lighted(t, p) \/ b.shown = (s[1].what = "reveal")
  BY <1>5, <1>6 DEF LightsTruly
<1> QED BY <1>1, <1>7, <1>8

LEMMA DeliverButtons == ASSUME BenchShape, TidyInv, ButtonsInv, W!Deliver PROVE ButtonsInv'
<1>1. PICK s, e, i : s = told /\ e = s[1] /\ i = e.poll
  OBVIOUS
<1>2. s \in Seq(Events) /\ s # <<>> /\ e \in Events /\ i \in Polls /\ told' = Tail(s) /\ Head(told) = e
  <2>1. told \in Seq(Events) /\ told # <<>> /\ told' = Tail(told)
    BY DEF W!Deliver, TidyInv
  <2>2. Head(told) = told[1] /\ Head(told) \in Events
    BY <2>1, ToldHead
  <2>3. e \in Events
    BY <1>1, <2>2
  <2>4. i \in Polls
    BY <1>1, <2>3 DEF Events
  <2> QED BY <1>1, <2>1, <2>2, <2>3, <2>4
<1>3. UNCHANGED <<board, calls>>
  BY DEF W!Deliver, W!server, W!wire
<1>4. PICK used : used = (i = W!Current /\ i \notin guard) /\ used \in BOOLEAN
  OBVIOUS
<1>5. /\ bench' = IF used /\ W!Loaded(bench[i])
                  THEN [bench EXCEPT ![i] = W!Written(@, W!OnEvent(@.data, e))] ELSE bench
      /\ missed' = IF \/ ~ e.mine /\ (~ used \/ e.what \in {"start", "idle"})
                      \/ used /\ \E f \in W!ToSet(Tail(s)) : f.poll = i /\ f.mine
                   THEN missed \cup {i} ELSE missed
  BY <1>1, <1>2, <1>4 DEF W!Deliver
<1>6. /\ \A p \in Polls : RowQuery(bench[p]) /\ (W!Loaded(bench[p]) => bench[p].data \in W!Rows)
      /\ bench = [p \in Polls |-> bench[p]]
  BY DEF ButtonsInv, BenchQueries, RowQuery, W!Queries, W!Loaded
<1>7. PICK d : d = bench[i].data
  OBVIOUS
<1>8. W!Loaded(bench[i]) => d \in W!Rows /\ W!OnEvent(d, e) \in W!Rows
  BY <1>2, <1>6, <1>7, CarriesIs
<1>9. /\ \A p \in Polls : p # i => bench'[p] = bench[p]
      /\ used /\ W!Loaded(bench[i]) => bench'[i] = W!Written(bench[i], W!OnEvent(d, e))
      /\ ~ (used /\ W!Loaded(bench[i])) => bench'[i] = bench[i]
      /\ bench' = [p \in Polls |-> bench'[p]]
  BY <1>2, <1>5, <1>6, <1>7
<1>10. /\ RowQuery(bench'[i])
       /\ used /\ W!Loaded(bench[i]) => bench'[i].data = W!OnEvent(d, e)
  <2>1. CASE used /\ W!Loaded(bench[i])
    <3>1. RowQuery(W!Written(bench[i], W!OnEvent(d, e)))
            /\ W!Written(bench[i], W!OnEvent(d, e)).data = W!OnEvent(d, e)
      BY <1>2, <1>6, <1>8, <2>1, RowMoves
    <3> QED BY <1>9, <2>1, <3>1
  <2>2. CASE ~ (used /\ W!Loaded(bench[i]))
    BY <1>2, <1>6, <1>9, <2>2
  <2> QED BY <2>1, <2>2
<1>11. BenchQueries'
  BY <1>2, <1>6, <1>9, <1>10 DEF BenchQueries, RowQuery
<1>12. RepliesOK' /\ \A p : Answering(p) => Answering(p)'
  BY <1>3 DEF ButtonsInv, RepliesOK, Answering, Answers
<1>13. ASSUME NEW p \in Polls PROVE PollInv(p)'
  <2>1. NamesTruly(s, p, board[p]) /\ LightsTruly(s, p, board[p])
    BY <1>1 DEF ButtonsInv, PollInv
  <2>2. /\ NamesTruly(Tail(s), p, board[p]) /\ LightsTruly(Tail(s), p, board[p])
        /\ Named(s, p) => Named(Tail(s), p) \/ (s[1].poll = p /\ ~ s[1].mine /\ Names(s[1]))
        /\ Lighted(s, p) => Lighted(Tail(s), p) \/ (s[1].poll = p /\ ~ s[1].mine /\ Lights(s[1]))
    <3> HIDE DEF Events
    <3> QED BY <1>2, <2>1, TailTruly
  <2>3. NamesTruly(told, p, board[p])' /\ LightsTruly(told, p, board[p])'
    <3>1. NamesTruly(told', p, board'[p]) /\ LightsTruly(told', p, board'[p])
      BY <1>2, <1>3, <2>2, Zenon
    <3> QED BY <3>1 DEF NamesTruly, LightsTruly, NamesAfter, LightsAfter, Names, Lights
  <2>4. SUFFICES ASSUME p \notin missed', W!Loaded(bench[p])', ~ Answering(p)' PROVE Follows(p)'
    BY <2>3 DEF PollInv
  <2>5. p \notin missed /\ ~ Answering(p)
    BY <1>5, <1>12, <2>4
  <2>6. W!Loaded(bench[p])
    BY <1>2, <1>9, <2>4 DEF W!Loaded
  <2>7. Follows(p)
    BY <2>5, <2>6 DEF ButtonsInv, PollInv
  <2>8. Named(s, p) \/ bench[p].data.status = board[p].status
    BY <1>1, <2>7 DEF Follows
  <2>9. Lighted(s, p) \/ bench[p].data.shown = board[p].shown
    BY <1>1, <2>7 DEF Follows
  <2>10. /\ Named(Tail(s), p) \/ bench'[p].data.status = board[p].status
         /\ Lighted(Tail(s), p) \/ bench'[p].data.shown = board[p].shown
    <3>1. CASE p # i
      <4>1. bench'[p] = bench[p] /\ s[1].poll # p
        BY <1>1, <1>9, <3>1
      <4> QED BY <2>2, <2>8, <2>9, <4>1
    <3>2. CASE p = i /\ ~ used
      <4>1. e.mine /\ bench'[p] = bench[p]
        BY <1>5, <1>9, <2>4, <3>2
      <4> QED BY <1>1, <2>2, <2>8, <2>9, <4>1
    <3>3. CASE p = i /\ used
      <4>1. /\ e.mine \/ e.what \notin {"start", "idle"}
            /\ ~ \E f \in W!ToSet(Tail(s)) : f.poll = p /\ f.mine
        BY <1>5, <2>4, <3>3
      <4>2. /\ bench'[p].data = W!OnEvent(d, e) /\ d = bench[p].data /\ d \in W!Rows
        BY <1>7, <1>8, <1>10, <2>6, <3>3
      <4>3. /\ W!OnEvent(d, e).status = IF Names(e) /\ e.what # "start" THEN e.what ELSE d.status
            /\ W!OnEvent(d, e).shown = IF e.what \in {"reveal", "hide"} THEN e.what = "reveal" ELSE d.shown
        BY <1>2, <4>2, CarriesIs
      <4>4. /\ Names(s[1]) /\ s[1].what # "start" => Named(Tail(s), p) \/ board[p].status = s[1].what
            /\ s[1].what \in {"reveal", "hide"}
                 => Lighted(Tail(s), p) \/ board[p].shown = (s[1].what = "reveal")
        <5> HIDE DEF Events
        <5> QED BY <1>1, <1>2, <2>1, <3>3, <4>1, UsedTruly
      <4>5. Named(Tail(s), p) \/ bench'[p].data.status = board[p].status
        <5>1. CASE Names(e) /\ e.what # "start"
          BY <1>1, <4>2, <4>3, <4>4, <5>1
        <5>2. CASE ~ (Names(e) /\ e.what # "start")
          <6>1. bench'[p].data.status = bench[p].data.status
            BY <4>2, <4>3, <5>2
          <6>2. ~ (~ s[1].mine /\ Names(s[1]))
            BY <1>1, <4>1, <5>2
          <6> QED BY <2>2, <2>8, <6>1, <6>2
        <5> QED BY <5>1, <5>2
      <4>6. Lighted(Tail(s), p) \/ bench'[p].data.shown = board[p].shown
        <5>1. CASE e.what \in {"reveal", "hide"}
          <6>1. bench'[p].data.shown = (s[1].what = "reveal")
            BY <1>1, <4>2, <4>3, <5>1
          <6>2. Lighted(Tail(s), p) \/ board[p].shown = (s[1].what = "reveal")
            BY <1>1, <4>4, <5>1
          <6> QED BY <6>1, <6>2
        <5>2. CASE e.what \notin {"reveal", "hide"}
          <6>1. bench'[p].data.shown = bench[p].data.shown
            BY <4>2, <4>3, <5>2
          <6>2. ~ (~ s[1].mine /\ Lights(s[1]))
            <7>1. e.what \in {"start", "idle", "active", "locked", "stopped"}
              BY <1>2, <5>2 DEF Events
            <7> QED BY <1>1, <4>1, <7>1 DEF Lights
          <6> QED BY <2>2, <2>9, <6>1, <6>2
        <5> QED BY <5>1, <5>2
      <4> QED BY <4>5, <4>6
    <3> QED BY <1>4, <3>1, <3>2, <3>3
  <2>11. Named(told', p) \/ bench'[p].data.status = board'[p].status
    BY <1>2, <1>3, <2>10, Zenon
  <2>12. Lighted(told', p) \/ bench'[p].data.shown = board'[p].shown
    BY <1>2, <1>3, <2>10, Zenon
  <2> QED BY <2>11, <2>12 DEF Follows, Named, Lighted, Names, Lights
<1> QED BY <1>11, <1>12, <1>13 DEF ButtonsInv

LEMMA LoseEventButtons == ASSUME BenchShape, TidyInv, ButtonsInv, W!LoseEvent PROVE ButtonsInv'
<1>1. PICK s : s = told
  OBVIOUS
<1>2. s \in Seq(Events) /\ s # <<>> /\ told' = Tail(s) /\ Head(s) = s[1]
  <2>1. told \in Seq(Events) /\ told # <<>> /\ told' = Tail(told)
    BY DEF W!LoseEvent, TidyInv
  <2>2. Head(told) = told[1]
    BY <2>1, ToldHead
  <2> QED BY <1>1, <2>1, <2>2
<1>3. UNCHANGED <<board, calls, bench>> /\ missed' = missed \cup {s[1].poll}
  BY <1>1, <1>2 DEF W!LoseEvent, W!server, W!cache, W!wire
<1>4. BenchQueries' /\ RepliesOK' /\ \A p : Answering(p) => Answering(p)'
  BY <1>3, SameQueries DEF ButtonsInv, RepliesOK, Answering, Answers
<1>5. ASSUME NEW p \in Polls PROVE PollInv(p)'
  <2>1. NamesTruly(s, p, board[p]) /\ LightsTruly(s, p, board[p])
    BY <1>1 DEF ButtonsInv, PollInv
  <2>2. /\ NamesTruly(Tail(s), p, board[p]) /\ LightsTruly(Tail(s), p, board[p])
        /\ Named(s, p) => Named(Tail(s), p) \/ (s[1].poll = p /\ ~ s[1].mine /\ Names(s[1]))
        /\ Lighted(s, p) => Lighted(Tail(s), p) \/ (s[1].poll = p /\ ~ s[1].mine /\ Lights(s[1]))
    <3> HIDE DEF Events
    <3> QED BY <1>2, <2>1, TailTruly
  <2>3. NamesTruly(told, p, board[p])' /\ LightsTruly(told, p, board[p])'
    <3>1. NamesTruly(told', p, board'[p]) /\ LightsTruly(told', p, board'[p])
      BY <1>2, <1>3, <2>2, Zenon
    <3> QED BY <3>1 DEF NamesTruly, LightsTruly, NamesAfter, LightsAfter, Names, Lights
  <2>4. SUFFICES ASSUME p \notin missed', W!Loaded(bench[p])', ~ Answering(p)' PROVE Follows(p)'
    BY <2>3 DEF PollInv
  <2>5. p \notin missed /\ ~ Answering(p) /\ W!Loaded(bench[p]) /\ s[1].poll # p
    BY <1>3, <1>4, <2>4 DEF W!Loaded
  <2>6. Follows(p)
    BY <2>5 DEF ButtonsInv, PollInv
  <2>7. Named(Tail(s), p) \/ bench[p].data.status = board[p].status
    BY <1>1, <2>2, <2>5, <2>6 DEF Follows
  <2>8. Lighted(Tail(s), p) \/ bench[p].data.shown = board[p].shown
    BY <1>1, <2>2, <2>5, <2>6 DEF Follows
  <2>9. Named(told', p) \/ bench'[p].data.status = board'[p].status
    BY <1>2, <1>3, <2>7, Zenon
  <2>10. Lighted(told', p) \/ bench'[p].data.shown = board'[p].shown
    BY <1>2, <1>3, <2>8, Zenon
  <2> QED BY <2>9, <2>10 DEF Follows, Named, Lighted, Names, Lights
<1> QED BY <1>4, <1>5 DEF ButtonsInv

LEMMA QuietButtons ==
    ASSUME ButtonsInv, UNCHANGED <<board, told, missed, calls>>, BenchQueries',
           \A p \in Polls : bench'[p].data = bench[p].data
    PROVE  ButtonsInv'
<1>1. RepliesOK' /\ \A p : Answering(p) => Answering(p)'
  BY DEF ButtonsInv, RepliesOK, Answering, Answers
<1>2. \A p \in Polls : PollInv(p)'
  BY <1>1, PollStays DEF ButtonsInv
<1> QED BY <1>1, <1>2 DEF ButtonsInv

LEMMA StoreButtons ==
    ASSUME ButtonsInv, NEW t \in W!Targets, W!StoreFetch(t)
    PROVE  ButtonsInv'
<1>1. UNCHANGED <<board, told, calls>>
  BY DEF W!StoreFetch, W!server, W!socket, W!wire
<1>2. RepliesOK' /\ \A p : Answering(p) => Answering(p)'
  BY <1>1 DEF ButtonsInv, RepliesOK, Answering, Answers
<1>3. ASSUME bench' = bench, missed' = missed \/ missed' = missed \ {none} PROVE ButtonsInv'
  <2>1. BenchQueries' /\ \A p \in Polls : bench'[p].data = bench[p].data
    BY <1>3, SameQueries DEF ButtonsInv
  <2>2. none \notin Polls
    BY PartsAssumption DEF PartsAssumption, W!WorkbenchAssumption, W!Items
  <2>3. \A p \in Polls : PollInv(p)'
    BY <1>1, <1>2, <1>3, <2>1, <2>2, PollStays DEF ButtonsInv
  <2> QED BY <1>2, <2>1, <2>3 DEF ButtonsInv
<1>4. CASE t = "list"
  BY <1>3, <1>4 DEF W!StoreFetch
<1>5. CASE t = "session"
  BY <1>3, <1>5 DEF W!StoreFetch
<1>6. CASE t # "list" /\ t # "session"
  <2>1. t \in Polls
    BY <1>6 DEF W!Targets
  <2>2. /\ bench[t].fetch = "answered" /\ bench' = [bench EXCEPT ![t] = W!Stored(@)]
        /\ missed' = IF bench[t].reply = board[t] THEN missed \ {t} ELSE missed \cup {t}
    BY <1>6 DEF W!StoreFetch
  <2>3. bench' = [p \in Polls |-> IF p = t THEN W!Stored(bench[p]) ELSE bench[p]]
    BY <2>2 DEF ButtonsInv, BenchQueries
  <2>4. \A p \in Polls : RowQuery(bench[p])
    BY DEF ButtonsInv, BenchQueries
  <2>5. RowQuery(W!Stored(bench[t])) /\ W!Stored(bench[t]).data = bench[t].reply
    BY <2>1, <2>2, <2>4, RowMoves
  <2>6. BenchQueries'
    BY <2>3, <2>4, <2>5 DEF BenchQueries, RowQuery
  <2>7. ASSUME NEW p \in Polls PROVE PollInv(p)'
    <3>1. CASE p # t
      BY <1>1, <1>2, <2>2, <2>3, <3>1, PollStays DEF ButtonsInv
    <3>2. CASE p = t
      <4>1. NamesTruly(told, p, board[p])' /\ LightsTruly(told, p, board[p])'
        <5>1. NamesTruly(told, p, board[p]) /\ LightsTruly(told, p, board[p])
          BY DEF ButtonsInv, PollInv
        <5> QED BY <1>1, <5>1 DEF NamesTruly, LightsTruly, NamesAfter, LightsAfter, Names, Lights
      <4>2. ASSUME p \notin missed' PROVE Follows(p)'
        <5>1. bench[t].reply = board[t]
          BY <2>2, <3>2, <4>2
        <5>2. bench'[p].data = board'[p]
          BY <1>1, <2>3, <2>5, <3>2, <5>1
        <5> QED BY <5>2 DEF Follows
      <4> QED BY <4>1, <4>2 DEF PollInv
    <3> QED BY <3>1, <3>2
  <2> QED BY <1>2, <2>6, <2>7 DEF ButtonsInv
<1> QED BY <1>4, <1>5, <1>6

LEMMA FetchesButtons ==
    ASSUME BenchShape, ButtonsInv,
           \/ W!Link \/ W!Open \/ (\E p \in Polls : W!GuardEnds(p))
           \/ (\E t \in W!Targets : W!Backup(t) \/ W!AnswerFetch(t))
           \/ UNCHANGED W!vars
    PROVE  ButtonsInv'
<1>1. UNCHANGED <<board, told, missed, calls>>
  BY DEF W!Link, W!Open, W!GuardEnds, W!Backup, W!AnswerFetch, W!vars, W!server, W!socket, W!trace,
         W!wire
<1>2. CASE bench' = bench
  BY <1>1, <1>2, SameQueries, QuietButtons DEF ButtonsInv
<1>3. ASSUME NEW i \in Polls, bench' = [bench EXCEPT ![i] = W!Fetched(@)] PROVE ButtonsInv'
  BY <1>1, <1>3, FetchedQueries, QuietButtons DEF ButtonsInv
<1>4. CASE W!Link \/ (\E p \in Polls : W!GuardEnds(p)) \/ UNCHANGED W!vars
  BY <1>2, <1>4 DEF W!Link, W!GuardEnds, W!vars, W!cache
<1>5. CASE W!Open
  BY <1>3, <1>5 DEF W!Open
<1>6. ASSUME NEW t, W!Backup(t) PROVE ButtonsInv'
  <2>1. CASE bench' # bench
    <3>1. bench' = [bench EXCEPT ![t] = W!Fetched(@)]
      BY <1>6, <2>1 DEF W!Backup
    <3>2. t \in Polls
      BY <2>1, <3>1 DEF ButtonsInv, BenchQueries
    <3> QED BY <1>3, <3>1, <3>2
  <2> QED BY <1>2, <2>1
<1>7. ASSUME NEW t \in W!Targets, W!AnswerFetch(t) PROVE ButtonsInv'
  <2>1. \/ bench' = bench
        \/ t \in Polls /\ \E n \in {W!GivenUp(bench[t]), W!Answered(bench[t], board[t])} :
                           bench' = [bench EXCEPT ![t] = n]
    <3>1. CASE t = "list"
      BY <1>7, <3>1 DEF W!AnswerFetch
    <3>2. CASE t = "session"
      BY <1>7, <3>2 DEF W!AnswerFetch
    <3>3. CASE t # "list" /\ t # "session"
      BY <1>7, <3>3 DEF W!AnswerFetch, W!Targets
    <3> QED BY <3>1, <3>2, <3>3
  <2>2. ASSUME t \in Polls, NEW n \in {W!GivenUp(bench[t]), W!Answered(bench[t], board[t])},
               bench' = [bench EXCEPT ![t] = n]
        PROVE  ButtonsInv'
    <3>1. board[t] \in W!Rows /\ RowQuery(bench[t])
      BY <2>2 DEF BenchShape, W!Items, ButtonsInv, BenchQueries
    <3>2. /\ RowQuery(W!GivenUp(bench[t])) /\ W!GivenUp(bench[t]).data = bench[t].data
          /\ RowQuery(W!Answered(bench[t], board[t]))
          /\ W!Answered(bench[t], board[t]).data = bench[t].data
      BY <3>1, RowMoves
    <3>3. RowQuery(n) /\ n.data = bench[t].data
      BY <2>2, <3>2
    <3>4. BenchQueries' /\ \A p \in Polls : bench'[p].data = bench[p].data
      BY <2>2, <3>3, OtherQuery DEF ButtonsInv
    <3> QED BY <1>1, <3>4, QuietButtons
  <2> QED BY <1>2, <2>1, <2>2
<1> QED BY <1>4, <1>5, <1>6, <1>7

LEMMA LoseFetchButtons == ASSUME ButtonsInv, NEW t \in W!Targets, W!LoseFetch(t) PROVE ButtonsInv'
<1>1. UNCHANGED <<board, told, calls>> /\ missed \subseteq missed'
  BY LostFetch DEF W!LoseFetch, W!server, W!socket, W!wire
<1>2. BenchQueries' /\ \A p \in Polls : bench'[p].data = bench[p].data
  <2>1. CASE bench' = bench
    BY <2>1, SameQueries DEF ButtonsInv
  <2>2. CASE bench' # bench
    <3>1. t \in Polls /\ bench' = [bench EXCEPT ![t] = W!GivenUp(@)]
      BY <2>2, LostFetch DEF W!Targets
    <3>2. RowQuery(W!GivenUp(bench[t])) /\ W!GivenUp(bench[t]).data = bench[t].data
      BY <3>1, RowMoves DEF ButtonsInv, BenchQueries
    <3> QED BY <3>1, <3>2, OtherQuery DEF ButtonsInv
  <2> QED BY <2>1, <2>2
<1>3. RepliesOK' /\ \A p : Answering(p) => Answering(p)'
  BY <1>1 DEF ButtonsInv, RepliesOK, Answering, Answers
<1>4. \A p \in Polls : PollInv(p)'
  BY <1>1, <1>2, <1>3, PollStays DEF ButtonsInv
<1> QED BY <1>2, <1>3, <1>4 DEF ButtonsInv

LEMMA ButtonsInit == W!Init => ButtonsInv
<1> SUFFICES ASSUME W!Init PROVE ButtonsInv
  OBVIOUS
<1>1. bench = [p \in Polls |-> W!Unused] /\ calls = [c \in Calls |-> NoData] /\ told = <<>>
  BY DEF W!Init
<1>2. RowQuery(W!Unused) /\ ~ W!Loaded(W!Unused)
  BY DEF RowQuery, W!Queries, W!Unused, W!Fetches, W!Loaded
<1>3. BenchQueries
  BY <1>1, <1>2 DEF BenchQueries
<1>4. RepliesOK
  BY <1>1 DEF RepliesOK, Answers
<1>5. Len(told) = 0
  BY <1>1, EmptySeq
<1>6. ASSUME NEW p \in Polls PROVE PollInv(p)
  <2>1. NamesTruly(told, p, board[p]) /\ LightsTruly(told, p, board[p])
    BY <1>5 DEF NamesTruly, LightsTruly
  <2>2. ~ W!Loaded(bench[p])
    BY <1>1, <1>2
  <2> QED BY <2>1, <2>2 DEF PollInv
<1> QED BY <1>3, <1>4, <1>6 DEF ButtonsInv

LEMMA ButtonsNext == BenchInv /\ TidyInv /\ ButtonsInv /\ [W!Next]_W!vars => ButtonsInv'
<1> SUFFICES ASSUME BenchShape, TidyInv, ButtonsInv, [W!Next]_W!vars PROVE ButtonsInv'
  BY DEF BenchInv
<1>1. CASE W!Host
  BY <1>1, HostButtons
<1>2. CASE W!Others
  <2>1. PICK kind, i, act : Buttoned(kind, i, act) \/ Edited(kind, i, act)
    BY <1>2, OthersAre
  <2> QED BY <2>1, RivalButtons, EditsButtons DEF Buttoned
<1>3. ASSUME NEW c \in Calls, W!Serve(c) PROVE ButtonsInv'
  BY <1>3, ServeButtons
<1>4. ASSUME NEW c \in Calls, W!Ends(c) \/ W!Lose(c) PROVE ButtonsInv'
  BY <1>4, EndsButtons
<1>5. CASE W!Deliver \/ W!LoseEvent
  BY <1>5, DeliverButtons, LoseEventButtons
<1>6. ASSUME NEW t \in W!Targets, W!StoreFetch(t) PROVE ButtonsInv'
  BY <1>6, StoreButtons
<1>7. CASE \/ W!Link \/ W!Open \/ (\E p \in Polls : W!GuardEnds(p))
           \/ (\E t \in W!Targets : W!Backup(t) \/ W!AnswerFetch(t))
           \/ UNCHANGED W!vars
  BY <1>7, FetchesButtons
<1>8. ASSUME NEW t \in W!Targets, W!LoseFetch(t) PROVE ButtonsInv'
  BY <1>8, LoseFetchButtons
<1> QED BY <1>1, <1>2, <1>3, <1>4, <1>5, <1>6, <1>7, <1>8 DEF W!Next, W!Faults

LEMMA ButtonsGives == BenchInv /\ ButtonsInv => W!BenchAtRest
<1> SUFFICES ASSUME BenchShape, ButtonsInv, W!AtRest, W!Current \in Polls \ (missed \cup gone),
                    W!Loaded(bench[W!Current])
             PROVE  W!Detail = board[W!Current]
  BY DEF BenchInv, W!BenchAtRest
<1>1. PICK p : p = W!Current
  OBVIOUS
<1>2. told = <<>> /\ \A c \in Calls : calls[c] = NoData
  BY DEF W!AtRest
<1>3. ~ Answering(p)
  BY <1>2 DEF Answering, Answers
<1>4. Len(told) = 0
  BY <1>2, EmptySeq
<1>5. ~ Named(told, p) /\ ~ Lighted(told, p)
  BY <1>4 DEF Named, Lighted
<1>6. bench[p].data.status = board[p].status /\ bench[p].data.shown = board[p].shown
  BY <1>1, <1>3, <1>5 DEF ButtonsInv, PollInv, Follows
<1>7. bench[p].data \in W!Rows /\ board[p] \in W!Rows
  BY <1>1 DEF ButtonsInv, BenchQueries, RowQuery, W!Queries, W!Loaded, BenchShape, W!Items
<1>8. bench[p].data = board[p]
  BY <1>6, <1>7 DEF W!Rows
<1> QED BY <1>1, <1>8 DEF W!Detail
=============================================================================
