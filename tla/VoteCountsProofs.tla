-------------------------- MODULE VoteCountsProofs --------------------------
(* Proofs about VoteCounts, for any number of participants, vote requests     *)
(* and votes: the counts are those of the vote rows, give or take one for     *)
(* each vote request that died.                                               *)
EXTENDS VoteCounts, FiniteSetTheorems, TLAPS

(* The requests under way are each served for one participant, who has no    *)
(* other one; a vote they have not committed still replaces the row loaded.  *)
Serving ==
    /\ \A r \in Req : (pc[r] = "idle") <=> (who[r] = None)
    /\ \A q, r \in Req : who[q] = who[r] /\ who[r] # None => q = r
    /\ \A r \in Req : stale[r] = FALSE
    /\ \A r \in Req : pc[r] \in {"up", "down", "queue", "commit"}
                        => old[r] = votes[who[r]]
    /\ \A r \in Degraded : pc[r] \notin {"up", "down", "queue"}

Drift(s) == Total(s) - Cardinality(Supporters(s))

IInv == TypeOK /\ (~ overlapped => Serving) /\ CrashCostsOneVote

-----------------------------------------------------------------------------
LEMMA TypeInit == Init => TypeOK
  <1> SUFFICES ASSUME Init PROVE TypeOK
    OBVIOUS
  <1>1. Zero \in Counts  BY DEF Zero, Counts
  <1>2. /\ cast \in 0..MaxVotes /\ crashes \in 0..MaxCrashes
        /\ flushCrashes \in 0..MaxCrashes
    BY VoteAssumption DEF Init
  <1> QED  BY <1>1, <1>2 DEF Init, TypeOK, Choices, Labels, FlushLabels

LEMMA DeltaType ==
    ASSUME NEW r, NEW s
    PROVE  Delta(r, s) \in Int
  BY DEF Delta, One

LEMMA CloseType ==
    ASSUME TypeOK, NEW r \in Req, Close(r)
    PROVE  /\ pc' \in [Req -> Labels]
           /\ who' \in [Req -> Participants \cup {None}]
           /\ old' \in [Req -> Choices] /\ new' \in [Req -> Choices]
           /\ stale' \in [Req -> BOOLEAN]
  BY DEF TypeOK, Close, Goto, Labels, Choices, Counts, Zero

LEMMA TypeNext == TypeOK /\ [Next]_vars => TypeOK'
  <1> SUFFICES ASSUME TypeOK, [Next]_vars PROVE TypeOK'
    OBVIOUS
  <1> USE VoteAssumption
  <1>1. ASSUME NEW r \in Req, NEW p \in Participants, NEW w \in Sides,
               LoadVote(r, p, w)
        PROVE  TypeOK'
    BY <1>1 DEF LoadVote, TypeOK, Toggle, Goto, Choices, Labels, redis, flush
  <1>2. ASSUME NEW r \in Req, CountUp(r) \/ CountDown(r) PROVE TypeOK'
    BY <1>2, DeltaType
    DEF CountUp, CountDown, TypeOK, Counts, Sides, Goto, Labels, choice, flush,
        budget
  <1>3. ASSUME NEW r \in Req, Enqueue(r) PROVE TypeOK'
    BY <1>3 DEF Enqueue, TypeOK, Goto, Labels, choice, flush, budget
  <1>4. ASSUME NEW r \in Req, CommitVote(r) PROVE TypeOK'
    <2>1. db' \in Counts
      BY <1>4, DeltaType DEF CommitVote, TypeOK, Counts
    <2>2. votes' \in [Participants -> Choices]
      BY <1>4 DEF CommitVote, TypeOK
    <2>3. stale' \in [Req -> BOOLEAN]
      BY <1>4 DEF CommitVote, TypeOK
    <2> QED
      BY <1>4, <2>1, <2>2, <2>3
      DEF CommitVote, TypeOK, Goto, Labels, redis, choice, flush, budget
  <1>5. ASSUME NEW r \in Req, CommitRefused(r) \/ Answer(r) \/ Crash(r)
        PROVE  TypeOK'
    <2>1. Close(r)  BY <1>5 DEF CommitRefused, Answer, Crash
    <2>2. crashes' \in 0..MaxCrashes
      BY <1>5 DEF CommitRefused, Answer, Crash, budget, TypeOK
    <2> QED
      BY <1>5, <2>1, <2>2, CloseType
      DEF CommitRefused, Answer, Crash, TypeOK, redis, flush, budget
  <1>6. ASSUME NEW f \in Flushers, Flush(f) \/ FlushCrash(f) PROVE TypeOK'
    <2>1. CASE Scan(f)
      BY <2>1 DEF Scan, TypeOK, Advance, FlushLabels, redis, choice, budget
    <2>2. CASE ReadPending(f)
      BY <2>2 DEF ReadPending, AfterRead, TypeOK, Advance, FlushLabels, redis,
                  choice, budget
    <2>3. CASE Apply(f)
      BY <2>3 DEF Apply, TypeOK, Advance, FlushLabels, Counts, redis, choice,
                  budget
    <2>4. CASE TakeUp(f) \/ TakeDown(f)
      <3>1. taken[f] \in Counts /\ pending \in Counts  BY DEF TypeOK
      <3>2. \A s \in Sides : TakeBack(f, s) \in Counts
        BY <3>1 DEF TakeBack, Counts
      <3>3. pending' \in Counts
        BY <2>4, <3>2 DEF TakeUp, TakeDown, Sides
      <3>4. fpc' \in [Flushers -> FlushLabels]
        BY <2>4 DEF TakeUp, TakeDown, TypeOK, Advance, FlushLabels
      <3> QED
        BY <2>4, <3>3, <3>4 DEF TakeUp, TakeDown, TypeOK, choice, budget
    <2>5. CASE Drop(f) \/ FlushCrash(f)
      <3>1. Zero \in Counts  BY DEF Zero, Counts
      <3>2. /\ fpc' \in [Flushers -> FlushLabels]
            /\ taken' \in [Flushers -> Counts]
        BY <2>5, <3>1 DEF Drop, FlushCrash, TypeOK, Advance, FlushLabels
      <3>3. flushCrashes' \in 0..MaxCrashes
        BY <2>5 DEF Drop, FlushCrash, TypeOK, budget
      <3> QED
        BY <2>5, <3>2, <3>3 DEF Drop, FlushCrash, TypeOK, redis, choice, budget
    <2> QED  BY <1>6, <2>1, <2>2, <2>3, <2>4, <2>5 DEF Flush
  <1>7. CASE UNCHANGED vars
    BY <1>7 DEF vars, TypeOK, redis, choice, flush, budget
  <1> QED
    BY <1>1, <1>2, <1>3, <1>4, <1>5, <1>6, <1>7 DEF Next, Serve

(* The types of the vote counts. *)
THEOREM VoteTypes == Spec => []TypeOK
  BY TypeInit, TypeNext, PTL DEF Spec

-----------------------------------------------------------------------------
LEMMA ServingInit == Init => Serving
  <1> SUFFICES ASSUME Init PROVE Serving
    OBVIOUS
  <1>1. \A r \in Req : pc[r] = "idle" /\ who[r] = None /\ stale[r] = FALSE
    BY DEF Init
  <1> QED  BY <1>1, VoteAssumption DEF Serving

(* Requests that serve another participant are left alone by a step of r. *)
Alone(r) ==
    /\ \A x \in Req \ {r} : /\ pc'[x] = pc[x] /\ who'[x] = who[x]
                             /\ old'[x] = old[x] /\ new'[x] = new[x]
    /\ \A p \in Participants : votes'[p] # votes[p] => p = who[r]

(* What a step of r has to show for Serving to go on. *)
LEMMA ServingStep ==
    ASSUME TypeOK, Serving, NEW r \in Req, Alone(r), stale' = stale,
           \/ who'[r] = who[r]
           \/ who'[r] = None
           \/ /\ who[r] = None
              /\ \A x \in Req : who[x] # who'[r],
           pc'[r] = "idle" <=> who'[r] = None,
           pc'[r] \in {"up", "down", "queue", "commit"}
              => old'[r] = votes'[who'[r]],
           r \in Degraded => pc'[r] \notin {"up", "down", "queue"}
    PROVE  Serving'
  <1>1. \A q \in Req : (pc'[q] = "idle") <=> (who'[q] = None)
    BY DEF Serving, Alone
  <1>2. \A q, x \in Req : who'[q] = who'[x] /\ who'[x] # None => q = x
    BY DEF Serving, Alone
  <1>3. ASSUME NEW q \in Req, pc'[q] \in {"up", "down", "queue", "commit"}
        PROVE  old'[q] = votes'[who'[q]]
    <2>1. CASE q = r  BY <1>3, <2>1
    <2>2. CASE q # r
      <3>1. /\ pc'[q] = pc[q] /\ who'[q] = who[q] /\ old'[q] = old[q]
        BY <2>2 DEF Alone
      <3>2. who[q] # None /\ who[q] \in Participants /\ who[q] # who[r]
        BY <1>3, <2>2, <3>1 DEF Serving, TypeOK
      <3> QED  BY <1>3, <3>1, <3>2 DEF Alone, Serving
    <2> QED  BY <2>1, <2>2
  <1>4. \A q \in Degraded : pc'[q] \notin {"up", "down", "queue"}
    BY VoteAssumption DEF Serving, Alone
  <1> QED  BY <1>1, <1>2, <1>3, <1>4 DEF Serving

LEMMA CloseServing ==
    ASSUME TypeOK, Serving, NEW r \in Req, Close(r), UNCHANGED votes
    PROVE  Serving'
  <1>1. Alone(r) /\ who'[r] = None /\ pc'[r] = "idle"
    BY DEF Alone, Close, Goto, TypeOK
  <1>2. stale' = stale
    BY DEF Close, Serving, TypeOK
  <1> QED  BY <1>1, <1>2, ServingStep

(* Once votes of one participant have overlapped, this is not forgotten. *)
LEMMA OverlapStays == [Next]_vars /\ overlapped => overlapped'
  <1> SUFFICES ASSUME [Next]_vars, overlapped PROVE overlapped'
    OBVIOUS
  <1>1. ASSUME NEW r \in Req, Serve(r) PROVE overlapped'
    BY <1>1 DEF Serve, CountUp, CountDown, Enqueue, CommitVote, CommitRefused,
                Answer, budget
  <1>2. ASSUME NEW f \in Flushers, Flush(f) \/ FlushCrash(f) PROVE overlapped'
    BY <1>2 DEF Flush, Scan, ReadPending, Apply, TakeUp, TakeDown, Drop,
                FlushCrash, budget
  <1>3. ASSUME NEW r \in Req, NEW p \in Participants, NEW w \in Sides,
               LoadVote(r, p, w) \/ Crash(r)
        PROVE  overlapped'
    BY <1>3 DEF LoadVote, Crash
  <1>4. CASE UNCHANGED vars
    BY <1>4 DEF vars, budget
  <1>5. CASE \E r \in Req : Crash(r)
    BY <1>5 DEF Crash
  <1> QED  BY <1>1, <1>2, <1>3, <1>4, <1>5 DEF Next

LEMMA ServingNext ==
    ASSUME ~ overlapped', TypeOK, Serving, [Next]_vars
    PROVE  Serving'
  <1> USE VoteAssumption
  <1>1. ASSUME NEW r \in Req, NEW p \in Participants, NEW w \in Sides,
               LoadVote(r, p, w)
        PROVE  Serving'
    <2>1. Alone(r) /\ stale' = stale
      BY <1>1 DEF LoadVote, Alone, Goto, TypeOK
    <2>2. who[r] = None /\ who'[r] = p /\ \A x \in Req : who[x] # p
      BY <1>1 DEF LoadVote, Serving, TypeOK
    <2>3. /\ pc'[r] = IF r \in Degraded THEN "commit" ELSE "up"
          /\ old'[r] = votes'[p]
      BY <1>1 DEF LoadVote, Goto, TypeOK
    <2> QED  BY <2>1, <2>2, <2>3, ServingStep
  <1>2. ASSUME NEW r \in Req,
               CountUp(r) \/ CountDown(r) \/ Enqueue(r)
        PROVE  Serving'
    <2>1. Alone(r) /\ stale' = stale /\ UNCHANGED <<who, old, votes>>
      BY <1>2 DEF CountUp, CountDown, Enqueue, Alone, Goto, TypeOK,
                  choice
    <2>2. /\ pc[r] # "idle" /\ pc'[r] # "idle"
          /\ pc'[r] \in {"up", "down", "queue", "commit"}
               => pc[r] \in {"up", "down", "queue"}
      BY <1>2 DEF CountUp, CountDown, Enqueue, Goto, TypeOK
    <2>3. pc'[r] \in {"up", "down", "queue", "commit"}
            => old'[r] = votes'[who'[r]] /\ r \notin Degraded
      BY <2>1, <2>2 DEF Serving
    <2>4. pc'[r] = "idle" <=> who'[r] = None
      BY <2>1, <2>2 DEF Serving
    <2> QED  BY <2>1, <2>3, <2>4, ServingStep
  <1>3. ASSUME NEW r \in Req, CommitVote(r) PROVE Serving'
    <2>1. who[r] # None /\ who[r] \in Participants
      BY <1>3 DEF CommitVote, Serving, TypeOK
    <2>2. Alone(r)
      BY <1>3, <2>1 DEF CommitVote, Alone, Goto, TypeOK, choice
    <2>3. stale' = stale
      BY <1>3, <2>1 DEF CommitVote, Serving, TypeOK
    <2>4. pc'[r] = "answer" /\ who'[r] = who[r]
      BY <1>3 DEF CommitVote, Goto, TypeOK, choice
    <2> QED  BY <2>1, <2>2, <2>3, <2>4, ServingStep
  <1>4. ASSUME NEW r \in Req, CommitRefused(r) \/ Answer(r) \/ Crash(r)
        PROVE  Serving'
    BY <1>4, CloseServing DEF CommitRefused, Answer, Crash
  <1>5. ASSUME NEW f \in Flushers, Flush(f) \/ FlushCrash(f) PROVE Serving'
    <2>1. UNCHANGED <<votes, pc, who, old, stale>>
      BY <1>5 DEF Flush, Scan, ReadPending, Apply, TakeUp, TakeDown, Drop,
                  FlushCrash, choice
    <2> QED  BY <2>1 DEF Serving
  <1>6. CASE UNCHANGED vars
    BY <1>6 DEF vars, Serving, choice
  <1> QED
    BY <1>1, <1>2, <1>3, <1>4, <1>5, <1>6 DEF Next, Serve

-----------------------------------------------------------------------------
LEMMA SupportersFinite ==
    ASSUME NEW s
    PROVE  /\ IsFiniteSet(Supporters(s)) /\ Supporters(s) \subseteq Participants
           /\ Cardinality(Supporters(s)) \in Nat
  BY VoteAssumption, FS_Subset, FS_CardinalityType DEF Supporters

(* A set that changes in one element changes its size by that element. *)
LEMMA OneElement ==
    ASSUME NEW S, NEW T, NEW p, IsFiniteSet(S), IsFiniteSet(T),
           T \ {p} = S \ {p}
    PROVE  Cardinality(T) - Cardinality(S)
             = (IF p \in T THEN 1 ELSE 0) - (IF p \in S THEN 1 ELSE 0)
  <1>1. /\ Cardinality(S \ {p}) =
              IF p \in S THEN Cardinality(S) - 1 ELSE Cardinality(S)
        /\ Cardinality(T \ {p}) =
              IF p \in T THEN Cardinality(T) - 1 ELSE Cardinality(T)
    BY FS_RemoveElement
  <1>2. Cardinality(S) \in Nat /\ Cardinality(T) \in Nat
    BY FS_CardinalityType
  <1> QED  BY <1>1, <1>2

(* What the counts hold of the vote of a participant, served by r or not. *)
LEMMA CountedServed ==
    ASSUME Serving, NEW r \in Req, NEW s, NEW p \in Participants, who[r] = p
    PROVE  Counted(p, s) <=> IF r \notin Degraded /\ Ahead(r, s) THEN new[r] = s
                             ELSE votes[p] = s
  BY VoteAssumption DEF Counted, Serving

LEMMA CountedServedNext ==
    ASSUME Serving', NEW r \in Req, NEW s, NEW p \in Participants, who'[r] = p
    PROVE  Counted(p, s)' <=> IF r \notin Degraded /\ Ahead(r, s)'
                              THEN new'[r] = s ELSE votes'[p] = s
  BY VoteAssumption DEF Counted, Serving

LEMMA CountedUnserved ==
    ASSUME NEW s, NEW p \in Participants, \A r \in Req : who[r] # p
    PROVE  Counted(p, s) <=> votes[p] = s
  BY DEF Counted

LEMMA CountedUnservedNext ==
    ASSUME NEW s, NEW p \in Participants, \A r \in Req : who'[r] # p
    PROVE  Counted(p, s)' <=> votes'[p] = s
  BY DEF Counted

(* A step of the request that serves p changes what is counted of p only. *)
LEMMA OthersCounted ==
    ASSUME NEW r \in Req, Alone(r), NEW p \in Participants, NEW s,
           who[r] \in {p, None}, who'[r] \in {p, None}
    PROVE  Supporters(s)' \ {p} = Supporters(s) \ {p}
  <1>1. ASSUME NEW q \in Participants, q # p
        PROVE  Counted(q, s)' <=> Counted(q, s)
    <2>1. who[r] # q /\ who'[r] # q /\ votes'[q] = votes[q]
      BY <1>1, VoteAssumption DEF Alone
    <2>2. \A x \in Req \ {r} : /\ who'[x] = who[x] /\ new'[x] = new[x]
                              /\ pc'[x] = pc[x]
      BY DEF Alone
    <2>3. \A x \in Req :
            /\ (who'[x] = q /\ Ahead(x, s)') <=> (who[x] = q /\ Ahead(x, s))
            /\ (who'[x] = q /\ Ahead(x, s)' /\ new'[x] = s)
                 <=> (who[x] = q /\ Ahead(x, s) /\ new[x] = s)
      <3>1. TAKE x \in Req
      <3>2. CASE x = r  BY <2>1, <3>2 DEF Ahead
      <3>3. CASE x # r  BY <2>2, <3>3 DEF Ahead
      <3> QED  BY <3>2, <3>3
    <2> QED  BY <2>1, <2>3 DEF Counted
  <1> QED  BY <1>1 DEF Supporters

(* The number of supporters moves as the served participant's vote does. *)
LEMMA SupportersMove ==
    ASSUME NEW r \in Req, Alone(r), NEW p \in Participants, NEW s,
           who[r] \in {p, None}, who'[r] \in {p, None}
    PROVE  Cardinality(Supporters(s))' - Cardinality(Supporters(s))
             = (IF Counted(p, s)' THEN 1 ELSE 0) - (IF Counted(p, s) THEN 1 ELSE 0)
  <1> DEFINE S == Supporters(s)
             T == Supporters(s)'
  <1>1. IsFiniteSet(S) /\ IsFiniteSet(T)
    <2>1. S \subseteq Participants /\ T \subseteq Participants
      BY DEF Supporters
    <2> QED  BY <2>1, VoteAssumption, FS_Subset
  <1>2. T \ {p} = S \ {p}  BY OthersCounted
  <1>3. (p \in T <=> Counted(p, s)') /\ (p \in S <=> Counted(p, s))
    BY DEF Supporters
  <1> HIDE DEF S, T
  <1>4. Cardinality(T) - Cardinality(S)
             = (IF p \in T THEN 1 ELSE 0) - (IF p \in S THEN 1 ELSE 0)
    BY <1>1, <1>2, OneElement
  <1> QED  BY <1>3, <1>4 DEF S, T

-----------------------------------------------------------------------------
LEMMA DriftInit == Init => CrashCostsOneVote
  <1> SUFFICES ASSUME Init PROVE CrashCostsOneVote
    OBVIOUS
  <1>1. ASSUME NEW s \in Sides
        PROVE  Total(s) = 0 /\ Cardinality(Supporters(s)) = 0
    <2>1. Total(s) = 0
      BY DEF Init, Total, Owed, Zero, Flushers
    <2>2. Supporters(s) = {}
      BY VoteAssumption DEF Init, Supporters, Counted, Sides
    <2> QED  BY <2>1, <2>2, FS_EmptySet
  <1>2. crashes = 0  BY DEF Init
  <1> QED  BY <1>1, <1>2 DEF CrashCostsOneVote

LEMMA TotalType ==
    ASSUME TypeOK, NEW s \in Sides
    PROVE  Total(s) \in Int
  BY DEF TypeOK, Total, Owed, Counts, Flushers

(* The flush loops move counts from Redis to the row and change none of it. *)
LEMMA FlushKeepsTotal ==
    ASSUME TypeOK, NEW f \in Flushers, Flush(f), NEW s \in Sides
    PROVE  Total(s)' = Total(s)
  <1>1. /\ db \in Counts /\ pending \in Counts
        /\ taken[FlushA] \in Counts /\ taken[FlushB] \in Counts
    BY DEF TypeOK, Flushers
  <1>2. f = FlushA \/ f = FlushB  BY DEF Flushers
  <1> DEFINE g == IF f = FlushA THEN FlushB ELSE FlushA
  <1>3. g \in Flushers /\ g # f /\ {f, g} = {FlushA, FlushB}
    BY <1>2, VoteAssumption DEF Flushers
  <1>4. Owed(g, s)' = Owed(g, s)
    BY <1>3 DEF Flush, Scan, ReadPending, Apply, TakeUp, TakeDown, Drop, Advance,
                TypeOK, Owed
  <1>5. db'[s] + pending'[s] - Owed(f, s)' = db[s] + pending[s] - Owed(f, s)
    <2>1. CASE Scan(f) \/ Drop(f)
      BY <2>1 DEF Scan, Drop, Advance, TypeOK, Owed, redis
    <2>2. CASE ReadPending(f)
      BY <2>2 DEF ReadPending, AfterRead, Advance, TypeOK, Owed, redis
    <2>3. CASE Apply(f)
      BY <1>1, <1>2, <2>3 DEF Apply, Advance, TypeOK, Owed, redis, Counts
    <2>4. CASE TakeUp(f)
      BY <1>1, <1>2, <2>4 DEF TakeUp, TakeBack, Advance, TypeOK, Owed, Counts,
                              Sides
    <2>5. CASE TakeDown(f)
      BY <1>1, <1>2, <2>5 DEF TakeDown, TakeBack, Advance, TypeOK, Owed, Counts,
                              Sides
    <2> QED  BY <2>1, <2>2, <2>3, <2>4, <2>5 DEF Flush
  <1>6. Total(s) = db[s] + pending[s] - Owed(f, s) - Owed(g, s)
    BY <1>1, <1>2 DEF Total, Owed, Counts
  <1>7. Total(s)' = db'[s] + pending'[s] - Owed(f, s)' - Owed(g, s)'
    <2>1. TypeOK'
      BY TypeNext DEF Next
    <2>2. /\ db' \in Counts /\ pending' \in Counts
          /\ taken'[FlushA] \in Counts /\ taken'[FlushB] \in Counts
      BY <2>1 DEF TypeOK, Flushers
    <2> QED  BY <1>2, <2>2 DEF Total, Owed, Counts
  <1>8. /\ Owed(f, s) \in Int /\ Owed(g, s) \in Int /\ Owed(f, s)' \in Int
        /\ db[s] \in Int /\ pending[s] \in Int
        /\ db'[s] \in Int /\ pending'[s] \in Int
    <2>1. TypeOK'
      BY TypeNext DEF Next
    <2> QED  BY <2>1, <1>3 DEF TypeOK, Counts, Owed
  <1> HIDE DEF g
  <1>9. ASSUME NEW a \in Int, NEW b \in Int, NEW c \in Int, NEW d \in Int,
               NEW e \in Int, NEW o \in Int, NEW h \in Int, a + b - e = c + d - o
        PROVE  a + b - e - h = c + d - o - h
    BY <1>9
  <1> QED  BY <1>4, <1>5, <1>6, <1>7, <1>8, <1>9

(* A step that leaves the flush loops alone moves the total by what it adds. *)
LEMMA TotalMoves ==
    ASSUME TypeOK, TypeOK', UNCHANGED flush, NEW s \in Sides
    PROVE  Total(s)' - Total(s) = (db'[s] - db[s]) + (pending'[s] - pending[s])
  <1>1. Owed(FlushA, s)' = Owed(FlushA, s) /\ Owed(FlushB, s)' = Owed(FlushB, s)
    BY DEF flush, Owed
  <1>2. /\ db[s] \in Int /\ pending[s] \in Int
        /\ db'[s] \in Int /\ pending'[s] \in Int
    BY DEF TypeOK, Counts
  <1>3. Owed(FlushA, s) \in Int /\ Owed(FlushB, s) \in Int
    BY DEF TypeOK, Counts, Flushers, Owed
  <1> HIDE DEF Owed
  <1>4. Total(s) = db[s] + pending[s] - Owed(FlushA, s) - Owed(FlushB, s)
    BY DEF Total
  <1>5. Total(s)' = db'[s] + pending'[s] - Owed(FlushA, s) - Owed(FlushB, s)
    BY <1>1 DEF Total
  <1> QED  BY <1>2, <1>3, <1>4, <1>5

Unit(c) == IF c THEN 1 ELSE 0

(* What one step of a request adds to the counts of a side is what it adds   *)
(* to the side's supporters: its participant, or nobody.                     *)
LEMMA VoteMovesTogether ==
    ASSUME ~ overlapped', TypeOK, TypeOK', Serving, Serving', NEW r \in Req,
           NEW s \in Sides, NEW p \in Participants, NEW w \in Sides,
           LoadVote(r, p, w) \/ (Serve(r) /\ who[r] = p)
    PROVE  /\ Alone(r) /\ who[r] \in {p, None} /\ who'[r] \in {p, None}
           /\ UNCHANGED <<flush, crashes, flushCrashes>>
           /\ (db'[s] - db[s]) + (pending'[s] - pending[s])
                = Unit(Counted(p, s)') - Unit(Counted(p, s))
  <1>1. /\ db \in Counts /\ pending \in Counts /\ p # None
        /\ db[s] \in Int /\ pending[s] \in Int
    BY VoteAssumption DEF TypeOK, Counts
  <1>2. s = "up" \/ s = "down"  BY DEF Sides
  <1>3. CASE LoadVote(r, p, w)
    <2>1. /\ Alone(r) /\ who[r] = None /\ who'[r] = p
          /\ UNCHANGED <<votes, db, pending, flush, crashes, flushCrashes>>
      BY <1>3 DEF LoadVote, Alone, Goto, TypeOK, Serving, redis
    <2>2. ~ (r \notin Degraded /\ Ahead(r, s)')
      BY <1>2, <1>3 DEF LoadVote, Goto, TypeOK, Ahead
    <2>3. Counted(p, s)' <=> votes[p] = s
      BY <2>1, <2>2, CountedServedNext
    <2>4. \A x \in Req : who[x] # p
      BY <1>3 DEF LoadVote
    <2>5. Counted(p, s) <=> votes[p] = s
      BY <2>4, CountedUnserved
    <2> QED  BY <1>1, <2>1, <2>3, <2>5 DEF Unit
  <1>4. CASE CountUp(r) /\ who[r] = p
    <2>1. /\ Alone(r) /\ who'[r] = p
          /\ UNCHANGED <<votes, db, new, flush, crashes, flushCrashes>>
          /\ pending'[s] = pending[s] + IF s = "up" THEN Delta(r, s) ELSE 0
          /\ pc[r] = "up" /\ pc'[r] = "down"
      BY <1>1, <1>2, <1>4, DeltaType
      DEF CountUp, Alone, Goto, TypeOK, choice, budget, Counts, Sides
    <2>2. r \notin Degraded /\ old[r] = votes[p]
      BY <1>4, <2>1 DEF Serving
    <2>3. ~ Ahead(r, s) /\ (Ahead(r, s)' <=> s = "up")
      BY <1>2, <2>1 DEF Ahead
    <2>4. Counted(p, s) <=> old[r] = s
      BY <1>4, <2>2, <2>3, CountedServed
    <2>5. Counted(p, s)' <=> IF s = "up" THEN new[r] = s ELSE old[r] = s
      BY <2>1, <2>2, <2>3, CountedServedNext
    <2> QED
      BY <1>1, <1>4, <2>1, <2>4, <2>5 DEF Unit, Delta, One
  <1>5. CASE CountDown(r) /\ who[r] = p
    <2>1. /\ Alone(r) /\ who'[r] = p
          /\ UNCHANGED <<votes, db, new, flush, crashes, flushCrashes>>
          /\ pending'[s] = pending[s] + IF s = "down" THEN Delta(r, s) ELSE 0
          /\ pc[r] = "down" /\ pc'[r] = "queue"
      BY <1>1, <1>2, <1>5, DeltaType
      DEF CountDown, Alone, Goto, TypeOK, choice, budget, Counts, Sides
    <2>2. r \notin Degraded /\ old[r] = votes[p]
      BY <1>5, <2>1 DEF Serving
    <2>3. (Ahead(r, s) <=> s = "up") /\ Ahead(r, s)'
      BY <1>2, <2>1 DEF Ahead
    <2>4. Counted(p, s) <=> IF s = "up" THEN new[r] = s ELSE old[r] = s
      BY <1>5, <2>2, <2>3, CountedServed
    <2>5. Counted(p, s)' <=> new[r] = s
      BY <2>1, <2>2, <2>3, CountedServedNext
    <2>6. (IF s = "down" THEN Delta(r, s) ELSE 0)
             = Unit(Counted(p, s)') - Unit(Counted(p, s))
      <3>1. CASE s = "up"
        BY <2>4, <2>5, <3>1 DEF Unit
      <3>2. CASE s = "down"
        BY <2>4, <2>5, <3>2 DEF Unit, Delta, One
      <3> QED  BY <1>2, <3>1, <3>2
    <2>7. Unit(Counted(p, s)') - Unit(Counted(p, s)) \in Int
      BY DEF Unit
    <2> QED
      BY <1>1, <1>5, <2>1, <2>6, <2>7
  <1>6. CASE Enqueue(r) /\ who[r] = p
    <2>1. /\ Alone(r) /\ who'[r] = p
          /\ UNCHANGED <<votes, db, pending, new, flush, crashes, flushCrashes>>
          /\ pc[r] = "queue" /\ pc'[r] = "commit"
      BY <1>6 DEF Enqueue, Alone, Goto, TypeOK, choice, budget
    <2>2. r \notin Degraded /\ Ahead(r, s) /\ Ahead(r, s)'
      BY <1>2, <2>1 DEF Serving, Ahead
    <2>3. Counted(p, s) <=> new[r] = s
      BY <1>6, <2>2, CountedServed
    <2>4. Counted(p, s)' <=> new[r] = s
      BY <2>1, <2>2, CountedServedNext
    <2> QED  BY <1>1, <1>6, <2>1, <2>3, <2>4 DEF Unit
  <1>7. CASE CommitVote(r) /\ who[r] = p
    <2>1. /\ Alone(r) /\ who'[r] = p /\ votes'[p] = new[r]
          /\ UNCHANGED <<pending, flush, crashes, flushCrashes>>
          /\ db'[s] = db[s] + IF r \in Degraded THEN Delta(r, s) ELSE 0
          /\ pc[r] = "commit" /\ pc'[r] = "answer"
      BY <1>1, <1>7, DeltaType
      DEF CommitVote, Alone, Goto, TypeOK, Serving, choice, redis, budget
    <2>2. old[r] = votes[p]  BY <1>7, <2>1 DEF Serving
    <2>3. Ahead(r, s) /\ ~ Ahead(r, s)'
      BY <1>2, <2>1 DEF Ahead
    <2>4. Counted(p, s) <=> IF r \in Degraded THEN old[r] = s ELSE new[r] = s
      BY <1>7, <2>2, <2>3, CountedServed
    <2>5. Counted(p, s)' <=> new[r] = s
      BY <2>1, <2>3, CountedServedNext
    <2> QED
      BY <1>1, <1>7, <2>1, <2>4, <2>5 DEF Unit, Delta, One
  <1>8. CASE CommitRefused(r) /\ who[r] = p
    BY <1>8 DEF CommitRefused, Refused, Serving
  <1>10. CASE Answer(r) /\ who[r] = p
    <2>1. /\ Alone(r) /\ who'[r] = None
          /\ UNCHANGED <<votes, db, pending, flush, crashes, flushCrashes>>
          /\ pc[r] = "answer"
      BY <1>10 DEF Answer, Close, Alone, Goto, TypeOK, redis, budget
    <2>2. Counted(p, s) <=> votes[p] = s
      BY <1>10, <2>1, CountedServed DEF Ahead
    <2>3. \A x \in Req : who'[x] # p
      BY <1>1, <1>10, <2>1 DEF Serving, Alone
    <2>4. Counted(p, s)' <=> votes[p] = s
      BY <2>1, <2>3, CountedUnservedNext
    <2> QED  BY <1>1, <1>10, <2>1, <2>2, <2>4 DEF Unit
  <1> QED
    BY <1>3, <1>4, <1>5, <1>6, <1>7, <1>8, <1>10 DEF Serve

LEMMA DriftNext ==
    ASSUME ~ overlapped, ~ overlapped', TypeOK, TypeOK', Serving, Serving', CrashCostsOneVote,
           [Next]_vars
    PROVE  CrashCostsOneVote'
  <1> SUFFICES ASSUME flushCrashes' = 0, NEW s \in Sides
               PROVE  - crashes' <= Drift(s)' /\ Drift(s)' <= crashes'
    BY DEF CrashCostsOneVote, Drift
  <1>1. flushCrashes \in Nat /\ flushCrashes' \in Nat
        /\ crashes \in Nat /\ crashes' \in Nat
    BY VoteAssumption DEF TypeOK
  <1>2. /\ Total(s) \in Int /\ Cardinality(Supporters(s)) \in Int
        /\ Total(s)' \in Int /\ Cardinality(Supporters(s))' \in Int
    <2>1. Total(s)' \in Int
      BY DEF TypeOK, Total, Owed, Counts, Flushers
    <2>2. Cardinality(Supporters(s))' \in Nat
      <3>1. Supporters(s)' \subseteq Participants  BY DEF Supporters
      <3> QED  BY <3>1, VoteAssumption, FS_Subset, FS_CardinalityType
    <2> QED  BY <2>1, <2>2, TotalType, SupportersFinite
  <1>3. flushCrashes = 0 => - crashes <= Drift(s) /\ Drift(s) <= crashes
    BY DEF CrashCostsOneVote, Drift
  (* A request starts or takes a step: the drift stays. *)
  <1>4. ASSUME NEW r \in Req, NEW p \in Participants, NEW w \in Sides,
               LoadVote(r, p, w) \/ (Serve(r) /\ who[r] = p)
        PROVE  Drift(s)' = Drift(s) /\ UNCHANGED <<crashes, flushCrashes>>
    <2>1. /\ Alone(r) /\ who[r] \in {p, None} /\ who'[r] \in {p, None}
          /\ UNCHANGED <<flush, crashes, flushCrashes>>
          /\ (db'[s] - db[s]) + (pending'[s] - pending[s])
                = Unit(Counted(p, s)') - Unit(Counted(p, s))
      BY <1>4, VoteMovesTogether
    <2>2. Total(s)' - Total(s) = (db'[s] - db[s]) + (pending'[s] - pending[s])
      BY <2>1, TotalMoves
    <2>3. Cardinality(Supporters(s))' - Cardinality(Supporters(s))
            = Unit(Counted(p, s)') - Unit(Counted(p, s))
      BY <2>1, SupportersMove DEF Unit
    <2> QED  BY <1>2, <2>1, <2>2, <2>3 DEF Drift
  (* A request dies: it takes at most the change of one vote with it. *)
  <1>5. ASSUME NEW r \in Req, Crash(r)
        PROVE  /\ crashes' = crashes + 1 /\ flushCrashes' = flushCrashes
               /\ Drift(s)' - Drift(s) \in -1..1
    <2> DEFINE p == who[r]
    <2>1. p \in Participants  BY <1>5 DEF Crash, Serving, TypeOK
    <2>2. /\ Alone(r) /\ who'[r] = None
          /\ UNCHANGED <<db, pending, flush, flushCrashes>>
          /\ crashes' = crashes + 1
      BY <1>5 DEF Crash, Close, Goto, Alone, TypeOK, redis
    <2>3. Total(s)' = Total(s)
      BY <2>2 DEF Total, Owed, flush
    <2>4. who'[r] \in {p, None}  BY <2>2
    <2> HIDE DEF p
    <2>5. who[r] \in {p, None}  BY DEF p
    <2>6. Cardinality(Supporters(s))' - Cardinality(Supporters(s)) \in -1..1
      BY <2>1, <2>2, <2>4, <2>5, SupportersMove
    <2> QED  BY <1>2, <2>2, <2>3, <2>6 DEF Drift
  (* The flush loops do not touch the votes. *)
  <1>6. ASSUME NEW f \in Flushers, Flush(f)
        PROVE  Drift(s)' = Drift(s) /\ UNCHANGED <<crashes, flushCrashes>>
    <2>1. Total(s)' = Total(s)  BY <1>6, FlushKeepsTotal
    <2>2. UNCHANGED <<votes, pc, who, new, crashes, flushCrashes>>
      BY <1>6 DEF Flush, Scan, ReadPending, Apply, TakeUp, TakeDown, Drop,
                  choice, budget
    <2>3. Supporters(s)' = Supporters(s)
      BY <2>2 DEF Supporters, Counted, Ahead
    <2> QED  BY <2>1, <2>2, <2>3 DEF Drift
  <1>7. ASSUME NEW f \in Flushers, FlushCrash(f) PROVE FALSE
    BY <1>1, <1>7 DEF FlushCrash
  <1>8. CASE UNCHANGED vars
    <2>1. Drift(s)' = Drift(s) /\ UNCHANGED <<crashes, flushCrashes>>
      BY <1>8 DEF vars, Drift, Total, Owed, Supporters, Counted, Ahead, redis,
                  flush, choice, budget
    <2> QED  BY <1>3, <2>1
  <1>9. CASE \E r \in Req, p \in Participants, w \in Sides : LoadVote(r, p, w)
    BY <1>3, <1>4, <1>9
  <1>10. CASE \E r \in Req : Serve(r)
    <2>1. PICK r \in Req : Serve(r)  BY <1>10
    <2>2. who[r] \in Participants
      BY <2>1 DEF Serve, CountUp, CountDown, Enqueue, CommitVote, CommitRefused,
                  Answer, Serving, TypeOK
    <2>3. \E w : w \in Sides  BY DEF Sides
    <2> QED  BY <1>3, <1>4, <2>1, <2>2, <2>3
  <1>11. CASE \E r \in Req : Crash(r)
    <2>1. PICK r \in Req : Crash(r)  BY <1>11
    <2>2. Drift(s) \in Int  BY <1>2 DEF Drift
    <2>3. Drift(s)' \in Int  BY <1>2 DEF Drift
    <2> QED  BY <1>1, <1>3, <1>5, <2>1, <2>2, <2>3
  <1>12. CASE \E f \in Flushers : Flush(f) \/ FlushCrash(f)
    BY <1>3, <1>6, <1>7, <1>12
  <1> QED
    BY <1>8, <1>9, <1>10, <1>11, <1>12 DEF Next

(* However many people vote at once, and whatever the two flush loops do in  *)
(* between, the stored and pending counts are those of the vote rows, give   *)
(* or take one for each vote request that died between counting and commit.  *)
THEOREM VotesConserved == Spec => []CrashCostsOneVote
  <1>1. Init => IInv
    BY TypeInit, ServingInit, DriftInit DEF IInv
  <1>2. IInv /\ [Next]_vars => IInv'
    <2> SUFFICES ASSUME IInv, [Next]_vars PROVE IInv'
      OBVIOUS
    <2>1. TypeOK'  BY TypeNext DEF IInv
    <2>2. CASE overlapped'
      BY <2>1, <2>2 DEF IInv, CrashCostsOneVote
    <2>3. CASE ~ overlapped'
      <3>1. ~ overlapped  BY <2>3, OverlapStays
      <3>2. Serving'  BY <2>3, <3>1, ServingNext DEF IInv
      <3>3. CrashCostsOneVote'  BY <2>1, <2>3, <3>1, <3>2, DriftNext DEF IInv
      <3> QED  BY <2>1, <3>2, <3>3 DEF IInv
    <2> QED  BY <2>2, <2>3
  <1>3. IInv => CrashCostsOneVote
    BY DEF IInv
  <1> QED  BY <1>1, <1>2, <1>3, PTL DEF Spec
=============================================================================
