----------------------- MODULE ParticipantPagesProofs ------------------------
(* What the participant's side promises, for any polls, questions, participants,   *)
(* requests under way and bounds.                                                 *)
EXTENDS ParticipantPages, FiniteSetTheorems, SequenceTheorems, WellFoundedInduction, TLAPS

-----------------------------------------------------------------------------
(* The quiz.                                                                  *)

CallStates == {"free", "asked", "open", "done", "failed"}

(* What a transaction may write: a state or a visibility.                      *)
AnyWrite == [q : QuizQuestions, field : {"state"}, value : Z!States]
            \cup [q : QuizQuestions, field : {"visible"}, value : BOOLEAN]

CallType == [at : CallStates, q : QuizQuestions \cup {none}, act : Z!Acts,
             writes : SUBSET AnyWrite, clears : BOOLEAN, page : BOOLEAN]

(* An action beyond its button has a question.                                 *)
Pressed ==
    /\ callQuiz \in [QuizCalls -> CallType]
    /\ \A c \in QuizCalls : callQuiz[c].at # "free" => callQuiz[c].q \in QuizQuestions

(* While no two actions overlapped: one transaction is open at most, it writes *)
(* what the rows it read still ask for, and at most one question runs.         *)
InTurn ==
    ~ crossed =>
       /\ \A c, d \in QuizCalls : callQuiz[c].at = "open" /\ callQuiz[d].at = "open" => c = d
       /\ \A c \in QuizCalls : callQuiz[c].at = "open" =>
             /\ callQuiz[c].writes = Z!Writes(callQuiz[c].q, callQuiz[c].act)
             /\ Z!Allowed(callQuiz[c].q, callQuiz[c].act)
       /\ \A p, q \in QuizQuestions : Z!Running(rowQuiz, p) /\ Z!Running(rowQuiz, q) => p = q

QInv == Pressed /\ InTurn

LEMMA WritesType ==
    ASSUME NEW q \in QuizQuestions, NEW act \in Z!Acts
    PROVE  Z!Writes(q, act) \in SUBSET AnyWrite
<1>1. ASSUME NEW p \in QuizQuestions, NEW v \in Z!States
      PROVE Z!Write(p, "state", v) \in AnyWrite
  BY DEF Z!Write, AnyWrite
<1>2. ASSUME NEW p \in QuizQuestions, NEW v \in BOOLEAN
      PROVE Z!Write(p, "visible", v) \in AnyWrite
  BY DEF Z!Write, AnyWrite
<1>3. "active" \in Z!States /\ "revealed" \in Z!States /\ "closed" \in Z!States
      /\ FALSE \in BOOLEAN /\ TRUE \in BOOLEAN
  BY DEF Z!States
<1>4. Z!Siblings(q) \in SUBSET AnyWrite
  BY <1>1, <1>3 DEF Z!Siblings
<1>5. /\ Z!Write(q, "state", "active") \in AnyWrite /\ Z!Write(q, "visible", FALSE) \in AnyWrite
      /\ Z!Write(q, "state", "revealed") \in AnyWrite /\ Z!Write(q, "visible", TRUE) \in AnyWrite
      /\ Z!Write(q, "state", "closed") \in AnyWrite
  BY <1>1, <1>2, <1>3
<1> QED BY <1>4, <1>5 DEF Z!Writes, Z!Acts

(* What another client asks to go on to is a transaction at once.                *)
LEMMA SentType ==
    ASSUME NEW q \in QuizQuestions, NEW act \in Z!Acts
    PROVE  /\ Z!Sent(q, act) \in CallType /\ Z!Sent(q, act).at = "open"
           /\ Z!Sent(q, act).q = q /\ Z!Sent(q, act).act = act
           /\ Z!Sent(q, act).writes = Z!Writes(q, act)
<1>1. PICK w : w = Z!Writes(q, act)
  OBVIOUS
<1>2. w \in SUBSET AnyWrite
  BY <1>1, WritesType
<1>3. PICK n : n = Z!NoCall
  OBVIOUS
<1>4. n \in CallType
  BY <1>3 DEF Z!NoCall, CallType, CallStates, Z!Acts
<1>5. PICK x : x = [n EXCEPT !.at = "open", !.q = q, !.act = act, !.writes = w, !.page = FALSE]
  OBVIOUS
<1>6. x \in CallType /\ x.at = "open" /\ x.q = q /\ x.act = act /\ x.writes = w
  BY <1>2, <1>4, <1>5 DEF CallType, CallStates
<1>7. Z!Sent(q, act) = x
  BY <1>1, <1>3, <1>5, Zenon DEF Z!Sent
<1> QED BY <1>1, <1>6, <1>7

(* The column state after the writes of an action.                             *)
LEMMA AppliedState ==
    ASSUME NEW writes, NEW q \in QuizQuestions
    PROVE  /\ (\A w \in writes : ~ (w.q = q /\ w.field = "state"))
                 => Z!Applied(writes)[q].state = rowQuiz[q].state
           /\ \A v : (\E w \in writes : w.q = q /\ w.field = "state")
                     /\ (\A w \in writes : w.q = q /\ w.field = "state" => w.value = v)
                 => Z!Applied(writes)[q].state = v
  BY DEF Z!Applied

(* One action, on the rows it read: at most one question runs after it.        *)
LEMMA OneAfter ==
    ASSUME NEW q \in QuizQuestions, NEW act \in Z!Acts, Z!Allowed(q, act),
           \A a, b \in QuizQuestions : Z!Running(rowQuiz, a) /\ Z!Running(rowQuiz, b) => a = b,
           NEW r, r = Z!Applied(Z!Writes(q, act)),
           NEW a \in QuizQuestions, NEW b \in QuizQuestions, Z!Running(r, a), Z!Running(r, b)
    PROVE  a = b
<1>1. CASE act = "start"
  <2>1. ASSUME NEW p \in QuizQuestions \ {q} PROVE ~ Z!Running(r, p)
    <3>1. CASE Z!Running(rowQuiz, p)
      <4>1. Z!Write(p, "state", "closed") \in Z!Writes(q, act)
        BY <1>1, <2>1, <3>1 DEF Z!Writes, Z!Siblings
      <4>2. \A w \in Z!Writes(q, act) : w.q = p /\ w.field = "state" => w.value = "closed"
        BY <1>1, <2>1 DEF Z!Writes, Z!Siblings, Z!Write
      <4>3. r[p].state = "closed"
        BY <4>1, <4>2, AppliedState DEF Z!Write
      <4> QED BY <4>3 DEF Z!Running
    <3>2. CASE ~ Z!Running(rowQuiz, p)
      <4>1. \A w \in Z!Writes(q, act) : ~ (w.q = p /\ w.field = "state")
        BY <1>1, <2>1, <3>2 DEF Z!Writes, Z!Siblings, Z!Write
      <4>2. r[p].state = rowQuiz[p].state
        BY <4>1, AppliedState
      <4> QED BY <3>2, <4>2 DEF Z!Running
    <3> QED BY <3>1, <3>2
  <2> QED BY <2>1
<1>2. CASE act # "start"
  <2>1. ASSUME NEW p \in QuizQuestions \ {q} PROVE Z!Running(r, p) => Z!Running(rowQuiz, p)
    <3>1. \A w \in Z!Writes(q, act) : w.q = q
      BY <1>2 DEF Z!Writes, Z!Acts, Z!Write
    <3>2. r[p].state = rowQuiz[p].state
      BY <2>1, <3>1, AppliedState
    <3> QED BY <3>2 DEF Z!Running
  <2>2. Z!Running(r, q) => Z!Running(rowQuiz, q)
    <3>1. CASE act = "reveal"
      BY <3>1 DEF Z!Allowed, Z!Offered, Z!Running
    <3>2. CASE act = "hide"
      BY <3>2 DEF Z!Allowed, Z!Running
    <3>3. CASE act = "close"
      BY <3>3 DEF Z!Allowed, Z!Offered, Z!Running
    <3> QED BY <1>2, <3>1, <3>2, <3>3 DEF Z!Acts
  <2> QED BY <2>1, <2>2
<1> QED BY <1>1, <1>2

(* The questions are numbered: some are the first of them.                         *)
LEMMA FirstIn == ASSUME NEW T \in SUBSET QuizQuestions, T # {} PROVE Z!First(T) \in T
<1> DEFINE below == {ss \in Nat \X Nat : ss[1] < ss[2]}
<1>0. T \subseteq Nat
  BY PartsAssumption DEF PartsAssumption, Z!QuizAssumption
<1>1. IsWellFoundedOn(below, Nat)
  BY NatLessThanWellFounded DEF OpToRel
<1> HIDE DEF below
<1>2. PICK x \in T : \A y \in T : ~ (<<y, x>> \in below)
  BY <1>0, <1>1, WFMin
<1>3. ASSUME NEW y \in T PROVE x <= y
  <2>1. x \in Nat /\ y \in Nat /\ <<y, x>> \in Nat \X Nat /\ <<y, x>>[1] = y /\ <<y, x>>[2] = x
    BY <1>0
  <2>2. y < x => <<y, x>> \in below
    BY <2>1 DEF below
  <2> QED BY <1>2, <2>1, <2>2
<1> QED BY <1>3 DEF Z!First

LEMMA QuizInit == Z!Init => QInv
<1> SUFFICES ASSUME Z!Init PROVE QInv
  OBVIOUS
<1>1. Z!NoCall \in CallType
  BY DEF Z!NoCall, CallType, CallStates, Z!Acts
<1>2. Pressed
  BY <1>1 DEF Z!Init, Pressed, Z!NoCall
<1>3. \A c \in QuizCalls : callQuiz[c].at = "free"
  BY DEF Z!Init, Z!NoCall
<1>4. \A q \in QuizQuestions : ~ Z!Running(rowQuiz, q)
  BY DEF Z!Init, Z!Running
<1> QED BY <1>2, <1>3, <1>4 DEF QInv, InTurn

(* A step that opens no transaction and commits none.                          *)
LEMMA QuizQuiet ==
    ASSUME QInv, Pressed', UNCHANGED <<rowQuiz, crossed>>,
           \A c \in QuizCalls : callQuiz'[c].at = "open" => callQuiz'[c] = callQuiz[c]
    PROVE  QInv'
  BY DEF QInv, InTurn, Z!Writes, Z!Siblings, Z!Allowed, Z!Running

LEMMA QuizNext == QInv /\ [Z!Next]_Z!vars => QInv'
<1> SUFFICES ASSUME QInv, [Z!Next]_Z!vars PROVE QInv'
  OBVIOUS
<1>1. ASSUME UNCHANGED <<rowQuiz, callQuiz, crossed>> PROVE QInv'
  BY <1>1, QuizQuiet DEF QInv, Pressed
<1>2. ASSUME NEW c \in QuizCalls, NEW q \in QuizQuestions, NEW act \in Z!Acts, Z!Press(q, act, c)
      PROVE  QInv'
  <2>1. /\ UNCHANGED <<rowQuiz, crossed>>
        /\ callQuiz' = [callQuiz EXCEPT ![c] = [Z!NoCall EXCEPT !.at = "asked", !.q = q, !.act = act]]
    BY <1>2 DEF Z!Press, Z!server
  <2>2. LET new == [Z!NoCall EXCEPT !.at = "asked", !.q = q, !.act = act]
        IN  new \in CallType /\ new.at = "asked" /\ new.q = q
    BY DEF Z!NoCall, CallType, CallStates
  <2>3. Pressed'
    BY <2>1, <2>2 DEF QInv, Pressed
  <2>4. \A d \in QuizCalls : callQuiz'[d].at = "open" => callQuiz'[d] = callQuiz[d]
    BY <2>1, <2>2 DEF QInv, Pressed
  <2> QED BY <2>1, <2>3, <2>4, QuizQuiet
<1>3. ASSUME NEW c \in QuizCalls, Z!LoseCall(c) PROVE QInv'
  <2>1. /\ UNCHANGED <<rowQuiz, crossed>> /\ callQuiz[c].at # "free"
        /\ callQuiz' = [callQuiz EXCEPT ![c].at = "failed"]
    BY <1>3 DEF Z!LoseCall, Z!server
  <2>2. Pressed'
    BY <2>1 DEF QInv, Pressed, CallType, CallStates
  <2>3. \A d \in QuizCalls : callQuiz'[d].at = "open" => callQuiz'[d] = callQuiz[d]
    BY <2>1 DEF QInv, Pressed, CallType
  <2> QED BY <2>1, <2>2, <2>3, QuizQuiet
<1>4. ASSUME NEW c \in QuizCalls, Z!CallEnds(c) PROVE QInv'
  <2>1. UNCHANGED <<rowQuiz, crossed>> /\ callQuiz' = [callQuiz EXCEPT ![c] = Z!NoCall]
    BY <1>4 DEF Z!CallEnds, Z!server
  <2>2. Z!NoCall \in CallType /\ Z!NoCall.at = "free"
    BY DEF Z!NoCall, CallType, CallStates, Z!Acts
  <2>3. Pressed'
    BY <2>1, <2>2 DEF QInv, Pressed
  <2>4. \A d \in QuizCalls : callQuiz'[d].at = "open" => callQuiz'[d] = callQuiz[d]
    BY <2>1, <2>2 DEF QInv, Pressed
  <2> QED BY <2>1, <2>3, <2>4, QuizQuiet
<1>5. ASSUME NEW c \in QuizCalls, Z!Handles(c) PROVE QInv'
  <2>a. PICK q \in QuizQuestions, act \in Z!Acts : q = callQuiz[c].q /\ act = callQuiz[c].act
    BY <1>5 DEF Z!Handles, QInv, Pressed, CallType
  <2>0. /\ UNCHANGED rowQuiz /\ callQuiz[c].at = "asked"
        /\ q = callQuiz[c].q /\ act = callQuiz[c].act
    BY <1>5, <2>a DEF Z!Handles, Z!server
  <2>1. CASE Z!Allowed(q, act)
    <3>b. crossed' = (crossed \/ Z!Others(c) # {})
      BY <1>5, <2>0, <2>1 DEF Z!Handles
    <3>1. callQuiz' = [callQuiz EXCEPT ![c].at = "open", ![c].writes = Z!Writes(q, act),
                               ![c].clears = (act = "start" /\ rowQuiz[q].state = "closed")]
      BY <1>5, <2>0, <2>1 DEF Z!Handles
    <3>a. (act = "start" /\ rowQuiz[q].state = "closed") \in BOOLEAN
      OBVIOUS
    <3>c. Z!Writes(q, act) \in SUBSET AnyWrite
      BY WritesType
    <3>2. /\ callQuiz' \in [QuizCalls -> CallType]
          /\ callQuiz'[c].at = "open" /\ callQuiz'[c].writes = Z!Writes(q, act)
          /\ callQuiz'[c].q = q /\ callQuiz'[c].act = act
          /\ \A d \in QuizCalls \ {c} : callQuiz'[d] = callQuiz[d]
      <4> DEFINE w == Z!Writes(q, act)
                 b == (act = "start" /\ rowQuiz[q].state = "closed")
      <4>1. callQuiz' = [callQuiz EXCEPT ![c].at = "open", ![c].writes = w, ![c].clears = b]
        BY <3>1
      <4>2. w \in SUBSET AnyWrite /\ b \in BOOLEAN
        BY <3>a, <3>c
      <4> HIDE DEF w, b
      <4>3. callQuiz \in [QuizCalls -> CallType] /\ "open" \in CallStates
        BY DEF QInv, Pressed, CallStates
      <4>6. callQuiz[c] \in CallType
        BY <4>3
      <4>7. [callQuiz[c] EXCEPT !.at = "open", !.writes = w, !.clears = b] \in CallType
        BY <4>2, <4>3, <4>6 DEF CallType
      <4>4. /\ callQuiz'[c] = [callQuiz[c] EXCEPT !.at = "open", !.writes = w, !.clears = b]
            /\ \A d \in QuizCalls \ {c} : callQuiz'[d] = callQuiz[d]
            /\ callQuiz' \in [QuizCalls -> CallType]
        BY <4>1, <4>3, <4>7
      <4>5. /\ callQuiz'[c].at = "open" /\ callQuiz'[c].writes = w
            /\ callQuiz'[c].q = callQuiz[c].q /\ callQuiz'[c].act = callQuiz[c].act
        BY <4>3, <4>4 DEF CallType
      <4> QED BY <2>0, <4>4, <4>5 DEF w
    <3>3. Pressed'
      BY <2>0, <3>2 DEF QInv, Pressed
    <3>4. ~ crossed' => ~ crossed /\ \A d \in QuizCalls \ {c} : callQuiz'[d].at # "open"
      BY <3>b, <3>2 DEF Z!Others
    <3>5. InTurn'
      <4> SUFFICES ASSUME ~ crossed' PROVE InTurn'
        BY DEF InTurn
      <4>1. \A d \in QuizCalls : callQuiz'[d].at = "open" => d = c
        BY <3>4
      <4>2. Z!Writes(q, act) = Z!Writes(q, act)' /\ Z!Allowed(q, act)'
        BY <2>0, <2>1 DEF Z!Writes, Z!Siblings, Z!Running, Z!Allowed, Z!Offered
      <4> QED BY <2>0, <3>2, <3>4, <4>1, <4>2 DEF QInv, InTurn, Z!Running
    <3> QED BY <3>3, <3>5 DEF QInv
  <2>2. CASE ~ Z!Allowed(q, act)
    <3>1. UNCHANGED crossed /\ callQuiz' = [callQuiz EXCEPT ![c].at = "failed"]
      BY <1>5, <2>0, <2>2 DEF Z!Handles
    <3>2. Pressed'
      BY <2>0, <3>1 DEF QInv, Pressed, CallType, CallStates
    <3>3. \A d \in QuizCalls : callQuiz'[d].at = "open" => callQuiz'[d] = callQuiz[d]
      BY <3>1 DEF QInv, Pressed, CallType
    <3> QED BY <2>0, <3>1, <3>2, <3>3, QuizQuiet
  <2> QED BY <2>1, <2>2
<1>6. ASSUME NEW c \in QuizCalls, Z!Commits(c) PROVE QInv'
  <2> DEFINE r == Z!Applied(callQuiz[c].writes)
  <2>0. UNCHANGED crossed /\ callQuiz[c].at = "open" /\ callQuiz[c].q \in QuizQuestions
        /\ callQuiz[c].act \in Z!Acts
    BY <1>6 DEF Z!Commits, QInv, Pressed, CallType
  <2>1. CASE rowQuiz' = rowQuiz /\ callQuiz' = [callQuiz EXCEPT ![c].at = "failed"]
    <3>1. Pressed'
      BY <2>0, <2>1 DEF QInv, Pressed, CallType, CallStates
    <3>2. \A d \in QuizCalls : callQuiz'[d].at = "open" => callQuiz'[d] = callQuiz[d]
      BY <2>1 DEF QInv, Pressed, CallType
    <3> QED BY <2>0, <2>1, <3>1, <3>2, QuizQuiet
  <2>2. CASE rowQuiz' = r /\ callQuiz' = [callQuiz EXCEPT ![c].at = "done"]
    <3>1. Pressed'
      BY <2>0, <2>2 DEF QInv, Pressed, CallType, CallStates
    <3>2. InTurn'
      <4> SUFFICES ASSUME ~ crossed PROVE InTurn'
        BY <2>0 DEF InTurn
      <4>1. /\ callQuiz'[c].at = "done"
            /\ \A d \in QuizCalls \ {c} : callQuiz'[d] = callQuiz[d]
        BY <2>2 DEF QInv, Pressed, CallType
      <4>2. \A d \in QuizCalls : callQuiz'[d].at # "open"
        BY <2>0, <4>1 DEF QInv, InTurn
      <4>3. /\ callQuiz[c].writes = Z!Writes(callQuiz[c].q, callQuiz[c].act)
            /\ Z!Allowed(callQuiz[c].q, callQuiz[c].act)
            /\ \A a, b \in QuizQuestions : Z!Running(rowQuiz, a) /\ Z!Running(rowQuiz, b) => a = b
        BY <2>0 DEF QInv, InTurn
      <4>4. \A a, b \in QuizQuestions : Z!Running(r, a) /\ Z!Running(r, b) => a = b
        BY <2>0, <4>3, OneAfter
      <4>5. \A a, b \in QuizQuestions : Z!Running(rowQuiz, a)' /\ Z!Running(rowQuiz, b)' => a = b
        BY <2>2, <4>4 DEF Z!Running
      <4> QED BY <4>2, <4>5 DEF InTurn
    <3> QED BY <3>1, <3>2 DEF QInv
  <2> QED BY <1>6, <2>1, <2>2 DEF Z!Commits, Z!server
<1>8. ASSUME NEW c \in QuizCalls, NEW p \in QuizQuestions, Z!Advances(p, c) PROVE QInv'
  <2>1. PICK q \in QuizQuestions, act \in Z!Acts :
          Z!Allowed(q, act) /\ callQuiz' = [callQuiz EXCEPT ![c] = Z!Sent(q, act)]
    <3>0. "start" \in Z!Acts /\ "close" \in Z!Acts
      BY DEF Z!Acts
    <3>1. PICK n : n = Z!First(Z!Later(p))
      OBVIOUS
    <3>2. CASE Z!Later(p) # {}
      <4>1. Z!Later(p) \in SUBSET QuizQuestions
        BY DEF Z!Later
      <4>2. n \in Z!Later(p)
        BY <3>1, <3>2, <4>1, FirstIn
      <4>3. n \in QuizQuestions /\ Z!Allowed(n, "start")
        BY <4>2 DEF Z!Later, Z!Allowed, Z!Offered
      <4> QED BY <1>8, <3>0, <3>1, <3>2, <4>3 DEF Z!Advances
    <3>3. CASE Z!Later(p) = {}
      <4>1. Z!Running(rowQuiz, p) /\ callQuiz' = [callQuiz EXCEPT ![c] = Z!Sent(p, "close")]
        BY <1>8, <3>3 DEF Z!Advances
      <4>2. Z!Allowed(p, "close")
        BY <4>1 DEF Z!Allowed, Z!Offered, Z!Running
      <4> QED BY <3>0, <4>1, <4>2
    <3> QED BY <3>2, <3>3
  <2>2. UNCHANGED rowQuiz /\ crossed' = (crossed \/ Z!Others(c) # {})
    BY <1>8 DEF Z!Advances, Z!server
  <2>3. /\ callQuiz' \in [QuizCalls -> CallType]
        /\ callQuiz'[c].at = "open" /\ callQuiz'[c].writes = Z!Writes(q, act)
        /\ callQuiz'[c].q = q /\ callQuiz'[c].act = act
        /\ \A d \in QuizCalls \ {c} : callQuiz'[d] = callQuiz[d]
    <3>1. PICK x : x = Z!Sent(q, act)
      OBVIOUS
    <3>2. callQuiz \in [QuizCalls -> CallType] /\ callQuiz' = [callQuiz EXCEPT ![c] = x]
      BY <2>1, <3>1 DEF QInv, Pressed
    <3>3. /\ x \in CallType /\ x.at = "open" /\ x.q = q /\ x.act = act
          /\ x.writes = Z!Writes(q, act)
      BY <3>1, SentType
    <3> QED BY <3>2, <3>3
  <2>4. Pressed'
    BY <2>3 DEF QInv, Pressed
  <2>5. ~ crossed' => ~ crossed /\ \A d \in QuizCalls \ {c} : callQuiz'[d].at # "open"
    BY <2>2, <2>3 DEF Z!Others
  <2>6. InTurn'
    <3> SUFFICES ASSUME ~ crossed' PROVE InTurn'
      BY DEF InTurn
    <3>1. \A d \in QuizCalls : callQuiz'[d].at = "open" => d = c
      BY <2>5
    <3>2. Z!Writes(q, act) = Z!Writes(q, act)' /\ Z!Allowed(q, act)'
      BY <2>1, <2>2 DEF Z!Writes, Z!Siblings, Z!Running, Z!Allowed, Z!Offered
    <3> QED BY <2>2, <2>3, <2>5, <3>1, <3>2 DEF QInv, InTurn, Z!Running
  <2> QED BY <2>4, <2>6 DEF QInv
<1>7. CASE \/ Z!JoinHears \/ Z!Answer \/ Z!ServeAnswer \/ Z!LoseAnswer \/ Z!AnswerEnds
           \/ Z!CloseNotice \/ Z!ScreenHears \/ \E v \in Z!Viewers : Z!LoseEvent(v)
           \/ \E v \in Z!Viewers \cup {"host"} : Z!Polls(v) \/ Z!FetchAnswers(v) \/ Z!FetchStores(v)
           \/ UNCHANGED Z!vars
  <2>1. UNCHANGED <<rowQuiz, callQuiz, crossed>>
    BY <1>7 DEF Z!JoinHears, Z!Answer, Z!ServeAnswer, Z!LoseAnswer, Z!AnswerEnds,
                Z!CloseNotice,
                Z!ScreenHears, Z!LoseEvent, Z!Polls, Z!FetchAnswers, Z!FetchStores,
                Z!vars, Z!server, Z!desk
  <2> QED BY <1>1, <2>1
<1> QED BY <1>2, <1>3, <1>4, <1>5, <1>6, <1>7, <1>8 DEF Z!Next

LEMMA QuizCard == ASSUME NEW X PROVE Z!Cardinality(X) = Cardinality(X)
  BY DEF Z!Cardinality, Cardinality

LEMMA QuizGives == QInv => Z!OneRuns
<1> SUFFICES ASSUME QInv, ~ crossed
             PROVE  Cardinality({q \in QuizQuestions : Z!Running(rowQuiz, q)}) <= 1
  BY QuizCard DEF Z!OneRuns
<1> DEFINE open == {q \in QuizQuestions : Z!Running(rowQuiz, q)}
<1>1. open = {} \/ \E q : open = {q}
  BY DEF QInv, InTurn
<1>2. Cardinality(open) \in {0, 1}
  BY <1>1, FS_EmptySet, FS_Singleton
<1> QED BY <1>2

-----------------------------------------------------------------------------
(* The counting of answers.                                                    *)
(* Types; the counts of an option without a field are zero, and only a request that *)
(* counts has something to count.                                                  *)
CountTypes ==
    /\ status \in R!Statuses /\ rowCounts \in [Voters -> Answers \cup {R!None}]
    /\ agg \in [Options -> Int] /\ fields \subseteq Options /\ ttl \in BOOLEAN
    /\ hooks \subseteq {"clear", "expire"} /\ met \subseteq R!Irregular
    /\ pc \in [Slots -> R!Labels] /\ voter \in [Slots -> Voters]
    /\ answer \in [Slots -> Answers \cup {R!None}] /\ old \in [Slots -> Answers \cup {R!None}]
    /\ minus \in [Slots -> SUBSET Options] /\ plus \in [Slots -> SUBSET Options]
    /\ \A o \in Options \ fields : agg[o] = 0
    /\ \A d \in Slots : minus[d] \cup plus[d] # {} => pc[d] = "count"
CountBounds ==
    /\ submits \in 0..MaxSubmits /\ moves \in 0..MaxMoves
    /\ crashes \in 0..MaxCrashes /\ expiries \in 0..MaxExpiries

(* Among so many, those whose set has an option.                                    *)
Having(X, f, o) == {x \in X : o \in f[x]}
HowMany(X, f, o) == Cardinality(Having(X, f, o))

(* Unless something irregular happened a participant has one request under way,     *)
(* which found the answer that is stored; a reset meets none and leaves no answers;  *)
(* and the hash has the answers, but for what is still to be taken off and added.    *)
Alone  == \A d, e \in R!Busy : voter[d] = voter[e] => d = e
Found  == \A d \in Slots : pc[d] = "commit" => old[d] = rowCounts[voter[d]]
Erased == "clear" \in hooks => R!Busy = {} /\ \A v \in Voters : rowCounts[v] = R!None
Balanced ==
    "clear" \notin hooks =>
       \A o \in Options :
          agg[o] = HowMany(Voters, rowCounts, o) + HowMany(Slots, minus, o) - HowMany(Slots, plus, o)
CountInv == CountTypes /\ CountBounds /\ (met = {} => Alone /\ Found /\ Erased /\ Balanced)

-----------------------------------------------------------------------------
LEMMA CountCard == ASSUME NEW X PROVE R!Cardinality(X) = Cardinality(X)
  BY DEF R!Cardinality, Cardinality

LEMMA CountFinite == ASSUME NEW X PROVE R!IsFiniteSet(X) = IsFiniteSet(X)
  BY DEF R!IsFiniteSet, IsFiniteSet

LEMMA CountSets == IsFiniteSet(Voters) /\ IsFiniteSet(Slots)
BY PartsAssumption, CountFinite DEF PartsAssumption, R!ResponsesAssumption

LEMMA HavingSome ==
    ASSUME NEW X, IsFiniteSet(X), NEW f, NEW o
    PROVE  /\ HowMany(X, f, o) \in Nat /\ HowMany(X, f, o) <= Cardinality(X)
           /\ Cardinality(X) \in Nat /\ Having(X, f, o) \subseteq X
<1>1. Having(X, f, o) \subseteq X
  BY DEF Having
<1> QED BY <1>1, FS_Subset, FS_CardinalityType DEF HowMany

(* One of them has another set.                                                     *)
LEMMA OneHasAnother ==
    ASSUME NEW X, IsFiniteSet(X), NEW u \in X, NEW f, NEW g, NEW o,
           \A x \in X \ {u} : g[x] = f[x]
    PROVE  /\ HowMany(X, f, o) \in Nat /\ HowMany(X, g, o) \in Nat
           /\ o \in f[u] /\ o \notin g[u] => HowMany(X, g, o) = HowMany(X, f, o) - 1
           /\ o \notin f[u] /\ o \in g[u] => HowMany(X, g, o) = HowMany(X, f, o) + 1
           /\ (o \in f[u] <=> o \in g[u]) => HowMany(X, g, o) = HowMany(X, f, o)
<1> DEFINE rest == Having(X \ {u}, f, o)
<1>1. IsFiniteSet(rest) /\ u \notin rest /\ Cardinality(rest) \in Nat
  <2>1. rest \subseteq X /\ u \notin rest
    BY DEF Having
  <2> QED BY <2>1, FS_Subset, FS_CardinalityType
<1>2. Cardinality(rest \cup {u}) = Cardinality(rest) + 1
  BY <1>1, FS_AddElement
<1>3. /\ o \in f[u] => Having(X, f, o) = rest \cup {u}
      /\ o \notin f[u] => Having(X, f, o) = rest
      /\ o \in g[u] => Having(X, g, o) = rest \cup {u}
      /\ o \notin g[u] => Having(X, g, o) = rest
  BY DEF Having
<1> HIDE DEF rest
<1>4. /\ o \in f[u] => HowMany(X, f, o) = Cardinality(rest) + 1
      /\ o \notin f[u] => HowMany(X, f, o) = Cardinality(rest)
  BY <1>2, <1>3 DEF HowMany
<1>5. /\ o \in g[u] => HowMany(X, g, o) = Cardinality(rest) + 1
      /\ o \notin g[u] => HowMany(X, g, o) = Cardinality(rest)
  BY <1>2, <1>3 DEF HowMany
<1>6. CASE o \in f[u]
  BY <1>1, <1>4, <1>5, <1>6
<1>7. CASE o \notin f[u]
  BY <1>1, <1>4, <1>5, <1>7
<1> QED BY <1>6, <1>7

(* None of them has another set.                                                    *)
LEMMA AllHaveTheSame ==
    ASSUME NEW X, NEW f, NEW g, NEW o, \A x \in X : o \in g[x] <=> o \in f[x]
    PROVE  HowMany(X, g, o) = HowMany(X, f, o)
<1>1. Having(X, g, o) = Having(X, f, o)
  BY DEF Having
<1> QED BY <1>1 DEF HowMany

LEMMA NobodyHas ==
    ASSUME NEW X, NEW f, NEW o, \A x \in X : o \notin f[x] PROVE HowMany(X, f, o) = 0
<1>1. Having(X, f, o) = {}
  BY DEF Having
<1> QED BY <1>1, FS_EmptySet DEF HowMany

LEMMA CountInit == R!Init => CountInv
<1> SUFFICES ASSUME R!Init PROVE CountInv
  OBVIOUS
<1>1. /\ status \in R!Statuses /\ rowCounts \in [Voters -> Answers \cup {R!None}]
      /\ agg \in [Options -> Int] /\ fields \subseteq Options
      /\ hooks \subseteq {"clear", "expire"} /\ met \subseteq R!Irregular
      /\ pc \in [Slots -> R!Labels]
  BY DEF R!Init, R!Statuses, R!Labels
<1>2. ttl \in BOOLEAN
  BY DEF R!Init
<1>3. /\ voter \in [Slots -> Voters] /\ answer \in [Slots -> Answers \cup {R!None}]
      /\ old \in [Slots -> Answers \cup {R!None}]
      /\ minus \in [Slots -> SUBSET Options] /\ plus \in [Slots -> SUBSET Options]
  BY DEF R!Init
<1>4. (\A o \in Options \ fields : agg[o] = 0) /\ \A d \in Slots : minus[d] = {} /\ plus[d] = {}
  BY DEF R!Init
<1>5. CountTypes
  BY <1>1, <1>2, <1>3, <1>4 DEF CountTypes
<1>6. CountBounds
  BY PartsAssumption DEF PartsAssumption, R!Init, CountBounds, R!ResponsesAssumption
<1>7. R!Busy = {}
  BY DEF R!Init, R!Busy
<1>8. Alone /\ Found /\ Erased
  BY <1>7 DEF R!Init, Alone, Found, Erased
<1>9. ASSUME NEW o \in Options
      PROVE  /\ agg[o] = 0 /\ HowMany(Voters, rowCounts, o) = 0
             /\ HowMany(Slots, minus, o) = 0 /\ HowMany(Slots, plus, o) = 0
  <2>1. \A v \in Voters : o \notin rowCounts[v]
    BY DEF R!Init, R!None
  <2> QED BY <1>4, <2>1, <1>9, NobodyHas DEF R!Init
<1>10. Balanced
  BY <1>9 DEF Balanced
<1> QED BY <1>5, <1>6, <1>8, <1>10 DEF CountInv

-----------------------------------------------------------------------------
(* A request.                                                                      *)
LEMMA MetOnce ==
    ASSUME NEW kind \in R!Irregular, NEW happened, R!Met(kind, happened), met \subseteq R!Irregular
    PROVE  met' \subseteq R!Irregular /\ (met' = {} => met = {} /\ ~ happened)
BY DEF R!Met

LEMMA SameBalance ==
    ASSUME Balanced, UNCHANGED <<agg, rowCounts, minus, plus, hooks>> PROVE Balanced'
BY DEF Balanced, HowMany, Having

LEMMA LoadKeeps ==
    ASSUME CountInv, NEW d \in Slots, NEW v \in Voters, NEW a \in Answers, R!Load(d, v, a)
    PROVE  CountInv'
<1>1. /\ pc[d] = "idle" /\ pc' = [pc EXCEPT ![d] = "find"]
      /\ submits < MaxSubmits /\ submits' = submits + 1
      /\ voter' = [voter EXCEPT ![d] = v] /\ answer' = [answer EXCEPT ![d] = a]
      /\ met' = met \cup (IF \E e \in R!Busy : voter[e] = v THEN {"overlap"} ELSE {})
                    \cup (IF "clear" \in hooks THEN {"reset"} ELSE {})
      /\ UNCHANGED <<status, rowCounts, agg, fields, ttl, hooks, old, minus, plus>>
      /\ UNCHANGED <<moves, crashes, expiries>>
  BY DEF R!Load, R!Goto, R!stored, R!hash
<1>2. CountTypes /\ CountBounds
  BY DEF CountInv
<1>3. pc \in [Slots -> R!Labels] /\ voter \in [Slots -> Voters]
  BY <1>2 DEF CountTypes
<1>4. pc' \in [Slots -> R!Labels] /\ voter' \in [Slots -> Voters]
      /\ answer' \in [Slots -> Answers \cup {R!None}] /\ met' \subseteq R!Irregular
  BY <1>1, <1>2 DEF CountTypes, R!Labels, R!Irregular
<1>5. \A e \in Slots : minus[e] \cup plus[e] # {} => pc'[e] = "count"
  BY <1>1, <1>2, <1>3 DEF CountTypes
<1>6. CountTypes'
  BY <1>1, <1>2, <1>4, <1>5 DEF CountTypes
<1>7. CountBounds'
  BY <1>1, <1>2, PartsAssumption DEF PartsAssumption, CountBounds, R!ResponsesAssumption
<1>8. ASSUME met' = {} PROVE Alone' /\ Found' /\ Erased' /\ Balanced'
  <2>1. Alone /\ Found /\ Erased /\ Balanced
    BY <1>1, <1>8 DEF CountInv
  <2>2. "clear" \notin hooks /\ \A e \in R!Busy : voter[e] # v
    BY <1>1, <1>8
  <2>3. R!Busy' = R!Busy \cup {d} /\ d \notin R!Busy
    BY <1>1, <1>3 DEF R!Busy
  <2>4. \A e \in R!Busy : voter'[e] = voter[e]
    BY <1>1, <1>3, <2>3 DEF R!Busy
  <2>5. voter'[d] = v
    BY <1>1, <1>3
  <2>6. Alone'
    BY <2>1, <2>2, <2>3, <2>4, <2>5 DEF Alone
  <2>7. Found'
    BY <1>1, <1>3, <2>1 DEF Found
  <2>8. Erased'
    BY <1>1, <2>2 DEF Erased
  <2>9. Balanced'
    BY <1>1, <2>1, SameBalance
  <2> QED BY <2>6, <2>7, <2>8, <2>9
<1> QED BY <1>6, <1>7, <1>8 DEF CountInv

LEMMA FindKeeps == ASSUME CountInv, NEW d \in Slots, R!Find(d) PROVE CountInv'
<1>1. /\ pc[d] = "find" /\ old' = [old EXCEPT ![d] = rowCounts[voter[d]]]
      /\ \E label \in {"commit", "idle"} : pc' = [pc EXCEPT ![d] = label]
      /\ UNCHANGED <<status, rowCounts, agg, fields, ttl, hooks, voter, answer, minus, plus, met>>
      /\ UNCHANGED <<submits, moves, crashes, expiries>>
  BY DEF R!Find, R!Goto, R!stored, R!hash, R!budget
<1>2. CountTypes /\ CountBounds
  BY DEF CountInv
<1>3. pc \in [Slots -> R!Labels] /\ voter \in [Slots -> Voters] /\ old \in [Slots -> Answers \cup {R!None}]
      /\ rowCounts \in [Voters -> Answers \cup {R!None}]
  BY <1>2 DEF CountTypes
<1>4. pc' \in [Slots -> R!Labels] /\ old' \in [Slots -> Answers \cup {R!None}]
  BY <1>1, <1>3 DEF R!Labels
<1>5. \A e \in Slots : minus[e] \cup plus[e] # {} => pc'[e] = "count"
  BY <1>1, <1>2, <1>3 DEF CountTypes
<1>6. CountTypes'
  BY <1>1, <1>2, <1>4, <1>5 DEF CountTypes
<1>7. CountBounds'
  BY <1>1, <1>2 DEF CountBounds
<1>8. ASSUME met' = {} PROVE Alone' /\ Found' /\ Erased' /\ Balanced'
  <2>1. Alone /\ Found /\ Erased /\ Balanced
    BY <1>1, <1>8 DEF CountInv
  <2>2. R!Busy' \subseteq R!Busy /\ d \in R!Busy
    BY <1>1, <1>3 DEF R!Busy
  <2>3. Alone'
    BY <1>1, <2>1, <2>2 DEF Alone
  <2>4. Found'
    BY <1>1, <1>3, <2>1 DEF Found
  <2>5. Erased'
    BY <1>1, <2>1, <2>2 DEF Erased
  <2>6. Balanced'
    BY <1>1, <2>1, SameBalance
  <2> QED BY <2>3, <2>4, <2>5, <2>6
<1> QED BY <1>6, <1>7, <1>8 DEF CountInv

LEMMA CommitKeepsCounts == ASSUME CountInv, NEW d \in Slots, R!Commit(d) PROVE CountInv'
<1>1. /\ pc[d] = "commit" /\ rowCounts' = [rowCounts EXCEPT ![voter[d]] = answer[d]]
      /\ R!Met("bare", d \in Degraded)
      /\ UNCHANGED <<status, agg, fields, ttl, hooks, voter, answer, old>>
      /\ UNCHANGED <<submits, moves, crashes, expiries>>
  BY DEF R!Commit, R!hash, R!budget
<1>2. CountTypes /\ CountBounds
  BY DEF CountInv
<1>3. /\ pc \in [Slots -> R!Labels] /\ voter \in [Slots -> Voters] /\ voter[d] \in Voters
      /\ old \in [Slots -> Answers \cup {R!None}] /\ answer \in [Slots -> Answers \cup {R!None}]
      /\ rowCounts \in [Voters -> Answers \cup {R!None}] /\ met \subseteq R!Irregular
      /\ minus \in [Slots -> SUBSET Options] /\ plus \in [Slots -> SUBSET Options]
  BY <1>2 DEF CountTypes
<1>4. rowCounts' \in [Voters -> Answers \cup {R!None}]
  BY <1>1, <1>3
<1>5. old[d] \in SUBSET Options /\ answer[d] \in SUBSET Options
  BY <1>3, PartsAssumption DEF PartsAssumption, R!ResponsesAssumption, R!None
<1>6. "bare" \in R!Irregular
  BY DEF R!Irregular
<1>7. met' \subseteq R!Irregular /\ (met' = {} => met = {} /\ d \notin Degraded)
  BY <1>1, <1>3, <1>6, MetOnce
<1>8. minus[d] = {} /\ plus[d] = {}
  BY <1>1, <1>2 DEF CountTypes
<1>9. /\ pc' \in [Slots -> R!Labels] /\ minus' \in [Slots -> SUBSET Options]
      /\ plus' \in [Slots -> SUBSET Options]
      /\ \A e \in Slots : minus'[e] \cup plus'[e] # {} => pc'[e] = "count"
      /\ \A e \in Slots : pc'[e] \in {"commit", "find"} => e # d /\ pc[e] = pc'[e]
      /\ \A e \in Slots : pc'[e] # "idle" => pc[e] # "idle"
  <2>1. CASE d \in Degraded
    <3>1. pc' = [pc EXCEPT ![d] = "idle"] /\ UNCHANGED <<minus, plus>>
      BY <2>1 DEF R!Commit, R!Goto
    <3> QED BY <1>1, <1>2, <1>3, <1>8, <3>1 DEF CountTypes, R!Labels
  <2>2. CASE d \notin Degraded
    <3>1. /\ pc' = [pc EXCEPT ![d] = "count"] /\ minus' = [minus EXCEPT ![d] = old[d]]
          /\ plus' = [plus EXCEPT ![d] = answer[d]]
      BY <2>2 DEF R!Commit, R!Goto, R!TakenOff
    <3>2. pc' \in [Slots -> R!Labels] /\ \A e \in Slots \ {d} : pc'[e] = pc[e]
      BY <1>3, <3>1 DEF R!Labels
    <3>3. minus' \in [Slots -> SUBSET Options] /\ plus' \in [Slots -> SUBSET Options]
      BY <1>3, <1>5, <3>1
    <3>4. \A e \in Slots \ {d} : minus'[e] = minus[e] /\ plus'[e] = plus[e]
      BY <1>3, <3>1
    <3>5. pc'[d] = "count"
      BY <1>3, <3>1
    <3> QED BY <1>1, <1>2, <3>2, <3>3, <3>4, <3>5 DEF CountTypes
  <2> QED BY <2>1, <2>2
<1>10. CountTypes'
  BY <1>1, <1>2, <1>4, <1>7, <1>9 DEF CountTypes
<1>11. CountBounds'
  BY <1>1, <1>2 DEF CountBounds
<1>12. ASSUME met' = {} PROVE Alone' /\ Found' /\ Erased' /\ Balanced'
  <2>1. Alone /\ Found /\ Erased /\ Balanced /\ d \notin Degraded
    BY <1>7, <1>12 DEF CountInv
  <2>2. R!Busy' \subseteq R!Busy /\ d \in R!Busy
    BY <1>1, <1>9 DEF R!Busy
  <2>3. Alone'
    BY <1>1, <2>1, <2>2 DEF Alone
  <2>4. ASSUME NEW e \in Slots, pc'[e] = "commit" PROVE old[e] = rowCounts'[voter[e]]
    <3>1. e # d /\ pc[e] = "commit"
      BY <1>9, <2>4
    <3>2. voter[e] # voter[d]
      BY <2>1, <2>2, <3>1 DEF Alone, R!Busy
    <3> QED BY <1>1, <1>3, <2>1, <3>1, <3>2 DEF Found
  <2>5. Found'
    BY <1>1, <2>4 DEF Found
  <2>6. "clear" \notin hooks
    BY <2>1, <2>2 DEF Erased
  <2>7. Erased'
    BY <1>1, <2>6 DEF Erased
  <2>8. /\ minus' = [minus EXCEPT ![d] = old[d]] /\ plus' = [plus EXCEPT ![d] = answer[d]]
    BY <2>1 DEF R!Commit, R!TakenOff
  <2>9. old[d] = rowCounts[voter[d]]
    BY <1>1, <2>1 DEF Found
  <2>10. ASSUME NEW o \in Options
         PROVE  agg[o] = HowMany(Voters, rowCounts', o) + HowMany(Slots, minus', o) - HowMany(Slots, plus', o)
    <3>1. agg[o] = HowMany(Voters, rowCounts, o) + HowMany(Slots, minus, o) - HowMany(Slots, plus, o)
      BY <2>1, <2>6 DEF Balanced
    <3>2. /\ \A v \in Voters \ {voter[d]} : rowCounts'[v] = rowCounts[v] /\ rowCounts'[voter[d]] = answer[d]
          /\ \A e \in Slots \ {d} : minus'[e] = minus[e] /\ plus'[e] = plus[e]
          /\ minus'[d] = old[d] /\ plus'[d] = answer[d] /\ o \notin minus[d] /\ o \notin plus[d]
      BY <1>1, <1>3, <1>8, <2>8
    <3>3. /\ HowMany(Voters, rowCounts, o) \in Nat /\ HowMany(Voters, rowCounts', o) \in Nat
          /\ o \in old[d] /\ o \notin answer[d] => HowMany(Voters, rowCounts', o) = HowMany(Voters, rowCounts, o) - 1
          /\ o \notin old[d] /\ o \in answer[d] => HowMany(Voters, rowCounts', o) = HowMany(Voters, rowCounts, o) + 1
          /\ (o \in old[d] <=> o \in answer[d]) => HowMany(Voters, rowCounts', o) = HowMany(Voters, rowCounts, o)
      <4>1. rowCounts'[voter[d]] = answer[d] /\ rowCounts[voter[d]] = old[d]
        BY <1>1, <1>3, <2>9
      <4>2. \A x \in Voters \ {voter[d]} : rowCounts'[x] = rowCounts[x]
        BY <3>2
      <4> QED BY <1>3, <4>1, <4>2, CountSets, OneHasAnother
    <3>4. /\ HowMany(Slots, minus, o) \in Nat
          /\ o \in old[d] => HowMany(Slots, minus', o) = HowMany(Slots, minus, o) + 1
          /\ o \notin old[d] => HowMany(Slots, minus', o) = HowMany(Slots, minus, o)
      <4>1. \A x \in Slots \ {d} : minus'[x] = minus[x]
        BY <3>2
      <4> QED BY <3>2, <4>1, CountSets, OneHasAnother
    <3>5. /\ HowMany(Slots, plus, o) \in Nat
          /\ o \in answer[d] => HowMany(Slots, plus', o) = HowMany(Slots, plus, o) + 1
          /\ o \notin answer[d] => HowMany(Slots, plus', o) = HowMany(Slots, plus, o)
      <4>1. \A x \in Slots \ {d} : plus'[x] = plus[x]
        BY <3>2
      <4> QED BY <3>2, <4>1, CountSets, OneHasAnother
    <3>6. CASE o \in old[d]
      BY <3>1, <3>3, <3>4, <3>5, <3>6
    <3>7. CASE o \notin old[d]
      BY <3>1, <3>3, <3>4, <3>5, <3>7
    <3> QED BY <3>6, <3>7
  <2>11. Balanced'
    BY <1>1, <2>10 DEF Balanced
  <2> QED BY <2>3, <2>5, <2>7, <2>11
<1> QED BY <1>10, <1>11, <1>12 DEF CountInv

LEMMA RefusedKeeps ==
    ASSUME CountInv, NEW d \in Slots, R!CommitRefused(d) PROVE CountInv'
<1>1. /\ pc[d] = "commit" /\ pc' = [pc EXCEPT ![d] = "idle"]
      /\ UNCHANGED <<status, rowCounts, agg, fields, ttl, hooks, voter, answer, old, minus, plus, met>>
      /\ UNCHANGED <<submits, moves, crashes, expiries>>
  BY DEF R!CommitRefused, R!Goto, R!stored, R!hash, R!budget
<1>2. CountTypes /\ CountBounds /\ pc \in [Slots -> R!Labels]
  BY DEF CountInv, CountTypes
<1>3. pc' \in [Slots -> R!Labels]
  BY <1>1, <1>2 DEF R!Labels
<1>4. \A e \in Slots : minus[e] \cup plus[e] # {} => pc'[e] = "count"
  BY <1>1, <1>2 DEF CountTypes
<1>5. CountTypes' /\ CountBounds'
  BY <1>1, <1>2, <1>3, <1>4 DEF CountTypes, CountBounds
<1>6. ASSUME met' = {} PROVE Alone' /\ Found' /\ Erased' /\ Balanced'
  <2>1. Alone /\ Found /\ Erased /\ Balanced
    BY <1>1, <1>6 DEF CountInv
  <2>2. R!Busy' \subseteq R!Busy /\ d \in R!Busy
    BY <1>1, <1>2 DEF R!Busy
  <2>3. Alone' /\ Erased'
    BY <1>1, <2>1, <2>2 DEF Alone, Erased
  <2>4. Found'
    BY <1>1, <1>2, <2>1 DEF Found
  <2>5. Balanced'
    BY <1>1, <2>1, SameBalance
  <2> QED BY <2>3, <2>4, <2>5
<1> QED BY <1>5, <1>6 DEF CountInv

(* One option counted: its share of what is owed goes.                              *)
LEMMA CountedKeeps ==
    ASSUME CountInv, NEW d \in Slots, NEW o \in Options, R!CountDown(d, o) \/ R!CountUp(d, o)
    PROVE  CountInv'
<1> DEFINE by == IF o \in minus[d] THEN -1 ELSE 1
<1>1. /\ pc[d] = "count" /\ agg' = [agg EXCEPT ![o] = @ + by] /\ fields' = fields \cup {o}
      /\ UNCHANGED <<status, rowCounts, ttl, hooks, voter, answer, old, met>>
      /\ UNCHANGED <<submits, moves, crashes, expiries>>
      /\ by \in Int
  BY DEF R!CountDown, R!CountUp, R!Count, R!stored, R!budget
<1>2. CountTypes /\ CountBounds
  BY DEF CountInv
<1>3. /\ pc \in [Slots -> R!Labels] /\ agg \in [Options -> Int]
      /\ minus \in [Slots -> SUBSET Options] /\ plus \in [Slots -> SUBSET Options]
  BY <1>2 DEF CountTypes
<1>4. /\ \E label \in {"count", "idle"} : pc' = [pc EXCEPT ![d] = label]
      /\ \A e \in Slots : minus'[e] \cup plus'[e] # {} => pc'[e] = "count"
      /\ minus' \in [Slots -> SUBSET Options] /\ plus' \in [Slots -> SUBSET Options]
      /\ \A e \in Slots \ {d} : minus'[e] = minus[e] /\ plus'[e] = plus[e]
      /\ \/ o \in minus[d] /\ minus'[d] = minus[d] \ {o} /\ plus'[d] = plus[d]
         \/ o \notin minus[d] /\ minus'[d] = minus[d] /\ o \in plus[d] /\ plus'[d] = plus[d] \ {o}
  <2>1. CASE R!CountDown(d, o)
    <3>1. /\ o \in minus[d] /\ minus' = [minus EXCEPT ![d] = @ \ {o}] /\ plus' = plus /\ pc' = pc
      BY <2>1 DEF R!CountDown
    <3>2. pc' = [pc EXCEPT ![d] = "count"]
      BY <1>1, <1>3, <3>1
    <3>3. minus' \in [Slots -> SUBSET Options] /\ minus'[d] = minus[d] \ {o}
          /\ \A e \in Slots \ {d} : minus'[e] = minus[e]
      BY <1>3, <3>1
    <3> QED BY <1>1, <1>2, <1>3, <3>1, <3>2, <3>3 DEF CountTypes
  <2>2. CASE R!CountUp(d, o)
    <3>1. /\ minus[d] = {} /\ o \in plus[d] /\ plus' = [plus EXCEPT ![d] = @ \ {o}] /\ minus' = minus
          /\ pc' = [pc EXCEPT ![d] = IF plus[d] = {o} THEN "idle" ELSE "count"]
      BY <2>2 DEF R!CountUp, R!Goto
    <3>2. plus' \in [Slots -> SUBSET Options] /\ plus'[d] = plus[d] \ {o}
          /\ \A e \in Slots \ {d} : plus'[e] = plus[e]
      BY <1>3, <3>1
    <3>3. \A e \in Slots \ {d} : pc'[e] = pc[e]
      BY <1>3, <3>1
    <3>4. plus'[d] # {} => pc'[d] = "count"
      BY <1>3, <3>1, <3>2
    <3> QED BY <1>1, <1>2, <1>3, <3>1, <3>2, <3>3, <3>4 DEF CountTypes
  <2> QED BY <2>1, <2>2
<1>5. pc' \in [Slots -> R!Labels] /\ \A e \in Slots \ {d} : pc'[e] = pc[e]
  BY <1>3, <1>4 DEF R!Labels
<1>6. agg' \in [Options -> Int] /\ \A p \in Options \ fields' : agg'[p] = 0
  BY <1>1, <1>2, <1>3 DEF CountTypes
<1>7. fields' \subseteq Options
  BY <1>1, <1>2 DEF CountTypes
<1>8. CountTypes' /\ CountBounds'
  BY <1>1, <1>2, <1>4, <1>5, <1>6, <1>7 DEF CountTypes, CountBounds
<1>9. ASSUME met' = {} PROVE Alone' /\ Found' /\ Erased' /\ Balanced'
  <2>1. Alone /\ Found /\ Erased /\ Balanced
    BY <1>1, <1>9 DEF CountInv
  <2>2. R!Busy' \subseteq R!Busy /\ d \in R!Busy
    BY <1>1, <1>5 DEF R!Busy
  <2>3. Alone' /\ Erased' /\ "clear" \notin hooks
    BY <1>1, <2>1, <2>2 DEF Alone, Erased
  <2>4. Found'
    <3>1. pc'[d] # "commit"
      BY <1>3, <1>4
    <3> QED BY <1>1, <1>5, <2>1, <3>1 DEF Found
  <2>5. ASSUME NEW p \in Options
        PROVE  agg'[p] = HowMany(Voters, rowCounts', p) + HowMany(Slots, minus', p) - HowMany(Slots, plus', p)
    <3>1. agg[p] = HowMany(Voters, rowCounts, p) + HowMany(Slots, minus, p) - HowMany(Slots, plus, p)
      BY <2>1, <2>3 DEF Balanced
    <3>2. HowMany(Voters, rowCounts', p) = HowMany(Voters, rowCounts, p) /\ HowMany(Voters, rowCounts, p) \in Nat
      BY <1>1, CountSets, HavingSome
    <3>3. /\ HowMany(Slots, minus, p) \in Nat /\ HowMany(Slots, minus', p) \in Nat
          /\ p \in minus[d] /\ p \notin minus'[d] => HowMany(Slots, minus', p) = HowMany(Slots, minus, p) - 1
          /\ (p \in minus[d] <=> p \in minus'[d]) => HowMany(Slots, minus', p) = HowMany(Slots, minus, p)
      BY <1>4, CountSets, OneHasAnother
    <3>4. /\ HowMany(Slots, plus, p) \in Nat /\ HowMany(Slots, plus', p) \in Nat
          /\ p \in plus[d] /\ p \notin plus'[d] => HowMany(Slots, plus', p) = HowMany(Slots, plus, p) - 1
          /\ (p \in plus[d] <=> p \in plus'[d]) => HowMany(Slots, plus', p) = HowMany(Slots, plus, p)
      BY <1>4, CountSets, OneHasAnother
    <3>5. CASE p # o
      <4>1. agg'[p] = agg[p] /\ (p \in minus[d] <=> p \in minus'[d]) /\ (p \in plus[d] <=> p \in plus'[d])
        BY <1>1, <1>3, <1>4, <3>5
      <4> QED BY <3>1, <3>2, <3>3, <3>4, <4>1
    <3>6. CASE p = o /\ o \in minus[d]
      <4>1. agg'[p] = agg[p] - 1 /\ p \notin minus'[d] /\ (p \in plus[d] <=> p \in plus'[d])
            /\ agg[p] \in Int
        BY <1>1, <1>3, <1>4, <3>6
      <4> QED BY <3>1, <3>2, <3>3, <3>4, <3>6, <4>1
    <3>7. CASE p = o /\ o \notin minus[d]
      <4>1. agg'[p] = agg[p] + 1 /\ p \in plus[d] /\ p \notin plus'[d]
            /\ (p \in minus[d] <=> p \in minus'[d]) /\ agg[p] \in Int
        BY <1>1, <1>3, <1>4, <3>7
      <4> QED BY <3>1, <3>2, <3>3, <3>4, <4>1
    <3> QED BY <3>5, <3>6, <3>7
  <2>6. Balanced'
    BY <2>5 DEF Balanced
  <2> QED BY <2>3, <2>4, <2>6
<1> QED BY <1>8, <1>9 DEF CountInv

LEMMA CrashKeeps == ASSUME CountInv, NEW d \in Slots, R!Crash(d) PROVE CountInv'
<1>1. /\ pc' = [pc EXCEPT ![d] = "idle"] /\ crashes < MaxCrashes /\ crashes' = crashes + 1
      /\ minus' = [minus EXCEPT ![d] = {}] /\ plus' = [plus EXCEPT ![d] = {}] /\ R!Met("crash", TRUE)
      /\ UNCHANGED <<status, rowCounts, agg, fields, ttl, hooks, voter, answer, old>>
      /\ UNCHANGED <<submits, moves, expiries>>
  BY DEF R!Crash, R!Goto, R!stored, R!hash
<1>2. CountTypes /\ CountBounds
  BY DEF CountInv
<1>3. /\ pc \in [Slots -> R!Labels] /\ met \subseteq R!Irregular
      /\ minus \in [Slots -> SUBSET Options] /\ plus \in [Slots -> SUBSET Options]
  BY <1>2 DEF CountTypes
<1>4. /\ pc' \in [Slots -> R!Labels] /\ minus' \in [Slots -> SUBSET Options]
      /\ plus' \in [Slots -> SUBSET Options]
      /\ \A e \in Slots : minus'[e] \cup plus'[e] # {} => pc'[e] = "count"
  BY <1>1, <1>2, <1>3 DEF CountTypes, R!Labels
<1>5. "crash" \in R!Irregular
  BY DEF R!Irregular
<1>6. met' \subseteq R!Irregular /\ met' # {}
  BY <1>1, <1>3, <1>5, MetOnce DEF R!Met
<1>7. CountTypes'
  BY <1>1, <1>2, <1>4, <1>6 DEF CountTypes
<1>8. CountBounds'
  BY <1>1, <1>2, PartsAssumption DEF PartsAssumption, CountBounds, R!ResponsesAssumption
<1> QED BY <1>6, <1>7, <1>8 DEF CountInv

-----------------------------------------------------------------------------
(* The host's actions and the hash.                                                 *)
LEMMA StatusKeeps ==
    ASSUME CountInv, R!Start \/ R!LockAnswers \/ R!Unlock \/ R!Stop PROVE CountInv'
<1>1. /\ moves < MaxMoves /\ moves' = moves + 1 /\ status' \in R!Statuses
      /\ hooks' \in {hooks, hooks \cup {"expire"}}
      /\ UNCHANGED <<rowCounts, agg, fields, ttl, pc, voter, answer, old, minus, plus, met>>
      /\ UNCHANGED <<submits, crashes, expiries>>
  BY DEF R!Start, R!LockAnswers, R!Unlock, R!Stop, R!Move, R!Statuses, R!hash, R!request
<1>2. CountTypes /\ CountBounds
  BY DEF CountInv
<1>3. hooks' \subseteq {"clear", "expire"} /\ ("clear" \in hooks' <=> "clear" \in hooks)
  BY <1>1, <1>2 DEF CountTypes
<1>4. CountTypes'
  BY <1>1, <1>2, <1>3 DEF CountTypes
<1>5. CountBounds'
  BY <1>1, <1>2, PartsAssumption DEF PartsAssumption, CountBounds, R!ResponsesAssumption
<1>6. ASSUME met' = {} PROVE Alone' /\ Found' /\ Erased' /\ Balanced'
  BY <1>1, <1>3, <1>6 DEF CountInv, Alone, Found, Erased, Balanced, R!Busy, HowMany,
                          Having
<1> QED BY <1>4, <1>5, <1>6 DEF CountInv

LEMMA ResetKeeps == ASSUME CountInv, R!Reset PROVE CountInv'
<1>1. /\ moves < MaxMoves /\ moves' = moves + 1 /\ status' = "idle"
      /\ hooks' = hooks \cup {"clear"} /\ rowCounts' = [v \in Voters |-> R!None]
      /\ R!Met("reset", R!Busy # {})
      /\ UNCHANGED <<agg, fields, ttl, pc, voter, answer, old, minus, plus>>
      /\ UNCHANGED <<submits, crashes, expiries>>
  BY DEF R!Reset, R!Move, R!hash, R!request
<1>2. CountTypes /\ CountBounds /\ met \subseteq R!Irregular
  BY DEF CountInv, CountTypes
<1>3. hooks' \subseteq {"clear", "expire"} /\ rowCounts' \in [Voters -> Answers \cup {R!None}]
  BY <1>1, <1>2 DEF CountTypes
<1>4. "reset" \in R!Irregular /\ "idle" \in R!Statuses
  BY DEF R!Irregular, R!Statuses
<1>5. met' \subseteq R!Irregular /\ (met' = {} => met = {} /\ R!Busy = {})
  BY <1>1, <1>2, <1>4, MetOnce
<1>6. CountTypes'
  BY <1>1, <1>2, <1>3, <1>4, <1>5 DEF CountTypes
<1>7. CountBounds'
  BY <1>1, <1>2, PartsAssumption DEF PartsAssumption, CountBounds, R!ResponsesAssumption
<1>8. ASSUME met' = {} PROVE Alone' /\ Found' /\ Erased' /\ Balanced'
  <2>1. R!Busy' = {} /\ \A e \in Slots : pc'[e] = "idle"
    BY <1>1, <1>5, <1>8 DEF R!Busy
  <2>2. \A v \in Voters : rowCounts'[v] = R!None
    BY <1>1
  <2> QED BY <1>1, <2>1, <2>2 DEF Alone, Found, Erased, Balanced
<1> QED BY <1>6, <1>7, <1>8 DEF CountInv

(* The hash is cleared when nobody has an answer: it agrees.                        *)
LEMMA ClearKeeps == ASSUME CountInv, R!ClearHash PROVE CountInv'
<1>1. /\ "clear" \in hooks /\ hooks' = hooks \ {"clear"} /\ agg' = [o \in Options |-> 0]
      /\ fields' = {} /\ ttl' = FALSE
      /\ UNCHANGED <<status, rowCounts, pc, voter, answer, old, minus, plus, met>>
      /\ UNCHANGED <<submits, moves, crashes, expiries>>
  BY DEF R!ClearHash, R!HashGone, R!stored, R!request, R!budget
<1>2. CountTypes /\ CountBounds
  BY DEF CountInv
<1>3. hooks' \subseteq {"clear", "expire"} /\ agg' \in [Options -> Int] /\ fields' \subseteq Options
      /\ \A o \in Options : agg'[o] = 0
  BY <1>1, <1>2 DEF CountTypes
<1>4. ttl' \in BOOLEAN
  BY <1>1
<1>5. CountTypes' /\ CountBounds'
  BY <1>1, <1>2, <1>3, <1>4 DEF CountTypes, CountBounds
<1>6. ASSUME met' = {} PROVE Alone' /\ Found' /\ Erased' /\ Balanced'
  <2>1. Alone /\ Found /\ R!Busy = {} /\ \A v \in Voters : rowCounts[v] = R!None
    BY <1>1, <1>6 DEF CountInv, Erased
  <2>2. Alone' /\ Found' /\ Erased'
    BY <1>1, <2>1 DEF Alone, Found, Erased, R!Busy
  <2>3. ASSUME NEW o \in Options
        PROVE  /\ HowMany(Voters, rowCounts, o) = 0 /\ HowMany(Slots, minus, o) = 0
               /\ HowMany(Slots, plus, o) = 0
    <3>1. \A d \in Slots : o \notin minus[d] /\ o \notin plus[d]
      BY <1>2, <2>1 DEF CountTypes, R!Busy
    <3>2. \A v \in Voters : o \notin rowCounts[v]
      BY <2>1 DEF R!None
    <3> QED BY <3>1, <3>2, NobodyHas
  <2>4. Balanced'
    BY <1>1, <1>3, <2>3 DEF Balanced
  <2> QED BY <2>2, <2>4
<1> QED BY <1>5, <1>6 DEF CountInv

LEMMA ExpiryKeeps == ASSUME CountInv, R!SetExpiry PROVE CountInv'
<1>1. /\ hooks' = hooks \ {"expire"} /\ ttl' = (fields # {})
      /\ UNCHANGED <<status, rowCounts, agg, fields, pc, voter, answer, old, minus, plus, met>>
      /\ UNCHANGED <<submits, moves, crashes, expiries>>
  BY DEF R!SetExpiry, R!stored, R!request, R!budget
<1>2. CountTypes /\ CountBounds
  BY DEF CountInv
<1>3. hooks' \subseteq {"clear", "expire"} /\ ("clear" \in hooks' <=> "clear" \in hooks)
  BY <1>1, <1>2 DEF CountTypes
<1>4. ttl' \in BOOLEAN
  BY <1>1
<1>5. CountTypes' /\ CountBounds'
  BY <1>1, <1>2, <1>3, <1>4 DEF CountTypes, CountBounds
<1>6. ASSUME met' = {} PROVE Alone' /\ Found' /\ Erased' /\ Balanced'
  BY <1>1, <1>3, <1>6 DEF CountInv, Alone, Found, Erased, Balanced, R!Busy, HowMany,
                          Having
<1> QED BY <1>5, <1>6 DEF CountInv

LEMMA LostHookKeeps == ASSUME CountInv, NEW h \in hooks, R!HookLost(h) PROVE CountInv'
<1>1. /\ hooks' = hooks \ {h} /\ crashes < MaxCrashes /\ crashes' = crashes + 1
      /\ R!Met("crash", h = "clear")
      /\ UNCHANGED <<status, rowCounts, agg, fields, ttl, pc, voter, answer, old, minus, plus>>
      /\ UNCHANGED <<submits, moves, expiries>>
  BY DEF R!HookLost, R!stored, R!hash, R!request
<1>2. CountTypes /\ CountBounds /\ met \subseteq R!Irregular
  BY DEF CountInv, CountTypes
<1>3. "crash" \in R!Irregular
  BY DEF R!Irregular
<1>4. met' \subseteq R!Irregular /\ (met' = {} => met = {} /\ h # "clear")
  BY <1>1, <1>2, <1>3, MetOnce
<1>5. hooks' \subseteq {"clear", "expire"} /\ (h # "clear" => ("clear" \in hooks' <=> "clear" \in hooks))
  BY <1>1, <1>2 DEF CountTypes
<1>6. CountTypes'
  BY <1>1, <1>2, <1>4, <1>5 DEF CountTypes
<1>7. CountBounds'
  BY <1>1, <1>2, PartsAssumption DEF PartsAssumption, CountBounds, R!ResponsesAssumption
<1>8. ASSUME met' = {} PROVE Alone' /\ Found' /\ Erased' /\ Balanced'
  BY <1>1, <1>4, <1>5, <1>8 DEF CountInv, Alone, Found, Erased, Balanced, R!Busy, HowMany,
                                Having
<1> QED BY <1>6, <1>7, <1>8 DEF CountInv

LEMMA HashExpiresKeeps == ASSUME CountInv, R!Expire PROVE CountInv'
<1>1. /\ agg' = [o \in Options |-> 0] /\ fields' = {} /\ ttl' = FALSE
      /\ expiries < MaxExpiries /\ expiries' = expiries + 1 /\ R!Met("expiry", TRUE)
      /\ UNCHANGED <<status, rowCounts, hooks, pc, voter, answer, old, minus, plus>>
      /\ UNCHANGED <<submits, moves, crashes>>
  BY DEF R!Expire, R!HashGone, R!stored, R!request
<1>2. CountTypes /\ CountBounds /\ met \subseteq R!Irregular
  BY DEF CountInv, CountTypes
<1>3. "expiry" \in R!Irregular
  BY DEF R!Irregular
<1>4. met' \subseteq R!Irregular /\ met' # {}
  BY <1>1, <1>2, <1>3, MetOnce DEF R!Met
<1>5. agg' \in [Options -> Int] /\ fields' \subseteq Options /\ \A o \in Options : agg'[o] = 0
  BY <1>1
<1>6. ttl' \in BOOLEAN
  BY <1>1
<1>7. CountTypes'
  BY <1>1, <1>2, <1>4, <1>5, <1>6 DEF CountTypes
<1>8. CountBounds'
  BY <1>1, <1>2, PartsAssumption DEF PartsAssumption, CountBounds, R!ResponsesAssumption
<1> QED BY <1>4, <1>7, <1>8 DEF CountInv

LEMMA CountNext == CountInv /\ [R!Next]_R!vars => CountInv'
<1> SUFFICES ASSUME CountInv, [R!Next]_R!vars PROVE CountInv'
  OBVIOUS
<1>1. ASSUME NEW d \in Slots,
             \/ \E v \in Voters, a \in Answers : R!Load(d, v, a)
             \/ R!Find(d) \/ R!Commit(d) \/ R!CommitRefused(d) \/ R!Crash(d)
      PROVE  CountInv'
  BY <1>1, LoadKeeps, FindKeeps, CommitKeepsCounts, RefusedKeeps, CrashKeeps
<1>2. ASSUME NEW d \in Slots, NEW o \in Options, R!CountDown(d, o) \/ R!CountUp(d, o)
      PROVE CountInv'
  BY <1>2, CountedKeeps
<1>3. CASE R!Start \/ R!LockAnswers \/ R!Unlock \/ R!Stop \/ R!Reset
  BY <1>3, StatusKeeps, ResetKeeps
<1>4. CASE R!ClearHash \/ R!SetExpiry \/ R!Expire \/ \E h \in hooks : R!HookLost(h)
  BY <1>4, ClearKeeps, ExpiryKeeps, HashExpiresKeeps, LostHookKeeps
<1>5. CASE UNCHANGED R!vars
  <2>1. /\ UNCHANGED <<status, rowCounts, agg, fields, ttl, hooks, pc, voter, answer, old, minus, plus, met>>
        /\ UNCHANGED <<submits, moves, crashes, expiries>>
    BY <1>5 DEF R!vars, R!stored, R!hash, R!request, R!budget
  <2>2. CountTypes' /\ CountBounds'
    BY <2>1 DEF CountInv, CountTypes, CountBounds
  <2> QED BY <2>1, <2>2 DEF CountInv, Alone, Found, Erased, Balanced, R!Busy, HowMany,
                            Having
<1> QED BY <1>1, <1>2, <1>3, <1>4, <1>5 DEF R!Next

(* The counts are as many off as there are requests that count, at most.            *)
LEMMA CountGives == CountInv => R!TypeOK /\ R!CountsFollow
<1> SUFFICES ASSUME CountInv PROVE R!TypeOK /\ R!CountsFollow
  OBVIOUS
<1>1. R!TypeOK
  BY DEF CountInv, CountTypes, CountBounds, R!TypeOK
<1> DEFINE counting == Cardinality({d \in Slots : pc[d] = "count"})
<1>2. ASSUME NEW o \in Options, met = {}, "clear" \notin hooks
      PROVE  R!Shown(o) \in (R!Tally(o) - counting)..(R!Tally(o) + counting)
  <2>1. R!Tally(o) = HowMany(Voters, rowCounts, o)
    BY CountCard DEF R!Tally, HowMany, Having
  <2>2. agg[o] = HowMany(Voters, rowCounts, o) + HowMany(Slots, minus, o) - HowMany(Slots, plus, o)
    BY <1>2 DEF CountInv, Balanced
  <2>3. HowMany(Voters, rowCounts, o) \in Nat
    BY CountSets, HavingSome
  <2>4. counting \in Nat /\ HowMany(Slots, minus, o) \in 0..counting /\ HowMany(Slots, plus, o) \in 0..counting
    <3>1. {d \in Slots : pc[d] = "count"} \subseteq Slots
      OBVIOUS
    <3>2. IsFiniteSet({d \in Slots : pc[d] = "count"}) /\ counting \in Nat
      BY <3>1, CountSets, FS_Subset, FS_CardinalityType
    <3>3. \A d \in Slots : o \in minus[d] \/ o \in plus[d] => pc[d] = "count"
      BY DEF CountInv, CountTypes
    <3>4. /\ Having(Slots, minus, o) \subseteq {d \in Slots : pc[d] = "count"}
          /\ Having(Slots, plus, o) \subseteq {d \in Slots : pc[d] = "count"}
      BY <3>3 DEF Having
    <3>5. HowMany(Slots, minus, o) <= counting /\ HowMany(Slots, plus, o) <= counting
      BY <3>2, <3>4, FS_Subset DEF HowMany
    <3>6. HowMany(Slots, minus, o) \in Nat /\ HowMany(Slots, plus, o) \in Nat
      BY CountSets, HavingSome
    <3> QED BY <3>2, <3>5, <3>6
  <2>5. fields # {} \/ R!Shown(o) = R!Tally(o)
    BY DEF R!Shown
  <2>6. fields # {} => R!Shown(o) = IF agg[o] > 0 THEN agg[o] ELSE 0
    BY DEF R!Shown
  <2> HIDE DEF counting
  <2> QED BY <2>1, <2>2, <2>3, <2>4, <2>5, <2>6
<1>3. R!CountsFollow
  BY <1>2, CountCard DEF R!CountsFollow
<1> QED BY <1>1, <1>3

-----------------------------------------------------------------------------
(* The quiz: its pages and what they say.                                      *)
RowMaps == [QuizQuestions -> Z!Rows]
QuizEvents == [act : Z!Acts, q : QuizQuestions]
QuizPosts == [at : {"free", "asked", "stored", "cleared", "failed"}, q : QuizQuestions \cup {none}]

RowTypes == rowQuiz \in RowMaps /\ Z!OneActive(rowQuiz) /\ answeredQuiz \subseteq QuizQuestions
DeskTypes ==
    /\ host \in Z!Queries(RowMaps) /\ screen \in Z!Queries(RowMaps)
    /\ pending \in QuizQuestions \cup {none} /\ inbox \in [Z!Viewers -> Seq(QuizEvents)]
SeatTypes ==
    /\ join \in Z!Queries(Z!Shown) /\ submitOkQuiz \in BOOLEAN /\ late \in BOOLEAN
    /\ postQuiz \in QuizPosts /\ (postQuiz.at = "asked" => postQuiz.q \in QuizQuestions)

(* An answer that was stored is there until its question starts anew; who is told in *)
(* time to have answered has.                                                     *)
Told ==
    /\ submitOkQuiz /\ ~ late => join.data.q \in answeredQuiz
    /\ postQuiz.at = "stored" => postQuiz.q \in answeredQuiz

PlayInv == RowTypes /\ DeskTypes /\ SeatTypes /\ Told

LEMMA QuizQuery ==
    ASSUME NEW D, NEW q \in Z!Queries(D), NEW d \in D \cup {NoData}
    PROVE  /\ Z!Fetched(q) \in Z!Queries(D) /\ Z!Refetched(q) \in Z!Queries(D)
           /\ Z!Stored(q) \in Z!Queries(D) /\ Z!Answered(q, d) \in Z!Queries(D)
           /\ Z!Written(q, d) \in Z!Queries(D)
           /\ Z!Fetched(q).data = q.data /\ Z!Refetched(q).data = q.data /\ Z!Answered(q, d).data = q.data
BY DEF Z!Queries, Z!Fetches, Z!Fetched, Z!Refetched, Z!Stored, Z!Answered, Z!Written,
       Z!Idle, Z!Loaded

LEMMA QuizAny == ASSUME NEW D PROVE Z!Loading \in Z!Queries(D) /\ Z!Unused \in Z!Queries(D)
BY DEF Z!Loading, Z!Unused, Z!Queries, Z!Fetches

LEMMA PlayingOK == ASSUME RowTypes PROVE Z!Playing \in Z!Shown
<1>1. Z!Nobody \in Z!Shown
  BY DEF Z!Nobody, Z!Shown, Z!States
<1>2. PICK open, q : open = {p \in QuizQuestions : Z!Running(rowQuiz, p)} /\ q = Z!First(open)
  OBVIOUS
<1>3. CASE open = {}
  BY <1>1, <1>2, <1>3 DEF Z!Playing
<1>4. CASE open # {}
  <2>1. q \in QuizQuestions
    BY <1>2, <1>4, FirstIn
  <2>2. rowQuiz[q] \in Z!Rows
    BY <2>1 DEF RowTypes, RowMaps
  <2>3. [q |-> q, state |-> rowQuiz[q].state, visible |-> rowQuiz[q].visible] \in Z!Shown
    BY <2>1, <2>2 DEF Z!Shown, Z!Rows
  <2>4. \/ Z!Playing = Z!Nobody
        \/ Z!Playing = [q |-> q, state |-> rowQuiz[q].state, visible |-> rowQuiz[q].visible]
    BY <1>2, <1>4 DEF Z!Playing
  <2> QED BY <1>1, <2>3, <2>4
<1> QED BY <1>3, <1>4

LEMMA AppliedOK ==
    ASSUME RowTypes, NEW writes \in SUBSET AnyWrite PROVE Z!Applied(writes) \in RowMaps
<1>1. ASSUME NEW q \in QuizQuestions PROVE Z!Applied(writes)[q] \in Z!Rows
  <2> DEFINE e(f) == IF \E w \in writes : w.q = q /\ w.field = f
                     THEN (CHOOSE w \in writes : w.q = q /\ w.field = f).value ELSE rowQuiz[q][f]
  <2>1. Z!Applied(writes)[q] = [f \in {"state", "visible"} |-> e(f)]
    BY DEF Z!Applied
  <2>2. rowQuiz[q] \in Z!Rows
    BY DEF RowTypes, RowMaps
  <2>3. e("state") \in Z!States
    <3>1. CASE \E w \in writes : w.q = q /\ w.field = "state"
      <4>1. PICK w : w = CHOOSE x \in writes : x.q = q /\ x.field = "state"
        OBVIOUS
      <4>2. w \in writes /\ w.field = "state"
        BY <3>1, <4>1
      <4>3. w.value \in Z!States
        BY <4>2 DEF AnyWrite
      <4> QED BY <3>1, <4>1, <4>3
    <3>2. CASE ~ \E w \in writes : w.q = q /\ w.field = "state"
      BY <2>2, <3>2 DEF Z!Rows
    <3> QED BY <3>1, <3>2
  <2>4. e("visible") \in BOOLEAN
    <3>1. CASE \E w \in writes : w.q = q /\ w.field = "visible"
      <4>1. PICK w : w = CHOOSE x \in writes : x.q = q /\ x.field = "visible"
        OBVIOUS
      <4>2. w \in writes /\ w.field = "visible"
        BY <3>1, <4>1
      <4>3. w.value \in BOOLEAN
        BY <4>2 DEF AnyWrite
      <4> QED BY <3>1, <4>1, <4>3
    <3>2. CASE ~ \E w \in writes : w.q = q /\ w.field = "visible"
      <4>1. rowQuiz[q].visible \in BOOLEAN
        BY <2>2 DEF Z!Rows
      <4> QED BY <3>2, <4>1
    <3> QED BY <3>1, <3>2
  <2> HIDE DEF e
  <2> QED BY <2>1, <2>3, <2>4 DEF Z!Rows
<1>2. Z!Applied(writes) = [q \in QuizQuestions |-> Z!Applied(writes)[q]]
  BY DEF Z!Applied
<1> QED BY <1>1, <1>2 DEF RowMaps

LEMMA PlayInit == Z!Init => PlayInv
<1> SUFFICES ASSUME Z!Init PROVE PlayInv
  OBVIOUS
<1>1. rowQuiz \in RowMaps
  BY DEF Z!Init, RowMaps, Z!Rows, Z!States
<1>2. {q \in QuizQuestions : rowQuiz[q].state = "active"} = {}
  BY DEF Z!Init
<1>3. Z!OneActive(rowQuiz)
  BY <1>2, FS_EmptySet, QuizCard DEF Z!OneActive
<1>4. inbox \in [Z!Viewers -> Seq(QuizEvents)]
  <2>1. << >> \in Seq(QuizEvents)
    OBVIOUS
  <2> QED BY <2>1 DEF Z!Init
<1>5. DeskTypes
  BY <1>4, QuizAny DEF Z!Init, DeskTypes
<1>6. submitOkQuiz \in BOOLEAN /\ late \in BOOLEAN /\ ~ submitOkQuiz
  BY DEF Z!Init
<1>7. SeatTypes /\ Told
  BY <1>6, QuizAny DEF Z!Init, SeatTypes, Told, Z!NoPost, QuizPosts
<1> QED BY <1>1, <1>3, <1>5, <1>7 DEF Z!Init, PlayInv, RowTypes

(* Steps that leave the rows or the seat alone.                                   *)
LEMMA SeatUntouched ==
    ASSUME SeatTypes, Told, UNCHANGED <<answeredQuiz, Z!seat>> PROVE SeatTypes' /\ Told'
BY DEF SeatTypes, Told, Z!seat

LEMMA CallSteps ==
    ASSUME PlayInv, Pressed, NEW c \in QuizCalls,
           \/ \E q \in QuizQuestions, act \in Z!Acts : Z!Press(q, act, c)
           \/ Z!Handles(c) \/ Z!LoseCall(c) \/ \E q \in QuizQuestions : Z!Advances(q, c)
    PROVE  PlayInv'
<1>1. UNCHANGED <<rowQuiz, answeredQuiz, host, Z!seat, screen>>
  BY DEF Z!Press, Z!Handles, Z!LoseCall, Z!Advances, Z!server
<1>2. pending' \in QuizQuestions \cup {none}
  BY DEF Z!Press, Z!Handles, Z!LoseCall, Z!Advances, PlayInv, DeskTypes
<1>3. inbox' \in [Z!Viewers -> Seq(QuizEvents)]
  <2>1. inbox \in [Z!Viewers -> Seq(QuizEvents)]
    BY DEF PlayInv, DeskTypes
  <2>2. CASE UNCHANGED inbox
    BY <2>1, <2>2
  <2>3. ASSUME NEW q \in QuizQuestions, NEW act \in Z!Acts
        PROVE  Z!Published(q, act) \in [Z!Viewers -> Seq(QuizEvents)]
    <3>1. PICK e : e = [act |-> act, q |-> q]
      OBVIOUS
    <3>2. e \in QuizEvents
      BY <3>1 DEF QuizEvents
    <3>3. << >> \in Seq(QuizEvents)
      OBVIOUS
    <3>4. \A v \in Z!Viewers : Append(inbox[v], e) \in Seq(QuizEvents)
      BY <2>1, <3>2
    <3> QED BY <3>1, <3>3, <3>4 DEF Z!Published
  <2>4. CASE Z!Handles(c) /\ ~ UNCHANGED inbox
    <3>1. PICK q, act : q = callQuiz[c].q /\ act = callQuiz[c].act
      OBVIOUS
    <3>2. inbox' = Z!Published(q, act) /\ callQuiz[c].at = "asked"
      BY <2>4, <3>1 DEF Z!Handles
    <3>3. q \in QuizQuestions /\ act \in Z!Acts
      BY <3>1, <3>2 DEF Pressed, CallType
    <3> QED BY <2>3, <3>2, <3>3
  <2>5. CASE (\E q \in QuizQuestions : Z!Advances(q, c)) /\ ~ UNCHANGED inbox
    <3>1. PICK q \in QuizQuestions : Z!Later(q) # {} /\ inbox' = Z!Published(Z!First(Z!Later(q)), "start")
      BY <2>5 DEF Z!Advances
    <3>2. PICK n : n = Z!First(Z!Later(q))
      OBVIOUS
    <3>3. Z!Later(q) \in SUBSET QuizQuestions
      BY DEF Z!Later
    <3>4. n \in QuizQuestions /\ "start" \in Z!Acts
      BY <3>1, <3>2, <3>3, FirstIn DEF Z!Acts
    <3> QED BY <2>3, <3>1, <3>2, <3>4
  <2> QED BY <2>2, <2>4, <2>5 DEF Z!Press, Z!Handles, Z!LoseCall
<1>4. RowTypes' /\ DeskTypes'
  BY <1>1, <1>2, <1>3 DEF PlayInv, RowTypes, DeskTypes, Z!OneActive
<1>5. SeatTypes' /\ Told'
  BY <1>1, SeatUntouched DEF PlayInv
<1> QED BY <1>4, <1>5 DEF PlayInv

LEMMA CommitKeepsSeat ==
    ASSUME PlayInv, Pressed, NEW c \in QuizCalls, Z!Commits(c) PROVE PlayInv'
<1>1. PICK r, q, again : /\ r = Z!Applied(callQuiz[c].writes) /\ q = callQuiz[c].q
                         /\ again = (callQuiz[c].clears /\ callQuiz[c].q \in answeredQuiz)
  OBVIOUS
<1>2. /\ \/ /\ Z!OneActive(r) /\ rowQuiz' = r
            /\ answeredQuiz' = IF again THEN answeredQuiz \ {q} ELSE answeredQuiz
            /\ late' = (late \/ (again /\ submitOkQuiz))
            /\ postQuiz' = IF again /\ postQuiz = [at |-> "stored", q |-> q]
                           THEN [postQuiz EXCEPT !.at = "cleared"] ELSE postQuiz
         \/ UNCHANGED <<rowQuiz, answeredQuiz, late, postQuiz>>
      /\ UNCHANGED <<host, pending, join, submitOkQuiz, screen, inbox>>
  BY <1>1 DEF Z!Commits, Z!server
<1>3. r \in RowMaps
  BY <1>1, AppliedOK DEF PlayInv, Pressed, CallType
<1>4. RowTypes'
  BY <1>2, <1>3 DEF PlayInv, RowTypes, Z!OneActive
<1>5. DeskTypes'
  BY <1>2 DEF PlayInv, DeskTypes
<1>6. late' \in BOOLEAN /\ (late => late')
  BY <1>2 DEF PlayInv, SeatTypes
<1>7. postQuiz' \in QuizPosts /\ postQuiz'.q = postQuiz.q /\ (postQuiz'.at = "asked" => postQuiz.at = "asked")
      /\ (postQuiz'.at = "stored" => postQuiz.at = "stored")
  BY <1>2 DEF PlayInv, SeatTypes, QuizPosts
<1>8. SeatTypes'
  BY <1>2, <1>6, <1>7 DEF PlayInv, SeatTypes
<1>9. ASSUME submitOkQuiz', ~ late' PROVE join'.data.q \in answeredQuiz'
  BY <1>2, <1>6, <1>9 DEF PlayInv, Told
<1>10. ASSUME postQuiz'.at = "stored" PROVE postQuiz'.q \in answeredQuiz'
  <2>1. postQuiz.q \in answeredQuiz /\ postQuiz.at = "stored" /\ postQuiz \in QuizPosts
    BY <1>7, <1>10 DEF PlayInv, Told, SeatTypes
  <2>2. CASE again /\ postQuiz.q = q /\ ~ UNCHANGED postQuiz
    BY <1>2, <1>10, <2>1, <2>2 DEF QuizPosts
  <2>3. CASE UNCHANGED postQuiz /\ ~ UNCHANGED answeredQuiz
    <3>1. again /\ answeredQuiz' = answeredQuiz \ {q} /\ postQuiz # [at |-> "stored", q |-> q]
      BY <1>2, <2>1, <2>3 DEF QuizPosts
    <3>2. postQuiz.q # q
      BY <2>1, <3>1 DEF QuizPosts
    <3> QED BY <1>7, <2>1, <3>1, <3>2
  <2>4. CASE UNCHANGED postQuiz /\ UNCHANGED answeredQuiz
    BY <2>1, <2>4
  <2>5. CASE ~ UNCHANGED postQuiz
    BY <1>2, <1>10, <2>1, <2>5 DEF QuizPosts
  <2> QED BY <2>3, <2>4, <2>5
<1>11. Told'
  BY <1>9, <1>10 DEF Told
<1> QED BY <1>4, <1>5, <1>8, <1>11 DEF PlayInv

LEMMA CallEndsKeeps ==
    ASSUME PlayInv, Pressed, NEW c \in QuizCalls, Z!CallEnds(c) PROVE PlayInv'
<1>1. PICK q, d : q = callQuiz[c].q /\ d = [host.data EXCEPT ![q] = rowQuiz[q]]
  OBVIOUS
<1>2. /\ \/ host' = host
         \/ host' = Z!Refetched(Z!Patched(host, d))
      /\ pending' \in {none, pending} /\ callQuiz[c].at # "free"
      /\ UNCHANGED <<Z!server, Z!seat, screen, inbox>>
  BY <1>1 DEF Z!CallEnds
<1>3. q \in QuizQuestions /\ rowQuiz[q] \in Z!Rows /\ host \in Z!Queries(RowMaps)
  BY <1>1, <1>2 DEF PlayInv, Pressed, RowTypes, RowMaps, DeskTypes
<1>4. PICK x : x = Z!Patched(host, d)
  OBVIOUS
<1>5. x \in Z!Queries(RowMaps)
  <2>1. CASE Z!Loaded(host)
    <3>1. host.data \in RowMaps
      BY <1>3, <2>1 DEF Z!Queries, Z!Loaded
    <3>2. d \in RowMaps
      BY <1>1, <1>3, <3>1 DEF RowMaps
    <3> QED BY <1>3, <1>4, <2>1, <3>2, QuizQuery DEF Z!Patched
  <2>2. CASE ~ Z!Loaded(host)
    BY <1>3, <1>4, <2>2 DEF Z!Patched
  <2> QED BY <2>1, <2>2
<1>6. host' \in Z!Queries(RowMaps)
  BY <1>2, <1>3, <1>4, <1>5, QuizQuery
<1>7. RowTypes' /\ DeskTypes'
  BY <1>2, <1>6 DEF PlayInv, RowTypes, DeskTypes, Z!OneActive, Z!server
<1>8. SeatTypes' /\ Told'
  BY <1>2, SeatUntouched DEF PlayInv, Z!server
<1> QED BY <1>7, <1>8 DEF PlayInv

(* The page of the participant shows another question, or the same.               *)
LEMMA ShowsKeeps ==
    ASSUME SeatTypes, Told, NEW q \in Z!Queries(Z!Shown), Z!ShowsQuestion(q), UNCHANGED <<answeredQuiz, postQuiz>>
    PROVE  SeatTypes' /\ Told'
<1>1. join' = q /\ submitOkQuiz' = Z!NoticeFor(q.data) /\ late' = (late /\ submitOkQuiz')
  BY DEF Z!ShowsQuestion
<1>2. submitOkQuiz' \in BOOLEAN /\ late' \in BOOLEAN
  BY <1>1 DEF Z!NoticeFor
<1>3. submitOkQuiz' => submitOkQuiz /\ q.data.q = join.data.q
  BY <1>1 DEF Z!NoticeFor
<1>4. submitOkQuiz' /\ ~ late' => ~ late
  BY <1>1
<1>5. SeatTypes'
  BY <1>1, <1>2 DEF SeatTypes
<1>6. Told'
  BY <1>1, <1>3, <1>4 DEF Told
<1> QED BY <1>5, <1>6

LEMMA OnQuestionOK ==
    ASSUME NEW e \in QuizEvents, NEW d \in Z!Shown PROVE Z!OnQuestion(e, d) \in Z!Shown
<1>1. CASE e.act = "start"
  BY <1>1 DEF Z!OnQuestion, QuizEvents, Z!Shown, Z!States
<1>2. CASE e.act = "reveal"
  BY <1>2 DEF Z!OnQuestion, QuizEvents, Z!Shown, Z!States
<1>3. CASE e.act = "hide"
  BY <1>3 DEF Z!OnQuestion, QuizEvents, Z!Shown, Z!States
<1>4. CASE e.act = "close"
  BY <1>4 DEF Z!OnQuestion, QuizEvents, Z!Shown, Z!States
<1> QED BY <1>1, <1>2, <1>3, <1>4 DEF QuizEvents, Z!Acts

LEMMA InboxTail ==
    ASSUME DeskTypes, NEW v \in Z!Viewers, inbox[v] # << >>
    PROVE  Head(inbox[v]) \in QuizEvents /\ [inbox EXCEPT ![v] = Tail(@)] \in [Z!Viewers -> Seq(QuizEvents)]
<1>1. inbox[v] \in Seq(QuizEvents) /\ inbox \in [Z!Viewers -> Seq(QuizEvents)]
  BY DEF DeskTypes
<1>2. Head(inbox[v]) \in QuizEvents /\ Tail(inbox[v]) \in Seq(QuizEvents)
  BY <1>1
<1> QED BY <1>1, <1>2

LEMMA JoinHearsKeeps == ASSUME PlayInv, Z!JoinHears PROVE PlayInv'
<1>1. PICK e, d : /\ e = Head(inbox["join"])
                  /\ d = IF Z!Loaded(join) THEN Z!OnQuestion(e, join.data)
                         ELSE IF e.act = "start" THEN Z!OnQuestion(e, Z!Nobody) ELSE NoData
  OBVIOUS
<1>2. PICK q : q = IF d = NoData THEN join ELSE Z!Written(join, d)
  OBVIOUS
<1>3. /\ inbox["join"] # << >> /\ inbox' = [inbox EXCEPT !["join"] = Tail(@)]
      /\ \E x \in {q, Z!Refetched(q)} : Z!ShowsQuestion(x)
      /\ UNCHANGED <<Z!server, Z!desk, postQuiz, screen>>
  BY <1>1, <1>2 DEF Z!JoinHears
<1>4. "join" \in Z!Viewers /\ DeskTypes /\ SeatTypes /\ Told /\ RowTypes
  BY DEF Z!Viewers, PlayInv
<1>5. e \in QuizEvents /\ inbox' \in [Z!Viewers -> Seq(QuizEvents)]
  BY <1>1, <1>3, <1>4, InboxTail
<1>6. d \in Z!Shown \cup {NoData}
  <2>1. Z!Nobody \in Z!Shown
    BY DEF Z!Nobody, Z!Shown, Z!States
  <2>2. Z!Loaded(join) => join.data \in Z!Shown
    BY <1>4 DEF SeatTypes, Z!Queries, Z!Loaded
  <2> QED BY <1>1, <1>5, <2>1, <2>2, OnQuestionOK
<1>7. q \in Z!Queries(Z!Shown) /\ Z!Refetched(q) \in Z!Queries(Z!Shown)
  <2>1. join \in Z!Queries(Z!Shown)
    BY <1>4 DEF SeatTypes
  <2>2. q \in Z!Queries(Z!Shown)
    BY <1>2, <1>6, <2>1, QuizQuery
  <2> QED BY <2>2, QuizQuery
<1>8. SeatTypes' /\ Told'
  BY <1>3, <1>4, <1>7, ShowsKeeps DEF Z!server
<1>9. RowTypes' /\ DeskTypes'
  BY <1>3, <1>4, <1>5 DEF RowTypes, DeskTypes, Z!OneActive, Z!server, Z!desk
<1> QED BY <1>8, <1>9 DEF PlayInv

LEMMA AnsweringKeeps ==
    ASSUME PlayInv, Z!Answer \/ Z!ServeAnswer \/ Z!LoseAnswer \/ Z!AnswerEnds \/ Z!CloseNotice
    PROVE PlayInv'
<1>1. UNCHANGED <<rowQuiz, Z!desk, join, screen, inbox>>
  BY DEF Z!Answer, Z!ServeAnswer, Z!LoseAnswer, Z!AnswerEnds, Z!CloseNotice, Z!server
<1>0. SeatTypes /\ Told /\ RowTypes /\ postQuiz \in QuizPosts /\ Z!NoPost \in QuizPosts /\ Z!NoPost.at = "free"
  BY DEF PlayInv, SeatTypes, Z!NoPost, QuizPosts
<1>2. DeskTypes'
  BY <1>1 DEF PlayInv, DeskTypes, Z!desk
<1>3. CASE Z!Answer
  <2>1. /\ Z!Loaded(join) /\ join.data.q # none
        /\ postQuiz' = [at |-> "asked", q |-> join.data.q] /\ UNCHANGED <<answeredQuiz, submitOkQuiz, late>>
    BY <1>3 DEF Z!Answer, Z!server
  <2>2. join.data.q \in QuizQuestions
    BY <1>0, <2>1 DEF SeatTypes, Z!Queries, Z!Loaded, Z!Shown
  <2>3. postQuiz' \in QuizPosts /\ postQuiz'.q \in QuizQuestions /\ postQuiz'.at = "asked"
    BY <2>1, <2>2 DEF QuizPosts
  <2> QED BY <1>0, <1>1, <1>2, <2>1, <2>3 DEF PlayInv, RowTypes, SeatTypes, Told,
      Z!OneActive
<1>4. CASE Z!ServeAnswer
  <2>1. /\ postQuiz.at = "asked" /\ UNCHANGED <<submitOkQuiz, late>>
        /\ \/ answeredQuiz' = answeredQuiz \cup {postQuiz.q} /\ postQuiz' = [postQuiz EXCEPT !.at = "stored"]
           \/ answeredQuiz' = answeredQuiz /\ postQuiz' = [postQuiz EXCEPT !.at = "failed"]
    BY <1>4 DEF Z!ServeAnswer
  <2>2. /\ postQuiz' \in QuizPosts /\ postQuiz'.q = postQuiz.q /\ postQuiz'.at \in {"stored", "failed"}
        /\ (postQuiz'.at = "stored" => answeredQuiz' = answeredQuiz \cup {postQuiz.q})
    BY <1>0, <2>1 DEF QuizPosts
  <2>3. answeredQuiz' \subseteq QuizQuestions /\ answeredQuiz \subseteq answeredQuiz'
    BY <1>0, <2>1 DEF SeatTypes, RowTypes
  <2> QED BY <1>0, <1>1, <1>2, <2>1, <2>2, <2>3 DEF PlayInv, RowTypes, SeatTypes, Told,
      Z!OneActive
<1>5. CASE Z!LoseAnswer
  <2>1. postQuiz' = [postQuiz EXCEPT !.at = "failed"] /\ UNCHANGED <<answeredQuiz, submitOkQuiz, late>>
    BY <1>5 DEF Z!LoseAnswer, Z!server
  <2>2. postQuiz' \in QuizPosts /\ postQuiz'.at = "failed"
    BY <1>0, <2>1 DEF QuizPosts
  <2> QED BY <1>0, <1>1, <1>2, <2>1, <2>2 DEF PlayInv, RowTypes, SeatTypes, Told,
      Z!OneActive
<1>6. CASE Z!AnswerEnds
  <2>1. /\ submitOkQuiz' = Z!WasStored /\ postQuiz' = Z!NoPost /\ UNCHANGED answeredQuiz
        /\ late' = (submitOkQuiz' /\ (postQuiz.q # join.data.q \/ late \/ postQuiz.at = "cleared"))
    BY <1>6 DEF Z!AnswerEnds, Z!server
  <2>2. submitOkQuiz' \in BOOLEAN /\ late' \in BOOLEAN
    BY <2>1 DEF Z!WasStored
  <2>3. ASSUME submitOkQuiz', ~ late' PROVE join.data.q \in answeredQuiz
    <3>1. postQuiz.at = "stored" /\ postQuiz.q = join.data.q
      BY <2>1, <2>3 DEF Z!WasStored
    <3> QED BY <1>0, <3>1 DEF Told
  <2> QED BY <1>0, <1>1, <1>2, <2>1, <2>2, <2>3 DEF PlayInv, RowTypes, SeatTypes, Told,
      Z!OneActive
<1>7. CASE Z!CloseNotice
  <2>1. submitOkQuiz' = FALSE /\ late' = FALSE /\ UNCHANGED <<answeredQuiz, postQuiz>>
    BY <1>7 DEF Z!CloseNotice, Z!server
  <2>2. submitOkQuiz' \in BOOLEAN /\ late' \in BOOLEAN /\ ~ submitOkQuiz'
    BY <2>1
  <2> QED BY <1>0, <1>1, <1>2, <2>1, <2>2 DEF PlayInv, RowTypes, SeatTypes, Told,
      Z!OneActive
<1> QED BY <1>3, <1>4, <1>5, <1>6, <1>7

LEMMA OnRowsOK ==
    ASSUME NEW e \in QuizEvents, NEW r \in RowMaps PROVE Z!OnRows(e, r) \in RowMaps
<1> DEFINE new(q) ==
      CASE q = e.q -> (CASE e.act = "start"  -> [state |-> "active", visible |-> FALSE]
                       [] e.act = "reveal" -> [state |-> "revealed", visible |-> TRUE]
                       [] e.act = "hide"   -> [r[q] EXCEPT !.visible = FALSE]
                       [] e.act = "close"  -> [r[q] EXCEPT !.state = "closed"])
      [] q # e.q -> IF e.act = "start" /\ r[q].state = "active"
                    THEN [r[q] EXCEPT !.state = "closed"] ELSE r[q]
<1>1. ASSUME NEW q \in QuizQuestions PROVE new(q) \in Z!Rows
  <2>1. /\ r[q] \in Z!Rows /\ [r[q] EXCEPT !.state = "closed"] \in Z!Rows
        /\ [r[q] EXCEPT !.visible = FALSE] \in Z!Rows
        /\ [state |-> "active", visible |-> FALSE] \in Z!Rows
        /\ [state |-> "revealed", visible |-> TRUE] \in Z!Rows
    BY DEF RowMaps, Z!Rows, Z!States
  <2>2. e.act \in {"start", "reveal", "hide", "close"}
    BY DEF QuizEvents, Z!Acts
  <2>3. CASE q # e.q
    BY <2>1, <2>3
  <2>4. CASE q = e.q
    <3>1. /\ e.act = "start" => new(q) = [state |-> "active", visible |-> FALSE]
          /\ e.act = "reveal" => new(q) = [state |-> "revealed", visible |-> TRUE]
          /\ e.act = "hide" => new(q) = [r[q] EXCEPT !.visible = FALSE]
          /\ e.act = "close" => new(q) = [r[q] EXCEPT !.state = "closed"]
      BY <2>4
    <3> QED BY <2>1, <2>2, <3>1
  <2> QED BY <2>3, <2>4
<1>2. Z!OnRows(e, r) = [q \in QuizQuestions |-> new(q)]
  BY DEF Z!OnRows
<1> HIDE DEF new
<1> QED BY <1>1, <1>2 DEF RowMaps

LEMMA ScreenHearsKeeps == ASSUME PlayInv, Z!ScreenHears PROVE PlayInv'
<1>1. PICK e, d, x : e = Head(inbox["screen"]) /\ d = Z!OnRows(e, screen.data) /\ x = Z!Written(screen, d)
  OBVIOUS
<1>2. /\ inbox["screen"] # << >> /\ inbox' = [inbox EXCEPT !["screen"] = Tail(@)]
      /\ screen' = IF Z!Loaded(screen) THEN Z!Refetched(x) ELSE Z!Refetched(screen)
      /\ UNCHANGED <<Z!server, Z!desk, Z!seat>>
  BY <1>1 DEF Z!ScreenHears
<1>3. "screen" \in Z!Viewers /\ DeskTypes /\ SeatTypes /\ Told /\ RowTypes /\ screen \in Z!Queries(RowMaps)
  BY DEF Z!Viewers, PlayInv, DeskTypes
<1>4. e \in QuizEvents /\ inbox' \in [Z!Viewers -> Seq(QuizEvents)]
  BY <1>1, <1>2, <1>3, InboxTail
<1>5. screen' \in Z!Queries(RowMaps)
  <2>1. CASE Z!Loaded(screen)
    <3>1. screen.data \in RowMaps
      BY <1>3, <2>1 DEF Z!Queries, Z!Loaded
    <3>2. d \in RowMaps
      BY <1>1, <1>4, <3>1, OnRowsOK
    <3>3. x \in Z!Queries(RowMaps)
      BY <1>1, <1>3, <3>2, QuizQuery
    <3> QED BY <1>2, <2>1, <3>3, QuizQuery
  <2>2. CASE ~ Z!Loaded(screen)
    BY <1>2, <1>3, <2>2, QuizQuery
  <2> QED BY <2>1, <2>2
<1>6. SeatTypes' /\ Told'
  BY <1>2, <1>3, SeatUntouched DEF Z!server
<1>7. RowTypes' /\ DeskTypes'
  BY <1>2, <1>3, <1>4, <1>5 DEF RowTypes, DeskTypes, Z!OneActive, Z!server, Z!desk
<1> QED BY <1>6, <1>7 DEF PlayInv

LEMMA LoseEventKeeps == ASSUME PlayInv, NEW v \in Z!Viewers, Z!LoseEvent(v) PROVE PlayInv'
<1>1. /\ inbox[v] # << >> /\ inbox' = [inbox EXCEPT ![v] = Tail(@)]
      /\ UNCHANGED <<Z!server, Z!desk, Z!seat, screen>>
  BY DEF Z!LoseEvent
<1>2. inbox' \in [Z!Viewers -> Seq(QuizEvents)]
  BY <1>1, InboxTail DEF PlayInv
<1>3. SeatTypes' /\ Told'
  BY <1>1, SeatUntouched DEF PlayInv, Z!server
<1>4. RowTypes' /\ DeskTypes'
  BY <1>1, <1>2 DEF PlayInv, RowTypes, DeskTypes, Z!OneActive, Z!server, Z!desk
<1> QED BY <1>3, <1>4 DEF PlayInv

LEMMA QuizFetches ==
    ASSUME PlayInv, NEW v \in Z!Viewers \cup {"host"}, Z!Polls(v) \/ Z!FetchAnswers(v) \/ Z!FetchStores(v)
    PROVE  PlayInv'
<1>0. /\ host \in Z!Queries(RowMaps) /\ screen \in Z!Queries(RowMaps) /\ join \in Z!Queries(Z!Shown)
      /\ SeatTypes /\ Told /\ RowTypes /\ DeskTypes /\ v \in {"host", "join", "screen"}
      /\ rowQuiz \in RowMaps
  BY DEF PlayInv, DeskTypes, SeatTypes, Z!Viewers, RowTypes
<1>1. UNCHANGED <<Z!server, callQuiz, pending, postQuiz, inbox>>
  BY DEF Z!Polls, Z!FetchAnswers, Z!FetchStores
<1>2. host' \in {host, Z!Fetched(host), Z!Answered(host, rowQuiz), Z!Stored(host)}
      /\ screen' \in {screen, Z!Fetched(screen), Z!Answered(screen, rowQuiz), Z!Stored(screen)}
  BY <1>0 DEF Z!Polls, Z!FetchAnswers, Z!FetchStores, Z!ShowsQuestion
<1>3. host' \in Z!Queries(RowMaps) /\ screen' \in Z!Queries(RowMaps)
  <2>1. /\ Z!Fetched(host) \in Z!Queries(RowMaps) /\ Z!Answered(host, rowQuiz) \in Z!Queries(RowMaps)
        /\ Z!Stored(host) \in Z!Queries(RowMaps)
    BY <1>0, QuizQuery
  <2>2. /\ Z!Fetched(screen) \in Z!Queries(RowMaps) /\ Z!Answered(screen, rowQuiz) \in Z!Queries(RowMaps)
        /\ Z!Stored(screen) \in Z!Queries(RowMaps)
    BY <1>0, QuizQuery
  <2> QED BY <1>0, <1>2, <2>1, <2>2
<1>4. RowTypes' /\ DeskTypes'
  BY <1>0, <1>1, <1>3 DEF RowTypes, DeskTypes, Z!OneActive, Z!server
<1>5. SeatTypes' /\ Told'
  <2>1. CASE Z!Polls(v) \/ Z!FetchAnswers(v)
    <3>1. UNCHANGED <<submitOkQuiz, late>> /\ join' \in {join, Z!Fetched(join), Z!Answered(join, Z!Playing)}
      BY <1>0, <2>1 DEF Z!Polls, Z!FetchAnswers
    <3>2. join' \in Z!Queries(Z!Shown) /\ join'.data = join.data
      <4>1. PICK d : d = Z!Playing
        OBVIOUS
      <4>2. d \in Z!Shown
        BY <1>0, <4>1, PlayingOK
      <4>3. /\ Z!Fetched(join) \in Z!Queries(Z!Shown) /\ Z!Answered(join, d) \in Z!Queries(Z!Shown)
            /\ Z!Fetched(join).data = join.data /\ Z!Answered(join, d).data = join.data
        BY <1>0, <4>2, QuizQuery
      <4> QED BY <1>0, <3>1, <4>1, <4>3
    <3> QED BY <1>0, <1>1, <3>1, <3>2 DEF SeatTypes, Told, Z!server
  <2>2. CASE Z!FetchStores(v)
    <3>1. CASE v = "join"
      <4>1. PICK q : q = Z!Stored(join)
        OBVIOUS
      <4>2. Z!ShowsQuestion(q) /\ q \in Z!Queries(Z!Shown)
        BY <1>0, <2>2, <3>1, <4>1, QuizQuery DEF Z!FetchStores
      <4> QED BY <1>0, <1>1, <4>2, ShowsKeeps DEF Z!server
    <3>2. CASE v # "join"
      <4>1. UNCHANGED <<join, submitOkQuiz, late>>
        BY <1>0, <2>2, <3>2 DEF Z!FetchStores
      <4> QED BY <1>0, <1>1, <4>1, SeatUntouched DEF Z!server, Z!seat
    <3> QED BY <3>1, <3>2
  <2> QED BY <2>1, <2>2
<1> QED BY <1>4, <1>5 DEF PlayInv

LEMMA PlayNext == PlayInv /\ Pressed /\ [Z!Next]_Z!vars => PlayInv'
<1> SUFFICES ASSUME PlayInv, Pressed, [Z!Next]_Z!vars PROVE PlayInv'
  OBVIOUS
<1>1. CASE UNCHANGED Z!vars
  <2>1. UNCHANGED <<Z!server, Z!desk, Z!seat, screen, inbox>>
    BY <1>1 DEF Z!vars
  <2>2. RowTypes' /\ DeskTypes'
    BY <2>1 DEF PlayInv, RowTypes, DeskTypes, Z!OneActive, Z!server, Z!desk
  <2> QED BY <2>1, <2>2, SeatUntouched DEF PlayInv, Z!server
<1>2. CASE Z!Next
  BY <1>2, CallSteps, CommitKeepsSeat, CallEndsKeeps, JoinHearsKeeps, AnsweringKeeps,
      ScreenHearsKeeps,
     LoseEventKeeps, QuizFetches DEF Z!Next
<1> QED BY <1>1, <1>2

LEMMA PlayGives == PlayInv /\ Pressed => Z!TypeOK /\ Z!NoticeIsTrue
<1> SUFFICES ASSUME PlayInv, Pressed PROVE Z!TypeOK /\ Z!NoticeIsTrue
  OBVIOUS
<1>1. Z!NoticeIsTrue
  BY DEF PlayInv, Told, Z!NoticeIsTrue
<1>2. ASSUME NEW v \in Z!Viewers, NEW i \in 1..Len(inbox[v])
      PROVE inbox[v][i].q \in QuizQuestions
  <2>1. inbox[v] \in Seq(QuizEvents)
    BY DEF PlayInv, DeskTypes
  <2>2. inbox[v][i] \in QuizEvents
    BY <2>1
  <2> QED BY <2>2 DEF QuizEvents
<1>3. \A c \in QuizCalls : callQuiz[c].at \in CallStates /\ callQuiz[c].act \in Z!Acts
  BY DEF Pressed, CallType
<1> QED BY <1>1, <1>2, <1>3
        DEF PlayInv, RowTypes, DeskTypes, SeatTypes, Z!TypeOK, RowMaps, QuizPosts,
            CallStates

-----------------------------------------------------------------------------
(* The Q&A panel.                                                              *)
(* Lists that may be cached, requests that may be under way.                      *)
VoteLists == UNION {[Asked -> V!Entries] : Asked \in SUBSET VotedQuestions}

VoteReqs == [q : VotedQuestions \cup {none}, side : V!Mine,
             at : {"free", "asked", "served", "failed"}, previous : VoteLists \cup {NoData},
             expects : V!Mine, sure : BOOLEAN, alone : BOOLEAN, result : V!Entries \cup {NoData}]

ReqTypes ==
    /\ req \in [VoteSlots -> VoteReqs]
    /\ \A s \in VoteSlots : /\ req[s] # V!NoReq => req[s].q \in VotedQuestions /\ req[s].side \in V!Sides
                            /\ req[s].at = "served" => req[s].result \in V!Entries
                            /\ req[s].at = "free" => req[s] = V!NoReq

VoteTypes ==
    /\ public \subseteq VotedQuestions /\ due \subseteq public /\ doubt \subseteq VotedQuestions
    /\ cast \in [VotedQuestions -> V!Mine] /\ others \in [VotedQuestions -> Nat]
    /\ list \in V!Queries(VoteLists)
    /\ votingId \in VotedQuestions \cup {none} /\ asking \in BOOLEAN
    /\ ReqTypes

(* No vote on the question is under way.                                         *)
Quiet(q) == \A s \in VoteSlots : req[s].q # q

(* The vote a listed question shows as one's own is the one the server has, but for *)
(* what the page was given out of date.                                          *)
OwnVotes ==
    \A q \in VotedQuestions \ doubt :
        Quiet(q) /\ V!Shows(list.data, q) => list.data[q].mine = cast[q]

(* So is all it shows, when no fetch is in flight.                                *)
ListCurrent ==
    V!Idle(list) => \A q \in VotedQuestions \ doubt : Quiet(q) => V!Current(list.data, q)

(* A vote that nobody let go of holds its buttons; one that is sure is the only one *)
(* on its question, and is about to do, or did, what its button showed.           *)
Held == \A s \in VoteSlots : req[s] # V!NoReq /\ req[s].alone => votingId = req[s].q
Sure ==
    \A s \in VoteSlots : req[s] # V!NoReq /\ req[s].sure =>
       /\ \A r \in VoteSlots \ {s} : req[r].q # req[s].q
       /\ req[s].at = "asked" => V!Toggle(cast[req[s].q], req[s].side) = req[s].expects
       /\ req[s].at = "served" => req[s].result.mine = req[s].expects

VoteInv == VoteTypes /\ OwnVotes /\ ListCurrent /\ Held /\ Sure

LEMMA VoteNo == none \notin VotedQuestions /\ V!NoReq \in VoteReqs /\ V!NoReq.q = none
                /\ V!NoReq.at = "free" /\ ~ V!NoReq.sure
  BY PartsAssumption DEF PartsAssumption, V!VotingAssumption, V!NoReq, VoteReqs, V!Mine,
                         V!Sides

LEMMA VoteInit == V!Init => VoteInv
<1> SUFFICES ASSUME V!Init PROVE VoteInv
  OBVIOUS
<1>1. list \in V!Queries(VoteLists) /\ ~ V!Idle(list) /\ list.data = NoData
  BY DEF V!Init, V!Loading, V!Unused, V!Queries, V!Fetches, V!Idle
<1>2. cast \in [VotedQuestions -> V!Mine] /\ others \in [VotedQuestions -> Nat]
  BY DEF V!Init, V!Mine
<1>3. \A s \in VoteSlots : req[s] = V!NoReq
  BY DEF V!Init
<1>4. VoteTypes
  BY <1>1, <1>2, <1>3, VoteNo DEF V!Init, VoteTypes, ReqTypes
<1>5. OwnVotes /\ ListCurrent /\ Held /\ Sure
  BY <1>1, <1>3 DEF OwnVotes, ListCurrent, Held, Sure, V!Shows
<1> QED BY <1>4, <1>5 DEF VoteInv

(* What the client's calls do to the cached list.                                 *)
LEMMA VoteCached ==
    ASSUME NEW q \in V!Queries(VoteLists), NEW d \in VoteLists \cup {NoData}
    PROVE  /\ V!Fetched(q) \in V!Queries(VoteLists) /\ V!Refetched(q) \in V!Queries(VoteLists)
           /\ V!Cancelled(q) \in V!Queries(VoteLists) /\ V!Stored(q) \in V!Queries(VoteLists)
           /\ V!Written(q, d) \in V!Queries(VoteLists) /\ V!Answered(q, d) \in V!Queries(VoteLists)
           /\ V!Fetched(q).data = q.data /\ V!Refetched(q).data = q.data /\ V!Cancelled(q).data = q.data
           /\ V!Answered(q, d).data = q.data /\ V!Written(q, d).data = d /\ V!Stored(q).data = q.reply
           /\ ~ V!Idle(V!Refetched(q)) /\ ~ V!Idle(V!Fetched(q)) /\ ~ V!Idle(V!Answered(q, d))
           /\ (V!Idle(V!Written(q, d)) <=> V!Idle(q))
BY DEF V!Queries, V!Fetches, V!Fetched, V!Refetched, V!Cancelled, V!Stored, V!Written,
       V!Answered, V!Idle, V!Loaded

LEMMA VoteEntry ==
    ASSUME NEW m \in V!Mine, NEW n \in Nat
    PROVE  V!Entry(m, n) \in V!Entries /\ V!Entry(m, n).mine = m
BY DEF V!Entry, V!Entries, V!One, V!Mine, V!Sides

LEMMA VoteToggle == ASSUME NEW m \in V!Mine, NEW s \in V!Sides PROVE V!Toggle(m, s) \in V!Mine
BY DEF V!Toggle, V!Mine

LEMMA VotePatch ==
    ASSUME NEW d \in VoteLists \cup {NoData}, NEW q, NEW e \in V!Entries
    PROVE  /\ V!Patch(d, q, e) \in VoteLists \cup {NoData}
           /\ \A p : V!Shows(V!Patch(d, q, e), p) <=> V!Shows(d, p)
           /\ \A p : V!Shows(d, p) /\ p # q => V!Patch(d, q, e)[p] = d[p]
           /\ V!Shows(d, q) => V!Patch(d, q, e)[q] = e
<1>1. CASE V!Shows(d, q)
  <2>1. PICK Asked \in SUBSET VotedQuestions : d \in [Asked -> V!Entries]
    BY <1>1 DEF VoteLists, V!Shows
  <2>2. V!Patch(d, q, e) = [d EXCEPT ![q] = e] /\ q \in Asked
    BY <1>1, <2>1 DEF V!Patch, V!Shows
  <2>3. V!Patch(d, q, e) \in [Asked -> V!Entries] /\ DOMAIN V!Patch(d, q, e) = Asked
    BY <2>1, <2>2
  <2>4. V!Patch(d, q, e) # NoData
    BY <2>3, PartsAssumption DEF PartsAssumption, V!VotingAssumption
  <2>5. V!Patch(d, q, e) \in VoteLists
    BY <2>3 DEF VoteLists
  <2>6. \A p : V!Shows(V!Patch(d, q, e), p) <=> V!Shows(d, p)
    BY <1>1, <2>1, <2>3, <2>4 DEF V!Shows
  <2> QED BY <2>1, <2>2, <2>5, <2>6 DEF V!Shows
<1>2. CASE ~ V!Shows(d, q)
  BY <1>2 DEF V!Patch
<1> QED BY <1>1, <1>2

LEMMA NowOK ==
    ASSUME VoteTypes, NEW q \in VotedQuestions
    PROVE  V!Now(q) \in V!Entries /\ V!Now(q).mine = cast[q]
BY VoteEntry DEF VoteTypes, V!Now

LEMMA ListingOK ==
    ASSUME VoteTypes PROVE V!Listing \in VoteLists
<1>1. \A q \in public : V!Now(q) \in V!Entries
  BY NowOK DEF VoteTypes
<1>2. V!Listing \in [public -> V!Entries]
  BY <1>1 DEF V!Listing
<1> QED BY <1>2 DEF VoteTypes, VoteLists

LEMMA ShowsWhere ==
    ASSUME NEW d \in VoteLists \cup {NoData}, NEW q, V!Shows(d, q)
    PROVE  q \in VotedQuestions /\ d[q] \in V!Entries /\ d[q].mine \in V!Mine
<1>1. PICK Asked \in SUBSET VotedQuestions : d \in [Asked -> V!Entries]
  BY DEF VoteLists, V!Shows
<1> QED BY <1>1 DEF V!Shows, V!Entries

(* What is current shows the own vote the server has.                             *)
LEMMA CurrentMine ==
    ASSUME VoteTypes, NEW d, NEW q \in VotedQuestions, V!Current(d, q), V!Shows(d, q)
    PROVE  d[q].mine = cast[q]
BY NowOK DEF V!Current

LEMMA NotOld ==
    ASSUME NEW d, NEW q \in VotedQuestions, q \notin V!OldIn(d)
    PROVE V!Current(d, q)
BY DEF V!OldIn

LEMMA OldType == ASSUME NEW d PROVE V!OldIn(d) \subseteq VotedQuestions
BY DEF V!OldIn

(* A step that leaves the requests and the own votes alone, and of the list only     *)
(* what the questions in doubt may differ in.                                     *)
LEMMA ListStep ==
    ASSUME VoteInv, VoteTypes', UNCHANGED <<req, cast, votingId>>, OwnVotes', ListCurrent'
    PROVE  VoteInv'
BY DEF VoteInv, Held, Sure

LEMMA VoteKeeps ==
    ASSUME VoteInv, NEW q \in VotedQuestions, NEW side \in V!Sides, NEW s \in VoteSlots, V!Vote(q, side, s)
    PROVE  VoteInv'
<1> DEFINE d == list.data
           e == V!Voted(d[q], side)
           new == [V!NoReq EXCEPT
                !.q = q, !.side = side, !.at = "asked", !.previous = d,
                !.expects = V!Toggle(d[q].mine, side),
                !.sure = q \notin doubt /\ \A u \in V!UnderWay(q) : req[u].alone]
           Other(r) == [req[r] EXCEPT !.alone = @ /\ req[r].q = q,
                             !.sure = @ /\ (req[r].q = q => req[r].alone)]
<1>1. /\ V!Shows(d, q) /\ votingId # q /\ req[s] = V!NoReq
      /\ votingId' = q /\ list' = V!Written(V!Cancelled(list), V!Patch(d, q, e))
      /\ doubt' = IF V!Idle(list) THEN doubt ELSE doubt \cup V!OldIn(d)
      /\ UNCHANGED <<public, cast, others, due, asking>>
  BY DEF V!Vote, V!MayVote, V!served
<1>2. req' = [r \in VoteSlots |-> IF r = s THEN new ELSE IF req[r] = V!NoReq THEN V!NoReq ELSE Other(r)]
  BY DEF V!Vote
<1>3. list \in V!Queries(VoteLists) /\ d \in VoteLists \cup {NoData} /\ req \in [VoteSlots -> VoteReqs]
  BY DEF VoteInv, VoteTypes, ReqTypes, V!Queries
<1>4. d[q] \in V!Entries /\ d[q].mine \in V!Mine
  BY <1>1, <1>3, ShowsWhere
<1>5. V!Toggle(d[q].mine, side) \in V!Mine
  BY <1>4, VoteToggle
<1>6. e \in V!Entries
  BY <1>4, <1>5 DEF V!Voted, V!Entries, V!One
<1>7. new \in VoteReqs /\ new # V!NoReq
  BY <1>1, <1>3, <1>5, VoteNo DEF VoteReqs, V!NoReq, V!Mine
<1>8. ASSUME NEW r \in VoteSlots
      PROVE  /\ Other(r) \in VoteReqs
             /\ Other(r).q = req[r].q /\ Other(r).side = req[r].side /\ Other(r).at = req[r].at
             /\ Other(r).result = req[r].result /\ Other(r).expects = req[r].expects
             /\ (Other(r).alone => req[r].alone /\ req[r].q = q)
             /\ (Other(r).sure => req[r].sure /\ (req[r].q = q => req[r].alone))
  <2> DEFINE a == (req[r].alone /\ req[r].q = q)
             b == (req[r].sure /\ (req[r].q = q => req[r].alone))
  <2>1. a \in BOOLEAN /\ b \in BOOLEAN
    OBVIOUS
  <2>2. Other(r) = [req[r] EXCEPT !.alone = a, !.sure = b]
    OBVIOUS
  <2> HIDE DEF a, b, Other
  <2>3. /\ Other(r) \in VoteReqs
        /\ Other(r).q = req[r].q /\ Other(r).side = req[r].side /\ Other(r).at = req[r].at
        /\ Other(r).result = req[r].result /\ Other(r).expects = req[r].expects
        /\ Other(r).alone = a /\ Other(r).sure = b
    BY <1>3, <2>1, <2>2 DEF VoteReqs
  <2> QED BY <2>3 DEF a, b
<1>9. /\ new.q = q /\ new.side = side /\ new.at = "asked" /\ new.expects = V!Toggle(d[q].mine, side)
      /\ new.sure = (q \notin doubt /\ \A u \in V!UnderWay(q) : req[u].alone)
  BY DEF V!NoReq
<1> HIDE DEF new, Other, e
<1>10. /\ req' \in [VoteSlots -> VoteReqs] /\ req'[s] = new
       /\ \A r \in VoteSlots \ {s} : req'[r] = IF req[r] = V!NoReq THEN V!NoReq ELSE Other(r)
  BY <1>2, <1>7, <1>8, VoteNo
<1>11. \A r \in VoteSlots \ {s} : req'[r].q = req[r].q /\ (req'[r] # V!NoReq => req[r] # V!NoReq)
  BY <1>8, <1>10
(* Typing.                                                                       *)
<1>12. V!Cancelled(list) \in V!Queries(VoteLists) /\ V!Patch(d, q, e) \in VoteLists \cup {NoData}
  BY <1>3, <1>6, VoteCached, VotePatch
<1>13. list' \in V!Queries(VoteLists) /\ list'.data = V!Patch(d, q, e)
  <2> DEFINE c == V!Cancelled(list)
             p == V!Patch(d, q, e)
  <2>1. list' = V!Written(c, p) /\ c \in V!Queries(VoteLists) /\ p \in VoteLists \cup {NoData}
    BY <1>1, <1>12
  <2> HIDE DEF c, p
  <2>2. list' \in V!Queries(VoteLists) /\ list'.data = p
    BY <2>1, VoteCached
  <2> QED BY <2>2 DEF p
<1>14. VoteTypes'
  <2>1. doubt' \subseteq VotedQuestions
    BY <1>1, OldType DEF VoteInv, VoteTypes
  <2>2. \A r \in VoteSlots : req'[r] # V!NoReq => req'[r].q \in VotedQuestions /\ req'[r].side \in V!Sides
    BY <1>8, <1>9, <1>10 DEF VoteInv, VoteTypes, ReqTypes
  <2>3. \A r \in VoteSlots : req'[r].at = "served" => req'[r].result \in V!Entries
    BY <1>8, <1>9, <1>10, VoteNo DEF VoteInv, VoteTypes, ReqTypes
  <2>4. \A r \in VoteSlots : req'[r].at = "free" => req'[r] = V!NoReq
    BY <1>8, <1>9, <1>10 DEF VoteInv, VoteTypes, ReqTypes
  <2>5. ReqTypes'
    BY <1>10, <2>2, <2>3, <2>4 DEF ReqTypes
  <2> QED BY <1>1, <1>13, <2>1, <2>5 DEF VoteInv, VoteTypes
(* Other questions are shown as before.                                           *)
<1>15. \A p \in VotedQuestions : Quiet(p)' => p # q /\ Quiet(p)
  BY <1>9, <1>10, <1>11, VoteNo, <1>1 DEF Quiet
<1>16. \A p \in VotedQuestions \ {q} : (V!Shows(list'.data, p) <=> V!Shows(d, p))
                               /\ (V!Shows(d, p) => list'.data[p] = d[p])
  BY <1>3, <1>6, <1>13, VotePatch
<1>17. OwnVotes'
  <2> SUFFICES ASSUME NEW p \in VotedQuestions, p \notin doubt', Quiet(p)', V!Shows(list'.data, p)
               PROVE  list'.data[p].mine = cast[p]
    BY <1>1 DEF OwnVotes
  <2>1. p # q /\ Quiet(p) /\ p \notin doubt
    BY <1>1, <1>15
  <2> QED BY <1>16, <2>1 DEF VoteInv, OwnVotes
<1>18. ListCurrent'
  <2> SUFFICES ASSUME NEW p \in VotedQuestions, p \notin doubt', Quiet(p)'
               PROVE  V!Current(list.data, p)'
    BY DEF ListCurrent
  <2>1. p # q /\ Quiet(p) /\ p \notin doubt
    BY <1>1, <1>15
  <2>2. V!Current(d, p)
    BY <1>1, <2>1, NotOld DEF VoteInv, ListCurrent
  <2> QED BY <1>1, <1>16, <2>1, <2>2 DEF V!Current, V!Now
<1>19. Held'
  <2> SUFFICES ASSUME NEW r \in VoteSlots, req'[r] # V!NoReq, req'[r].alone PROVE q = req'[r].q
    BY <1>1 DEF Held
  <2> QED BY <1>8, <1>9, <1>10, <1>11
(* The new request is sure of its button when it is the only one on its question.  *)
<1>20. new.sure => Quiet(q) /\ q \notin doubt
  <2>1. \A u \in V!UnderWay(q) : ~ req[u].alone
    BY <1>1, VoteNo DEF V!UnderWay, VoteInv, Held
  <2> QED BY <1>9, <2>1 DEF V!UnderWay, Quiet
<1>21. Sure'
  <2> SUFFICES ASSUME NEW r \in VoteSlots, req'[r] # V!NoReq, req'[r].sure
               PROVE  /\ \A t \in VoteSlots \ {r} : req'[t].q # req'[r].q
                      /\ req'[r].at = "asked" => V!Toggle(cast[req'[r].q], req'[r].side) = req'[r].expects
                      /\ req'[r].at = "served" => req'[r].result.mine = req'[r].expects
    BY <1>1 DEF Sure, V!Toggle
  <2>1. CASE r = s
    <3>1. Quiet(q) /\ q \notin doubt
      BY <1>10, <1>20, <2>1
    <3>2. d[q].mine = cast[q]
      BY <1>1, <3>1 DEF VoteInv, OwnVotes
    <3> QED BY <1>9, <1>10, <1>11, <2>1, <3>1, <3>2 DEF Quiet
  <2>2. CASE r # s
    <3>1. req[r] # V!NoReq /\ req'[r] = Other(r) /\ req[r].sure /\ req[r].q # q
      BY <1>1, <1>8, <1>10, <2>2 DEF VoteInv, Held
    <3> QED BY <1>8, <1>9, <1>10, <1>11, <2>2, <3>1 DEF VoteInv, Sure
  <2> QED BY <2>1, <2>2
<1> QED BY <1>14, <1>17, <1>18, <1>19, <1>21 DEF VoteInv

(* The server makes of a vote the toggle of what it has.                            *)
LEMMA ServeVoteKeeps == ASSUME VoteInv, NEW s \in VoteSlots, V!ServeVote(s) PROVE VoteInv'
<1> DEFINE q == req[s].q
           m == V!Toggle(cast[q], req[s].side)
           e == V!Entry(m, others[q])
<1>1. /\ req[s].at = "asked" /\ UNCHANGED <<public, others, list, votingId, asking, doubt>>
      /\ \/ /\ q \in public /\ cast' = [cast EXCEPT ![q] = m] /\ due' = due \cup {q}
            /\ req' = [req EXCEPT ![s].at = "served", ![s].result = e]
         \/ UNCHANGED <<cast, due>> /\ req' = [req EXCEPT ![s].at = "failed"]
  BY DEF V!ServeVote
<1>2. req[s] # V!NoReq /\ q \in VotedQuestions /\ req[s].side \in V!Sides /\ req \in [VoteSlots -> VoteReqs]
  BY <1>1, VoteNo DEF VoteInv, VoteTypes, ReqTypes
<1>3. m \in V!Mine /\ e \in V!Entries /\ e.mine = m
  BY <1>2, VoteToggle, VoteEntry DEF VoteInv, VoteTypes
<1> HIDE DEF m, e
<1>4. /\ req' \in [VoteSlots -> VoteReqs] /\ \A r \in VoteSlots \ {s} : req'[r] = req[r]
      /\ req'[s].q = q /\ req'[s].side = req[s].side /\ req'[s].expects = req[s].expects
      /\ req'[s].sure = req[s].sure /\ req'[s].alone = req[s].alone
      /\ req'[s].at \in {"served", "failed"} /\ (req'[s].at = "served" => req'[s].result = e)
      /\ (req'[s].at = "served" => cast'[q] = m)
  <2>1. CASE req' = [req EXCEPT ![s].at = "served", ![s].result = e] /\ cast' = [cast EXCEPT ![q] = m]
    BY <1>2, <1>3, <2>1 DEF VoteReqs, VoteInv, VoteTypes, ReqTypes
  <2>2. CASE req' = [req EXCEPT ![s].at = "failed"]
    BY <1>2, <2>2 DEF VoteReqs
  <2> QED BY <1>1, <2>1, <2>2
<1>5. cast' \in [VotedQuestions -> V!Mine] /\ \A p \in VotedQuestions \ {q} : cast'[p] = cast[p]
  BY <1>1, <1>2, <1>3 DEF VoteInv, VoteTypes
<1>6. due' \subseteq public /\ due \subseteq due' /\ due' \subseteq due \cup {q}
  BY <1>1 DEF VoteInv, VoteTypes
<1>7. \A p : Quiet(p)' => p # q /\ Quiet(p)
  BY <1>4 DEF Quiet
<1>8. VoteTypes'
  <2>1. ReqTypes'
    BY <1>2, <1>3, <1>4 DEF VoteInv, VoteTypes, ReqTypes
  <2>2. public' \subseteq VotedQuestions /\ due' \subseteq public' /\ doubt' \subseteq VotedQuestions
    BY <1>1, <1>6 DEF VoteInv, VoteTypes
  <2> QED BY <1>1, <1>5, <2>1, <2>2 DEF VoteInv, VoteTypes
<1>9. OwnVotes'
  BY <1>1, <1>5, <1>7 DEF VoteInv, OwnVotes
<1>10. ListCurrent'
  BY <1>1, <1>5, <1>6, <1>7 DEF VoteInv, ListCurrent, V!Current, V!Now
<1>11. Held'
  BY <1>1, <1>2, <1>4 DEF VoteInv, Held
<1>12. Sure'
  <2> SUFFICES ASSUME NEW r \in VoteSlots, req'[r] # V!NoReq, req'[r].sure
               PROVE  /\ \A t \in VoteSlots \ {r} : req'[t].q # req'[r].q
                      /\ req'[r].at = "asked" => V!Toggle(cast'[req'[r].q], req'[r].side) = req'[r].expects
                      /\ req'[r].at = "served" => req'[r].result.mine = req'[r].expects
    BY DEF Sure, V!Toggle
  <2>1. CASE r = s
    BY <1>1, <1>2, <1>3, <1>4, <2>1 DEF VoteInv, Sure, m
  <2>2. CASE r # s
    <3>1. req[r] # V!NoReq /\ req[r].sure /\ req'[r] = req[r] /\ req[r].q \in VotedQuestions
      BY <1>4, <2>2 DEF VoteInv, VoteTypes, ReqTypes
    <3>2. req[r].q # q /\ \A t \in VoteSlots \ {r} : req'[t].q # req[r].q
      BY <1>4, <2>2, <3>1 DEF VoteInv, Sure
    <3>3. cast'[req[r].q] = cast[req[r].q]
      BY <1>5, <3>1, <3>2
    <3> QED BY <3>1, <3>2, <3>3 DEF VoteInv, Sure
  <2> QED BY <2>1, <2>2
<1> QED BY <1>8, <1>9, <1>10, <1>11, <1>12 DEF VoteInv

LEMMA LoseVoteKeeps == ASSUME VoteInv, NEW s \in VoteSlots, V!LoseVote(s) PROVE VoteInv'
<1>1. /\ req[s].at \in {"asked", "served"} /\ req' = [req EXCEPT ![s].at = "failed"]
      /\ UNCHANGED <<public, cast, others, due, list, votingId, asking, doubt>>
  BY DEF V!LoseVote, V!served
<1>2. req \in [VoteSlots -> VoteReqs] /\ req[s] # V!NoReq
  BY <1>1, VoteNo DEF VoteInv, VoteTypes, ReqTypes
<1>3. /\ req' \in [VoteSlots -> VoteReqs] /\ req'[s].at = "failed"
      /\ \A r \in VoteSlots \ {s} : req'[r] = req[r]
      /\ req'[s].q = req[s].q /\ req'[s].side = req[s].side
      /\ req'[s].alone = req[s].alone /\ req'[s].sure = req[s].sure
  BY <1>1, <1>2 DEF VoteReqs
<1>4. \A p : Quiet(p)' => Quiet(p)
  BY <1>3 DEF Quiet
<1>5. VoteTypes'
  <2>1. ReqTypes'
    BY <1>2, <1>3 DEF VoteInv, VoteTypes, ReqTypes
  <2> QED BY <1>1, <2>1 DEF VoteInv, VoteTypes
<1>6. OwnVotes' /\ ListCurrent'
  BY <1>1, <1>4 DEF VoteInv, OwnVotes, ListCurrent, V!Current, V!Now
<1>7. Held'
  BY <1>1, <1>2, <1>3 DEF VoteInv, Held
<1>8. Sure'
  <2> SUFFICES ASSUME NEW r \in VoteSlots, req'[r] # V!NoReq, req'[r].sure
               PROVE  /\ \A t \in VoteSlots \ {r} : req'[t].q # req'[r].q
                      /\ req'[r].at = "asked" => V!Toggle(cast[req'[r].q], req'[r].side) = req'[r].expects
                      /\ req'[r].at = "served" => req'[r].result.mine = req'[r].expects
    BY <1>1 DEF Sure, V!Toggle
  <2>1. \A t \in VoteSlots : req'[t].q = req[t].q
    BY <1>3
  <2>2. req[r] # V!NoReq /\ req[r].sure
    BY <1>2, <1>3
  <2> QED BY <1>3, <2>1, <2>2 DEF VoteInv, Sure
<1> QED BY <1>5, <1>6, <1>7, <1>8 DEF VoteInv

(* A vote ends, and no one holds the buttons.                                     *)
LEMMA FreedKeeps ==
    ASSUME VoteInv, NEW s \in VoteSlots, req' = V!Freed(s), votingId' = none, UNCHANGED cast
    PROVE  /\ ReqTypes' /\ Held' /\ Sure'
           /\ \A p \in VotedQuestions : Quiet(p)' => Quiet(p) \/ p = req[s].q
<1>1. req \in [VoteSlots -> VoteReqs]
  BY DEF VoteInv, VoteTypes, ReqTypes
<1>2. ASSUME NEW r \in VoteSlots
      PROVE  \/ req'[r] = V!NoReq /\ (r = s \/ req[r] = V!NoReq)
             \/ /\ r # s /\ req[r] # V!NoReq /\ req'[r] \in VoteReqs /\ ~ req'[r].alone
                /\ req'[r].q = req[r].q /\ req'[r].side = req[r].side /\ req'[r].at = req[r].at
                /\ req'[r].result = req[r].result /\ req'[r].expects = req[r].expects
                /\ req'[r].sure = req[r].sure
  BY <1>1 DEF V!Freed, VoteReqs
<1>3. req' \in [VoteSlots -> VoteReqs]
  BY <1>2, VoteNo DEF V!Freed
<1>4. Held'
  BY <1>2 DEF Held
<1>5. ASSUME NEW r \in VoteSlots
      PROVE  /\ req'[r] # V!NoReq => req'[r].q \in VotedQuestions /\ req'[r].side \in V!Sides
             /\ req'[r].at = "served" => req'[r].result \in V!Entries
             /\ req'[r].at = "free" => req'[r] = V!NoReq
  BY <1>2, VoteNo DEF VoteInv, VoteTypes, ReqTypes
<1>6. \A r \in VoteSlots : req'[r].q = req[r].q \/ req'[r].q = none
  BY <1>2, VoteNo
<1>7. Sure'
  <2> SUFFICES ASSUME NEW r \in VoteSlots, req'[r] # V!NoReq, req'[r].sure
               PROVE  /\ \A t \in VoteSlots \ {r} : req'[t].q # req'[r].q
                      /\ req'[r].at = "asked" => V!Toggle(cast[req'[r].q], req'[r].side) = req'[r].expects
                      /\ req'[r].at = "served" => req'[r].result.mine = req'[r].expects
    BY DEF Sure, V!Toggle
  <2>1. /\ r # s /\ req[r] # V!NoReq /\ req[r].sure /\ req'[r].q \in VotedQuestions
        /\ req'[r].q = req[r].q /\ req'[r].side = req[r].side /\ req'[r].at = req[r].at
        /\ req'[r].result = req[r].result /\ req'[r].expects = req[r].expects
    <3>1. r # s /\ req[r] # V!NoReq
      BY <1>2
    <3>2. req'[r].sure = req[r].sure
      BY <1>2, <3>1
    <3>3. req[r].sure
      BY <3>2
    <3> QED BY <1>2, <1>5, <3>1, <3>3
  <2>2. \A t \in VoteSlots \ {r} : req[t].q # req[r].q
    BY <2>1 DEF VoteInv, Sure
  <2>3. \A t \in VoteSlots \ {r} : req'[t].q # req'[r].q
    BY <1>6, <2>1, <2>2, VoteNo
  <2> QED BY <2>1, <2>3 DEF VoteInv, Sure
<1>8. ASSUME NEW p \in VotedQuestions, Quiet(p)', p # req[s].q PROVE Quiet(p)
  BY <1>2, <1>8, VoteNo DEF Quiet
<1>9. ReqTypes'
  BY <1>3, <1>5 DEF ReqTypes
<1> QED BY <1>4, <1>7, <1>8, <1>9

(* The answer's counts and vote are put into the list.                             *)
LEMMA VoteSucceedsKeeps == ASSUME VoteInv, NEW s \in VoteSlots, V!VoteSucceeds(s) PROVE VoteInv'
<1>0. PICK q, e, d, p0 : q = req[s].q /\ e = req[s].result /\ d = list.data /\ p0 = V!Patch(d, q, e)
  OBVIOUS
<1>1. /\ req[s].at = "served" /\ req' = V!Freed(s) /\ votingId' = none
      /\ list' = IF V!Loaded(list) THEN V!Written(list, p0) ELSE list
      /\ doubt' = IF V!Current([x \in {q} |-> e], q) /\ V!Shows(d, q) THEN doubt \ {q} ELSE doubt \cup {q}
      /\ UNCHANGED <<public, cast, others, due, asking>>
  BY <1>0 DEF V!VoteSucceeds, V!served, V!Reconciled
<1>2. e \in V!Entries /\ q \in VotedQuestions /\ list \in V!Queries(VoteLists) /\ d \in VoteLists \cup {NoData}
  BY <1>0, <1>1, VoteNo DEF VoteInv, VoteTypes, ReqTypes, V!Queries
<1>3. /\ ReqTypes' /\ Held' /\ Sure'
      /\ \A p \in VotedQuestions : Quiet(p)' => Quiet(p) \/ p = q
  BY <1>0, <1>1, FreedKeeps
<1>4. /\ p0 \in VoteLists \cup {NoData} /\ \A p : V!Shows(p0, p) <=> V!Shows(d, p)
      /\ \A p : V!Shows(d, p) /\ p # q => p0[p] = d[p]
      /\ V!Shows(d, q) => p0[q] = e
  BY <1>0, <1>2, VotePatch
<1>5. /\ list' \in V!Queries(VoteLists) /\ (V!Idle(list') <=> V!Idle(list))
      /\ list'.data = IF V!Loaded(list) THEN p0 ELSE d
  BY <1>0, <1>1, <1>2, <1>4, VoteCached
<1>6. /\ \A p : V!Shows(list'.data, p) <=> V!Shows(d, p)
      /\ \A p : V!Shows(d, p) /\ p # q => list'.data[p] = d[p]
      /\ V!Shows(d, q) => list'.data[q] = e
  BY <1>0, <1>4, <1>5 DEF V!Shows, V!Loaded
<1>7. VoteTypes'
  BY <1>1, <1>2, <1>3, <1>5 DEF VoteInv, VoteTypes
<1>8. q \notin doubt' => V!Current(list.data, q)'
  <2> SUFFICES ASSUME q \notin doubt' PROVE V!Current(list.data, q)'
    OBVIOUS
  <2>1. V!Current([x \in {q} |-> e], q) /\ V!Shows(d, q)
    BY <1>1
  <2>2. q \in public /\ (e = V!Now(q) \/ (q \in due /\ e.mine = cast[q]))
    <3>1. V!Shows([x \in {q} |-> e], q)
      BY <1>2, PartsAssumption DEF PartsAssumption, V!VotingAssumption, V!Shows
    <3> QED BY <2>1, <3>1 DEF V!Current
  <2> QED BY <1>1, <1>6, <2>1, <2>2 DEF V!Current, V!Now
<1>9. \A p \in VotedQuestions : p \notin doubt' /\ p # q => p \notin doubt
  BY <1>1
<1>10. OwnVotes'
  <2> SUFFICES ASSUME NEW p \in VotedQuestions, p \notin doubt', Quiet(p)', V!Shows(list'.data, p)
               PROVE  list'.data[p].mine = cast[p]
    BY <1>1 DEF OwnVotes
  <2>1. CASE p = q
    <3>1. V!Current(list.data, q)' /\ V!Shows(list.data, q)'
      BY <1>8, <2>1
    <3>2. list'.data[q].mine = cast'[q]
      BY <1>2, <1>7, <3>1, NowOK DEF V!Current, V!Now, V!Entry
    <3> QED BY <1>1, <2>1, <3>2
  <2>2. CASE p # q
    BY <1>0, <1>3, <1>6, <1>9, <2>2 DEF VoteInv, OwnVotes
  <2> QED BY <2>1, <2>2
<1>11. ListCurrent'
  <2> SUFFICES ASSUME V!Idle(list'), NEW p \in VotedQuestions, p \notin doubt', Quiet(p)'
               PROVE  V!Current(list.data, p)'
    BY DEF ListCurrent, V!Idle
  <2>1. CASE p = q
    BY <1>8, <2>1
  <2>2. CASE p # q
    <3>1. V!Current(d, p)
      BY <1>0, <1>3, <1>5, <1>9, <2>2 DEF VoteInv, ListCurrent
    <3> QED BY <1>1, <1>6, <2>2, <3>1 DEF V!Current, V!Now
  <2> QED BY <2>1, <2>2
<1> QED BY <1>3, <1>7, <1>10, <1>11 DEF VoteInv

(* What replaces the whole list is as current as the doubt says.                  *)
LEMMA NewList ==
    ASSUME VoteTypes', \A p \in VotedQuestions \ doubt' : V!Current(list.data, p)'
    PROVE  OwnVotes' /\ ListCurrent'
<1>1. ASSUME NEW p \in VotedQuestions \ doubt', V!Shows(list'.data, p)
      PROVE list'.data[p].mine = cast'[p]
  <2>1. V!Current(list.data, p)'
    BY <1>1
  <2>2. V!Now(p)'.mine = cast'[p]
    BY DEF V!Now, V!Entry
  <2> QED BY <1>1, <2>1, <2>2 DEF V!Current
<1>2. OwnVotes'
  BY <1>1 DEF OwnVotes, V!Shows
<1>3. ListCurrent'
  BY DEF ListCurrent
<1> QED BY <1>2, <1>3

LEMMA VoteFailsKeeps == ASSUME VoteInv, NEW s \in VoteSlots, V!VoteFails(s) PROVE VoteInv'
<1> DEFINE d == req[s].previous
<1>1. /\ req[s].at = "failed" /\ req' = V!Freed(s) /\ votingId' = none
      /\ list' = V!Written(list, d) /\ doubt' = doubt \cup V!OldIn(d)
      /\ UNCHANGED <<public, cast, others, due, asking>>
  BY DEF V!VoteFails, V!RolledBack, V!served
<1>2. d \in VoteLists \cup {NoData} /\ list \in V!Queries(VoteLists)
  BY DEF VoteInv, VoteTypes, ReqTypes, VoteReqs
<1>3. ReqTypes' /\ Held' /\ Sure'
  BY <1>1, FreedKeeps
<1> HIDE DEF d
<1>4. list' \in V!Queries(VoteLists) /\ list'.data = d
  BY <1>1, <1>2, VoteCached
<1>5. VoteTypes'
  BY <1>1, <1>3, <1>4, OldType DEF VoteInv, VoteTypes
<1>6. \A p \in VotedQuestions \ doubt' : V!Current(list.data, p)'
  BY <1>1, <1>4, NotOld DEF V!Current, V!Now
<1> QED BY <1>3, <1>5, <1>6, NewList DEF VoteInv

LEMMA AsksKeep == ASSUME VoteInv, V!Ask \/ V!AskFails \/ V!AskSucceeds PROVE VoteInv'
<1>1. /\ UNCHANGED <<public, cast, others, due, votingId, req, doubt>> /\ asking' \in BOOLEAN
      /\ list' = list \/ list' = V!Refetched(list)
  BY DEF V!Ask, V!AskFails, V!AskSucceeds, V!served
<1>2. /\ list' \in V!Queries(VoteLists) /\ list'.data = list.data /\ (V!Idle(list') => V!Idle(list))
  BY <1>1, VoteCached DEF VoteInv, VoteTypes
<1>3. VoteTypes'
  BY <1>1, <1>2 DEF VoteInv, VoteTypes, ReqTypes
<1>4. OwnVotes'
  BY <1>1, <1>2 DEF VoteInv, OwnVotes, Quiet
<1>5. ListCurrent'
  BY <1>1, <1>2 DEF VoteInv, ListCurrent, Quiet, V!Current, V!Now, V!Idle
<1> QED BY <1>1, <1>3, <1>4, <1>5, ListStep

LEMMA FetchesKeep ==
    ASSUME VoteInv, V!PollList \/ V!AnswerList \/ V!StoreList \/ V!ListFails PROVE VoteInv'
<1>1. UNCHANGED <<public, cast, others, due, votingId, req, asking>>
  BY DEF V!PollList, V!AnswerList, V!StoreList, V!ListFails, V!served
<1>2. list \in V!Queries(VoteLists) /\ list.reply \in VoteLists \cup {NoData}
  BY DEF VoteInv, VoteTypes, V!Queries
<1>3. CASE V!PollList \/ V!AnswerList
  <2>1. UNCHANGED doubt /\ (list' = V!Fetched(list) \/ list' = V!Answered(list, V!Listing))
    BY <1>3 DEF V!PollList, V!AnswerList
  <2>2. list' \in V!Queries(VoteLists) /\ list'.data = list.data /\ ~ V!Idle(list')
    <3>1. CASE list' = V!Fetched(list)
      BY <1>2, <3>1, VoteCached
    <3>2. CASE list' = V!Answered(list, V!Listing)
      BY <1>2, <3>2, VoteCached, ListingOK DEF VoteInv
    <3> QED BY <2>1, <3>1, <3>2
  <2>3. VoteTypes'
    BY <1>1, <2>1, <2>2 DEF VoteInv, VoteTypes, ReqTypes
  <2>4. OwnVotes' /\ ListCurrent'
    BY <1>1, <2>1, <2>2 DEF VoteInv, OwnVotes, ListCurrent, Quiet, V!Idle
  <2> QED BY <1>1, <2>3, <2>4, ListStep
<1>4. CASE V!StoreList
  <2>1. list' = V!Stored(list) /\ doubt' = V!OldIn(list.reply)
    BY <1>4 DEF V!StoreList
  <2>2. list' \in V!Queries(VoteLists) /\ list'.data = list.reply
    BY <1>2, <2>1, VoteCached
  <2>3. VoteTypes'
    BY <1>1, <2>1, <2>2, OldType DEF VoteInv, VoteTypes, ReqTypes
  <2>4. \A p \in VotedQuestions \ doubt' : V!Current(list.data, p)'
    BY <1>1, <2>1, <2>2, NotOld DEF V!Current, V!Now
  <2>5. OwnVotes' /\ ListCurrent'
    BY <2>3, <2>4, NewList
  <2> QED BY <1>1, <2>3, <2>5, ListStep
<1>5. CASE V!ListFails
  <2>1. list' = V!Cancelled(list) /\ doubt' = doubt \cup V!OldIn(list.data)
    BY <1>5 DEF V!ListFails
  <2>2. list' \in V!Queries(VoteLists) /\ list'.data = list.data
    BY <1>2, <2>1, VoteCached
  <2>3. VoteTypes'
    BY <1>1, <2>1, <2>2, OldType DEF VoteInv, VoteTypes, ReqTypes
  <2>4. \A p \in VotedQuestions \ doubt' : V!Current(list.data, p)'
    BY <1>1, <2>1, <2>2, NotOld DEF V!Current, V!Now
  <2>5. OwnVotes' /\ ListCurrent'
    BY <2>3, <2>4, NewList
  <2> QED BY <1>1, <2>3, <2>5, ListStep
<1> QED BY <1>3, <1>4, <1>5

LEMMA WorldKeeps ==
    ASSUME VoteInv, NEW q \in VotedQuestions,
           V!OthersVote(q) \/ V!Approve(q) \/ V!Withdraw(q) \/ V!LoseBroadcast(q) \/ V!Broadcast(q)
    PROVE  VoteInv'
<1>1. UNCHANGED <<cast, votingId, req, asking>>
  BY DEF V!OthersVote, V!Approve, V!Withdraw, V!LoseBroadcast, V!Broadcast, V!panel
<1>2. list \in V!Queries(VoteLists) /\ list.data \in VoteLists \cup {NoData}
  BY DEF VoteInv, VoteTypes, V!Queries
<1>3. CASE V!OthersVote(q)
  <2>1. /\ q \in public /\ others' = [others EXCEPT ![q] = @ + 1] /\ due' = due \cup {q}
        /\ UNCHANGED <<public, list, doubt>>
    BY <1>3 DEF V!OthersVote, V!panel
  <2>2. VoteTypes'
    BY <1>1, <2>1 DEF VoteInv, VoteTypes, ReqTypes
  <2>3. OwnVotes'
    BY <1>1, <2>1 DEF VoteInv, OwnVotes, Quiet
  <2>4. ASSUME NEW p \in VotedQuestions, V!Current(list.data, p) PROVE V!Current(list.data, p)'
    BY <1>1, <2>1, <2>4, CurrentMine DEF VoteInv, VoteTypes, V!Current, V!Now, V!Entry
  <2>5. ListCurrent'
    BY <1>1, <2>1, <2>4 DEF VoteInv, ListCurrent, Quiet, V!Idle
  <2> QED BY <1>1, <2>2, <2>3, <2>5, ListStep
<1>4. CASE V!Approve(q)
  <2>1. /\ public' = public \cup {q} /\ list' = V!Refetched(list) /\ UNCHANGED <<others, due, doubt>>
    BY <1>4 DEF V!Approve
  <2>2. list' \in V!Queries(VoteLists) /\ list'.data = list.data /\ ~ V!Idle(list')
    BY <1>2, <2>1, VoteCached
  <2>3. VoteTypes'
    BY <1>1, <2>1, <2>2 DEF VoteInv, VoteTypes, ReqTypes
  <2>4. OwnVotes' /\ ListCurrent'
    BY <1>1, <2>1, <2>2 DEF VoteInv, OwnVotes, ListCurrent, Quiet, V!Idle
  <2> QED BY <1>1, <2>3, <2>4, ListStep
<1>5. CASE V!Withdraw(q) \/ V!LoseBroadcast(q)
  <2>1. /\ due' = due \ {q} /\ doubt' = doubt \cup {q} /\ UNCHANGED <<others, list>>
        /\ public' = public \/ public' = public \ {q}
    BY <1>5 DEF V!Withdraw, V!LoseBroadcast, V!panel
  <2>2. VoteTypes'
    BY <1>1, <2>1 DEF VoteInv, VoteTypes, ReqTypes
  <2>3. OwnVotes'
    BY <1>1, <2>1 DEF VoteInv, OwnVotes, Quiet
  <2>4. ListCurrent'
    BY <1>1, <2>1 DEF VoteInv, ListCurrent, Quiet, V!Current, V!Now, V!Idle
  <2> QED BY <1>1, <2>2, <2>3, <2>4, ListStep
<1>6. CASE V!Broadcast(q)
  <2> DEFINE e == [V!Now(q) EXCEPT !.mine = list.data[q].mine]
             d == V!Counted(list.data, q)
  <2>1. /\ q \in due /\ due' = due \ {q} /\ UNCHANGED <<public, others, doubt>>
        /\ list' = IF V!Loaded(list) THEN V!Written(list, d) ELSE list
    BY <1>6 DEF V!Broadcast
  <2>2. /\ d \in VoteLists \cup {NoData} /\ \A p : V!Shows(d, p) <=> V!Shows(list.data, p)
        /\ \A p : V!Shows(list.data, p) /\ p # q => d[p] = list.data[p]
        /\ V!Shows(list.data, q) => d[q] = e /\ d[q].mine = list.data[q].mine
    <3>1. CASE V!Shows(list.data, q)
      <4>1. e \in V!Entries /\ e.mine = list.data[q].mine
        BY <1>2, <3>1, ShowsWhere, NowOK DEF VoteInv, V!Entries
      <4>2. d = V!Patch(list.data, q, e)
        BY <3>1 DEF V!Counted
      <4> HIDE DEF e, d
      <4> QED BY <1>2, <4>1, <4>2, VotePatch
    <3>2. CASE ~ V!Shows(list.data, q)
      BY <1>2, <3>2 DEF V!Counted
    <3> QED BY <3>1, <3>2
  <2> HIDE DEF d
  <2>3. /\ list' \in V!Queries(VoteLists) /\ (V!Idle(list') <=> V!Idle(list))
        /\ list'.data = IF V!Loaded(list) THEN d ELSE list.data
    BY <1>2, <2>1, <2>2, VoteCached
  <2>4. /\ \A p : V!Shows(list'.data, p) <=> V!Shows(list.data, p)
        /\ \A p : V!Shows(list.data, p) /\ p # q => list'.data[p] = list.data[p]
        /\ V!Shows(list.data, q) => list'.data[q] = e /\ list'.data[q].mine = list.data[q].mine
    BY <2>2, <2>3 DEF V!Shows, V!Loaded
  <2> HIDE DEF e
  <2>5. VoteTypes'
    BY <1>1, <2>1, <2>3 DEF VoteInv, VoteTypes, ReqTypes
  <2>6. OwnVotes'
    BY <1>1, <2>1, <2>4 DEF VoteInv, OwnVotes, Quiet
  <2>7. ASSUME NEW p \in VotedQuestions, V!Current(list.data, p) PROVE V!Current(list.data, p)'
    <3>1. CASE p # q
      BY <1>1, <2>1, <2>4, <2>7, <3>1 DEF V!Current, V!Now
    <3>2. CASE p = q
      <4>1. q \in public /\ V!Shows(list.data, q) /\ list.data[q].mine = cast[q]
        BY <2>1, <2>7, <3>2, CurrentMine DEF VoteInv, VoteTypes, V!Current
      <4>2. e = V!Now(q)
        BY <4>1, NowOK DEF VoteInv, e, V!Entries
      <4> QED BY <1>1, <2>1, <2>4, <3>2, <4>1, <4>2 DEF V!Current, V!Now
    <3> QED BY <3>1, <3>2
  <2>8. ListCurrent'
    BY <1>1, <2>1, <2>3, <2>7 DEF VoteInv, ListCurrent, Quiet, V!Idle
  <2> QED BY <1>1, <2>5, <2>6, <2>8, ListStep
<1> QED BY <1>3, <1>4, <1>5, <1>6

LEMMA VoteNext == VoteInv /\ [V!Next]_V!vars => VoteInv'
<1> SUFFICES ASSUME VoteInv, [V!Next]_V!vars PROVE VoteInv'
  OBVIOUS
<1>1. CASE V!Page
  BY <1>1, VoteSucceedsKeeps, VoteFailsKeeps, AsksKeep, FetchesKeep DEF V!Page
<1>2. CASE V!Server
  BY <1>2, ServeVoteKeeps, WorldKeeps, FetchesKeep DEF V!Server
<1>3. CASE V!World
  BY <1>3, WorldKeeps, LoseVoteKeeps, VoteKeeps, AsksKeep, FetchesKeep DEF V!World
<1>4. CASE V!PollList
  BY <1>4, FetchesKeep
<1>5. CASE UNCHANGED V!vars
  BY <1>5 DEF V!vars, V!served, V!panel, VoteInv, VoteTypes, ReqTypes, OwnVotes,
              ListCurrent, Held, Sure,
              Quiet, V!Current, V!Now, V!Idle, V!Toggle
<1> QED BY <1>1, <1>2, <1>3, <1>4, <1>5 DEF V!Next

LEMMA VoteGives == VoteInv => V!TypeOK /\ V!VotesAtRest /\ V!VoteMeansItsButton
<1> SUFFICES ASSUME VoteInv PROVE V!TypeOK /\ V!VotesAtRest /\ V!VoteMeansItsButton
  OBVIOUS
<1>1. V!VoteMeansItsButton
  BY VoteNo DEF VoteInv, Sure, V!VoteMeansItsButton
<1>2. V!VotesAtRest
  <2> SUFFICES ASSUME V!AtRest, NEW q \in VotedQuestions, q \notin doubt
               PROVE  IF q \in public THEN V!Shows(list.data, q) /\ list.data[q] = V!Now(q)
                      ELSE ~ V!Shows(list.data, q)
    BY DEF V!VotesAtRest
  <2>1. Quiet(q)
    BY VoteNo DEF V!AtRest, Quiet
  <2>2. V!Current(list.data, q)
    BY <2>1 DEF VoteInv, ListCurrent, V!AtRest
  <2> QED BY <2>2 DEF V!AtRest, V!Current
<1>3. list.fetch \in V!Fetches /\ list.stale \in BOOLEAN
      /\ list.data \in VoteLists \cup {NoData} /\ list.reply \in VoteLists \cup {NoData}
  BY DEF VoteInv, VoteTypes, V!Queries
<1>4. \A data \in {list.data, list.reply} \ {NoData} :
         DOMAIN data \subseteq VotedQuestions /\ \A q \in DOMAIN data : data[q] \in V!Entries
  BY <1>3 DEF VoteLists
<1>5. V!TypeOK
  BY <1>3, <1>4 DEF VoteInv, VoteTypes, ReqTypes, V!TypeOK
<1> QED BY <1>1, <1>2, <1>5

-----------------------------------------------------------------------------
(* The answer forms.                                                           *)
(* An item is taken out of a list, and put in.                                     *)
LEMMA RemovedAt ==
    ASSUME NEW X, NEW s \in Seq(X), NEW n \in 1 .. Len(s)
    PROVE  /\ F!RemoveAt(s, n) \in Seq(X) /\ Len(F!RemoveAt(s, n)) = Len(s) - 1
           /\ \A i \in 1 .. Len(s) - 1 : F!RemoveAt(s, n)[i] = IF i < n THEN s[i] ELSE s[i + 1]
<1>1. Len(s) \in Nat /\ n \in Int /\ \A i \in 1 .. Len(s) : s[i] \in X
  BY LenProperties, ElementOfSeq
<1> DEFINE a == SubSeq(s, 1, n - 1)
           b == SubSeq(s, n + 1, Len(s))
<1>2. /\ a \in Seq(X) /\ Len(a) = n - 1 /\ \A i \in 1 .. n - 1 : a[i] = s[i]
  BY <1>1, SubSeqProperties
<1>3. /\ b \in Seq(X) /\ Len(b) = Len(s) - n /\ \A i \in 1 .. Len(s) - n : b[i] = s[n + i]
  BY <1>1, SubSeqProperties
<1>4. F!RemoveAt(s, n) = a \o b
  BY DEF F!RemoveAt
<1> HIDE DEF a, b
<1>5. /\ a \o b \in Seq(X) /\ Len(a \o b) = Len(a) + Len(b)
      /\ \A i \in 1 .. Len(a) + Len(b) : (a \o b)[i] = IF i <= Len(a) THEN a[i] ELSE b[i - Len(a)]
  BY <1>2, <1>3, ConcatProperties
<1>6. ASSUME NEW i \in 1 .. Len(s) - 1 PROVE (a \o b)[i] = IF i < n THEN s[i] ELSE s[i + 1]
  <2>1. CASE i < n
    BY <1>1, <1>2, <1>3, <1>5, <2>1
  <2>2. CASE ~ (i < n)
    <3>1. (a \o b)[i] = b[i - (n - 1)]
      BY <1>1, <1>2, <1>3, <1>5, <2>2
    <3>2. i - (n - 1) \in 1 .. Len(s) - n /\ n + (i - (n - 1)) = i + 1
      BY <1>1, <2>2
    <3> QED BY <1>3, <2>2, <3>1, <3>2
  <2> QED BY <2>1, <2>2
<1> QED BY <1>1, <1>2, <1>3, <1>4, <1>5, <1>6

LEMMA InsertedAt ==
    ASSUME NEW X, NEW s \in Seq(X), NEW n \in 1 .. Len(s) + 1, NEW e \in X
    PROVE  /\ F!InsertAt(s, n, e) \in Seq(X) /\ Len(F!InsertAt(s, n, e)) = Len(s) + 1
           /\ \A i \in 1 .. Len(s) + 1 :
                F!InsertAt(s, n, e)[i] = IF i < n THEN s[i] ELSE IF i = n THEN e ELSE s[i - 1]
<1>1. Len(s) \in Nat /\ n \in Int /\ \A i \in 1 .. Len(s) : s[i] \in X
  BY LenProperties, ElementOfSeq
<1> DEFINE a == SubSeq(s, 1, n - 1)
           b == SubSeq(s, n, Len(s))
           c == a \o <<e>>
<1>2. /\ a \in Seq(X) /\ Len(a) = n - 1 /\ \A i \in 1 .. n - 1 : a[i] = s[i]
  BY <1>1, SubSeqProperties
<1>3. /\ b \in Seq(X) /\ Len(b) = Len(s) - n + 1 /\ \A i \in 1 .. Len(s) - n + 1 : b[i] = s[n + i - 1]
  BY <1>1, SubSeqProperties
<1>4. F!InsertAt(s, n, e) = c \o b
  BY DEF F!InsertAt
<1>5. <<e>> \in Seq(X) /\ Len(<<e>>) = 1 /\ <<e>>[1] = e
  OBVIOUS
<1> HIDE DEF a, b
<1>6. /\ c \in Seq(X) /\ Len(c) = n /\ \A i \in 1 .. n : c[i] = IF i < n THEN s[i] ELSE e
  <2>1. /\ c \in Seq(X) /\ Len(c) = Len(a) + 1
        /\ \A i \in 1 .. Len(a) + 1 : c[i] = IF i <= Len(a) THEN a[i] ELSE <<e>>[i - Len(a)]
    BY <1>2, <1>5, ConcatProperties
  <2> HIDE DEF c
  <2>2. Len(c) = n
    BY <1>1, <1>2, <2>1
  <2>3. ASSUME NEW i \in 1 .. n PROVE c[i] = IF i < n THEN s[i] ELSE e
    <3>1. CASE i < n
      BY <1>1, <1>2, <2>1, <3>1
    <3>2. CASE i = n
      <4>1. ~ (i <= Len(a)) /\ i - Len(a) = 1 /\ i \in 1 .. Len(a) + 1
        BY <1>1, <1>2, <3>2
      <4>2. c[i] = <<e>>[i - Len(a)]
        BY <2>1, <4>1
      <4>3. c[i] = e
        BY <1>5, <4>1, <4>2
      <4> QED BY <1>1, <3>2, <4>3
    <3> QED BY <1>1, <3>1, <3>2
  <2> QED BY <2>1, <2>2, <2>3
<1> HIDE DEF c
<1>7. /\ c \o b \in Seq(X) /\ Len(c \o b) = Len(c) + Len(b)
      /\ \A i \in 1 .. Len(c) + Len(b) : (c \o b)[i] = IF i <= Len(c) THEN c[i] ELSE b[i - Len(c)]
  BY <1>3, <1>6, ConcatProperties
<1>8. ASSUME NEW i \in 1 .. Len(s) + 1
      PROVE  (c \o b)[i] = IF i < n THEN s[i] ELSE IF i = n THEN e ELSE s[i - 1]
  <2>1. CASE i <= n
    BY <1>1, <1>3, <1>6, <1>7, <2>1
  <2>2. CASE i > n
    <3>1. (c \o b)[i] = b[i - n]
      BY <1>1, <1>3, <1>6, <1>7, <2>2
    <3>2. i - n \in 1 .. Len(s) - n + 1 /\ n + (i - n) - 1 = i - 1
      BY <1>1, <2>2
    <3> QED BY <1>3, <2>2, <3>1, <3>2
  <2>3. i <= n \/ i > n
    BY <1>1
  <2> QED BY <2>1, <2>2, <2>3
<1> QED BY <1>1, <1>3, <1>4, <1>6, <1>7, <1>8

(* A drag keeps the options, each once.                                           *)
LEMMA Reordered ==
    ASSUME NEW X, NEW s \in Seq(X), NEW from \in Nat, NEW to \in Nat
    PROVE  /\ F!ReorderIds(s, from, to) \in Seq(X) /\ Len(F!ReorderIds(s, from, to)) = Len(s)
           /\ F!ToSet(F!ReorderIds(s, from, to)) = F!ToSet(s)
<1>1. CASE from = to \/ {from, to} \ (1 .. Len(s)) # {}
  BY <1>1 DEF F!ReorderIds
<1>2. CASE ~ (from = to \/ {from, to} \ (1 .. Len(s)) # {})
  <2> DEFINE u == F!RemoveAt(s, from)
             e == s[from]
             t == F!InsertAt(u, to, e)
  <2>1. /\ Len(s) \in Nat /\ \A i \in 1 .. Len(s) : s[i] \in X
        /\ from \in 1 .. Len(s) /\ to \in 1 .. Len(s) /\ F!ReorderIds(s, from, to) = t
    BY <1>2, LenProperties, ElementOfSeq DEF F!ReorderIds
  <2>2. /\ u \in Seq(X) /\ Len(u) = Len(s) - 1
        /\ \A i \in 1 .. Len(s) - 1 : u[i] = IF i < from THEN s[i] ELSE s[i + 1]
    BY <2>1, RemovedAt
  <2> HIDE DEF u
  <2>3. to \in 1 .. Len(u) + 1 /\ e \in X
    BY <2>1, <2>2
  <2> HIDE DEF e
  <2>4. /\ t \in Seq(X) /\ Len(t) = Len(u) + 1
        /\ \A i \in 1 .. Len(u) + 1 :
             t[i] = IF i < to THEN u[i] ELSE IF i = to THEN e ELSE u[i - 1]
    BY <2>2, <2>3, InsertedAt
  <2> HIDE DEF t
  <2>5. Len(t) = Len(s)
    BY <2>1, <2>2, <2>4
  <2>6. ASSUME NEW i \in 1 .. Len(s) PROVE \E j \in 1 .. Len(s) : t[i] = s[j]
    <3>1. \A k \in 1 .. Len(s) - 1 : \E j \in 1 .. Len(s) : u[k] = s[j]
      BY <2>1, <2>2
    <3>2. i < to => i \in 1 .. Len(s) - 1
      BY <2>1
    <3>3. i > to => i - 1 \in 1 .. Len(s) - 1
      BY <2>1
    <3> QED BY <2>1, <2>2, <2>4, <3>1, <3>2, <3>3 DEF e
  <2>7. ASSUME NEW j \in 1 .. Len(s) PROVE \E i \in 1 .. Len(s) : s[j] = t[i]
    <3>1. CASE j = from
      <4>1. t[to] = s[from]
        BY <2>1, <2>2, <2>4 DEF e
      <4> QED BY <2>1, <3>1, <4>1
    <3>2. CASE j # from
      <4>1. \E k \in 1 .. Len(s) - 1 : u[k] = s[j]
        <5>1. CASE j < from
          BY <2>1, <2>2, <5>1
        <5>2. CASE j > from
          <6>1. j - 1 \in 1 .. Len(s) - 1 /\ ~ (j - 1 < from) /\ (j - 1) + 1 = j
            BY <2>1, <5>2
          <6> QED BY <2>2, <6>1
        <5> QED BY <2>1, <3>2, <5>1, <5>2
      <4>2. PICK k \in 1 .. Len(s) - 1 : u[k] = s[j]
        BY <4>1
      <4>3. CASE k < to
        <5>1. k \in 1 .. Len(s) /\ k \in 1 .. Len(u) + 1
          BY <2>1, <2>2
        <5>2. t[k] = u[k]
          BY <2>4, <4>3, <5>1
        <5> QED BY <4>2, <5>1, <5>2
      <4>4. CASE k >= to
        <5>1. k + 1 \in 1 .. Len(s) /\ ~ (k + 1 < to) /\ k + 1 # to /\ (k + 1) - 1 = k
          BY <2>1, <4>4
        <5>2. t[k + 1] = u[k]
          BY <2>1, <2>2, <2>4, <5>1
        <5> QED BY <4>2, <5>1, <5>2
      <4> QED BY <2>1, <4>3, <4>4
    <3> QED BY <3>1, <3>2
  <2>8. DOMAIN s = 1 .. Len(s) /\ DOMAIN t = 1 .. Len(s)
    BY <2>4, <2>5, LenProperties
  <2>9. F!ToSet(t) = F!ToSet(s)
    <3>1. F!ToSet(t) \subseteq F!ToSet(s)
      BY <2>6, <2>8 DEF F!ToSet
    <3>2. F!ToSet(s) \subseteq F!ToSet(t)
      BY <2>7, <2>8 DEF F!ToSet
    <3> QED BY <3>1, <3>2
  <2> QED BY <2>1, <2>4, <2>5, <2>9
<1> QED BY <1>1, <1>2

(* Marks, and what is stored of a poll.                                           *)
Marks == [of : FormPolls, n : Nat]
Rows  == [poll : FormPolls, answer : SUBSET Marks]
Sent  == [poll : FormPolls \cup {none}, answer : SUBSET Marks, at : {"none", "sent", "taken", "refused"}]

FormTypes ==
    /\ run \in FormPolls \cup {none} /\ page \in cached \cup {none} /\ cached \subseteq FormPolls
    /\ mine \subseteq cached /\ held \in Nat /\ entered \in Nat
    /\ stored \in SUBSET Rows /\ marks \in SUBSET Marks
    /\ callForms \in Sent /\ (callForms.at = "none" \/ callForms.poll \in FormPolls)
    /\ carriedForms \in BOOLEAN
    /\ page = none => marks = {}

(* What a form holds, sends or has stored is of its kind of poll, and of its poll   *)
(* unless a form was carried over.                                               *)
KindOK(p, given) == \A m \in given : FormKind[m.of] = FormKind[p]
Meant(p, given)  == \A m \in given : m.of = p

OfItsKind ==
    /\ page # none => KindOK(page, marks) /\ (carriedForms \/ Meant(page, marks))
    /\ callForms.at # "none" => KindOK(callForms.poll, callForms.answer) /\ (carriedForms \/ Meant(callForms.poll, callForms.answer))
    /\ \A r \in stored : KindOK(r.poll, r.answer)

(* The ranking lists the options of the poll shown.                               *)
Ranked ==
    IF page # none /\ FormKind[page] = "ranking"
    THEN order \in Seq(F!MarksOf(page)) /\ Len(order) = FormWidth[page] /\ F!ToSet(order) = F!MarksOf(page)
    ELSE order = <<>>

(* A text is in the form, under way or stored, in one place only.                  *)
Old(given) == \A m \in given : FormKind[m.of] \in F!Texts => m.n <= entered
Apart(a, b) == \A m \in a : FormKind[m.of] \in F!Texts => m \notin b
InOnePlace ==
    /\ Old(marks) /\ Old(callForms.answer) /\ \A r \in stored : Old(r.answer)
    /\ \A r \in stored : Apart(marks, r.answer)
    /\ callForms.at = "sent" => Apart(marks, callForms.answer) /\ \A r \in stored : Apart(callForms.answer, r.answer)
    /\ \A r, s \in stored : r # s => Apart(r.answer, s.answer)

FormInv == FormTypes /\ OfItsKind /\ Ranked /\ InOnePlace /\ F!MeantForItsPoll

LEMMA FormFacts ==
    /\ none \notin FormPolls /\ \A p \in FormPolls : FormKind[p] \in F!Kinds /\ FormWidth[p] \in Nat
    /\ F!NoCall \in Sent /\ F!NoCall.at = "none" /\ F!NoCall.answer = {}
  BY PartsAssumption DEF PartsAssumption, F!FormAssumption, F!NoCall, Sent

LEMMA ListedOK ==
    ASSUME NEW p \in FormPolls
    PROVE  F!Listed(p) \in Seq(F!MarksOf(p)) /\ Len(F!Listed(p)) = FormWidth[p] /\ F!ToSet(F!Listed(p)) = F!MarksOf(p)
<1>1. FormWidth[p] \in Nat
  BY FormFacts
<1>2. \A n \in 1 .. FormWidth[p] : F!Mark(p, n) \in F!MarksOf(p)
  BY DEF F!MarksOf
<1>3. F!Listed(p) \in Seq(F!MarksOf(p)) /\ Len(F!Listed(p)) = FormWidth[p]
  BY <1>1, <1>2 DEF F!Listed
<1>4. DOMAIN F!Listed(p) = 1 .. FormWidth[p] /\ \A n \in 1 .. FormWidth[p] : F!Listed(p)[n] = F!Mark(p, n)
  BY DEF F!Listed
<1>5. F!ToSet(F!Listed(p)) = F!MarksOf(p)
  BY <1>4 DEF F!ToSet, F!MarksOf
<1> QED BY <1>3, <1>5

LEMMA OwnMarks ==
    ASSUME NEW p \in FormPolls, NEW m \in F!MarksOf(p) PROVE m \in Marks /\ m.of = p
<1>1. FormWidth[p] \in Nat
  BY FormFacts
<1> QED BY <1>1 DEF F!MarksOf, F!Mark, Marks

LEMMA FormInit == F!Init => FormInv
<1> SUFFICES ASSUME F!Init PROVE FormInv
  OBVIOUS
<1>1. stored = {} /\ marks = {} /\ callForms = F!NoCall /\ page = none /\ order = <<>> /\ mine = {}
      /\ cached = {} /\ run = none /\ held = 0 /\ entered = 0 /\ carriedForms = FALSE
  BY DEF F!Init
<1>2. FormTypes
  BY <1>1, FormFacts DEF FormTypes
<1>3. OfItsKind /\ Ranked /\ InOnePlace /\ F!MeantForItsPoll
  BY <1>1, FormFacts DEF OfItsKind, Ranked, InOnePlace, F!MeantForItsPoll, Old, Apart
<1> QED BY <1>2, <1>3 DEF FormInv

(* The page goes to a poll it has cached.                                         *)
LEMMA ShowingKeeps ==
    ASSUME FormInv, NEW p \in FormPolls, F!Showing(p), p \in cached', cached \subseteq cached', cached' \subseteq FormPolls,
           mine' \subseteq cached', UNCHANGED <<run, stored, callForms, entered>>
    PROVE  FormInv'
<1>1. /\ page' = p /\ order' = F!RankingFor(p) /\ marks' = (IF F!Kept(p) THEN marks ELSE {})
      /\ held' = (IF F!Kept(p) THEN held ELSE 0) /\ carriedForms' = (carriedForms \/ (F!Kept(p) /\ marks # {}))
  BY DEF F!Showing
<1>2. carriedForms' \in BOOLEAN /\ (carriedForms => carriedForms')
  BY <1>1
<1>3. p # none /\ F!Kept(p) = (page # none /\ FormKind[page] = FormKind[p]) /\ marks' \subseteq marks
  BY <1>1, FormFacts DEF F!Kept
<1>4. FormTypes'
  BY <1>1, <1>2, <1>3 DEF FormInv, FormTypes
<1>5. OfItsKind'
  <2>1. KindOK(p, marks')
    BY <1>1, <1>3 DEF FormInv, OfItsKind, KindOK
  <2>2. carriedForms' \/ marks' = {}
    BY <1>1
  <2>3. carriedForms' \/ Meant(p, marks')
    BY <2>2 DEF Meant
  <2>4. callForms.at # "none" => KindOK(callForms.poll, callForms.answer) /\ (carriedForms' \/ Meant(callForms.poll, callForms.answer))
    BY <1>2 DEF FormInv, OfItsKind
  <2> QED BY <1>1, <2>1, <2>3, <2>4 DEF FormInv, OfItsKind, KindOK, Meant
<1>6. Ranked'
  BY <1>1, <1>3, ListedOK DEF Ranked, F!RankingFor
<1>7. InOnePlace'
  BY <1>3 DEF FormInv, InOnePlace, Old, Apart
<1>8. F!MeantForItsPoll'
  BY <1>2 DEF FormInv, F!MeantForItsPoll
<1> QED BY <1>4, <1>5, <1>6, <1>7, <1>8 DEF FormInv

LEMMA MovesKeep ==
    ASSUME FormInv, F!Follows \/ F!Loads \/ F!Refetches \/ \E p \in FormPolls \cup {none} : F!Runs(p)
    PROVE FormInv'
<1>1. CASE F!Follows
  <2>1. UNCHANGED <<run, stored, cached, mine, callForms, entered>>
    BY <1>1 DEF F!Follows, F!server
  <2>2. CASE run \in cached
    BY <1>1, <2>1, <2>2, ShowingKeeps DEF F!Follows, FormInv, FormTypes
  <2>3. CASE run \notin cached
    <3>1. page' = none /\ marks' = {} /\ order' = <<>> /\ held' = 0 /\ carriedForms' = carriedForms
      BY <1>1, <2>3 DEF F!Follows, F!Unmounted
    <3>2. FormTypes'
      BY <2>1, <3>1 DEF FormInv, FormTypes
    <3>3. OfItsKind' /\ Ranked' /\ F!MeantForItsPoll'
      BY <2>1, <3>1 DEF FormInv, OfItsKind, Ranked, F!MeantForItsPoll, KindOK, Meant
    <3>4. InOnePlace'
      BY <2>1, <3>1 DEF FormInv, InOnePlace, Old, Apart
    <3> QED BY <3>2, <3>3, <3>4 DEF FormInv
  <2> QED BY <2>2, <2>3
<1>2. CASE F!Loads
  <2>1. /\ run \in FormPolls /\ cached' = cached \cup {run} /\ mine' = F!Truth(run) /\ F!Showing(run)
        /\ UNCHANGED <<run, stored, callForms, entered>>
    BY <1>2 DEF F!Loads, F!server, FormInv, FormTypes
  <2>2. mine' \subseteq cached' /\ cached' \subseteq FormPolls
    BY <2>1 DEF F!Truth, FormInv, FormTypes
  <2> QED BY <2>1, <2>2, ShowingKeeps
<1>3. CASE F!Refetches \/ \E p \in FormPolls \cup {none} : F!Runs(p)
  <2>1. /\ UNCHANGED <<stored, page, cached, marks, order, held, callForms, carriedForms, entered>>
        /\ run' \in FormPolls \cup {none} /\ mine' \subseteq cached
    BY <1>3 DEF F!Refetches, F!Runs, F!server, F!form, F!Truth, FormInv, FormTypes
  <2>2. FormTypes'
    BY <2>1 DEF FormInv, FormTypes
  <2>3. OfItsKind' /\ Ranked' /\ F!MeantForItsPoll'
    BY <2>1 DEF FormInv, OfItsKind, Ranked, F!MeantForItsPoll, KindOK, Meant
  <2>4. InOnePlace'
    BY <2>1 DEF FormInv, InOnePlace, Old, Apart
  <2> QED BY <2>2, <2>3, <2>4 DEF FormInv
<1> QED BY <1>1, <1>2, <1>3

(* The form changes: a text that is new is newer than all before.                  *)
LEMMA MarksKeep ==
    ASSUME FormInv, page # none, UNCHANGED <<run, stored, page, cached, mine, callForms, carriedForms, order>>,
           held' \in Nat, entered' \in Nat, entered <= entered',
           marks' \subseteq Marks, KindOK(page, marks'), carriedForms \/ Meant(page, marks'),
           \A m \in marks' : m \in marks \/ FormKind[m.of] \notin F!Texts \/ (m.n = entered' /\ entered < entered')
    PROVE  FormInv'
<1>1. FormTypes'
  BY DEF FormInv, FormTypes
<1>2. OfItsKind' /\ Ranked' /\ F!MeantForItsPoll'
  BY DEF FormInv, OfItsKind, Ranked, F!MeantForItsPoll, KindOK, Meant
<1>3. ASSUME NEW a \in SUBSET Marks, Old(a) PROVE Old(a)'
  <2>1. \A m \in a : m.n \in Nat
    BY DEF Marks
  <2> QED BY <1>3, <2>1 DEF FormInv, FormTypes, Old
<1>4. ASSUME NEW a \in SUBSET Marks, Old(a), Apart(marks, a) PROVE Apart(marks, a)'
  <2> SUFFICES ASSUME NEW m \in marks', FormKind[m.of] \in F!Texts, m \in a PROVE FALSE
    BY DEF Apart
  <2>1. m \notin marks
    BY <1>4 DEF Apart
  <2>2. m.n = entered' /\ entered < entered' /\ m.n <= entered /\ m.n \in Nat
    BY <1>4, <2>1 DEF Old, Marks
  <2> QED BY <2>2 DEF FormInv, FormTypes
<1>5. Old(marks)'
  <2> SUFFICES ASSUME NEW m \in marks', FormKind[m.of] \in F!Texts PROVE m.n <= entered'
    BY DEF Old
  <2>1. CASE m \in marks
    BY <2>1, <1>3 DEF FormInv, InOnePlace, Old, FormTypes
  <2>2. CASE m.n = entered'
    BY <2>2
  <2> QED BY <2>1, <2>2
<1>6. callForms.answer \in SUBSET Marks /\ \A r \in stored : r.answer \in SUBSET Marks
  BY DEF FormInv, FormTypes, Sent, Rows
<1>7. Old(callForms.answer)' /\ \A r \in stored : Old(r.answer)' /\ Apart(marks, r.answer)'
  BY <1>3, <1>4, <1>6 DEF FormInv, InOnePlace, Old
<1>8. callForms.at = "sent" => Apart(marks, callForms.answer)'
  BY <1>4, <1>6 DEF FormInv, InOnePlace
<1>9. InOnePlace'
  BY <1>5, <1>7, <1>8 DEF FormInv, InOnePlace, Old, Apart
<1> QED BY <1>1, <1>2, <1>9 DEF FormInv

LEMMA RankKeeps ==
    ASSUME FormInv, UNCHANGED <<run, stored, page, cached, mine, callForms, carriedForms, marks, entered>>,
           held' \in Nat, Ranked'
    PROVE  FormInv'
<1>1. FormTypes' /\ OfItsKind' /\ F!MeantForItsPoll'
  BY DEF FormInv, FormTypes, OfItsKind, F!MeantForItsPoll, KindOK, Meant
<1>2. InOnePlace'
  BY DEF FormInv, InOnePlace, Old, Apart
<1> QED BY <1>1, <1>2 DEF FormInv

LEMMA EditsKeep ==
    ASSUME FormInv,
           \/ \E m : F!MultipleChoicePoll(m) \/ F!RatingPoll(m) \/ F!RemoveWord(m)
           \/ F!Enters \/ F!ClearWords
    PROVE  FormInv'
<1>1. /\ page \in FormPolls /\ page # none
      /\ UNCHANGED <<run, stored, page, cached, mine, callForms, carriedForms, order, held>>
  BY DEF F!MultipleChoicePoll, F!RatingPoll, F!RemoveWord, F!Enters, F!ClearWords, F!Edit,
         F!CanAnswer, F!server,
         FormInv, FormTypes
<1>2. /\ held' \in Nat /\ entered \in Nat /\ marks \subseteq Marks /\ KindOK(page, marks)
      /\ (carriedForms \/ Meant(page, marks))
  BY <1>1 DEF FormInv, FormTypes, OfItsKind
<1>3. CASE \E m : F!MultipleChoicePoll(m) \/ F!RatingPoll(m)
  <2>1. PICK m \in F!MarksOf(page) : /\ FormKind[page] \notin F!Texts /\ marks' \subseteq marks \cup {m}
                                  /\ entered' = entered
    BY <1>3 DEF F!MultipleChoicePoll, F!RatingPoll, F!Edit, F!Texts
  <2>2. m \in Marks /\ m.of = page
    BY <1>1, OwnMarks
  <2>3. marks' \subseteq Marks /\ KindOK(page, marks') /\ (carriedForms \/ Meant(page, marks'))
    BY <1>2, <2>1, <2>2 DEF KindOK, Meant
  <2>4. \A x \in marks' : x \in marks \/ FormKind[x.of] \notin F!Texts
    BY <2>1, <2>2
  <2> QED BY <1>1, <1>2, <2>1, <2>3, <2>4, MarksKeep
<1>4. CASE F!ClearWords \/ \E m : F!RemoveWord(m)
  <2>1. marks' \subseteq marks /\ entered' = entered
    BY <1>4 DEF F!ClearWords, F!RemoveWord
  <2>2. marks' \subseteq Marks /\ KindOK(page, marks') /\ (carriedForms \/ Meant(page, marks'))
    BY <1>2, <2>1 DEF KindOK, Meant
  <2> QED BY <1>1, <1>2, <2>1, <2>2, MarksKeep
<1>5. CASE F!Enters
  <2> DEFINE m == F!Mark(page, entered')
  <2>1. entered' = entered + 1 /\ marks' \subseteq marks \cup {m}
    BY <1>5 DEF F!Enters
  <2>2. m \in Marks /\ m.of = page /\ m.n = entered'
    BY <1>1, <1>2, <2>1 DEF F!Mark, Marks
  <2> HIDE DEF m
  <2>3. marks' \subseteq Marks /\ KindOK(page, marks') /\ (carriedForms \/ Meant(page, marks'))
    BY <1>2, <2>1, <2>2 DEF KindOK, Meant
  <2>4. entered' \in Nat /\ entered <= entered' /\ entered < entered'
    BY <1>2, <2>1
  <2>5. \A x \in marks' : x \in marks \/ x.n = entered'
    BY <2>1, <2>2
  <2> QED BY <1>1, <1>2, <2>3, <2>4, <2>5, MarksKeep
<1> QED BY <1>3, <1>4, <1>5

LEMMA DragsKeep ==
    ASSUME FormInv, NEW i \in 1 .. Len(order),
           \/ F!Grip(i) \/ F!FinishDrag(i) \/ \E j \in 1 .. Len(order) : F!MoveByArrow(i, j)
    PROVE  FormInv'
<1>1. /\ page \in FormPolls /\ page # none
      /\ UNCHANGED <<run, stored, page, cached, mine, callForms, carriedForms, marks, entered>>
  BY DEF F!Grip, F!FinishDrag, F!MoveByArrow, F!Edit, F!CanAnswer, F!server, FormInv,
         FormTypes
<1>2. order = <<>> => Len(order) = 0
  BY Zenon, EmptySeq
<1>3. FormKind[page] = "ranking" /\ order \in Seq(F!MarksOf(page)) /\ Len(order) = FormWidth[page]
      /\ F!ToSet(order) = F!MarksOf(page)
  BY <1>1, <1>2 DEF FormInv, Ranked
<1>4. Len(order) \in Nat /\ i \in Nat /\ held \in Nat /\ held' \in Nat
  BY <1>3, LenProperties DEF F!Grip, F!FinishDrag, F!MoveByArrow, FormInv, FormTypes
<1>5. order' = order \/ \E a, b \in Nat : order' = F!ReorderIds(order, a, b)
  BY <1>4 DEF F!Grip, F!FinishDrag, F!MoveByArrow
<1>6. order' \in Seq(F!MarksOf(page)) /\ Len(order') = Len(order) /\ F!ToSet(order') = F!ToSet(order)
  BY <1>3, <1>5, Reordered
<1>7. Ranked'
  BY <1>1, <1>3, <1>6 DEF Ranked
<1> QED BY <1>1, <1>4, <1>7, RankKeeps

LEMMA SubmitKeeps == ASSUME FormInv, F!Submit PROVE FormInv'
<1>1. /\ page \in FormPolls /\ page # none /\ callForms = F!NoCall /\ marks' = F!AfterSubmit(page)
      /\ callForms' = [poll |-> page, answer |-> F!ToSend, at |-> "sent"]
      /\ UNCHANGED <<run, stored, page, cached, mine, order, held, carriedForms, entered>>
  BY DEF F!Submit, F!CanAnswer, F!server, FormInv, FormTypes
<1>2. /\ F!ToSend \subseteq Marks /\ KindOK(page, F!ToSend) /\ (carriedForms \/ Meant(page, F!ToSend))
      /\ Old(F!ToSend) /\ \A r \in stored : Apart(F!ToSend, r.answer)
  <2>1. CASE FormKind[page] = "ranking"
    <3>1. F!ToSend = F!MarksOf(page)
      BY <1>1, <2>1 DEF F!ToSend, FormInv, Ranked
    <3>2. \A m \in F!ToSend : m \in Marks /\ m.of = page
      BY <1>1, <3>1, OwnMarks
    <3> QED BY <2>1, <3>2 DEF KindOK, Meant, Old, Apart, F!Texts
  <2>2. CASE FormKind[page] # "ranking"
    BY <1>1, <2>2 DEF F!ToSend, FormInv, FormTypes, OfItsKind, InOnePlace
  <2> QED BY <2>1, <2>2
<1>3. marks' \subseteq marks /\ Apart(marks', F!ToSend)
  <2>1. CASE F!IsText(page)
    BY <1>1, <2>1 DEF F!AfterSubmit, Apart
  <2>2. CASE ~ F!IsText(page)
    BY <1>1, <2>2 DEF F!AfterSubmit, F!IsText, FormInv, OfItsKind, KindOK, Apart
  <2> QED BY <2>1, <2>2
<1>4. callForms'.poll = page /\ callForms'.answer = F!ToSend /\ callForms'.at = "sent"
  BY <1>1
<1>5. FormTypes'
  BY <1>1, <1>2, <1>3 DEF FormInv, FormTypes, Sent
<1>6. OfItsKind' /\ F!MeantForItsPoll' /\ Ranked'
  BY <1>1, <1>2, <1>3, <1>4 DEF FormInv, OfItsKind, F!MeantForItsPoll, Ranked, KindOK,
                                Meant
<1>7. InOnePlace'
  BY <1>1, <1>2, <1>3, <1>4 DEF FormInv, InOnePlace, Old, Apart
<1> QED BY <1>5, <1>6, <1>7 DEF FormInv

LEMMA ServesKeeps == ASSUME FormInv, F!Serves PROVE FormInv'
<1>1. /\ callForms.at = "sent" /\ callForms.poll \in FormPolls /\ callForms \in Sent
      /\ UNCHANGED <<run, page, cached, mine, marks, order, held, carriedForms, entered>>
  BY DEF F!Serves, F!form, FormInv, FormTypes
<1>2. CASE ~ F!Accepts
  <2>1. stored' = stored /\ callForms' = [callForms EXCEPT !.at = "refused"]
    BY <1>2 DEF F!Serves
  <2>2. callForms' \in Sent /\ callForms'.at = "refused" /\ callForms'.poll = callForms.poll /\ callForms'.answer = callForms.answer
    BY <1>1, <2>1 DEF Sent
  <2>3. FormTypes' /\ OfItsKind' /\ Ranked' /\ F!MeantForItsPoll'
    BY <1>1, <2>1, <2>2 DEF FormInv, FormTypes, OfItsKind, Ranked, F!MeantForItsPoll,
                            KindOK, Meant
  <2>4. InOnePlace'
    BY <1>1, <2>1, <2>2 DEF FormInv, InOnePlace, Old, Apart
  <2> QED BY <2>3, <2>4 DEF FormInv
<1>3. CASE F!Accepts
  <2>1. /\ stored' = F!Taken(run, callForms.answer) /\ callForms' = [callForms EXCEPT !.at = "taken"]
        /\ callForms.poll = run /\ F!Valid(run, callForms.answer)
    BY <1>3 DEF F!Serves, F!Accepts
  <2>2. callForms' \in Sent /\ callForms'.at = "taken" /\ callForms'.poll = run /\ callForms'.answer = callForms.answer
    BY <1>1, <2>1 DEF Sent
  <2> DEFINE row == F!Row(run, callForms.answer)
  <2>3. row \in Rows /\ row.poll = run /\ row.answer = callForms.answer
    BY <1>1, <2>1 DEF F!Row, Rows, Sent
  <2>4. stored' \subseteq stored \cup {row}
    BY <2>1 DEF F!Taken
  <2> HIDE DEF row
  <2>5. FormTypes'
    BY <1>1, <2>1, <2>2, <2>3, <2>4 DEF FormInv, FormTypes
  <2>6. KindOK(run, callForms.answer) /\ (carriedForms \/ Meant(run, callForms.answer))
    BY <1>1, <2>1 DEF FormInv, OfItsKind
  <2>7. OfItsKind' /\ Ranked'
    BY <1>1, <2>1, <2>2, <2>3, <2>4, <2>6 DEF FormInv, OfItsKind, Ranked, KindOK, Meant
  <2>8. \A m \in callForms.answer : m.of = run \/ (carriedForms /\ FormKind[run] \in F!Texts \cup {"rating"})
    <3>1. CASE FormKind[run] \in {"single", "multi", "ranking"}
      <4>1. callForms.answer \subseteq F!MarksOf(run)
        BY <2>1, <3>1 DEF F!Valid
      <4> QED BY <1>1, <2>1, <4>1, OwnMarks
    <3>2. CASE FormKind[run] \in {"words", "text", "rating"}
      BY <2>6, <3>2 DEF Meant, F!Texts
    <3> QED BY <1>1, <2>1, <3>1, <3>2, FormFacts DEF F!Kinds
  <2>9. F!MeantForItsPoll'
    BY <1>1, <2>3, <2>4, <2>8 DEF FormInv, F!MeantForItsPoll
  <2>10. InOnePlace'
    <3>1. \A r \in stored' : Old(r.answer) /\ Apart(marks, r.answer)
      BY <1>1, <2>3, <2>4 DEF FormInv, InOnePlace
    <3>2. \A r \in stored : Apart(callForms.answer, r.answer) /\ Apart(r.answer, callForms.answer)
      BY <1>1 DEF FormInv, InOnePlace, Apart
    <3>3. \A r, s \in stored' : r # s => Apart(r.answer, s.answer)
      BY <2>3, <2>4, <3>2 DEF FormInv, InOnePlace
    <3> QED BY <1>1, <2>2, <3>1, <3>3 DEF FormInv, InOnePlace, Old, Apart
  <2> QED BY <2>5, <2>7, <2>9, <2>10 DEF FormInv
<1> QED BY <1>2, <1>3

LEMMA CallOver == ASSUME FormInv, F!Settles \/ F!LoseCall PROVE FormInv'
<1>1. /\ callForms' = F!NoCall
      /\ UNCHANGED <<run, stored, page, cached, mine, marks, order, held, carriedForms, entered>>
  BY DEF F!Settles, F!LoseCall, F!server, F!form
<1>2. FormTypes' /\ OfItsKind' /\ Ranked' /\ F!MeantForItsPoll'
  BY <1>1, FormFacts DEF FormInv, FormTypes, OfItsKind, Ranked, F!MeantForItsPoll, KindOK,
                         Meant
<1>3. InOnePlace'
  BY <1>1, FormFacts DEF FormInv, InOnePlace, Old, Apart
<1> QED BY <1>2, <1>3 DEF FormInv

LEMMA FormNext == FormInv /\ [F!Next]_F!vars => FormInv'
<1> SUFFICES ASSUME FormInv, [F!Next]_F!vars PROVE FormInv'
  OBVIOUS
<1>1. CASE UNCHANGED F!vars
  <2>1. FormTypes' /\ OfItsKind' /\ Ranked' /\ F!MeantForItsPoll'
    BY <1>1 DEF F!vars, F!server, F!form, FormInv, FormTypes, OfItsKind, Ranked,
                F!MeantForItsPoll, KindOK, Meant
  <2>2. InOnePlace'
    BY <1>1 DEF F!vars, F!server, F!form, FormInv, InOnePlace, Old, Apart
  <2> QED BY <2>1, <2>2 DEF FormInv
<1> QED BY <1>1, MovesKeep, EditsKeep, DragsKeep, SubmitKeeps, ServesKeeps,
    CallOver DEF F!Next

LEMMA FormGives == FormInv => F!TypeOK /\ F!MeantForItsPoll /\ F!CountedOnce /\ F!RankingIsWhole
<1> SUFFICES ASSUME FormInv
             PROVE F!TypeOK /\ F!MeantForItsPoll /\ F!CountedOnce /\ F!RankingIsWhole
  OBVIOUS
<1>1. F!TypeOK
  BY DEF FormInv, FormTypes, F!TypeOK, Rows, Marks, Sent
<1>2. F!CountedOnce
  BY DEF FormInv, InOnePlace, OfItsKind, KindOK, Apart, F!IsText, F!CountedOnce
<1>3. F!RankingIsWhole
  BY DEF FormInv, Ranked, F!RankingIsWhole
<1> QED BY <1>1, <1>2, <1>3 DEF FormInv

-----------------------------------------------------------------------------
(* The room page.                                                              *)
PageEvents ==
    {e \in [kind : {"opened", "started", "stopped", "locked", "unlocked", "over"},
            item : P!Items \cup {none}] :
        /\ e.kind # "over" => e.item \in P!Items
        /\ e.kind \in {"started", "locked", "unlocked"} => e.item \in PagePolls
        /\ e.kind = "opened" => e.item \in PageOthers}

PageSubs == [poll : PagePolls \cup {none}, at : {"none", "sent", "taken", "refused"}, kept : BOOLEAN]

(* What the server has, what is on its way.                                       *)
ServerTypes ==
    /\ board \in [P!Items -> P!Statuses] /\ ended \in BOOLEAN /\ answeredPage \subseteq PagePolls

WayTypes ==
    /\ outbox \in [PageHosts -> Seq(PageEvents)] /\ opening \in [PageHosts -> PageOthers \cup {none}]
    /\ connected \in BOOLEAN /\ direct \in Seq(PageEvents) /\ relay \in Seq(PageEvents)

(* What is rendered: the effects have left known, the notice and the submission as   *)
(* the cached state asks.                                                         *)
CacheTypes == stateQ \in P!Queries(P!Snapshots) /\ pollQ \in [PagePolls -> P!Queries(P!Details)]

SeenTypes ==
    /\ known \subseteq P!Items /\ (P!Loaded(stateQ) => known = stateQ.data.open)
    /\ synced \in BOOLEAN /\ tab \in PageOthers \cup {"poll"} /\ over \in BOOLEAN

NoticeKept ==
    /\ ok \in BOOLEAN /\ okFor \in PagePolls \cup {none} /\ sub \in PageSubs
    /\ ok => okFor = P!Shown
    /\ sub.kept => sub.poll = P!Shown
    /\ sub.at # "none" => sub.poll \in PagePolls

PageInv == ServerTypes /\ WayTypes /\ CacheTypes /\ SeenTypes /\ NoticeKept

(* What the client's calls do to a cached query.                                  *)
LEMMA PageQuery ==
    ASSUME NEW D, NEW q \in P!Queries(D), NEW d \in D \cup {NoData}
    PROVE  /\ P!Fetched(q) \in P!Queries(D) /\ P!Refetched(q) \in P!Queries(D) /\ P!Mounted(q) \in P!Queries(D)
           /\ P!Stored(q) \in P!Queries(D) /\ P!Answered(q, d) \in P!Queries(D)
           /\ P!Patched(q, d) \in P!Queries(D) /\ P!Marked(q) \in P!Queries(D)
           /\ P!Fetched(q).data = q.data /\ P!Refetched(q).data = q.data /\ P!Answered(q, d).data = q.data
           /\ P!Stored(q).data = q.reply
           /\ P!Patched(q, d).data = IF P!Loaded(q) THEN d ELSE q.data
<1>1. P!Marked(q) \in P!Queries(D)
  <2>1. PICK b \in BOOLEAN : b = P!Loaded(q)
    BY DEF P!Loaded
  <2>2. P!Marked(q) = [q EXCEPT !.stale = b]
    BY <2>1 DEF P!Marked
  <2> QED BY <2>2 DEF P!Queries
<1> QED BY <1>1 DEF P!Queries, P!Fetches, P!Fetched, P!Refetched, P!Mounted, P!Stored,
                    P!Answered, P!Patched, P!Written,
           P!Idle, P!Loaded

LEMMA ActiveIsPoll == ASSUME NEW q PROVE P!ActivePoll(q) \in PagePolls \cup {none}
<1>1. CASE q.data.open \cap PagePolls # {}
  BY <1>1 DEF P!ActivePoll
<1> QED BY <1>1 DEF P!ActivePoll

LEMMA NoEvents == ASSUME NEW E PROVE <<>> \in Seq(E)
OBVIOUS

LEMMA OneMore ==
    ASSUME NEW E, NEW s \in Seq(E), NEW e \in E PROVE Append(s, e) \in Seq(E)
OBVIOUS

(* The effects of a rendering.                                                    *)
LEMMA RenderKeeps ==
    ASSUME SeenTypes, NoticeKept, NEW q \in P!Queries(P!Snapshots), NEW ps \in [PagePolls -> P!Queries(P!Details)],
           NEW k \in SUBSET P!Items, NEW t \in PageOthers \cup {"poll"}, NEW o \in BOOLEAN, o => ok,
           P!Render(q, ps, k, t, o)
    PROVE  CacheTypes' /\ SeenTypes' /\ NoticeKept'
<1>1. /\ stateQ' = q
      /\ pollQ' = [p \in PagePolls |-> IF P!ActivePoll(q) = p /\ p # P!Shown THEN P!Mounted(ps[p]) ELSE ps[p]]
      /\ ok' = IF P!ActivePoll(q) # P!Shown THEN FALSE ELSE o
      /\ okFor' = IF ok' THEN okFor ELSE none
      /\ sub' = [sub EXCEPT !.kept = @ /\ P!ActivePoll(q) = P!Shown]
      /\ over' = (over \/ (P!Loaded(q) /\ q.data.ended)) /\ P!Sync(q, k, t)
  BY DEF P!Render, P!ResetsOk
<1>2. P!Shown' = P!ActivePoll(q)
  BY <1>1 DEF P!Shown, P!ActivePoll, P!Loaded
<1>3. CacheTypes'
  <2>1. \A p \in PagePolls : P!Mounted(ps[p]) \in P!Queries(P!Details)
    <3> SUFFICES ASSUME NEW p \in PagePolls PROVE P!Mounted(ps[p]) \in P!Queries(P!Details)
      OBVIOUS
    <3>1. PICK x : x = ps[p]
      OBVIOUS
    <3>2. P!Mounted(x) \in P!Queries(P!Details)
      BY <3>1, PageQuery
    <3> QED BY <3>1, <3>2
  <2>2. pollQ' \in [PagePolls -> P!Queries(P!Details)]
    BY <1>1, <2>1
  <2> QED BY <1>1, <2>2 DEF CacheTypes
<1>4. SeenTypes'
  <2>1. over' \in BOOLEAN
    BY <1>1
  <2>2. CASE ~ P!Loaded(q)
    <3>1. known' = k /\ tab' = t /\ synced' = synced /\ ~ P!Loaded(stateQ')
      BY <1>1, <2>2 DEF P!Sync
    <3> QED BY <2>1, <3>1 DEF SeenTypes, P!Loaded
  <2>3. CASE P!Loaded(q)
    <3>1. PICK open : open = q.data.open
      OBVIOUS
    <3>2. open \subseteq P!Items
      BY <2>3, <3>1 DEF P!Queries, P!Loaded, P!Snapshots
    <3>3. known' = open /\ synced' = TRUE /\ \/ tab' = t
                                             \/ \E i \in open : tab' = P!TabOf(i)
      BY <1>1, <2>3, <3>1 DEF P!Sync, P!KnownAfter
    <3>4. tab' \in PageOthers \cup {"poll"}
      BY <3>2, <3>3 DEF P!TabOf, P!Items
    <3>5. synced' \in BOOLEAN
      BY <3>3
    <3>6. known' \subseteq P!Items /\ known' = stateQ'.data.open
      BY <1>1, <3>1, <3>2, <3>3
    <3> QED BY <2>1, <3>4, <3>5, <3>6 DEF SeenTypes
  <2> QED BY <2>2, <2>3
<1>5. NoticeKept'
  <2> DEFINE b == (sub.kept /\ P!ActivePoll(q) = P!Shown)
  <2>1. b \in BOOLEAN /\ sub' = [sub EXCEPT !.kept = b]
    BY <1>1
  <2> HIDE DEF b
  <2>2. sub' \in PageSubs /\ sub'.poll = sub.poll /\ sub'.kept = b /\ sub'.at = sub.at
    BY <2>1 DEF NoticeKept, PageSubs
  <2>3. sub'.kept => sub'.poll = P!Shown'
    BY <1>2, <2>2 DEF NoticeKept, b
  <2>4. ok' \in BOOLEAN /\ (ok' => ok /\ P!ActivePoll(q) = P!Shown)
    BY <1>1
  <2>5. okFor' \in PagePolls \cup {none} /\ (ok' => okFor' = P!Shown')
    BY <1>1, <1>2, <2>4 DEF NoticeKept
  <2> QED BY <2>2, <2>3, <2>4, <2>5 DEF NoticeKept
<1> QED BY <1>3, <1>4, <1>5

LEMMA SnapshotOK == ASSUME ServerTypes PROVE P!Snapshot \in P!Snapshots
BY DEF P!Snapshot, P!Snapshots, ServerTypes

LEMMA DetailOK == ASSUME ServerTypes, NEW p \in PagePolls PROVE P!Detail(p) \in P!Details
<1> DEFINE b == p \in answeredPage
<1>1. b \in BOOLEAN
  OBVIOUS
<1>2. P!Detail(p) = [status |-> board[p], mine |-> b]
  BY DEF P!Detail
<1> HIDE DEF b
<1> QED BY <1>1, <1>2 DEF P!Details, ServerTypes, P!Items

LEMMA PageInit == P!Init => PageInv
<1> SUFFICES ASSUME P!Init PROVE PageInv
  OBVIOUS
<1>1. P!Loading \in P!Queries(P!Snapshots) /\ P!Unused \in P!Queries(P!Details) /\ ~ P!Loaded(P!Loading)
  BY DEF P!Loading, P!Unused, P!Queries, P!Fetches, P!Loaded
<1>2. CacheTypes /\ SeenTypes
  BY <1>1 DEF P!Init, CacheTypes, SeenTypes
<1>3. P!NoSub \in PageSubs /\ ~ P!NoSub.kept /\ P!NoSub.at = "none"
  BY DEF P!NoSub, PageSubs
<1>4. NoticeKept
  BY <1>3 DEF P!Init, NoticeKept
<1>5. <<>> \in Seq(PageEvents)
  BY NoEvents
<1>6. WayTypes
  BY <1>5 DEF P!Init, WayTypes
<1>7. ServerTypes
  BY DEF P!Init, ServerTypes
<1> QED BY <1>2, <1>4, <1>6, <1>7 DEF PageInv

(* The page is untouched by what the hosts, the server and the socket do.          *)
LEMMA PageUntouched ==
    ASSUME PageInv, UNCHANGED <<P!page, sub>> PROVE CacheTypes' /\ SeenTypes' /\ NoticeKept'
BY DEF PageInv, CacheTypes, SeenTypes, NoticeKept, P!page, P!Shown, P!ActivePoll, P!Loaded

LEMMA EventOK ==
    ASSUME NEW i \in P!Items, NEW kind \in {"opened", "started", "stopped", "locked", "unlocked"},
           kind \in {"started", "locked", "unlocked"} => i \in PagePolls, kind = "opened" => i \in PageOthers
    PROVE  P!Event(kind, i) \in PageEvents
BY DEF P!Event, PageEvents

LEMMA OverOK == P!Event("over", none) \in PageEvents
BY DEF P!Event, PageEvents

LEMMA SendOK ==
    ASSUME WayTypes, NEW e \in PageEvents, P!Send(e)
    PROVE  direct' \in Seq(PageEvents) /\ relay' \in Seq(PageEvents)
<1>1. direct \in Seq(PageEvents) /\ relay \in Seq(PageEvents)
  BY DEF WayTypes
<1>2. Append(direct, e) \in Seq(PageEvents) /\ Append(relay, e) \in Seq(PageEvents)
  BY <1>1, OneMore
<1> QED BY <1>1, <1>2 DEF P!Send

LEMMA ActivatedOK ==
    ASSUME ServerTypes, NEW i \in P!Items PROVE P!Activated(i) \in [P!Items -> P!Statuses]
BY DEF ServerTypes, P!Activated, P!Statuses

LEMMA ShiftKeeps ==
    ASSUME PageInv, NEW h \in PageHosts, NEW p \in PagePolls, NEW from, NEW to \in P!Statuses,
           NEW kind \in {"stopped", "locked", "unlocked"}, P!Shift(h, p, from, to, kind)
    PROVE  PageInv'
<1>1. /\ UNCHANGED <<answeredPage, connected, P!page, sub, ended, opening, direct, relay>>
      /\ board' = [board EXCEPT ![p] = to] /\ outbox' = [outbox EXCEPT ![h] = <<P!Event(kind, p)>>]
  BY DEF P!Shift, P!Move, P!Announce
<1>0. p \in P!Items
  BY DEF P!Items
<1>2. <<P!Event(kind, p)>> \in Seq(PageEvents)
  BY <1>0, EventOK
<1>3. ServerTypes' /\ WayTypes'
  BY <1>1, <1>2 DEF PageInv, ServerTypes, WayTypes
<1> QED BY <1>1, <1>3, PageUntouched DEF PageInv

LEMMA HostKeeps == ASSUME PageInv, P!HostSteps PROVE PageInv'
<1>1. PICK h \in PageHosts :
       \/ P!OpenCommits(h) \/ P!Publish(h) \/ P!EndSession(h)
       \/ \E p \in PagePolls : P!StartPoll(h, p) \/ P!StopPoll(h, p) \/ P!LockPoll(h, p) \/ P!UnlockPoll(h, p)
       \/ \E i \in PageOthers : P!OpenOther(h, i) \/ P!CloseOther(h, i)
  BY DEF P!HostSteps
<1>0. PagePolls \subseteq P!Items /\ PageOthers \subseteq P!Items /\ ServerTypes /\ WayTypes
  BY DEF P!Items, PageInv
<1>2. CASE P!OpenCommits(h)
  <2>1. PICK i : i = opening[h]
    OBVIOUS
  <2>2. /\ i # none /\ board' = P!Activated(i) /\ opening' = [opening EXCEPT ![h] = none]
        /\ outbox' = [outbox EXCEPT ![h] = <<P!Event("opened", i)>>]
        /\ UNCHANGED <<ended, answeredPage, connected, direct, relay, P!page, sub>>
    BY <1>2, <2>1 DEF P!OpenCommits
  <2>3. i \in P!Items /\ i \in PageOthers
    BY <1>0, <2>1, <2>2 DEF WayTypes
  <2>4. board' \in [P!Items -> P!Statuses] /\ <<P!Event("opened", i)>> \in Seq(PageEvents)
    BY <1>0, <2>2, <2>3, ActivatedOK, EventOK
  <2>5. ServerTypes' /\ WayTypes'
    BY <1>0, <2>2, <2>4 DEF ServerTypes, WayTypes
  <2> QED BY <2>2, <2>5, PageUntouched DEF PageInv
<1>3. CASE P!Publish(h)
  <2>1. /\ outbox[h] # <<>> /\ P!Send(Head(outbox[h])) /\ outbox' = [outbox EXCEPT ![h] = Tail(@)]
        /\ UNCHANGED <<P!server, opening, connected, P!page, sub>>
    BY <1>3 DEF P!Publish
  <2>2. Head(outbox[h]) \in PageEvents /\ Tail(outbox[h]) \in Seq(PageEvents)
    BY <1>0, <2>1 DEF WayTypes
  <2>3. direct' \in Seq(PageEvents) /\ relay' \in Seq(PageEvents)
    BY <1>0, <2>1, <2>2, SendOK
  <2>4. ServerTypes' /\ WayTypes'
    BY <1>0, <2>1, <2>2, <2>3 DEF ServerTypes, WayTypes, P!server
  <2> QED BY <2>1, <2>4, PageUntouched DEF PageInv
<1>4. CASE P!EndSession(h)
  <2>1. /\ UNCHANGED <<answeredPage, connected, P!page, sub, board, opening, direct, relay>>
        /\ ended' = TRUE /\ outbox' = [outbox EXCEPT ![h] = <<P!Event("over", none)>>]
    BY <1>4 DEF P!EndSession, P!Move, P!Announce
  <2>2. <<P!Event("over", none)>> \in Seq(PageEvents)
    BY OverOK
  <2>3. ServerTypes' /\ WayTypes'
    BY <1>0, <2>1, <2>2 DEF ServerTypes, WayTypes
  <2> QED BY <2>1, <2>3, PageUntouched DEF PageInv
<1>5. ASSUME NEW p \in PagePolls, P!StartPoll(h, p) PROVE PageInv'
  <2>1. /\ UNCHANGED <<answeredPage, connected, P!page, sub, ended, opening, direct, relay>>
        /\ board' = P!Activated(p)
        /\ \/ outbox' = [outbox EXCEPT ![h] = <<P!Event("started", p)>>]
           \/ \E j \in P!Running :
                outbox' = [outbox EXCEPT ![h] = <<P!Event("stopped", j), P!Event("started", p)>>]
    BY <1>5 DEF P!StartPoll, P!Move, P!Announce
  <2>2. P!Event("started", p) \in PageEvents /\ \A j \in P!Running : P!Event("stopped", j) \in PageEvents
    BY <1>0, EventOK DEF P!Running
  <2>3. /\ <<P!Event("started", p)>> \in Seq(PageEvents)
        /\ \A j \in P!Running : <<P!Event("stopped", j), P!Event("started", p)>> \in Seq(PageEvents)
    BY <2>2
  <2>4. outbox' \in [PageHosts -> Seq(PageEvents)]
    BY <1>0, <2>1, <2>3 DEF WayTypes
  <2>5. board' \in [P!Items -> P!Statuses]
    BY <1>0, <2>1, ActivatedOK
  <2>6. ServerTypes' /\ WayTypes'
    BY <1>0, <2>1, <2>4, <2>5 DEF ServerTypes, WayTypes
  <2> QED BY <2>1, <2>6, PageUntouched DEF PageInv
<1>6. ASSUME NEW p \in PagePolls, P!StopPoll(h, p) \/ P!LockPoll(h, p) \/ P!UnlockPoll(h, p)
      PROVE PageInv'
  <2>1. "off" \in P!Statuses /\ "locked" \in P!Statuses /\ "active" \in P!Statuses /\ p \in P!Items
    BY <1>0 DEF P!Statuses
  <2> QED BY <1>6, <2>1, ShiftKeeps DEF P!StopPoll, P!LockPoll, P!UnlockPoll
<1>7. ASSUME NEW i \in PageOthers, P!OpenOther(h, i) PROVE PageInv'
  <2>1. /\ UNCHANGED <<answeredPage, connected, P!page, sub, ended>>
        /\ \/ /\ \E p \in P!Running \cap PagePolls : P!Send(P!Event("stopped", p))
              /\ opening' = [opening EXCEPT ![h] = i] /\ UNCHANGED <<board, outbox>>
           \/ /\ board' = P!Activated(i) /\ outbox' = [outbox EXCEPT ![h] = <<P!Event("opened", i)>>]
              /\ UNCHANGED <<opening, direct, relay>>
    BY <1>7 DEF P!OpenOther, P!Move, P!Announce
  <2>2. <<P!Event("opened", i)>> \in Seq(PageEvents) /\ P!Activated(i) \in [P!Items -> P!Statuses]
    BY <1>0, EventOK, ActivatedOK
  <2>3. \A p \in P!Running \cap PagePolls : P!Event("stopped", p) \in PageEvents
    BY <1>0, EventOK
  <2>4. direct' \in Seq(PageEvents) /\ relay' \in Seq(PageEvents)
    BY <1>0, <2>1, <2>3, SendOK DEF WayTypes
  <2>5. board' \in [P!Items -> P!Statuses] /\ outbox' \in [PageHosts -> Seq(PageEvents)]
        /\ opening' \in [PageHosts -> PageOthers \cup {none}]
    BY <1>0, <2>1, <2>2 DEF WayTypes, ServerTypes
  <2>6. ServerTypes' /\ WayTypes'
    BY <1>0, <2>1, <2>4, <2>5 DEF ServerTypes, WayTypes
  <2> QED BY <2>1, <2>6, PageUntouched DEF PageInv
<1>8. ASSUME NEW i \in PageOthers, P!CloseOther(h, i) PROVE PageInv'
  <2>1. /\ UNCHANGED <<answeredPage, connected, P!page, sub, ended, opening, direct, relay>>
        /\ board' = [board EXCEPT ![i] = "off"] /\ outbox' = [outbox EXCEPT ![h] = <<>>]
    BY <1>8 DEF P!CloseOther, P!Move, P!Announce
  <2>2. <<>> \in Seq(PageEvents) /\ "off" \in P!Statuses
    BY DEF P!Statuses
  <2>3. ServerTypes' /\ WayTypes'
    BY <1>0, <2>1, <2>2 DEF ServerTypes, WayTypes
  <2> QED BY <2>1, <2>3, PageUntouched DEF PageInv
<1> QED BY <1>1, <1>2, <1>3, <1>4, <1>5, <1>6, <1>7, <1>8

LEMMA SocketKeeps == ASSUME PageInv, P!Connect \/ P!Lose PROVE PageInv'
<1>1. UNCHANGED <<P!server, outbox, opening, P!page, sub>>
  BY DEF P!Connect, P!Lose
<1>2. connected' \in BOOLEAN
  BY DEF P!Connect, P!Lose
<1>3. direct' \in Seq(PageEvents) /\ relay' \in Seq(PageEvents)
  BY NoEvents DEF P!Connect, P!Lose, PageInv, WayTypes
<1>4. ServerTypes' /\ WayTypes'
  BY <1>1, <1>2, <1>3 DEF PageInv, ServerTypes, WayTypes, P!server
<1> QED BY <1>1, <1>4, PageUntouched DEF PageInv

LEMMA InvalidatedOK ==
    ASSUME PageInv, NEW p PROVE P!PollInvalidated(p) \in [PagePolls -> P!Queries(P!Details)]
<1>1. pollQ \in [PagePolls -> P!Queries(P!Details)]
  BY DEF PageInv, CacheTypes
<1>2. CASE p \in PagePolls
  <2>1. PICK x : x = pollQ[p]
    OBVIOUS
  <2>2. x \in P!Queries(P!Details)
    BY <1>1, <1>2, <2>1
  <2>3. P!Refetched(x) \in P!Queries(P!Details) /\ P!Marked(x) \in P!Queries(P!Details)
    BY <2>2, PageQuery
  <2> QED BY <1>1, <2>1, <2>3 DEF P!PollInvalidated
<1>3. CASE p \notin PagePolls
  BY <1>1, <1>3 DEF P!PollInvalidated
<1> QED BY <1>2, <1>3

LEMMA StateRefetchedOK ==
    ASSUME PageInv, NEW open \in SUBSET P!Items
    PROVE P!StateRefetched(open) \in P!Queries(P!Snapshots)
<1>1. stateQ \in P!Queries(P!Snapshots)
  BY DEF PageInv, CacheTypes
<1>2. PICK d : d = P!Opens(open)
  OBVIOUS
<1>3. d \in P!Snapshots \cup {NoData}
  BY <1>1, <1>2 DEF P!Opens, P!Queries, P!Snapshots, P!Loaded
<1>4. PICK x : x = P!Patched(stateQ, d)
  OBVIOUS
<1>5. x \in P!Queries(P!Snapshots)
  BY <1>1, <1>3, <1>4, PageQuery
<1>6. P!Refetched(x) \in P!Queries(P!Snapshots)
  BY <1>5, PageQuery
<1> QED BY <1>2, <1>4, <1>6 DEF P!StateRefetched

(* handleWsEvent.                                                                 *)
LEMMA HandleKeeps ==
    ASSUME PageInv, NEW e \in PageEvents, P!Handle(e)
    PROVE  CacheTypes' /\ SeenTypes' /\ NoticeKept' /\ UNCHANGED <<P!server, outbox, opening, connected>>
<1>0. UNCHANGED <<P!server, outbox, opening, connected>>
  BY DEF P!Handle
<1>1. PICK i : i = e.item
  OBVIOUS
<1>2. /\ e.kind = "opened" => P!OnInteractionStarted(i)
      /\ e.kind = "started" => P!OnPollStarted(i)
      /\ e.kind = "stopped" => P!OnPollStopped(i)
      /\ e.kind \in {"locked", "unlocked"} => P!OnPollLockChange(i)
      /\ e.kind = "over" => P!OnSessionEnded
  BY <1>1 DEF P!Handle
<1>3. /\ SeenTypes /\ NoticeKept /\ known \subseteq P!Items /\ tab \in PageOthers \cup {"poll"}
      /\ ok \in BOOLEAN /\ pollQ \in [PagePolls -> P!Queries(P!Details)] /\ stateQ \in P!Queries(P!Snapshots)
  BY DEF PageInv, SeenTypes, NoticeKept, CacheTypes
<1>4. P!OpenNow \subseteq P!Items
  BY <1>3 DEF P!OpenNow, P!Queries, P!Snapshots, P!Loaded
<1>5. e.kind # "over" => i \in P!Items
  BY <1>1 DEF PageEvents
<1>6. P!PollInvalidated(i) \in [PagePolls -> P!Queries(P!Details)]
  BY InvalidatedOK
<1>7. CASE e.kind = "opened"
  <2>1. PICK q, k, t : q = P!StateRefetched(P!OpenNow \cup {i}) /\ k = known \cup {i} /\ t = P!TabOf(i)
    OBVIOUS
  <2>2. P!Render(q, pollQ, k, t, ok)
    BY <1>2, <1>7, <2>1 DEF P!OnInteractionStarted
  <2>3. q \in P!Queries(P!Snapshots) /\ k \in SUBSET P!Items /\ t \in PageOthers \cup {"poll"}
    BY <1>3, <1>4, <1>5, <1>7, <2>1, StateRefetchedOK DEF P!TabOf, P!Items
  <2> QED BY <1>0, <1>3, <2>2, <2>3, RenderKeeps
<1>8. CASE e.kind = "started"
  <2>1. PICK q, k, ps : /\ q = P!StateRefetched((P!OpenNow \ PagePolls) \cup {i}) /\ k = known \cup {i}
                        /\ ps = P!PollInvalidated(i)
    OBVIOUS
  <2>2. P!Render(q, ps, k, "poll", FALSE)
    BY <1>2, <1>8, <2>1 DEF P!OnPollStarted
  <2>3. q \in P!Queries(P!Snapshots) /\ k \in SUBSET P!Items
    BY <1>3, <1>4, <1>5, <1>8, <2>1, StateRefetchedOK
  <2> QED BY <1>0, <1>3, <1>6, <2>1, <2>2, <2>3, RenderKeeps
<1>9. CASE e.kind = "stopped"
  <2>1. PICK q, k, ps : /\ q = P!StateRefetched(P!OpenNow \ {i}) /\ k = known \ {i}
                        /\ ps = IF i \in PagePolls THEN P!PollInvalidated(i) ELSE pollQ
    OBVIOUS
  <2>2. P!Render(q, ps, k, tab, ok)
    BY <1>2, <1>9, <2>1 DEF P!OnPollStopped
  <2>3. q \in P!Queries(P!Snapshots) /\ k \in SUBSET P!Items /\ ps \in [PagePolls -> P!Queries(P!Details)]
    BY <1>3, <1>4, <1>6, <2>1, StateRefetchedOK
  <2> QED BY <1>0, <1>3, <2>2, <2>3, RenderKeeps
<1>10. CASE e.kind \in {"locked", "unlocked"}
  <2>1. PICK ps : ps = P!PollInvalidated(i)
    OBVIOUS
  <2>2. P!Render(stateQ, ps, known, tab, ok)
    BY <1>2, <1>10, <2>1 DEF P!OnPollLockChange
  <2> QED BY <1>0, <1>3, <1>6, <2>1, <2>2, RenderKeeps
<1>11. CASE e.kind = "over"
  <2>1. over' = TRUE /\ UNCHANGED <<stateQ, pollQ, known, synced, tab, ok, okFor, sub>>
    BY <1>2, <1>11 DEF P!OnSessionEnded
  <2>2. over' \in BOOLEAN
    BY <2>1
  <2> QED BY <1>0, <2>1, <2>2
          DEF PageInv, CacheTypes, SeenTypes, NoticeKept, P!Shown, P!ActivePoll, P!Loaded
<1> QED BY <1>7, <1>8, <1>9, <1>10, <1>11 DEF PageEvents

LEMMA ReceiveKeeps == ASSUME PageInv, P!ReceiveDirect \/ P!ReceiveRelayed PROVE PageInv'
<1>0. direct \in Seq(PageEvents) /\ relay \in Seq(PageEvents)
  BY DEF PageInv, WayTypes
<1>1. PICK e \in PageEvents : /\ P!Handle(e)
                              /\ direct' \in Seq(PageEvents) /\ relay' \in Seq(PageEvents)
  <2>1. CASE P!ReceiveDirect
    <3>1. Head(direct) \in PageEvents /\ Tail(direct) \in Seq(PageEvents)
      BY <1>0, <2>1 DEF P!ReceiveDirect
    <3> QED BY <1>0, <2>1, <3>1 DEF P!ReceiveDirect
  <2>2. CASE P!ReceiveRelayed
    <3>1. relay # <<>>
      BY <1>0, <2>2 DEF P!ReceiveRelayed
    <3>2. Head(relay) \in PageEvents /\ Tail(relay) \in Seq(PageEvents)
      BY <1>0, <3>1
    <3> QED BY <1>0, <2>2, <3>2 DEF P!ReceiveRelayed
  <2> QED BY <2>1, <2>2
<1>2. /\ CacheTypes' /\ SeenTypes' /\ NoticeKept'
      /\ UNCHANGED <<P!server, outbox, opening, connected>>
  BY <1>1, HandleKeeps
<1>3. ServerTypes' /\ WayTypes'
  BY <1>1, <1>2 DEF PageInv, ServerTypes, WayTypes, P!server
<1> QED BY <1>2, <1>3 DEF PageInv

(* The fetches and the interval.                                                 *)
LEMMA PageFetchKeeps ==
    ASSUME PageInv, P!IntervalState \/ P!AnswerState \/ P!StoreState
    PROVE  PageInv'
<1>0. /\ stateQ \in P!Queries(P!Snapshots) /\ pollQ \in [PagePolls -> P!Queries(P!Details)]
      /\ ServerTypes /\ WayTypes /\ SeenTypes /\ NoticeKept
  BY DEF PageInv, CacheTypes
<1>1. CASE P!IntervalState \/ P!AnswerState
  <2>1. /\ UNCHANGED <<P!server, P!bus, pollQ, known, synced, tab, over, ok, okFor, sub>>
        /\ stateQ' = P!Fetched(stateQ) \/ stateQ' = P!Answered(stateQ, P!Snapshot)
    BY <1>1 DEF P!IntervalState, P!AnswerState
  <2>2. stateQ' \in P!Queries(P!Snapshots) /\ stateQ'.data = stateQ.data
    BY <1>0, <2>1, SnapshotOK, PageQuery
  <2>3. P!Shown' = P!Shown
    BY <2>2 DEF P!Shown, P!ActivePoll, P!Loaded
  <2>4. CacheTypes' /\ SeenTypes' /\ NoticeKept'
    BY <1>0, <2>1, <2>2, <2>3 DEF CacheTypes, SeenTypes, NoticeKept, P!Loaded
  <2>5. ServerTypes' /\ WayTypes'
    BY <1>0, <2>1 DEF ServerTypes, WayTypes, P!server, P!bus
  <2> QED BY <2>4, <2>5 DEF PageInv
<1>2. CASE P!StoreState
  <2>1. PICK q : q = P!Stored(stateQ)
    OBVIOUS
  <2>2. P!Render(q, pollQ, known, tab, ok) /\ UNCHANGED <<P!server, P!bus>>
    BY <1>2, <2>1 DEF P!StoreState, P!cacheOnly
  <2>3. q \in P!Queries(P!Snapshots)
    BY <1>0, <2>1, PageQuery
  <2>4. CacheTypes' /\ SeenTypes' /\ NoticeKept'
    BY <1>0, <2>2, <2>3, RenderKeeps DEF SeenTypes, NoticeKept
  <2>5. ServerTypes' /\ WayTypes'
    BY <1>0, <2>2 DEF ServerTypes, WayTypes, P!server, P!bus
  <2> QED BY <2>4, <2>5 DEF PageInv
<1> QED BY <1>1, <1>2

LEMMA PollFetchKeeps ==
    ASSUME PageInv, NEW p \in PagePolls, P!IntervalPoll(p) \/ P!AnswerPoll(p) \/ P!StorePoll(p)
    PROVE  PageInv'
<1>0. /\ stateQ \in P!Queries(P!Snapshots) /\ pollQ \in [PagePolls -> P!Queries(P!Details)]
      /\ ServerTypes /\ WayTypes /\ SeenTypes /\ NoticeKept
  BY DEF PageInv, CacheTypes
<1>1. PICK x : x = pollQ[p]
  OBVIOUS
<1>2. x \in P!Queries(P!Details) /\ P!Detail(p) \in P!Details
  BY <1>0, <1>1, DetailOK
<1>3. P!Fetched(x) \in P!Queries(P!Details) /\ P!Answered(x, P!Detail(p)) \in P!Queries(P!Details)
      /\ P!Stored(x) \in P!Queries(P!Details)
  BY <1>2, PageQuery
<1>4. CASE P!IntervalPoll(p) \/ P!AnswerPoll(p)
  <2>1. /\ UNCHANGED <<P!server, P!bus, stateQ, known, synced, tab, over, ok, okFor, sub>>
        /\ \/ pollQ' = [pollQ EXCEPT ![p] = P!Fetched(x)]
           \/ pollQ' = [pollQ EXCEPT ![p] = P!Answered(x, P!Detail(p))]
    BY <1>1, <1>4 DEF P!IntervalPoll, P!AnswerPoll
  <2>2. pollQ' \in [PagePolls -> P!Queries(P!Details)]
    BY <1>0, <1>3, <2>1
  <2>3. CacheTypes' /\ SeenTypes' /\ NoticeKept'
    BY <1>0, <2>1, <2>2 DEF CacheTypes, SeenTypes, NoticeKept, P!Loaded, P!Shown,
                            P!ActivePoll
  <2>4. ServerTypes' /\ WayTypes'
    BY <1>0, <2>1 DEF ServerTypes, WayTypes, P!server, P!bus
  <2> QED BY <2>3, <2>4 DEF PageInv
<1>5. CASE P!StorePoll(p)
  <2>1. PICK ps : ps = [pollQ EXCEPT ![p] = P!Stored(x)]
    OBVIOUS
  <2>2. P!Render(stateQ, ps, known, tab, ok) /\ UNCHANGED <<P!server, P!bus>>
    BY <1>1, <1>5, <2>1 DEF P!StorePoll, P!cacheOnly
  <2>3. ps \in [PagePolls -> P!Queries(P!Details)]
    BY <1>0, <1>3, <2>1
  <2>4. CacheTypes' /\ SeenTypes' /\ NoticeKept'
    BY <1>0, <2>2, <2>3, RenderKeeps DEF SeenTypes, NoticeKept
  <2>5. ServerTypes' /\ WayTypes'
    BY <1>0, <2>2 DEF ServerTypes, WayTypes, P!server, P!bus
  <2> QED BY <2>4, <2>5 DEF PageInv
<1> QED BY <1>4, <1>5

(* The submission of an answer.                                                   *)
LEMMA SubmissionKeeps ==
    ASSUME PageInv, \/ \E p \in PagePolls : P!Submit(p)
                    \/ P!ServerTakes \/ P!SubmitSucceeds \/ P!SubmitFails \/ P!CloseOkDialog
    PROVE  PageInv'
<1>0. /\ stateQ \in P!Queries(P!Snapshots) /\ pollQ \in [PagePolls -> P!Queries(P!Details)]
      /\ ServerTypes /\ WayTypes /\ SeenTypes /\ NoticeKept /\ sub \in PageSubs
  BY DEF PageInv, CacheTypes, NoticeKept
<1>1. UNCHANGED <<board, ended, P!bus, stateQ, known, synced, tab, over>>
  BY DEF P!Submit, P!ServerTakes, P!SubmitSucceeds, P!SubmitFails, P!CloseOkDialog,
         P!server, P!page
<1>2. P!Shown' = P!Shown /\ P!Shown \in PagePolls \cup {none}
  BY <1>1, ActiveIsPoll DEF P!Shown, P!ActivePoll, P!Loaded
<1>3. SeenTypes' /\ WayTypes'
  BY <1>0, <1>1 DEF SeenTypes, WayTypes, P!bus, P!Loaded
<1>4. P!NoSub \in PageSubs /\ ~ P!NoSub.kept /\ P!NoSub.at = "none"
  BY DEF P!NoSub, PageSubs
<1>5. ASSUME NEW p \in PagePolls, P!Submit(p) PROVE PageInv'
  <2>1. /\ p = P!Shown /\ sub' = [poll |-> p, at |-> "sent", kept |-> TRUE] /\ ok' = FALSE
        /\ okFor' = none /\ UNCHANGED <<P!server, pollQ>>
    BY <1>5 DEF P!Submit
  <2>2. sub' \in PageSubs /\ sub'.poll = p
    BY <2>1 DEF PageSubs
  <2>3. ok' \in BOOLEAN /\ ~ ok'
    BY <2>1
  <2>4. NoticeKept'
    BY <1>2, <2>1, <2>2, <2>3 DEF NoticeKept
  <2> QED BY <1>0, <1>1, <1>3, <2>1, <2>4 DEF PageInv, ServerTypes, CacheTypes, P!server
<1>6. CASE P!ServerTakes
  <2>1. /\ answeredPage' \in {answeredPage, answeredPage \cup {sub.poll}} /\ sub.poll \in PagePolls
        /\ \E at \in {"taken", "refused"} : sub' = [sub EXCEPT !.at = at]
        /\ UNCHANGED <<pollQ, ok, okFor>>
    BY <1>0, <1>6 DEF P!ServerTakes, P!page, PageInv, NoticeKept
  <2>2. sub' \in PageSubs /\ sub'.poll = sub.poll /\ sub'.kept = sub.kept
    BY <1>0, <2>1 DEF PageSubs
  <2>3. NoticeKept'
    BY <1>0, <1>2, <2>1, <2>2 DEF NoticeKept
  <2> QED BY <1>0, <1>1, <1>3, <2>1, <2>3 DEF PageInv, ServerTypes, CacheTypes
<1>7. CASE P!SubmitSucceeds
  <2>1. /\ ok' = TRUE /\ okFor' = (IF sub.kept THEN sub.poll ELSE P!Shown) /\ sub' = P!NoSub
        /\ pollQ' = IF P!Shown = none THEN pollQ ELSE [pollQ EXCEPT ![P!Shown] = P!Refetched(@)]
        /\ UNCHANGED P!server
    BY <1>7 DEF P!SubmitSucceeds
  <2>2. pollQ' \in [PagePolls -> P!Queries(P!Details)]
    <3>1. CASE P!Shown = none
      BY <1>0, <2>1, <3>1
    <3>2. CASE P!Shown # none
      <4>1. PICK x : x = pollQ[P!Shown]
        OBVIOUS
      <4>2. x \in P!Queries(P!Details)
        BY <1>0, <1>2, <3>2, <4>1
      <4>3. P!Refetched(x) \in P!Queries(P!Details)
        BY <4>2, PageQuery
      <4> QED BY <1>0, <2>1, <3>2, <4>1, <4>3
    <3> QED BY <3>1, <3>2
  <2>3. ok' \in BOOLEAN /\ okFor' = P!Shown
    BY <1>0, <2>1 DEF NoticeKept
  <2>4. NoticeKept'
    BY <1>2, <1>4, <2>1, <2>3 DEF NoticeKept
  <2> QED BY <1>0, <1>1, <1>3, <2>1, <2>2, <2>4 DEF PageInv, ServerTypes, CacheTypes,
      P!server
<1>8. CASE P!SubmitFails \/ P!CloseOkDialog
  <2>1. /\ ok' = FALSE /\ okFor' = none /\ (sub' = P!NoSub \/ sub' = sub) /\ UNCHANGED <<P!server, pollQ>>
    BY <1>8 DEF P!SubmitFails, P!CloseOkDialog
  <2>2. ok' \in BOOLEAN /\ ~ ok'
    BY <2>1
  <2>3. NoticeKept'
    BY <1>0, <1>2, <1>4, <2>1, <2>2 DEF NoticeKept
  <2> QED BY <1>0, <1>1, <1>3, <2>1, <2>3 DEF PageInv, ServerTypes, CacheTypes, P!server
<1> QED BY <1>5, <1>6, <1>7, <1>8

LEMMA PageNext == PageInv /\ [P!Next]_P!vars => PageInv'
<1> SUFFICES ASSUME PageInv, [P!Next]_P!vars PROVE PageInv'
  OBVIOUS
<1>1. CASE UNCHANGED P!vars
  <2>1. UNCHANGED <<P!server, P!bus, P!page, sub>>
    BY <1>1 DEF P!vars
  <2>2. ServerTypes' /\ WayTypes'
    BY <2>1 DEF PageInv, ServerTypes, WayTypes, P!server, P!bus
  <2> QED BY <2>1, <2>2, PageUntouched DEF PageInv
<1> QED BY <1>1, HostKeeps, SocketKeeps, ReceiveKeeps, PageFetchKeeps, PollFetchKeeps,
    SubmissionKeeps
        DEF P!Next

LEMMA PageGives == PageInv => P!TypeOK /\ P!OkIsForShown
BY DEF PageInv, ServerTypes, WayTypes, CacheTypes, SeenTypes, NoticeKept, PageSubs,
       P!TypeOK, P!OkIsForShown

(* The events that are under way: published nowhere yet, or their second copy still    *)
(* to come.                                                                       *)
Among(e, s) == \E n \in 1 .. Len(s) : s[n] = e
Due(e)      == Among(e, relay) \/ \E h \in PageHosts : Among(e, outbox[h])

Refetches(e) == e.kind \in {"opened", "started", "stopped"}
Activates(e) == e.kind \in {"opened", "started", "unlocked"}

AtMostOne(A) == \A i, j \in A : i = j

(* The newest a query knows.                                                      *)
Latest(q) == IF q.fetch = "answered" THEN q.reply ELSE q.data

CacheShape ==
    /\ stateQ.fetch = "answered" => stateQ.reply # NoData
    /\ P!Idle(stateQ) => P!Loaded(stateQ)
    /\ P!Loaded(stateQ) => synced /\ AtMostOne(stateQ.data.open \cap PagePolls)
    /\ stateQ.reply # NoData => AtMostOne(stateQ.reply.open)
    /\ \A p \in PagePolls : pollQ[p].fetch = "answered" => pollQ[p].reply # NoData

OneIsRunning == AtMostOne(P!Running)

(* The list the page has, or gets, is of polls that are on and has the running one, or *)
(* something that tells is under way.                                             *)
ListFits(open) ==
    /\ \A p \in PagePolls : p \in open => board[p] # "off"
    /\ \A p \in PagePolls : board[p] = "active" => p \in open \/ Due(P!Event("unlocked", p))

StateTold ==
    \/ blind \/ stateQ.fetch = "asked" \/ ListFits(Latest(stateQ).open)
    \/ \E e \in [kind : {"opened", "started", "stopped"}, item : P!Items] : Due(e)

(* What the page has, or gets, of a poll is what the server has, once it is shown.     *)
Good(x, inView, st) ==
    \/ x.fetch = "asked"
    \/ x.fetch = "answered" /\ x.reply.status = st
    \/ P!Idle(x) /\ P!Loaded(x) /\ (x.data.status = st \/ (x.stale /\ ~ inView))
    \/ P!Idle(x) /\ ~ P!Loaded(x) /\ ~ inView

PollTold(p) ==
    \/ board[p] = "off" \/ Good(pollQ[p], p = P!Shown, board[p])
    \/ \E kind \in {"started", "stopped", "locked", "unlocked"} : Due(P!Event(kind, p))

PollsTold == blind \/ \A p \in PagePolls : PollTold(p)

(* A second copy comes after the first, one request is under way at a time.           *)
CopiesFollow ==
    /\ Len(direct) <= Len(relay)
    /\ \A n \in 1 .. Len(direct) : direct[n] = relay[n + Len(relay) - Len(direct)]

OneBusy ==
    /\ \A h \in PageHosts : opening[h] # none => outbox[h] = <<>>
    /\ ~ strayed => \A g, h \in PageHosts : P!Free(g) \/ P!Free(h) \/ g = h

(* The last event under way that activates is of what runs; when none is, the page is  *)
(* there, or its first load brings it there.                                       *)
Calm(s)     == \A n \in 1 .. Len(s) : ~ Activates(s[n])
LastIs(s, i) == \E n \in 1 .. Len(s) : /\ Activates(s[n]) /\ s[n].item = i
                                       /\ \A m \in n + 1 .. Len(s) : ~ Activates(s[m])
NoneOut == \A h \in PageHosts : Calm(outbox[h])

Led(i) ==
    \/ \E h \in PageHosts : LastIs(outbox[h], i)
    \/ NoneOut /\ LastIs(relay, i)
    \/ /\ NoneOut /\ Calm(relay)
       /\ tab = P!TabOf(i) \/ ~ synced
       /\ stateQ.fetch = "answered" => i \in stateQ.reply.open

TabFollows == ~ blind /\ ~ strayed => (~ synced => tab = "poll") /\ \A i \in P!Running : Led(i)

RestInv == CacheShape /\ OneIsRunning /\ StateTold /\ PollsTold /\ CopiesFollow /\ OneBusy /\ TabFollows

(* Sequences of events.                                                           *)
LEMMA AmongTail ==
    ASSUME NEW E, NEW s \in Seq(E), s # <<>>
    PROVE  /\ \A e : Among(e, s) => e = Head(s) \/ Among(e, Tail(s))
           /\ Calm(s) => Calm(Tail(s))
           /\ \A i : LastIs(s, i) =>
                  LastIs(Tail(s), i) \/ (Calm(Tail(s)) /\ Activates(Head(s)) /\ Head(s).item = i)
<1>1. Len(s) \in Nat \ {0} /\ Len(Tail(s)) = Len(s) - 1 /\ Head(s) = s[1]
  OBVIOUS
<1>2. \A n \in 1 .. Len(s) - 1 : Tail(s)[n] = s[n + 1]
  OBVIOUS
<1>3. ASSUME NEW e, Among(e, s), e # Head(s) PROVE Among(e, Tail(s))
  <2>1. PICK n \in 1 .. Len(s) : s[n] = e
    BY <1>3 DEF Among
  <2>2. n - 1 \in 1 .. Len(Tail(s)) /\ n = (n - 1) + 1
    BY <1>1, <1>3, <2>1
  <2>3. Tail(s)[n - 1] = e
    BY <1>1, <1>2, <2>1, <2>2
  <2> QED BY <2>2, <2>3 DEF Among
<1>4. ASSUME Calm(s) PROVE Calm(Tail(s))
  <2> SUFFICES ASSUME NEW n \in 1 .. Len(Tail(s)) PROVE ~ Activates(Tail(s)[n])
    BY DEF Calm
  <2>1. Tail(s)[n] = s[n + 1] /\ n + 1 \in 1 .. Len(s)
    BY <1>1, <1>2
  <2> QED BY <1>4, <2>1 DEF Calm
<1>5. ASSUME NEW i, LastIs(s, i)
      PROVE  LastIs(Tail(s), i) \/ (Calm(Tail(s)) /\ Activates(Head(s)) /\ Head(s).item = i)
  <2>1. PICK n \in 1 .. Len(s) : /\ Activates(s[n]) /\ s[n].item = i
                                 /\ \A m \in n + 1 .. Len(s) : ~ Activates(s[m])
    BY <1>5 DEF LastIs
  <2>2. CASE n = 1
    <3> SUFFICES ASSUME NEW m \in 1 .. Len(Tail(s)) PROVE ~ Activates(Tail(s)[m])
      BY <1>1, <2>1, <2>2 DEF Calm
    <3>1. Tail(s)[m] = s[m + 1] /\ m + 1 \in n + 1 .. Len(s)
      BY <1>1, <1>2, <2>2
    <3> QED BY <2>1, <3>1
  <2>3. CASE n # 1
    <3>1. PICK k \in 1 .. Len(Tail(s)) : k = n - 1 /\ Tail(s)[k] = s[n]
      BY <1>1, <1>2, <2>1, <2>3
    <3>2. ASSUME NEW m \in k + 1 .. Len(Tail(s)) PROVE ~ Activates(Tail(s)[m])
      <4>1. Tail(s)[m] = s[m + 1] /\ m + 1 \in n + 1 .. Len(s)
        BY <1>1, <1>2, <3>1
      <4> QED BY <2>1, <4>1
    <3>3. Activates(Tail(s)[k]) /\ Tail(s)[k].item = i
      BY <2>1, <3>1
    <3>4. PICK t : t = Tail(s)
      OBVIOUS
    <3>5. LastIs(t, i)
      BY <3>1, <3>2, <3>3, <3>4 DEF LastIs
    <3> QED BY <3>4, <3>5
  <2> QED BY <2>2, <2>3
<1> QED BY <1>3, <1>4, <1>5

LEMMA AmongAppend ==
    ASSUME NEW E, NEW s \in Seq(E), NEW x
    PROVE  /\ \A e : Among(e, s) => Among(e, Append(s, x))
           /\ Among(x, Append(s, x))
           /\ ~ Activates(x) /\ Calm(s) => Calm(Append(s, x))
           /\ ~ Activates(x) => \A i : LastIs(s, i) => LastIs(Append(s, x), i)
           /\ Activates(x) => LastIs(Append(s, x), x.item)
<1>1. Len(s) \in Nat /\ Len(Append(s, x)) = Len(s) + 1
  OBVIOUS
<1>2. Append(s, x)[Len(s) + 1] = x /\ \A n \in 1 .. Len(s) : Append(s, x)[n] = s[n]
  OBVIOUS
<1>3. PICK t : t = Append(s, x)
  OBVIOUS
<1>4. Len(t) = Len(s) + 1 /\ t[Len(s) + 1] = x /\ \A n \in 1 .. Len(s) : t[n] = s[n]
  BY <1>1, <1>2, <1>3
<1>5. \A n \in 1 .. Len(t) : n \in 1 .. Len(s) \/ n = Len(s) + 1
  BY <1>1, <1>4
<1>6. Len(s) + 1 \in 1 .. Len(t) /\ 1 .. Len(s) \subseteq 1 .. Len(t)
  BY <1>1, <1>4
<1>7. (\A e : Among(e, s) => Among(e, t)) /\ Among(x, t)
  BY <1>4, <1>6 DEF Among
<1>8. ASSUME ~ Activates(x), Calm(s) PROVE Calm(t)
  BY <1>4, <1>5, <1>8 DEF Calm
<1>9. ASSUME ~ Activates(x), NEW i, LastIs(s, i) PROVE LastIs(t, i)
  <2>1. PICK n \in 1 .. Len(s) : /\ Activates(s[n]) /\ s[n].item = i
                                 /\ \A m \in n + 1 .. Len(s) : ~ Activates(s[m])
    BY <1>9 DEF LastIs
  <2>2. ASSUME NEW m \in n + 1 .. Len(t) PROVE ~ Activates(t[m])
    <3>1. CASE m \in n + 1 .. Len(s)
      BY <1>1, <1>4, <2>1, <3>1
    <3>2. CASE m = Len(s) + 1
      BY <1>4, <1>9, <3>2
    <3> QED BY <1>1, <1>4, <3>1, <3>2
  <2> QED BY <1>4, <1>6, <2>1, <2>2 DEF LastIs
<1>10. ASSUME Activates(x) PROVE LastIs(t, x.item)
  <2>1. (Len(s) + 1) + 1 .. Len(t) = {}
    BY <1>1, <1>4
  <2> QED BY <1>4, <1>6, <1>10, <2>1 DEF LastIs
<1> QED BY <1>3, <1>7, <1>8, <1>9, <1>10

(* What a request publishes: nothing, one event, or a stop and a start.               *)
LEMMA AmongFew ==
    ASSUME NEW e, NEW d
    PROVE  /\ Among(e, <<e>>) /\ Among(e, <<d, e>>) /\ Among(d, <<d, e>>)
           /\ Calm(<<>>) /\ (~ Activates(e) => Calm(<<e>>))
           /\ Activates(e) => LastIs(<<e>>, e.item) /\ LastIs(<<d, e>>, e.item)
<1>1. Len(<<e>>) = 1 /\ <<e>>[1] = e /\ Len(<<d, e>>) = 2 /\ <<d, e>>[1] = d /\ <<d, e>>[2] = e
  OBVIOUS
<1>2. 1 .. 1 = {1} /\ 1 .. 2 = {1, 2} /\ 2 .. 1 = {} /\ 3 .. 2 = {} /\ Len(<<>>) = 0 /\ 1 .. 0 = {}
  OBVIOUS
<1>3. PICK s, t : s = <<e>> /\ t = <<d, e>>
  OBVIOUS
<1>4. Among(e, s) /\ Among(e, t) /\ Among(d, t)
  BY <1>1, <1>2, <1>3 DEF Among
<1>5. Calm(<<>>) /\ (~ Activates(e) => Calm(s))
  BY <1>1, <1>2, <1>3 DEF Calm
<1>6. ASSUME Activates(e) PROVE LastIs(s, e.item) /\ LastIs(t, e.item)
  <2>1. 1 + 1 .. Len(s) = {} /\ 2 + 1 .. Len(t) = {}
    BY <1>1, <1>3
  <2>2. 1 \in 1 .. Len(s) /\ s[1] = e /\ 2 \in 1 .. Len(t) /\ t[2] = e
    BY <1>1, <1>3
  <2> QED BY <1>6, <2>1, <2>2 DEF LastIs
<1> QED BY <1>3, <1>4, <1>5, <1>6

Events(evs) == \A e : Among(e, evs) => Due(e)'

(* A request's events are appended to nothing: nothing under way is lost.             *)
LEMMA DueStays ==
    ASSUME WayTypes, NEW h \in PageHosts, outbox[h] = <<>>, NEW evs,
           outbox' = [outbox EXCEPT ![h] = evs], UNCHANGED relay
    PROVE  (\A e : Due(e) => Due(e)') /\ Events(evs)
<1>1. outbox'[h] = evs /\ \A g \in PageHosts \ {h} : outbox'[g] = outbox[g]
  BY DEF WayTypes
<1>2. \A e : ~ Among(e, outbox[h])
  BY DEF Among
<1>3. ASSUME NEW e, Due(e) PROVE Due(e)'
  <2>1. CASE Among(e, relay)
    BY <2>1 DEF Due, Among
  <2>2. CASE ~ Among(e, relay)
    <3>1. PICK g \in PageHosts : Among(e, outbox[g])
      BY <1>3, <2>2 DEF Due
    <3>2. outbox'[g] = outbox[g]
      BY <1>1, <1>2, <3>1
    <3>3. Among(e, outbox'[g])
      BY <3>1, <3>2
    <3> QED BY <3>3 DEF Due, Among
  <2> QED BY <2>1, <2>2
<1>4. ASSUME NEW e, Among(e, evs) PROVE Due(e)'
  BY <1>1, <1>4 DEF Due, Among
<1> QED BY <1>3, <1>4 DEF Events

(* The list and the polls stay told of by what the hosts change on the server.        *)
LEMMA StateStays ==
    ASSUME StateTold, \A e : Due(e) => Due(e)', UNCHANGED stateQ, blind => blind',
           \A p \in PagePolls : board[p] # "off" => board'[p] # "off",
           \A p \in PagePolls : board'[p] = "active" =>
                board[p] = "active" \/ Due(P!Event("unlocked", p))'
    PROVE  StateTold'
<1>1. CASE ListFits(Latest(stateQ).open)
  <2>1. PICK open : open = Latest(stateQ).open
    OBVIOUS
  <2>2. open = Latest(stateQ').open
    BY <2>1
  <2>3. ListFits(open)'
    BY <1>1, <2>1 DEF ListFits
  <2> QED BY <2>2, <2>3 DEF StateTold, ListFits
<1>2. CASE \E e \in [kind : {"opened", "started", "stopped"}, item : P!Items] : Due(e)
  BY <1>2 DEF StateTold
<1>3. CASE blind \/ stateQ.fetch = "asked"
  BY <1>3 DEF StateTold
<1> QED BY <1>1, <1>2, <1>3 DEF StateTold

LEMMA PollsStay ==
    ASSUME PollsTold, \A e : Due(e) => Due(e)', UNCHANGED <<stateQ, pollQ>>, blind => blind',
           \A p \in PagePolls :
             \/ board'[p] = "off" \/ board'[p] = board[p]
             \/ \E kind \in {"started", "stopped", "locked", "unlocked"} : Due(P!Event(kind, p))'
    PROVE  PollsTold'
<1>1. CASE blind
  BY <1>1 DEF PollsTold
<1>2. CASE ~ blind
  <2>1. P!Shown' = P!Shown
    BY DEF P!Shown, P!ActivePoll, P!Loaded
  <2>2. ASSUME NEW p \in PagePolls PROVE PollTold(p)'
    <3>1. PollTold(p)
      BY <1>2 DEF PollsTold
    <3>2. CASE board'[p] = board[p] /\ Good(pollQ[p], p = P!Shown, board[p])
      BY <2>1, <3>2 DEF PollTold, Good
    <3>3. CASE \E kind \in {"started", "stopped", "locked", "unlocked"} : Due(P!Event(kind, p))
      <4>1. PICK kind \in {"started", "stopped", "locked", "unlocked"} : Due(P!Event(kind, p))
        BY <3>3
      <4>2. Due(P!Event(kind, p))'
        BY <4>1 DEF P!Event
      <4> QED BY <4>2 DEF PollTold
    <3> QED BY <3>1, <3>2, <3>3 DEF PollTold
  <2> QED BY <2>2 DEF PollsTold
<1> QED BY <1>1, <1>2

(* Where the page is led, when a request publishes what it changed.                  *)
LEMMA LedOn ==
    ASSUME WayTypes, TabFollows, OneBusy, ~ blind', ~ strayed', blind' = blind, strayed => strayed',
           UNCHANGED <<relay, tab, synced, stateQ>>,
           NEW h \in PageHosts, \A g \in PageHosts : outbox[g] = <<>>, NEW evs,
           outbox' = [outbox EXCEPT ![h] = evs],
           \/ \A i \in P!Running' : LastIs(evs, i)
           \/ Calm(evs) /\ P!Running' \subseteq P!Running
    PROVE  TabFollows'
<1>1. outbox'[h] = evs /\ \A g \in PageHosts \ {h} : outbox'[g] = outbox[g]
  BY DEF WayTypes
<1>2. (~ synced => tab = "poll") /\ \A i \in P!Running : Led(i)
  BY DEF TabFollows
<1>3. ASSUME NEW i \in P!Running', LastIs(evs, i) PROVE Led(i)'
  <2>1. LastIs(outbox'[h], i)
    BY <1>1, <1>3
  <2> QED BY <2>1 DEF Led, LastIs, Activates
<1>4. ASSUME NEW i \in P!Running', Calm(evs), i \in P!Running PROVE Led(i)'
  <2>1. Led(i) /\ \A g \in PageHosts : ~ LastIs(outbox[g], i)
    BY <1>2, <1>4 DEF LastIs
  <2>2. \A g \in PageHosts : Calm(outbox'[g])
    BY <1>1, <1>4, AmongFew
  <2>3. NoneOut'
    BY <2>2 DEF NoneOut, Calm, Activates
  <2>4. CASE LastIs(relay, i)
    BY <2>3, <2>4 DEF Led, LastIs, Activates
  <2>5. CASE Calm(relay) /\ (tab = P!TabOf(i) \/ ~ synced)
             /\ (stateQ.fetch = "answered" => i \in stateQ.reply.open)
    BY <2>3, <2>5 DEF Led, Calm, Activates, P!TabOf
  <2> QED BY <2>1, <2>4, <2>5 DEF Led
<1> QED BY <1>2, <1>3, <1>4 DEF TabFollows

LEMMA MoveRests ==
    ASSUME PageInv, RestInv, NEW h \in PageHosts, outbox[h] = <<>>, NEW evs,
           outbox' = [outbox EXCEPT ![h] = evs], opening' = [opening EXCEPT ![h] = none],
           UNCHANGED <<direct, relay, blind, P!page>>, strayed => strayed',
           ~ strayed' => \A g \in PageHosts \ {h} : P!Free(g),
           AtMostOne(P!Running'),
           \/ \E e \in [kind : {"opened", "started", "stopped"}, item : P!Items] : Among(e, evs)
           \/ \A p \in PagePolls :
                /\ board[p] # "off" => board'[p] # "off"
                /\ board'[p] = "active" => board[p] = "active" \/ Among(P!Event("unlocked", p), evs),
           \A p \in PagePolls :
             \/ board'[p] = "off" \/ board'[p] = board[p]
             \/ \E kind \in {"started", "stopped", "locked", "unlocked"} : Among(P!Event(kind, p), evs),
           (\A i \in P!Running' : LastIs(evs, i)) \/ (Calm(evs) /\ P!Running' \subseteq P!Running)
    PROVE  RestInv'
<1>1. WayTypes /\ UNCHANGED <<stateQ, pollQ, tab, synced>>
  BY DEF PageInv, P!page
<1>2. (\A e : Due(e) => Due(e)') /\ Events(evs)
  BY <1>1, DueStays
<1>3. CacheShape'
  BY <1>1 DEF RestInv, CacheShape, P!Idle, P!Loaded, AtMostOne
<1>4. OneIsRunning' /\ CopiesFollow'
  BY DEF RestInv, OneIsRunning, CopiesFollow, AtMostOne
<1>5. StateTold'
  <2>1. CASE \E e \in [kind : {"opened", "started", "stopped"}, item : P!Items] : Among(e, evs)
    BY <1>2, <2>1 DEF StateTold, Events
  <2>2. CASE \A p \in PagePolls :
               /\ board[p] # "off" => board'[p] # "off"
               /\ board'[p] = "active" => board[p] = "active" \/ Among(P!Event("unlocked", p), evs)
    <3>1. \A p \in PagePolls : Among(P!Event("unlocked", p), evs) => Due(P!Event("unlocked", p))'
      BY <1>2 DEF Events, P!Event
    <3> QED BY <1>1, <1>2, <2>2, <3>1, StateStays DEF RestInv
  <2> QED BY <2>1, <2>2
<1>6. PollsTold'
  <2>1. \A p \in PagePolls : \A kind \in {"started", "stopped", "locked", "unlocked"} :
           Among(P!Event(kind, p), evs) => Due(P!Event(kind, p))'
    BY <1>2 DEF Events, P!Event
  <2> QED BY <1>1, <1>2, <2>1, PollsStay DEF RestInv
<1>7. OneBusy'
  <2>1. opening'[h] = none /\ \A g \in PageHosts \ {h} : opening'[g] = opening[g] /\ outbox'[g] = outbox[g]
    BY <1>1 DEF WayTypes
  <2>2. \A g \in PageHosts : opening'[g] # none => outbox'[g] = <<>>
    BY <2>1 DEF RestInv, OneBusy
  <2>3. ASSUME ~ strayed' PROVE \A g \in PageHosts \ {h} : P!Free(g)'
    BY <2>1, <2>3 DEF P!Free
  <2> QED BY <2>2, <2>3 DEF OneBusy
<1>8. TabFollows'
  <2>1. CASE blind' \/ strayed'
    BY <2>1 DEF TabFollows
  <2>2. CASE ~ blind' /\ ~ strayed'
    <3>1. \A g \in PageHosts : outbox[g] = <<>>
      BY <2>2 DEF P!Free
    <3> QED BY <1>1, <2>2, <3>1, LedOn DEF RestInv
  <2> QED BY <2>1, <2>2
<1> QED BY <1>3, <1>4, <1>5, <1>6, <1>7, <1>8 DEF RestInv

(* A request that starts finds, unless requests overlap, no other one under way.      *)
LEMMA MoveFacts ==
    ASSUME PageInv, RestInv, NEW h \in PageHosts, P!Move(h)
    PROVE  /\ outbox[h] = <<>> /\ opening[h] = none /\ opening = [opening EXCEPT ![h] = none]
           /\ (strayed => strayed') /\ (~ strayed' => \A g \in PageHosts \ {h} : P!Free(g))
           /\ UNCHANGED P!page
BY DEF P!Move, P!Free, PageInv, WayTypes

LEMMA ShiftRests ==
    ASSUME PageInv, RestInv, NEW h \in PageHosts, NEW p \in PagePolls,
           P!StopPoll(h, p) \/ P!LockPoll(h, p) \/ P!UnlockPoll(h, p)
    PROVE  RestInv'
<1>1. PICK to \in P!Statuses, kind \in {"stopped", "locked", "unlocked"} :
        /\ P!Move(h) /\ board' = [board EXCEPT ![p] = to]
        /\ outbox' = [outbox EXCEPT ![h] = <<P!Event(kind, p)>>]
        /\ UNCHANGED <<opening, direct, relay, blind>>
        /\ \/ kind = "stopped" /\ to = "off"
           \/ kind = "locked" /\ to = "locked" /\ board[p] = "active"
           \/ kind = "unlocked" /\ to = "active" /\ P!Running = {}
  BY DEF P!StopPoll, P!LockPoll, P!UnlockPoll, P!Shift, P!Announce, P!Statuses
<1>2. PICK e : e = P!Event(kind, p)
  OBVIOUS
<1>3. e.kind = kind /\ e.item = p /\ p \in P!Items /\ board \in [P!Items -> P!Statuses] /\ ServerTypes
  BY <1>2 DEF P!Event, P!Items, PageInv, ServerTypes
<1>4. board'[p] = to /\ \A i \in P!Items \ {p} : board'[i] = board[i]
  BY <1>1, <1>3
<1>5. Among(e, <<e>>) /\ (Activates(e) => LastIs(<<e>>, p)) /\ (~ Activates(e) => Calm(<<e>>))
  BY <1>3, AmongFew
<1>6. \/ kind # "unlocked" /\ P!Running' \subseteq P!Running
      \/ kind = "unlocked" /\ P!Running' = {p}
  BY <1>1, <1>3, <1>4 DEF P!Running
<1>7. AtMostOne(P!Running')
  BY <1>6 DEF AtMostOne, RestInv, OneIsRunning
<1>8. (\A i \in P!Running' : LastIs(<<e>>, i)) \/ (Calm(<<e>>) /\ P!Running' \subseteq P!Running)
  BY <1>1, <1>3, <1>5, <1>6 DEF Activates
<1>9. \A q \in PagePolls : \/ board'[q] = "off" \/ board'[q] = board[q]
                           \/ \E k \in {"started", "stopped", "locked", "unlocked"} : Among(P!Event(k, q), <<e>>)
  BY <1>1, <1>2, <1>4, <1>5 DEF P!Items
<1>10. \/ \E x \in [kind : {"opened", "started", "stopped"}, item : P!Items] : Among(x, <<e>>)
       \/ \A q \in PagePolls :
            /\ board[q] # "off" => board'[q] # "off"
            /\ board'[q] = "active" => board[q] = "active" \/ Among(P!Event("unlocked", q), <<e>>)
  <2>1. CASE kind = "stopped"
    <3>1. e \in [kind : {"opened", "started", "stopped"}, item : P!Items]
      BY <1>2, <1>3, <2>1 DEF P!Event
    <3> QED BY <1>5, <3>1
  <2>2. CASE kind # "stopped"
    <3>1. \A q \in PagePolls : board[q] # "off" => board'[q] # "off"
      BY <1>1, <1>4, <2>2 DEF P!Items
    <3>2. \A q \in PagePolls : board'[q] = "active" => board[q] = "active" \/ Among(P!Event("unlocked", q), <<e>>)
      BY <1>1, <1>2, <1>4, <1>5, <2>2 DEF P!Items
    <3> QED BY <3>1, <3>2
  <2> QED BY <2>1, <2>2
<1> QED BY <1>1, <1>2, <1>7, <1>8, <1>9, <1>10, MoveFacts, MoveRests

LEMMA StartRests ==
    ASSUME PageInv, RestInv, NEW h \in PageHosts, NEW p \in PagePolls, P!StartPoll(h, p)
    PROVE RestInv'
<1>1. PICK evs, e :
        /\ P!Move(h) /\ board' = P!Activated(p) /\ outbox' = [outbox EXCEPT ![h] = evs]
        /\ UNCHANGED <<opening, direct, relay, blind>>
        /\ e = P!Event("started", p) /\ (evs = <<e>> \/ \E d : evs = <<d, e>>)
  <2>1. \/ outbox' = [outbox EXCEPT ![h] = <<P!Event("started", p)>>]
        \/ \E j : outbox' = [outbox EXCEPT ![h] = <<P!Event("stopped", j), P!Event("started", p)>>]
    BY DEF P!StartPoll, P!Announce
  <2> QED BY <2>1 DEF P!StartPoll, P!Announce
<1>2. e.kind = "started" /\ e.item = p /\ p \in P!Items
  BY <1>1 DEF P!Event, P!Items
<1>3. Among(e, evs) /\ LastIs(evs, p)
  BY <1>1, <1>2, AmongFew DEF Activates
<1>4. board'[p] = "active" /\ (\A i \in P!Items \ {p} : board'[i] = "off" \/ (board'[i] = board[i] /\ board[i] # "active"))
  BY <1>1, <1>2 DEF P!Activated
<1>5. P!Running' = {p}
  BY <1>2, <1>4 DEF P!Running
<1>6. AtMostOne(P!Running') /\ \A i \in P!Running' : LastIs(evs, i)
  BY <1>3, <1>5 DEF AtMostOne
<1>7. \A q \in PagePolls : \/ board'[q] = "off" \/ board'[q] = board[q]
                           \/ \E k \in {"started", "stopped", "locked", "unlocked"} : Among(P!Event(k, q), evs)
  BY <1>1, <1>3, <1>4 DEF P!Items
<1>8. e \in [kind : {"opened", "started", "stopped"}, item : P!Items]
  BY <1>1, <1>2 DEF P!Event
<1> QED BY <1>1, <1>3, <1>6, <1>7, <1>8, MoveFacts, MoveRests

LEMMA QuietMoveRests ==
    ASSUME PageInv, RestInv, NEW h \in PageHosts, P!EndSession(h) \/ \E i \in PageOthers : P!CloseOther(h, i)
    PROVE  RestInv'
<1>1. PICK evs :
        /\ P!Move(h) /\ outbox' = [outbox EXCEPT ![h] = evs]
        /\ UNCHANGED <<opening, direct, relay, blind>>
        /\ evs = <<>> \/ evs = <<P!Event("over", none)>>
        /\ board' = board \/ \E i \in PageOthers : board' = [board EXCEPT ![i] = "off"]
  BY DEF P!EndSession, P!CloseOther, P!Announce
<1>2. ~ Activates(P!Event("over", none))
  BY DEF Activates, P!Event
<1>3. Calm(evs)
  BY <1>1, <1>2, AmongFew
<1>4. P!Running' \subseteq P!Running /\ \A p \in PagePolls : board'[p] = board[p]
  BY <1>1, PartsAssumption DEF PartsAssumption, P!Running, PageInv, ServerTypes,
                               P!PageAssumption, P!Items
<1>5. AtMostOne(P!Running')
  BY <1>4 DEF AtMostOne, RestInv, OneIsRunning
<1> QED BY <1>1, <1>3, <1>4, <1>5, MoveFacts, MoveRests

(* Another interaction opens: by one commit, or after the stop of a poll is published. *)
LEMMA OpenedRests ==
    ASSUME PageInv, RestInv, NEW h \in PageHosts, NEW i \in PageOthers, outbox[h] = <<>>,
           outbox' = [outbox EXCEPT ![h] = <<P!Event("opened", i)>>],
           opening' = [opening EXCEPT ![h] = none], board' = P!Activated(i),
           UNCHANGED <<direct, relay, blind, P!page>>, strayed => strayed',
           ~ strayed' => \A g \in PageHosts \ {h} : P!Free(g)
    PROVE  RestInv'
<1>1. PICK e : e = P!Event("opened", i)
  OBVIOUS
<1>2. e.kind = "opened" /\ e.item = i /\ i \in P!Items /\ i \notin PagePolls
  BY <1>1, PartsAssumption DEF PartsAssumption, P!Event, P!Items, P!PageAssumption
<1>3. Among(e, <<e>>) /\ LastIs(<<e>>, i)
  BY <1>2, AmongFew DEF Activates
<1>4. board'[i] = "active" /\ (\A j \in P!Items \ {i} : board'[j] = "off" \/ (board'[j] = board[j] /\ board[j] # "active"))
  BY <1>2 DEF P!Activated
<1>5. P!Running' = {i}
  BY <1>2, <1>4 DEF P!Running
<1>6. AtMostOne(P!Running') /\ \A j \in P!Running' : LastIs(<<e>>, j)
  BY <1>3, <1>5 DEF AtMostOne
<1>7. \A q \in PagePolls : board'[q] = "off" \/ board'[q] = board[q]
  BY <1>2, <1>4 DEF P!Items
<1>8. e \in [kind : {"opened", "started", "stopped"}, item : P!Items]
  BY <1>1, <1>2 DEF P!Event
<1> QED BY <1>1, <1>3, <1>6, <1>7, <1>8, MoveRests

(* publish(): the copies are appended to both ways, or nobody hears.                  *)
LEMMA SendFollows ==
    ASSUME WayTypes, CopiesFollow, NEW e \in PageEvents, P!Send(e)
    PROVE  /\ CopiesFollow'
           /\ blind' \/ (relay' = Append(relay, e) /\ direct' = Append(direct, e) /\ blind' = blind)
<1>1. direct \in Seq(PageEvents) /\ relay \in Seq(PageEvents)
  BY DEF WayTypes
<1>2. CASE UNCHANGED <<direct, relay>> /\ blind' = TRUE
  BY <1>2 DEF CopiesFollow
<1>3. CASE direct' = Append(direct, e) /\ relay' = Append(relay, e) /\ UNCHANGED blind
  <2>1. /\ Len(direct) \in Nat /\ Len(relay) \in Nat
        /\ Len(direct') = Len(direct) + 1 /\ Len(relay') = Len(relay) + 1
        /\ direct'[Len(direct) + 1] = e /\ relay'[Len(relay) + 1] = e
        /\ \A n \in 1 .. Len(direct) : direct'[n] = direct[n]
        /\ \A n \in 1 .. Len(relay) : relay'[n] = relay[n]
    BY <1>1, <1>3
  <2>2. Len(direct) <= Len(relay) /\ \A n \in 1 .. Len(direct) : direct[n] = relay[n + Len(relay) - Len(direct)]
    BY DEF CopiesFollow
  <2>3. ASSUME NEW n \in 1 .. Len(direct')
        PROVE direct'[n] = relay'[n + Len(relay') - Len(direct')]
    <3>1. n + Len(relay') - Len(direct') = n + Len(relay) - Len(direct)
      BY <2>1
    <3>2. CASE n \in 1 .. Len(direct)
      <4>1. n + Len(relay) - Len(direct) \in 1 .. Len(relay)
        BY <2>1, <2>2, <3>2
      <4> QED BY <2>1, <2>2, <3>1, <3>2, <4>1
    <3>3. CASE n = Len(direct) + 1
      <4>1. n + Len(relay) - Len(direct) = Len(relay) + 1
        BY <2>1, <3>3
      <4> QED BY <2>1, <3>1, <3>3, <4>1
    <3> QED BY <2>1, <3>2, <3>3
  <2>4. CopiesFollow'
    BY <2>1, <2>2, <2>3 DEF CopiesFollow
  <2> QED BY <1>3, <2>4
<1> QED BY <1>2, <1>3 DEF P!Send

LEMMA PublishRests == ASSUME PageInv, RestInv, NEW h \in PageHosts, P!Publish(h) PROVE RestInv'
<1>1. /\ outbox[h] # <<>> /\ P!Send(Head(outbox[h])) /\ outbox' = [outbox EXCEPT ![h] = Tail(@)]
      /\ UNCHANGED <<board, opening, stateQ, pollQ, tab, synced, strayed>>
  BY DEF P!Publish, P!server, P!page
<1>2. WayTypes /\ outbox[h] \in Seq(PageEvents) /\ relay \in Seq(PageEvents) /\ Head(outbox[h]) \in PageEvents
  <2>1. WayTypes /\ outbox[h] \in Seq(PageEvents) /\ relay \in Seq(PageEvents)
    BY DEF PageInv, WayTypes
  <2> QED BY <1>1, <2>1
<1>3. PICK e \in PageEvents : e = Head(outbox[h])
  BY <1>2
<1>4. CopiesFollow' /\ (blind' \/ (relay' = Append(relay, e) /\ blind' = blind))
  BY <1>1, <1>2, <1>3, SendFollows DEF RestInv
<1>5. outbox'[h] = Tail(outbox[h]) /\ \A g \in PageHosts \ {h} : outbox'[g] = outbox[g]
  BY <1>1, <1>2 DEF WayTypes
<1>6. CacheShape' /\ OneIsRunning'
  BY <1>1 DEF RestInv, CacheShape, OneIsRunning, P!Running, P!Idle, P!Loaded, AtMostOne
<1>7. OneBusy'
  <2>1. \A g \in PageHosts : opening'[g] # none => outbox'[g] = <<>>
    BY <1>1, <1>5 DEF RestInv, OneBusy
  <2>2. \A g \in PageHosts : P!Free(g) => P!Free(g)'
    BY <1>1, <1>5 DEF P!Free
  <2> QED BY <1>1, <2>1, <2>2 DEF RestInv, OneBusy
<1>8. CASE blind'
  BY <1>4, <1>6, <1>7, <1>8 DEF RestInv, StateTold, PollsTold, TabFollows
<1>9. CASE ~ blind' /\ relay' = Append(relay, e) /\ blind' = blind
  <2>1. (\A x : Among(x, relay) => Among(x, relay')) /\ Among(e, relay')
    BY <1>2, <1>9, AmongAppend
  <2>2. ASSUME NEW x, Due(x) PROVE Due(x)'
    <3>1. CASE Among(x, relay)
      BY <2>1, <3>1 DEF Due, Among
    <3>2. ASSUME NEW g \in PageHosts, Among(x, outbox[g])
          PROVE Among(x, relay') \/ Among(x, outbox'[g])
      <4>1. CASE g = h
        BY <1>1, <1>2, <1>3, <1>5, <2>1, <3>2, <4>1, AmongTail
      <4>2. CASE g # h
        <5>1. outbox'[g] = outbox[g]
          BY <1>5, <4>2
        <5> QED BY <3>2, <5>1
      <4> QED BY <4>1, <4>2
    <3> QED BY <2>2, <3>1, <3>2 DEF Due, Among
  <2>3. StateTold' /\ PollsTold'
    BY <1>1, <1>9, <2>2, StateStays, PollsStay DEF RestInv
  <2>4. TabFollows'
    <3> SUFFICES ASSUME ~ strayed PROVE TabFollows'
      BY <1>1 DEF TabFollows
    <3>1. (~ synced => tab = "poll") /\ \A i \in P!Running : Led(i)
      BY <1>9 DEF RestInv, TabFollows
    <3>2. \A g \in PageHosts \ {h} : outbox[g] = <<>>
      BY <1>1 DEF RestInv, OneBusy, P!Free
    <3>3. \A g \in PageHosts \ {h} : Calm(outbox'[g]) /\ \A i : ~ LastIs(outbox[g], i)
      <4>1. Calm(<<>>) /\ \A i : ~ LastIs(<<>>, i)
        <5>1. Len(<<>>) = 0 /\ 1 .. 0 = {}
          OBVIOUS
        <5> QED BY <5>1, AmongFew DEF LastIs
      <4>2. \A g \in PageHosts \ {h} : outbox[g] = <<>> /\ outbox'[g] = <<>>
        BY <1>5, <3>2
      <4> QED BY <4>1, <4>2
    <3>4. ASSUME NEW i \in P!Running PROVE Led(i)'
      <4>1. CASE LastIs(outbox[h], i)
        <5>1. CASE LastIs(Tail(outbox[h]), i)
          <6>1. LastIs(outbox'[h], i)
            BY <1>5, <5>1
          <6> QED BY <6>1 DEF Led, LastIs, Activates
        <5>2. CASE Calm(Tail(outbox[h])) /\ Activates(e) /\ e.item = i
          <6>1. LastIs(relay', i)
            BY <1>2, <1>9, <5>2, AmongAppend
          <6>2. \A g \in PageHosts : Calm(outbox'[g])
            BY <1>5, <3>3, <5>2
          <6>3. NoneOut' /\ LastIs(relay, i)'
            BY <6>1, <6>2 DEF NoneOut, LastIs, Calm, Activates
          <6> QED BY <6>3 DEF Led
        <5> QED BY <1>1, <1>2, <1>3, <4>1, <5>1, <5>2, AmongTail
      <4>2. CASE NoneOut
        <5>1. Calm(outbox[h]) /\ Calm(Tail(outbox[h]))
          BY <1>1, <1>2, <4>2, AmongTail DEF NoneOut
        <5>2. ~ Activates(e)
          <6>1. Len(outbox[h]) \in Nat \ {0} /\ Head(outbox[h]) = outbox[h][1]
            BY <1>1, <1>2
          <6> QED BY <1>3, <5>1, <6>1 DEF Calm
        <5>3. \A g \in PageHosts : Calm(outbox'[g])
          BY <1>5, <3>3, <5>1
        <5>4. NoneOut'
          BY <5>3 DEF NoneOut, Calm, Activates
        <5>5. (LastIs(relay, i) => LastIs(relay', i)) /\ (Calm(relay) => Calm(relay'))
          BY <1>2, <1>9, <5>2, AmongAppend
        <5>6. (LastIs(relay, i) => LastIs(relay, i)') /\ (Calm(relay) => Calm(relay)')
          BY <5>5 DEF LastIs, Calm, Activates
        <5>7. LastIs(relay, i) \/ (/\ Calm(relay) /\ (tab = P!TabOf(i) \/ ~ synced)
                                   /\ (stateQ.fetch = "answered" => i \in stateQ.reply.open))
          BY <3>1, <4>2, <5>1 DEF Led, LastIs, NoneOut, Calm
        <5> QED BY <1>1, <5>4, <5>6, <5>7 DEF Led, P!TabOf
      <4> QED BY <3>1, <3>3, <4>1, <4>2 DEF Led
    <3>5. P!Running' = P!Running
      BY <1>1 DEF P!Running
    <3> QED BY <1>1, <3>1, <3>4, <3>5 DEF TabFollows
  <2> QED BY <1>4, <1>6, <1>7, <2>3, <2>4 DEF RestInv
<1> QED BY <1>4, <1>8, <1>9

LEMMA OpeningRests ==
    ASSUME PageInv, RestInv, NEW h \in PageHosts, NEW i \in PageOthers, NEW p \in P!Running \cap PagePolls,
           P!Move(h), P!Send(P!Event("stopped", p)), opening' = [opening EXCEPT ![h] = i],
           UNCHANGED <<board, outbox>>
    PROVE  RestInv'
<1>1. PICK e : e = P!Event("stopped", p)
  OBVIOUS
<1>2. e \in PageEvents /\ ~ Activates(e)
  BY <1>1, EventOK DEF P!Items, P!Event, Activates
<1>3. WayTypes /\ relay \in Seq(PageEvents) /\ UNCHANGED <<stateQ, pollQ, tab, synced>>
  BY DEF PageInv, WayTypes, P!Move, P!page
<1>4. CopiesFollow' /\ (blind' \/ (relay' = Append(relay, e) /\ blind' = blind))
  BY <1>1, <1>2, <1>3, SendFollows DEF RestInv
<1>5. /\ outbox[h] = <<>> /\ (strayed => strayed') /\ (~ strayed' => \A g \in PageHosts \ {h} : P!Free(g))
  BY MoveFacts
<1>6. CacheShape' /\ OneIsRunning'
  BY <1>3 DEF RestInv, CacheShape, OneIsRunning, P!Running, P!Idle, P!Loaded, AtMostOne
<1>7. OneBusy'
  <2>1. \A g \in PageHosts \ {h} : opening'[g] = opening[g]
    BY <1>3 DEF WayTypes
  <2>2. \A g \in PageHosts : opening'[g] # none => outbox'[g] = <<>>
    BY <1>5, <2>1 DEF RestInv, OneBusy
  <2>3. ASSUME ~ strayed' PROVE \A g \in PageHosts \ {h} : P!Free(g)'
    BY <1>5, <2>1, <2>3 DEF P!Free
  <2> QED BY <2>2, <2>3 DEF OneBusy
<1>8. CASE blind'
  BY <1>4, <1>6, <1>7, <1>8 DEF RestInv, StateTold, PollsTold, TabFollows
<1>9. CASE ~ blind' /\ relay' = Append(relay, e) /\ blind' = blind
  <2>1. \A x : Among(x, relay) => Among(x, relay')
    BY <1>3, <1>9, AmongAppend
  <2>2. \A x : Due(x) => Due(x)'
    BY <2>1 DEF Due, Among
  <2>3. StateTold' /\ PollsTold'
    BY <1>3, <1>9, <2>2, StateStays, PollsStay DEF RestInv
  <2>4. (Calm(relay) => Calm(relay)') /\ \A j : LastIs(relay, j) => LastIs(relay, j)'
    <3>1. (Calm(relay) => Calm(relay')) /\ \A j : LastIs(relay, j) => LastIs(relay', j)
      BY <1>2, <1>3, <1>9, AmongAppend
    <3> QED BY <3>1 DEF Calm, LastIs, Activates
  <2>5. TabFollows'
    <3> SUFFICES ASSUME ~ strayed' PROVE TabFollows'
      BY DEF TabFollows
    <3>1. (~ synced => tab = "poll") /\ \A j \in P!Running : Led(j)
      BY <1>5, <1>9 DEF RestInv, TabFollows
    <3>2. ASSUME NEW j \in P!Running PROVE Led(j)'
      <4>1. \A g \in PageHosts : LastIs(outbox[g], j) => LastIs(outbox[g], j)'
        BY DEF LastIs, Activates
      <4>2. NoneOut => NoneOut'
        BY DEF NoneOut, Calm, Activates
      <4>3. Led(j)
        BY <3>1
      <4>4. CASE \E g \in PageHosts : LastIs(outbox[g], j)
        BY <4>1, <4>4 DEF Led
      <4>5. CASE ~ \E g \in PageHosts : LastIs(outbox[g], j)
        BY <1>3, <2>4, <4>2, <4>3, <4>5 DEF Led, P!TabOf
      <4> QED BY <4>4, <4>5
    <3>3. P!Running' = P!Running
      BY DEF P!Running
    <3> QED BY <1>3, <3>1, <3>2, <3>3 DEF TabFollows
  <2> QED BY <1>4, <1>6, <1>7, <2>3, <2>5 DEF RestInv
<1> QED BY <1>4, <1>8, <1>9

LEMMA HostRests == ASSUME PageInv, RestInv, P!HostSteps PROVE RestInv'
<1>1. PICK h \in PageHosts :
       \/ P!OpenCommits(h) \/ P!Publish(h) \/ P!EndSession(h)
       \/ \E p \in PagePolls : P!StartPoll(h, p) \/ P!StopPoll(h, p) \/ P!LockPoll(h, p) \/ P!UnlockPoll(h, p)
       \/ \E i \in PageOthers : P!OpenOther(h, i) \/ P!CloseOther(h, i)
  BY DEF P!HostSteps
<1>2. CASE P!OpenCommits(h)
  <2>1. PICK i : i = opening[h]
    OBVIOUS
  <2>2. /\ i # none /\ board' = P!Activated(i) /\ opening' = [opening EXCEPT ![h] = none]
        /\ outbox' = [outbox EXCEPT ![h] = <<P!Event("opened", i)>>]
        /\ UNCHANGED <<direct, relay, P!page, blind, strayed>>
    BY <1>2, <2>1 DEF P!OpenCommits, P!past
  <2>3. i \in PageOthers /\ outbox[h] = <<>>
    BY <2>1, <2>2 DEF PageInv, WayTypes, RestInv, OneBusy
  <2>4. ~ strayed' => \A g \in PageHosts \ {h} : P!Free(g)
    BY <2>1, <2>2 DEF RestInv, OneBusy, P!Free
  <2> QED BY <2>2, <2>3, <2>4, OpenedRests
<1>3. ASSUME NEW i \in PageOthers, P!OpenOther(h, i) PROVE RestInv'
  <2>1. CASE /\ \E p \in P!Running \cap PagePolls : P!Send(P!Event("stopped", p))
             /\ opening' = [opening EXCEPT ![h] = i] /\ UNCHANGED <<board, outbox>>
    BY <1>3, <2>1, OpeningRests DEF P!OpenOther
  <2>2. CASE /\ board' = P!Activated(i) /\ outbox' = [outbox EXCEPT ![h] = <<P!Event("opened", i)>>]
             /\ UNCHANGED <<opening, direct, relay, blind>>
    BY <1>3, <2>2, MoveFacts, OpenedRests DEF P!OpenOther
  <2> QED BY <1>3, <2>1, <2>2 DEF P!OpenOther, P!Announce
<1> QED BY <1>1, <1>2, <1>3, PublishRests, QuietMoveRests, StartRests, ShiftRests

(* What a rendering leaves of the caches and of the tab.                             *)
LEMMA RenderFacts ==
    ASSUME NEW q, NEW ps, NEW k, NEW t, NEW o, P!Render(q, ps, k, t, o)
    PROVE  /\ stateQ' = q /\ P!Shown' = P!ActivePoll(q)
           /\ P!Loaded(q) /\ synced /\ q.data.open \subseteq k => tab' = t /\ synced' = TRUE
           /\ ~ P!Loaded(q) => tab' = t /\ synced' = synced
<1>1. stateQ' = q
  BY DEF P!Render
<1>2. P!Shown' = P!ActivePoll(q)
  BY <1>1 DEF P!Shown, P!ActivePoll, P!Loaded
<1>3. ASSUME P!Loaded(q), synced, q.data.open \subseteq k PROVE tab' = t /\ synced' = TRUE
  <2>1. q.data.open \ k = {}
    BY <1>3
  <2> QED BY <1>3, <2>1 DEF P!Render, P!Sync
<1>4. ~ P!Loaded(q) => tab' = t /\ synced' = synced
  BY DEF P!Render, P!Sync
<1> QED BY <1>1, <1>2, <1>3, <1>4 DEF P!Render

LEMMA ListPatched ==
    ASSUME PageInv, CacheShape, NEW open \in SUBSET P!Items
    PROVE  /\ P!Loaded(stateQ) => /\ P!StateRefetched(open).fetch = "asked"
                                  /\ P!StateRefetched(open).reply = NoData
                                  /\ P!StateRefetched(open).data.open = open
                                  /\ P!Loaded(P!StateRefetched(open))
           /\ ~ P!Loaded(stateQ) => P!StateRefetched(open) = stateQ
<1>1. stateQ \in P!Queries(P!Snapshots)
  BY DEF PageInv, CacheTypes
<1>2. CASE P!Loaded(stateQ)
  <2>1. PICK d : d = [stateQ.data EXCEPT !.open = open]
    OBVIOUS
  <2>2. d \in P!Snapshots /\ d.open = open
    BY <1>1, <1>2, <2>1 DEF P!Queries, P!Loaded, P!Snapshots
  <2>3. d # NoData
    BY <2>2, PartsAssumption DEF PartsAssumption, P!PageAssumption
  <2>4. PICK x : x = P!Patched(stateQ, d)
    OBVIOUS
  <2>5. x = [data |-> d, fetch |-> stateQ.fetch, reply |-> stateQ.reply, stale |-> FALSE]
    BY <1>1, <1>2, <2>4 DEF P!Patched, P!Written, P!Queries
  <2>6. P!Refetched(x) = [data |-> d, fetch |-> "asked", reply |-> NoData, stale |-> FALSE]
    BY <2>3, <2>5 DEF P!Refetched, P!Loaded
  <2>7. P!StateRefetched(open) = P!Refetched(x)
    BY <1>2, <2>1, <2>4 DEF P!StateRefetched, P!Opens
  <2> QED BY <1>2, <2>2, <2>3, <2>6, <2>7 DEF P!Loaded
<1>3. CASE ~ P!Loaded(stateQ)
  BY <1>3 DEF P!StateRefetched, P!Patched, P!Refetched, CacheShape
<1> QED BY <1>2, <1>3

LEMMA GoodSteps ==
    ASSUME NEW x \in P!Queries(P!Details), NEW st
    PROVE  /\ Good(x, FALSE, st) => Good(P!Mounted(x), TRUE, st)
           /\ Good(x, TRUE, st) => Good(x, FALSE, st)
           /\ P!Idle(x) \/ P!Loaded(x) => Good(P!Refetched(x), TRUE, st) /\ Good(P!Refetched(x), FALSE, st)
           /\ x.fetch # "answered" => Good(P!Marked(x), FALSE, st)
           /\ (x.fetch = "answered" => x.reply # NoData) =>
                 /\ P!Mounted(x).fetch = "answered" => P!Mounted(x).reply # NoData
                 /\ P!Refetched(x).fetch = "answered" => P!Refetched(x).reply # NoData
                 /\ P!Marked(x).fetch = "answered" => P!Marked(x).reply # NoData
<1>1. x = [data |-> x.data, fetch |-> x.fetch, reply |-> x.reply, stale |-> x.stale]
      /\ x.fetch \in {"idle", "asked", "answered"} /\ x.stale \in BOOLEAN
  BY DEF P!Queries, P!Fetches
<1>2. PICK m : m = P!Marked(x)
  OBVIOUS
<1>3. m.data = x.data /\ m.fetch = x.fetch /\ m.reply = x.reply /\ (m.stale <=> P!Loaded(x))
  <2>1. PICK b \in BOOLEAN : b = P!Loaded(x)
    BY DEF P!Loaded
  <2>2. m = [x EXCEPT !.stale = b]
    BY <1>2, <2>1 DEF P!Marked
  <2>3. m.stale = b
    BY <1>1, <2>2
  <2> QED BY <1>1, <2>1, <2>2, <2>3
<1>4. x.fetch # "answered" => Good(m, FALSE, st)
  BY <1>1, <1>3 DEF Good, P!Idle, P!Loaded
<1>5. PICK r : r = P!Refetched(x)
  OBVIOUS
<1>6. r = x \/ r.fetch = "asked"
  BY <1>1, <1>5 DEF P!Refetched
<1>7. P!Idle(x) \/ P!Loaded(x) => r.fetch = "asked"
  BY <1>1, <1>5 DEF P!Refetched, P!Idle, P!Loaded
<1>8. PICK n : n = P!Mounted(x)
  OBVIOUS
<1>9. n = x \/ n.fetch = "asked"
  BY <1>1, <1>8 DEF P!Mounted, P!Fetched
<1>10. ASSUME Good(x, FALSE, st) PROVE Good(n, TRUE, st)
  <2>1. CASE n.fetch = "asked"
    BY <2>1 DEF Good
  <2>2. CASE P!Idle(x) /\ (~ P!Loaded(x) \/ x.stale)
    BY <1>1, <1>8, <2>2 DEF P!Mounted, P!Fetched, Good
  <2>3. CASE n = x /\ ~ (P!Idle(x) /\ (~ P!Loaded(x) \/ x.stale))
    BY <1>10, <2>3 DEF Good
  <2> QED BY <1>9, <2>1, <2>2, <2>3
<1>11. Good(x, TRUE, st) => Good(x, FALSE, st)
  BY DEF Good
<1> QED BY <1>2, <1>3, <1>4, <1>5, <1>6, <1>7, <1>8, <1>9, <1>10, <1>11 DEF Good

LEMMA RenderGood ==
    ASSUME NEW q, NEW ps \in [PagePolls -> P!Queries(P!Details)], NEW k, NEW t, NEW o,
           P!Render(q, ps, k, t, o), NEW p \in PagePolls, NEW st, Good(ps[p], p = P!Shown, st)
    PROVE  Good(pollQ'[p], p = P!Shown', st)
<1>1. PICK x \in P!Queries(P!Details) : x = ps[p]
  OBVIOUS
<1>2. P!Shown' = P!ActivePoll(q)
      /\ pollQ'[p] = IF P!ActivePoll(q) = p /\ p # P!Shown THEN P!Mounted(x) ELSE x
  <2>1. P!Shown' = P!ActivePoll(q)
    BY RenderFacts
  <2>2. pollQ'[p] = IF P!ActivePoll(q) = p /\ p # P!Shown THEN P!Mounted(x) ELSE x
    BY <1>1 DEF P!Render
  <2> QED BY <2>1, <2>2
<1>3. CASE p = P!Shown' /\ p # P!Shown
  <2>1. Good(x, FALSE, st)
    BY <1>1, <1>3 DEF Good
  <2>2. Good(P!Mounted(x), TRUE, st)
    BY <2>1, GoodSteps
  <2>3. pollQ'[p] = P!Mounted(x)
    BY <1>2, <1>3
  <2> QED BY <1>3, <2>2, <2>3 DEF Good
<1>4. CASE p # P!Shown'
  <2>1. Good(x, FALSE, st)
    BY <1>1, GoodSteps DEF Good
  <2> QED BY <1>2, <1>4, <2>1 DEF Good
<1>5. CASE p = P!Shown' /\ p = P!Shown
  <2>1. Good(x, TRUE, st)
    BY <1>1, <1>5 DEF Good
  <2> QED BY <1>2, <1>5, <2>1 DEF Good
<1> QED BY <1>3, <1>4, <1>5

(* What an event does to the caches: its kinds, and whether the first load was there.    *)
LEMMA HandleFacts ==
    ASSUME PageInv, CacheShape, NEW e \in PageEvents, P!Handle(e)
    PROVE  /\ Refetches(e) /\ P!Loaded(stateQ) =>
                 stateQ'.fetch = "asked" /\ stateQ'.reply = NoData /\ P!Loaded(stateQ')
                 /\ AtMostOne(stateQ'.data.open \cap PagePolls)
           /\ ~ Refetches(e) \/ ~ P!Loaded(stateQ) => stateQ' = stateQ
           /\ P!Loaded(stateQ) =>
                 synced' = TRUE /\ tab' = IF e.kind = "opened" THEN e.item
                                          ELSE IF e.kind = "started" THEN "poll" ELSE tab
           /\ ~ P!Loaded(stateQ) => synced' = synced
<1>0. /\ stateQ \in P!Queries(P!Snapshots) /\ known \subseteq P!Items
      /\ (P!Loaded(stateQ) => known = stateQ.data.open /\ synced /\ synced = TRUE)
      /\ (P!Loaded(stateQ) => AtMostOne(stateQ.data.open \cap PagePolls))
  BY DEF PageInv, CacheTypes, SeenTypes, CacheShape
<1>1. P!OpenNow \subseteq P!Items /\ (P!Loaded(stateQ) => P!OpenNow = known)
  BY <1>0 DEF P!OpenNow, P!Queries, P!Snapshots, P!Loaded
<1>2. PICK i : i = e.item
  OBVIOUS
<1>3. e.kind # "over" => i \in P!Items
  BY <1>2 DEF PageEvents
<1>4. CASE e.kind = "opened"
  <2>1. PICK open \in SUBSET P!Items : open = P!OpenNow \cup {i}
    BY <1>1, <1>3, <1>4
  <2>2. P!Render(P!StateRefetched(open), pollQ, known \cup {i}, P!TabOf(i), ok)
    BY <1>2, <1>4, <2>1 DEF P!Handle, P!OnInteractionStarted
  <2>3. i \notin PagePolls /\ P!TabOf(i) = i
    BY <1>2, <1>4, PartsAssumption DEF PartsAssumption, PageEvents, P!PageAssumption,
                                       P!TabOf
  <2>4. PICK q : q = P!StateRefetched(open)
    OBVIOUS
  <2>5. P!Render(q, pollQ, known \cup {i}, P!TabOf(i), ok)
    BY <2>2, <2>4
  <2>6. stateQ' = q /\ (P!Loaded(q) /\ synced /\ q.data.open \subseteq known \cup {i} => tab' = i /\ synced' = TRUE)
        /\ (~ P!Loaded(q) => synced' = synced)
    BY <2>3, <2>5, RenderFacts
  <2>7. /\ P!Loaded(stateQ) => q.fetch = "asked" /\ q.reply = NoData /\ q.data.open = open /\ P!Loaded(q)
        /\ ~ P!Loaded(stateQ) => q = stateQ
    BY <2>4, ListPatched
  <2>8. P!Loaded(stateQ) => AtMostOne(open \cap PagePolls)
    BY <1>0, <1>1, <2>1, <2>3 DEF AtMostOne
  <2> QED BY <1>0, <1>1, <1>2, <1>4, <2>1, <2>6, <2>7, <2>8 DEF Refetches
<1>5. CASE e.kind = "started"
  <2>1. PICK open \in SUBSET P!Items : open = (P!OpenNow \ PagePolls) \cup {i}
    BY <1>1, <1>3, <1>5
  <2>2. PICK q, ps : /\ q = P!StateRefetched(open) /\ ps = P!PollInvalidated(i)
                     /\ P!Render(q, ps, known \cup {i}, "poll", FALSE)
    BY <1>2, <1>5, <2>1 DEF P!Handle, P!OnPollStarted
  <2>6. stateQ' = q /\ (P!Loaded(q) /\ synced /\ q.data.open \subseteq known \cup {i} => tab' = "poll" /\ synced' = TRUE)
        /\ (~ P!Loaded(q) => synced' = synced)
    BY <2>2, RenderFacts
  <2>7. /\ P!Loaded(stateQ) => q.fetch = "asked" /\ q.reply = NoData /\ q.data.open = open /\ P!Loaded(q)
        /\ ~ P!Loaded(stateQ) => q = stateQ
    BY <2>2, ListPatched
  <2>8. AtMostOne(open \cap PagePolls)
    BY <2>1 DEF AtMostOne
  <2> QED BY <1>0, <1>1, <1>2, <1>5, <2>1, <2>6, <2>7, <2>8 DEF Refetches
<1>6. CASE e.kind = "stopped"
  <2>1. PICK open \in SUBSET P!Items : open = P!OpenNow \ {i}
    BY <1>1
  <2>2. PICK q, ps : /\ q = P!StateRefetched(open) /\ P!Render(q, ps, known \ {i}, tab, ok)
    BY <1>2, <1>6, <2>1 DEF P!Handle, P!OnPollStopped
  <2>6. stateQ' = q /\ (P!Loaded(q) /\ synced /\ q.data.open \subseteq known \ {i} => tab' = tab /\ synced' = TRUE)
        /\ (~ P!Loaded(q) => synced' = synced)
    BY <2>2, RenderFacts
  <2>7. /\ P!Loaded(stateQ) => q.fetch = "asked" /\ q.reply = NoData /\ q.data.open = open /\ P!Loaded(q)
        /\ ~ P!Loaded(stateQ) => q = stateQ
    BY <2>2, ListPatched
  <2>8. P!Loaded(stateQ) => AtMostOne(open \cap PagePolls)
    BY <1>0, <1>1, <2>1 DEF AtMostOne
  <2> QED BY <1>0, <1>1, <1>2, <1>6, <2>1, <2>6, <2>7, <2>8 DEF Refetches
<1>7. CASE e.kind \in {"locked", "unlocked"}
  <2>1. PICK ps : P!Render(stateQ, ps, known, tab, ok)
    BY <1>2, <1>7 DEF P!Handle, P!OnPollLockChange
  <2>2. stateQ' = stateQ /\ (P!Loaded(stateQ) /\ synced /\ stateQ.data.open \subseteq known => tab' = tab /\ synced' = TRUE)
        /\ (~ P!Loaded(stateQ) => synced' = synced)
    BY <2>1, RenderFacts
  <2> QED BY <1>0, <1>7, <2>2 DEF Refetches
<1>8. CASE e.kind = "over"
  <2>1. UNCHANGED <<stateQ, synced, tab>>
    BY <1>8 DEF P!Handle, P!OnSessionEnded
  <2> QED BY <1>0, <1>8, <2>1 DEF Refetches
<1> QED BY <1>4, <1>5, <1>6, <1>7, <1>8 DEF PageEvents

LEMMA HandleGood ==
    ASSUME PageInv, NEW e \in PageEvents, P!Handle(e), ~ blind', NEW p \in PagePolls, NEW st,
           Good(pollQ[p], p = P!Shown, st) \/ (e.item = p /\ e.kind \notin {"opened", "over"})
    PROVE  Good(pollQ'[p], p = P!Shown', st)
<1>0. ~ P!Unseen(e) /\ pollQ \in [PagePolls -> P!Queries(P!Details)]
  BY DEF P!Handle, PageInv, CacheTypes
<1>1. PICK i : i = e.item
  OBVIOUS
<1>2. PICK ps : ps = P!PollInvalidated(i)
  OBVIOUS
<1>3. ps \in [PagePolls -> P!Queries(P!Details)]
  BY <1>2, InvalidatedOK
<1>4. ASSUME e.item \in PagePolls, e.kind # "opened" PROVE Good(ps[p], p = P!Shown, st)
  <2>1. CASE p # i
    <3>1. ps[p] = pollQ[p]
      BY <1>0, <1>2, <2>1 DEF P!PollInvalidated
    <3> QED BY <1>1, <2>1, <3>1
  <2>2. CASE p = i
    <3>1. PICK x \in P!Queries(P!Details) : x = pollQ[p]
      BY <1>0
    <3>2. (P!Idle(x) \/ P!Loaded(x)) /\ (p # P!Shown => x.fetch # "answered")
      BY <1>0, <1>1, <2>2, <3>1 DEF P!Unseen
    <3>3. ps[p] = IF p = P!Shown THEN P!Refetched(x) ELSE P!Marked(x)
      BY <1>0, <1>2, <2>2, <3>1 DEF P!PollInvalidated
    <3>4. CASE p = P!Shown
      <4>1. Good(P!Refetched(x), TRUE, st)
        BY <3>2, GoodSteps
      <4> QED BY <3>3, <3>4, <4>1 DEF Good
    <3>5. CASE p # P!Shown
      <4>1. Good(P!Marked(x), FALSE, st)
        BY <3>2, <3>5, GoodSteps
      <4> QED BY <3>3, <3>5, <4>1 DEF Good
    <3> QED BY <3>4, <3>5
  <2> QED BY <2>1, <2>2
<1>5. CASE e.kind = "opened"
  <2>1. PICK q, k, t : P!Render(q, pollQ, k, t, ok)
    BY <1>5 DEF P!Handle, P!OnInteractionStarted
  <2> QED BY <1>0, <1>5, <2>1, RenderGood
<1>6. CASE e.kind = "started"
  <2>1. PICK q, k : P!Render(q, ps, k, "poll", FALSE)
    BY <1>1, <1>2, <1>6 DEF P!Handle, P!OnPollStarted
  <2> QED BY <1>3, <1>4, <1>6, <2>1, RenderGood DEF PageEvents
<1>7. CASE e.kind = "stopped" /\ i \in PagePolls
  <2>1. PICK q, k : P!Render(q, ps, k, tab, ok)
    BY <1>1, <1>2, <1>7 DEF P!Handle, P!OnPollStopped
  <2> QED BY <1>1, <1>3, <1>4, <1>7, <2>1, RenderGood
<1>8. CASE e.kind = "stopped" /\ i \notin PagePolls
  <2>1. PICK q, k : P!Render(q, pollQ, k, tab, ok)
    BY <1>1, <1>8 DEF P!Handle, P!OnPollStopped
  <2> QED BY <1>0, <1>1, <1>8, <2>1, RenderGood
<1>9. CASE e.kind \in {"locked", "unlocked"}
  <2>1. P!Render(stateQ, ps, known, tab, ok)
    BY <1>1, <1>2, <1>9 DEF P!Handle, P!OnPollLockChange
  <2> QED BY <1>3, <1>4, <1>9, <2>1, RenderGood DEF PageEvents
<1>10. CASE e.kind = "over"
  <2>1. UNCHANGED <<stateQ, pollQ>> /\ P!Shown' = P!Shown
    BY <1>10 DEF P!Handle, P!OnSessionEnded, P!Shown, P!ActivePoll, P!Loaded
  <2> QED BY <1>10, <2>1 DEF Good
<1> QED BY <1>5, <1>6, <1>7, <1>8, <1>9, <1>10 DEF PageEvents

(* A poll's reply is data, whatever the event does to the query.                     *)
LEMMA HandleReplies ==
    ASSUME PageInv, CacheShape, NEW e \in PageEvents, P!Handle(e), NEW p \in PagePolls
    PROVE  pollQ'[p].fetch = "answered" => pollQ'[p].reply # NoData
<1>0. pollQ \in [PagePolls -> P!Queries(P!Details)] /\ pollQ[p] \in P!Queries(P!Details)
      /\ (pollQ[p].fetch = "answered" => pollQ[p].reply # NoData)
  BY DEF PageInv, CacheTypes, CacheShape
<1>1. ASSUME NEW ps \in [PagePolls -> P!Queries(P!Details)], NEW q, NEW k, NEW t, NEW o, P!Render(q, ps, k, t, o),
             ps = pollQ \/ \E i : ps = P!PollInvalidated(i)
      PROVE  pollQ'[p].fetch = "answered" => pollQ'[p].reply # NoData
  <2>1. PICK x \in P!Queries(P!Details) : x = pollQ[p]
    BY <1>0
  <2>2. PICK y \in P!Queries(P!Details) : y = ps[p]
    BY <1>1
  <2>3. y \in {x, P!Refetched(x), P!Marked(x)}
    BY <1>0, <1>1, <2>1, <2>2 DEF P!PollInvalidated
  <2>4. y.fetch = "answered" => y.reply # NoData
    BY <1>0, <2>1, <2>3, GoodSteps
  <2>5. pollQ'[p] \in {y, P!Mounted(y)}
    BY <1>1, <2>2 DEF P!Render
  <2> QED BY <2>4, <2>5, GoodSteps
<1>2. PICK i, ps : i = e.item /\ ps = P!PollInvalidated(i) /\ ps \in [PagePolls -> P!Queries(P!Details)]
  BY InvalidatedOK
<1>3. CASE e.kind \in {"opened", "stopped"}
  <2>1. PICK q, k, t : P!Render(q, pollQ, k, t, ok) \/ P!Render(q, ps, k, t, ok)
    BY <1>2, <1>3 DEF P!Handle, P!OnInteractionStarted, P!OnPollStopped
  <2> QED BY <1>0, <1>1, <1>2, <2>1
<1>4. CASE e.kind = "started"
  <2>1. PICK q, k : P!Render(q, ps, k, "poll", FALSE)
    BY <1>2, <1>4 DEF P!Handle, P!OnPollStarted
  <2> QED BY <1>1, <1>2, <2>1
<1>5. CASE e.kind \in {"locked", "unlocked"}
  <2>1. P!Render(stateQ, ps, known, tab, ok)
    BY <1>2, <1>5 DEF P!Handle, P!OnPollLockChange
  <2> QED BY <1>1, <1>2, <2>1
<1>6. CASE e.kind = "over"
  BY <1>0, <1>6 DEF P!Handle, P!OnSessionEnded
<1> QED BY <1>3, <1>4, <1>5, <1>6 DEF PageEvents

LEMMA ActiveIn ==
    ASSUME NEW q, P!ActivePoll(q) \in PagePolls
    PROVE P!ActivePoll(q) \in q.data.open
<1>1. CASE P!Loaded(q) /\ q.data.open \cap PagePolls # {}
  <2>1. \E p \in PagePolls : p \in q.data.open
    BY <1>1
  <2>2. (CHOOSE p \in PagePolls : p \in q.data.open) \in q.data.open
    BY <2>1
  <2> QED BY <1>1, <2>2 DEF P!ActivePoll
<1>2. CASE ~ (P!Loaded(q) /\ q.data.open \cap PagePolls # {})
  BY <1>2, PartsAssumption DEF PartsAssumption, P!ActivePoll, P!PageAssumption, P!Items
<1> QED BY <1>1, <1>2

LEMMA HandleRests ==
    ASSUME PageInv, RestInv, NEW e \in PageEvents, P!Handle(e),
           \A x : Due(x) => x = e \/ Due(x)'
    PROVE  CacheShape' /\ OneIsRunning' /\ OneBusy' /\ StateTold' /\ PollsTold'
<1>0. /\ UNCHANGED <<board, outbox, opening>> /\ blind' = (blind \/ P!Unseen(e))
      /\ (strayed => strayed') /\ stateQ \in P!Queries(P!Snapshots)
  BY DEF P!Handle, P!server, PageInv, CacheTypes
<1>1. /\ Refetches(e) /\ P!Loaded(stateQ) =>
            stateQ'.fetch = "asked" /\ stateQ'.reply = NoData /\ P!Loaded(stateQ')
            /\ AtMostOne(stateQ'.data.open \cap PagePolls)
      /\ ~ Refetches(e) \/ ~ P!Loaded(stateQ) => stateQ' = stateQ
      /\ (P!Loaded(stateQ) => synced' = TRUE) /\ (~ P!Loaded(stateQ) => synced' = synced)
  BY HandleFacts DEF RestInv
<1>2. CacheShape'
  <2>1. \A p \in PagePolls : pollQ'[p].fetch = "answered" => pollQ'[p].reply # NoData
    BY HandleReplies DEF RestInv
  <2> QED BY <1>1, <2>1 DEF RestInv, CacheShape, P!Idle, P!Loaded, AtMostOne
<1>3. OneIsRunning' /\ OneBusy'
  BY <1>0 DEF RestInv, OneIsRunning, OneBusy, P!Running, AtMostOne, P!Free
<1>4. CASE blind'
  BY <1>2, <1>3, <1>4 DEF StateTold, PollsTold
<1>5. CASE ~ blind'
  <2>0. P!Loaded(stateQ) /\ ~ blind /\ ~ P!Unseen(e)
    <3>1. ~ blind /\ ~ P!Unseen(e)
      BY <1>5 DEF P!Handle
    <3> QED BY <3>1 DEF P!Unseen
  <2>1. StateTold'
    <3>1. CASE Refetches(e)
      BY <1>1, <2>0, <3>1 DEF StateTold
    <3>2. CASE ~ Refetches(e)
      <4>1. stateQ' = stateQ
        BY <1>1, <3>2
      <4>2. CASE stateQ.fetch = "asked"
        BY <4>1, <4>2 DEF StateTold
      <4>3. CASE \E x \in [kind : {"opened", "started", "stopped"}, item : P!Items] : Due(x)
        <5>1. PICK x \in [kind : {"opened", "started", "stopped"}, item : P!Items] : Due(x)
          BY <4>3
        <5>2. x # e
          BY <3>2 DEF Refetches
        <5> QED BY <5>1, <5>2 DEF StateTold
      <4>4. CASE ListFits(Latest(stateQ).open)
        <5>1. PICK open : open = Latest(stateQ).open
          OBVIOUS
        <5>2. ASSUME NEW p \in PagePolls, board[p] = "active", p \notin open
              PROVE Due(P!Event("unlocked", p))'
          <6>1. PICK x : x = P!Event("unlocked", p)
            OBVIOUS
          <6>2. Due(x)
            BY <4>4, <5>1, <5>2, <6>1 DEF ListFits
          <6>3. x # e
            <7> SUFFICES ASSUME x = e PROVE FALSE
              OBVIOUS
            <7>1. e.kind = "unlocked" /\ e.item = p /\ ~ P!Unseen(e)
              BY <2>0, <6>1 DEF P!Event
            <7>2. p = P!Shown /\ P!Idle(stateQ)
              BY <7>1 DEF P!Unseen
            <7>3. p \in stateQ.data.open
              BY <7>2, ActiveIn DEF P!Shown
            <7> QED BY <5>1, <5>2, <7>2, <7>3 DEF Latest, P!Idle
          <6>4. Due(x)'
            BY <6>2, <6>3
          <6> QED BY <6>1, <6>4 DEF P!Event
        <5>3. ListFits(open)'
          BY <1>0, <4>4, <5>1, <5>2 DEF ListFits
        <5>4. open = Latest(stateQ').open
          BY <4>1, <5>1
        <5> QED BY <5>3, <5>4 DEF StateTold, ListFits
      <4> QED BY <2>0, <4>2, <4>3, <4>4 DEF RestInv, StateTold
    <3> QED BY <3>1, <3>2
  <2>3. PollsTold'
    <3> SUFFICES ASSUME NEW p \in PagePolls PROVE PollTold(p)'
      BY DEF PollsTold
    <3>1. PollTold(p)
      BY <2>0 DEF RestInv, PollsTold
    <3>2. CASE board[p] = "off"
      BY <1>0, <3>2 DEF PollTold
    <3>3. CASE Good(pollQ[p], p = P!Shown, board[p]) \/ (e.item = p /\ e.kind \notin {"opened", "over"})
      <4>1. Good(pollQ'[p], p = P!Shown', board[p])
        BY <1>5, <3>3, HandleGood
      <4> QED BY <1>0, <4>1 DEF PollTold, Good
    <3>4. CASE \E kind \in {"started", "stopped", "locked", "unlocked"} :
                 Due(P!Event(kind, p)) /\ P!Event(kind, p) # e
      <4>1. PICK kind \in {"started", "stopped", "locked", "unlocked"} :
              Due(P!Event(kind, p)) /\ P!Event(kind, p) # e
        BY <3>4
      <4>2. PICK x : x = P!Event(kind, p)
        OBVIOUS
      <4>3. Due(x)'
        BY <4>1, <4>2
      <4>4. Due(P!Event(kind, p))'
        BY <4>2, <4>3 DEF P!Event
      <4> QED BY <4>4 DEF PollTold
    <3>5. \A kind : P!Event(kind, p) = e => e.item = p /\ e.kind = kind
      BY DEF P!Event
    <3> QED BY <3>1, <3>2, <3>3, <3>4, <3>5 DEF PollTold
  <2> QED BY <1>2, <1>3, <2>1, <2>3
<1> QED BY <1>4, <1>5

(* The tab, when the event is one of many under way or the last that activates.         *)
LEMMA HandleLeads ==
    ASSUME PageInv, RestInv, NEW e \in PageEvents, P!Handle(e), ~ blind', ~ strayed',
           NEW i \in P!Running,
           \/ \E h \in PageHosts : LastIs(outbox[h], i)
           \/ NoneOut /\ LastIs(relay, i)' 
           \/ NoneOut /\ Calm(relay)' /\ Activates(e) /\ e.item = i
           \/ NoneOut /\ Calm(relay)' /\ ~ Activates(e) /\ (tab = P!TabOf(i) \/ ~ synced)
              /\ (stateQ.fetch = "answered" => i \in stateQ.reply.open)
    PROVE  Led(i)'
<1>0. /\ UNCHANGED outbox /\ P!Loaded(stateQ) /\ ~ P!Unseen(e) /\ ~ (e.kind = "unlocked" /\ tab # "poll")
      /\ synced
  <2>1. P!Loaded(stateQ)
    BY DEF P!Handle, P!Unseen
  <2> QED BY <2>1 DEF P!Handle, RestInv, CacheShape
<1>1. /\ Refetches(e) => stateQ'.fetch = "asked"
      /\ ~ Refetches(e) => stateQ' = stateQ
      /\ tab' = IF e.kind = "opened" THEN e.item ELSE IF e.kind = "started" THEN "poll" ELSE tab
  BY <1>0, HandleFacts DEF RestInv
<1>2. (\A h \in PageHosts : LastIs(outbox[h], i) => LastIs(outbox[h], i)') /\ (NoneOut => NoneOut')
  BY <1>0 DEF LastIs, Activates, NoneOut, Calm
<1>3. CASE \E h \in PageHosts : LastIs(outbox[h], i)
  BY <1>2, <1>3 DEF Led
<1>4. CASE NoneOut /\ LastIs(relay, i)'
  BY <1>2, <1>4 DEF Led
<1>5. CASE NoneOut /\ Calm(relay)' /\ Activates(e) /\ e.item = i
  <2>1. tab' = P!TabOf(i)
    BY <1>0, <1>1, <1>5, PartsAssumption DEF PartsAssumption, Activates, P!TabOf,
        PageEvents, P!PageAssumption
  <2>2. stateQ'.fetch # "answered"
    BY <1>0, <1>1, <1>5 DEF Activates, Refetches, P!Unseen, P!Idle
  <2> QED BY <1>2, <1>5, <2>1, <2>2 DEF Led, P!TabOf
<1>6. CASE NoneOut /\ Calm(relay)' /\ ~ Activates(e) /\ (tab = P!TabOf(i) \/ ~ synced)
           /\ (stateQ.fetch = "answered" => i \in stateQ.reply.open)
  <2>1. tab' = P!TabOf(i)
    BY <1>0, <1>1, <1>6 DEF Activates
  <2>2. stateQ'.fetch = "answered" => i \in stateQ'.reply.open
    BY <1>1, <1>6
  <2> QED BY <1>2, <1>6, <2>1, <2>2 DEF Led, P!TabOf
<1> QED BY <1>3, <1>4, <1>5, <1>6

LEMMA ReceiveRests ==
    ASSUME PageInv, RestInv, P!ReceiveDirect \/ P!ReceiveRelayed
    PROVE RestInv'
<1>0. /\ direct \in Seq(PageEvents) /\ relay \in Seq(PageEvents) /\ CopiesFollow
      /\ Len(direct) \in Nat /\ Len(relay) \in Nat
  <2>1. direct \in Seq(PageEvents) /\ relay \in Seq(PageEvents)
    BY DEF PageInv, WayTypes
  <2> QED BY <2>1 DEF RestInv
<1>1. ASSUME NEW e \in PageEvents, P!Handle(e), \A x : Due(x) => x = e \/ Due(x)', CopiesFollow',
             ASSUME ~ blind', ~ strayed', NEW i \in P!Running, Led(i) PROVE Led(i)'
      PROVE  RestInv'
  <2>1. CacheShape' /\ OneIsRunning' /\ OneBusy' /\ StateTold' /\ PollsTold'
    BY <1>1, HandleRests
  <2>2. TabFollows'
    <3> SUFFICES ASSUME ~ blind', ~ strayed' PROVE TabFollows'
      BY DEF TabFollows
    <3>1. ~ blind /\ ~ strayed /\ P!Loaded(stateQ) /\ P!Running' = P!Running
      BY <1>1 DEF P!Handle, P!Unseen, P!server, P!Running
    <3>2. synced' = TRUE
      BY <1>1, <3>1, HandleFacts DEF RestInv
    <3> QED BY <1>1, <3>1, <3>2 DEF RestInv, TabFollows
  <2> QED BY <1>1, <2>1, <2>2 DEF RestInv
<1>2. CASE P!ReceiveDirect
  <2>1. /\ direct # <<>> /\ P!Handle(Head(direct)) /\ direct' = Tail(direct)
        /\ UNCHANGED <<relay, outbox>>
    BY <1>2 DEF P!ReceiveDirect, P!Handle
  <2>2. PICK e \in PageEvents : e = Head(direct)
    BY <1>0, <2>1
  <2>3. /\ Len(direct) >= 1 /\ e = direct[1] /\ Len(direct') = Len(direct) - 1
        /\ \A n \in 1 .. Len(direct) - 1 : direct'[n] = direct[n + 1]
    BY <1>0, <2>1, <2>2
  <2>4. CopiesFollow'
    <3>1. ASSUME NEW n \in 1 .. Len(direct')
          PROVE direct'[n] = relay[n + Len(relay) - Len(direct')]
      <4>1. n + 1 \in 1 .. Len(direct) /\ (n + 1) + Len(relay) - Len(direct) = n + Len(relay) - Len(direct')
        BY <1>0, <2>3
      <4>2. direct[n + 1] = relay[(n + 1) + Len(relay) - Len(direct)]
        BY <1>0, <4>1 DEF CopiesFollow
      <4> QED BY <2>3, <4>1, <4>2
    <3> QED BY <1>0, <2>1, <2>3, <3>1 DEF CopiesFollow
  <2>5. Activates(e) => ~ Calm(relay) 
    <3>1. 1 + Len(relay) - Len(direct) \in 1 .. Len(relay) /\ 1 \in 1 .. Len(direct)
      BY <1>0, <2>3 DEF CopiesFollow
    <3>2. e = relay[1 + Len(relay) - Len(direct)]
      BY <1>0, <2>3, <3>1 DEF CopiesFollow
    <3> QED BY <3>1, <3>2 DEF Calm
  <2>6. \A x : Due(x) => Due(x)'
    BY <2>1 DEF Due, Among
  <2>7. (\A i : LastIs(relay, i) => LastIs(relay, i)') /\ (Calm(relay) => Calm(relay)')
    BY <2>1 DEF LastIs, Calm, Activates
  <2>8. ASSUME ~ blind', ~ strayed', NEW i \in P!Running, Led(i) PROVE Led(i)'
    BY <2>1, <2>2, <2>5, <2>7, <2>8, HandleLeads DEF Led
  <2> QED BY <1>1, <2>1, <2>2, <2>4, <2>6, <2>8
<1>3. CASE P!ReceiveRelayed
  <2>1. /\ Len(relay) > Len(direct) /\ relay # <<>> /\ P!Handle(Head(relay)) /\ relay' = Tail(relay)
        /\ UNCHANGED <<direct, outbox>>
    <3>1. Len(relay) > Len(direct) /\ relay # <<>>
      BY <1>0, <1>3 DEF P!ReceiveRelayed
    <3> QED BY <1>3, <3>1 DEF P!ReceiveRelayed, P!Handle
  <2>2. PICK e \in PageEvents : e = Head(relay)
    BY <1>0, <2>1
  <2>3. /\ Len(relay) >= 1 /\ e = relay[1] /\ Len(relay') = Len(relay) - 1
        /\ \A n \in 1 .. Len(relay) - 1 : relay'[n] = relay[n + 1]
    BY <1>0, <2>1, <2>2
  <2>4. CopiesFollow'
    <3>1. ASSUME NEW n \in 1 .. Len(direct)
          PROVE direct[n] = relay'[n + Len(relay') - Len(direct)]
      <4>1. n + Len(relay') - Len(direct) \in 1 .. Len(relay) - 1
        BY <1>0, <2>1, <2>3
      <4>2. (n + Len(relay') - Len(direct)) + 1 = n + Len(relay) - Len(direct)
        BY <1>0, <2>3
      <4> QED BY <1>0, <2>3, <4>1, <4>2 DEF CopiesFollow
    <3> QED BY <1>0, <2>1, <2>3, <3>1 DEF CopiesFollow
  <2>5. /\ \A x : Among(x, relay) => x = e \/ Among(x, relay')
        /\ Calm(relay) => Calm(relay') /\ ~ Activates(e)
        /\ \A i : LastIs(relay, i) => LastIs(relay', i) \/ (Calm(relay') /\ Activates(e) /\ e.item = i)
    <3>1. Calm(relay) => ~ Activates(e)
      BY <2>3 DEF Calm
    <3> QED BY <1>0, <2>1, <2>2, <3>1, AmongTail
  <2>6. \A x : Due(x) => x = e \/ Due(x)'
    BY <2>1, <2>5 DEF Due, Among
  <2>7. (\A i : LastIs(relay', i) => LastIs(relay, i)') /\ (Calm(relay') => Calm(relay)')
    BY DEF LastIs, Calm, Activates
  <2>8. ASSUME ~ blind', ~ strayed', NEW i \in P!Running, Led(i) PROVE Led(i)'
    BY <2>1, <2>2, <2>5, <2>7, <2>8, HandleLeads DEF Led
  <2> QED BY <1>1, <2>1, <2>2, <2>4, <2>6, <2>8
<1> QED BY <1>2, <1>3

(* A step that touches no more than the queries of polls.                            *)
LEMMA PollsOnly ==
    ASSUME RestInv, UNCHANGED <<board, P!bus, P!past, stateQ, tab, synced>>,
           \A p \in PagePolls :
             /\ (pollQ[p].fetch = "answered" => pollQ[p].reply # NoData) =>
                   (pollQ'[p].fetch = "answered" => pollQ'[p].reply # NoData)
             /\ CacheShape /\ Good(pollQ[p], p = P!Shown, board[p]) => Good(pollQ'[p], p = P!Shown, board[p])
    PROVE  RestInv'
<1>1. UNCHANGED <<outbox, opening, direct, relay, blind, strayed>> /\ P!Shown' = P!Shown /\ P!Running' = P!Running
  BY DEF P!bus, P!past, P!Shown, P!ActivePoll, P!Loaded, P!Running
<1>2. CacheShape' /\ OneIsRunning' /\ CopiesFollow' /\ OneBusy'
  BY <1>1 DEF RestInv, CacheShape, OneIsRunning, CopiesFollow, OneBusy, P!Free, P!Idle,
              P!Loaded, AtMostOne
<1>3. \A x : Due(x) => Due(x)'
  BY <1>1 DEF Due, Among
<1>4. StateTold'
  BY <1>1, <1>3, StateStays DEF RestInv
<1>5. PollsTold'
  <2> SUFFICES ASSUME NEW p \in PagePolls, ~ blind PROVE PollTold(p)'
    BY <1>1 DEF PollsTold
  <2>1. PollTold(p)
    BY DEF RestInv, PollsTold
  <2>2. CASE Good(pollQ[p], p = P!Shown, board[p])
    <3>1. Good(pollQ'[p], p = P!Shown, board[p])
      BY <2>2 DEF RestInv
    <3> QED BY <1>1, <3>1 DEF PollTold, Good
  <2>3. CASE \E kind \in {"started", "stopped", "locked", "unlocked"} : Due(P!Event(kind, p))
    <3>1. PICK kind \in {"started", "stopped", "locked", "unlocked"} : Due(P!Event(kind, p))
      BY <2>3
    <3>2. Due(P!Event(kind, p))'
      BY <1>3, <3>1 DEF P!Event
    <3> QED BY <3>2 DEF PollTold
  <2> QED BY <2>1, <2>2, <2>3 DEF PollTold
<1>6. TabFollows'
  <2>1. ASSUME NEW i, Led(i) PROVE Led(i)'
    BY <1>1, <2>1 DEF Led, NoneOut, Calm, LastIs, Activates, P!TabOf
  <2> QED BY <1>1, <2>1 DEF RestInv, TabFollows
<1> QED BY <1>2, <1>4, <1>5, <1>6 DEF RestInv

LEMMA StateFetchRests ==
    ASSUME PageInv, RestInv, P!IntervalState \/ P!AnswerState PROVE RestInv'
<1>0. stateQ \in P!Queries(P!Snapshots) /\ ServerTypes
  BY DEF PageInv, CacheTypes
<1>1. /\ UNCHANGED <<board, outbox, opening, direct, relay, blind, strayed, pollQ, tab, synced>>
      /\ \/ P!Idle(stateQ) /\ stateQ' = P!Fetched(stateQ)
         \/ stateQ' = P!Answered(stateQ, P!Snapshot)
  BY DEF P!IntervalState, P!AnswerState, P!server, P!bus, P!past
<1>2. /\ stateQ'.data = stateQ.data
      /\ \/ stateQ'.fetch = "asked" /\ stateQ'.reply = stateQ.reply
         \/ stateQ'.fetch = "answered" /\ stateQ'.reply = P!Snapshot
  BY <1>0, <1>1 DEF P!Fetched, P!Answered, P!Queries
<1>3. P!Snapshot # NoData /\ P!Snapshot.open = P!Running
  BY <1>0, SnapshotOK, PartsAssumption DEF PartsAssumption, P!PageAssumption, P!Snapshot,
      P!Running
<1>4. P!Shown' = P!Shown /\ P!Running' = P!Running
  BY <1>1, <1>2 DEF P!Shown, P!ActivePoll, P!Loaded, P!Running
<1>5. CacheShape'
  BY <1>1, <1>2, <1>3 DEF RestInv, CacheShape, OneIsRunning, AtMostOne, P!Idle, P!Loaded
<1>6. OneIsRunning' /\ CopiesFollow' /\ OneBusy'
  BY <1>1, <1>4 DEF RestInv, OneIsRunning, CopiesFollow, OneBusy, P!Free, AtMostOne
<1>7. StateTold'
  <2>1. CASE stateQ'.fetch = "asked"
    BY <2>1 DEF StateTold
  <2>2. CASE stateQ'.fetch = "answered" /\ stateQ'.reply = P!Snapshot
    <3>1. PICK open : open = P!Running
      OBVIOUS
    <3>2. Latest(stateQ').open = open
      BY <1>3, <2>2, <3>1 DEF Latest
    <3>3. ListFits(open)'
      BY <1>1, <3>1 DEF ListFits, P!Running, P!Items
    <3> QED BY <3>2, <3>3 DEF StateTold, ListFits
  <2> QED BY <1>2, <2>1, <2>2
<1>8. PollsTold'
  <2>1. ASSUME NEW p \in PagePolls, PollTold(p) PROVE PollTold(p)'
    BY <1>1, <1>4, <2>1 DEF PollTold, Good, Due, Among, P!Event
  <2> QED BY <1>1, <2>1 DEF RestInv, PollsTold
<1>9. TabFollows'
  <2>1. ASSUME NEW i \in P!Running, Led(i) PROVE Led(i)'
    <3>1. stateQ'.fetch = "answered" => i \in stateQ'.reply.open
      BY <1>2, <1>3
    <3> QED BY <1>1, <2>1, <3>1 DEF Led, NoneOut, Calm, LastIs, Activates, P!TabOf
  <2> QED BY <1>1, <1>4, <2>1 DEF RestInv, TabFollows
<1> QED BY <1>5, <1>6, <1>7, <1>8, <1>9 DEF RestInv

LEMMA StoreStateRests == ASSUME PageInv, RestInv, P!StoreState PROVE RestInv'
<1>0. /\ stateQ \in P!Queries(P!Snapshots) /\ pollQ \in [PagePolls -> P!Queries(P!Details)]
      /\ stateQ.fetch = "answered" /\ stateQ.reply # NoData /\ AtMostOne(stateQ.reply.open)
      /\ UNCHANGED <<board, outbox, opening, direct, relay, blind, strayed>>
  BY DEF PageInv, CacheTypes, RestInv, CacheShape, P!StoreState, P!cacheOnly, P!server,
         P!bus, P!past
<1>1. PICK q : q = P!Stored(stateQ)
  OBVIOUS
<1>2. P!Render(q, pollQ, known, tab, ok)
  BY <1>1 DEF P!StoreState
<1>3. /\ stateQ' = q /\ q.data = stateQ.reply /\ q.fetch = "idle" /\ q.reply = NoData /\ P!Loaded(q)
  BY <1>0, <1>1, <1>2, RenderFacts DEF P!Stored, P!Loaded
<1>4. /\ synced' = TRUE
      /\ LET open == q.data.open
             news == IF synced THEN open \ known ELSE IF open \cap PagePolls = {} THEN open ELSE {}
         IN  IF news = {} THEN tab' = tab ELSE \E i \in news : tab' = P!TabOf(i)
  BY <1>2, <1>3 DEF P!Render, P!Sync
<1>5. CacheShape'
  <2>1. \A p \in PagePolls : pollQ'[p].fetch = "answered" => pollQ'[p].reply # NoData
    <3> SUFFICES ASSUME NEW p \in PagePolls
                 PROVE  pollQ'[p].fetch = "answered" => pollQ'[p].reply # NoData
      OBVIOUS
    <3>1. PICK x \in P!Queries(P!Details) : x = pollQ[p]
      BY <1>0
    <3>2. pollQ'[p] \in {x, P!Mounted(x)}
      BY <1>2, <3>1 DEF P!Render
    <3>3. x.fetch = "answered" => x.reply # NoData
      BY <3>1 DEF RestInv, CacheShape
    <3> QED BY <3>2, <3>3, GoodSteps
  <2> QED BY <1>0, <1>3, <1>4, <2>1 DEF CacheShape, AtMostOne, P!Idle, P!Loaded
<1>6. OneIsRunning' /\ CopiesFollow' /\ OneBusy' /\ P!Running' = P!Running
  BY <1>0 DEF RestInv, OneIsRunning, CopiesFollow, OneBusy, P!Free, AtMostOne, P!Running
<1>7. StateTold'
  <2>1. Latest(stateQ') = Latest(stateQ) /\ \A x : Due(x) => Due(x)'
    BY <1>0, <1>3 DEF Latest, Due, Among
  <2>2. PICK open : open = Latest(stateQ).open
    OBVIOUS
  <2>3. open = Latest(stateQ').open
    BY <2>1, <2>2
  <2>4. ListFits(open) => ListFits(open)'
    BY <1>0, <2>1 DEF ListFits, Due, Among, P!Event
  <2>5. \A x \in [kind : {"opened", "started", "stopped"}, item : P!Items] : Due(x) => Due(x)'
    BY <2>1
  <2>6. blind \/ ListFits(open) \/ \E x \in [kind : {"opened", "started", "stopped"}, item : P!Items] : Due(x)
    BY <1>0, <2>2 DEF RestInv, StateTold
  <2>7. CASE ListFits(open)
    BY <2>3, <2>4, <2>7 DEF StateTold, ListFits
  <2>8. CASE blind \/ \E x \in [kind : {"opened", "started", "stopped"}, item : P!Items] : Due(x)
    BY <1>0, <2>5, <2>8 DEF StateTold
  <2> QED BY <2>6, <2>7, <2>8
<1>8. PollsTold'
  <2> SUFFICES ASSUME NEW p \in PagePolls, ~ blind PROVE PollTold(p)'
    BY <1>0 DEF PollsTold
  <2>1. PollTold(p)
    BY DEF RestInv, PollsTold
  <2>2. CASE Good(pollQ[p], p = P!Shown, board[p])
    <3>1. Good(pollQ'[p], p = P!Shown', board[p])
      BY <1>0, <1>2, <2>2, RenderGood
    <3> QED BY <1>0, <3>1 DEF PollTold, Good
  <2>3. CASE \E kind \in {"started", "stopped", "locked", "unlocked"} : Due(P!Event(kind, p))
    BY <1>0, <2>3 DEF PollTold, Due, Among, P!Event
  <2> QED BY <1>0, <2>1, <2>2, <2>3 DEF PollTold
<1>9. TabFollows'
  <2> SUFFICES ASSUME ~ blind, ~ strayed, NEW i \in P!Running, Led(i), ~ synced => tab = "poll"
               PROVE  Led(i)'
    BY <1>0, <1>4, <1>6 DEF RestInv, TabFollows
  <2>1. ASSUME tab = P!TabOf(i) \/ ~ synced, i \in stateQ.reply.open PROVE tab' = P!TabOf(i)
    <3>1. q.data.open = {i}
      BY <1>0, <1>3, <2>1 DEF AtMostOne
    <3>2. \A j \in {i} : P!TabOf(j) = P!TabOf(i)
      OBVIOUS
    <3>3. CASE synced
      BY <1>4, <2>1, <3>1, <3>2, <3>3
    <3>4. CASE ~ synced /\ i \in PagePolls
      BY <1>4, <3>1, <3>4 DEF P!TabOf
    <3>5. CASE ~ synced /\ i \notin PagePolls
      BY <1>4, <3>1, <3>2, <3>5
    <3> QED BY <3>3, <3>4, <3>5
  <2>2. (\A h \in PageHosts : LastIs(outbox[h], i) => LastIs(outbox[h], i)') /\ (NoneOut => NoneOut')
        /\ (LastIs(relay, i) => LastIs(relay, i)') /\ (Calm(relay) => Calm(relay)')
    BY <1>0 DEF NoneOut, Calm, LastIs, Activates
  <2>3. P!TabOf(i)' = P!TabOf(i) /\ stateQ'.fetch = "idle"
    BY <1>3 DEF P!TabOf
  <2> QED BY <1>0, <2>1, <2>2, <2>3 DEF Led
<1> QED BY <1>5, <1>6, <1>7, <1>8, <1>9 DEF RestInv

LEMMA PollFetchRests ==
    ASSUME PageInv, RestInv, NEW p \in PagePolls, P!IntervalPoll(p) \/ P!AnswerPoll(p) \/ P!StorePoll(p)
    PROVE  RestInv'
<1>0. /\ pollQ \in [PagePolls -> P!Queries(P!Details)] /\ board \in [P!Items -> P!Statuses] /\ P!Detail(p) \in P!Details
      /\ (P!Loaded(stateQ) => known = stateQ.data.open /\ synced)
      /\ (pollQ[p].fetch = "answered" => pollQ[p].reply # NoData) /\ synced \in BOOLEAN
  BY DetailOK DEF PageInv, CacheTypes, ServerTypes, SeenTypes, RestInv, CacheShape
<1>1. PICK x \in P!Queries(P!Details) : x = pollQ[p]
  BY <1>0
<1>2. P!Detail(p) # NoData /\ P!Detail(p).status = board[p]
  BY <1>0, PartsAssumption DEF PartsAssumption, P!PageAssumption, P!Detail
<1>3. PICK y : /\ pollQ' = [pollQ EXCEPT ![p] = y] /\ UNCHANGED <<board, P!bus, P!past, stateQ, tab, synced>>
               /\ \/ y.fetch = "asked"
                  \/ y.fetch = "answered" /\ y.reply = P!Detail(p)
                  \/ x.fetch = "answered" /\ y = P!Stored(x)
  <2>1. CASE P!IntervalPoll(p)
    <3>1. P!Fetched(x).fetch = "asked"
      BY <1>1, <2>1 DEF P!IntervalPoll, P!Fetched, P!Queries
    <3> QED BY <1>1, <2>1, <3>1 DEF P!IntervalPoll, P!server
  <2>2. CASE P!AnswerPoll(p)
    <3>1. P!Answered(x, P!Detail(p)).fetch = "answered" /\ P!Answered(x, P!Detail(p)).reply = P!Detail(p)
      BY <1>1 DEF P!Answered, P!Queries
    <3> QED BY <1>1, <2>2, <3>1 DEF P!AnswerPoll, P!server
  <2>3. CASE P!StorePoll(p)
    <3>1. PICK ps : ps = [pollQ EXCEPT ![p] = P!Stored(x)]
      OBVIOUS
    <3>2. P!Render(stateQ, ps, known, tab, ok) /\ UNCHANGED <<P!server, P!bus, P!past>> /\ x.fetch = "answered"
      BY <1>1, <2>3, <3>1 DEF P!StorePoll, P!cacheOnly
    <3>3. stateQ' = stateQ /\ tab' = tab /\ synced' = synced
      BY <1>0, <3>2, RenderFacts
    <3>4. pollQ' = ps
      BY <1>0, <3>1, <3>2 DEF P!Render, P!Shown
    <3> QED BY <3>1, <3>2, <3>3, <3>4 DEF P!server
  <2> QED BY <2>1, <2>2, <2>3
<1>4. pollQ'[p] = y /\ \A r \in PagePolls \ {p} : pollQ'[r] = pollQ[r]
  BY <1>0, <1>3
<1>5. y.fetch = "answered" => y.reply # NoData
  BY <1>2, <1>3 DEF P!Stored
<1>6. ASSUME Good(x, p = P!Shown, board[p]) PROVE Good(y, p = P!Shown, board[p])
  <2>1. CASE x.fetch = "answered" /\ y = P!Stored(x)
    <3>1. y.data = x.reply /\ y.fetch = "idle" /\ x.reply # NoData /\ x.reply.status = board[p]
      BY <1>0, <1>1, <1>6, <2>1 DEF P!Stored, Good, P!Idle
    <3> QED BY <3>1 DEF Good, P!Idle, P!Loaded
  <2> QED BY <1>2, <1>3, <2>1 DEF Good
<1> QED BY <1>1, <1>3, <1>4, <1>5, <1>6, PollsOnly

LEMMA SubmissionRests ==
    ASSUME PageInv, RestInv,
           \/ \E p \in PagePolls : P!Submit(p)
           \/ P!ServerTakes \/ P!SubmitSucceeds \/ P!SubmitFails \/ P!CloseOkDialog
    PROVE  RestInv'
<1>0. pollQ \in [PagePolls -> P!Queries(P!Details)]
  BY DEF PageInv, CacheTypes
<1>1. UNCHANGED <<board, P!bus, P!past, stateQ, tab, synced>>
  BY DEF P!Submit, P!ServerTakes, P!SubmitSucceeds, P!SubmitFails, P!CloseOkDialog,
         P!server, P!page
<1>2. \/ pollQ' = pollQ
      \/ P!Shown # none /\ pollQ' = [pollQ EXCEPT ![P!Shown] = P!Refetched(@)]
  BY DEF P!Submit, P!ServerTakes, P!SubmitSucceeds, P!SubmitFails, P!CloseOkDialog, P!page
<1>3. ASSUME NEW p \in PagePolls
      PROVE  /\ (pollQ[p].fetch = "answered" => pollQ[p].reply # NoData) =>
                   (pollQ'[p].fetch = "answered" => pollQ'[p].reply # NoData)
             /\ Good(pollQ[p], p = P!Shown, board[p]) => Good(pollQ'[p], p = P!Shown, board[p])
  <2>1. PICK x \in P!Queries(P!Details) : x = pollQ[p]
    BY <1>0
  <2>2. PICK y : y = P!Refetched(x)
    OBVIOUS
  <2>3. y = x \/ y.fetch = "asked"
    BY <2>2 DEF P!Refetched, P!Queries
  <2>4. pollQ'[p] = x \/ pollQ'[p] = y
    BY <1>0, <1>2, <2>1, <2>2
  <2> QED BY <2>1, <2>3, <2>4 DEF Good
<1> QED BY <1>1, <1>3, PollsOnly

LEMMA SocketRests == ASSUME PageInv, RestInv, P!Connect \/ P!Lose PROVE RestInv'
<1>1. /\ UNCHANGED <<board, outbox, opening, stateQ, pollQ, tab, synced, strayed>> /\ (blind => blind')
      /\ \/ UNCHANGED <<direct, relay, blind>>
         \/ direct' = <<>> /\ relay' = <<>> /\ (~ blind' => relay = <<>>)
  <2>1. CASE P!Connect
    BY <2>1 DEF P!Connect, P!server, P!page, P!past
  <2>2. CASE P!Lose
    <3>1. blind => blind'
      BY <2>2 DEF P!Lose
    <3>2. ~ blind' => relay = <<>>
      BY <2>2 DEF P!Lose
    <3> QED BY <2>2, <3>1, <3>2 DEF P!Lose, P!server, P!page
  <2> QED BY <2>1, <2>2
<1>2. P!Shown' = P!Shown /\ P!Running' = P!Running
  BY <1>1 DEF P!Shown, P!ActivePoll, P!Loaded, P!Running
<1>3. CacheShape' /\ OneIsRunning' /\ OneBusy'
  BY <1>1, <1>2 DEF RestInv, CacheShape, OneIsRunning, OneBusy, P!Free, P!Idle, P!Loaded,
                    AtMostOne
<1>4. CopiesFollow'
  <2>1. CASE direct' = <<>> /\ relay' = <<>>
    <3>1. Len(<<>>) = 0 /\ 1 .. 0 = {}
      OBVIOUS
    <3> QED BY <2>1, <3>1 DEF CopiesFollow
  <2> QED BY <1>1, <2>1 DEF RestInv, CopiesFollow
<1>5. CASE blind'
  BY <1>3, <1>4, <1>5 DEF RestInv, StateTold, PollsTold, TabFollows
<1>6. CASE ~ blind'
  <2>1. relay' = relay /\ ~ blind
    BY <1>1, <1>6
  <2>2. \A x : Due(x) => Due(x)'
    BY <1>1, <2>1 DEF Due, Among
  <2>3. StateTold' /\ PollsTold'
    BY <1>1, <2>1, <2>2, StateStays, PollsStay DEF RestInv
  <2>4. ASSUME NEW i, Led(i) PROVE Led(i)'
    BY <1>1, <2>1, <2>4 DEF Led, NoneOut, Calm, LastIs, Activates, P!TabOf
  <2>5. TabFollows'
    BY <1>1, <1>2, <2>1, <2>4 DEF RestInv, TabFollows
  <2> QED BY <1>3, <1>4, <2>3, <2>5 DEF RestInv
<1> QED BY <1>5, <1>6

LEMMA RestInit == P!Init => RestInv
<1> SUFFICES ASSUME P!Init PROVE RestInv
  OBVIOUS
<1>1. /\ stateQ.fetch = "asked" /\ stateQ.reply = NoData /\ ~ P!Loaded(stateQ) /\ P!Shown = none
      /\ ~ P!Idle(stateQ)
  BY DEF P!Init, P!Loading, P!Unused, P!Loaded, P!Shown, P!ActivePoll, P!Idle
<1>2. \A p \in PagePolls : pollQ[p].fetch = "idle" /\ pollQ[p].data = NoData /\ p # P!Shown
  BY <1>1, PartsAssumption DEF PartsAssumption, P!Init, P!Unused, P!PageAssumption,
                               P!Items
<1>3. CacheShape
  BY <1>1, <1>2 DEF CacheShape
<1>4. OneIsRunning
  BY DEF P!Init, OneIsRunning, AtMostOne, P!Running
<1>5. StateTold
  BY <1>1 DEF StateTold
<1>6. PollsTold
  BY <1>2 DEF PollsTold, PollTold, Good, P!Idle, P!Loaded
<1>7. Len(<<>>) = 0 /\ 1 .. 0 = {}
  OBVIOUS
<1>8. CopiesFollow
  BY <1>7 DEF P!Init, CopiesFollow
<1>9. OneBusy
  BY DEF P!Init, OneBusy, P!Free
<1>10. TabFollows
  <2>1. NoneOut /\ Calm(relay) /\ ~ synced /\ tab = "poll"
    BY <1>7 DEF P!Init, NoneOut, Calm
  <2> QED BY <1>1, <2>1 DEF TabFollows, Led
<1> QED BY <1>3, <1>4, <1>5, <1>6, <1>8, <1>9, <1>10 DEF RestInv

LEMMA RestNext == PageInv /\ RestInv /\ [P!Next]_P!vars => RestInv'
<1> SUFFICES ASSUME PageInv, RestInv, [P!Next]_P!vars PROVE RestInv'
  OBVIOUS
<1>1. CASE UNCHANGED P!vars
  <2>1. UNCHANGED <<board, P!bus, P!past, stateQ, pollQ, tab, synced>>
    BY <1>1 DEF P!vars, P!server, P!page
  <2> QED BY <2>1, PollsOnly
<1> QED BY <1>1, HostRests, SocketRests, ReceiveRests, StateFetchRests, StoreStateRests,
    PollFetchRests,
        SubmissionRests DEF P!Next

LEMMA RestGives == PageInv /\ RestInv => P!AgreesAtRest /\ P!TabAtRest
<1> SUFFICES ASSUME PageInv, RestInv, P!AtRest, ~ blind PROVE
        /\ P!ActiveOnServer # none => P!Shown = P!ActiveOnServer
        /\ P!Shown # none => board[P!Shown] # "off" /\ pollQ[P!Shown].data.status = board[P!Shown]
        /\ ~ strayed /\ P!Running # {} => \E i \in P!Running : tab = P!TabOf(i)
  BY DEF P!AgreesAtRest, P!TabAtRest
<1>0. /\ P!Loaded(stateQ) /\ stateQ.fetch = "idle" /\ relay = <<>> /\ \A h \in PageHosts : outbox[h] = <<>>
      /\ \A p \in PagePolls : P!Idle(pollQ[p])
  BY DEF P!AtRest, P!Free, P!Idle
<1>1. \A e : ~ Due(e)
  <2>1. Len(<<>>) = 0 /\ 1 .. 0 = {}
    OBVIOUS
  <2> QED BY <1>0, <2>1 DEF Due, Among
<1>2. ListFits(stateQ.data.open)
  BY <1>0, <1>1 DEF RestInv, StateTold, Latest
<1>3. ASSUME NEW p \in PagePolls, p \in stateQ.data.open PROVE P!Shown = p
  <2>1. AtMostOne(stateQ.data.open \cap PagePolls)
    BY <1>0 DEF RestInv, CacheShape
  <2>2. stateQ.data.open \cap PagePolls # {} /\ \E r \in PagePolls : r \in stateQ.data.open
    BY <1>3
  <2>3. (CHOOSE r \in PagePolls : r \in stateQ.data.open) \in stateQ.data.open \cap PagePolls
    BY <2>2
  <2>4. P!Shown = CHOOSE r \in PagePolls : r \in stateQ.data.open
    BY <1>0, <2>2 DEF P!Shown, P!ActivePoll
  <2> QED BY <1>3, <2>1, <2>3, <2>4 DEF AtMostOne
<1>4. ASSUME P!ActiveOnServer # none PROVE P!Shown = P!ActiveOnServer
  <2>1. P!Running \cap PagePolls # {} /\ P!ActiveOnServer = CHOOSE p \in PagePolls : p \in P!Running
    BY <1>4 DEF P!ActiveOnServer
  <2>2. P!ActiveOnServer \in PagePolls /\ P!ActiveOnServer \in P!Running
    <3>1. \E p \in PagePolls : p \in P!Running
      BY <2>1
    <3>2. (CHOOSE p \in PagePolls : p \in P!Running) \in PagePolls /\ (CHOOSE p \in PagePolls : p \in P!Running) \in P!Running
      BY <3>1
    <3> QED BY <2>1, <3>2
  <2>3. board[P!ActiveOnServer] = "active"
    BY <2>2 DEF P!Running
  <2> QED BY <1>1, <1>2, <1>3, <2>2, <2>3 DEF ListFits
<1>5. ASSUME P!Shown # none
      PROVE board[P!Shown] # "off" /\ pollQ[P!Shown].data.status = board[P!Shown]
  <2>1. P!Shown \in PagePolls
    BY <1>5, ActiveIsPoll DEF P!Shown
  <2>2. P!Shown \in stateQ.data.open
    BY <2>1, ActiveIn DEF P!Shown
  <2>3. board[P!Shown] # "off"
    BY <1>2, <2>1, <2>2 DEF ListFits
  <2>4. PollTold(P!Shown)
    BY <2>1 DEF RestInv, PollsTold
  <2>5. Good(pollQ[P!Shown], P!Shown = P!Shown, board[P!Shown])
    BY <1>1, <2>3, <2>4 DEF PollTold
  <2>6. P!Idle(pollQ[P!Shown])
    BY <1>0, <2>1
  <2> QED BY <2>3, <2>5, <2>6 DEF Good, P!Idle
<1>6. ASSUME ~ strayed, P!Running # {} PROVE \E i \in P!Running : tab = P!TabOf(i)
  <2>1. PICK i \in P!Running : Led(i)
    BY <1>6 DEF RestInv, TabFollows
  <2>2. synced /\ \A s : s = <<>> => ~ LastIs(s, i)
    <3>1. Len(<<>>) = 0 /\ 1 .. 0 = {}
      OBVIOUS
    <3> QED BY <1>0, <3>1 DEF RestInv, CacheShape, LastIs
  <2> QED BY <1>0, <2>1, <2>2 DEF Led
<1> QED BY <1>4, <1>5, <1>6

-----------------------------------------------------------------------------
(* Surveys.                                                                    *)
(* Submissions that may be under way.                                             *)
SurveyPost ==
    [at : {"free", "asked", "stored", "failed"}, survey : AllSurveys \cup {NoSurvey},
     items : SUBSET S!Items, mine : BOOLEAN]

PostTypes ==
    /\ postSurvey \in [SurveyPosts -> SurveyPost]
    /\ \A p \in SurveyPosts : IF postSurvey[p].at = "free" THEN postSurvey[p] = S!NoPost
                              ELSE postSurvey[p].survey \in AllSurveys /\ postSurvey[p].items # {}

(* The numbers of the questions leave room for those that are still added.         *)
Numbered ==
    \E n \in Nat \ {0} :
       /\ asked[Edited] = {<<Edited, k>> : k \in 1..n}
       /\ IsFiniteSet(asked[Edited]) /\ Cardinality(asked[Edited]) = n
       /\ 1..(n + leftSurvey.adds + (IF adding = "asked" THEN 1 ELSE 0)) \subseteq SurveyNumbers

StoreTypes ==
    /\ active \in AllSurveys \cup {NoSurvey}
    /\ asked \in [AllSurveys -> SUBSET S!Items] /\ \A s \in AllSurveys : asked[s] \subseteq S!Of(s)
    /\ sent \in [AllSurveys -> (SUBSET S!Items) \cup {NoData}]

PanelTypes ==
    /\ shown \in AllSurveys \cup {NoSurvey}
    /\ DOMAIN lists = AllSurveys /\ \A s \in AllSurveys : lists[s] \in S!Queries(SUBSET S!Of(s))
    /\ answers \subseteq S!Items /\ submitOkSurvey \in BOOLEAN /\ carriedSurvey \in BOOLEAN

BenchTypes ==
    /\ draft \in {"default", "typed"} /\ adding \in {"free", "asked", "stored", "failed"}
    /\ DOMAIN views = S!Views /\ views["questions"] \in S!Queries(SUBSET S!Items)
    /\ leftSurvey \in [moves : Nat, adds : Nat, tabs : Nat, faults : Nat, open : SUBSET S!Views]

(* What the panel says is about the survey it was mounted for; a submission of its   *)
(* own is for that survey, and what is stored stays.                               *)
Thanked ==
    /\ shown = NoSurvey => answers = {} /\ ~ submitOkSurvey /\ ~ carriedSurvey
    /\ \A p \in SurveyPosts : postSurvey[p].mine => shown # NoSurvey /\ (~ carriedSurvey => postSurvey[p].survey = shown)
    /\ \A p \in SurveyPosts : postSurvey[p].at = "stored" => sent[postSurvey[p].survey] # NoData
    /\ submitOkSurvey /\ ~ carriedSurvey => sent[shown] # NoData

SurveyInv == StoreTypes /\ PanelTypes /\ BenchTypes /\ PostTypes /\ Numbered /\ Thanked

LEMMA SurveyCard == ASSUME NEW X PROVE S!Cardinality(X) = Cardinality(X)
  BY DEF S!Cardinality, Cardinality

LEMMA SurveyQuery ==
    ASSUME NEW D, NEW q \in S!Queries(D), NEW d \in D \cup {NoData}
    PROVE  /\ S!Fetched(q) \in S!Queries(D) /\ S!Refetched(q) \in S!Queries(D) /\ S!Mounted(q) \in S!Queries(D)
           /\ S!Stored(q) \in S!Queries(D) /\ S!Answered(q, d) \in S!Queries(D)
BY DEF S!Queries, S!Fetches, S!Fetched, S!Refetched, S!Mounted, S!Stored, S!Answered,
       S!Idle, S!Loaded

LEMMA SurveyAny ==
    ASSUME NEW D PROVE S!Loading \in S!Queries(D) /\ S!Unused \in S!Queries(D)
BY DEF S!Loading, S!Unused, S!Queries, S!Fetches

LEMMA NoPostOK ==
    /\ S!NoPost \in SurveyPost /\ S!NoPost.at = "free" /\ ~ S!NoPost.mine
BY DEF S!NoPost, SurveyPost

LEMMA SurveyInit == S!Init => SurveyInv
<1> SUFFICES ASSUME S!Init PROVE SurveyInv
  OBVIOUS
<1>1. leftSurvey \in SurveyBudgets /\ 1..(leftSurvey.adds + 1) \subseteq SurveyNumbers
      /\ leftSurvey \in [moves : Nat, adds : Nat, tabs : Nat, faults : Nat, open : SUBSET S!Views]
  BY PartsAssumption DEF PartsAssumption, S!Init, S!SurveyAssumption, S!Views
<1>2. 1 \in SurveyNumbers /\ leftSurvey.adds \in Nat
  BY <1>1
<1>3. \A s \in AllSurveys : asked[s] = {<<s, 1>>} /\ <<s, 1>> \in S!Of(s) /\ S!Of(s) \subseteq S!Items
  BY <1>2 DEF S!Init, S!Of, S!Items
<1>4. asked \in [AllSurveys -> SUBSET S!Items]
  BY <1>3 DEF S!Init
<1>5. StoreTypes
  BY <1>3, <1>4 DEF S!Init, StoreTypes
<1>6. PanelTypes
  BY SurveyAny DEF S!Init, PanelTypes
<1>7. BenchTypes
  BY <1>1, SurveyAny DEF S!Init, BenchTypes, S!Views
<1>8. PostTypes /\ \A p \in SurveyPosts : postSurvey[p] = S!NoPost
  BY NoPostOK DEF S!Init, PostTypes
<1>9. Numbered
  <2>1. Edited \in AllSurveys /\ asked[Edited] = {<<Edited, 1>>}
    BY <1>3, PartsAssumption DEF PartsAssumption, S!SurveyAssumption
  <2>2. {<<Edited, 1>>} = {<<Edited, k>> : k \in 1..1}
    OBVIOUS
  <2>3. IsFiniteSet({<<Edited, 1>>}) /\ Cardinality({<<Edited, 1>>}) = 1
    BY FS_Singleton
  <2>4. 1..(1 + leftSurvey.adds + 0) \subseteq SurveyNumbers
    BY <1>1, <1>2
  <2>5. adding = "free"
    BY DEF S!Init
  <2> QED BY <2>1, <2>2, <2>3, <2>4, <2>5 DEF Numbered
<1>10. Thanked
  BY <1>8, NoPostOK DEF S!Init, Thanked
<1> QED BY <1>5, <1>6, <1>7, <1>8, <1>9, <1>10 DEF SurveyInv

(* The parts, untouched.                                                          *)
LEMMA StoreUntouched == ASSUME StoreTypes, UNCHANGED S!server PROVE StoreTypes'
BY DEF StoreTypes, S!server

LEMMA BenchUntouched ==
    ASSUME BenchTypes, UNCHANGED S!bench, leftSurvey' \in [moves : Nat, adds : Nat, tabs : Nat, faults : Nat, open : SUBSET S!Views]
    PROVE  BenchTypes'
BY DEF BenchTypes, S!bench

LEMMA NumberedSame ==
    ASSUME Numbered, UNCHANGED <<asked, adding>>, leftSurvey'.adds = leftSurvey.adds
    PROVE Numbered'
BY DEF Numbered

LEMMA Spent ==
    ASSUME BenchTypes, NEW kind \in {"moves", "adds", "tabs", "faults"}, S!Use(kind)
    PROVE  /\ leftSurvey' \in [moves : Nat, adds : Nat, tabs : Nat, faults : Nat, open : SUBSET S!Views]
           /\ kind # "adds" => leftSurvey'.adds = leftSurvey.adds
           /\ kind = "adds" => leftSurvey'.adds = leftSurvey.adds - 1 /\ leftSurvey.adds > 0
           /\ leftSurvey'.open = leftSurvey.open
BY DEF BenchTypes, S!Use

(* A step of the participant's.                                                   *)
LEMMA PanelStep ==
    ASSUME SurveyInv, UNCHANGED <<S!server, S!bench>>, PanelTypes', PostTypes', Thanked',
           \/ UNCHANGED leftSurvey \/ \E kind \in {"moves", "tabs", "faults"} : S!Use(kind)
    PROVE  SurveyInv'
<1>1. BenchTypes /\ Numbered /\ StoreTypes
  BY DEF SurveyInv
<1>2. /\ leftSurvey' \in [moves : Nat, adds : Nat, tabs : Nat, faults : Nat, open : SUBSET S!Views]
      /\ leftSurvey'.adds = leftSurvey.adds
  BY <1>1, Spent DEF BenchTypes
<1>3. StoreTypes' /\ BenchTypes' /\ Numbered'
  BY <1>1, <1>2, StoreUntouched, BenchUntouched, NumberedSame DEF S!server, S!bench
<1> QED BY <1>3 DEF SurveyInv

LEMMA OpensKeeps ==
    ASSUME SurveyInv, NEW s \in AllSurveys \cup {NoSurvey}, S!Opens(s) PROVE SurveyInv'
<1>1. active' = s /\ UNCHANGED <<asked, sent, S!panel, S!bench>> /\ S!Use("moves")
  BY DEF S!Opens
<1>2. /\ leftSurvey' \in [moves : Nat, adds : Nat, tabs : Nat, faults : Nat, open : SUBSET S!Views]
      /\ leftSurvey'.adds = leftSurvey.adds
  BY <1>1, Spent DEF SurveyInv
<1>3. StoreTypes' /\ PanelTypes' /\ PostTypes' /\ Thanked'
  BY <1>1 DEF SurveyInv, StoreTypes, PanelTypes, PostTypes, Thanked, S!panel
<1>4. BenchTypes' /\ Numbered'
  BY <1>1, <1>2, BenchUntouched, NumberedSame DEF SurveyInv, S!bench
<1> QED BY <1>3, <1>4 DEF SurveyInv

LEMMA ShowsKeep ==
    ASSUME SurveyInv, S!PageFollows \/ S!TabLeft PROVE SurveyInv'
<1>1. PICK s \in AllSurveys \cup {NoSurvey} :
         /\ shown # s /\ S!Shows(s) /\ (UNCHANGED leftSurvey \/ S!Use("tabs"))
  BY DEF S!PageFollows, S!TabLeft, SurveyInv, StoreTypes
<1>2. /\ shown' = s
      /\ answers' = IF NoSurvey \in {s, shown} THEN {} ELSE answers
      /\ postSurvey' = IF s = NoSurvey THEN S!Orphaned ELSE postSurvey
      /\ lists' = IF s = NoSurvey THEN lists ELSE S!Mounts(s)
      /\ UNCHANGED <<S!server, S!bench>>
  BY <1>1 DEF S!Shows
<1>3. submitOkSurvey' \in BOOLEAN /\ (submitOkSurvey' => submitOkSurvey /\ s # NoSurvey /\ shown # NoSurvey)
  BY <1>1 DEF S!Shows, S!Cleared
<1>4. /\ carriedSurvey' \in BOOLEAN /\ (s = NoSurvey => ~ carriedSurvey')
      /\ (s # NoSurvey /\ shown # NoSurvey => carriedSurvey')
      /\ (shown = NoSurvey => ~ carriedSurvey')
  <2>1. carriedSurvey' = (NoSurvey \notin {s, shown} \/ (carriedSurvey /\ s # NoSurvey))
    BY <1>1 DEF S!Shows
  <2>2. shown = NoSurvey => ~ carriedSurvey
    BY DEF SurveyInv, Thanked
  <2> QED BY <2>1, <2>2
<1>5. lists' = lists \/ (s \in AllSurveys /\ lists' = [lists EXCEPT ![s] = S!Mounted(@)])
  BY <1>2 DEF S!Mounts
<1>6. DOMAIN lists' = AllSurveys /\ \A t \in AllSurveys : lists'[t] \in S!Queries(SUBSET S!Of(t))
  <2>1. DOMAIN lists = AllSurveys /\ \A t \in AllSurveys : lists[t] \in S!Queries(SUBSET S!Of(t))
    BY DEF SurveyInv, PanelTypes
  <2>2. \A t \in AllSurveys : S!Mounted(lists[t]) \in S!Queries(SUBSET S!Of(t))
    BY <2>1, SurveyQuery
  <2> QED BY <1>5, <2>1, <2>2
<1>7. PanelTypes'
  <2>1. answers' \subseteq S!Items
    BY <1>2 DEF SurveyInv, PanelTypes
  <2> QED BY <1>2, <1>3, <1>4, <1>6, <2>1 DEF PanelTypes
<1>8. /\ postSurvey' \in [SurveyPosts -> SurveyPost]
      /\ \A p \in SurveyPosts : /\ postSurvey'[p].at = postSurvey[p].at /\ postSurvey'[p].survey = postSurvey[p].survey
                                /\ postSurvey'[p].items = postSurvey[p].items
                                /\ postSurvey'[p].mine => postSurvey[p].mine /\ s # NoSurvey
                                /\ postSurvey[p] = S!NoPost => postSurvey'[p] = S!NoPost
  <2>1. CASE s = NoSurvey
    <3>1. postSurvey' = [p \in SurveyPosts |-> [postSurvey[p] EXCEPT !.mine = FALSE]]
      BY <1>2, <2>1 DEF S!Orphaned
    <3>2. \A p \in SurveyPosts : postSurvey[p] \in SurveyPost
      BY DEF SurveyInv, PostTypes
    <3>3. [S!NoPost EXCEPT !.mine = FALSE] = S!NoPost
      <4>1. S!NoPost = [S!NoPost EXCEPT !.mine = S!NoPost.mine]
        BY DEF S!NoPost
      <4>2. S!NoPost.mine = FALSE
        BY DEF S!NoPost
      <4> QED BY <4>1, <4>2
    <3> QED BY <3>1, <3>2, <3>3 DEF SurveyPost
  <2>2. CASE s # NoSurvey
    BY <1>2, <2>2 DEF SurveyInv, PostTypes
  <2> QED BY <2>1, <2>2
<1>9. PostTypes'
  BY <1>8 DEF SurveyInv, PostTypes
<1>10. Thanked'
  <2>1. shown' = NoSurvey => answers' = {} /\ ~ submitOkSurvey' /\ ~ carriedSurvey'
    BY <1>2, <1>3, <1>4
  <2>2. ASSUME NEW p \in SurveyPosts, postSurvey'[p].mine
        PROVE shown' # NoSurvey /\ carriedSurvey'
    BY <1>2, <1>4, <1>8, <2>2 DEF SurveyInv, Thanked
  <2>3. \A p \in SurveyPosts : postSurvey'[p].at = "stored" => sent'[postSurvey'[p].survey] # NoData
    BY <1>2, <1>8 DEF SurveyInv, Thanked, S!server
  <2>4. submitOkSurvey' => carriedSurvey'
    BY <1>3, <1>4
  <2> QED BY <2>1, <2>2, <2>3, <2>4 DEF Thanked
<1> QED BY <1>1, <1>2, <1>7, <1>9, <1>10, PanelStep

LEMMA AnswerOneKeeps == ASSUME SurveyInv, NEW i \in S!Items, S!Answer(i) PROVE SurveyInv'
<1>1. /\ shown # NoSurvey /\ answers' = answers \cup {i}
      /\ UNCHANGED <<S!server, S!bench, shown, lists, submitOkSurvey, postSurvey, carriedSurvey, leftSurvey>>
  BY DEF S!Answer
<1>2. PanelTypes' /\ PostTypes' /\ Thanked'
  BY <1>1 DEF SurveyInv, PanelTypes, PostTypes, Thanked, S!server
<1> QED BY <1>1, <1>2, PanelStep

LEMMA SubmitOneKeeps == ASSUME SurveyInv, NEW p \in SurveyPosts, S!Submit(p) PROVE SurveyInv'
<1> DEFINE new == [at |-> "asked", survey |-> shown, items |-> answers, mine |-> TRUE]
<1>1. /\ shown # NoSurvey /\ postSurvey' = [postSurvey EXCEPT ![p] = new]
      /\ UNCHANGED <<S!server, S!bench, shown, lists, answers, submitOkSurvey, carriedSurvey, leftSurvey>>
  BY DEF S!Submit
<1>2. shown \in AllSurveys /\ answers \subseteq S!Items
  BY <1>1 DEF SurveyInv, PanelTypes
<1>3. answers # {}
  BY DEF S!Submit
<1>4. new \in SurveyPost /\ new.survey = shown /\ new.items # {} /\ new.at = "asked"
  BY <1>2, <1>3 DEF SurveyPost
<1> HIDE DEF new
<1>5. postSurvey' \in [SurveyPosts -> SurveyPost] /\ postSurvey'[p] = new /\ \A o \in SurveyPosts \ {p} : postSurvey'[o] = postSurvey[o]
  BY <1>1, <1>4 DEF SurveyInv, PostTypes
<1>6. PostTypes'
  BY <1>2, <1>4, <1>5 DEF SurveyInv, PostTypes
<1>7. PanelTypes'
  BY <1>1 DEF SurveyInv, PanelTypes
<1>8. Thanked'
  BY <1>1, <1>4, <1>5 DEF SurveyInv, Thanked, S!server
<1> QED BY <1>1, <1>6, <1>7, <1>8, PanelStep

(* One submission is at another point, or over.                                   *)
LEMMA PostAt ==
    ASSUME SurveyInv, NEW p \in SurveyPosts, postSurvey[p].at # "free", NEW at \in {"stored", "failed"},
           postSurvey' = [postSurvey EXCEPT ![p].at = at]
    PROVE  /\ PostTypes' /\ postSurvey'[p].at = at /\ postSurvey'[p].survey = postSurvey[p].survey
           /\ postSurvey'[p].mine = postSurvey[p].mine /\ \A o \in SurveyPosts \ {p} : postSurvey'[o] = postSurvey[o]
<1>1. postSurvey \in [SurveyPosts -> SurveyPost] /\ postSurvey[p] \in SurveyPost
  BY DEF SurveyInv, PostTypes
<1>2. /\ postSurvey' \in [SurveyPosts -> SurveyPost] /\ postSurvey'[p].at = at /\ postSurvey'[p].survey = postSurvey[p].survey
      /\ postSurvey'[p].mine = postSurvey[p].mine /\ postSurvey'[p].items = postSurvey[p].items
      /\ \A o \in SurveyPosts \ {p} : postSurvey'[o] = postSurvey[o]
  BY <1>1 DEF SurveyPost
<1>3. PostTypes'
  BY <1>2 DEF SurveyInv, PostTypes
<1> QED BY <1>2, <1>3

LEMMA ServeSubmitKeeps ==
    ASSUME SurveyInv, NEW p \in SurveyPosts, S!ServeSubmit(p)
    PROVE SurveyInv'
<1>1. PICK s, items : s = postSurvey[p].survey /\ items = postSurvey[p].items
  OBVIOUS
<1>2. /\ postSurvey[p].at = "asked"
      /\ \/ sent' = [sent EXCEPT ![s] = items] /\ postSurvey' = [postSurvey EXCEPT ![p].at = "stored"]
         \/ sent' = sent /\ postSurvey' = [postSurvey EXCEPT ![p].at = "failed"]
      /\ UNCHANGED <<active, asked, S!bench, shown, lists, answers, submitOkSurvey, carriedSurvey, leftSurvey>>
  BY <1>1 DEF S!ServeSubmit
<1>3. s \in AllSurveys /\ items \in SUBSET S!Items /\ items # NoData
  <2>1. s \in AllSurveys /\ items \in SUBSET S!Items
    BY <1>1, <1>2 DEF SurveyInv, PostTypes, SurveyPost
  <2> QED BY <2>1, PartsAssumption DEF PartsAssumption, S!SurveyAssumption, S!Items
<1>4. /\ sent' \in [AllSurveys -> (SUBSET S!Items) \cup {NoData}]
      /\ \A t \in AllSurveys : sent[t] # NoData => sent'[t] # NoData
      /\ postSurvey' = [postSurvey EXCEPT ![p].at = "stored"] /\ sent' = [sent EXCEPT ![s] = items] => sent'[s] # NoData
  BY <1>2, <1>3 DEF SurveyInv, StoreTypes
<1>5. PICK at \in {"stored", "failed"} :
         postSurvey' = [postSurvey EXCEPT ![p].at = at] /\ (at = "stored" => sent'[s] # NoData)
  BY <1>2, <1>4
<1>6. /\ PostTypes' /\ postSurvey'[p].at = at /\ postSurvey'[p].survey = s
      /\ postSurvey'[p].mine = postSurvey[p].mine /\ \A o \in SurveyPosts \ {p} : postSurvey'[o] = postSurvey[o]
  BY <1>1, <1>2, <1>5, PostAt
<1>7. StoreTypes' /\ PanelTypes'
  BY <1>2, <1>4 DEF SurveyInv, StoreTypes, PanelTypes
<1>8. BenchTypes' /\ Numbered'
  BY <1>2, BenchUntouched, NumberedSame DEF SurveyInv, BenchTypes, S!bench
<1>9. Thanked'
  <2>1. ASSUME NEW o \in SurveyPosts, postSurvey'[o].mine
        PROVE  shown' # NoSurvey /\ (~ carriedSurvey' => postSurvey'[o].survey = shown')
    BY <1>1, <1>2, <1>6, <2>1 DEF SurveyInv, Thanked
  <2>2. ASSUME NEW o \in SurveyPosts, postSurvey'[o].at = "stored"
        PROVE sent'[postSurvey'[o].survey] # NoData
    <3>1. CASE o = p
      BY <1>5, <1>6, <2>2, <3>1
    <3>2. CASE o # p
      BY <1>4, <1>6, <2>2, <3>2 DEF SurveyInv, Thanked, PostTypes
    <3> QED BY <3>1, <3>2
  <2>3. submitOkSurvey' /\ ~ carriedSurvey' => sent'[shown'] # NoData
    BY <1>2, <1>4 DEF SurveyInv, Thanked, PanelTypes
  <2>4. shown' = NoSurvey => answers' = {} /\ ~ submitOkSurvey' /\ ~ carriedSurvey'
    BY <1>2 DEF SurveyInv, Thanked
  <2> QED BY <2>1, <2>2, <2>3, <2>4 DEF Thanked
<1> QED BY <1>6, <1>7, <1>8, <1>9 DEF SurveyInv

LEMMA LoseSubmitKeeps ==
    ASSUME SurveyInv, NEW p \in SurveyPosts, S!LoseSubmit(p)
    PROVE SurveyInv'
<1>1. /\ postSurvey[p].at \in {"asked", "stored"} /\ postSurvey' = [postSurvey EXCEPT ![p].at = "failed"]
      /\ UNCHANGED <<S!server, S!bench, shown, lists, answers, submitOkSurvey, carriedSurvey>> /\ S!Use("faults")
  BY DEF S!LoseSubmit
<1>2. /\ PostTypes' /\ postSurvey'[p].at = "failed" /\ postSurvey'[p].survey = postSurvey[p].survey
      /\ postSurvey'[p].mine = postSurvey[p].mine /\ \A o \in SurveyPosts \ {p} : postSurvey'[o] = postSurvey[o]
  BY <1>1, PostAt
<1>3. PanelTypes'
  BY <1>1 DEF SurveyInv, PanelTypes
<1>4. Thanked'
  BY <1>1, <1>2 DEF SurveyInv, Thanked, S!server
<1> QED BY <1>1, <1>2, <1>3, <1>4, PanelStep

LEMMA SubmitEndsKeeps ==
    ASSUME SurveyInv, NEW p \in SurveyPosts, S!SubmitEnds(p)
    PROVE SurveyInv'
<1>1. /\ postSurvey[p].at \in {"stored", "failed"} /\ postSurvey' = [postSurvey EXCEPT ![p] = S!NoPost]
      /\ submitOkSurvey' = IF postSurvey[p].mine THEN S!Succeeded(p) ELSE submitOkSurvey
      /\ lists' = IF postSurvey[p].mine /\ S!Succeeded(p)
                  THEN [lists EXCEPT ![shown] = S!Refetched(@)] ELSE lists
      /\ UNCHANGED <<S!server, S!bench, shown, answers, carriedSurvey, leftSurvey>>
  BY DEF S!SubmitEnds
<1>2. submitOkSurvey' \in BOOLEAN
  BY <1>1 DEF S!Succeeded, SurveyInv, PanelTypes
<1>3. postSurvey' \in [SurveyPosts -> SurveyPost] /\ postSurvey'[p] = S!NoPost /\ \A o \in SurveyPosts \ {p} : postSurvey'[o] = postSurvey[o]
  BY <1>1, NoPostOK DEF SurveyInv, PostTypes
<1>4. PostTypes'
  BY <1>3, NoPostOK DEF SurveyInv, PostTypes
<1>5. postSurvey[p].mine => shown \in AllSurveys
  BY DEF SurveyInv, Thanked, PanelTypes
<1>6. DOMAIN lists' = AllSurveys /\ \A t \in AllSurveys : lists'[t] \in S!Queries(SUBSET S!Of(t))
  <2>1. DOMAIN lists = AllSurveys /\ \A t \in AllSurveys : lists[t] \in S!Queries(SUBSET S!Of(t))
    BY DEF SurveyInv, PanelTypes
  <2>2. \A t \in AllSurveys : S!Refetched(lists[t]) \in S!Queries(SUBSET S!Of(t))
    BY <2>1, SurveyQuery
  <2> QED BY <1>1, <1>5, <2>1, <2>2
<1>7. PanelTypes'
  BY <1>1, <1>2, <1>6 DEF SurveyInv, PanelTypes
<1>8. submitOkSurvey' /\ ~ carriedSurvey' => sent'[shown'] # NoData
  BY <1>1 DEF SurveyInv, Thanked, S!Succeeded, S!server
<1>9. shown' = NoSurvey => answers' = {} /\ ~ submitOkSurvey' /\ ~ carriedSurvey'
  BY <1>1 DEF SurveyInv, Thanked
<1>10. Thanked'
  BY <1>1, <1>3, <1>8, <1>9, NoPostOK DEF SurveyInv, Thanked, S!server
<1> QED BY <1>1, <1>4, <1>7, <1>10, PanelStep

LEMMA ListsKeep ==
    ASSUME SurveyInv, S!ListPolls \/ \E s \in AllSurveys : S!ListAnswers(s) \/ S!ListStores(s)
    PROVE  SurveyInv'
<1>0. DOMAIN lists = AllSurveys /\ \A t \in AllSurveys : lists[t] \in S!Queries(SUBSET S!Of(t))
  BY DEF SurveyInv, PanelTypes
<1>1. UNCHANGED <<S!server, S!bench, shown, answers, submitOkSurvey, postSurvey, carriedSurvey, leftSurvey>>
  BY DEF S!ListPolls, S!ListAnswers, S!ListStores
<1>2. PICK s \in AllSurveys : \E x \in S!Queries(SUBSET S!Of(s)) : lists' = [lists EXCEPT ![s] = x]
  <2>1. CASE S!ListPolls
    <3>1. shown \in AllSurveys /\ lists' = [lists EXCEPT ![shown] = S!Fetched(@)]
      BY <2>1 DEF S!ListPolls, SurveyInv, PanelTypes
    <3>2. S!Fetched(lists[shown]) \in S!Queries(SUBSET S!Of(shown))
      BY <1>0, <3>1, SurveyQuery
    <3> QED BY <1>0, <3>1, <3>2
  <2>2. ASSUME NEW s \in AllSurveys, S!ListAnswers(s)
        PROVE  \E x \in S!Queries(SUBSET S!Of(s)) : lists' = [lists EXCEPT ![s] = x]
    <3>1. PICK d : d = IF active = s THEN asked[s] ELSE {}
      OBVIOUS
    <3>2. d \in SUBSET S!Of(s)
      BY <3>1 DEF SurveyInv, StoreTypes
    <3>3. S!Answered(lists[s], d) \in S!Queries(SUBSET S!Of(s))
      BY <1>0, <3>2, SurveyQuery
    <3>4. lists' = [lists EXCEPT ![s] = S!Answered(@, d)]
      BY <2>2, <3>1 DEF S!ListAnswers
    <3> QED BY <1>0, <3>3, <3>4
  <2>3. ASSUME NEW s \in AllSurveys, S!ListStores(s)
        PROVE  \E x \in S!Queries(SUBSET S!Of(s)) : lists' = [lists EXCEPT ![s] = x]
    <3>1. S!Stored(lists[s]) \in S!Queries(SUBSET S!Of(s)) /\ lists' = [lists EXCEPT ![s] = S!Stored(@)]
      BY <1>0, <2>3, SurveyQuery DEF S!ListStores
    <3> QED BY <1>0, <3>1
  <2> QED BY <2>1, <2>2, <2>3
<1>3. DOMAIN lists' = AllSurveys /\ \A t \in AllSurveys : lists'[t] \in S!Queries(SUBSET S!Of(t))
  BY <1>0, <1>2
<1>4. PanelTypes' /\ PostTypes' /\ Thanked'
  BY <1>1, <1>3 DEF SurveyInv, PanelTypes, PostTypes, Thanked, S!server
<1> QED BY <1>1, <1>4, PanelStep

(* A step of the host's page that adds no question.                               *)
LEMMA BenchStep ==
    ASSUME SurveyInv, UNCHANGED <<S!server, S!panel>>, BenchTypes', Numbered' PROVE SurveyInv'
BY DEF SurveyInv, StoreTypes, PanelTypes, PostTypes, Thanked, S!server, S!panel

LEMMA NewTitleKeeps == ASSUME SurveyInv, S!TypeTitle PROVE SurveyInv'
<1>1. draft' = "typed" /\ UNCHANGED <<S!server, S!panel, adding, views, leftSurvey>>
  BY DEF S!TypeTitle
<1>2. BenchTypes' /\ Numbered'
  BY <1>1, NumberedSame DEF SurveyInv, BenchTypes, S!server
<1> QED BY <1>1, <1>2, BenchStep

LEMMA AddsKeep == ASSUME SurveyInv, S!AddQuestion \/ S!LoseAdd PROVE SurveyInv'
<1>0. BenchTypes /\ Numbered
  BY DEF SurveyInv
<1>1. /\ UNCHANGED <<S!server, S!panel, draft, views>>
      /\ \/ adding = "free" /\ S!Use("adds") /\ adding' = "asked"
         \/ adding \in {"asked", "stored"} /\ S!Use("faults") /\ adding' = "failed"
  BY DEF S!AddQuestion, S!LoseAdd
<1>2. leftSurvey' \in [moves : Nat, adds : Nat, tabs : Nat, faults : Nat, open : SUBSET S!Views]
  BY <1>0, <1>1, Spent
<1>3. BenchTypes'
  BY <1>0, <1>1, <1>2 DEF BenchTypes
<1>4. PICK n \in Nat \ {0} :
       /\ asked[Edited] = {<<Edited, k>> : k \in 1..n}
       /\ IsFiniteSet(asked[Edited]) /\ Cardinality(asked[Edited]) = n
       /\ 1..(n + leftSurvey.adds + (IF adding = "asked" THEN 1 ELSE 0)) \subseteq SurveyNumbers
  BY <1>0 DEF Numbered
<1>5. leftSurvey.adds \in Nat /\ leftSurvey'.adds \in Nat
  BY <1>0, <1>2 DEF BenchTypes
<1>6. n + leftSurvey'.adds + (IF adding' = "asked" THEN 1 ELSE 0)
        <= n + leftSurvey.adds + (IF adding = "asked" THEN 1 ELSE 0)
  <2>1. CASE adding = "free" /\ S!Use("adds") /\ adding' = "asked"
    BY <1>0, <1>5, <2>1, Spent
  <2>2. CASE S!Use("faults") /\ adding' = "failed"
    BY <1>0, <1>5, <2>2, Spent
  <2> QED BY <1>1, <2>1, <2>2
<1>7. 1..(n + leftSurvey'.adds + (IF adding' = "asked" THEN 1 ELSE 0)) \subseteq SurveyNumbers
  BY <1>4, <1>5, <1>6
<1>8. Numbered'
  BY <1>1, <1>4, <1>7 DEF Numbered, S!server
<1> QED BY <1>1, <1>3, <1>8, BenchStep

LEMMA ServeAddKeeps == ASSUME SurveyInv, S!ServeAdd PROVE SurveyInv'
<1>0. BenchTypes /\ Numbered /\ StoreTypes /\ Edited \in AllSurveys
  BY PartsAssumption DEF PartsAssumption, SurveyInv, S!SurveyAssumption
<1>1. /\ adding = "asked" /\ adding' = "stored"
      /\ asked' = [asked EXCEPT ![Edited] = @ \cup {<<Edited, Cardinality(@) + 1>>}]
      /\ UNCHANGED <<active, sent, S!panel, draft, views, leftSurvey>>
  BY SurveyCard DEF S!ServeAdd
<1>2. PICK n \in Nat \ {0} :
       /\ asked[Edited] = {<<Edited, k>> : k \in 1..n}
       /\ IsFiniteSet(asked[Edited]) /\ Cardinality(asked[Edited]) = n
       /\ 1..(n + leftSurvey.adds + 1) \subseteq SurveyNumbers
  BY <1>0, <1>1 DEF Numbered
<1>3. leftSurvey.adds \in Nat
  BY <1>0 DEF BenchTypes
<1>4. n + 1 \in SurveyNumbers /\ n + 1 \in Nat \ {0}
  BY <1>2, <1>3
<1>5. asked'[Edited] = asked[Edited] \cup {<<Edited, n + 1>>}
      /\ \A s \in AllSurveys \ {Edited} : asked'[s] = asked[s]
  BY <1>0, <1>1, <1>2 DEF StoreTypes
<1>6. <<Edited, n + 1>> \notin asked[Edited]
  BY <1>2
<1>7. IsFiniteSet(asked'[Edited]) /\ Cardinality(asked'[Edited]) = n + 1
  <2>1. PICK A, x : A = asked[Edited] /\ x = <<Edited, n + 1>>
    OBVIOUS
  <2>2. IsFiniteSet(A \cup {x}) /\ Cardinality(A \cup {x}) = n + 1
    BY <1>2, <1>6, <2>1, FS_AddElement
  <2> QED BY <1>5, <2>1, <2>2
<1>8. asked'[Edited] = {<<Edited, k>> : k \in 1..(n + 1)}
  <2>1. 1..(n + 1) = (1..n) \cup {n + 1}
    OBVIOUS
  <2> QED BY <1>2, <1>5, <2>1
<1>9. 1..((n + 1) + leftSurvey.adds + 0) \subseteq SurveyNumbers
  BY <1>2, <1>3
<1>10. Numbered'
  BY <1>1, <1>4, <1>7, <1>8, <1>9 DEF Numbered
<1>11. <<Edited, n + 1>> \in S!Of(Edited) /\ S!Of(Edited) \subseteq S!Items
  BY <1>0, <1>4 DEF S!Of, S!Items
<1>12. StoreTypes'
  <2>1. \A s \in AllSurveys : asked'[s] \subseteq S!Of(s) /\ asked'[s] \in SUBSET S!Items
    BY <1>0, <1>5, <1>11 DEF StoreTypes
  <2>2. asked' \in [AllSurveys -> SUBSET S!Items]
    BY <1>0, <1>1, <2>1 DEF StoreTypes
  <2> QED BY <1>0, <1>1, <2>1, <2>2 DEF StoreTypes
<1>13. BenchTypes'
  BY <1>0, <1>1 DEF BenchTypes
<1>14. PanelTypes' /\ PostTypes' /\ Thanked'
  BY <1>1 DEF SurveyInv, PanelTypes, PostTypes, Thanked, S!panel
<1> QED BY <1>10, <1>12, <1>13, <1>14 DEF SurveyInv

LEMMA ViewKeeps ==
    ASSUME BenchTypes, NEW v \in S!Views, NEW x, v = "questions" => x \in S!Queries(SUBSET S!Items),
           views' = [views EXCEPT ![v] = x], UNCHANGED <<draft, adding, leftSurvey>>
    PROVE  BenchTypes'
BY DEF BenchTypes, S!Views

LEMMA ViewsKeep ==
    ASSUME SurveyInv, NEW v \in S!Views, S!BenchPolls(v) \/ S!BenchAnswers(v) \/ S!BenchStores(v)
    PROVE  SurveyInv'
<1>0. BenchTypes /\ Numbered
  BY DEF SurveyInv
<1>1. UNCHANGED <<S!server, S!panel, draft, adding, leftSurvey>>
  BY DEF S!BenchPolls, S!BenchAnswers, S!BenchStores, S!Rests
<1>2. PICK x \in {S!Fetched(views[v]), S!Answered(views[v], S!Now(v)), S!Stored(views[v])} :
         views' = [views EXCEPT ![v] = x]
  BY DEF S!BenchPolls, S!BenchAnswers, S!BenchStores
<1>3. v = "questions" => x \in S!Queries(SUBSET S!Items)
  <2> SUFFICES ASSUME v = "questions" PROVE x \in S!Queries(SUBSET S!Items)
    OBVIOUS
  <2>1. views[v] \in S!Queries(SUBSET S!Items)
    BY <1>0 DEF BenchTypes
  <2>2. PICK d : d = S!Now(v)
    OBVIOUS
  <2>3. d \in SUBSET S!Items
    BY <2>2, PartsAssumption DEF PartsAssumption, S!Now, S!SurveyAssumption, SurveyInv,
                                 StoreTypes
  <2>4. /\ S!Fetched(views[v]) \in S!Queries(SUBSET S!Items) /\ S!Stored(views[v]) \in S!Queries(SUBSET S!Items)
        /\ S!Answered(views[v], d) \in S!Queries(SUBSET S!Items)
    BY <2>1, <2>3, SurveyQuery
  <2> QED BY <1>2, <2>2, <2>4
<1>4. BenchTypes' /\ Numbered'
  BY <1>0, <1>1, <1>2, <1>3, ViewKeeps, NumberedSame DEF S!server
<1> QED BY <1>1, <1>4, BenchStep

LEMMA AddEndsKeeps == ASSUME SurveyInv, S!AddEnds PROVE SurveyInv'
<1>0. BenchTypes /\ Numbered
  BY DEF SurveyInv
<1>1. /\ adding \in {"stored", "failed"} /\ adding' = "free" /\ UNCHANGED <<S!server, S!panel, leftSurvey>>
      /\ \/ UNCHANGED <<draft, views>>
         \/ /\ draft' = "default"
            /\ views' = [v \in S!Views |-> IF v \in leftSurvey.open THEN S!Refetched(views[v]) ELSE S!Unused]
  BY DEF S!AddEnds
<1>2. views["questions"] \in S!Queries(SUBSET S!Items) /\ DOMAIN views = S!Views
  BY <1>0 DEF BenchTypes
<1>3. S!Refetched(views["questions"]) \in S!Queries(SUBSET S!Items) /\ S!Unused \in S!Queries(SUBSET S!Items)
  BY <1>2, SurveyQuery, SurveyAny
<1>4. BenchTypes'
  BY <1>0, <1>1, <1>2, <1>3 DEF BenchTypes, S!Views
<1>5. Numbered'
  BY <1>0, <1>1 DEF Numbered, S!server
<1> QED BY <1>1, <1>4, <1>5, BenchStep

LEMMA SurveyNext == SurveyInv /\ [S!Next]_S!vars => SurveyInv'
<1> SUFFICES ASSUME SurveyInv, [S!Next]_S!vars PROVE SurveyInv'
  OBVIOUS
<1>1. CASE UNCHANGED S!vars
  <2>1. UNCHANGED <<S!server, S!panel, S!bench, leftSurvey>>
    BY <1>1 DEF S!vars
  <2>2. BenchTypes' /\ Numbered'
    BY <2>1 DEF SurveyInv, BenchTypes, Numbered, S!server, S!bench
  <2> QED BY <2>1, <2>2, BenchStep
<1>2. CASE S!Next
  BY <1>2, OpensKeeps, ShowsKeep, AnswerOneKeeps, SubmitOneKeeps, ServeSubmitKeeps,
      LoseSubmitKeeps,
     SubmitEndsKeeps, ListsKeep, NewTitleKeeps, AddsKeep, ServeAddKeeps, AddEndsKeeps,
     ViewsKeep
     DEF S!Next
<1> QED BY <1>1, <1>2

LEMMA SurveyGives == SurveyInv => S!TypeOK /\ S!ThanksForStored
<1> SUFFICES ASSUME SurveyInv PROVE S!TypeOK /\ S!ThanksForStored
  OBVIOUS
<1>1. S!TypeOK
  <2>1. \A p \in SurveyPosts : postSurvey[p] = S!NoPost \/ postSurvey[p].items # {}
    BY DEF SurveyInv, PostTypes
  <2>2. \A kind \in {"moves", "adds", "tabs", "faults"} : leftSurvey[kind] \in Nat
    BY DEF SurveyInv, BenchTypes
  <2> QED BY <2>1, <2>2 DEF SurveyInv, StoreTypes, PanelTypes, BenchTypes, Thanked,
                            S!TypeOK
<1>2. S!ThanksForStored
  BY DEF SurveyInv, Thanked, S!ThanksForStored
<1> QED BY <1>1, <1>2

-----------------------------------------------------------------------------
(* All parts together: a behaviour follows one.                                *)

PartInv ==
    /\ part = "page"   => PageInv /\ RestInv
    /\ part = "voting" => VoteInv
    /\ part = "survey" => SurveyInv
    /\ part = "quiz"   => QInv /\ PlayInv
    /\ part = "forms"  => FormInv
    /\ part = "counts" => CountInv
    /\ part \in Parts

LEMMA PageStep == part = "page" /\ [Next]_vars => [P!Next]_P!vars /\ part' = "page"
  BY DEF Next, vars, varsP, P!vars, P!server, P!bus, P!page, P!past

LEMMA VotingStep == part = "voting" /\ [Next]_vars => [V!Next]_V!vars /\ part' = "voting"
  BY DEF Next, vars, varsV, V!vars, V!served, V!panel

LEMMA SurveyStep == part = "survey" /\ [Next]_vars => [S!Next]_S!vars /\ part' = "survey"
  BY DEF Next, vars, varsS, S!vars, S!server, S!panel, S!bench

LEMMA QuizStep == part = "quiz" /\ [Next]_vars => [Z!Next]_Z!vars /\ part' = "quiz"
  BY DEF Next, vars, varsZ, Z!vars, Z!server, Z!desk, Z!seat

LEMMA FormStep == part = "forms" /\ [Next]_vars => [F!Next]_F!vars /\ part' = "forms"
  BY DEF Next, vars, varsF, F!vars, F!server, F!form

LEMMA CountStep == part = "counts" /\ [Next]_vars => [R!Next]_R!vars /\ part' = "counts"
  BY DEF Next, vars, varsR, R!vars, R!stored, R!hash, R!request, R!budget

LEMMA PartsInductive == Spec => []PartInv
<1>1. LookedAt \subseteq Parts /\ Init => PartInv
  BY PageInit, RestInit, VoteInit, SurveyInit, QuizInit, PlayInit, FormInit, CountInit DEF Init, PartInv
<1>2. PartInv /\ [Next]_vars => PartInv'
  <2> SUFFICES ASSUME PartInv, [Next]_vars PROVE PartInv'
    OBVIOUS
  <2>1. CASE part = "page"
    BY <2>1, PageStep, PageNext, RestNext DEF PartInv
  <2>2. CASE part = "voting"
    BY <2>2, VotingStep, VoteNext DEF PartInv
  <2>3. CASE part = "survey"
    BY <2>3, SurveyStep, SurveyNext DEF PartInv
  <2>4. CASE part = "quiz"
    BY <2>4, QuizStep, QuizNext, PlayNext DEF PartInv, QInv
  <2>5. CASE part = "forms"
    BY <2>5, FormStep, FormNext DEF PartInv
  <2>6. CASE part = "counts"
    BY <2>6, CountStep, CountNext DEF PartInv
  <2> QED BY <2>1, <2>2, <2>3, <2>4, <2>5, <2>6 DEF PartInv, Parts
<1>3. LookedAt \subseteq Parts
  BY PartsAssumption DEF PartsAssumption
<1> QED BY <1>1, <1>2, <1>3, PTL DEF Spec

(* What the parts are made of, for any of them: rows, caches, requests and events   *)
(* under way keep their shape, whatever arrives late, twice or not at all.         *)
THEOREM PartsKeepTypes == Spec => []TypeOK
<1>1. PartInv => TypeOK
  BY PageGives, VoteGives, SurveyGives, PlayGives, FormGives, CountGives DEF PartInv, TypeOK, Parts, QInv
<1> QED BY <1>1, PartsInductive, PTL

(* At rest a participant sees what the server has: the running poll and its status, *)
(* the tab of what runs, and the questions with their counts and the own votes, but *)
(* for what the parts say was missed (RoomPage's handlers of events and its queries, *)
(* RoomQaPanel's): for any polls, hosts and questions, whatever events came twice,  *)
(* late or out of order.                                                          *)
THEOREM ShownTruly == Spec => []ShownAtRest
<1>1. PartInv => ShownAtRest
  BY RestGives, VoteGives DEF PartInv, ShownAtRest
<1> QED BY <1>1, PartsInductive, PTL

(* What a participant is told to have submitted was submitted, for the poll, the    *)
(* survey or the question that is shown (pollSubmitOk, the panel's and the quiz's   *)
(* submitOk), unless the screen had moved on: for any polls, surveys, questions and *)
(* requests under way.                                                            *)
THEOREM NoticesHold == Spec => []NoticesAreTrue
<1>1. PartInv => NoticesAreTrue
  BY PageGives, SurveyGives, PlayGives DEF PartInv, NoticesAreTrue, QInv
<1> QED BY <1>1, PartsInductive, PTL

(* What the server makes of a vote or stores of a form is what the participant      *)
(* meant (handleVote, submitMutation): for any questions, forms and                 *)
(* requests under way.                                                            *)
THEOREM AnswersMean == Spec => []AnswersAreMeant
<1>1. PartInv => AnswersAreMeant
  BY VoteGives, FormGives DEF PartInv, AnswersAreMeant
<1> QED BY <1>1, PartsInductive, PTL

(* One question runs at a time unless two actions of hosts overlapped            *)
(* (quiz_action closes the others that run): for any quiz and any host.          *)
THEOREM OneQuestionAtATime == Spec => []OneRuns
<1>1. PartInv => OneRuns
  BY QuizGives DEF PartInv, OneRuns
<1> QED BY <1>1, PartsInductive, PTL

(* The counts of the results are the answers that are stored, give or take the     *)
(* requests that are counting (submit_response, incremental_update, the hooks of    *)
(* a reset), unless something irregular happened: for any poll, any participants,   *)
(* any requests under way and any bounds.                                           *)
THEOREM ResultsFollowAnswers == Spec => []CountsFollow
<1>1. PartInv => CountsFollow
  BY CountGives DEF PartInv, CountsFollow
<1> QED BY <1>1, PartsInductive, PTL
==============================================================================
