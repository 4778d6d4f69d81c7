--------------------------- MODULE HostPagesProofs ---------------------------
(* What the host's pages promise, for any questions, items, options, words, hosts,   *)
(* requests under way and bounds.                                                 *)
EXTENDS WorkbenchProofs, WellFoundedInduction

-----------------------------------------------------------------------------
(* The moderation of questions.                                                *)
(* A highlight that has read which others there are, and not written yet.          *)
Lighting(c) == request[c].kind = "highlight" /\ request[c].at = "read"

(* Unless two highlights overlapped, one is between its reading and its writing at   *)
(* most, and it clears whatever is lit but its own question.                       *)
LightInv ==
    /\ request = [c \in M!Channels |-> request[c]]
    /\ raced \in BOOLEAN
    /\ ~ raced =>
         /\ \A x, y \in lit : x = y
         /\ \A c, d \in M!Channels : Lighting(c) /\ Lighting(d) => c = d
         /\ \A c \in M!Channels : Lighting(c) => lit \subseteq request[c].read.cleared \cup {request[c].q}

LEMMA LightInit == M!Init => LightInv
<1> SUFFICES ASSUME M!Init PROVE LightInv
  OBVIOUS
<1>1. request = [c \in M!Channels |-> M!NoRequest] /\ lit = {} /\ raced = FALSE
  BY DEF M!Init
<1>2. M!NoRequest.kind # "highlight"
  BY DEF M!NoRequest
<1> QED BY <1>1, <1>2 DEF LightInv, Lighting

(* A request that is not between a highlight's reading and writing disturbs nothing. *)
LEMMA SendKeeps ==
    ASSUME LightInv, NEW c \in M!Channels, NEW r, M!Send(c, r), ~ (r.kind = "highlight" /\ r.at = "read"),
           lit' \subseteq lit, raced' = raced
    PROVE  LightInv'
<1>1. request' = [request EXCEPT ![c] = r]
  BY DEF M!Send
<1> QED BY <1>1 DEF LightInv, Lighting

LEMMA AskKeeps ==
    ASSUME LightInv, NEW c \in M!Channels, NEW kind, NEW q, NEW dups, M!Send(c, M!Ask(kind, q, dups)),
           UNCHANGED <<M!rows, M!trace>>
    PROVE  LightInv'
<1>1. M!Ask(kind, q, dups).at # "read"
  BY DEF M!Ask, M!NoRequest
<1> QED BY <1>1, SendKeeps DEF M!rows, M!trace

LEMMA RowsReadKeeps == ASSUME LightInv, NEW c \in M!Channels, M!Read(c) PROVE LightInv'
<1> DEFINE r == request[c]
           n == [r EXCEPT !.at = "read", !.read = [up |-> up, into |-> into, cleared |-> M!Cleared(r)]]
<1>1. r.at = "asked" /\ lit' = lit
  BY DEF M!Read, M!rows
<1>2. raced' = (raced \/ (r.kind = "highlight" /\ \E d \in M!Channels \ {c} :
                   request[d].kind = "highlight" /\ request[d].at = "read"))
  BY DEF M!Read
<1>3. CASE M!Refused(r)
  <2>1. M!Send(c, [r EXCEPT !.at = "failed"])
    BY <1>3 DEF M!Read
  <2>2. [r EXCEPT !.at = "failed"].at # "read"
    BY <1>1
  <2>3. CASE raced' = raced
    BY <1>1, <2>1, <2>2, <2>3, SendKeeps
  <2>4. CASE raced' # raced
    <3>1. raced' = TRUE
      BY <1>2, <2>4 DEF LightInv
    <3> QED BY <3>1, <2>1 DEF LightInv, M!Send
  <2> QED BY <2>3, <2>4
<1>4. CASE ~ M!Refused(r) /\ r.kind # "highlight"
  <2>1. M!Send(c, n)
    BY <1>4 DEF M!Read
  <2>2. n.kind = r.kind
    OBVIOUS
  <2>3. raced' = raced
    BY <1>2, <1>4 DEF LightInv
  <2> HIDE DEF n
  <2> QED BY <1>1, <1>4, <2>1, <2>2, <2>3, SendKeeps
<1>5. CASE ~ M!Refused(r) /\ r.kind = "highlight"
  <2>1. request' = [request EXCEPT ![c] = n]
    BY <1>5 DEF M!Read, M!Send
  <2>2. raced' = (raced \/ \E d \in M!Channels \ {c} : Lighting(d))
    BY <1>2, <1>5 DEF Lighting
  <2>3. raced' \in BOOLEAN
    BY <2>2
  <2>4. ~ raced' => ~ raced /\ \A d \in M!Channels \ {c} : ~ Lighting(d)
    BY <2>2
  <2>5. request' = [x \in M!Channels |-> IF x = c THEN n ELSE request[x]]
    BY <2>1 DEF LightInv
  <2>6. CASE n.at = "read"
    <3>1. n.read.cleared = lit \ {r.q} /\ n.q = r.q
      BY <1>5, <2>6 DEF M!Cleared
    <3> HIDE DEF n
    <3> QED BY <1>1, <2>3, <2>4, <2>5, <3>1 DEF LightInv, Lighting
  <2>7. CASE n.at # "read"
    <3> HIDE DEF n
    <3> QED BY <1>1, <2>3, <2>4, <2>5, <2>7 DEF LightInv, Lighting
  <2> QED BY <2>6, <2>7
<1> QED BY <1>3, <1>4, <1>5

LEMMA WriteKeeps ==
    ASSUME LightInv, NEW c \in M!Channels, NEW heard, M!Commit(c, heard)
    PROVE LightInv'
<1> DEFINE r == request[c]
           n == [r EXCEPT !.at = M!Outcome(r)]
<1>1. r.at = "read" /\ request' = [request EXCEPT ![c] = n] /\ raced' = raced
  BY DEF M!Commit, M!Send
<1>2. n.at # "read"
  BY <1>1 DEF M!Outcome
<1>3. lit' = CASE r.kind = "highlight" -> (lit \ r.read.cleared) \cup {r.q}
               [] r.kind = "unhighlight" -> lit \ {r.q} [] OTHER -> lit
  BY DEF M!Commit, M!Write
<1>4. CASE r.kind = "highlight"
  <2>1. lit' = (lit \ r.read.cleared) \cup {r.q}
    BY <1>3, <1>4
  <2>2. Lighting(c)
    BY <1>1, <1>4 DEF Lighting
  <2>3. request' = [x \in M!Channels |-> IF x = c THEN n ELSE request[x]]
    BY <1>1 DEF LightInv
  <2>4. ASSUME ~ raced PROVE (\A x, y \in lit' : x = y) /\ \A d \in M!Channels : ~ Lighting(d)'
    <3>1. lit \subseteq r.read.cleared \cup {r.q}
      BY <2>2, <2>4 DEF LightInv
    <3>2. \A x \in lit' : x = r.q
      BY <2>1, <3>1
    <3>3. \A d \in M!Channels : d # c => ~ Lighting(d)
      BY <2>2, <2>4 DEF LightInv
    <3> HIDE DEF n
    <3> QED BY <1>2, <2>3, <3>2, <3>3 DEF Lighting
  <2> HIDE DEF n
  <2> QED BY <1>1, <2>3, <2>4 DEF LightInv
<1>5. CASE r.kind # "highlight"
  <2>1. lit' \subseteq lit
    BY <1>3, <1>5
  <2>2. M!Send(c, n)
    BY <1>1 DEF M!Send
  <2> HIDE DEF n
  <2> QED BY <1>1, <1>2, <2>1, <2>2, SendKeeps
<1> QED BY <1>4, <1>5

LEMMA AnswerKeeps ==
    ASSUME LightInv, NEW c \in M!Channels, M!Settle(c) \/ M!LoseRequest(c) \/ M!RivalAnswered
    PROVE  LightInv'
<1>1. lit' = lit /\ raced' = raced
  BY DEF M!Settle, M!LoseRequest, M!RivalAnswered, M!rows, M!trace
<1>2. M!NoRequest.at # "read" /\ "rival" \in M!Channels
  BY DEF M!NoRequest, M!Channels
<1>3. CASE M!Settle(c)
  BY <1>1, <1>2, <1>3, SendKeeps DEF M!Settle
<1>4. CASE M!LoseRequest(c)
  <2> DEFINE n == [request[c] EXCEPT !.at = "failed"]
  <2>1. M!Send(c, n) /\ n.at # "read"
    BY <1>4 DEF M!LoseRequest
  <2> HIDE DEF n
  <2> QED BY <1>1, <2>1, SendKeeps
<1>5. CASE M!RivalAnswered
  BY <1>1, <1>2, <1>5, SendKeeps DEF M!RivalAnswered
<1> QED BY <1>3, <1>4, <1>5

LEMMA HostsKeep == ASSUME LightInv, M!Hosts PROVE LightInv'
<1>1. M!Channels = {"buttons", "drag", "cluster", "undo", "reply", "rival"}
  BY DEF M!Channels
<1>2. ASSUME NEW q, NEW k, M!Press(q, k) PROVE LightInv'
  BY <1>1, <1>2, AskKeeps DEF M!Press
<1>3. ASSUME NEW q, NEW p, M!Drop(q, p) PROVE LightInv'
  BY <1>1, <1>3, AskKeeps DEF M!Drop
<1>4. ASSUME NEW c, M!MergeCluster(c) PROVE LightInv'
  BY <1>1, <1>4, AskKeeps DEF M!MergeCluster
<1>5. ASSUME NEW q, M!TakeOut(q) PROVE LightInv'
  BY <1>1, <1>5, AskKeeps DEF M!TakeOut
<1>6. ASSUME NEW q, M!Reply(q) PROVE LightInv'
  BY <1>1, <1>6, AskKeeps DEF M!Reply
<1>7. ASSUME NEW k, NEW q, NEW dups, M!Rival(k, q, dups) PROVE LightInv'
  BY <1>1, <1>7, AskKeeps DEF M!Rival
<1>8. ASSUME UNCHANGED <<M!rows, request, M!trace>> PROVE LightInv'
  BY <1>8 DEF LightInv, Lighting, M!rows, M!trace
<1>9. ASSUME NEW q, NEW dups, \/ M!Scan(q, dups) \/ (\E c \in clusters : M!DismissCluster(c))
                              \/ M!OpenDetail(q) \/ M!OpenReply(q) \/ M!CloseDetail
      PROVE  UNCHANGED <<M!rows, request, M!trace>>
  BY <1>9 DEF M!Scan, M!DismissCluster, M!OpenDetail, M!OpenReply, M!CloseDetail
<1> QED BY <1>2, <1>3, <1>4, <1>5, <1>6, <1>7, <1>8, <1>9 DEF M!Hosts

LEMMA LightNext == LightInv /\ [M!Next]_M!vars => LightInv'
<1> SUFFICES ASSUME LightInv, [M!Next]_M!vars PROVE LightInv'
  OBVIOUS
<1>1. CASE M!Panel
  BY <1>1, AnswerKeeps DEF M!Panel
<1>2. CASE M!Server
  <2>1. CASE M!AnswerItems
    BY <2>1 DEF M!AnswerItems, LightInv, Lighting, M!rows, M!trace
  <2>2. CASE M!RivalAnswered
    BY <2>2, AnswerKeeps DEF M!Channels
  <2> QED BY <1>2, <2>1, <2>2, RowsReadKeeps, WriteKeeps DEF M!Server
<1>3. CASE M!Faults
  BY <1>3, AnswerKeeps, WriteKeeps DEF M!Faults
<1>4. CASE M!StoreItems \/ M!PollItems \/ UNCHANGED M!vars
  BY <1>4 DEF M!StoreItems, M!PollItems, LightInv, Lighting, M!rows, M!trace, M!vars
<1>5. ASSUME NEW q \in Questions, M!CountVote(q) PROVE LightInv'
  BY <1>5 DEF M!CountVote, LightInv, Lighting
<1> QED BY <1>1, <1>2, <1>3, <1>4, <1>5, HostsKeep DEF M!Next

LEMMA LitCard == ASSUME NEW X PROVE M!Cardinality(X) = Cardinality(X)
BY DEF M!Cardinality, Cardinality

LEMMA LightGives == LightInv => M!OneHighlight
<1> SUFFICES ASSUME LightInv, ~ raced PROVE Cardinality(lit) <= 1
  BY LitCard DEF M!OneHighlight
<1>1. CASE lit = {}
  BY <1>1, FS_EmptySet, LitCard
<1>2. ASSUME NEW x \in lit PROVE Cardinality(lit) <= 1
  <2>1. lit = {x}
    BY DEF LightInv
  <2> QED BY <2>1, FS_Singleton, LitCard
<1> QED BY <1>1, <1>2

-----------------------------------------------------------------------------
(* Votes of questions, counted one by one.                                      *)
Ballots(votes, asked) == UNION {{q} \X (1 .. votes[q]) : q \in asked}

LEMMA BallotIn ==
    ASSUME NEW f, NEW S, NEW b
    PROVE  b \in Ballots(f, S) <=> \E q \in S : \E n \in 1 .. f[q] : b = <<q, n>>
BY DEF Ballots

LEMMA BallotsFinite ==
    ASSUME NEW S, IsFiniteSet(S), NEW f, \A q \in S : f[q] \in Nat
    PROVE  /\ IsFiniteSet(Ballots(f, S)) /\ Cardinality(Ballots(f, S)) \in Nat
           /\ M!Tally(f, S) = Cardinality(Ballots(f, S))
<1> DEFINE each == {{q} \X (1 .. f[q]) : q \in S}
           g == [q \in S |-> {q} \X (1 .. f[q])]
<1>1. g \in Surjection(S, each)
  BY DEF Surjection
<1>2. IsFiniteSet(each)
  <2> HIDE DEF g, each
  <2> QED BY <1>1, FS_Surjection
<1>3. \A T \in each : IsFiniteSet(T)
  <2> SUFFICES ASSUME NEW q \in S PROVE IsFiniteSet({q} \X (1 .. f[q]))
    OBVIOUS
  <2>1. f[q] \in Int /\ 1 \in Int
    OBVIOUS
  <2>2. IsFiniteSet(1 .. f[q])
    BY <2>1, FS_Interval
  <2>3. IsFiniteSet({q})
    BY FS_Singleton
  <2> QED BY <2>2, <2>3, FS_Product
<1>4. IsFiniteSet(UNION each)
  <2> HIDE DEF each
  <2> QED BY <1>2, <1>3, FS_UNION
<1>5. IsFiniteSet(Ballots(f, S))
  BY <1>4 DEF Ballots
<1>6. M!Tally(f, S) = Cardinality(Ballots(f, S))
  BY DEF M!Tally, M!Cardinality, Cardinality, Ballots
<1> QED BY <1>5, <1>6, FS_CardinalityType

(* The votes of a set put together from two that have nothing in common.         *)
LEMMA TallyUnion ==
    ASSUME NEW S, IsFiniteSet(S), NEW T, IsFiniteSet(T), S \cap T = {},
           NEW f, \A q \in S \cup T : f[q] \in Nat
    PROVE  /\ M!Tally(f, S \cup T) = M!Tally(f, S) + M!Tally(f, T)
           /\ M!Tally(f, S) \in Nat /\ M!Tally(f, T) \in Nat
<1>1. IsFiniteSet(S \cup T)
  BY FS_Union
<1>2. Ballots(f, S \cup T) = Ballots(f, S) \cup Ballots(f, T)
  BY DEF Ballots
<1>3. Ballots(f, S) \cap Ballots(f, T) = {}
  <2> SUFFICES ASSUME NEW b \in Ballots(f, S), b \in Ballots(f, T) PROVE FALSE
    OBVIOUS
  <2>1. PICK q \in S : \E n \in 1 .. f[q] : b = <<q, n>>
    BY BallotIn
  <2>2. PICK r \in T : \E n \in 1 .. f[r] : b = <<r, n>>
    BY BallotIn
  <2> QED BY <2>1, <2>2
<1>4. /\ IsFiniteSet(Ballots(f, S)) /\ IsFiniteSet(Ballots(f, T))
      /\ Cardinality(Ballots(f, S)) \in Nat /\ Cardinality(Ballots(f, T)) \in Nat
      /\ M!Tally(f, S) = Cardinality(Ballots(f, S)) /\ M!Tally(f, T) = Cardinality(Ballots(f, T))
      /\ M!Tally(f, S \cup T) = Cardinality(Ballots(f, S \cup T))
  BY <1>1, BallotsFinite
<1>5. Cardinality(Ballots(f, S) \cup Ballots(f, T)) =
      Cardinality(Ballots(f, S)) + Cardinality(Ballots(f, T)) - Cardinality({})
  BY <1>3, <1>4, FS_Union
<1>6. Cardinality({}) = 0
  BY FS_EmptySet
<1>7. Cardinality(Ballots(f, S \cup T)) = Cardinality(Ballots(f, S)) + Cardinality(Ballots(f, T))
  <2>1. PICK m, n, t : /\ m = Cardinality(Ballots(f, S)) /\ n = Cardinality(Ballots(f, T))
                       /\ t = Cardinality(Ballots(f, S) \cup Ballots(f, T))
    OBVIOUS
  <2>2. m \in Nat /\ n \in Nat /\ t = m + n - 0
    BY <1>4, <1>5, <1>6, <2>1
  <2>3. t = m + n
    BY <2>2
  <2> QED BY <1>2, <2>1, <2>3
<1> QED BY <1>4, <1>7

(* One vote more.                                                              *)
LEMMA TallyPlus ==
    ASSUME NEW S, IsFiniteSet(S), NEW f, NEW g, NEW q, \A x \in S : f[x] \in Nat,
           \A x \in S : g[x] = IF x = q THEN f[x] + 1 ELSE f[x]
    PROVE  M!Tally(g, S) = M!Tally(f, S) + (IF q \in S THEN 1 ELSE 0)
<1>1. \A x \in S : g[x] \in Nat
  OBVIOUS
<1>2. /\ IsFiniteSet(Ballots(f, S)) /\ Cardinality(Ballots(f, S)) \in Nat
      /\ M!Tally(f, S) = Cardinality(Ballots(f, S)) /\ M!Tally(g, S) = Cardinality(Ballots(g, S))
  BY <1>1, BallotsFinite
<1>3. CASE q \notin S
  <2>1. \A x \in S : g[x] = f[x]
    BY <1>3
  <2>2. Ballots(g, S) = Ballots(f, S)
    BY <2>1 DEF Ballots
  <2> QED BY <1>2, <1>3, <2>2
<1>4. CASE q \in S
  <2>1. f[q] \in Nat /\ g[q] = f[q] + 1
    BY <1>4
  <2>2. PICK v : v = <<q, f[q] + 1>>
    OBVIOUS
  <2>3. v \notin Ballots(f, S)
    <3> SUFFICES ASSUME v \in Ballots(f, S) PROVE FALSE
      OBVIOUS
    <3>1. PICK x \in S : \E n \in 1 .. f[x] : v = <<x, n>>
      BY BallotIn
    <3> QED BY <2>1, <2>2, <3>1
  <2>4. Ballots(g, S) = Ballots(f, S) \cup {v}
    <3>1. ASSUME NEW b \in Ballots(g, S) PROVE b \in Ballots(f, S) \cup {v}
      <4>1. PICK x \in S : \E n \in 1 .. g[x] : b = <<x, n>>
        BY <3>1, BallotIn
      <4>2. PICK n \in 1 .. g[x] : b = <<x, n>>
        BY <4>1
      <4>3. CASE n \in 1 .. f[x]
        BY <4>2, <4>3, BallotIn
      <4>4. CASE n \notin 1 .. f[x]
        <5>1. x = q /\ n = f[q] + 1
          BY <4>2, <4>4, <2>1
        <5> QED BY <2>2, <4>2, <5>1
      <4> QED BY <4>3, <4>4
    <3>2. ASSUME NEW b \in Ballots(f, S) PROVE b \in Ballots(g, S)
      <4>1. PICK x \in S : \E n \in 1 .. f[x] : b = <<x, n>>
        BY <3>2, BallotIn
      <4>2. PICK n \in 1 .. f[x] : b = <<x, n>>
        BY <4>1
      <4>3. n \in 1 .. g[x]
        BY <4>2
      <4> QED BY <4>2, <4>3, BallotIn
    <3>3. v \in Ballots(g, S)
      <4>1. f[q] + 1 \in 1 .. g[q]
        BY <2>1
      <4> QED BY <1>4, <2>2, <4>1, BallotIn
    <3> QED BY <3>1, <3>2, <3>3
  <2>5. Cardinality(Ballots(f, S) \cup {v}) = Cardinality(Ballots(f, S)) + 1
    BY <1>2, <2>3, FS_AddElement
  <2> QED BY <1>2, <1>4, <2>4, <2>5
<1> QED BY <1>3, <1>4

(* Who counts for others counts what they count together.                        *)
LEMMA TallyOfTallies ==
    ASSUME NEW Z, IsFiniteSet(Z), NEW G, NEW f, NEW h, \A d \in Z : IsFiniteSet(G[d]),
           \A d \in Z : \A x \in G[d] : h[x] \in Nat,
           \A d, e \in Z : d # e => G[d] \cap G[e] = {},
           \A d \in Z : f[d] = M!Tally(h, G[d])
    PROVE  M!Tally(f, Z) = M!Tally(h, UNION {G[d] : d \in Z})
<1> DEFINE all == UNION {G[d] : d \in Z}
<1>1. \A d \in Z : /\ IsFiniteSet(Ballots(h, G[d])) /\ f[d] = Cardinality(Ballots(h, G[d]))
                   /\ f[d] \in Nat /\ Bijection(1 .. f[d], Ballots(h, G[d])) # {}
  <2> SUFFICES ASSUME NEW d \in Z
               PROVE /\ IsFiniteSet(Ballots(h, G[d])) /\ f[d] = Cardinality(Ballots(h, G[d]))
                     /\ f[d] \in Nat /\ Bijection(1 .. f[d], Ballots(h, G[d])) # {}
    OBVIOUS
  <2>1. IsFiniteSet(G[d]) /\ \A x \in G[d] : h[x] \in Nat
    OBVIOUS
  <2>2. IsFiniteSet(Ballots(h, G[d])) /\ f[d] = Cardinality(Ballots(h, G[d])) /\ f[d] \in Nat
    BY <2>1, BallotsFinite
  <2>3. ExistsBijection(1 .. Cardinality(Ballots(h, G[d])), Ballots(h, G[d]))
    BY <2>2, FS_CardinalityType
  <2> QED BY <2>2, <2>3 DEF ExistsBijection
<1>2. PICK b : b = [d \in Z |-> CHOOSE k : k \in Bijection(1 .. f[d], Ballots(h, G[d]))]
  OBVIOUS
<1>3. ASSUME NEW d \in Z PROVE b[d] \in Bijection(1 .. f[d], Ballots(h, G[d]))
  BY <1>1, <1>2
<1>4. ASSUME NEW d \in Z
      PROVE  /\ \A n \in 1 .. f[d] : b[d][n] \in Ballots(h, G[d])
             /\ \A m, n \in 1 .. f[d] : b[d][m] = b[d][n] => m = n
             /\ \A v \in Ballots(h, G[d]) : \E n \in 1 .. f[d] : b[d][n] = v
  <2>1. PICK from, to, g : from = 1 .. f[d] /\ to = Ballots(h, G[d]) /\ g = b[d]
    OBVIOUS
  <2>2. g \in Bijection(from, to)
    BY <1>3, <2>1
  <2>3. /\ g \in [from -> to] /\ (\A x, y \in from : g[x] = g[y] => x = y)
        /\ \A v \in to : \E n \in from : g[n] = v
    BY <2>2, Fun_BijectionProperties
  <2> QED BY <2>1, <2>3
<1>5. PICK k : k = [v \in Ballots(f, Z) |-> b[v[1]][v[2]]]
  OBVIOUS
<1>6. ASSUME NEW d \in Z, NEW n \in 1 .. f[d]
      PROVE  <<d, n>> \in Ballots(f, Z) /\ k[<<d, n>>] = b[d][n] /\ b[d][n] \in Ballots(h, all)
  <2>1. <<d, n>> \in Ballots(f, Z)
    BY BallotIn
  <2>2. k[<<d, n>>] = b[d][n]
    BY <1>5, <2>1
  <2>3. b[d][n] \in Ballots(h, G[d])
    BY <1>4
  <2>4. G[d] \subseteq all
    OBVIOUS
  <2>5. PICK x \in G[d] : \E m \in 1 .. h[x] : b[d][n] = <<x, m>>
    BY <2>3, BallotIn
  <2> HIDE DEF all
  <2>6. b[d][n] \in Ballots(h, all)
    BY <2>4, <2>5, BallotIn
  <2> QED BY <2>1, <2>2, <2>6
<1>7. k \in [Ballots(f, Z) -> Ballots(h, all)]
  <2>1. ASSUME NEW v \in Ballots(f, Z) PROVE k[v] \in Ballots(h, all)
    <3>1. PICK d \in Z : \E n \in 1 .. f[d] : v = <<d, n>>
      BY <2>1, BallotIn
    <3> QED BY <1>6, <3>1
  <2> HIDE DEF all
  <2> QED BY <1>5, <2>1
<1>8. ASSUME NEW v \in Ballots(f, Z), NEW w \in Ballots(f, Z), k[v] = k[w] PROVE v = w
  <2>1. PICK d \in Z : \E n \in 1 .. f[d] : v = <<d, n>>
    BY <1>8, BallotIn
  <2>2. PICK n \in 1 .. f[d] : v = <<d, n>>
    BY <2>1
  <2>3. PICK e \in Z : \E m \in 1 .. f[e] : w = <<e, m>>
    BY <1>8, BallotIn
  <2>4. PICK m \in 1 .. f[e] : w = <<e, m>>
    BY <2>3
  <2>5. k[v] = b[d][n] /\ k[w] = b[e][m]
    BY <1>6, <2>2, <2>4
  <2>6. b[d][n] \in Ballots(h, G[d]) /\ b[e][m] \in Ballots(h, G[e])
    BY <1>4
  <2>7. PICK x \in G[d] : \E i \in 1 .. h[x] : b[d][n] = <<x, i>>
    BY <2>6, BallotIn
  <2>8. PICK y \in G[e] : \E i \in 1 .. h[y] : b[e][m] = <<y, i>>
    BY <2>6, BallotIn
  <2>9. x = y
    <3>1. PICK i \in 1 .. h[x] : b[d][n] = <<x, i>>
      BY <2>7
    <3>2. PICK j \in 1 .. h[y] : b[e][m] = <<y, j>>
      BY <2>8
    <3>3. <<x, i>> = <<y, j>>
      BY <1>8, <2>5, <3>1, <3>2
    <3> QED BY <3>3
  <2>10. d = e
    BY <2>9
  <2>11. n = m
    <3>1. m \in 1 .. f[d] /\ b[d][m] = b[d][n]
      BY <1>8, <2>5, <2>10
    <3> QED BY <1>4, <3>1
  <2> QED BY <2>2, <2>4, <2>10, <2>11
<1>9. ASSUME NEW u \in Ballots(h, all) PROVE \E v \in Ballots(f, Z) : k[v] = u
  <2>1. PICK x \in all : \E i \in 1 .. h[x] : u = <<x, i>>
    <3> HIDE DEF all
    <3> QED BY <1>9, BallotIn
  <2>2. PICK d \in Z : x \in G[d]
    OBVIOUS
  <2>3. u \in Ballots(h, G[d])
    BY <2>1, <2>2, BallotIn
  <2>4. PICK n \in 1 .. f[d] : b[d][n] = u
    BY <1>4, <2>3
  <2> QED BY <1>6, <2>4
<1>10. ExistsBijection(Ballots(f, Z), Ballots(h, all))
  <2> HIDE DEF all
  <2>1. k \in Bijection(Ballots(f, Z), Ballots(h, all))
    BY <1>7, <1>8, <1>9, Fun_IsBij
  <2> QED BY <2>1 DEF ExistsBijection
<1>11. \A d \in Z : f[d] \in Nat
  BY <1>1
<1>12. IsFiniteSet(all) /\ \A x \in all : h[x] \in Nat
  <2>1. [d \in Z |-> G[d]] \in Surjection(Z, {G[d] : d \in Z})
    BY DEF Surjection
  <2>2. IsFiniteSet({G[d] : d \in Z})
    BY <2>1, FS_Surjection
  <2>3. \A T \in {G[d] : d \in Z} : IsFiniteSet(T)
    OBVIOUS
  <2> QED BY <2>2, <2>3, FS_UNION
<1> HIDE DEF all
<1>13. /\ IsFiniteSet(Ballots(f, Z)) /\ M!Tally(f, Z) = Cardinality(Ballots(f, Z))
       /\ M!Tally(h, all) = Cardinality(Ballots(h, all))
  BY <1>11, <1>12, BallotsFinite
<1>14. Cardinality(Ballots(h, all)) = Cardinality(Ballots(f, Z))
  BY <1>10, <1>13, FS_Bijection
<1> QED BY <1>13, <1>14 DEF all

(* Questions merged into questions: whom a question speaks for.                   *)
Mergings == [Questions -> Questions \cup {none}]
Whole(m, s) == \A y \in Questions : m[y] \in s => y \in s
Led(m, q) == {x \in Questions : \A s \in SUBSET Questions : q \in s /\ Whole(m, s) => x \in s}

LEMMA GatheredIs == ASSUME NEW q PROVE M!Gathered(q) = Led(into, q)
BY DEF M!Gathered, Led, Whole

LEMMA LedIs ==
    ASSUME NEW m \in Mergings, NEW q \in Questions
    PROVE  /\ Led(m, q) \subseteq Questions /\ q \in Led(m, q) /\ Whole(m, Led(m, q))
           /\ \A s \in SUBSET Questions : q \in s /\ Whole(m, s) => Led(m, q) \subseteq s
<1>1. Led(m, q) \subseteq Questions /\ q \in Led(m, q)
  BY DEF Led
<1>2. \A s \in SUBSET Questions : q \in s /\ Whole(m, s) => Led(m, q) \subseteq s
  BY DEF Led
<1>3. ASSUME NEW y \in Questions, m[y] \in Led(m, q) PROVE y \in Led(m, q)
  <2> SUFFICES ASSUME NEW s \in SUBSET Questions, q \in s, Whole(m, s) PROVE y \in s
    BY DEF Led
  <2>1. m[y] \in s
    BY <1>2, <1>3
  <2> QED BY <2>1 DEF Whole
<1> QED BY <1>1, <1>2, <1>3 DEF Whole

(* Whom it speaks for is itself, or merged into one whom it speaks for.            *)
LEMMA LedUp ==
    ASSUME NEW m \in Mergings, NEW q \in Questions, NEW x \in Led(m, q), x # q
    PROVE  m[x] \in Led(m, q)
<1> SUFFICES ASSUME m[x] \notin Led(m, q) PROVE FALSE
  OBVIOUS
<1>1. /\ Led(m, q) \subseteq Questions /\ q \in Led(m, q) /\ Whole(m, Led(m, q))
      /\ \A s \in SUBSET Questions : q \in s /\ Whole(m, s) => Led(m, q) \subseteq s
  BY LedIs
<1>2. PICK s : s = Led(m, q) \ {x}
  OBVIOUS
<1>3. Whole(m, s)
  BY <1>1, <1>2 DEF Whole
<1>4. s \in SUBSET Questions /\ q \in s
  BY <1>1, <1>2
<1>5. Led(m, q) \subseteq s
  BY <1>1, <1>3, <1>4
<1> QED BY <1>2, <1>5

LEMMA NoneApart == none \notin Questions
BY PartsAssumption DEF PartsAssumption, M!ModerationAssumption

LEMMA LedRoot ==
    ASSUME NEW m \in Mergings, NEW q \in Questions, NEW p \in Led(m, q), m[p] = none
    PROVE  p = q
BY LedUp, LedIs, NoneApart

LEMMA LedApart ==
    ASSUME NEW m \in Mergings, NEW p \in Questions, NEW q \in Questions, m[p] = none, m[q] = none, p # q
    PROVE  Led(m, p) \cap Led(m, q) = {}
<1>1. /\ Led(m, p) \subseteq Questions /\ p \in Led(m, p) /\ Whole(m, Led(m, p))
      /\ \A s \in SUBSET Questions : p \in s /\ Whole(m, s) => Led(m, p) \subseteq s
  BY LedIs
<1>2. PICK s : s = Led(m, p) \ Led(m, q)
  OBVIOUS
<1>3. p \notin Led(m, q)
  BY LedRoot
<1>4. ASSUME NEW y \in Questions, m[y] \in s PROVE y \in s
  <2>1. y \in Led(m, p)
    BY <1>1, <1>2, <1>4 DEF Whole
  <2>2. y \notin Led(m, q)
    <3> SUFFICES ASSUME y \in Led(m, q) PROVE FALSE
      OBVIOUS
    <3>1. y # q
      BY <1>1, <1>2, <1>4, NoneApart
    <3>2. m[y] \in Led(m, q)
      BY <3>1, LedUp
    <3> QED BY <1>2, <1>4, <3>2
  <2> QED BY <1>2, <2>1, <2>2
<1>5. s \in SUBSET Questions /\ p \in s /\ Whole(m, s)
  BY <1>1, <1>2, <1>3, <1>4 DEF Whole
<1>6. Led(m, p) \subseteq s
  BY <1>1, <1>5
<1> QED BY <1>2, <1>6

(* Questions that speak for themselves are merged into another that does.         *)
LEMMA LedMerged ==
    ASSUME NEW m \in Mergings, NEW q \in Questions, NEW Z \in SUBSET Questions, q \notin Z,
           m[q] = none, \A d \in Z : m[d] = none,
           NEW n, n = [x \in Questions |-> IF x \in Z THEN q ELSE m[x]]
    PROVE  /\ n \in Mergings
           /\ Led(n, q) = Led(m, q) \cup UNION {Led(m, d) : d \in Z}
           /\ \A y \in Questions : y # q => Led(n, y) = Led(m, y)
<1>1. n \in Mergings
  BY DEF Mergings
<1>2. \A y \in Questions : /\ Led(m, y) \subseteq Questions /\ y \in Led(m, y) /\ Whole(m, Led(m, y))
         /\ \A s \in SUBSET Questions : y \in s /\ Whole(m, s) => Led(m, y) \subseteq s
  BY LedIs
<1>3. \A y \in Questions : /\ Led(n, y) \subseteq Questions /\ y \in Led(n, y) /\ Whole(n, Led(n, y))
         /\ \A s \in SUBSET Questions : y \in s /\ Whole(n, s) => Led(n, y) \subseteq s
  BY <1>1, LedIs
<1>4. ASSUME NEW s \in SUBSET Questions, Whole(n, s) PROVE Whole(m, s)
  BY <1>4, NoneApart DEF Whole
<1>5. Led(n, q) = Led(m, q) \cup UNION {Led(m, d) : d \in Z}
  <2>1. PICK s : s = Led(m, q) \cup UNION {Led(m, d) : d \in Z}
    OBVIOUS
  <2>2. s \in SUBSET Questions /\ q \in s
    BY <1>2, <2>1
  <2>3. ASSUME NEW y \in Questions, n[y] \in s PROVE y \in s
    <3>1. CASE y \in Z
      BY <1>2, <2>1, <3>1
    <3>2. CASE y \notin Z
      <4>1. m[y] \in s
        BY <2>3, <3>2
      <4>2. PICK d \in Z \cup {q} : m[y] \in Led(m, d)
        BY <2>1, <4>1
      <4>3. y \in Led(m, d)
        BY <1>2, <4>2 DEF Whole
      <4> QED BY <2>1, <4>2, <4>3
    <3> QED BY <3>1, <3>2
  <2>4. Led(n, q) \subseteq s
    BY <1>3, <2>2, <2>3 DEF Whole
  <2>5. Whole(m, Led(n, q))
    BY <1>3, <1>4
  <2>6. Z \subseteq Led(n, q)
    BY <1>3 DEF Whole
  <2>7. \A d \in Z \cup {q} : Led(m, d) \subseteq Led(n, q)
    BY <1>2, <1>3, <2>5, <2>6
  <2> QED BY <2>1, <2>4, <2>7
<1>6. ASSUME NEW y \in Questions, y # q PROVE Led(n, y) = Led(m, y)
  <2>1. q \notin Led(m, y)
    BY <1>6, LedRoot
  <2>2. Whole(n, Led(m, y))
    BY <1>2, <2>1 DEF Whole
  <2>3. Led(n, y) \subseteq Led(m, y)
    BY <1>2, <1>3, <2>2
  <2>4. Led(m, y) \subseteq Led(n, y)
    BY <1>2, <1>3, <1>4
  <2> QED BY <2>3, <2>4
<1> QED BY <1>1, <1>5, <1>6

(* A question is taken out of one that speaks for itself.                         *)
LEMMA LedTaken ==
    ASSUME NEW m \in Mergings, NEW p \in Questions, NEW q \in Questions, m[q] = p, m[p] = none,
           NEW n, n = [x \in Questions |-> IF x = q THEN none ELSE m[x]]
    PROVE  /\ n \in Mergings
           /\ Led(m, q) \subseteq Led(m, p) /\ Led(n, p) = Led(m, p) \ Led(m, q)
           /\ \A y \in Questions : y # p => Led(n, y) = Led(m, y)
<1>1. n \in Mergings /\ p # q /\ n[p] = none
  BY NoneApart DEF Mergings
<1>2. \A y \in Questions : /\ Led(m, y) \subseteq Questions /\ y \in Led(m, y) /\ Whole(m, Led(m, y))
         /\ \A s \in SUBSET Questions : y \in s /\ Whole(m, s) => Led(m, y) \subseteq s
  BY LedIs
<1>3. \A y \in Questions : /\ Led(n, y) \subseteq Questions /\ y \in Led(n, y) /\ Whole(n, Led(n, y))
         /\ \A s \in SUBSET Questions : y \in s /\ Whole(n, s) => Led(n, y) \subseteq s
  BY <1>1, LedIs
<1>4. ASSUME NEW s \in SUBSET Questions, Whole(m, s) PROVE Whole(n, s)
  BY <1>4, NoneApart DEF Whole
<1>5. ASSUME NEW y \in Questions, y # p PROVE Led(n, y) = Led(m, y)
  <2>1. Led(n, y) \subseteq Led(m, y)
    BY <1>2, <1>3, <1>4
  <2>2. p \notin Led(n, y)
    BY <1>1, <1>5, LedRoot
  <2>3. Whole(m, Led(n, y))
    BY <1>3, <2>2 DEF Whole
  <2>4. Led(m, y) \subseteq Led(n, y)
    BY <1>2, <1>3, <2>3
  <2> QED BY <2>1, <2>4
<1>6. Led(m, q) \subseteq Led(m, p)
  <2>1. q \in Led(m, p)
    BY <1>2 DEF Whole
  <2> QED BY <1>2, <2>1
<1>7. Led(n, p) = Led(m, p) \ Led(m, q)
  <2>1. PICK s : s = Led(m, p) \ Led(m, q)
    OBVIOUS
  <2>2. p \notin Led(m, q)
    BY <1>1, LedRoot
  <2>3. ASSUME NEW y \in Questions, n[y] \in s PROVE y \in s
    <3>1. y # q /\ m[y] \in s
      BY <1>2, <2>1, <2>3, NoneApart
    <3>2. y \in Led(m, p)
      BY <1>2, <2>1, <3>1 DEF Whole
    <3>3. y \notin Led(m, q)
      BY <2>1, <3>1, LedUp
    <3> QED BY <2>1, <3>2, <3>3
  <2>4. s \in SUBSET Questions /\ p \in s /\ Whole(n, s)
    BY <1>2, <2>1, <2>2, <2>3 DEF Whole
  <2>5. Led(n, p) \subseteq s
    BY <1>3, <2>4
  <2>6. PICK t : t = Led(n, p) \cup Led(m, q)
    OBVIOUS
  <2>7. ASSUME NEW y \in Questions, m[y] \in t PROVE y \in t
    <3>1. CASE y = q
      BY <1>2, <2>6, <3>1
    <3>2. CASE y # q /\ m[y] \in Led(n, p)
      <4>1. n[y] \in Led(n, p)
        BY <3>2
      <4> QED BY <1>3, <2>6, <4>1 DEF Whole
    <3>3. CASE m[y] \in Led(m, q)
      BY <1>2, <2>6, <3>3 DEF Whole
    <3> QED BY <2>6, <2>7, <3>1, <3>2, <3>3
  <2>8. Led(m, p) \subseteq t
    <3>1. t \in SUBSET Questions /\ p \in t /\ Whole(m, t)
      BY <1>2, <1>3, <2>6, <2>7 DEF Whole
    <3> QED BY <1>2, <3>1
  <2> QED BY <2>1, <2>5, <2>6, <2>8
<1> QED BY <1>1, <1>5, <1>6, <1>7

(* Types of the moderation, with what requests under way have read.               *)
RowTypes == [status : M!Status, up : Nat, lit : BOOLEAN, replied : BOOLEAN, parts : SUBSET Questions]
Listings == UNION {[S -> RowTypes] : S \in SUBSET Questions}
Reads    == [up : [Questions -> Nat], into : Mergings, cleared : SUBSET Questions]
Requests == [kind : M!Kinds, q : Questions, dups : SUBSET Questions,
             at : {"asked", "read", "served", "failed"}, read : Reads \cup {NoData}]
Proper(r) ==
    /\ r.q \notin r.dups
    /\ r.at = "read" => r.read \in Reads /\ (r.kind = "unmerge" => r.read.into[r.q] # none)

AskedRows ==
    /\ status \in [Questions -> M!Status] /\ up \in [Questions -> Nat] /\ into \in Mergings
    /\ lit \in SUBSET Questions /\ replied \in SUBSET Questions /\ own \in [Questions -> Nat]
    /\ met \in BOOLEAN /\ again \in BOOLEAN /\ behind \in BOOLEAN
AskedCalls ==
    /\ request \in [M!Channels -> Requests \cup {M!NoRequest}]
    /\ \A c \in M!Channels : request[c] # M!NoRequest => Proper(request[c])
PanelTypes ==
    /\ items \in [data : Listings, fetch : M!Fetches, reply : Listings \cup {NoData}, stale : BOOLEAN]
    /\ items.fetch = "answered" => items.reply \in Listings
    /\ detail \in Questions \cup {none} /\ parts \in SUBSET Questions /\ drafts \in SUBSET Questions
    /\ clusters \in SUBSET [q : Questions, dups : SUBSET Questions]
    /\ \A x \in clusters : x.q \notin x.dups

(* Unless merges met, each question counts the votes of all it speaks for; and a     *)
(* list that is at rest and not behind is the server's.                            *)
Counted == ~ met /\ ~ again => \A q \in Questions : up[q] = M!Tally(own, Led(into, q))
Listed  == M!Idle(items) /\ ~ behind => items.data = M!Listing

ModerationInv == AskedRows /\ AskedCalls /\ PanelTypes /\ Counted /\ Listed

LEMMA FiniteLed ==
    ASSUME NEW m \in Mergings, NEW q \in Questions
    PROVE  IsFiniteSet(Led(m, q)) /\ Led(m, q) \subseteq Questions
<1>1. IsFiniteSet(Questions)
  <2>1. M!IsFiniteSet(Questions)
    BY PartsAssumption DEF PartsAssumption, M!ModerationAssumption
  <2> QED BY <2>1 DEF M!IsFiniteSet, IsFiniteSet
<1>2. Led(m, q) \subseteq Questions
  BY LedIs
<1> QED BY <1>1, <1>2, FS_Subset

LEMMA TallyNat ==
    ASSUME NEW f \in [Questions -> Nat], NEW Z \in SUBSET Questions
    PROVE  M!Tally(f, Z) \in Nat /\ IsFiniteSet(Z)
<1>1. IsFiniteSet(Questions)
  <2>1. M!IsFiniteSet(Questions)
    BY PartsAssumption DEF PartsAssumption, M!ModerationAssumption
  <2> QED BY <2>1 DEF M!IsFiniteSet, IsFiniteSet
<1>2. IsFiniteSet(Z)
  BY <1>1, FS_Subset
<1>3. Cardinality(Ballots(f, Z)) \in Nat /\ M!Tally(f, Z) = Cardinality(Ballots(f, Z))
  BY <1>2, BallotsFinite
<1> QED BY <1>2, <1>3

LEMMA PanelListingOK == ASSUME AskedRows PROVE M!Listing \in Listings
<1> DEFINE S == {x \in Questions : into[x] = none}
<1>1. ASSUME NEW q \in S PROVE M!Row(q) \in RowTypes
  BY DEF M!Row, RowTypes, AskedRows
<1>2. M!Listing = [q \in S |-> M!Row(q)]
  BY DEF M!Listing
<1>3. M!Listing \in [S -> RowTypes]
  BY <1>1, <1>2
<1> QED BY <1>3 DEF Listings

LEMMA ModerationInit == M!Init => ModerationInv
<1> SUFFICES ASSUME M!Init PROVE ModerationInv
  OBVIOUS
<1>1. PICK start \in ModerationCases : status = start.start /\ into = start.into /\ spare = start.spare
  BY DEF M!Init
<1>2. status \in [Questions -> M!Status] /\ into \in Mergings
  BY <1>1, PartsAssumption DEF PartsAssumption, M!ModerationAssumption, Mergings
<1>3. own \in [Questions -> Nat]
  BY PartsAssumption DEF M!Init, PartsAssumption, M!ModerationAssumption
<1>4. up = [q \in Questions |-> M!Tally(own, Led(into, q))]
  BY GatheredIs DEF M!Init
<1>5. up \in [Questions -> Nat]
  <2>1. \A q \in Questions : M!Tally(own, Led(into, q)) \in Nat
    BY <1>2, <1>3, FiniteLed, TallyNat
  <2> QED BY <1>4, <2>1
<1>6. AskedRows
  BY <1>2, <1>3, <1>5 DEF M!Init, AskedRows
<1>7. AskedCalls
  BY DEF M!Init, AskedCalls
<1>8. items = M!Written(M!Unused, M!Listing)
  BY DEF M!Init
<1>9. items = [data |-> M!Listing, fetch |-> "idle", reply |-> NoData, stale |-> FALSE]
  BY <1>8 DEF M!Written, M!Unused
<1>10. PanelTypes
  BY <1>6, <1>9, PanelListingOK DEF M!Init, PanelTypes, M!Fetches
<1>11. Counted
  BY <1>4 DEF Counted
<1>12. Listed
  BY <1>9 DEF Listed
<1> QED BY <1>6, <1>7, <1>10, <1>11, <1>12 DEF ModerationInv

-----------------------------------------------------------------------------
(* What leaves the rows and the list alone.                                       *)
LEMMA RowsAlone ==
    ASSUME AskedRows, Counted, Listed, UNCHANGED <<M!rows, own, met, again, items, behind>>
    PROVE  AskedRows' /\ Counted' /\ Listed'
BY DEF AskedRows, Counted, Listed, M!rows, M!Listing, M!Row

LEMMA SendTypes ==
    ASSUME AskedCalls, NEW c \in M!Channels, NEW r \in Requests \cup {M!NoRequest},
           r # M!NoRequest => Proper(r), M!Send(c, r)
    PROVE  AskedCalls'
BY DEF AskedCalls, M!Send

LEMMA AskTypes ==
    ASSUME ModerationInv, NEW c \in M!Channels, NEW kind \in M!Kinds, NEW q \in Questions,
           NEW dups \in SUBSET Questions, q \notin dups, M!Send(c, M!Ask(kind, q, dups)),
           UNCHANGED <<M!rows, items, M!bar, M!trace, behind>>
    PROVE  ModerationInv'
<1>1. M!Ask(kind, q, dups) = [kind |-> kind, q |-> q, dups |-> dups, at |-> "asked", read |-> NoData]
  <2>1. PICK x : x = M!NoRequest
    OBVIOUS
  <2>2. x = [kind |-> "none", q |-> none, dups |-> {}, at |-> "free", read |-> NoData]
    BY <2>1 DEF M!NoRequest
  <2>3. M!Ask(kind, q, dups) = [x EXCEPT !.kind = kind, !.q = q, !.dups = dups, !.at = "asked"]
    BY <2>1 DEF M!Ask
  <2> QED BY <2>2, <2>3
<1>2. PICK r : r = M!Ask(kind, q, dups)
  OBVIOUS
<1>3. r \in Requests /\ Proper(r)
  BY <1>1, <1>2 DEF Requests, Proper
<1>4. AskedCalls'
  BY <1>2, <1>3, SendTypes DEF ModerationInv
<1>5. AskedRows' /\ Counted' /\ Listed'
  BY RowsAlone DEF ModerationInv, M!trace
<1>6. PanelTypes'
  BY DEF ModerationInv, PanelTypes, M!bar
<1> QED BY <1>4, <1>5, <1>6 DEF ModerationInv

LEMMA PanelReadTypes == ASSUME ModerationInv, NEW c \in M!Channels, M!Read(c) PROVE ModerationInv'
<1>1. PICK r : r = request[c]
  OBVIOUS
<1>2. r \in Requests /\ Proper(r)
  <2>1. M!NoRequest.at # "asked"
    BY DEF M!NoRequest
  <2> QED BY <1>1, <2>1 DEF ModerationInv, AskedCalls, M!Read
<1>3. PICK n, m : /\ n = [up |-> up, into |-> into, cleared |-> M!Cleared(r)]
                  /\ m = [kind |-> r.kind, q |-> r.q, dups |-> r.dups, at |-> "read", read |-> n]
  OBVIOUS
<1>4. n \in Reads
  <2>1. M!Cleared(r) \in SUBSET Questions
    BY DEF ModerationInv, AskedRows, M!Cleared
  <2> QED BY <1>3, <2>1 DEF ModerationInv, AskedRows, Reads
<1>5. CASE M!Refused(r)
  <2>1. PICK l : l = [r EXCEPT !.at = "failed"]
    OBVIOUS
  <2>2. M!Send(c, l)
    BY <1>1, <1>5, <2>1 DEF M!Read
  <2>3. l \in Requests /\ Proper(l)
    BY <1>2, <2>1 DEF Requests, Proper
  <2> QED BY <2>2, <2>3, SendTypes DEF ModerationInv, M!Read, AskedRows, Counted, Listed, M!rows,
        M!Listing, M!Row,
                                       PanelTypes, M!bar
<1>6. CASE ~ M!Refused(r)
  <2>1. PICK l : l = [r EXCEPT !.at = "read", !.read = n]
    OBVIOUS
  <2>2. M!Send(c, l)
    BY <1>1, <1>3, <1>6, <2>1 DEF M!Read
  <2>3. r.kind = "unmerge" => into[r.q] # none
    BY <1>6 DEF M!Refused
  <2>4. l \in Requests
    BY <1>2, <1>4, <2>1 DEF Requests
  <2>5. l.read = n /\ l.kind = r.kind /\ l.q = r.q /\ l.dups = r.dups /\ n.into = into
    BY <1>2, <1>3, <2>1 DEF Requests
  <2>6. Proper(l)
    BY <1>2, <1>4, <2>3, <2>5 DEF Proper
  <2> QED BY <2>2, <2>4, <2>6, SendTypes DEF ModerationInv, M!Read, AskedRows, Counted, Listed,
        M!rows, M!Listing, M!Row,
                                       PanelTypes, M!bar
<1> QED BY <1>5, <1>6

(* What a handler writes.                                                       *)
LEMMA WriteTypes ==
    ASSUME AskedRows, NEW r \in Requests, Proper(r), r.at = "read", M!Write(r)
    PROVE  /\ status' \in [Questions -> M!Status] /\ up' \in [Questions -> Nat] /\ into' \in Mergings
           /\ lit' \in SUBSET Questions /\ replied' \in SUBSET Questions
<1>1. r.q \in Questions /\ r.dups \in SUBSET Questions /\ r.read \in Reads /\ r.kind \in M!Kinds
  BY DEF Requests, Proper
<1>2. PICK q, p : q = r.q /\ p = IF r.kind = "unmerge" THEN r.read.into[q] ELSE none
  OBVIOUS
<1>3. p \in Questions \cup {none}
  BY <1>1, <1>2 DEF Reads, Mergings
<1>4. status' \in [Questions -> M!Status]
  <2>1. status' = [x \in Questions |->
             CASE r.kind \in M!Transitions /\ x = q -> M!To(r.kind)
               [] r.kind = "merge" /\ x \in r.dups -> "dismissed"
               [] r.kind = "unmerge" /\ x = q -> "approved"
               [] OTHER -> status[x]]
    BY <1>2 DEF M!Write
  <2>2. \A k \in M!Transitions : M!To(k) \in M!Status
    BY DEF M!Transitions, M!To, M!Status
  <2>3. "dismissed" \in M!Status /\ "approved" \in M!Status /\ \A x \in Questions : status[x] \in M!Status
    BY DEF AskedRows, M!Status
  <2>4. ASSUME NEW x \in Questions
        PROVE  (CASE r.kind \in M!Transitions /\ x = q -> M!To(r.kind)
               [] r.kind = "merge" /\ x \in r.dups -> "dismissed"
               [] r.kind = "unmerge" /\ x = q -> "approved"
               [] OTHER -> status[x]) \in M!Status
    BY <2>2, <2>3 DEF M!Transitions
  <2> QED BY <2>1, <2>4
<1>5. up' \in [Questions -> Nat]
  <2>1. up' = [x \in Questions |-> IF r.kind = "merge" /\ x = q THEN M!Merged(r, q)
             ELSE IF r.kind = "unmerge" /\ x = p THEN M!Unmerged(r, p) ELSE up[x]]
    BY <1>2 DEF M!Write
  <2>2. r.read.up \in [Questions -> Nat]
    BY <1>1 DEF Reads
  <2>3. M!Merged(r, q) \in Nat
    <3>1. M!Tally(r.read.up, r.dups) \in Nat
      BY <1>1, <2>2, TallyNat
    <3>2. r.read.up[q] \in Nat
      BY <1>1, <1>2, <2>2
    <3> QED BY <3>1, <3>2 DEF M!Merged
  <2>4. p \in Questions => M!Unmerged(r, p) \in Nat
    <3>1. p \in Questions => r.read.up[p] \in Nat /\ r.read.up[r.q] \in Nat
      BY <1>1, <2>2
    <3> QED BY <3>1 DEF M!Unmerged
  <2>5. \A x \in Questions : up[x] \in Nat
    BY DEF AskedRows
  <2> QED BY <2>1, <2>3, <2>4, <2>5
<1>6. into' \in Mergings
  <2>1. into' = [x \in Questions |->
             IF r.kind = "merge" /\ x \in r.dups THEN q
             ELSE IF r.kind = "unmerge" /\ x = q THEN none ELSE into[x]]
    BY <1>2 DEF M!Write
  <2> QED BY <1>1, <1>2, <2>1 DEF AskedRows, Mergings
<1>7. lit' \in SUBSET Questions
  <2>1. lit' = CASE r.kind = "highlight" -> (lit \ r.read.cleared) \cup {q}
                 [] r.kind = "unhighlight" -> lit \ {q} [] OTHER -> lit
    BY <1>2 DEF M!Write
  <2>2. lit \in SUBSET Questions /\ q \in Questions
    BY <1>1, <1>2 DEF AskedRows
  <2> QED BY <2>1, <2>2
<1>8. replied' \in SUBSET Questions
  BY <1>1 DEF M!Write, AskedRows
<1> QED BY <1>4, <1>5, <1>6, <1>7, <1>8

(* The votes of the duplicates are added to the question's.                        *)
LEMMA MergeCounts ==
    ASSUME AskedRows, Counted, NEW r \in Requests, Proper(r), r.at = "read", M!Write(r),
           r.kind = "merge", ~ met, ~ again, ~ M!Overtaken(r), ~ M!Again(r)
    PROVE  \A y \in Questions : up'[y] = M!Tally(own, Led(into', y))
<1>1. PICK q, Z, f : q = r.q /\ Z = r.dups /\ f = r.read.up
  OBVIOUS
<1>2. q \in Questions /\ Z \in SUBSET Questions /\ q \notin Z /\ f \in [Questions -> Nat]
  BY <1>1 DEF Requests, Proper, Reads
<1>3. \A x \in Z \cup {q} : up[x] = f[x] /\ into[x] = none
  <2>1. M!Touched(r) = Z \cup {q}
    BY <1>1 DEF M!Touched
  <2>2. \A x \in Z \cup {q} : <<up[x], into[x]>> = <<r.read.up[x], r.read.into[x]>>
    BY <2>1 DEF M!Overtaken
  <2>3. \A x \in Z \cup {q} : into[x] = none
    BY <2>1 DEF M!Again
  <2> QED BY <1>1, <2>2, <2>3
<1>4. PICK m, n : m = into /\ n = into'
  OBVIOUS
<1>5. m \in Mergings /\ own \in [Questions -> Nat]
  BY <1>4 DEF AskedRows
<1>6. n = [x \in Questions |-> IF x \in Z THEN q ELSE m[x]]
  BY <1>1, <1>4 DEF M!Write
<1>7. up' = [x \in Questions |-> IF x = q THEN f[q] + M!Tally(f, Z) ELSE up[x]]
  BY <1>1 DEF M!Write, M!Merged
<1>8. \A y \in Questions : up[y] = M!Tally(own, Led(m, y))
  BY <1>4 DEF Counted
<1>9. /\ Led(n, q) = Led(m, q) \cup UNION {Led(m, d) : d \in Z}
      /\ \A y \in Questions : y # q => Led(n, y) = Led(m, y)
  BY <1>2, <1>3, <1>4, <1>5, <1>6, LedMerged
<1>10. PICK G, all : G = [d \in Z |-> Led(m, d)] /\ all = UNION {Led(m, d) : d \in Z}
  OBVIOUS
<1>11. \A d \in Z : d \in Questions /\ G[d] = Led(m, d) /\ IsFiniteSet(Led(m, d))
         /\ Led(m, d) \subseteq Questions
  BY <1>2, <1>5, <1>10, FiniteLed
<1>12. all = UNION {G[d] : d \in Z}
  BY <1>10
<1>13. M!Tally(f, Z) = M!Tally(own, all)
  <2>1. IsFiniteSet(Z)
    BY <1>2, TallyNat
  <2>2. \A d, e \in Z : d # e => G[d] \cap G[e] = {}
    <3> SUFFICES ASSUME NEW d \in Z, NEW e \in Z, d # e PROVE Led(m, d) \cap Led(m, e) = {}
      BY <1>11
    <3>1. d \in Questions /\ e \in Questions /\ m[d] = none /\ m[e] = none
      BY <1>2, <1>3, <1>4
    <3> QED BY <1>5, <3>1, LedApart
  <2>3. \A d \in Z : IsFiniteSet(G[d])
    BY <1>11
  <2>4. \A d \in Z : \A x \in G[d] : own[x] \in Nat
    BY <1>5, <1>11
  <2>5. \A d \in Z : f[d] = M!Tally(own, G[d])
    BY <1>2, <1>3, <1>8, <1>11
  <2> QED BY <1>12, <2>1, <2>2, <2>3, <2>4, <2>5, TallyOfTallies
<1>14. all \in SUBSET Questions /\ Led(m, q) \cap all = {}
  <2>1. ASSUME NEW d \in Z PROVE Led(m, q) \cap Led(m, d) = {}
    <3>1. d \in Questions /\ m[d] = none /\ m[q] = none /\ d # q
      BY <1>2, <1>3, <1>4
    <3> QED BY <1>2, <1>5, <3>1, LedApart
  <2> QED BY <1>10, <1>11, <2>1
<1>15. M!Tally(own, Led(m, q) \cup all) = M!Tally(own, Led(m, q)) + M!Tally(own, all)
  <2>1. IsFiniteSet(Led(m, q)) /\ Led(m, q) \subseteq Questions
    BY <1>2, <1>5, FiniteLed
  <2>2. IsFiniteSet(all)
    BY <1>5, <1>14, TallyNat
  <2>3. \A x \in Led(m, q) \cup all : own[x] \in Nat
    BY <1>5, <1>14, <2>1
  <2> QED BY <1>14, <2>1, <2>2, <2>3, TallyUnion
<1>16. up'[q] = M!Tally(own, Led(n, q))
  <2>1. up'[q] = f[q] + M!Tally(f, Z)
    BY <1>2, <1>7
  <2>2. f[q] = M!Tally(own, Led(m, q))
    BY <1>2, <1>3, <1>8
  <2> QED BY <1>9, <1>10, <1>13, <1>15, <2>1, <2>2
<1>17. ASSUME NEW y \in Questions, y # q PROVE up'[y] = M!Tally(own, Led(n, y))
  BY <1>7, <1>8, <1>9, <1>17
<1> QED BY <1>4, <1>16, <1>17

(* The votes of a question that is taken out are taken from the other's.           *)
LEMMA UnmergeCounts ==
    ASSUME AskedRows, Counted, NEW r \in Requests, Proper(r), r.at = "read", M!Write(r),
           r.kind = "unmerge", ~ met, ~ again, ~ M!Overtaken(r), ~ M!Again(r)
    PROVE  \A y \in Questions : up'[y] = M!Tally(own, Led(into', y))
<1>1. PICK q, p, f : q = r.q /\ p = r.read.into[r.q] /\ f = r.read.up
  OBVIOUS
<1>2. q \in Questions /\ p \in Questions /\ f \in [Questions -> Nat]
  BY <1>1 DEF Requests, Proper, Reads, Mergings
<1>3. up[q] = f[q] /\ up[p] = f[p] /\ into[q] = p /\ into[p] = none
  <2>1. q \in M!Touched(r) /\ p \in M!Touched(r)
    BY <1>1 DEF M!Touched
  <2>2. \A x \in M!Touched(r) : <<up[x], into[x]>> = <<r.read.up[x], r.read.into[x]>>
    BY DEF M!Overtaken
  <2>3. into[p] = none
    BY <1>1 DEF M!Again
  <2> QED BY <1>1, <2>1, <2>2, <2>3
<1>4. PICK m, n : m = into /\ n = into'
  OBVIOUS
<1>5. m \in Mergings /\ own \in [Questions -> Nat] /\ p # q
  BY <1>2, <1>3, <1>4, NoneApart DEF AskedRows
<1>6. n = [x \in Questions |-> IF x = q THEN none ELSE m[x]]
  BY <1>1, <1>4 DEF M!Write
<1>7. up' = [x \in Questions |-> IF x = p THEN M!Unmerged(r, p) ELSE up[x]]
  BY <1>1 DEF M!Write
<1>8. \A y \in Questions : up[y] = M!Tally(own, Led(m, y))
  BY <1>4 DEF Counted
<1>9. /\ Led(m, q) \subseteq Led(m, p) /\ Led(n, p) = Led(m, p) \ Led(m, q)
      /\ \A y \in Questions : y # p => Led(n, y) = Led(m, y)
  BY <1>2, <1>3, <1>4, <1>5, <1>6, LedTaken
<1>10. /\ IsFiniteSet(Led(m, q)) /\ IsFiniteSet(Led(m, p)) /\ Led(m, p) \subseteq Questions
       /\ IsFiniteSet(Led(n, p))
  <2>1. IsFiniteSet(Led(m, q)) /\ IsFiniteSet(Led(m, p)) /\ Led(m, p) \subseteq Questions
    BY <1>2, <1>5, FiniteLed
  <2> QED BY <1>9, <2>1, FS_Difference
<1>11. PICK A, Z : A = Led(m, q) /\ Z = Led(n, p)
  OBVIOUS
<1>12. A \cap Z = {} /\ A \cup Z = Led(m, p) /\ \A x \in A \cup Z : own[x] \in Nat
  BY <1>5, <1>9, <1>10, <1>11
<1>13. /\ M!Tally(own, A \cup Z) = M!Tally(own, A) + M!Tally(own, Z)
       /\ M!Tally(own, A) \in Nat /\ M!Tally(own, Z) \in Nat
  BY <1>10, <1>11, <1>12, TallyUnion
<1>14. f[p] = M!Tally(own, A) + M!Tally(own, Z) /\ f[q] = M!Tally(own, A)
  BY <1>2, <1>3, <1>8, <1>11, <1>12, <1>13
<1>15. M!Unmerged(r, p) = M!Tally(own, Z)
  BY <1>1, <1>13, <1>14 DEF M!Unmerged
<1>16. ASSUME NEW y \in Questions PROVE up'[y] = M!Tally(own, Led(n, y))
  BY <1>2, <1>7, <1>8, <1>9, <1>11, <1>15
<1> QED BY <1>4, <1>16

LEMMA PanelCommitTypes == ASSUME ModerationInv, NEW c \in M!Channels, NEW heard, M!Commit(c, heard)
    PROVE ModerationInv'
<1>1. PICK r : r = request[c]
  OBVIOUS
<1>2. r \in Requests /\ Proper(r) /\ r.at = "read" /\ M!Write(r)
  <2>1. M!NoRequest.at # "read"
    BY DEF M!NoRequest
  <2> QED BY <1>1, <2>1 DEF ModerationInv, AskedCalls, M!Commit
<1>3. /\ status' \in [Questions -> M!Status] /\ up' \in [Questions -> Nat] /\ into' \in Mergings
      /\ lit' \in SUBSET Questions /\ replied' \in SUBSET Questions
  BY <1>2, WriteTypes DEF ModerationInv
<1>4. met' = (met \/ M!Overtaken(r)) /\ again' = (again \/ M!Again(r)) /\ own' = own
  BY <1>1 DEF M!Commit
<1>5. behind' = (behind \/ ~ (M!Announced(r) /\ heard))
  BY <1>1 DEF M!Commit
<1>6. met' \in BOOLEAN /\ again' \in BOOLEAN /\ behind' \in BOOLEAN
  BY <1>4, <1>5
<1>7. AskedRows'
  BY <1>3, <1>4, <1>6 DEF AskedRows, ModerationInv
<1>8. PICK l : l = [r EXCEPT !.at = M!Outcome(r)]
  OBVIOUS
<1>9. l \in Requests /\ Proper(l)
  <2>1. M!Outcome(r) \in {"failed", "served"}
    BY DEF M!Outcome
  <2> QED BY <1>2, <1>8, <2>1 DEF Requests, Proper
<1>10. M!Send(c, l)
  BY <1>1, <1>8 DEF M!Commit
<1>11. AskedCalls'
  BY <1>9, <1>10, SendTypes DEF ModerationInv
<1>12. items' = items \/ items' = M!Refetched(items)
  BY <1>1 DEF M!Commit
<1>13. PanelTypes'
  BY <1>12 DEF ModerationInv, PanelTypes, M!Commit, M!bar, M!Refetched, M!Idle, M!Loaded, M!Fetches
<1>14. Listed'
  <2>1. CASE M!Announced(r) /\ heard
    <3>1. items' = M!Refetched(items)
      BY <1>1, <2>1 DEF M!Commit
    <3>2. items'.fetch # "idle"
      BY <3>1 DEF ModerationInv, PanelTypes, M!Refetched, M!Idle
    <3> QED BY <3>2 DEF Listed, M!Idle
  <2>2. CASE ~ (M!Announced(r) /\ heard)
    BY <1>5, <2>2 DEF Listed
  <2> QED BY <2>1, <2>2
<1>15. Counted'
  <2> SUFFICES ASSUME ~ met', ~ again' PROVE \A y \in Questions : up'[y] = M!Tally(own, Led(into', y))
    BY <1>4 DEF Counted
  <2>1. ~ met /\ ~ M!Overtaken(r) /\ ~ again /\ ~ M!Again(r)
    BY <1>4
  <2>2. CASE r.kind = "merge"
    BY <1>2, <2>1, <2>2, MergeCounts DEF ModerationInv
  <2>3. CASE r.kind = "unmerge"
    BY <1>2, <2>1, <2>3, UnmergeCounts DEF ModerationInv
  <2>4. CASE r.kind \notin {"merge", "unmerge"}
    <3>1. up' = [x \in Questions |-> up[x]] /\ into' = [x \in Questions |-> into[x]]
      BY <1>2, <2>4 DEF M!Write
    <3>2. up' = up /\ into' = into
      BY <3>1 DEF ModerationInv, AskedRows, Mergings
    <3> QED BY <2>1, <3>2 DEF ModerationInv, Counted
  <2> QED BY <2>2, <2>3, <2>4
<1> QED BY <1>7, <1>11, <1>13, <1>14, <1>15 DEF ModerationInv

(* Answers, and what the host does on the page.                                    *)
LEMMA LoseTypes == ASSUME ModerationInv, NEW c \in M!Channels, M!LoseRequest(c) PROVE ModerationInv'
<1>1. PICK r, l : r = request[c] /\ l = [r EXCEPT !.at = "failed"]
  OBVIOUS
<1>2. r \in Requests /\ Proper(r)
  <2>1. M!NoRequest.at \notin {"asked", "served"}
    BY DEF M!NoRequest
  <2> QED BY <1>1, <2>1 DEF ModerationInv, AskedCalls, M!LoseRequest
<1>3. l \in Requests /\ Proper(l)
  BY <1>1, <1>2 DEF Requests, Proper
<1>4. AskedCalls'
  BY <1>1, <1>3, SendTypes DEF ModerationInv, M!LoseRequest
<1>5. AskedRows' /\ Counted' /\ Listed'
  BY RowsAlone DEF ModerationInv, M!LoseRequest, M!trace
<1>6. PanelTypes'
  BY DEF ModerationInv, PanelTypes, M!LoseRequest, M!bar
<1> QED BY <1>4, <1>5, <1>6 DEF ModerationInv

LEMMA SettleTypes == ASSUME ModerationInv, NEW c \in M!Channels, M!Settle(c) PROVE ModerationInv'
<1>1. PICK r, ok : r = request[c] /\ ok = (r.at = "served")
  OBVIOUS
<1>2. AskedCalls'
  <2>1. M!Send(c, M!NoRequest)
    BY DEF M!Settle
  <2> QED BY <2>1, SendTypes DEF ModerationInv
<1>3. /\ items' = IF ok THEN M!Refetched(items) ELSE items
      /\ behind' = (behind /\ ~ (ok /\ M!Loaded(items)))
  BY <1>1 DEF M!Settle, M!AfterSuccess
<1>4. behind' \in BOOLEAN
  BY <1>3 DEF ModerationInv, AskedRows
<1>5. AskedRows' /\ Counted'
  BY <1>4 DEF ModerationInv, AskedRows, Counted, M!Settle, M!rows, M!trace
<1>6. PanelTypes'
  <2>1. clusters' \subseteq clusters /\ parts' \subseteq parts /\ drafts' \subseteq drafts /\ detail' = detail
    BY DEF M!Settle
  <2> QED BY <1>3, <2>1 DEF ModerationInv, PanelTypes, M!Refetched, M!Idle, M!Loaded, M!Fetches
<1>7. Listed'
  <2>1. CASE ok
    <3>1. items'.fetch # "idle"
      BY <1>3, <2>1 DEF ModerationInv, PanelTypes, M!Refetched, M!Idle
    <3> QED BY <3>1 DEF Listed, M!Idle
  <2>2. CASE ~ ok
    <3>1. items' = items /\ (behind' <=> behind)
      BY <1>3, <2>2
    <3> QED BY <3>1 DEF ModerationInv, Listed, M!Settle, M!rows, M!Listing, M!Row
  <2> QED BY <2>1, <2>2
<1> QED BY <1>2, <1>5, <1>6, <1>7 DEF ModerationInv

LEMMA VoteTypes == ASSUME ModerationInv, NEW q \in Questions, M!CountVote(q) PROVE ModerationInv'
<1>1. /\ up' = [up EXCEPT ![q] = @ + 1] /\ own' = [own EXCEPT ![q] = @ + 1] /\ behind' = TRUE
      /\ met' = (met \/ into[q] # none) /\ again' = again /\ into' = into
  BY DEF M!CountVote
<1>2. up' \in [Questions -> Nat] /\ own' \in [Questions -> Nat] /\ met' \in BOOLEAN
  BY <1>1 DEF ModerationInv, AskedRows
<1>3. AskedRows'
  BY <1>1, <1>2 DEF ModerationInv, AskedRows, M!CountVote
<1>4. AskedCalls' /\ PanelTypes'
  BY DEF ModerationInv, AskedCalls, PanelTypes, M!CountVote, M!bar
<1>5. Listed'
  BY <1>1 DEF Listed
<1>6. Counted'
  <2> SUFFICES ASSUME ~ met', ~ again', NEW y \in Questions PROVE up'[y] = M!Tally(own', Led(into, y))
    BY <1>1 DEF Counted
  <2>1. ~ met /\ into[q] = none /\ up[y] = M!Tally(own, Led(into, y))
    BY <1>1 DEF ModerationInv, Counted
  <2>2. into \in Mergings /\ own \in [Questions -> Nat] /\ up \in [Questions -> Nat]
    BY DEF ModerationInv, AskedRows
  <2>3. IsFiniteSet(Led(into, y)) /\ Led(into, y) \subseteq Questions /\ (q \in Led(into, y) <=> q = y)
    BY <2>1, <2>2, FiniteLed, LedRoot, LedIs
  <2>4. PICK g, S : g = own' /\ S = Led(into, y)
    OBVIOUS
  <2>5. \A x \in S : own[x] \in Nat /\ g[x] = IF x = q THEN own[x] + 1 ELSE own[x]
    BY <1>1, <2>2, <2>3, <2>4
  <2>6. M!Tally(g, S) = M!Tally(own, S) + (IF q \in S THEN 1 ELSE 0)
    BY <2>3, <2>4, <2>5, TallyPlus
  <2>7. up'[y] = up[y] + (IF q = y THEN 1 ELSE 0)
    BY <1>1, <2>2
  <2> QED BY <2>1, <2>3, <2>4, <2>6, <2>7
<1> QED BY <1>3, <1>4, <1>5, <1>6 DEF ModerationInv

LEMMA ItemsTypes ==
    ASSUME ModerationInv, M!PollItems \/ M!AnswerItems \/ M!StoreItems
    PROVE  ModerationInv'
<1>1. M!Listing \in Listings
  BY PanelListingOK DEF ModerationInv
<1>2. AskedCalls'
  BY DEF ModerationInv, AskedCalls, M!PollItems, M!AnswerItems, M!StoreItems
<1>3. CASE M!PollItems
  <2>1. items' = M!Fetched(items) /\ items' # items
    BY <1>3 DEF M!PollItems
  <2>2. items' = [items EXCEPT !.fetch = "asked"]
    BY <2>1 DEF M!Fetched
  <2>3. PanelTypes' /\ items'.fetch = "asked"
    BY <1>3, <2>2 DEF ModerationInv, PanelTypes, M!PollItems, M!bar, M!Fetches
  <2> QED BY <1>2, <1>3, <2>3 DEF ModerationInv, M!PollItems, AskedRows, Counted, Listed, M!rows,
        M!trace, M!Idle
<1>4. CASE M!AnswerItems
  <2>1. items' = [items EXCEPT !.fetch = "answered", !.reply = M!Listing]
    BY <1>4 DEF M!AnswerItems, M!Answered
  <2>2. PanelTypes' /\ items'.fetch = "answered"
    BY <1>1, <1>4, <2>1 DEF ModerationInv, PanelTypes, M!AnswerItems, M!bar, M!Fetches
  <2> QED BY <1>2, <1>4, <2>2 DEF ModerationInv, M!AnswerItems, AskedRows, Counted, Listed, M!rows,
        M!trace, M!Idle
<1>5. CASE M!StoreItems
  <2>1. /\ items.fetch = "answered" /\ items' = M!Stored(items) /\ behind' = (items.reply # M!Listing)
        /\ parts' = M!Put(items.reply) /\ UNCHANGED <<clusters, detail, M!rows, M!trace>>
    BY <1>5 DEF M!StoreItems
  <2>2. items' = [data |-> items.reply, fetch |-> "idle", reply |-> NoData, stale |-> FALSE]
    BY <2>1 DEF M!Stored
  <2>3. items.reply \in Listings
    BY <2>1 DEF ModerationInv, PanelTypes
  <2>4. drafts' \subseteq drafts
    BY <1>5 DEF M!StoreItems
  <2>5. parts' \in SUBSET Questions
    <3>1. PICK S \in SUBSET Questions : items.reply \in [S -> RowTypes]
      BY <2>3 DEF Listings
    <3>2. detail \in S => items.reply[detail].parts \in SUBSET Questions
      BY <3>1 DEF RowTypes
    <3> QED BY <2>1, <3>1, <3>2 DEF M!Put, ModerationInv, PanelTypes
  <2>6. PanelTypes'
    BY <2>1, <2>2, <2>3, <2>4, <2>5 DEF ModerationInv, PanelTypes, M!Fetches
  <2>7. behind' \in BOOLEAN /\ M!Listing' = M!Listing
    BY <2>1 DEF M!rows, M!Listing, M!Row
  <2>8. Listed'
    <3>1. items'.data = items.reply
      BY <2>2
    <3>2. ~ behind' => items.reply = M!Listing
      BY <2>1
    <3> QED BY <2>7, <3>1, <3>2 DEF Listed
  <2>9. AskedRows' /\ Counted'
    BY <2>1, <2>7 DEF ModerationInv, AskedRows, Counted, M!rows, M!trace
  <2> QED BY <1>2, <2>6, <2>8, <2>9 DEF ModerationInv
<1> QED BY <1>3, <1>4, <1>5

LEMMA BarTypes ==
    ASSUME ModerationInv, UNCHANGED <<M!rows, items, request, M!trace, behind>>,
           detail' \in Questions \cup {none}, parts' \in SUBSET Questions, drafts' \in SUBSET Questions,
           clusters' \in SUBSET [q : Questions, dups : SUBSET Questions],
             \A x \in clusters' : x.q \notin x.dups
    PROVE  ModerationInv'
<1>1. AskedRows' /\ Counted' /\ Listed'
  BY RowsAlone DEF ModerationInv, M!trace
<1>2. AskedCalls' /\ PanelTypes'
  BY DEF ModerationInv, AskedCalls, PanelTypes
<1> QED BY <1>1, <1>2 DEF ModerationInv

LEMMA ShownParts ==
    ASSUME ModerationInv, NEW q \in M!Shown
    PROVE  q \in Questions /\ items.data[q].parts \in SUBSET Questions
<1>1. PICK S \in SUBSET Questions : items.data \in [S -> RowTypes]
  BY DEF ModerationInv, PanelTypes, Listings
<1>2. q \in S
  BY <1>1 DEF M!Shown
<1> QED BY <1>1, <1>2 DEF RowTypes

LEMMA OffersKinds ==
    ASSUME ModerationInv, NEW q \in M!Shown, NEW k \in M!Offered(items.data[q])
    PROVE  k \in M!Kinds
<1>1. items.data[q].status \in {"pending", "approved", "answered"}
  BY DEF M!Shown
<1> QED BY <1>1 DEF M!Offered, M!Kinds, M!Transitions, M!Marks

LEMMA HostTypes == ASSUME ModerationInv, M!Hosts PROVE ModerationInv'
<1>1. M!Channels = {"buttons", "drag", "cluster", "undo", "reply", "rival"}
        /\ {"merge", "unmerge", "reply"} \subseteq M!Kinds
  BY DEF M!Channels, M!Kinds
<1>2. /\ detail \in Questions \cup {none} /\ parts \in SUBSET Questions /\ drafts \in SUBSET Questions
      /\ clusters \in SUBSET [q : Questions, dups : SUBSET Questions] /\ \A x \in clusters : x.q \notin x.dups
  BY DEF ModerationInv, PanelTypes
<1>3. ASSUME NEW q \in Questions, NEW k \in M!Kinds, M!Press(q, k) PROVE ModerationInv'
  <2>1. q \notin {}
    OBVIOUS
  <2> QED BY <1>1, <1>3, <2>1, AskTypes DEF M!Press
<1>4. ASSUME NEW q \in Questions, NEW p \in Questions, M!Drop(q, p) PROVE ModerationInv'
  <2>1. p \notin {q} /\ {q} \in SUBSET Questions
    BY <1>4 DEF M!Drop
  <2> QED BY <1>1, <1>4, <2>1, AskTypes DEF M!Drop
<1>5. ASSUME NEW c \in clusters, M!MergeCluster(c) PROVE ModerationInv'
  <2>1. c.q \in Questions /\ c.dups \in SUBSET Questions /\ c.q \notin c.dups
    BY <1>2
  <2> QED BY <1>1, <1>5, <2>1, AskTypes DEF M!MergeCluster
<1>6. ASSUME NEW q \in Questions, M!TakeOut(q) \/ M!Reply(q) PROVE ModerationInv'
  <2>1. q \notin {}
    OBVIOUS
  <2> QED BY <1>1, <1>6, <2>1, AskTypes DEF M!TakeOut, M!Reply
<1>7. ASSUME NEW k \in M!Kinds \ {"reply"}, NEW q \in Questions,
             NEW dups \in {{}} \cup {{x} : x \in Questions}, M!Rival(k, q, dups)
      PROVE  ModerationInv'
  <2>1. q \notin dups /\ dups \in SUBSET Questions /\ k \in M!Kinds
    BY <1>7 DEF M!Rival
  <2> QED BY <1>1, <1>7, <2>1, AskTypes DEF M!Rival
<1>8. ASSUME NEW q \in Questions, NEW dups \in SUBSET Questions, M!Scan(q, dups) PROVE ModerationInv'
  <2>1. clusters' = {[q |-> q, dups |-> dups]} /\ q \notin dups
    BY <1>8 DEF M!Scan
  <2>2. UNCHANGED <<M!rows, items, request, M!trace, behind, detail, parts, drafts>>
    BY <1>8 DEF M!Scan
  <2> QED BY <1>2, <2>1, <2>2, BarTypes
<1>9. ASSUME NEW c \in clusters, M!DismissCluster(c) PROVE ModerationInv'
  <2>1. clusters' \subseteq clusters
          /\ UNCHANGED <<M!rows, items, request, M!trace, behind, detail, parts, drafts>>
    BY <1>9 DEF M!DismissCluster
  <2> QED BY <1>2, <2>1, BarTypes
<1>10. ASSUME NEW q \in Questions, M!OpenDetail(q) PROVE ModerationInv'
  <2>1. detail' = q /\ parts' = items.data[q].parts /\ q \in M!Shown
    BY <1>10 DEF M!OpenDetail
  <2>2. UNCHANGED <<M!rows, items, request, M!trace, behind, clusters, drafts>>
    BY <1>10 DEF M!OpenDetail
  <2> QED BY <1>2, <2>1, <2>2, ShownParts, BarTypes
<1>11. ASSUME NEW q \in Questions, M!OpenReply(q) PROVE ModerationInv'
  <2>1. drafts' = drafts \cup {q}
          /\ UNCHANGED <<M!rows, items, request, M!trace, behind, clusters, detail, parts>>
    BY <1>11 DEF M!OpenReply
  <2> QED BY <1>2, <2>1, BarTypes
<1>12. CASE M!CloseDetail
  <2>1. detail' = none /\ parts' = {}
          /\ UNCHANGED <<M!rows, items, request, M!trace, behind, clusters, drafts>>
    BY <1>12 DEF M!CloseDetail
  <2> QED BY <1>2, <2>1, BarTypes
<1> QED BY <1>3, <1>4, <1>5, <1>6, <1>7, <1>8, <1>9, <1>10, <1>11, <1>12 DEF M!Hosts

LEMMA ModerationNext == ModerationInv /\ [M!Next]_M!vars => ModerationInv'
<1> SUFFICES ASSUME ModerationInv, [M!Next]_M!vars PROVE ModerationInv'
  OBVIOUS
<1>1. CASE M!Panel
  BY <1>1, SettleTypes DEF M!Panel
<1>2. CASE M!RivalAnswered
  <2>1. "rival" \in M!Channels /\ M!Send("rival", M!NoRequest)
    BY <1>2 DEF M!RivalAnswered, M!Channels
  <2>2. AskedCalls'
    BY <2>1, SendTypes DEF ModerationInv
  <2>3. AskedRows' /\ Counted' /\ Listed'
    BY <1>2, RowsAlone DEF ModerationInv, M!RivalAnswered, M!trace
  <2>4. PanelTypes'
    BY <1>2 DEF ModerationInv, PanelTypes, M!RivalAnswered, M!bar
  <2> QED BY <2>2, <2>3, <2>4 DEF ModerationInv
<1>3. CASE M!Server
  BY <1>2, <1>3, PanelReadTypes, PanelCommitTypes, ItemsTypes DEF M!Server
<1>4. CASE M!Faults
  BY <1>4, LoseTypes, PanelCommitTypes DEF M!Faults
<1>5. CASE UNCHANGED M!vars
  <2>1. UNCHANGED <<M!rows, items, request, M!trace, behind, detail, parts, drafts, clusters>>
    BY <1>5 DEF M!vars, M!bar
  <2> QED BY <2>1, BarTypes DEF ModerationInv, PanelTypes
<1> QED BY <1>1, <1>3, <1>4, <1>5, HostTypes, ItemsTypes, VoteTypes DEF M!Next

LEMMA ModerationGives == ModerationInv => M!TypeOK /\ M!VotesAddUp /\ M!PanelAtRest
<1> SUFFICES ASSUME ModerationInv PROVE M!TypeOK /\ M!VotesAddUp /\ M!PanelAtRest
  OBVIOUS
<1>1. M!VotesAddUp
  BY GatheredIs DEF ModerationInv, Counted, M!VotesAddUp
<1>2. M!PanelAtRest
  BY DEF ModerationInv, Listed, M!PanelAtRest
<1>3. DOMAIN items.data \subseteq Questions
  BY DEF ModerationInv, PanelTypes, Listings
<1>4. \A c \in M!Channels : request[c] # M!NoRequest => request[c].kind \in M!Kinds
  BY DEF ModerationInv, AskedCalls, Requests
<1> QED BY <1>1, <1>2, <1>3, <1>4 DEF M!TypeOK, ModerationInv, AskedRows, PanelTypes, Mergings

-----------------------------------------------------------------------------
(* The editor of a poll.                                                       *)
(* Bounds stay numbers, so that an edit is told from the other steps.              *)
EditorBounds == leftBuilder \in [{"edits", "others", "refetches", "faults"} -> Nat]

LEMMA BoundsInit == B!Init => EditorBounds
BY PartsAssumption DEF PartsAssumption, B!BuilderAssumption, B!Init, EditorBounds

LEMMA UseBound ==
    ASSUME EditorBounds, NEW kind \in {"edits", "others", "refetches", "faults"}, B!Use(kind)
    PROVE  EditorBounds' /\ leftBuilder'[kind] < leftBuilder[kind]
BY DEF EditorBounds, B!Use

LEMMA BoundsNext == EditorBounds /\ [B!Next]_B!vars => EditorBounds'
<1> SUFFICES ASSUME EditorBounds, [B!Next]_B!vars PROVE EditorBounds'
  OBVIOUS
<1>1. ASSUME NEW f, B!Edit(f) PROVE EditorBounds'
  BY <1>1, UseBound DEF B!Edit
<1>2. ASSUME NEW f, B!CoHostSaves(f) PROVE EditorBounds'
  BY <1>2, UseBound DEF B!CoHostSaves
<1>3. CASE B!Refetches
  BY <1>3, UseBound DEF B!Refetches
<1>4. ASSUME NEW w, B!Loses(w) PROVE EditorBounds'
  BY <1>4, UseBound DEF B!Loses
<1>5. CASE B!PollAnswers \/ B!PollStores \/ B!HydrationEnds \/ B!Save \/ B!TitleSaved \/ B!SaveDone \/ B!Leave
  BY <1>5 DEF B!PollAnswers, B!PollStores, B!HydrationEnds, B!Save, B!TitleSaved,
              B!SaveDone, B!Leave, EditorBounds
<1>6. ASSUME NEW w, B!Autosaves(w) \/ B!Deletes(w) \/ B!Commits(w) \/ B!Fails(w) \/ B!AutosaveDone(w)
      PROVE  EditorBounds'
  BY <1>6 DEF B!Autosaves, B!Deletes, B!Commits, B!Fails, B!AutosaveDone, EditorBounds
<1>7. CASE UNCHANGED B!vars
  BY <1>7 DEF B!vars, EditorBounds
<1> QED BY <1>1, <1>2, <1>3, <1>4, <1>5, <1>6, <1>7 DEF B!Next

(* Only an edit touches a form that was filled.                                   *)
LEMMA EditsOnly == EditorBounds /\ [B!Next]_B!vars => B!OnlyEdits
<1> SUFFICES ASSUME EditorBounds, [B!Next]_B!vars, seeded, form' # form
             PROVE leftBuilder'.edits < leftBuilder.edits
  BY DEF B!OnlyEdits
<1>1. ASSUME NEW f, B!Edit(f) PROVE leftBuilder'.edits < leftBuilder.edits
  BY <1>1, UseBound DEF B!Edit
<1>2. CASE B!PollStores
  BY <1>2 DEF B!PollStores, B!Changed, B!Shown, B!page
<1>3. CASE B!PollAnswers \/ B!Refetches \/ B!HydrationEnds \/ B!Save \/ B!TitleSaved \/ B!SaveDone \/ B!Leave
  BY <1>3 DEF B!PollAnswers, B!Refetches, B!HydrationEnds, B!Save, B!TitleSaved,
              B!SaveDone, B!Leave, B!page
<1>4. ASSUME NEW f, B!CoHostSaves(f) PROVE FALSE
  BY <1>4 DEF B!CoHostSaves, B!page
<1>5. ASSUME NEW w, \/ B!Autosaves(w) \/ B!Deletes(w) \/ B!Commits(w) \/ B!Loses(w) \/ B!Fails(w)
                    \/ B!AutosaveDone(w)
      PROVE  FALSE
  BY <1>5 DEF B!Autosaves, B!Deletes, B!Commits, B!Loses, B!Fails, B!AutosaveDone, B!page
<1>6. ~ UNCHANGED B!vars
  BY DEF B!vars, B!page
<1> QED BY <1>1, <1>2, <1>3, <1>4, <1>5, <1>6 DEF B!Next

-----------------------------------------------------------------------------
(* Types of the editor, with what a request saves.                                *)
EditorTypes ==
    /\ rows \in [B!Writers -> B!Options]
    /\ poll \in B!Queries(B!Options) /\ (poll.fetch = "answered" => poll.reply \in B!Options)
    /\ form \in B!Forms /\ lastSaved \in B!Forms /\ timer \in B!Forms \cup {NoData}
    /\ write \in [B!Pages -> B!Writes]
    /\ \A w \in B!Pages : write[w].at # "free" => B!CanSave(write[w].opts)
    /\ seeded \in BOOLEAN /\ hydrating \in BOOLEAN /\ settle \in BOOLEAN
    /\ open \in BOOLEAN /\ doubt \in BOOLEAN

(* A request that ran alone takes all rows it can see, and what it saved is then what  *)
(* there is.                                                                     *)
Alone(w) ==
    /\ \A v \in B!Pages : write[v].at # "free" => v = w
    /\ write[w].at = "deleted" => \A v \in B!Writers : rows[v] # {} => v \in write[w].sees
    /\ write[w].at = "saved" => B!Held(rows) = write[w].opts
Writing ==
    /\ \A w \in B!Pages : write[w].at # "free" /\ write[w].alone => Alone(w)
    /\ \A w \in B!Pages : write[w].at = "failed" => doubt
    /\ ~ doubt => \A w \in B!Pages : write[w].at # "free" => write[w].alone
    /\ timer # NoData => timer = form /\ B!CanSave(form)
    /\ ~ seeded => timer = NoData /\ \A w \in B!Pages : write[w].at = "free"

(* Without doubt the server has what was saved last, and a form that waits for        *)
(* nothing says that, or what a request is saving.                                *)
Settled ==
    /\ (\A w \in B!Pages : write[w].at = "free") =>
          B!Held(rows) = lastSaved /\ (B!CanSave(form) /\ timer = NoData => form = lastSaved)
    /\ \A w \in B!Pages : write[w].at # "free" /\ B!CanSave(form) /\ timer = NoData => form = write[w].opts

EditorInv == EditorTypes /\ Writing /\ (~ doubt /\ open /\ seeded => Settled)

LEMMA EditorApart ==
    /\ \A f \in B!Forms : f # NoData
    /\ B!Options \subseteq B!Forms /\ CoHost \notin B!Pages /\ B!Pages \subseteq B!Writers
    /\ CoHost \in B!Writers /\ FirstOptions \subseteq B!Options
    /\ \A f \in B!Forms : B!CanSave(f) => f \in B!Options
BY PartsAssumption DEF PartsAssumption, B!BuilderAssumption, B!Forms, B!Options, B!Pages, B!Writers, B!CanSave

LEMMA EditorInit == B!Init => EditorInv
<1> SUFFICES ASSUME B!Init PROVE EditorInv
  OBVIOUS
<1>1. PICK now \in FirstOptions, cached \in FirstOptions \cup {NoData} :
         /\ rows = [w \in B!Writers |-> IF w = CoHost THEN now ELSE {}]
         /\ poll \in {[B!Loading EXCEPT !.data = cached]}
                     \cup (IF cached = now THEN {[B!Unused EXCEPT !.data = now]} ELSE {})
         /\ form = (IF cached = NoData THEN {} ELSE cached)
         /\ lastSaved = form
         /\ seeded = (cached # NoData) /\ settle = seeded
         /\ doubt = (cached \notin {NoData, now})
  BY DEF B!Init
<1>2. /\ hydrating = TRUE /\ timer = NoData /\ open = TRUE /\ write = [w \in B!Pages |-> B!NoWrite]
  BY DEF B!Init
<1>3. now \in B!Options /\ (cached # NoData => cached \in B!Options)
  BY <1>1, EditorApart
<1>4. B!NoWrite \in B!Writes /\ B!NoWrite.at = "free"
  BY DEF B!NoWrite, B!Writes, B!Forms
<1>5. poll \in B!Queries(B!Options) /\ poll.fetch # "answered"
  <2>1. poll = [data |-> cached, fetch |-> "asked", reply |-> NoData, stale |-> FALSE]
        \/ poll = [data |-> now, fetch |-> "idle", reply |-> NoData, stale |-> FALSE]
    BY <1>1 DEF B!Loading, B!Unused
  <2>2. cached \in B!Options \cup {NoData} /\ now \in B!Options \cup {NoData}
    BY <1>3
  <2>3. ASSUME NEW d \in B!Options \cup {NoData}, NEW f \in {"asked", "idle"},
               poll = [data |-> d, fetch |-> f, reply |-> NoData, stale |-> FALSE]
        PROVE  poll \in B!Queries(B!Options) /\ poll.fetch # "answered"
    <3>1. poll.fetch = f /\ f \in B!Fetches
      BY <2>3 DEF B!Fetches
    <3>2. poll \in B!Queries(B!Options)
      BY <2>3, <3>1 DEF B!Queries
    <3> QED BY <3>1, <3>2
  <2> QED BY <2>1, <2>2, <2>3
<1>6. form \in B!Forms
  BY <1>1, <1>3, EditorApart DEF B!Forms
<1>7. rows \in [B!Writers -> B!Options]
  BY <1>1, <1>3 DEF B!Options
<1>8. seeded \in BOOLEAN /\ settle \in BOOLEAN /\ doubt \in BOOLEAN
  BY <1>1
<1>9. EditorTypes
  BY <1>1, <1>2, <1>4, <1>5, <1>6, <1>7, <1>8 DEF EditorTypes
<1>10. Writing
  BY <1>2, <1>4 DEF Writing
<1>11. ASSUME ~ doubt, seeded PROVE Settled
  <2>1. cached = now /\ form = now
    BY <1>1, <1>11
  <2>2. B!Held(rows) = now
    BY <1>1, EditorApart DEF B!Held
  <2> QED BY <1>1, <1>2, <1>4, <2>1, <2>2 DEF Settled
<1> QED BY <1>9, <1>10, <1>11 DEF EditorInv

-----------------------------------------------------------------------------
LEMMA HeldOK == ASSUME EditorTypes PROVE B!Held(rows) \in B!Options
BY DEF EditorTypes, B!Held, B!Options

LEMMA EditorQuery ==
    ASSUME NEW q \in B!Queries(B!Options), NEW d \in B!Options
    PROVE  /\ B!Fetched(q) \in B!Queries(B!Options)
                /\ (B!Fetched(q).fetch = "answered" => q.fetch = "answered" /\ B!Fetched(q).reply = q.reply)
           /\ B!Refetched(q) \in B!Queries(B!Options)
                /\ (B!Refetched(q).fetch = "answered" => q.fetch = "answered" /\ B!Refetched(q).reply = q.reply)
           /\ B!Patched(q, d) \in B!Queries(B!Options) /\ B!Patched(q, d).fetch = q.fetch
                /\ B!Patched(q, d).reply = q.reply
           /\ B!Answered(q, d) \in B!Queries(B!Options) /\ B!Answered(q, d).reply = d
           /\ B!Stored(q) \in B!Queries(B!Options) /\ B!Stored(q).fetch = "idle" /\ B!Stored(q).data = q.reply
BY DEF B!Queries, B!Fetches, B!Fetched, B!Refetched, B!Patched, B!Written, B!Answered, B!Stored,
      B!Idle, B!Loaded

(* The page's own steps.                                                         *)
LEMMA PollSteps ==
    ASSUME EditorInv, B!PollAnswers \/ B!Refetches \/ B!HydrationEnds
    PROVE  EditorInv'
<1>1. poll \in B!Queries(B!Options) /\ B!Held(rows) \in B!Options
  BY HeldOK DEF EditorInv, EditorTypes
<1>2. UNCHANGED <<rows, form, lastSaved, timer, write, seeded, open, doubt>>
  BY DEF B!PollAnswers, B!Refetches, B!HydrationEnds, B!page
<1>3. poll' \in B!Queries(B!Options) /\ (poll'.fetch = "answered" => poll'.reply \in B!Options)
  <2>0. poll.fetch = "answered" => poll.reply \in B!Options
    BY DEF EditorInv, EditorTypes
  <2>1. CASE B!PollAnswers
    <3>1. poll' = B!Answered(poll, B!Held(rows))
      BY <2>1 DEF B!PollAnswers
    <3> QED BY <1>1, <3>1, EditorQuery
  <2>2. CASE B!Refetches
    <3>1. poll' = B!Fetched(poll)
      BY <2>2 DEF B!Refetches
    <3> QED BY <1>1, <2>0, <3>1, EditorQuery
  <2>3. CASE B!HydrationEnds
    <3>1. poll' = poll
      BY <2>3 DEF B!HydrationEnds
    <3> QED BY <1>1, <2>0, <3>1
  <2> QED BY <2>1, <2>2, <2>3
<1>4. hydrating' \in BOOLEAN /\ settle' \in BOOLEAN
  BY DEF B!PollAnswers, B!Refetches, B!HydrationEnds, B!page, EditorInv, EditorTypes
<1>5. EditorTypes'
  BY <1>2, <1>3, <1>4 DEF EditorInv, EditorTypes
<1> QED BY <1>2, <1>5 DEF EditorInv, Writing, Alone, Settled

LEMMA StoreSteps == ASSUME EditorInv, B!PollStores PROVE EditorInv'
<1>1. poll.fetch = "answered" /\ poll' = B!Stored(poll) /\ UNCHANGED <<rows, write>>
  BY DEF B!PollStores, B!Changed
<1>2. poll.reply \in B!Options /\ poll \in B!Queries(B!Options)
  BY <1>1 DEF EditorInv, EditorTypes
<1>3. poll' \in B!Queries(B!Options) /\ poll'.fetch = "idle" /\ poll'.data = poll.reply
  BY <1>1, <1>2, EditorQuery
<1>4. doubt' = (doubt \/ (~ seeded /\ open /\ poll.reply # B!Held(rows)))
  BY DEF B!PollStores
<1>5. doubt' \in BOOLEAN
  BY <1>4 DEF EditorInv, EditorTypes
<1>6. UNCHANGED B!page \/ B!Shown(poll.reply)
  BY <1>1, <1>3 DEF B!PollStores, B!Changed
<1>7. CASE UNCHANGED <<form, seeded, lastSaved, timer, open>> /\ hydrating' \in BOOLEAN /\ settle' \in BOOLEAN
  <2>1. EditorTypes'
    BY <1>1, <1>3, <1>5, <1>7 DEF EditorInv, EditorTypes
  <2>2. ~ doubt' => ~ doubt
    BY <1>4
  <2>3. doubt => doubt'
    BY <1>4
  <2> QED BY <1>1, <1>7, <2>1, <2>2, <2>3 DEF EditorInv, Writing, Alone, Settled
<1>8. CASE ~ (UNCHANGED <<form, seeded, lastSaved, timer, open>> /\ hydrating' \in BOOLEAN /\ settle' \in BOOLEAN)
  <2>1. open /\ ~ seeded /\ B!Seeds(poll.reply) /\ open' = open
    BY <1>6, <1>8 DEF B!Shown, B!page, EditorInv, EditorTypes
  <2>2. /\ form' = poll.reply /\ lastSaved' = poll.reply /\ timer' = NoData
        /\ seeded' = TRUE /\ hydrating' = TRUE /\ settle' = TRUE
    BY <2>1 DEF B!Seeds
  <2>3. EditorTypes'
    BY <1>1, <1>2, <1>3, <1>5, <2>1, <2>2, EditorApart DEF EditorInv, EditorTypes
  <2>4. \A w \in B!Pages : write[w].at = "free"
    BY <2>1 DEF EditorInv, Writing
  <2>5. Writing'
    BY <1>1, <2>2, <2>4 DEF Writing
  <2>6. ASSUME ~ doubt' PROVE Settled'
    <3>1. poll.reply = B!Held(rows)
      BY <1>4, <2>1, <2>6
    <3> QED BY <1>1, <2>2, <2>4, <3>1 DEF Settled
  <2> QED BY <2>3, <2>5, <2>6 DEF EditorInv
<1> QED BY <1>7, <1>8

LEMMA EditSteps == ASSUME EditorInv, NEW f \in B!Forms, B!Edit(f) PROVE EditorInv'
<1>1. /\ open /\ seeded /\ form' = f /\ timer' = B!Arms(f)
      /\ UNCHANGED <<rows, poll, seeded, hydrating, settle, lastSaved, open, write>>
  BY DEF B!Edit
<1>2. doubt' = (doubt \/ (B!CanSave(f) /\ B!Arms(f) = NoData /\ (hydrating \/ B!Busy # {})))
  BY DEF B!Edit
<1>3. doubt' \in BOOLEAN
  BY <1>2 DEF EditorInv, EditorTypes
<1>4. B!Arms(f) \in {NoData, f} /\ (B!Arms(f) # NoData => B!CanSave(f))
  BY DEF B!Arms
<1>5. EditorTypes'
  BY <1>1, <1>3, <1>4 DEF EditorInv, EditorTypes
<1>6. doubt => doubt'
  BY <1>2
<1>7. Writing'
  BY <1>1, <1>4, <1>6 DEF EditorInv, Writing, Alone
<1>8. ASSUME ~ doubt' PROVE Settled'
  <2>1. ~ doubt /\ (B!CanSave(f) /\ B!Arms(f) = NoData => ~ hydrating /\ B!Busy = {})
    BY <1>2, <1>8
  <2>2. Settled
    BY <1>1, <2>1 DEF EditorInv
  <2>3. B!CanSave(f) /\ B!Arms(f) = NoData => f = lastSaved /\ \A w \in B!Pages : write[w].at = "free"
    BY <2>1, EditorApart DEF B!Arms, B!Busy
  <2> QED BY <1>1, <2>2, <2>3 DEF Settled
<1> QED BY <1>1, <1>5, <1>7, <1>8 DEF EditorInv

(* A request is sent: without doubt it is the only one.                             *)
LEMMA SentSteps ==
    ASSUME EditorInv, NEW w \in B!Pages, NEW st \in {"asked", "title"}, NEW f \in B!Forms,
             B!CanSave(f), f = form,
           seeded, write' = B!Sent(w, st, f), doubt' = (doubt \/ B!Busy # {}), write[w] = B!NoWrite,
           timer' = timer \/ timer' = NoData,
           UNCHANGED <<rows, poll, form, seeded, hydrating, settle, lastSaved, open>>
    PROVE  EditorInv'
<1>1. ASSUME NEW v \in B!Pages
      PROVE  /\ write'[v] \in B!Writes /\ (write'[v].at # "free" => B!CanSave(write'[v].opts))
             /\ v # w => write'[v].at = write[v].at /\ (write'[v].at # "free" => ~ write'[v].alone)
             /\ v = w => /\ write'[v].at = st /\ write'[v].opts = f
                        /\ write'[v].alone = (B!Busy = {})
  <2>1. PICK free, alone, this, old :
           /\ free = B!NoWrite /\ alone = (B!Busy = {}) /\ old = write[v]
           /\ this = [free EXCEPT !.at = st, !.opts = f, !.alone = alone]
    OBVIOUS
  <2>2. /\ old \in B!Writes /\ (old.at # "free" => B!CanSave(old.opts)) /\ free \in B!Writes
        /\ alone \in BOOLEAN
    BY <2>1 DEF EditorInv, EditorTypes, B!NoWrite, B!Writes, B!Forms
  <2>3. CASE v = w
    <3>1. write'[v] = this
      BY <2>1, <2>3 DEF B!Sent
    <3>2. this \in B!Writes /\ this.at = st /\ this.opts = f /\ this.alone = alone
      BY <2>1, <2>2 DEF B!Writes
    <3> QED BY <2>1, <2>3, <3>1, <3>2
  <2>4. CASE v # w
    <3>1. PICK b, n : b = (old.alone /\ old.at = "free") /\ n = [old EXCEPT !.alone = b]
      OBVIOUS
    <3>2. write'[v] = n
      <4>1. write'[v] = [write[v] EXCEPT !.alone = @ /\ write[v].at = "free"]
        BY <2>4 DEF B!Sent
      <4> QED BY <2>1, <3>1, <4>1
    <3>3. b \in BOOLEAN /\ (old.at # "free" => ~ b)
      BY <3>1
    <3>4. n \in B!Writes /\ n.at = old.at /\ n.opts = old.opts /\ n.alone = b
      BY <2>2, <3>1, <3>3 DEF B!Writes
    <3> QED BY <2>1, <2>2, <2>4, <3>2, <3>3, <3>4
  <2> QED BY <2>3, <2>4
<1>2. doubt' \in BOOLEAN
  BY DEF EditorInv, EditorTypes
<1>3. write' \in [B!Pages -> B!Writes]
  <2>1. write' = [v \in B!Pages |-> write'[v]]
    BY DEF B!Sent
  <2> QED BY <1>1, <2>1
<1>4. EditorTypes'
  BY <1>1, <1>2, <1>3 DEF EditorInv, EditorTypes
<1>6. B!Busy = {} => \A v \in B!Pages : write[v].at = "free"
  BY DEF B!Busy
<1>7. Writing'
  <2>1. ASSUME NEW v \in B!Pages, write'[v].at # "free", write'[v].alone PROVE Alone(v)'
    <3>0. write'[v].alone \in BOOLEAN
      BY <1>1 DEF B!Writes
    <3>1. v = w
      BY <1>1, <2>1, <3>0
    <3>2. B!Busy = {}
      <4>1. write'[v].alone = (B!Busy = {})
        BY <1>1, <3>1
      <4>2. write'[v].alone
        BY <2>1
      <4> QED BY <4>1, <4>2
    <3> QED BY <1>1, <1>6, <3>1, <3>2 DEF Alone
  <2>2. ASSUME NEW v \in B!Pages, write'[v].at = "failed" PROVE doubt'
    <3>1. write[v].at = "failed"
      BY <1>1, <2>2
    <3>2. doubt
      BY <3>1 DEF EditorInv, Writing
    <3> QED BY <3>2
  <2>3. ~ doubt' => \A v \in B!Pages : write'[v].at # "free" => write'[v].alone
    BY <1>1, <1>6
  <2>4. timer' # NoData => timer' = form' /\ B!CanSave(form')
    BY DEF EditorInv, Writing
  <2> QED BY <2>1, <2>2, <2>3, <2>4 DEF Writing
<1>8. ASSUME ~ doubt' PROVE Settled'
  <2>1. B!Busy = {}
    BY <1>8
  <2> QED BY <1>1, <1>6, <2>1 DEF Settled
<1> QED BY <1>4, <1>7, <1>8 DEF EditorInv

LEMMA AutosaveSteps == ASSUME EditorInv, NEW w \in B!Pages, B!Autosaves(w) PROVE EditorInv'
<1>1. timer # NoData /\ timer = form /\ B!CanSave(form) /\ seeded /\ form \in B!Forms
  BY DEF B!Autosaves, EditorInv, EditorTypes, Writing
<1>2. /\ write' = B!Sent(w, "asked", form) /\ timer' = NoData /\ doubt' = (doubt \/ B!Busy # {})
      /\ write[w] = B!NoWrite
      /\ UNCHANGED <<rows, poll, form, seeded, hydrating, settle, lastSaved, open>>
  BY <1>1 DEF B!Autosaves
<1> QED BY <1>1, <1>2, SentSteps

LEMMA SaveSteps == ASSUME EditorInv, B!Save PROVE EditorInv'
<1>1. SaveButton \in B!Pages /\ form \in B!Forms
  BY DEF B!Pages, EditorInv, EditorTypes
<1>2. /\ B!CanSave(form) /\ seeded /\ write' = B!Sent(SaveButton, "title", form) /\ timer' = timer
      /\ doubt' = (doubt \/ B!Busy # {}) /\ write[SaveButton] = B!NoWrite
      /\ UNCHANGED <<rows, poll, form, seeded, hydrating, settle, lastSaved, open>>
  BY DEF B!Save, B!page
<1> QED BY <1>1, <1>2, SentSteps

(* A request that goes on, and nothing else.                                       *)
LEMMA OneRequest ==
    ASSUME EditorTypes, NEW w \in B!Pages, NEW n \in B!Writes, n.at # "free" => B!CanSave(n.opts),
           write' = [write EXCEPT ![w] = n]
    PROVE  /\ write' \in [B!Pages -> B!Writes]
           /\ \A v \in B!Pages : write'[v] = IF v = w THEN n ELSE write[v]
           /\ \A v \in B!Pages : write'[v].at # "free" => B!CanSave(write'[v].opts)
<1>1. write \in [B!Pages -> B!Writes]
  BY DEF EditorTypes
<1>2. \A v \in B!Pages : write'[v] = IF v = w THEN n ELSE write[v]
  BY <1>1
<1> QED BY <1>1, <1>2 DEF EditorTypes

LEMMA TitleSteps == ASSUME EditorInv, B!TitleSaved PROVE EditorInv'
<1>1. PICK old, n : old = write[SaveButton] /\ n = [old EXCEPT !.at = "asked"]
  OBVIOUS
<1>2. /\ old.at = "title" /\ write' = [write EXCEPT ![SaveButton] = n] /\ SaveButton \in B!Pages
      /\ UNCHANGED <<rows, poll, form, seeded, hydrating, settle, lastSaved, timer, open, doubt>>
  BY <1>1 DEF B!TitleSaved, B!page, B!Pages
<1>3. old \in B!Writes /\ B!CanSave(old.opts)
  BY <1>1, <1>2 DEF EditorInv, EditorTypes
<1>4. n \in B!Writes /\ n.at = "asked" /\ n.opts = old.opts /\ n.alone = old.alone
  BY <1>1, <1>3 DEF B!Writes
<1>5. /\ write' \in [B!Pages -> B!Writes]
      /\ \A v \in B!Pages : write'[v] = IF v = SaveButton THEN n ELSE write[v]
      /\ \A v \in B!Pages : write'[v].at # "free" => B!CanSave(write'[v].opts)
  BY <1>2, <1>3, <1>4, OneRequest DEF EditorInv
<1>6. EditorTypes'
  BY <1>2, <1>5 DEF EditorInv, EditorTypes
<1>7. ASSUME NEW v \in B!Pages
      PROVE  /\ write'[v].at # "free" <=> write[v].at # "free"
             /\ write'[v].opts = write[v].opts /\ write'[v].alone = write[v].alone
             /\ write'[v].at \in {"deleted", "saved", "failed"} => write'[v] = write[v]
  BY <1>1, <1>2, <1>4, <1>5
<1>8. Writing'
  <2>1. ASSUME NEW v \in B!Pages, write'[v].at # "free", write'[v].alone PROVE Alone(v)'
    <3>1. Alone(v)
      BY <1>7, <2>1 DEF EditorInv, Writing
    <3> QED BY <1>2, <1>7, <3>1 DEF Alone, B!Held
  <2> QED BY <1>2, <1>7, <2>1 DEF EditorInv, Writing
<1> QED BY <1>2, <1>6, <1>7, <1>8 DEF EditorInv, Settled

LEMMA LeaveSteps == ASSUME EditorInv, B!Leave PROVE EditorInv'
<1>1. /\ UNCHANGED <<rows, poll, form, seeded, hydrating, settle, lastSaved, write, doubt>>
      /\ open' = FALSE /\ timer' = NoData
  BY DEF B!Leave
<1> QED BY <1>1 DEF EditorInv, EditorTypes, Writing, Alone, Settled

LEMMA DeleteSteps == ASSUME EditorInv, NEW w \in B!Pages, B!Deletes(w) PROVE EditorInv'
<1>1. PICK old, sees, n : /\ old = write[w] /\ sees = {v \in B!Writers : rows[v] # {}}
                          /\ n = [old EXCEPT !.at = "deleted", !.sees = sees]
  OBVIOUS
<1>2. /\ old.at = "asked" /\ write' = [write EXCEPT ![w] = n]
      /\ UNCHANGED <<rows, poll, form, seeded, hydrating, settle, lastSaved, timer, open, doubt>>
  <2>1. write = [v \in B!Pages |-> write[v]]
    BY DEF EditorInv, EditorTypes
  <2>2. write' = [write EXCEPT ![w].at = "deleted", ![w].sees = {v \in B!Writers : rows[v] # {}}]
    BY DEF B!Deletes
  <2> QED BY <1>1, <2>1, <2>2 DEF B!Deletes, B!page
<1>3. old \in B!Writes /\ B!CanSave(old.opts) /\ sees \in SUBSET B!Writers
  BY <1>1, <1>2 DEF EditorInv, EditorTypes
<1>4. n \in B!Writes /\ n.at = "deleted" /\ n.opts = old.opts /\ n.alone = old.alone /\ n.sees = sees
  BY <1>1, <1>3 DEF B!Writes
<1>5. /\ write' \in [B!Pages -> B!Writes]
      /\ \A v \in B!Pages : write'[v] = IF v = w THEN n ELSE write[v]
      /\ \A v \in B!Pages : write'[v].at # "free" => B!CanSave(write'[v].opts)
  BY <1>2, <1>3, <1>4, OneRequest DEF EditorInv
<1>6. EditorTypes'
  BY <1>2, <1>5 DEF EditorInv, EditorTypes
<1>7. ASSUME NEW v \in B!Pages
      PROVE  /\ write'[v].at # "free" <=> write[v].at # "free"
             /\ write'[v].opts = write[v].opts /\ write'[v].alone = write[v].alone
             /\ write'[v].at \in {"saved", "failed"} => write'[v] = write[v]
             /\ v # w => write'[v] = write[v]
             /\ v = w => write'[v].sees = sees
  BY <1>1, <1>2, <1>4, <1>5
<1>8. Writing'
  <2>1. ASSUME NEW v \in B!Pages, write'[v].at # "free", write'[v].alone PROVE Alone(v)'
    <3>1. Alone(v)
      BY <1>7, <2>1 DEF EditorInv, Writing
    <3>2. \A x \in B!Pages : write'[x].at # "free" => x = v
      BY <1>7, <3>1 DEF Alone
    <3>3. write'[v].at = "deleted" => \A x \in B!Writers : rows'[x] # {} => x \in write'[v].sees
      BY <1>1, <1>2, <1>7, <3>1 DEF Alone
    <3>4. write'[v].at = "saved" => B!Held(rows)' = write'[v].opts
      BY <1>2, <1>7, <3>1 DEF Alone, B!Held
    <3> QED BY <3>2, <3>3, <3>4 DEF Alone
  <2> QED BY <1>2, <1>7, <2>1 DEF EditorInv, Writing
<1> QED BY <1>2, <1>6, <1>7, <1>8 DEF EditorInv, Settled

LEMMA CommitSteps == ASSUME EditorInv, NEW w \in B!Pages, B!Commits(w) PROVE EditorInv'
<1>1. PICK old, n : old = write[w] /\ n = [old EXCEPT !.at = "saved"]
  OBVIOUS
<1>2. /\ old.at = "deleted"
      /\ rows' = [v \in B!Writers |-> IF v = w THEN old.opts ELSE IF v \in old.sees THEN {} ELSE rows[v]]
      /\ write' = [v \in B!Pages |-> IF v = w THEN n ELSE [write[v] EXCEPT !.sees = @ \ {w}]]
      /\ UNCHANGED <<poll, form, seeded, hydrating, settle, lastSaved, timer, open, doubt>>
  BY <1>1 DEF B!Commits, B!Replaced, B!page
<1>3. old \in B!Writes /\ B!CanSave(old.opts) /\ old.opts \in B!Options
  <2>1. old \in B!Writes /\ B!CanSave(old.opts)
    BY <1>1, <1>2 DEF EditorInv, EditorTypes
  <2>2. old.opts \in B!Forms
    BY <2>1 DEF B!Writes
  <2> QED BY <2>1, <2>2, EditorApart
<1>4. n \in B!Writes /\ n.at = "saved" /\ n.opts = old.opts /\ n.alone = old.alone
  BY <1>1, <1>3 DEF B!Writes
<1>5. ASSUME NEW v \in B!Pages
      PROVE  /\ write'[v] \in B!Writes /\ write'[v].opts = write[v].opts
             /\ write'[v].alone = write[v].alone
             /\ write'[v].at # "free" <=> write[v].at # "free"
             /\ v # w => write'[v].at = write[v].at
             /\ v = w => write'[v].at = "saved"
  <2>1. CASE v = w
    BY <1>1, <1>2, <1>4, <2>1
  <2>2. CASE v # w
    <3>1. PICK x, s, y : x = write[v] /\ s = x.sees \ {w} /\ y = [x EXCEPT !.sees = s]
      OBVIOUS
    <3>2. x \in B!Writes
      BY <3>1 DEF EditorInv, EditorTypes
    <3>3. y \in B!Writes /\ y.opts = x.opts /\ y.alone = x.alone /\ y.at = x.at
      BY <3>1, <3>2 DEF B!Writes
    <3>4. write'[v] = y
      <4>1. write'[v] = [write[v] EXCEPT !.sees = @ \ {w}]
        BY <1>2, <2>2
      <4> QED BY <3>1, <4>1
    <3> QED BY <2>2, <3>1, <3>3, <3>4
  <2> QED BY <2>1, <2>2
<1>6. EditorTypes'
  <2>1. write' = [v \in B!Pages |-> write'[v]]
    BY <1>2
  <2>2. write' \in [B!Pages -> B!Writes]
    BY <1>5, <2>1
  <2>3. rows' \in [B!Writers -> B!Options]
    <3>1. {} \in B!Options /\ \A v \in B!Writers : rows[v] \in B!Options
      BY DEF EditorInv, EditorTypes, B!Options
    <3> QED BY <1>2, <1>3, <3>1
  <2>4. \A v \in B!Pages : write'[v].at # "free" => B!CanSave(write'[v].opts)
    BY <1>5 DEF EditorInv, EditorTypes
  <2> QED BY <1>2, <2>2, <2>3, <2>4 DEF EditorInv, EditorTypes
<1>7. Writing'
  <2>1. ASSUME NEW v \in B!Pages, write'[v].at # "free", write'[v].alone PROVE Alone(v)'
    <3>1. Alone(v)
      BY <1>5, <2>1 DEF EditorInv, Writing
    <3>2. v = w
      BY <1>1, <1>2, <3>1 DEF Alone
    <3>3. \A x \in B!Writers : rows[x] # {} => x \in old.sees
      BY <1>1, <1>2, <3>1, <3>2 DEF Alone
    <3>4. \A x \in B!Writers : rows'[x] = IF x = w THEN old.opts ELSE {}
      BY <1>2, <3>3
    <3>5. B!Held(rows)' = old.opts
      BY <3>4, EditorApart DEF B!Held
    <3>6. \A x \in B!Pages : write'[x].at # "free" => x = v
      BY <1>5, <3>1 DEF Alone
    <3> QED BY <1>1, <1>5, <3>2, <3>5, <3>6 DEF Alone
  <2>2. \A v \in B!Pages : write'[v].at = "failed" => write[v].at = "failed"
    BY <1>5
  <2> QED BY <1>2, <1>5, <2>1, <2>2 DEF EditorInv, Writing
<1>8. ASSUME ~ doubt', open', seeded' PROVE Settled'
  <2>1. Settled
    BY <1>2, <1>8 DEF EditorInv
  <2>2. write'[w].at # "free"
    BY <1>5
  <2> QED BY <1>2, <1>5, <2>1, <2>2 DEF Settled
<1> QED BY <1>6, <1>7, <1>8 DEF EditorInv

LEMMA NoWriteOK == B!NoWrite \in B!Writes /\ B!NoWrite.at = "free"
BY DEF B!NoWrite, B!Writes, B!Forms

LEMMA CoHostSteps == ASSUME EditorInv, NEW f \in B!Options, B!CoHostSaves(f) PROVE EditorInv'
<1>1. /\ rows' = [v \in B!Writers |-> IF v = CoHost THEN f ELSE IF v \in B!Writers THEN {} ELSE rows[v]]
      /\ doubt' = TRUE
      /\ UNCHANGED <<poll, form, seeded, hydrating, settle, lastSaved, timer, open>>
  BY DEF B!CoHostSaves, B!Replaced, B!page
<1>2. write' = [v \in B!Pages |->
         IF v \in B!Busy THEN [write[v] EXCEPT !.sees = @ \ {CoHost}, !.alone = FALSE] ELSE B!NoWrite]
  BY DEF B!CoHostSaves
<1>3. ASSUME NEW v \in B!Pages
      PROVE  /\ write'[v] \in B!Writes /\ (write'[v].at # "free" => B!CanSave(write'[v].opts))
             /\ write'[v].at # "free" => ~ write'[v].alone /\ write[v].at # "free"
  <2>1. CASE v \in B!Busy
    <3>1. PICK x, s, y : x = write[v] /\ s = x.sees \ {CoHost} /\ y = [x EXCEPT !.sees = s, !.alone = FALSE]
      OBVIOUS
    <3>2. x \in B!Writes /\ (x.at # "free" => B!CanSave(x.opts)) /\ x.at # "free"
      BY <2>1, <3>1 DEF EditorInv, EditorTypes, B!Busy
    <3>3. y \in B!Writes /\ y.opts = x.opts /\ y.alone = FALSE /\ y.at = x.at
      BY <3>1, <3>2 DEF B!Writes
    <3>4. write'[v] = y
      <4>1. write'[v] = [write[v] EXCEPT !.sees = @ \ {CoHost}, !.alone = FALSE]
        BY <1>2, <2>1
      <4> QED BY <3>1, <4>1
    <3> QED BY <3>1, <3>2, <3>3, <3>4
  <2>2. CASE v \notin B!Busy
    <3>1. write'[v] = B!NoWrite
      BY <1>2, <2>2
    <3> QED BY <3>1, NoWriteOK
  <2> QED BY <2>1, <2>2
<1>4. EditorTypes'
  <2>1. write' = [v \in B!Pages |-> write'[v]]
    BY <1>2
  <2>2. write' \in [B!Pages -> B!Writes]
    BY <1>3, <2>1
  <2>3. rows' \in [B!Writers -> B!Options]
    <3>1. {} \in B!Options
      BY DEF B!Options
    <3> QED BY <1>1, <3>1
  <2> QED BY <1>1, <1>3, <2>2, <2>3 DEF EditorInv, EditorTypes
<1>5. Writing'
  <2>1. timer' # NoData => timer' = form' /\ B!CanSave(form')
    BY <1>1 DEF EditorInv, Writing
  <2>2. ~ seeded' => timer' = NoData /\ \A w \in B!Pages : write'[w].at = "free"
    BY <1>1, <1>3 DEF EditorInv, Writing
  <2> QED BY <1>1, <1>3, <2>1, <2>2 DEF Writing
<1> QED BY <1>1, <1>4, <1>5 DEF EditorInv

LEMMA LoseSteps == ASSUME EditorInv, NEW w \in B!Pages, B!Loses(w) PROVE EditorInv'
<1>1. PICK old, n : old = write[w] /\ n = [old EXCEPT !.at = "failed"]
  OBVIOUS
<1>2. /\ old.at # "free" /\ write' = [write EXCEPT ![w] = n] /\ doubt' = TRUE
      /\ UNCHANGED <<rows, poll, form, seeded, hydrating, settle, lastSaved, timer, open>>
  BY <1>1 DEF B!Loses, B!page
<1>3. old \in B!Writes /\ B!CanSave(old.opts)
  BY <1>1, <1>2 DEF EditorInv, EditorTypes
<1>4. n \in B!Writes /\ n.at = "failed" /\ n.opts = old.opts /\ n.alone = old.alone
  BY <1>1, <1>3 DEF B!Writes
<1>5. /\ write' \in [B!Pages -> B!Writes]
      /\ \A v \in B!Pages : write'[v] = IF v = w THEN n ELSE write[v]
      /\ \A v \in B!Pages : write'[v].at # "free" => B!CanSave(write'[v].opts)
  BY <1>2, <1>3, <1>4, OneRequest DEF EditorInv
<1>6. EditorTypes'
  BY <1>2, <1>5 DEF EditorInv, EditorTypes
<1>7. ASSUME NEW v \in B!Pages
      PROVE  /\ write'[v].at # "free" <=> write[v].at # "free"
             /\ write'[v].alone = write[v].alone
             /\ write'[v].at \in {"deleted", "saved"} => write'[v] = write[v]
  BY <1>1, <1>2, <1>4, <1>5
<1>8. Writing'
  <2>1. ASSUME NEW v \in B!Pages, write'[v].at # "free", write'[v].alone PROVE Alone(v)'
    <3>1. Alone(v)
      BY <1>7, <2>1 DEF EditorInv, Writing
    <3> QED BY <1>2, <1>7, <3>1 DEF Alone, B!Held
  <2> QED BY <1>2, <1>7, <2>1 DEF EditorInv, Writing
<1> QED BY <1>2, <1>6, <1>8 DEF EditorInv

(* A request that has ended.                                                    *)
LEMMA Ended ==
    ASSUME EditorTypes, NEW w \in B!Pages, write' = [write EXCEPT ![w] = B!NoWrite]
    PROVE  /\ write' \in [B!Pages -> B!Writes]
           /\ \A v \in B!Pages : v # w => write'[v] = write[v]
           /\ write'[w].at = "free"
           /\ \A v \in B!Pages : write'[v].at # "free" => v # w /\ B!CanSave(write'[v].opts)
BY NoWriteOK DEF EditorTypes

LEMMA FailSteps == ASSUME EditorInv, NEW w \in B!Pages, B!Fails(w) PROVE EditorInv'
<1>1. /\ write[w].at = "failed" /\ write' = [write EXCEPT ![w] = B!NoWrite]
      /\ UNCHANGED <<rows, poll, form, seeded, hydrating, settle, lastSaved, timer, open, doubt>>
  BY DEF B!Fails, B!page
<1>2. /\ write' \in [B!Pages -> B!Writes]
      /\ \A v \in B!Pages : v # w => write'[v] = write[v]
      /\ write'[w].at = "free"
      /\ \A v \in B!Pages : write'[v].at # "free" => v # w /\ B!CanSave(write'[v].opts)
  BY <1>1, Ended DEF EditorInv
<1>3. EditorTypes'
  BY <1>1, <1>2 DEF EditorInv, EditorTypes
<1>4. doubt
  BY <1>1 DEF EditorInv, Writing
<1>5. Writing'
  <2>1. ASSUME NEW v \in B!Pages, write'[v].at # "free", write'[v].alone PROVE FALSE
    <3>1. v # w /\ Alone(v)
      BY <1>2, <2>1 DEF EditorInv, Writing
    <3> QED BY <1>1, <3>1 DEF Alone
  <2>2. \A v \in B!Pages : write'[v].at = "failed" => doubt'
    BY <1>1, <1>4
  <2>3. ~ seeded' => timer' = NoData /\ \A v \in B!Pages : write'[v].at = "free"
    BY <1>1 DEF EditorInv, Writing
  <2> QED BY <1>1, <1>4, <2>1, <2>2, <2>3 DEF EditorInv, Writing
<1> QED BY <1>1, <1>3, <1>4, <1>5 DEF EditorInv

LEMMA DoneSteps ==
    ASSUME EditorInv, NEW w \in B!Pages, write[w].at = "saved", write' = [write EXCEPT ![w] = B!NoWrite],
           lastSaved' = write[w].opts, EditorTypes', UNCHANGED <<rows, form, seeded>>,
           \/ timer' = timer /\ open' = open
              /\ doubt' = IF write[w].alone /\ form = write[w].opts THEN FALSE ELSE doubt
           \/ timer' = NoData /\ open' = FALSE /\ doubt' = doubt
    PROVE  EditorInv'
<1>1. /\ write' \in [B!Pages -> B!Writes]
      /\ \A v \in B!Pages : v # w => write'[v] = write[v]
      /\ write'[w].at = "free"
      /\ \A v \in B!Pages : write'[v].at # "free" => v # w /\ B!CanSave(write'[v].opts)
  BY Ended DEF EditorInv
<1>2. seeded /\ (write[w].alone => Alone(w))
  BY DEF EditorInv, Writing
<1>3. write[w].alone => \A v \in B!Pages : write'[v].at = "free"
  BY <1>1, <1>2 DEF Alone
<1>4. doubt' = doubt \/ write[w].alone
  OBVIOUS
<1>5. Writing'
  <2>1. ASSUME NEW v \in B!Pages, write'[v].at # "free", write'[v].alone PROVE FALSE
    <3>1. v # w /\ Alone(v)
      BY <1>1, <2>1 DEF EditorInv, Writing
    <3> QED BY <3>1 DEF Alone
  <2>2. ASSUME NEW v \in B!Pages, write'[v].at = "failed" PROVE doubt'
    <3>1. v # w /\ write[v].at = "failed" /\ ~ write[w].alone
      BY <1>1, <1>3, <2>2
    <3>2. doubt
      BY <3>1 DEF EditorInv, Writing
    <3> QED BY <1>4, <3>1, <3>2
  <2>3. ASSUME ~ doubt', NEW v \in B!Pages, write'[v].at # "free" PROVE write'[v].alone
    <3>1. ~ write[w].alone /\ v # w
      BY <1>1, <1>3, <2>3
    <3>2. ~ doubt
      BY <1>4, <2>3, <3>1
    <3> QED BY <3>1, <3>2 DEF EditorInv, Writing
  <2>4. timer' # NoData => timer' = form' /\ B!CanSave(form')
    BY DEF EditorInv, Writing
  <2> QED BY <1>2, <2>1, <2>2, <2>3, <2>4 DEF Writing
<1>6. ASSUME ~ doubt', open', seeded' PROVE Settled'
  <2>1. open /\ timer' = timer
    BY <1>6
  <2>2. write[w].alone
    <3>1. ASSUME ~ write[w].alone PROVE FALSE
      <4>1. ~ doubt
        BY <1>4, <1>6, <3>1
      <4> QED BY <3>1, <4>1 DEF EditorInv, Writing
    <3> QED BY <3>1
  <2>3. B!Held(rows) = write[w].opts
    BY <1>2, <2>2 DEF Alone
  <2>4. B!Held(rows)' = lastSaved'
    BY <2>3 DEF B!Held
  <2>5. B!CanSave(form) /\ timer = NoData => form = write[w].opts
    <3>1. CASE form = write[w].opts
      BY <3>1
    <3>2. CASE form # write[w].opts
      <4>1. ~ doubt
        BY <1>6, <2>1, <3>2
      <4>2. Settled
        BY <1>2, <2>1, <4>1 DEF EditorInv
      <4> QED BY <4>2 DEF Settled
    <3> QED BY <3>1, <3>2
  <2> QED BY <1>3, <2>1, <2>2, <2>4, <2>5 DEF Settled
<1> QED BY <1>5, <1>6 DEF EditorInv

LEMMA AutosavedSteps == ASSUME EditorInv, NEW w \in B!Pages, B!AutosaveDone(w) PROVE EditorInv'
<1>1. /\ write[w].at = "saved" /\ write' = [write EXCEPT ![w] = B!NoWrite] /\ lastSaved' = write[w].opts
      /\ UNCHANGED <<rows, form, seeded, hydrating, timer, open>>
      /\ doubt' = IF write[w].alone /\ form = write[w].opts THEN FALSE ELSE doubt
      /\ poll' = B!Patched(poll, write[w].opts)
      /\ settle' = (settle /\ ~ (open /\ poll'.data # poll.data))
  BY DEF B!AutosaveDone, B!Settles
<1>2. /\ write' \in [B!Pages -> B!Writes]
      /\ \A v \in B!Pages : write'[v].at # "free" => B!CanSave(write'[v].opts)
  BY <1>1, Ended DEF EditorInv
<1>3. write[w].opts \in B!Forms /\ write[w].opts \in B!Options
  <2>1. write[w] \in B!Writes /\ B!CanSave(write[w].opts)
    BY <1>1 DEF EditorInv, EditorTypes
  <2>2. write[w].opts \in B!Forms
    BY <2>1 DEF B!Writes
  <2> QED BY <2>1, <2>2, EditorApart
<1>4. poll' \in B!Queries(B!Options) /\ (poll'.fetch = "answered" => poll'.reply \in B!Options)
  BY <1>1, <1>3, EditorQuery DEF EditorInv, EditorTypes
<1>5. settle' \in BOOLEAN /\ doubt' \in BOOLEAN
  <2>1. doubt \in BOOLEAN
    BY DEF EditorInv, EditorTypes
  <2> QED BY <1>1, <2>1
<1>6. EditorTypes'
  BY <1>1, <1>2, <1>3, <1>4, <1>5 DEF EditorInv, EditorTypes
<1> QED BY <1>1, <1>6, DoneSteps

LEMMA SavedSteps == ASSUME EditorInv, B!SaveDone PROVE EditorInv'
<1>0. PICK w : w = SaveButton /\ w \in B!Pages
  BY DEF B!Pages
<1>1. /\ write[w].at = "saved" /\ write' = [write EXCEPT ![w] = B!NoWrite] /\ lastSaved' = write[w].opts
      /\ UNCHANGED <<rows, form, seeded, hydrating, settle, doubt>>
      /\ open' = FALSE /\ timer' = NoData
      /\ poll' = B!Refetched(poll)
  BY <1>0 DEF B!SaveDone
<1>2. /\ write' \in [B!Pages -> B!Writes]
      /\ \A v \in B!Pages : write'[v].at # "free" => B!CanSave(write'[v].opts)
  BY <1>0, <1>1, Ended DEF EditorInv
<1>3. write[w].opts \in B!Forms
  BY <1>0 DEF EditorInv, EditorTypes, B!Writes
<1>4. poll' \in B!Queries(B!Options) /\ (poll'.fetch = "answered" => poll'.reply \in B!Options)
  <2>1. {} \in B!Options
    BY DEF B!Options
  <2> QED BY <1>1, <2>1, EditorQuery DEF EditorInv, EditorTypes
<1>6. EditorTypes'
  BY <1>1, <1>2, <1>3, <1>4 DEF EditorInv, EditorTypes
<1> QED BY <1>0, <1>1, <1>6, DoneSteps

LEMMA EditorNext == EditorInv /\ [B!Next]_B!vars => EditorInv'
<1> SUFFICES ASSUME EditorInv, [B!Next]_B!vars PROVE EditorInv'
  OBVIOUS
<1>1. CASE UNCHANGED B!vars
  BY <1>1 DEF B!vars, B!page, EditorInv, EditorTypes, Writing, Alone, Settled, B!Held, B!Busy
<1>2. ASSUME NEW t \in Texts \cup {Blank}, B!Edit(form \cup {t}) \/ B!Edit(form \ {t}) PROVE EditorInv'
  <2>1. form \cup {t} \in B!Forms /\ form \ {t} \in B!Forms
    BY DEF EditorInv, EditorTypes, B!Forms
  <2> QED BY <1>2, <2>1, EditSteps
<1> QED BY <1>1, <1>2, PollSteps, StoreSteps, SaveSteps, AutosaveSteps, TitleSteps, LeaveSteps, DeleteSteps,
           CommitSteps, CoHostSteps, LoseSteps, FailSteps, AutosavedSteps, SavedSteps DEF B!Next

LEMMA EditorGives == EditorInv /\ EditorBounds => B!TypeOK /\ B!AutosavedAtRest
<1> SUFFICES ASSUME EditorInv, EditorBounds PROVE B!TypeOK /\ B!AutosavedAtRest
  OBVIOUS
<1>1. B!TypeOK
  BY DEF EditorInv, EditorTypes, EditorBounds, B!TypeOK, B!Busy
<1>2. B!AutosavedAtRest
  BY DEF EditorInv, Settled, B!AutosavedAtRest, B!Busy
<1> QED BY <1>1, <1>2

-----------------------------------------------------------------------------
(* Word clouds.                                                                *)
(* What a handler has read is a setting; one that clusters for a viewer found the   *)
(* clustering on; and unless one wrote across another the settings are as said.     *)
Gestures == {"on", "off", "redo", "merge", "split"}
CloudInv ==
    /\ \A t \in D!Tools : call[t].at = "sent" => call[t].kind \in Gestures
    /\ call = [t \in D!Tools |-> call[t]]
    /\ \A t \in D!Tools : job[t] # D!NoJob => job[t].kind \in Gestures
    /\ choice.on \in BOOLEAN /\ crossed \in BOOLEAN
    /\ job = [k \in D!Callers |-> job[k]]
    /\ \A k \in D!Callers : job[k] # D!NoJob => job[k].choice.on \in BOOLEAN
    /\ \A v \in D!Viewers : job[v] # D!NoJob => job[v].choice.on = TRUE
    /\ ~ crossed => D!Told(choice) = said

LEMMA CloudInit == D!Init => CloudInv
<1> SUFFICES ASSUME D!Init PROVE CloudInv
  OBVIOUS
<1>1. choice.on \in BOOLEAN
  <2>1. \/ choice = D!Settings(FALSE, NoData, 0, <<>>)
        \/ \E g \in Groupings : choice = D!Settings(TRUE, D!Clustered(raw, g), D!Total(raw), <<>>)
    BY DEF D!Init
  <2>2. choice.on = FALSE \/ choice.on = TRUE
    BY <2>1 DEF D!Settings
  <2> QED BY <2>2
<1>2. job = [k \in D!Callers |-> D!NoJob] /\ D!Told(choice) = said /\ crossed = FALSE
  BY DEF D!Init, D!Told
<1>3. call = [t \in D!Tools |-> D!NoCall]
  BY DEF D!Init
<1> QED BY <1>1, <1>2, <1>3 DEF CloudInv, D!Viewers, D!Callers, D!Tools, D!NoCall

LEMMA ReadsKeeps == ASSUME CloudInv, NEW t \in D!Tools, D!Reads(t) PROVE CloudInv'
<1>1. job' = [job EXCEPT ![t] = [kind |-> call[t].kind, choice |-> choice, raw |-> raw]]
      /\ choice' = choice /\ said' = said /\ crossed' = crossed /\ call' = call
  BY DEF D!Reads, D!past, D!pages
<1>2. t \in D!Callers /\ t \notin D!Viewers
  BY DEF D!Tools, D!Callers, D!Viewers
<1>3. D!Viewers \subseteq D!Callers /\ D!Tools \subseteq D!Callers
  BY DEF D!Callers
<1>4. call[t].kind \in Gestures
  BY DEF D!Reads, CloudInv
<1> QED BY <1>1, <1>2, <1>3, <1>4 DEF CloudInv, D!Told

(* What a handler that may have to cluster knows after each of its three reads.     *)
ReadOf(n, j, c, r) ==
    \/ n = D!NoJob
    \/ n.kind = "settings" /\ n.choice = c /\ c.on
    \/ /\ n.kind = "total" /\ j.kind = "settings"
       /\ n.choice = j.choice /\ n.count = D!Total(r) /\ ~ D!Computed(n)
    \/ /\ n.kind = "words" /\ j.kind = "total"
       /\ n.choice = j.choice /\ n.count = j.count /\ n.raw = r

LEMMA HandlerReads ==
    ASSUME NEW v \in D!Viewers, D!Handles(v), job = [k \in D!Callers |-> job[k]]
    PROVE  /\ raw' = raw /\ choice' = choice /\ vote' = vote /\ pending' = pending
           /\ call' = call /\ cache' = cache /\ inbox' = inbox /\ linked' = linked
           /\ said' = said /\ crossed' = crossed /\ spoiled' = spoiled /\ leftClouds' = leftClouds
           /\ v \in D!Callers /\ v \notin D!Tools
           /\ \E n : /\ job' = [x \in D!Callers |-> IF x = v THEN n ELSE job[x]]
                    /\ ReadOf(n, job[v], choice, raw)
<1>1. /\ raw' = raw /\ choice' = choice /\ vote' = vote /\ pending' = pending
      /\ call' = call /\ cache' = cache /\ inbox' = inbox /\ linked' = linked
      /\ said' = said /\ crossed' = crossed /\ spoiled' = spoiled /\ leftClouds' = leftClouds
  BY DEF D!Handles, D!StartsClustering, D!CountsResponses, D!ReadsWords, D!pages, D!past
<1>2. v \in D!Callers /\ v \notin D!Tools
  BY DEF D!Callers, D!Viewers, D!Tools
<1>3. PICK n : job' = [job EXCEPT ![v] = n] /\ ReadOf(n, job[v], choice, raw)
  <2>1. CASE D!StartsClustering(v)
    <3>1. PICK n : n = D!Reading("settings", choice, 0)
      OBVIOUS
    <3>2. n.kind = "settings" /\ n.choice = choice
      BY <3>1 DEF D!Reading
    <3> QED BY <2>1, <3>1, <3>2 DEF D!StartsClustering, ReadOf
  <2>2. CASE D!CountsResponses(v)
    <3>1. PICK n : n = D!Reading("total", job[v].choice, D!Total(raw))
      OBVIOUS
    <3>2. n.kind = "total" /\ n.choice = job[v].choice /\ n.count = D!Total(raw)
      BY <3>1 DEF D!Reading
    <3>3. job' = [job EXCEPT ![v] = IF D!Computed(n) THEN D!NoJob ELSE n] /\ job[v].kind = "settings"
      BY <2>2, <3>1 DEF D!CountsResponses
    <3>4. CASE D!Computed(n)
      BY <3>3, <3>4 DEF ReadOf
    <3>5. CASE ~ D!Computed(n)
      BY <3>2, <3>3, <3>5 DEF ReadOf
    <3> QED BY <3>4, <3>5
  <2>3. CASE D!ReadsWords(v)
    <3>1. PICK n : n = D!Reading("words", job[v].choice, job[v].count)
      OBVIOUS
    <3>2. n.kind = "words" /\ n.choice = job[v].choice /\ n.count = job[v].count /\ n.raw = raw
      BY <3>1 DEF D!Reading
    <3> QED BY <2>3, <3>1, <3>2 DEF D!ReadsWords, ReadOf
  <2> QED BY <2>1, <2>2, <2>3 DEF D!Handles
<1>4. job' = [x \in D!Callers |-> IF x = v THEN n ELSE job[x]]
  BY <1>2, <1>3
<1> QED BY <1>1, <1>2, <1>3, <1>4

LEMMA HandlesKeeps == ASSUME CloudInv, NEW v \in D!Viewers, D!Handles(v) PROVE CloudInv'
<1>1. /\ choice' = choice /\ said' = said /\ crossed' = crossed /\ call' = call
      /\ v \in D!Callers /\ v \notin D!Tools
  BY HandlerReads DEF CloudInv
<1>2. PICK n : job' = [x \in D!Callers |-> IF x = v THEN n ELSE job[x]] /\ ReadOf(n, job[v], choice, raw)
  BY HandlerReads DEF CloudInv
<1>3. n # D!NoJob => n.choice.on = TRUE
  <2>1. D!NoJob.kind = "none"
    BY DEF D!NoJob
  <2>2. job[v] # D!NoJob => job[v].choice.on = TRUE
    BY DEF CloudInv
  <2>3. choice.on => choice.on = TRUE
    BY DEF CloudInv
  <2> QED BY <1>2, <2>1, <2>2, <2>3 DEF ReadOf
<1>4. D!Viewers \subseteq D!Callers /\ D!Tools \subseteq D!Callers
  BY DEF D!Callers
<1> QED BY <1>1, <1>2, <1>3, <1>4 DEF CloudInv, D!Told

LEMMA StoreKeeps ==
    ASSUME CloudInv, NEW v \in D!Viewers, NEW g \in Groupings, D!StoresCloud(v, g)
    PROVE CloudInv'
<1> DEFINE j == job[v]
<1>1. /\ job' = [job EXCEPT ![v] = D!NoJob] /\ j # D!NoJob /\ said' = said /\ call' = call
      /\ choice' = D!Recomputed(j, g)
  BY DEF D!StoresCloud, D!NoJob
<1>2. crossed' = (crossed \/ D!Crosses(j))
  BY DEF D!StoresCloud
<1>3. choice'.on = TRUE /\ choice'.merges = j.choice.merges
  BY <1>1 DEF D!Recomputed, D!Settings, D!Merges
<1>4. j.choice.on = TRUE
  BY <1>1 DEF CloudInv
<1>5. D!Told(choice)' = D!Told(j.choice)
  BY <1>3, <1>4 DEF D!Told
<1>6. ~ crossed' => ~ crossed /\ D!Told(j.choice) = D!Told(choice)
  BY <1>2 DEF D!Crosses
<1>7. crossed' \in BOOLEAN
  BY <1>2
<1>8. v \in D!Callers /\ D!Viewers \subseteq D!Callers /\ D!Tools \subseteq D!Callers
  BY DEF D!Callers
<1> HIDE DEF j
<1> QED BY <1>1, <1>3, <1>5, <1>6, <1>7, <1>8 DEF CloudInv

LEMMA SettingsOn ==
    ASSUME NEW j, j.choice.on \in BOOLEAN, NEW s, NEW t, NEW g, j.kind \in Gestures
    PROVE  D!After(j, s, t, g).on \in BOOLEAN
<1>1. CASE j.kind = "off"
  BY <1>1 DEF D!After, D!Settings
<1>2. CASE j.kind = "redo"
  BY <1>2 DEF D!After, D!Settings
<1>3. CASE j.kind = "on"
  BY <1>3 DEF D!After, D!Settings
<1>4. CASE j.kind = "merge"
  BY <1>4 DEF D!After, D!Settings
<1>5. CASE j.kind = "split"
  BY <1>5 DEF D!After, D!Settings
<1> QED BY <1>1, <1>2, <1>3, <1>4, <1>5 DEF Gestures

LEMMA CommitKeeps ==
    ASSUME CloudInv, NEW t \in D!Tools, NEW g \in Groupings, D!Commits(t, g) PROVE CloudInv'
<1> DEFINE j   == job[t]
           new == D!After(j, call[t].source, call[t].target, g)
<1>1. j # D!NoJob /\ job' = [job EXCEPT ![t] = D!NoJob]
  BY DEF D!Commits
<1>2. t \in D!Callers /\ D!Viewers \subseteq D!Callers /\ D!Tools \subseteq D!Callers
  BY DEF D!Callers
<1>3. j.choice.on \in BOOLEAN /\ j.kind \in Gestures
  BY <1>1, <1>2 DEF CloudInv
<1>4. new.on \in BOOLEAN
  <2> HIDE DEF j
  <2> QED BY <1>3, SettingsOn
<1>5. /\ call' = [x \in D!Tools |-> call'[x]]
      /\ \A x \in D!Tools : call'[x].at = "sent" => call'[x].kind \in Gestures
  <2>1. CASE D!Refused(j, call[t].source, call[t].target)
    <3>1. call' = [call EXCEPT ![t].at = "failed"]
      BY <2>1 DEF D!Commits
    <3> QED BY <3>1 DEF CloudInv
  <2>2. CASE ~ D!Refused(j, call[t].source, call[t].target)
    <3>1. PICK r : call' = [call EXCEPT ![t].at = "ok", ![t].reply = r]
      BY <2>2 DEF D!Commits
    <3>2. call' = [x \in D!Tools |-> IF x = t THEN [[call[t] EXCEPT !.at = "ok"] EXCEPT !.reply = r] ELSE call[x]]
      BY <3>1 DEF CloudInv
    <3>3. [[call[t] EXCEPT !.at = "ok"] EXCEPT !.reply = r].at # "sent"
      OBVIOUS
    <3> QED BY <3>2, <3>3 DEF CloudInv
  <2> QED BY <2>1, <2>2
<1>6. choice'.on \in BOOLEAN /\ crossed' \in BOOLEAN /\ (~ crossed' => D!Told(choice)' = said')
  <2>1. CASE D!Refused(j, call[t].source, call[t].target)
    BY <2>1 DEF D!Commits, CloudInv, D!Told
  <2>2. CASE ~ D!Refused(j, call[t].source, call[t].target)
    <3>1. choice' = new /\ said' = D!Told(new)
      BY <2>2 DEF D!Commits
    <3>2. crossed' = (crossed \/ D!Crosses(j))
      BY <2>2 DEF D!Commits
    <3>3. crossed' \in BOOLEAN
      BY <3>2
    <3> QED BY <1>4, <3>1, <3>3 DEF D!Told
  <2> QED BY <2>1, <2>2
<1> HIDE DEF j
<1> QED BY <1>1, <1>2, <1>5, <1>6 DEF CloudInv

LEMMA CallKeeps ==
    ASSUME CloudInv, NEW t \in D!Tools,
           \/ \E kind \in Gestures : \E s, x : D!Starts(t, kind, s, x)
           \/ D!LoseAnswer(t) \/ D!Settles(t)
    PROVE  CloudInv'
<1>1. choice' = choice /\ crossed' = crossed /\ said' = said /\ job' = job
  BY DEF D!Starts, D!LoseAnswer, D!Settles, D!server, D!past
<1>2. PICK r : call' = [call EXCEPT ![t] = r] /\ (r.at = "sent" => r.kind \in Gestures)
  <2>1. ASSUME NEW kind \in Gestures, NEW s, NEW x, D!Starts(t, kind, s, x)
        PROVE  \E r : call' = [call EXCEPT ![t] = r] /\ (r.at = "sent" => r.kind \in Gestures)
    <3> DEFINE r == [D!NoCall EXCEPT !.at = "sent", !.kind = kind, !.source = s, !.target = x]
    <3>1. r.kind = kind
      BY DEF D!NoCall
    <3>2. call' = [call EXCEPT ![t] = r]
      BY <2>1 DEF D!Starts
    <3> HIDE DEF r
    <3> QED BY <3>1, <3>2
  <2>2. CASE D!LoseAnswer(t)
    <3> DEFINE r == [call[t] EXCEPT !.at = "failed"]
    <3>1. call' = [call EXCEPT ![t] = r] /\ r.at # "sent"
      BY <2>2 DEF D!LoseAnswer
    <3> QED BY <3>1
  <2>3. CASE D!Settles(t)
    <3>1. call' = [call EXCEPT ![t] = D!NoCall] /\ D!NoCall.at # "sent"
      BY <2>3 DEF D!Settles, D!NoCall
    <3> QED BY <3>1
  <2> QED BY <2>1, <2>2, <2>3
<1> QED BY <1>1, <1>2 DEF CloudInv, D!Told

LEMMA OtherKeeps ==
    ASSUME CloudInv,
           \/ \E p \in Voters : D!Counts(p) \/ D!ReadsTotals(p) \/ D!Schedules(p)
           \/ D!Broadcasts
           \/ \E v \in D!Viewers : \/ D!Deliver(v) \/ D!LoseSocket(v) \/ D!Reconnect(v)
                                   \/ D!IntervalFires(v) \/ D!Serves(v) \/ D!Stores(v)
           \/ UNCHANGED D!vars
    PROVE  CloudInv'
<1>1. /\ choice' = choice /\ crossed' = crossed /\ said' = said /\ job' = job
      /\ call' = call
  BY DEF D!Counts, D!ReadsTotals, D!Schedules, D!Broadcasts, D!Deliver, D!LoseSocket,
         D!Reconnect,
         D!IntervalFires, D!Serves, D!Stores, D!server, D!pages, D!past, D!vars
<1> QED BY <1>1 DEF CloudInv, D!Told

LEMMA CloudNext == CloudInv /\ [D!Next]_D!vars => CloudInv'
<1> SUFFICES ASSUME CloudInv, [D!Next]_D!vars PROVE CloudInv'
  OBVIOUS
<1>1. "button" \in D!Tools /\ "drag" \in D!Tools
  BY DEF D!Tools
<1>2. {"on", "off", "redo", "merge", "split"} \subseteq Gestures
  BY DEF Gestures
<1>3. ASSUME NEW kind \in {"on", "off", "redo"}, D!Press(kind) PROVE CloudInv'
  BY <1>1, <1>2, <1>3, CallKeeps DEF D!Press
<1>4. CASE D!Drag
  BY <1>1, <1>2, <1>4, CallKeeps DEF D!Drag
<1>5. CASE D!Split
  BY <1>1, <1>2, <1>5, CallKeeps DEF D!Split
<1> QED BY <1>3, <1>4, <1>5, ReadsKeeps, HandlesKeeps, StoreKeeps, CommitKeeps,
    CallKeeps,
           OtherKeeps DEF D!Next

LEMMA CloudGives == CloudInv => D!HostsChoiceKept
BY DEF CloudInv, D!HostsChoiceKept

-----------------------------------------------------------------------------
(* Clouds: the counts of heads' variants.                                        *)
Clouds == UNION {[H -> [Words -> Nat]] : H \in SUBSET Words}

(* Every word of a cloud stands under one head, with at most the votes of r.       *)
Fits(c, r) ==
    /\ c \in Clouds
    /\ \A w \in Words : \A h \in DOMAIN c :
          c[h][w] <= r[w] /\ (c[h][w] > 0 => \A k \in DOMAIN c \ {h} : c[k][w] = 0)

Held(x, r) == x \in [Words -> Nat] /\ \A w \in Words : x[w] <= r[w]

LEMMA CloudIs ==
    ASSUME NEW c PROVE c \in Clouds <=> /\ c = [h \in DOMAIN c |-> c[h]] /\ DOMAIN c \subseteq Words
                                        /\ \A h \in DOMAIN c : c[h] \in [Words -> Nat]
<1>1. ASSUME c \in Clouds
      PROVE  /\ c = [h \in DOMAIN c |-> c[h]] /\ DOMAIN c \subseteq Words
             /\ \A h \in DOMAIN c : c[h] \in [Words -> Nat]
  <2>1. PICK H \in SUBSET Words : c \in [H -> [Words -> Nat]]
    BY <1>1 DEF Clouds
  <2> QED BY <2>1
<1>2. ASSUME c = [h \in DOMAIN c |-> c[h]], DOMAIN c \subseteq Words,
             \A h \in DOMAIN c : c[h] \in [Words -> Nat]
      PROVE  c \in Clouds
  <2>1. c \in [DOMAIN c -> [Words -> Nat]]
    BY <1>2
  <2>2. DOMAIN c \in SUBSET Words
    BY <1>2
  <2> HIDE <1>2
  <2> QED BY <2>1, <2>2 DEF Clouds
<1> QED BY <1>1, <1>2

(* More votes only leave more room.                                             *)
LEMMA MoreVotes ==
    ASSUME NEW r \in [Words -> Nat], NEW s, Held(r, s), s \in [Words -> Nat]
    PROVE  /\ \A c : Fits(c, r) => Fits(c, s)
           /\ \A x : Held(x, r) => Held(x, s)
<1>1. ASSUME NEW c, Fits(c, r) PROVE Fits(c, s)
  <2>1. ASSUME NEW w \in Words, NEW h \in DOMAIN c PROVE c[h][w] <= s[w]
    <3>1. c[h][w] \in Nat /\ c[h][w] <= r[w] /\ r[w] <= s[w] /\ r[w] \in Nat /\ s[w] \in Nat
      BY <1>1, CloudIs DEF Fits, Held
    <3> QED BY <3>1
  <2> QED BY <1>1, <2>1 DEF Fits
<1>2. ASSUME NEW x, Held(x, r) PROVE Held(x, s)
  <2>1. ASSUME NEW w \in Words PROVE x[w] <= s[w]
    <3>1. x[w] \in Nat /\ x[w] <= r[w] /\ r[w] <= s[w] /\ r[w] \in Nat /\ s[w] \in Nat
      BY <1>2 DEF Held
    <3> QED BY <3>1
  <2> QED BY <1>2, <2>1 DEF Held
<1> QED BY <1>1, <1>2

LEMMA FitsHeld ==
    ASSUME NEW r \in [Words -> Nat], NEW x, Held(x, r), NEW c, Fits(c, x) PROVE Fits(c, r)
BY MoreVotes DEF Held

(* The number of responses bounds each word's.                                     *)
LEMMA TotalBounds ==
    ASSUME NEW r \in [Words -> Nat]
    PROVE  /\ D!Total(r) \in Nat /\ D!Total(r) = Cardinality(Ballots(r, Words))
           /\ IsFiniteSet(Ballots(r, Words)) /\ \A w \in Words : r[w] <= D!Total(r)
<1>1. IsFiniteSet(Words)
  BY PartsAssumption DEF PartsAssumption, D!CloudAssumption, D!IsFiniteSet, IsFiniteSet
<1>2. IsFiniteSet(Ballots(r, Words)) /\ Cardinality(Ballots(r, Words)) \in Nat
  BY <1>1, BallotsFinite
<1>3. D!Total(r) = Cardinality(Ballots(r, Words))
  BY DEF D!Total, D!Cardinality, Cardinality, Ballots
<1>4. ASSUME NEW w \in Words PROVE r[w] <= D!Total(r)
  <2>1. PICK part1, whole : part1 = Ballots(r, {w}) /\ whole = Ballots(r, Words)
    OBVIOUS
  <2>2. part1 \subseteq whole
    BY <2>1, BallotIn
  <2>3. Cardinality(part1) <= Cardinality(whole) /\ Cardinality(part1) \in Nat
    BY <1>2, <2>1, <2>2, FS_Subset, FS_CardinalityType
  <2>4. Cardinality(part1) = r[w]
    <3>1. part1 = {w} \X (1 .. r[w])
      BY <2>1 DEF Ballots
    <3>2. 1 \in Int /\ r[w] \in Int /\ r[w] \in Nat
      OBVIOUS
    <3>3. IsFiniteSet(1 .. r[w]) /\ Cardinality(1 .. r[w]) = IF 1 > r[w] THEN 0 ELSE r[w] - 1 + 1
      BY <3>2, FS_Interval
    <3>4. IsFiniteSet({w}) /\ Cardinality({w}) = 1
      BY FS_Singleton
    <3>5. Cardinality(part1) = 1 * Cardinality(1 .. r[w])
      BY <3>1, <3>3, <3>4, FS_Product
    <3>6. PICK n, k : n = Cardinality(1 .. r[w]) /\ k = r[w]
      OBVIOUS
    <3>7. k \in Nat /\ n = IF 1 > k THEN 0 ELSE k - 1 + 1
      BY <3>2, <3>3, <3>6
    <3>8. n = k /\ 1 * n = n
      BY <3>7
    <3> QED BY <3>5, <3>6, <3>8
  <2> QED BY <1>3, <2>1, <2>3, <2>4
<1> QED BY <1>2, <1>3, <1>4

LEMMA TotalGrows ==
    ASSUME NEW r \in [Words -> Nat], NEW s \in [Words -> Nat], Held(r, s)
    PROVE  D!Total(r) <= D!Total(s)
<1>1. Ballots(r, Words) \subseteq Ballots(s, Words)
  <2> SUFFICES ASSUME NEW b \in Ballots(r, Words) PROVE b \in Ballots(s, Words)
    OBVIOUS
  <2>1. PICK w \in Words : \E n \in 1 .. r[w] : b = <<w, n>>
    BY BallotIn
  <2>2. PICK n \in 1 .. r[w] : b = <<w, n>>
    BY <2>1
  <2>3. r[w] \in Nat /\ s[w] \in Nat /\ r[w] <= s[w]
    BY DEF Held
  <2>4. n \in 1 .. s[w]
    BY <2>3
  <2> QED BY <2>2, <2>4, BallotIn
<1> QED BY <1>1, TotalBounds, FS_Subset
-----------------------------------------------------------------------------
(* What the handlers do to a cloud.                                               *)
LEMMA RawFits == ASSUME NEW r \in [Words -> Nat] PROVE Fits(D!RawCloud(r), r)
<1> DEFINE c == D!RawCloud(r)
<1>1. /\ DOMAIN c \subseteq Words
      /\ \A h \in DOMAIN c : c[h] = [v \in Words |-> IF v = h THEN r[h] ELSE 0]
      /\ c = [h \in DOMAIN c |-> c[h]]
  BY DEF D!RawCloud, D!Only
<1> HIDE DEF c
<1>2. \A h \in DOMAIN c : c[h] \in [Words -> Nat]
  BY <1>1
<1>3. \A h \in DOMAIN c : \A w \in Words : c[h][w] = IF w = h THEN r[h] ELSE 0
  BY <1>1
<1>4. \A w \in Words : \A h \in DOMAIN c : c[h][w] <= r[w]
  BY <1>1, <1>3
<1>5. \A w \in Words : \A h \in DOMAIN c : c[h][w] > 0 => \A k \in DOMAIN c \ {h} : c[k][w] = 0
  BY <1>1, <1>3
<1>6. c \in Clouds
  BY <1>1, <1>2, CloudIs
<1> QED BY <1>4, <1>5, <1>6 DEF Fits, c

LEMMA ClusteredFits ==
    ASSUME NEW r \in [Words -> Nat], NEW g \in [Words -> Words] PROVE Fits(D!Clustered(r, g), r)
<1> DEFINE c == D!Clustered(r, g)
<1>1. /\ DOMAIN c \subseteq Words
      /\ \A h \in DOMAIN c : c[h] = [v \in Words |-> IF g[v] = h THEN r[v] ELSE 0]
      /\ c = [h \in DOMAIN c |-> c[h]]
  BY DEF D!Clustered
<1> HIDE DEF c
<1>2. \A h \in DOMAIN c : c[h] \in [Words -> Nat]
  BY <1>1
<1>3. \A h \in DOMAIN c : \A w \in Words : c[h][w] = IF g[w] = h THEN r[w] ELSE 0
  BY <1>1
<1>4. \A w \in Words : \A h \in DOMAIN c : c[h][w] <= r[w]
  BY <1>1, <1>3
<1>5. \A w \in Words : \A h \in DOMAIN c : c[h][w] > 0 => \A k \in DOMAIN c \ {h} : c[k][w] = 0
  BY <1>1, <1>3
<1>6. c \in Clouds
  BY <1>1, <1>2, CloudIs
<1> QED BY <1>4, <1>5, <1>6 DEF Fits, c

LEMMA MergedFits ==
    ASSUME NEW r \in [Words -> Nat], NEW c, Fits(c, r), NEW s \in DOMAIN c, NEW t \in DOMAIN c, s # t
    PROVE  Fits(D!MergedInto(c, s, t), r)
<1> DEFINE n == D!MergedInto(c, s, t)
<1>1. /\ DOMAIN c \subseteq Words /\ \A h \in DOMAIN c : c[h] \in [Words -> Nat]
  BY CloudIs DEF Fits
<1>2. /\ DOMAIN n = DOMAIN c \ {s} /\ n = [h \in DOMAIN n |-> n[h]]
      /\ n[t] = [v \in Words |-> c[t][v] + c[s][v]]
      /\ \A h \in DOMAIN n \ {t} : n[h] = c[h]
  BY DEF D!MergedInto, D!Plus
<1> HIDE DEF n
<1>3. \A h \in DOMAIN n : n[h] \in [Words -> Nat]
  BY <1>1, <1>2
<1>4. n \in Clouds
  BY <1>1, <1>2, <1>3, CloudIs
<1>5. ASSUME NEW w \in Words, NEW h \in DOMAIN n
      PROVE  n[h][w] <= r[w] /\ (n[h][w] > 0 => \A k \in DOMAIN n \ {h} : n[k][w] = 0)
  <2>1. /\ \A k \in DOMAIN c : c[k][w] \in Nat /\ c[k][w] <= r[w]
        /\ \A k \in DOMAIN c : c[k][w] > 0 => \A l \in DOMAIN c \ {k} : c[l][w] = 0
        /\ r[w] \in Nat
    BY <1>1 DEF Fits
  <2>2. n[t][w] = c[t][w] + c[s][w] /\ \A k \in DOMAIN n \ {t} : n[k][w] = c[k][w]
    BY <1>2
  <2>3. c[s][w] = 0 \/ c[t][w] = 0
    BY <2>1
  <2>4. n[t][w] = c[t][w] \/ n[t][w] = c[s][w]
    BY <2>1, <2>2, <2>3
  <2>5. n[h][w] <= r[w]
    BY <1>2, <2>1, <2>2, <2>4
  <2>6. ASSUME n[h][w] > 0, NEW k \in DOMAIN n \ {h} PROVE n[k][w] = 0
    <3>1. CASE h = t
      <4>1. k \in DOMAIN c /\ k # t /\ k # s /\ n[k][w] = c[k][w]
        BY <1>2, <2>2, <3>1
      <4>2. c[t][w] > 0 \/ c[s][w] > 0
        BY <2>4, <2>6, <3>1
      <4> QED BY <2>1, <4>1, <4>2
    <3>2. CASE h # t
      <4>1. h \in DOMAIN c /\ h # s /\ c[h][w] > 0
        BY <1>2, <2>2, <2>6, <3>2
      <4>2. \A l \in DOMAIN c \ {h} : c[l][w] = 0
        BY <2>1, <4>1
      <4> QED BY <1>2, <2>1, <2>2, <3>2, <4>1, <4>2
    <3> QED BY <3>1, <3>2
  <2> QED BY <2>5, <2>6
<1> QED BY <1>4, <1>5 DEF Fits, n

(* What holds of every number up to N but for a least counterexample.              *)
LEMMA LeastOf ==
    ASSUME NEW T \in SUBSET Nat, T # {}
    PROVE  \E x \in T : \A y \in T : x <= y
<1> DEFINE below == {ss \in Nat \X Nat : ss[1] < ss[2]}
<1>1. IsWellFoundedOn(below, Nat)
  BY NatLessThanWellFounded DEF OpToRel
<1> HIDE DEF below
<1>2. PICK x \in T : \A y \in T : ~ (<<y, x>> \in below)
  BY <1>1, WFMin
<1>3. ASSUME NEW y \in T PROVE x <= y
  <2>1. x \in Nat /\ y \in Nat /\ <<y, x>> \in Nat \X Nat /\ <<y, x>>[1] = y /\ <<y, x>>[2] = x
    OBVIOUS
  <2>2. y < x => <<y, x>> \in below
    BY <2>1 DEF below
  <2> QED BY <1>2, <2>1, <2>2
<1> QED BY <1>3

(* _apply_manual_merges, one pair after the other: the result fits as well.         *)
MergesUpTo(c, merges, N, f) ==
    f = [n \in 0 .. N |-> IF n = 0 THEN c ELSE D!MergedIf(f[n - 1], merges[n])]

LEMMA MergesExist ==
    ASSUME NEW c, NEW merges, NEW N \in Nat PROVE \E f : MergesUpTo(c, merges, N, f)
<1> DEFINE T == {n \in Nat : ~ \E f : MergesUpTo(c, merges, n, f)}
<1> SUFFICES ASSUME T # {} PROVE FALSE
  OBVIOUS
<1>1. PICK x \in T : \A y \in T : x <= y
  <2> HIDE DEF T
  <2>1. T \in SUBSET Nat
    BY DEF T
  <2> QED BY <2>1, LeastOf
<1>2. CASE x = 0
  <2>1. PICK f : f = [n \in 0 .. 0 |-> c]
    OBVIOUS
  <2>2. f = [n \in 0 .. 0 |-> IF n = 0 THEN c ELSE D!MergedIf(f[n - 1], merges[n])]
    BY <2>1
  <2>3. MergesUpTo(c, merges, 0, f)
    BY <2>2 DEF MergesUpTo
  <2> QED BY <1>2, <2>3
<1>3. CASE x # 0
  <2>1. x - 1 \in Nat /\ ~ (x <= x - 1) /\ x \in Nat
    BY <1>3
  <2>2. PICK f : MergesUpTo(c, merges, x - 1, f)
    BY <1>1, <2>1
  <2>3. PICK g : g = [n \in 0 .. x |-> IF n = x THEN D!MergedIf(f[x - 1], merges[x]) ELSE f[n]]
    OBVIOUS
  <2>4. /\ DOMAIN f = 0 .. (x - 1) /\ f[0] = c
        /\ \A n \in 0 .. (x - 1) : n # 0 => f[n] = D!MergedIf(f[n - 1], merges[n])
    <3>1. 0 \in 0 .. (x - 1)
      BY <2>1
    <3> QED BY <2>2, <3>1 DEF MergesUpTo
  <2>5. ASSUME NEW n \in 0 .. x
        PROVE  g[n] = IF n = 0 THEN c ELSE D!MergedIf(g[n - 1], merges[n])
    <3>1. CASE n = 0
      BY <1>3, <2>1, <2>3, <2>4, <3>1
    <3>2. CASE n # 0 /\ n # x
      <4>1. n \in 0 .. (x - 1) /\ n - 1 \in 0 .. x /\ n - 1 # x
        BY <2>1, <3>2
      <4>2. g[n] = f[n] /\ g[n - 1] = f[n - 1]
        BY <2>3, <3>2, <4>1
      <4> QED BY <2>4, <3>2, <4>1, <4>2
    <3>3. CASE n = x /\ x # 0
      <4>1. n - 1 \in 0 .. x /\ n - 1 # x /\ n \in 0 .. x
        BY <2>1, <3>3
      <4>2. g[n] = D!MergedIf(f[x - 1], merges[x]) /\ g[n - 1] = f[x - 1]
        BY <2>3, <3>3, <4>1
      <4> QED BY <3>3, <4>2
    <3> QED BY <1>3, <3>1, <3>2, <3>3
  <2>6. g = [n \in 0 .. x |-> IF n = 0 THEN c ELSE D!MergedIf(g[n - 1], merges[n])]
    <3>1. DOMAIN g = 0 .. x /\ g = [n \in 0 .. x |-> g[n]]
      BY <2>3
    <3> HIDE <2>3
    <3> QED BY <2>5, <3>1
  <2>7. MergesUpTo(c, merges, x, g)
    BY <2>6 DEF MergesUpTo
  <2> QED BY <2>7
<1> QED BY <1>2, <1>3

LEMMA AppliedIs ==
    ASSUME NEW c, NEW merges, Len(merges) \in Nat
    PROVE  \E f : MergesUpTo(c, merges, Len(merges), f) /\ D!Applied(c, merges) = f[Len(merges)]
<1>1. PICK f : f = CHOOSE g : MergesUpTo(c, merges, Len(merges), g)
  OBVIOUS
<1>2. MergesUpTo(c, merges, Len(merges), f)
  BY <1>1, MergesExist
<1>3. D!Applied(c, merges) = f[Len(merges)]
  BY <1>1 DEF D!Applied, MergesUpTo
<1> QED BY <1>2, <1>3

LEMMA AppliedFits ==
    ASSUME NEW r \in [Words -> Nat], NEW c, Fits(c, r), NEW merges \in Seq(D!Merging)
    PROVE  Fits(D!Applied(c, merges), r)
<1>1. Len(merges) \in Nat /\ \A n \in 1 .. Len(merges) : merges[n] \in D!Merging
  BY LenProperties, ElementOfSeq
<1>2. PICK f : MergesUpTo(c, merges, Len(merges), f) /\ D!Applied(c, merges) = f[Len(merges)]
  BY <1>1, AppliedIs
<1>3. PICK N : N = Len(merges)
  OBVIOUS
<1>4. /\ N \in Nat /\ f[0] = c
      /\ \A n \in 0 .. N : n # 0 => f[n] = D!MergedIf(f[n - 1], merges[n])
  <2>1. 0 \in 0 .. N
    BY <1>1, <1>3
  <2> QED BY <1>1, <1>2, <1>3, <2>1 DEF MergesUpTo
<1> DEFINE T == {n \in 0 .. N : ~ Fits(f[n], r)}
<1>5. T = {}
  <2> SUFFICES ASSUME T # {} PROVE FALSE
    OBVIOUS
  <2>1. PICK x \in T : \A y \in T : x <= y
    <3>1. T \in SUBSET Nat
      BY <1>4
    <3> HIDE DEF T
    <3> QED BY <3>1, LeastOf
  <2>2. x \in 0 .. N /\ x # 0
    BY <1>4
  <2>3. x - 1 \in 0 .. N /\ ~ (x <= x - 1) /\ x \in 1 .. N
    BY <1>4, <2>2
  <2>4. Fits(f[x - 1], r)
    BY <2>1, <2>3
  <2>5. f[x] = D!MergedIf(f[x - 1], merges[x])
    BY <1>4, <2>2
  <2>6. merges[x] \in D!Merging
    BY <1>1, <1>3, <2>3
  <2>7. PICK old, m : old = f[x - 1] /\ m = merges[x]
    OBVIOUS
  <2>8. Fits(D!MergedIf(old, m), r)
    <3>1. CASE {m[1], m[2]} \subseteq DOMAIN old
      <4>1. m[1] # m[2] /\ m[1] \in DOMAIN old /\ m[2] \in DOMAIN old
        BY <2>6, <2>7, <3>1 DEF D!Merging
      <4>2. Fits(D!MergedInto(old, m[1], m[2]), r)
        BY <2>4, <2>7, <4>1, MergedFits
      <4> QED BY <3>1, <4>2 DEF D!MergedIf
    <3>2. CASE ~ {m[1], m[2]} \subseteq DOMAIN old
      BY <2>4, <2>7, <3>2 DEF D!MergedIf
    <3> QED BY <3>1, <3>2
  <2> QED BY <2>5, <2>7, <2>8
<1>6. N \in 0 .. N
  BY <1>4
<1> QED BY <1>2, <1>3, <1>5, <1>6

(* The merges without one of them.                                               *)
KeptUpTo(merges, m, N, f) ==
    f = [n \in 0 .. N |-> IF n = 0 THEN <<>>
                          ELSE IF merges[n] = m THEN f[n - 1] ELSE Append(f[n - 1], merges[n])]

LEMMA KeptExist ==
    ASSUME NEW merges, NEW m, NEW N \in Nat PROVE \E f : KeptUpTo(merges, m, N, f)
<1> DEFINE T == {n \in Nat : ~ \E f : KeptUpTo(merges, m, n, f)}
           next(old, n) == IF merges[n] = m THEN old ELSE Append(old, merges[n])
<1> SUFFICES ASSUME T # {} PROVE FALSE
  OBVIOUS
<1>1. PICK x \in T : \A y \in T : x <= y
  <2> HIDE DEF T
  <2>1. T \in SUBSET Nat
    BY DEF T
  <2> QED BY <2>1, LeastOf
<1>2. CASE x = 0
  <2>1. PICK f : f = [n \in 0 .. 0 |-> <<>>]
    OBVIOUS
  <2>2. f = [n \in 0 .. 0 |-> IF n = 0 THEN <<>>
                             ELSE IF merges[n] = m THEN f[n - 1] ELSE Append(f[n - 1], merges[n])]
    BY <2>1
  <2>3. KeptUpTo(merges, m, 0, f)
    BY <2>2 DEF KeptUpTo
  <2> QED BY <1>2, <2>3
<1>3. CASE x # 0
  <2>1. x - 1 \in Nat /\ ~ (x <= x - 1) /\ x \in Nat
    BY <1>3
  <2>2. PICK f : KeptUpTo(merges, m, x - 1, f)
    BY <1>1, <2>1
  <2>4. /\ DOMAIN f = 0 .. (x - 1) /\ f[0] = <<>>
        /\ \A n \in 0 .. (x - 1) : n # 0 => f[n] = next(f[n - 1], n)
    <3>1. 0 \in 0 .. (x - 1)
      BY <2>1
    <3> QED BY <2>2, <3>1 DEF KeptUpTo
  <2>3. PICK g : g = [n \in 0 .. x |-> IF n = x THEN next(f[x - 1], x) ELSE f[n]]
    OBVIOUS
  <2>5. ASSUME NEW n \in 0 .. x
        PROVE  g[n] = IF n = 0 THEN <<>> ELSE next(g[n - 1], n)
    <3> HIDE DEF next
    <3>1. CASE n = 0
      BY <1>3, <2>1, <2>3, <2>4, <3>1
    <3>2. CASE n # 0 /\ n # x
      <4>1. n \in 0 .. (x - 1) /\ n - 1 \in 0 .. x /\ n - 1 # x
        BY <2>1, <3>2
      <4>2. g[n] = f[n] /\ g[n - 1] = f[n - 1]
        BY <2>3, <3>2, <4>1
      <4> QED BY <2>4, <3>2, <4>1, <4>2
    <3>3. CASE n = x /\ x # 0
      <4>1. n - 1 \in 0 .. x /\ n - 1 # x /\ n \in 0 .. x
        BY <2>1, <3>3
      <4>2. g[n] = next(f[x - 1], x) /\ g[n - 1] = f[x - 1]
        BY <2>3, <3>3, <4>1
      <4> QED BY <3>3, <4>2
    <3> QED BY <1>3, <3>1, <3>2, <3>3
  <2>6. g = [n \in 0 .. x |-> IF n = 0 THEN <<>> ELSE next(g[n - 1], n)]
    <3>1. DOMAIN g = 0 .. x /\ g = [n \in 0 .. x |-> g[n]]
      BY <2>3
    <3> HIDE <2>3 DEF next
    <3> QED BY <2>5, <3>1
  <2>7. KeptUpTo(merges, m, x, g)
    BY <2>6 DEF KeptUpTo
  <2> QED BY <2>7
<1> QED BY <1>2, <1>3

LEMMA WithoutOK ==
    ASSUME NEW merges \in Seq(D!Merging), NEW m PROVE D!Without(merges, m) \in Seq(D!Merging)
<1>1. Len(merges) \in Nat /\ \A n \in 1 .. Len(merges) : merges[n] \in D!Merging
  BY LenProperties, ElementOfSeq
<1>2. PICK f : f = CHOOSE g : KeptUpTo(merges, m, Len(merges), g)
  OBVIOUS
<1>3. KeptUpTo(merges, m, Len(merges), f)
  BY <1>1, <1>2, KeptExist
<1>4. D!Without(merges, m) = f[Len(merges)]
  BY <1>2 DEF D!Without, KeptUpTo
<1>5. PICK N : N = Len(merges)
  OBVIOUS
<1>6. /\ N \in Nat /\ f[0] = <<>>
      /\ \A n \in 0 .. N : n # 0 =>
            f[n] = IF merges[n] = m THEN f[n - 1] ELSE Append(f[n - 1], merges[n])
  <2>1. 0 \in 0 .. N
    BY <1>1, <1>5
  <2> QED BY <1>1, <1>3, <1>5, <2>1 DEF KeptUpTo
<1> DEFINE T == {n \in 0 .. N : f[n] \notin Seq(D!Merging)}
<1>7. T = {}
  <2> SUFFICES ASSUME T # {} PROVE FALSE
    OBVIOUS
  <2>1. PICK x \in T : \A y \in T : x <= y
    <3>1. T \in SUBSET Nat
      BY <1>6
    <3> HIDE DEF T
    <3> QED BY <3>1, LeastOf
  <2>0. <<>> \in Seq(D!Merging)
    OBVIOUS
  <2>2. x \in 0 .. N /\ x # 0
    BY <1>6, <2>0
  <2>3. x - 1 \in 0 .. N /\ ~ (x <= x - 1) /\ x \in 1 .. N
    BY <1>6, <2>2
  <2>4. f[x - 1] \in Seq(D!Merging)
    BY <2>1, <2>3
  <2>5. f[x] = f[x - 1] \/ f[x] = Append(f[x - 1], merges[x])
    BY <1>6, <2>2
  <2>6. merges[x] \in D!Merging
    BY <1>1, <1>5, <2>3
  <2>7. Append(f[x - 1], merges[x]) \in Seq(D!Merging)
    BY <2>4, <2>6, AppendProperties
  <2> QED BY <2>4, <2>5, <2>7
<1>8. N \in 0 .. N
  BY <1>6
<1> QED BY <1>4, <1>5, <1>7, <1>8
-----------------------------------------------------------------------------
(* A word that stands under a head has a most frequent one.                        *)
LEMMA MostFrequent ==
    ASSUME NEW r \in [Words -> Nat] PROVE \E w \in Words : \A u \in Words : r[w] >= r[u]
<1> DEFINE T == {n \in Nat : \E w \in Words : n = D!Total(r) - r[w]}
<1>1. D!Total(r) \in Nat /\ \A w \in Words : r[w] <= D!Total(r)
  BY TotalBounds
<1>2. \A w \in Words : D!Total(r) - r[w] \in T
  <2> SUFFICES ASSUME NEW w \in Words PROVE D!Total(r) - r[w] \in Nat
    OBVIOUS
  <2>1. PICK n, k : n = D!Total(r) /\ k = r[w]
    OBVIOUS
  <2>2. n \in Nat /\ k \in Nat /\ k <= n
    BY <1>1, <2>1
  <2> QED BY <2>1, <2>2
<1>3. Words # {}
  BY PartsAssumption DEF PartsAssumption, D!CloudAssumption
<1>4. T # {} /\ T \in SUBSET Nat
  BY <1>2, <1>3
<1>5. PICK x \in T : \A y \in T : x <= y
  <2> HIDE DEF T
  <2> QED BY <1>4, LeastOf
<1>6. PICK w \in Words : x = D!Total(r) - r[w]
  OBVIOUS
<1>7. ASSUME NEW u \in Words PROVE r[w] >= r[u]
  <2>1. PICK n, k, l : n = D!Total(r) /\ k = r[w] /\ l = r[u]
    OBVIOUS
  <2>2. n - k <= n - l
    BY <1>2, <1>5, <1>6, <2>1
  <2>3. n \in Nat /\ k \in Nat /\ l \in Nat
    BY <1>1, <2>1
  <2>4. k >= l
    BY <2>2, <2>3
  <2> QED BY <2>1, <2>4
<1> QED BY <1>7

LEMMA ApartFits ==
    ASSUME NEW r \in [Words -> Nat], NEW c, Fits(c, r), NEW h \in DOMAIN c, NEW v \in Words
    PROVE  Fits(D!TakenApart(c, h, v), r)
<1>0. /\ DOMAIN c \subseteq Words /\ \A k \in DOMAIN c : c[k] \in [Words -> Nat]
  BY CloudIs DEF Fits
<1>1. PICK rest : rest = [c[h] EXCEPT ![v] = 0]
  OBVIOUS
<1>2. /\ rest \in [Words -> Nat]
      /\ \A w \in Words : rest[w] = IF w = v THEN 0 ELSE c[h][w]
  BY <1>0, <1>1
<1>3. PICK name : name = IF v # h THEN h
                         ELSE CHOOSE w \in Words : \A u \in Words : rest[w] >= rest[u]
  OBVIOUS
<1>4. name \in Words
  <2>1. (CHOOSE w \in Words : \A u \in Words : rest[w] >= rest[u]) \in Words
    BY <1>2, MostFrequent
  <2> QED BY <1>0, <1>3, <2>1
<1>5. PICK n : n = D!TakenApart(c, h, v)
  OBVIOUS
<1>6. n = [k \in (DOMAIN c \ {h}) \cup {name, v} |->
              IF k = v THEN D!Only(v, c[h][v]) ELSE IF k = name THEN rest ELSE c[k]]
  BY <1>1, <1>3, <1>5 DEF D!TakenApart
<1>7. /\ DOMAIN n = (DOMAIN c \ {h}) \cup {name, v} /\ n = [k \in DOMAIN n |-> n[k]]
      /\ n[v] = [w \in Words |-> IF w = v THEN c[h][v] ELSE 0]
      /\ name # v => n[name] = rest
      /\ \A k \in DOMAIN n \ {v, name} : n[k] = c[k] /\ k \in DOMAIN c /\ k # h
  BY <1>6 DEF D!Only
<1>8. \A k \in DOMAIN n : n[k] \in [Words -> Nat]
  <2> SUFFICES ASSUME NEW k \in DOMAIN n PROVE n[k] \in [Words -> Nat]
    OBVIOUS
  <2>1. CASE k = v
    <3>1. c[h][v] \in Nat
      BY <1>0
    <3> QED BY <1>7, <2>1, <3>1
  <2>2. CASE k # v /\ k = name
    BY <1>2, <1>7, <2>2
  <2>3. CASE k # v /\ k # name
    BY <1>0, <1>7, <2>3
  <2> QED BY <2>1, <2>2, <2>3
<1>9. n \in Clouds
  BY <1>0, <1>4, <1>7, <1>8, CloudIs
<1>10. ASSUME NEW w \in Words, NEW k \in DOMAIN n
       PROVE  n[k][w] <= r[w] /\ (n[k][w] > 0 => \A l \in DOMAIN n \ {k} : n[l][w] = 0)
  <2>1. /\ \A l \in DOMAIN c : c[l][w] \in Nat /\ c[l][w] <= r[w]
        /\ \A l \in DOMAIN c : c[l][w] > 0 => \A x \in DOMAIN c \ {l} : c[x][w] = 0
        /\ r[w] \in Nat /\ 0 <= r[w]
    BY <1>0 DEF Fits
  <2>2. n[v][w] = IF w = v THEN c[h][w] ELSE 0
    BY <1>7
  <2>3. name # v => n[name][w] = IF w = v THEN 0 ELSE c[h][w]
    BY <1>2, <1>7
  <2>4. \A l \in DOMAIN n \ {v, name} : n[l][w] = c[l][w] /\ l \in DOMAIN c /\ l # h
    BY <1>7
  <2>5. n[k][w] <= r[w]
    BY <2>1, <2>2, <2>3, <2>4
  <2>6. ASSUME n[k][w] > 0, NEW l \in DOMAIN n \ {k} PROVE n[l][w] = 0
    <3>1. CASE k \in {v, name}
      <4>1. c[h][w] > 0
        BY <2>2, <2>3, <2>6, <3>1
      <4>2. \A x \in DOMAIN c \ {h} : c[x][w] = 0
        BY <2>1, <4>1
      <4> QED BY <2>2, <2>3, <2>4, <2>6, <3>1, <4>2
    <3>2. CASE k \notin {v, name}
      <4>1. k \in DOMAIN c /\ k # h /\ c[k][w] > 0
        BY <2>4, <2>6, <3>2
      <4>2. \A x \in DOMAIN c \ {k} : c[x][w] = 0
        BY <2>1, <4>1
      <4>3. c[h][w] = 0
        BY <4>1, <4>2
      <4> QED BY <2>2, <2>3, <2>4, <4>2, <4>3
    <3> QED BY <3>1, <3>2
  <2> QED BY <2>5, <2>6
<1> QED BY <1>5, <1>9, <1>10 DEF Fits

Results == [cloud : Clouds, ai : BOOLEAN]
Caches  == [data : Results \cup {NoData}, fetch : D!Fetches, reply : Results \cup {NoData},
            stale : BOOLEAN]
Notices == [kind : {"counts", "changed"}, raw : [Words -> Nat] \cup {NoData}]

Shows(d, r)   == d \in Results \cup {NoData} /\ (d # NoData => Fits(d.cloud, r))
Setting(c, r) ==
    /\ c.on \in BOOLEAN /\ c.at \in 0 .. D!Total(r) /\ c.merges \in Seq(D!Merging)
    /\ c.cache = NoData \/ Fits(c.cache, r)

(* What a handler has read: the words last, when it clusters for a viewer.          *)
JobOf(j, r) ==
    /\ Setting(j.choice, r)
    /\ j.kind \notin {"settings", "total"} => Held(j.raw, r)
    /\ j.kind \in {"total", "words"} => j.count \in 0 .. D!Total(r)

(* A request that merges names two words; a handler runs for a request under way.   *)
Asked(c) == c.at = "sent" => c.kind \in {"on", "off", "redo", "merge", "split"}
                             /\ (c.kind = "merge" => c.source # c.target)
CallOf(c, r) ==
    /\ "at" \in DOMAIN c /\ "reply" \in DOMAIN c
    /\ c.at \in {"free", "sent", "ok", "failed"} /\ Shows(c.reply, r) /\ Asked(c)
    /\ c.at # "free" => "bench" \in D!Open
CacheOf(q, r) == q \in Caches /\ Shows(q.data, r) /\ Shows(q.reply, r)
HeardOf(s, r) ==
    /\ s \in Seq(Notices)
    /\ \A i \in 1 .. Len(s) : s[i].kind = "counts" => Held(s[i].raw, r)

ServerTypes ==
    /\ raw \in [Words -> Nat] /\ Setting(choice, raw)
    /\ vote = [p \in Voters |-> vote[p]]
    /\ \A p \in Voters : vote[p] # NoData /\ vote[p].at = "read" => Held(vote[p].raw, raw)
    /\ pending # NoData => Held(pending, raw)
    /\ leftClouds \in [votes : Nat, presses : Nat, faults : Nat, open : SUBSET D!Viewers]

JobTypes ==
    /\ job = [k \in D!Callers |-> job[k]]
    /\ \A k \in D!Callers : job[k] # D!NoJob => JobOf(job[k], raw)
    /\ \A t \in D!Tools : job[t] # D!NoJob => call[t].at = "sent" /\ job[t].kind = call[t].kind

CallTypes ==
    /\ call = [t \in D!Tools |-> call[t]]
    /\ \A t \in D!Tools : CallOf(call[t], raw)

ViewTypes ==
    /\ cache = [v \in D!Viewers |-> cache[v]] /\ inbox = [v \in D!Viewers |-> inbox[v]]
    /\ linked \in [D!Viewers -> BOOLEAN]
    /\ spoiled \subseteq D!Viewers /\ crossed \in BOOLEAN
    /\ \A v \in D!Viewers :
          /\ CacheOf(cache[v], raw) /\ HeardOf(inbox[v], raw)
          /\ v \notin D!Open => cache[v] = D!Unused /\ inbox[v] = <<>>

CloudTypes == ServerTypes /\ JobTypes /\ CallTypes /\ ViewTypes

LEMMA HeldSelf == ASSUME NEW r \in [Words -> Nat] PROVE Held(r, r)
BY DEF Held

LEMMA FitsShow ==
    ASSUME NEW r, NEW c, Fits(c, r), NEW ai \in BOOLEAN
    PROVE  Shows(D!Result(c, ai), r) /\ D!Result(c, ai) \in Results
BY DEF Shows, Results, Fits, D!Result

LEMMA SettingIs ==
    ASSUME NEW r \in [Words -> Nat], NEW x, Held(x, r), NEW on \in BOOLEAN, NEW c,
           c = NoData \/ Fits(c, r), NEW merges \in Seq(D!Merging),
           NEW at \in {0, D!Total(x)} \cup 0 .. D!Total(r)
    PROVE  Setting(D!Settings(on, c, at, merges), r)
<1>1. x \in [Words -> Nat]
  BY DEF Held
<1>2. D!Total(x) \in Nat /\ D!Total(r) \in Nat /\ D!Total(x) <= D!Total(r)
  BY <1>1, TotalBounds, TotalGrows
<1>3. at \in 0 .. D!Total(r)
  BY <1>2
<1> QED BY <1>3 DEF Setting, D!Settings

LEMMA SettingMore ==
    ASSUME NEW r \in [Words -> Nat], NEW s \in [Words -> Nat], Held(r, s)
    PROVE  /\ \A c : Setting(c, r) => Setting(c, s)
           /\ \A d : Shows(d, r) => Shows(d, s)
           /\ \A j : JobOf(j, r) => JobOf(j, s)
<1>1. (\A c : Fits(c, r) => Fits(c, s)) /\ (\A x : Held(x, r) => Held(x, s))
  BY MoreVotes
<1>2. D!Total(r) \in Nat /\ D!Total(s) \in Nat /\ D!Total(r) <= D!Total(s)
  BY TotalBounds, TotalGrows
<1>3. \A n \in 0 .. D!Total(r) : n \in 0 .. D!Total(s)
  BY <1>2
<1>4. \A c : Setting(c, r) => Setting(c, s)
  BY <1>1, <1>3 DEF Setting
<1>5. \A j : JobOf(j, r) => JobOf(j, s)
  BY <1>1, <1>3, <1>4 DEF JobOf
<1> QED BY <1>1, <1>4, <1>5 DEF Shows

LEMMA UnusedOK == ASSUME NEW r PROVE CacheOf(D!Unused, r) /\ D!Unused.fetch = "idle"
BY DEF CacheOf, Shows, D!Unused, Caches, D!Fetches

LEMMA CacheSteps ==
    ASSUME NEW r, NEW q, CacheOf(q, r), NEW d, Shows(d, r)
    PROVE  /\ CacheOf(D!Fetched(q), r) /\ CacheOf(D!Refetched(q), r) /\ CacheOf(D!Stored(q), r)
           /\ CacheOf(D!Written(q, d), r) /\ CacheOf(D!Patched(q, d), r) /\ CacheOf(D!Answered(q, d), r)
           /\ CacheOf(D!Updated(q, d), r)
<1>1. q \in Caches /\ Shows(q.data, r) /\ Shows(q.reply, r)
  BY DEF CacheOf
<1>2. Shows(NoData, r) /\ d \in Results \cup {NoData} /\ NoData \in Results \cup {NoData}
  BY DEF Shows
<1>4. "asked" \in D!Fetches /\ "answered" \in D!Fetches /\ "idle" \in D!Fetches
  BY DEF D!Fetches
<1>5. ASSUME NEW p, CacheOf(p, r), NEW n, n = [p EXCEPT !.fetch = "asked"] PROVE CacheOf(n, r)
  <2>1. n \in Caches /\ n.data = p.data /\ n.reply = p.reply
    BY <1>4, <1>5 DEF Caches, CacheOf
  <2> QED BY <2>1, <1>5 DEF CacheOf
<1>6. ASSUME NEW p, CacheOf(p, r), NEW n, n = [p EXCEPT !.fetch = "asked", !.reply = NoData]
      PROVE CacheOf(n, r)
  <2>1. n \in Caches /\ n.data = p.data /\ n.reply = NoData
    BY <1>2, <1>4, <1>6 DEF Caches, CacheOf
  <2> QED BY <2>1, <1>2, <1>6 DEF CacheOf
<1>7. CacheOf(D!Written(q, d), r)
  <2>1. PICK n : n = D!Written(q, d)
    OBVIOUS
  <2>2. n \in Caches /\ n.data = d /\ n.reply = q.reply
    BY <1>1, <1>2, <2>1 DEF Caches, D!Written
  <2> QED BY <2>1, <2>2, <1>1 DEF CacheOf
<1>8. CacheOf(D!Answered(q, d), r)
  <2>1. PICK n : n = D!Answered(q, d)
    OBVIOUS
  <2>2. n \in Caches /\ n.data = q.data /\ n.reply = d
    BY <1>1, <1>2, <1>4, <2>1 DEF Caches, D!Answered
  <2> QED BY <2>1, <2>2, <1>1 DEF CacheOf
<1>9. CacheOf(D!Stored(q), r)
  <2>1. PICK n : n = D!Stored(q)
    OBVIOUS
  <2>2. n \in Caches /\ n.data = q.reply /\ n.reply = NoData
    BY <1>1, <1>2, <1>4, <2>1 DEF Caches, D!Stored
  <2> QED BY <2>1, <2>2, <1>1, <1>2 DEF CacheOf
<1>10. ASSUME NEW p, CacheOf(p, r) PROVE CacheOf(D!Refetched(p), r)
  BY <1>6, <1>10 DEF D!Refetched
<1>11. CacheOf(D!Fetched(q), r)
  BY <1>5 DEF D!Fetched
<1>12. CacheOf(D!Patched(q, d), r)
  BY <1>7 DEF D!Patched
<1>13. CacheOf(D!Updated(q, d), r)
  BY <1>7, <1>10 DEF D!Updated
<1> QED BY <1>7, <1>8, <1>9, <1>10, <1>11, <1>12, <1>13

LEMMA CloudTypesInit == D!Init => CloudTypes
<1> SUFFICES ASSUME D!Init PROVE CloudTypes
  OBVIOUS
<1>1. raw \in [Words -> Nat]
  BY DEF D!Init
<1>2. PICK r : r = raw
  OBVIOUS
<1>3. r \in [Words -> Nat] /\ Held(r, r) /\ Fits(D!RawCloud(r), r)
  BY <1>1, <1>2, HeldSelf, RawFits
<1>4. <<>> \in Seq(D!Merging) /\ <<>> \in Seq(Notices) /\ Len(<<>>) = 0
  OBVIOUS
<1>5. PICK first : cache = [v \in D!Viewers |-> IF v \notin D!Open THEN D!Unused ELSE D!Written(D!Unused, first)]
                   /\ Shows(first, r) /\ Setting(choice, r)
  <2>1. CASE choice = D!Settings(FALSE, NoData, 0, <<>>)
    <3>1. Setting(choice, r)
      BY <1>3, <1>4, <2>1, SettingIs
    <3>2. choice.on = FALSE
      BY <2>1 DEF D!Settings
    <3>3. PICK f : f = D!Result(D!RawCloud(r), FALSE)
      OBVIOUS
    <3>4. Shows(f, r)
      BY <1>3, <3>3, FitsShow
    <3>5. cache = [v \in D!Viewers |-> IF v \notin D!Open THEN D!Unused ELSE D!Written(D!Unused, f)]
      BY <1>2, <3>2, <3>3 DEF D!Init
    <3> QED BY <3>1, <3>4, <3>5
  <2>2. ASSUME NEW g \in Groupings,
               choice = D!Settings(TRUE, D!Clustered(raw, g), D!Total(raw), <<>>)
        PROVE  \E f : /\ cache = [v \in D!Viewers |-> IF v \notin D!Open THEN D!Unused
                                                      ELSE D!Written(D!Unused, f)]
                      /\ Shows(f, r) /\ Setting(choice, r)
    <3>1. g \in [Words -> Words]
      BY PartsAssumption DEF PartsAssumption, D!CloudAssumption
    <3>2. PICK c : c = D!Clustered(r, g)
      OBVIOUS
    <3>3. Fits(c, r)
      BY <1>3, <3>1, <3>2, ClusteredFits
    <3>4. Setting(choice, r)
      BY <1>2, <1>3, <1>4, <2>2, <3>2, <3>3, SettingIs
    <3>5. choice.on = TRUE /\ choice.cache = c
      BY <1>2, <2>2, <3>2 DEF D!Settings
    <3>6. PICK f : f = D!Result(c, TRUE)
      OBVIOUS
    <3>7. Shows(f, r)
      BY <3>3, <3>6, FitsShow
    <3>8. cache = [v \in D!Viewers |-> IF v \notin D!Open THEN D!Unused ELSE D!Written(D!Unused, f)]
      BY <3>5, <3>6 DEF D!Init
    <3> QED BY <3>4, <3>7, <3>8
  <2>3. \/ choice = D!Settings(FALSE, NoData, 0, <<>>)
        \/ \E g \in Groupings : choice = D!Settings(TRUE, D!Clustered(raw, g), D!Total(raw), <<>>)
    BY DEF D!Init
  <2> QED BY <2>1, <2>2, <2>3
<1>6. leftClouds \in [votes : Nat, presses : Nat, faults : Nat, open : SUBSET D!Viewers]
  BY PartsAssumption DEF PartsAssumption, D!CloudAssumption, D!Init, D!Viewers
<1>7. ServerTypes
  BY <1>1, <1>2, <1>5, <1>6 DEF ServerTypes, D!Init
<1>8. JobTypes
  BY DEF JobTypes, D!Init, D!Tools, D!Callers
<1>9. CallTypes
  <2>1. CallOf(D!NoCall, raw)
    BY DEF CallOf, D!NoCall, Asked, Shows
  <2> QED BY <2>1 DEF CallTypes, D!Init
<1>10. ViewTypes
  <2>1. CacheOf(D!Unused, r) /\ CacheOf(D!Written(D!Unused, first), r)
    BY <1>5, UnusedOK, CacheSteps
  <2>2. inbox = [v \in D!Viewers |-> <<>>] /\ linked \in [D!Viewers -> BOOLEAN]
        /\ spoiled = {} /\ crossed = FALSE
    BY DEF D!Init
  <2>3. HeardOf(<<>>, r)
    BY <1>4 DEF HeardOf
  <2>4. \A v \in D!Viewers : cache[v] = IF v \notin D!Open THEN D!Unused ELSE D!Written(D!Unused, first)
    BY <1>5
  <2>5. cache = [v \in D!Viewers |-> cache[v]]
    BY <1>5
  <2> QED BY <1>2, <2>1, <2>2, <2>3, <2>4, <2>5 DEF ViewTypes
<1> QED BY <1>7, <1>8, <1>9, <1>10 DEF CloudTypes

(* What a step leaves alone stays typed.                                          *)
LEMMA SpendsOne ==
    ASSUME ServerTypes, NEW kind \in {"votes", "presses", "faults"}, D!Use(kind)
    PROVE  /\ leftClouds' \in [votes : Nat, presses : Nat, faults : Nat, open : SUBSET D!Viewers]
           /\ D!Open' = D!Open
BY DEF ServerTypes, D!Use, D!Open

LEMMA ServerStays ==
    ASSUME ServerTypes, raw' = raw, choice' = choice, vote' = vote, pending' = pending,
           leftClouds' = leftClouds
           \/ leftClouds' \in [votes : Nat, presses : Nat, faults : Nat, open : SUBSET D!Viewers]
    PROVE  ServerTypes'
BY DEF ServerTypes

LEMMA JobsStay ==
    ASSUME JobTypes, raw' = raw, job' = job,
           \A t \in D!Tools : job[t] # D!NoJob => call'[t].at = call[t].at /\ call'[t].kind = call[t].kind
    PROVE  JobTypes'
BY DEF JobTypes

LEMMA CallsStay == ASSUME CallTypes, raw' = raw, call' = call, D!Open' = D!Open PROVE CallTypes'
BY DEF CallTypes, CallOf

LEMMA ViewsStay ==
    ASSUME ViewTypes, raw' = raw, cache' = cache, inbox' = inbox, linked' = linked,
           spoiled' = spoiled \/ spoiled' \subseteq D!Viewers, crossed' \in BOOLEAN, D!Open' = D!Open
    PROVE  ViewTypes'
BY DEF ViewTypes

LEMMA ViewsPublished ==
    ASSUME ViewTypes, raw' = raw, cache' = cache, linked' = linked, spoiled' = spoiled,
           crossed' \in BOOLEAN, D!Open' = D!Open, NEW e \in Notices,
           e.kind = "counts" => Held(e.raw, raw), D!Publish(e)
    PROVE  ViewTypes'
<1>1. inbox' = [v \in D!Viewers |-> IF v \in D!Open /\ linked[v] THEN Append(inbox[v], e) ELSE inbox[v]]
  BY DEF D!Publish
<1>2. ASSUME NEW v \in D!Viewers
      PROVE  HeardOf(inbox'[v], raw) /\ (v \notin D!Open => inbox'[v] = inbox[v])
  <2>1. inbox[v] \in Seq(Notices) /\ HeardOf(inbox[v], raw)
    BY DEF ViewTypes, HeardOf
  <2>2. PICK s : s = Append(inbox[v], e)
    OBVIOUS
  <2>3. /\ s \in Seq(Notices) /\ Len(s) = Len(inbox[v]) + 1 /\ Len(inbox[v]) \in Nat
        /\ \A i \in 1 .. Len(inbox[v]) : s[i] = inbox[v][i]
        /\ s[Len(inbox[v]) + 1] = e
    BY <2>1, <2>2, AppendProperties, LenProperties
  <2>4. HeardOf(s, raw)
    <3> SUFFICES ASSUME NEW i \in 1 .. Len(s), s[i].kind = "counts" PROVE Held(s[i].raw, raw)
      BY <2>3 DEF HeardOf
    <3>1. i \in 1 .. Len(inbox[v]) \/ i = Len(inbox[v]) + 1
      BY <2>3
    <3> QED BY <2>1, <2>3, <3>1 DEF HeardOf
  <2> QED BY <1>1, <2>1, <2>2, <2>4
<1>3. inbox' = [v \in D!Viewers |-> inbox'[v]]
  BY <1>1
<1> QED BY <1>2, <1>3 DEF ViewTypes

LEMMA ViewsCached ==
    ASSUME ViewTypes, raw' = raw, inbox' = inbox, linked' = linked,
           crossed' \in BOOLEAN, D!Open' = D!Open, spoiled' = spoiled \/ spoiled' \subseteq D!Viewers,
           NEW v \in D!Viewers, NEW q, cache' = [cache EXCEPT ![v] = q], CacheOf(q, raw),
           v \in D!Open
    PROVE  ViewTypes'
<1>1. cache' = [w \in D!Viewers |-> IF w = v THEN q ELSE cache[w]]
  BY DEF ViewTypes
<1> QED BY <1>1 DEF ViewTypes

LEMMA TimesOpen ==
    ASSUME ViewTypes, NEW v \in D!Viewers, cache[v].fetch # "idle" \/ D!Loaded(cache[v]) \/ inbox[v] # <<>>
    PROVE  v \in D!Open
BY DEF ViewTypes, D!Unused, D!Loaded

LEMMA OpenStays == leftClouds' = leftClouds => D!Open' = D!Open
BY DEF D!Open
-----------------------------------------------------------------------------
LEMMA CountsTypes == ASSUME CloudTypes, NEW p \in Voters, D!Counts(p) PROVE CloudTypes'
<1>1. PICK w \in Words : raw' = [raw EXCEPT ![w] = @ + 1]
  BY DEF D!Counts
<1>2. /\ D!Open' = D!Open
      /\ leftClouds' \in [votes : Nat, presses : Nat, faults : Nat, open : SUBSET D!Viewers]
  BY SpendsOne DEF CloudTypes, D!Counts
<1>3. /\ vote' = [vote EXCEPT ![p] = [at |-> "counted", raw |-> NoData]] /\ choice' = choice
      /\ job' = job /\ pending' = pending /\ call' = call /\ cache' = cache /\ inbox' = inbox
      /\ linked' = linked /\ spoiled' = spoiled /\ crossed' = crossed
  BY DEF D!Counts, D!pages, D!past
<1>4. PICK r, s : r = raw /\ s = raw'
  OBVIOUS
<1>5. r \in [Words -> Nat] /\ s \in [Words -> Nat] /\ Held(r, s)
  <2>1. r \in [Words -> Nat]
    BY <1>4 DEF CloudTypes, ServerTypes
  <2>2. s = [x \in Words |-> IF x = w THEN r[w] + 1 ELSE r[x]]
    BY <1>1, <1>4, <2>1
  <2> QED BY <2>1, <2>2 DEF Held
<1>6. /\ \A x : Held(x, r) => Held(x, s)
      /\ \A c : Setting(c, r) => Setting(c, s)
      /\ \A d : Shows(d, r) => Shows(d, s)
      /\ \A j : JobOf(j, r) => JobOf(j, s)
  BY <1>5, MoreVotes, SettingMore
<1>7. ServerTypes'
  <2>1. \A q \in Voters : vote'[q] # NoData /\ vote'[q].at = "read" => Held(vote'[q].raw, s)
    BY <1>3, <1>4, <1>6 DEF CloudTypes, ServerTypes
  <2>2. vote' = [q \in Voters |-> vote'[q]]
    BY <1>3 DEF CloudTypes, ServerTypes
  <2> QED BY <1>2, <1>3, <1>4, <1>5, <1>6, <2>1, <2>2 DEF CloudTypes, ServerTypes
<1>8. JobTypes'
  BY <1>3, <1>4, <1>6 DEF CloudTypes, JobTypes
<1>9. CallTypes'
  BY <1>2, <1>3, <1>4, <1>6 DEF CloudTypes, CallTypes, CallOf
<1>10. ViewTypes'
  <2>1. \A q : CacheOf(q, r) => CacheOf(q, s)
    BY <1>6 DEF CacheOf
  <2>2. \A q : HeardOf(q, r) => HeardOf(q, s)
    BY <1>6 DEF HeardOf
  <2> QED BY <1>2, <1>3, <1>4, <2>1, <2>2 DEF CloudTypes, ViewTypes
<1> QED BY <1>7, <1>8, <1>9, <1>10 DEF CloudTypes

LEMMA VoteSteps ==
    ASSUME CloudTypes, \/ \E p \in Voters : D!ReadsTotals(p) \/ D!Schedules(p)
                       \/ D!Broadcasts
    PROVE  CloudTypes'
<1>1. /\ raw' = raw /\ choice' = choice /\ job' = job /\ call' = call /\ cache' = cache
      /\ linked' = linked /\ spoiled' = spoiled /\ crossed' = crossed /\ leftClouds' = leftClouds
  BY DEF D!ReadsTotals, D!Schedules, D!Broadcasts, D!pages, D!past
<1>2. JobTypes' /\ CallTypes' /\ D!Open' = D!Open /\ crossed' \in BOOLEAN
  BY <1>1, JobsStay, CallsStay, OpenStays DEF CloudTypes, ViewTypes
<1>3. ASSUME NEW p \in Voters, D!ReadsTotals(p) PROVE CloudTypes'
  <2>1. vote' = [vote EXCEPT ![p] = [at |-> "read", raw |-> raw]] /\ pending' = pending /\ inbox' = inbox
    BY <1>3 DEF D!ReadsTotals, D!pages
  <2>2. Held(raw, raw)
    BY HeldSelf DEF CloudTypes, ServerTypes
  <2>3. ServerTypes'
    BY <1>1, <2>1, <2>2 DEF CloudTypes, ServerTypes
  <2> QED BY <1>1, <1>2, <2>1, <2>3, ViewsStay DEF CloudTypes
<1>4. ASSUME NEW p \in Voters, D!Schedules(p) PROVE CloudTypes'
  <2>1. vote' = [vote EXCEPT ![p] = NoData] /\ pending' = vote[p].raw /\ inbox' = inbox
        /\ vote[p] # NoData /\ vote[p].at = "read"
    BY <1>4 DEF D!Schedules, D!pages
  <2>2. Held(pending', raw)
    BY <2>1 DEF CloudTypes, ServerTypes
  <2>3. ServerTypes'
    BY <1>1, <2>1, <2>2 DEF CloudTypes, ServerTypes
  <2> QED BY <1>1, <1>2, <2>1, <2>3, ViewsStay DEF CloudTypes
<1>5. ASSUME D!Broadcasts PROVE CloudTypes'
  <2>1. /\ pending # NoData /\ pending' = NoData /\ vote' = vote
        /\ D!Publish([kind |-> "counts", raw |-> pending])
    BY <1>5 DEF D!Broadcasts
  <2>2. PICK e : e = [kind |-> "counts", raw |-> pending]
    OBVIOUS
  <2>3. e \in Notices /\ Held(e.raw, raw)
    BY <2>1, <2>2 DEF CloudTypes, ServerTypes, Held, Notices
  <2>4. ViewTypes'
    BY <1>1, <1>2, <2>1, <2>2, <2>3, ViewsPublished DEF CloudTypes
  <2>5. ServerTypes'
    BY <1>1, <2>1 DEF CloudTypes, ServerTypes
  <2> QED BY <1>2, <2>4, <2>5 DEF CloudTypes
<1> QED BY <1>3, <1>4, <1>5

LEMMA StartsTypes ==
    ASSUME CloudTypes, NEW t \in D!Tools, NEW kind \in {"on", "off", "redo", "merge", "split"},
           NEW a, NEW b, kind = "merge" => a # b, D!BenchReady, call[t] = D!NoCall,
           D!Starts(t, kind, a, b)
    PROVE  CloudTypes'
<1>1. PICK n : n = [D!NoCall EXCEPT !.at = "sent", !.kind = kind, !.source = a, !.target = b]
  OBVIOUS
<1>2. n.at = "sent" /\ n.kind = kind /\ n.source = a /\ n.target = b /\ n.reply = NoData
      /\ "at" \in DOMAIN n /\ "reply" \in DOMAIN n
  BY <1>1 DEF D!NoCall
<1>3. /\ call' = [call EXCEPT ![t] = n]
      /\ raw' = raw /\ choice' = choice /\ job' = job /\ vote' = vote /\ pending' = pending
      /\ cache' = cache /\ inbox' = inbox /\ linked' = linked /\ crossed' = crossed /\ spoiled' = spoiled
  BY <1>1 DEF D!Starts, D!server, D!past
<1>4. /\ D!Open' = D!Open
      /\ leftClouds' \in [votes : Nat, presses : Nat, faults : Nat, open : SUBSET D!Viewers]
  BY SpendsOne DEF CloudTypes, D!Starts
<1>5. "bench" \in D!Open
  BY DEF D!BenchReady
<1>6. CallOf(n, raw)'
  BY <1>2, <1>4, <1>5 DEF CallOf, Asked, Shows
<1>7. call' = [x \in D!Tools |-> IF x = t THEN n ELSE call[x]]
  BY <1>3 DEF CloudTypes, CallTypes
<1>8. CallTypes'
  <2>1. \A x \in D!Tools : CallOf(call[x], raw)'
    <3> SUFFICES ASSUME NEW x \in D!Tools PROVE CallOf(call[x], raw)'
      OBVIOUS
    <3>1. CASE x = t
      BY <1>6, <1>7, <3>1 DEF CallOf
    <3>2. CASE x # t
      BY <1>3, <1>4, <1>7, <3>2 DEF CloudTypes, CallTypes, CallOf
    <3> QED BY <3>1, <3>2
  <2> QED BY <1>7, <2>1 DEF CallTypes
<1>9. job[t] = D!NoJob
  BY DEF CloudTypes, JobTypes, D!NoCall
<1>10. JobTypes'
  BY <1>3, <1>7, <1>9, JobsStay DEF CloudTypes
<1> QED BY <1>3, <1>4, <1>8, <1>10, ServerStays, ViewsStay DEF CloudTypes, ViewTypes

LEMMA PressTypes ==
    ASSUME CloudTypes, D!Drag \/ D!Split \/ \E kind \in {"on", "off", "redo"} : D!Press(kind)
    PROVE  CloudTypes'
<1>1. "button" \in D!Tools /\ "drag" \in D!Tools
  BY DEF D!Tools
<1>2. ASSUME NEW kind \in {"on", "off", "redo"}, D!Press(kind) PROVE CloudTypes'
  BY <1>1, <1>2, StartsTypes DEF D!Press
<1>3. CASE D!Drag
  <2>1. PICK s, t : s # t /\ D!Starts("drag", "merge", s, t)
    BY <1>3 DEF D!Drag
  <2> QED BY <1>1, <1>3, <2>1, StartsTypes DEF D!Drag
<1>4. CASE D!Split
  BY <1>1, <1>4, StartsTypes DEF D!Split
<1> QED BY <1>2, <1>3, <1>4

LEMMA ReadTypes == ASSUME CloudTypes, NEW t \in D!Tools, D!Reads(t) PROVE CloudTypes'
<1>1. /\ raw' = raw /\ choice' = choice /\ vote' = vote /\ pending' = pending /\ call' = call
      /\ cache' = cache /\ inbox' = inbox /\ linked' = linked /\ spoiled' = spoiled
      /\ crossed' = crossed /\ leftClouds' = leftClouds
  BY DEF D!Reads, D!pages, D!past
<1>2. PICK n : n = [kind |-> call[t].kind, choice |-> choice, raw |-> raw]
  OBVIOUS
<1>3. n.kind = call[t].kind /\ n.choice = choice /\ n.raw = raw /\ call[t].at = "sent" /\ t \in D!Callers
  BY <1>2 DEF D!Reads, D!Callers
<1>4. n.kind \in {"on", "off", "redo", "merge", "split"}
  BY <1>3 DEF CloudTypes, CallTypes, CallOf, Asked
<1>5. JobOf(n, raw)
  BY <1>3, <1>4, HeldSelf DEF CloudTypes, ServerTypes, JobOf
<1>6. job' = [x \in D!Callers |-> IF x = t THEN n ELSE job[x]]
  BY <1>2, <1>3 DEF CloudTypes, JobTypes, D!Reads
<1>7. D!Tools \subseteq D!Callers
  BY DEF D!Callers
<1>8. JobTypes'
  BY <1>1, <1>3, <1>5, <1>6, <1>7 DEF CloudTypes, JobTypes
<1>9. D!Open' = D!Open
  BY <1>1, OpenStays
<1> QED BY <1>1, <1>8, <1>9, ServerStays, CallsStay, ViewsStay DEF CloudTypes, ViewTypes

LEMMA HandlesTypes == ASSUME CloudTypes, NEW v \in D!Viewers, D!Handles(v) PROVE CloudTypes'
<1>0. job = [k \in D!Callers |-> job[k]]
  BY DEF CloudTypes, JobTypes
<1>1. /\ raw' = raw /\ choice' = choice /\ vote' = vote /\ pending' = pending /\ call' = call
      /\ cache' = cache /\ inbox' = inbox /\ linked' = linked /\ spoiled' = spoiled
      /\ crossed' = crossed /\ leftClouds' = leftClouds /\ v \in D!Callers /\ v \notin D!Tools
  BY <1>0, HandlerReads
<1>2. PICK n, j : /\ j = job[v] /\ ReadOf(n, j, choice, raw)
                  /\ job' = [x \in D!Callers |-> IF x = v THEN n ELSE job[x]]
  BY <1>0, HandlerReads
<1>3. j # D!NoJob => JobOf(j, raw)
  BY <1>1, <1>2 DEF CloudTypes, JobTypes
<1>4. Setting(choice, raw) /\ raw \in [Words -> Nat] /\ Held(raw, raw)
  BY HeldSelf DEF CloudTypes, ServerTypes
<1>5. D!Total(raw) \in 0 .. D!Total(raw)
  BY <1>4, TotalBounds
<1>6. D!NoJob.kind = "none"
  BY DEF D!NoJob
<1>7. n # D!NoJob => JobOf(n, raw)
  <2>1. CASE n.kind = "settings" /\ n.choice = choice
    BY <1>4, <2>1 DEF JobOf
  <2>2. CASE n.kind = "total" /\ j.kind = "settings" /\ n.choice = j.choice /\ n.count = D!Total(raw)
    BY <1>3, <1>5, <1>6, <2>2 DEF JobOf
  <2>3. CASE /\ n.kind = "words" /\ j.kind = "total" /\ n.choice = j.choice
             /\ n.count = j.count /\ n.raw = raw
    BY <1>3, <1>4, <1>6, <2>3 DEF JobOf
  <2> QED BY <1>2, <2>1, <2>2, <2>3 DEF ReadOf
<1>8. JobTypes'
  <2>1. D!Tools \subseteq D!Callers
    BY DEF D!Callers
  <2> QED BY <1>1, <1>2, <1>7, <2>1 DEF CloudTypes, JobTypes
<1>9. D!Open' = D!Open
  BY <1>1, OpenStays
<1> QED BY <1>1, <1>8, <1>9, ServerStays, CallsStay, ViewsStay DEF CloudTypes, ViewTypes

(* A cloud clustered again, and what each request of the workbench makes of one.    *)
LEMMA AgainFits ==
    ASSUME NEW r \in [Words -> Nat], NEW j, Setting(j.choice, r), Held(j.raw, r), NEW g \in Groupings
    PROVE  /\ Fits(D!Applied(D!Clustered(j.raw, g), D!Merges(j)), r)
           /\ j.count \in 0 .. D!Total(r) => Setting(D!Recomputed(j, g), r)
           /\ Fits(D!Recomputed(j, g).cache, r)
<1>1. j.raw \in [Words -> Nat] /\ g \in [Words -> Words]
  BY PartsAssumption DEF PartsAssumption, D!CloudAssumption, Held
<1>2. Fits(D!Clustered(j.raw, g), j.raw)
  BY <1>1, ClusteredFits
<1>3. Fits(D!Clustered(j.raw, g), r)
  BY <1>2, FitsHeld
<1>4. D!Merges(j) \in Seq(D!Merging)
  BY DEF Setting, D!Merges
<1>5. Fits(D!Applied(D!Clustered(j.raw, g), D!Merges(j)), r)
  BY <1>3, <1>4, AppliedFits
<1>6. j.count \in 0 .. D!Total(r) => Setting(D!Recomputed(j, g), r)
  BY <1>4, <1>5, SettingIs DEF D!Recomputed
<1>7. Fits(D!Recomputed(j, g).cache, r)
  BY <1>5 DEF D!Recomputed, D!Settings
<1> QED BY <1>5, <1>6, <1>7

LEMMA AfterFits ==
    ASSUME NEW r \in [Words -> Nat], NEW j, Setting(j.choice, r), Held(j.raw, r), NEW g \in Groupings,
           NEW s, NEW t, ~ D!Refused(j, s, t), j.kind \in {"on", "off", "redo", "merge", "split"},
           j.kind = "merge" => s # t
    PROVE  /\ Setting(D!After(j, s, t, g), r)
           /\ D!After(j, s, t, g).on = TRUE \/ j.kind = "split" => Fits(D!After(j, s, t, g).cache, r)
<1>1. j.raw \in [Words -> Nat] /\ g \in [Words -> Words]
  BY PartsAssumption DEF PartsAssumption, D!CloudAssumption, Held
<1>2. Fits(D!Clustered(j.raw, g), r) /\ Fits(D!RawCloud(j.raw), r)
  <2>1. Fits(D!Clustered(j.raw, g), j.raw) /\ Fits(D!RawCloud(j.raw), j.raw)
    BY <1>1, ClusteredFits, RawFits
  <2> QED BY <2>1, FitsHeld
<1>3. D!Merges(j) \in Seq(D!Merging) /\ j.choice.on \in BOOLEAN
  BY DEF Setting, D!Merges
<1>4. <<>> \in Seq(D!Merging)
  OBVIOUS
<1>5. PICK n : n = D!After(j, s, t, g)
  OBVIOUS
<1>6. PICK c : c = D!Current(j)
  OBVIOUS
<1>7. Fits(c, r)
  BY <1>2, <1>6 DEF D!Current, Setting
<1>8. DOMAIN c \subseteq Words
  BY <1>7, CloudIs DEF Fits
<1>9. CASE j.kind = "off"
  <2>1. n = D!Settings(FALSE, NoData, 0, <<>>)
    BY <1>5, <1>9 DEF D!After
  <2>2. Setting(n, r) /\ n.on = FALSE
    <3>1. Setting(n, r)
      BY <1>4, <2>1, SettingIs
    <3> QED BY <2>1, <3>1 DEF D!Settings
  <2> QED BY <1>5, <1>9, <2>2
<1>10. CASE j.kind = "redo"
  <2>1. n = D!Settings(TRUE, D!Clustered(j.raw, g), D!Total(j.raw), <<>>)
    BY <1>5, <1>10 DEF D!After
  <2>2. Setting(n, r)
    BY <1>2, <1>4, <2>1, SettingIs
  <2>3. Fits(n.cache, r)
    BY <1>2, <2>1 DEF D!Settings
  <2> QED BY <1>5, <2>2, <2>3
<1>11. CASE j.kind = "on"
  <2>1. PICK d : d = D!Applied(D!Clustered(j.raw, g), D!Merges(j))
    OBVIOUS
  <2>2. n = D!Settings(TRUE, d, D!Total(j.raw), D!Merges(j))
    BY <1>5, <1>11, <2>1 DEF D!After
  <2>3. Fits(d, r)
    BY <2>1, AgainFits
  <2>4. Setting(n, r)
    BY <1>3, <2>2, <2>3, SettingIs
  <2>5. Fits(n.cache, r)
    BY <2>2, <2>3 DEF D!Settings
  <2> QED BY <1>5, <2>4, <2>5
<1>12. CASE j.kind = "merge"
  <2>1. n = D!Settings(TRUE, D!MergedInto(c, s, t), D!Total(j.raw), Append(D!Merges(j), <<s, t>>))
    BY <1>5, <1>6, <1>12 DEF D!After
  <2>2. s \in DOMAIN c /\ t \in DOMAIN c /\ s # t
    BY <1>6, <1>12 DEF D!Refused
  <2>3. Fits(D!MergedInto(c, s, t), r)
    BY <1>7, <2>2, MergedFits
  <2>4. <<s, t>> \in D!Merging
    BY <1>8, <2>2 DEF D!Merging
  <2>5. Append(D!Merges(j), <<s, t>>) \in Seq(D!Merging)
    BY <1>3, <2>4, AppendProperties
  <2>6. Setting(n, r)
    BY <2>1, <2>3, <2>5, SettingIs
  <2>7. Fits(n.cache, r)
    BY <2>1, <2>3 DEF D!Settings
  <2> QED BY <1>5, <2>6, <2>7
<1>13. CASE j.kind = "split"
  <2>1. n = D!Settings(j.choice.on, D!TakenApart(c, s, t), D!Total(j.raw), D!Without(D!Merges(j), <<t, s>>))
    BY <1>5, <1>6, <1>13 DEF D!After
  <2>2. s \in DOMAIN c /\ t \in Words
    BY <1>6, <1>13 DEF D!Refused, D!Variants
  <2>3. Fits(D!TakenApart(c, s, t), r)
    BY <1>7, <2>2, ApartFits
  <2>4. D!Without(D!Merges(j), <<t, s>>) \in Seq(D!Merging)
    BY <1>3, WithoutOK
  <2>5. Setting(n, r)
    BY <1>3, <2>1, <2>3, <2>4, SettingIs
  <2>6. Fits(n.cache, r)
    BY <2>1, <2>3 DEF D!Settings
  <2> QED BY <1>5, <2>5, <2>6
<1> QED BY <1>9, <1>10, <1>11, <1>12, <1>13

(* A handler's answer is stored with its caller.                                   *)
LEMMA AnsweredCall ==
    ASSUME CloudTypes, NEW t \in D!Tools, NEW n, call' = [call EXCEPT ![t] = n],
           "at" \in DOMAIN n, "reply" \in DOMAIN n, n.at \in {"ok", "failed"} \/ n = D!NoCall,
             Shows(n.reply, raw), raw' = raw, D!Open' = D!Open,
           "bench" \in D!Open, job' = job \/ job' = [job EXCEPT ![t] = D!NoJob],
           job'[t] = D!NoJob
    PROVE  CallTypes' /\ JobTypes'
<1>1. call' = [x \in D!Tools |-> IF x = t THEN n ELSE call[x]]
  BY DEF CloudTypes, CallTypes
<1>2. n.at \in {"ok", "failed", "free"}
  BY DEF D!NoCall
<1>3. CallOf(n, raw)'
  BY <1>2 DEF CallOf, Asked
<1>4. ASSUME NEW x \in D!Tools PROVE CallOf(call[x], raw)'
  <2>1. CASE x = t
    BY <1>1, <1>3, <2>1 DEF CallOf
  <2>2. CASE x # t
    BY <1>1, <2>2 DEF CloudTypes, CallTypes, CallOf
  <2> QED BY <2>1, <2>2
<1>5. t \in D!Callers
  BY DEF D!Callers
<1>6. job' = [x \in D!Callers |-> IF x = t THEN D!NoJob ELSE job[x]]
  BY <1>5 DEF CloudTypes, JobTypes
<1>7. JobTypes'
  BY <1>1, <1>5, <1>6 DEF CloudTypes, JobTypes, D!Callers
<1> QED BY <1>1, <1>4, <1>7 DEF CallTypes

LEMMA CommitTypes ==
    ASSUME CloudTypes, NEW tool \in D!Tools, NEW g \in Groupings, D!Commits(tool, g)
    PROVE  CloudTypes'
<1>1. PICK j, s, t, old : j = job[tool] /\ s = call[tool].source /\ t = call[tool].target /\ old = call[tool]
  OBVIOUS
<1>2. /\ j # D!NoJob /\ job' = [job EXCEPT ![tool] = D!NoJob] /\ raw' = raw /\ vote' = vote
      /\ pending' = pending /\ cache' = cache /\ linked' = linked /\ spoiled' = spoiled
      /\ leftClouds' = leftClouds
  BY <1>1 DEF D!Commits
<1>3. tool \in D!Callers /\ D!Open' = D!Open
  BY <1>2, OpenStays DEF D!Callers
<1>10. JobOf(j, raw) /\ old.at = "sent" /\ j.kind = old.kind /\ job'[tool] = D!NoJob
  BY <1>1, <1>2, <1>3 DEF CloudTypes, JobTypes
<1>5. CallOf(old, raw)
  BY <1>1 DEF CloudTypes, CallTypes
<1>6. /\ j.kind \in {"on", "off", "redo", "merge", "split"} /\ (j.kind = "merge" => s # t)
      /\ "bench" \in D!Open /\ Shows(old.reply, raw)
      /\ "at" \in DOMAIN old /\ "reply" \in DOMAIN old
  BY <1>1, <1>10, <1>5 DEF CallOf, Asked
<1>4. /\ Setting(j.choice, raw) /\ Held(j.raw, raw) /\ old.at = "sent" /\ j.kind = old.kind
      /\ job'[tool] = D!NoJob
  BY <1>6, <1>10 DEF JobOf
<1>7. CASE D!Refused(j, s, t)
  <2>1. /\ call' = [call EXCEPT ![tool].at = "failed"] /\ choice' = choice /\ inbox' = inbox
        /\ crossed' = crossed
    BY <1>1, <1>7 DEF D!Commits
  <2>2. PICK n : n = [old EXCEPT !.at = "failed"]
    OBVIOUS
  <2>3. call' = [call EXCEPT ![tool] = n]
    BY <1>1, <2>1, <2>2
  <2>4. n.at = "failed" /\ n.reply = old.reply /\ "at" \in DOMAIN n /\ "reply" \in DOMAIN n
    BY <1>6, <2>2
  <2>5. CallTypes' /\ JobTypes'
    BY <1>2, <1>3, <1>4, <1>6, <2>3, <2>4, AnsweredCall
  <2>6. ServerTypes' /\ ViewTypes'
    BY <1>2, <1>3, <2>1, ServerStays, ViewsStay DEF CloudTypes, ViewTypes
  <2> QED BY <2>5, <2>6 DEF CloudTypes
<1>8. CASE ~ D!Refused(j, s, t)
  <2>1. PICK new, reply : /\ new = D!After(j, s, t, g)
                          /\ reply = D!Result(IF new.on \/ j.kind = "split" THEN new.cache ELSE D!RawCloud(j.raw),
                                              j.kind # "off")
    OBVIOUS
  <2>2. /\ choice' = new /\ crossed' = (crossed \/ D!Crosses(j))
        /\ D!Publish([kind |-> "changed", raw |-> NoData])
        /\ call' = [call EXCEPT ![tool].at = "ok", ![tool].reply = reply]
    BY <1>1, <1>8, <2>1 DEF D!Commits
  <2>3. Setting(new, raw) /\ Shows(reply, raw)
    <3>1. raw \in [Words -> Nat]
      BY DEF CloudTypes, ServerTypes
    <3>2. Setting(new, raw) /\ (new.on = TRUE \/ j.kind = "split" => Fits(new.cache, raw))
      BY <1>4, <1>6, <1>8, <2>1, <3>1, AfterFits
    <3>3. j.raw \in [Words -> Nat]
      BY <1>4 DEF Held
    <3>4. Fits(D!RawCloud(j.raw), j.raw)
      BY <3>3, RawFits
    <3>5. Fits(D!RawCloud(j.raw), raw)
      BY <1>4, <3>1, <3>4, FitsHeld
    <3>6. new.on \in BOOLEAN
      BY <3>2 DEF Setting
    <3>7. Shows(reply, raw)
      <4>1. CASE new.on = TRUE \/ j.kind = "split"
        <5>1. reply = D!Result(new.cache, j.kind # "off") /\ (j.kind # "off") \in BOOLEAN
          BY <2>1, <4>1
        <5> QED BY <3>2, <4>1, <5>1, FitsShow
      <4>2. CASE ~ (new.on = TRUE \/ j.kind = "split")
        <5>1. reply = D!Result(D!RawCloud(j.raw), j.kind # "off") /\ (j.kind # "off") \in BOOLEAN
          BY <2>1, <3>6, <4>2
        <5> QED BY <3>5, <5>1, FitsShow
      <4> QED BY <4>1, <4>2
    <3> QED BY <3>2, <3>7
  <2>4. PICK n : n = [old EXCEPT !.at = "ok", !.reply = reply]
    OBVIOUS
  <2>5. call' = [call EXCEPT ![tool] = n]
    <3>1. call = [x \in D!Tools |-> call[x]]
      BY DEF CloudTypes, CallTypes
    <3>2. call' = [x \in D!Tools |-> IF x = tool THEN n ELSE call[x]]
      BY <1>1, <2>2, <2>4, <3>1
    <3> QED BY <3>1, <3>2
  <2>6. n.at = "ok" /\ n.reply = reply /\ "at" \in DOMAIN n /\ "reply" \in DOMAIN n
    BY <1>6, <2>4
  <2>7. CallTypes' /\ JobTypes'
    BY <1>2, <1>3, <1>4, <1>6, <2>3, <2>5, <2>6, AnsweredCall
  <2>8. ServerTypes'
    BY <1>2, <2>2, <2>3 DEF CloudTypes, ServerTypes
  <2>9. ViewTypes'
    <3>1. PICK e : e = [kind |-> "changed", raw |-> NoData]
      OBVIOUS
    <3>2. e \in Notices /\ e.kind # "counts" /\ D!Publish(e)
      BY <2>2, <3>1 DEF Notices
    <3>3. crossed' \in BOOLEAN
      BY <2>2
    <3> QED BY <1>2, <1>3, <3>2, <3>3, ViewsPublished DEF CloudTypes
  <2> QED BY <2>7, <2>8, <2>9 DEF CloudTypes
<1> QED BY <1>7, <1>8

LEMMA LoseAnswerTypes == ASSUME CloudTypes, NEW t \in D!Tools, D!LoseAnswer(t) PROVE CloudTypes'
<1>1. PICK old, n : old = call[t] /\ n = [old EXCEPT !.at = "failed"]
  OBVIOUS
<1>2. /\ old.at = "ok" /\ call' = [call EXCEPT ![t] = n]
      /\ raw' = raw /\ choice' = choice /\ job' = job /\ vote' = vote /\ pending' = pending
      /\ cache' = cache /\ inbox' = inbox /\ linked' = linked /\ crossed' = crossed /\ spoiled' = spoiled
  BY <1>1 DEF D!LoseAnswer, D!server, D!past
<1>3. /\ D!Open' = D!Open
      /\ leftClouds' \in [votes : Nat, presses : Nat, faults : Nat, open : SUBSET D!Viewers]
  BY SpendsOne DEF CloudTypes, D!LoseAnswer
<1>4. CallOf(old, raw)
  BY <1>1 DEF CloudTypes, CallTypes
<1>5. /\ n.at = "failed" /\ n.reply = old.reply /\ "at" \in DOMAIN n /\ "reply" \in DOMAIN n
      /\ Shows(n.reply, raw) /\ "bench" \in D!Open
  BY <1>1, <1>2, <1>4 DEF CallOf
<1>6. job'[t] = D!NoJob
  BY <1>1, <1>2 DEF CloudTypes, JobTypes
<1>7. CallTypes' /\ JobTypes'
  BY <1>2, <1>3, <1>5, <1>6, AnsweredCall
<1> QED BY <1>2, <1>3, <1>7, ServerStays, ViewsStay DEF CloudTypes, ViewTypes

LEMMA SettlesTypes == ASSUME CloudTypes, NEW t \in D!Tools, D!Settles(t) PROVE CloudTypes'
<1>1. /\ call[t].at \in {"ok", "failed"} /\ call' = [call EXCEPT ![t] = D!NoCall]
      /\ raw' = raw /\ choice' = choice /\ job' = job /\ vote' = vote /\ pending' = pending
      /\ inbox' = inbox /\ linked' = linked /\ crossed' = crossed /\ spoiled' = spoiled
      /\ leftClouds' = leftClouds
  BY DEF D!Settles, D!server, D!past
<1>2. D!Open' = D!Open
  BY <1>1, OpenStays
<1>3. PICK r : r = call[t].reply
  OBVIOUS
<1>4. "bench" \in D!Open /\ Shows(r, raw) /\ job[t] = D!NoJob
  BY <1>1, <1>3 DEF CloudTypes, CallTypes, CallOf, JobTypes
<1>5. CallTypes' /\ JobTypes'
  <2>1. Shows(D!NoCall.reply, raw) /\ "at" \in DOMAIN D!NoCall /\ "reply" \in DOMAIN D!NoCall
    BY DEF Shows, D!NoCall
  <2> QED BY <1>1, <1>2, <1>4, <2>1, AnsweredCall
<1>6. ViewTypes'
  <2>1. CASE call[t].at = "ok"
    <3>1. cache' = [cache EXCEPT !["bench"] = D!Updated(@, r)]
      BY <1>3, <2>1 DEF D!Settles
    <3>2. PICK q : q = D!Updated(cache["bench"], r)
      OBVIOUS
    <3>3. "bench" \in D!Viewers
      BY DEF D!Viewers
    <3>4. CacheOf(q, raw)
      BY <1>4, <3>2, <3>3, CacheSteps DEF CloudTypes, ViewTypes
    <3>5. cache' = [cache EXCEPT !["bench"] = q]
      BY <3>1, <3>2
    <3>6. crossed' \in BOOLEAN
      BY <1>1 DEF CloudTypes, ViewTypes
    <3> QED BY <1>1, <1>2, <1>4, <3>3, <3>4, <3>5, <3>6, ViewsCached DEF CloudTypes
  <2>2. CASE call[t].at # "ok"
    <3>1. cache' = cache
      BY <2>2 DEF D!Settles
    <3> QED BY <1>1, <1>2, <3>1, ViewsStay DEF CloudTypes, ViewTypes
  <2> QED BY <2>1, <2>2
<1> QED BY <1>1, <1>5, <1>6, ServerStays DEF CloudTypes

LEMMA DeliverTypes == ASSUME CloudTypes, NEW v \in D!Viewers, D!Deliver(v) PROVE CloudTypes'
<1>1. PICK e, q, s, n : /\ e = Head(inbox[v]) /\ q = cache[v] /\ s = Tail(inbox[v])
                        /\ n = IF e.kind = "counts" THEN D!Pushed(q, e) ELSE D!OnChanged(q, e)
  OBVIOUS
<1>2. /\ inbox[v] # <<>> /\ inbox' = [inbox EXCEPT ![v] = s] /\ cache' = [cache EXCEPT ![v] = n]
      /\ raw' = raw /\ choice' = choice /\ job' = job /\ vote' = vote /\ pending' = pending
      /\ call' = call /\ linked' = linked /\ crossed' = crossed /\ leftClouds' = leftClouds
      /\ spoiled' = spoiled \/ spoiled' = spoiled \cup {v}
  BY <1>1 DEF D!Deliver, D!server
<1>3. D!Open' = D!Open /\ v \in D!Open
  BY <1>2, OpenStays, TimesOpen DEF CloudTypes
<1>4. HeardOf(inbox[v], raw) /\ CacheOf(q, raw)
  BY <1>1 DEF CloudTypes, ViewTypes
<1>5. /\ e \in Notices /\ (e.kind = "counts" => Held(e.raw, raw)) /\ s \in Seq(Notices)
      /\ Len(s) = Len(inbox[v]) - 1 /\ \A i \in 1 .. Len(s) : s[i] = inbox[v][i + 1]
      /\ Len(inbox[v]) \in Nat
  <2>1. inbox[v] \in Seq(Notices) /\ inbox[v] # <<>>
    BY <1>2, <1>4 DEF HeardOf
  <2>2. Len(inbox[v]) \in Nat /\ Len(inbox[v]) # 0
    BY <2>1, LenProperties, EmptySeq
  <2>3. e = inbox[v][1] /\ 1 \in 1 .. Len(inbox[v])
    BY <1>1, <2>1, <2>2
  <2>4. s \in Seq(Notices) /\ Len(s) = Len(inbox[v]) - 1 /\ \A i \in 1 .. Len(s) : s[i] = inbox[v][i + 1]
    BY <1>1, <2>1, HeadTailProperties
  <2>5. e \in Notices
    BY <2>1, <2>3, ElementOfSeq
  <2> QED BY <1>4, <2>2, <2>3, <2>4, <2>5 DEF HeardOf
<1>6. HeardOf(s, raw)
  <2>1. ASSUME NEW i \in 1 .. Len(s), s[i].kind = "counts" PROVE Held(s[i].raw, raw)
    <3>1. i + 1 \in 1 .. Len(inbox[v])
      BY <1>5
    <3> QED BY <1>4, <1>5, <2>1, <3>1 DEF HeardOf
  <2> QED BY <1>5, <2>1 DEF HeardOf
<1>7. CacheOf(n, raw)
  <2>1. CASE e.kind # "counts"
    <3>1. Shows(NoData, raw)
      BY DEF Shows
    <3> QED BY <1>1, <1>4, <2>1, <3>1, CacheSteps DEF D!OnChanged
  <2>2. CASE e.kind = "counts"
    <3>1. e.raw \in [Words -> Nat] /\ Held(e.raw, raw) /\ raw \in [Words -> Nat]
      BY <1>5, <2>2 DEF Held, CloudTypes, ServerTypes
    <3>2. Fits(D!RawCloud(e.raw), raw)
      BY <3>1, RawFits, FitsHeld
    <3>3. PICK c, d : c = D!RawCloud(e.raw) /\ d = [q.data EXCEPT !.cloud = c]
      OBVIOUS
    <3>4. CASE D!Loaded(q)
      <4>1. q.data \in Results
        BY <1>4, <3>4 DEF CacheOf, Shows, D!Loaded
      <4>2. c \in Clouds
        BY <3>2, <3>3 DEF Fits
      <4>3. d \in Results /\ d.cloud = c
        BY <3>3, <4>1, <4>2 DEF Results
      <4>4. Shows(d, raw)
        BY <3>2, <3>3, <4>3 DEF Shows
      <4>5. n = D!Patched(q, d)
        BY <1>1, <2>2, <3>3 DEF D!Pushed
      <4> QED BY <1>4, <4>4, <4>5, CacheSteps
    <3>5. CASE ~ D!Loaded(q)
      BY <1>1, <1>4, <2>2, <3>5 DEF D!Pushed, D!Patched
    <3> QED BY <3>4, <3>5
  <2> QED BY <2>1, <2>2
<1>8. ViewTypes'
  <2>1. inbox' = [w \in D!Viewers |-> IF w = v THEN s ELSE inbox[w]]
        /\ cache' = [w \in D!Viewers |-> IF w = v THEN n ELSE cache[w]]
    BY <1>2 DEF CloudTypes, ViewTypes
  <2> QED BY <1>2, <1>3, <1>6, <1>7, <2>1 DEF CloudTypes, ViewTypes
<1> QED BY <1>2, <1>3, <1>8, ServerStays, JobsStay, CallsStay DEF CloudTypes

LEMMA SocketTypes ==
    ASSUME CloudTypes, NEW v \in D!Viewers, D!LoseSocket(v) \/ D!Reconnect(v)
    PROVE  CloudTypes'
<1>1. /\ raw' = raw /\ choice' = choice /\ job' = job /\ vote' = vote /\ pending' = pending
      /\ call' = call /\ cache' = cache /\ crossed' = crossed
  BY DEF D!LoseSocket, D!Reconnect, D!server, D!past
<1>2. /\ D!Open' = D!Open
      /\ leftClouds' \in [votes : Nat, presses : Nat, faults : Nat, open : SUBSET D!Viewers]
  <2>1. CASE D!LoseSocket(v)
    BY <2>1, SpendsOne DEF CloudTypes, D!LoseSocket
  <2>2. CASE D!Reconnect(v)
    <3>1. leftClouds' = leftClouds
      BY <2>2 DEF D!Reconnect
    <3> QED BY <3>1, OpenStays DEF CloudTypes, ServerTypes
  <2> QED BY <2>1, <2>2
<1>3. \/ inbox' = [inbox EXCEPT ![v] = <<>>] \/ inbox' = inbox
  BY DEF D!LoseSocket, D!Reconnect
<1>4. \/ spoiled' = spoiled \cup {v} \/ spoiled' = spoiled
  BY DEF D!LoseSocket, D!Reconnect, D!past
<1>5. \/ linked' = [linked EXCEPT ![v] = FALSE] \/ linked' = [linked EXCEPT ![v] = TRUE]
  BY DEF D!LoseSocket, D!Reconnect
<1>6. linked' \in [D!Viewers -> BOOLEAN]
  BY <1>5 DEF CloudTypes, ViewTypes
<1>7. HeardOf(<<>>, raw)
  <2>1. <<>> \in Seq(Notices) /\ Len(<<>>) = 0
    OBVIOUS
  <2> QED BY <2>1 DEF HeardOf
<1>8. ViewTypes'
  BY <1>1, <1>2, <1>3, <1>4, <1>6, <1>7 DEF CloudTypes, ViewTypes
<1> QED BY <1>1, <1>2, <1>8, ServerStays, JobsStay, CallsStay DEF CloudTypes

LEMMA FetchTypes ==
    ASSUME CloudTypes, NEW v \in D!Viewers, D!IntervalFires(v) \/ D!Serves(v) \/ D!Stores(v)
    PROVE  CloudTypes'
<1>1. /\ raw' = raw /\ choice' = choice /\ job' = job /\ vote' = vote /\ pending' = pending
      /\ call' = call /\ inbox' = inbox /\ linked' = linked /\ crossed' = crossed
      /\ spoiled' = spoiled /\ leftClouds' = leftClouds
  BY DEF D!IntervalFires, D!Serves, D!Stores, D!server, D!past
<1>2. D!Open' = D!Open /\ v \in D!Open
  <2>1. v \in D!Open
    BY TimesOpen DEF CloudTypes, D!IntervalFires, D!Serves, D!Stores
  <2> QED BY <1>1, <2>1, OpenStays
<1>3. CacheOf(cache[v], raw) /\ raw \in [Words -> Nat] /\ Setting(choice, raw)
  BY DEF CloudTypes, ViewTypes, ServerTypes
<1>4. PICK q : cache' = [cache EXCEPT ![v] = q] /\ CacheOf(q, raw)
  <2>0. Shows(NoData, raw)
    BY DEF Shows
  <2>1. CASE D!IntervalFires(v)
    <3>1. cache' = [cache EXCEPT ![v] = D!Fetched(@)]
      BY <2>1 DEF D!IntervalFires
    <3> QED BY <1>3, <2>0, <3>1, CacheSteps
  <2>2. CASE D!Stores(v)
    <3>1. cache' = [cache EXCEPT ![v] = D!Stored(@)]
      BY <2>2 DEF D!Stores
    <3> QED BY <1>3, <2>0, <3>1, CacheSteps
  <2>3. CASE D!Serves(v)
    <3>1. cache' = [cache EXCEPT ![v] = D!Answered(@, D!Present)] /\ D!Fresh
      BY <2>3 DEF D!Serves
    <3>2. Shows(D!Present, raw)
      <4>1. CASE choice.on
        <5>1. choice.cache # NoData
          BY <3>1, <4>1 DEF D!Fresh
        <5>2. Fits(choice.cache, raw)
          BY <1>3, <5>1 DEF Setting
        <5> QED BY <4>1, <5>2, FitsShow DEF D!Present
      <4>2. CASE ~ choice.on
        <5>1. Fits(D!RawCloud(raw), raw)
          BY <1>3, RawFits
        <5> QED BY <4>2, <5>1, FitsShow DEF D!Present
      <4> QED BY <4>1, <4>2
    <3> QED BY <1>3, <3>1, <3>2, CacheSteps
  <2> QED BY <2>1, <2>2, <2>3
<1>5. ViewTypes'
  <2>1. crossed' \in BOOLEAN
    BY <1>1 DEF CloudTypes, ViewTypes
  <2> QED BY <1>1, <1>2, <1>4, <2>1, ViewsCached DEF CloudTypes
<1> QED BY <1>1, <1>2, <1>5, ServerStays, JobsStay, CallsStay DEF CloudTypes

LEMMA StoresCloudTypes ==
    ASSUME CloudTypes, NEW v \in D!Viewers, NEW g \in Groupings, D!StoresCloud(v, g)
    PROVE  CloudTypes'
<1>1. PICK j, n : j = job[v] /\ n = D!Recomputed(j, g)
  OBVIOUS
<1>2. /\ j # D!NoJob /\ j.kind = "words" /\ job' = [job EXCEPT ![v] = D!NoJob] /\ choice' = n
      /\ crossed' = (crossed \/ D!Crosses(j))
      /\ cache' = IF cache[v].fetch = "asked"
                  THEN [cache EXCEPT ![v] = D!Answered(@, D!Result(n.cache, TRUE))] ELSE cache
      /\ raw' = raw /\ vote' = vote /\ pending' = pending /\ call' = call /\ inbox' = inbox
      /\ linked' = linked /\ (spoiled' = spoiled \/ spoiled' \subseteq D!Viewers)
      /\ leftClouds' = leftClouds
  BY <1>1 DEF D!StoresCloud, D!NoJob
<1>3. v \in D!Callers /\ v \notin D!Tools /\ D!Open' = D!Open
  BY <1>2, OpenStays DEF D!Callers, D!Viewers, D!Tools
<1>4. /\ Setting(j.choice, raw) /\ Held(j.raw, raw) /\ raw \in [Words -> Nat]
      /\ j.count \in 0 .. D!Total(raw)
  BY <1>1, <1>2, <1>3 DEF CloudTypes, JobTypes, JobOf, ServerTypes
<1>5. Setting(n, raw) /\ Fits(n.cache, raw)
  BY <1>1, <1>4, AgainFits
<1>6. ServerTypes'
  BY <1>2, <1>5 DEF CloudTypes, ServerTypes
<1>7. JobTypes'
  <2>1. job' = [x \in D!Callers |-> IF x = v THEN D!NoJob ELSE job[x]]
    BY <1>2, <1>3 DEF CloudTypes, JobTypes
  <2>2. D!Tools \subseteq D!Callers
    BY DEF D!Callers
  <2> QED BY <1>2, <1>3, <2>1, <2>2 DEF CloudTypes, JobTypes
<1>8. crossed' \in BOOLEAN
  BY <1>2
<1>9. ViewTypes'
  <2>1. CASE cache[v].fetch = "asked"
    <3>1. v \in D!Open /\ CacheOf(cache[v], raw)
      BY <2>1, TimesOpen DEF CloudTypes, ViewTypes
    <3>2. Shows(D!Result(n.cache, TRUE), raw)
      BY <1>5, FitsShow
    <3>3. PICK q : q = D!Answered(cache[v], D!Result(n.cache, TRUE))
      OBVIOUS
    <3>4. CacheOf(q, raw)
      BY <3>1, <3>2, <3>3, CacheSteps
    <3>5. cache' = [cache EXCEPT ![v] = q]
      BY <1>2, <2>1, <3>3
    <3> QED BY <1>2, <1>3, <1>8, <3>1, <3>4, <3>5, ViewsCached DEF CloudTypes
  <2>2. CASE cache[v].fetch # "asked"
    BY <1>2, <1>3, <1>8, <2>2, ViewsStay DEF CloudTypes
  <2> QED BY <2>1, <2>2
<1>10. CallTypes'
  BY <1>2, <1>3, CallsStay DEF CloudTypes
<1> QED BY <1>6, <1>7, <1>9, <1>10 DEF CloudTypes

LEMMA CloudTypesNext == CloudTypes /\ [D!Next]_D!vars => CloudTypes'
<1> SUFFICES ASSUME CloudTypes, [D!Next]_D!vars PROVE CloudTypes'
  OBVIOUS
<1>1. CASE UNCHANGED D!vars
  <2>1. /\ raw' = raw /\ choice' = choice /\ job' = job /\ vote' = vote /\ pending' = pending
        /\ call' = call /\ cache' = cache /\ inbox' = inbox /\ linked' = linked
        /\ crossed' = crossed /\ spoiled' = spoiled /\ leftClouds' = leftClouds
    BY <1>1 DEF D!vars, D!server, D!pages, D!past
  <2>2. D!Open' = D!Open /\ crossed' \in BOOLEAN
    BY <2>1, OpenStays DEF CloudTypes, ViewTypes
  <2> QED BY <2>1, <2>2, ServerStays, JobsStay, CallsStay, ViewsStay DEF CloudTypes
<1> QED BY <1>1, CountsTypes, VoteSteps, PressTypes, ReadTypes, HandlesTypes, CommitTypes, LoseAnswerTypes,
           SettlesTypes, DeliverTypes, SocketTypes, FetchTypes, StoresCloudTypes DEF D!Next

LEMMA FitsGives ==
    ASSUME NEW c, raw \in [Words -> Nat], Fits(c, raw) PROVE D!CountedOnce(c) /\ D!IsCloud(c)
<1>1. \A w \in Words : raw[w] <= D!Total(raw) /\ D!Total(raw) \in Nat
  BY TotalBounds
<1>2. DOMAIN c \subseteq Words /\ \A h \in DOMAIN c : c[h] \in [Words -> Nat]
  BY CloudIs DEF Fits
<1>3. ASSUME NEW h \in DOMAIN c PROVE c[h] \in [Words -> 0 .. D!Total(raw)]
  <2>1. ASSUME NEW w \in Words PROVE c[h][w] \in 0 .. D!Total(raw)
    <3>1. c[h][w] \in Nat /\ c[h][w] <= raw[w] /\ raw[w] \in Nat
      BY <1>2, <1>3 DEF Fits
    <3> QED BY <1>1, <3>1
  <2> QED BY <1>2, <1>3, <2>1
<1> QED BY <1>2, <1>3 DEF Fits, D!CountedOnce, D!IsCloud

LEMMA CloudTypesGive == CloudTypes => D!TypeOK /\ D!VotesOnce
<1> SUFFICES ASSUME CloudTypes PROVE D!TypeOK /\ D!VotesOnce
  OBVIOUS
<1>1. raw \in [Words -> Nat] /\ Setting(choice, raw)
  BY DEF CloudTypes, ServerTypes
<1>2. \A c : Fits(c, raw) => D!CountedOnce(c) /\ D!IsCloud(c)
  BY <1>1, FitsGives
<1>3. \A c : Setting(c, raw) => D!IsChoice(c)
  BY <1>2 DEF Setting, D!IsChoice
<1>4. \A d : Shows(d, raw) => D!IsResult(d) /\ (d # NoData => D!CountedOnce(d.cloud))
  BY <1>2 DEF Shows, D!IsResult, Results
<1>5. \A v \in D!Viewers : CacheOf(cache[v], raw)
  BY DEF CloudTypes, ViewTypes
<1>6. D!VotesOnce
  <2>1. choice.cache # NoData => D!CountedOnce(choice.cache)
    BY <1>1, <1>2 DEF Setting
  <2>2. ASSUME NEW v \in D!Viewers, D!Loaded(cache[v]) PROVE D!CountedOnce(cache[v].data.cloud)
    BY <1>4, <1>5, <2>2 DEF CacheOf, D!Loaded
  <2> QED BY <2>1, <2>2 DEF D!VotesOnce
<1>7. \A v \in D!Viewers : /\ cache[v].fetch \in D!Fetches
                           /\ D!IsResult(cache[v].data) /\ D!IsResult(cache[v].reply)
  BY <1>4, <1>5 DEF CacheOf, Caches
<1>8. \A t \in D!Tools : call[t].at \in {"free", "sent", "ok", "failed"} /\ D!IsResult(call[t].reply)
  BY <1>4 DEF CloudTypes, CallTypes, CallOf
<1>9. \A k \in D!Callers : job[k] = D!NoJob \/ D!IsChoice(job[k].choice)
  BY <1>3 DEF CloudTypes, JobTypes, JobOf
<1> QED BY <1>1, <1>3, <1>6, <1>7, <1>8, <1>9 DEF D!TypeOK, CloudTypes, ViewTypes

(* A viewer that heard everything: either it is still to fetch, or it has, or is about *)
(* to store, whether the cloud is clustered; and unless votes are on their way to it,  *)
(* exactly what the server has, which no fetch will compute anew.                    *)
Has(s, kind) == \E i \in 1 .. Len(s) : s[i].kind = kind
Coming(v)  == cache[v].fetch = "asked" \/ Has(inbox[v], "changed")
Transit(v) == (\E p \in Voters : vote[p] # NoData) \/ pending # NoData \/ Has(inbox[v], "counts")
LastFor(v) == IF cache[v].fetch = "answered" THEN cache[v].reply ELSE cache[v].data
Heard(v) ==
    /\ linked[v]
    /\ ~ Coming(v) => /\ LastFor(v).ai = choice.on
                      /\ ~ Transit(v) => LastFor(v) = D!Present /\ D!Fresh
Filled ==
    /\ \A t \in D!Tools : call[t].at = "ok" => call[t].reply # NoData
    /\ \A v \in D!Open : cache[v].data # NoData /\ (cache[v].fetch = "answered" => cache[v].reply # NoData)
Behind(j) == j.choice.cache = NoData \/ j.choice.at < j.count     \* why it clusters
Older == \A v \in D!Viewers : job[v].kind \in {"total", "words"} => Behind(job[v])
RestInv == Filled /\ Older /\ \A v \in D!Open \ spoiled : Heard(v)

LEMMA Markers ==
    /\ NoData \notin [Words -> Nat] /\ NoData \notin Clouds /\ NoData \notin Results
    /\ \A a \in {"counted", "read"}, r \in [Words -> Nat] \cup {NoData} : [at |-> a, raw |-> r] # NoData
<1>1. D!CloudAssumption
  BY PartsAssumption DEF PartsAssumption
<1>2. NoData \notin Clouds
  BY <1>1 DEF D!CloudAssumption, Clouds
<1>3. NoData \notin Results
  <2>1. ASSUME NEW c \in Clouds, NEW a \in BOOLEAN, NoData = [cloud |-> c, ai |-> a] PROVE FALSE
    <3>1. PICK H \in SUBSET Words : c \in [H -> [Words -> Nat]]
      BY DEF Clouds
    <3>2. [cloud |-> c, ai |-> a] \in [cloud : [H -> [Words -> Nat]], ai : BOOLEAN]
      BY <3>1
    <3> QED BY <1>1, <2>1, <3>2 DEF D!CloudAssumption
  <2> QED BY <2>1 DEF Results
<1>4. \A a \in {"counted", "read"}, r \in [Words -> Nat] \cup {NoData} : [at |-> a, raw |-> r] # NoData
  BY <1>1 DEF D!CloudAssumption
<1> QED BY <1>1, <1>2, <1>3, <1>4 DEF D!CloudAssumption

LEMMA ResultIs ==
    ASSUME NEW c \in Clouds, NEW ai \in BOOLEAN
    PROVE  D!Result(c, ai) \in Results /\ D!Result(c, ai) # NoData /\ D!Result(c, ai).ai = ai
BY Markers DEF D!Result, Results

LEMMA QueryViews ==
    ASSUME NEW q \in Caches, NEW d
    PROVE  /\ D!Loaded(q) => /\ D!Refetched(q).fetch = "asked" /\ D!Refetched(q).data = q.data
                             /\ D!Patched(q, d).data = d
           /\ D!Idle(q) => D!Fetched(q).fetch = "asked"
           /\ D!Fetched(q).data = q.data
           /\ D!Patched(q, d).fetch = q.fetch /\ D!Patched(q, d).reply = q.reply
           /\ D!Answered(q, d).data = q.data /\ D!Answered(q, d).fetch = "answered"
                /\ D!Answered(q, d).reply = d
           /\ D!Stored(q).data = q.reply /\ D!Stored(q).fetch = "idle"
           /\ d # NoData => D!Updated(q, d).fetch = "asked" /\ D!Updated(q, d).data = d
BY DEF Caches, D!Fetches, D!Loaded, D!Idle, D!Refetched, D!Patched, D!Fetched, D!Written, D!Answered,
       D!Stored, D!Updated

LEMMA HasAppend ==
    ASSUME NEW s \in Seq(Notices), NEW e \in Notices, NEW kind
    PROVE  Has(Append(s, e), kind) <=> Has(s, kind) \/ e.kind = kind
<1>1. PICK a : a = Append(s, e)
  OBVIOUS
<1>2. /\ Len(s) \in Nat /\ Len(a) = Len(s) + 1 /\ a[Len(s) + 1] = e
      /\ \A i \in 1 .. Len(s) : a[i] = s[i]
  BY <1>1, AppendProperties, LenProperties
<1>3. \A i \in 1 .. Len(a) : i \in 1 .. Len(s) \/ i = Len(s) + 1
  BY <1>2
<1>4. Len(s) + 1 \in 1 .. Len(a) /\ \A i \in 1 .. Len(s) : i \in 1 .. Len(a)
  BY <1>2
<1> QED BY <1>1, <1>2, <1>3, <1>4 DEF Has

LEMMA HasTail ==
    ASSUME NEW s \in Seq(Notices), s # <<>>, NEW kind
    PROVE  Has(s, kind) => Head(s).kind = kind \/ Has(Tail(s), kind)
<1>1. PICK a : a = Tail(s)
  OBVIOUS
<1>2. Len(s) \in Nat /\ Len(s) # 0 /\ Head(s) = s[1]
  BY LenProperties, EmptySeq, HeadTailProperties
<1>3. Len(a) = Len(s) - 1 /\ \A i \in 1 .. Len(a) : a[i] = s[i + 1]
  BY <1>1, HeadTailProperties
<1>4. ASSUME NEW i \in 1 .. Len(s), s[i].kind = kind PROVE Head(s).kind = kind \/ Has(a, kind)
  <2>1. CASE i = 1
    BY <1>2, <1>4, <2>1
  <2>2. CASE i # 1
    <3>1. i - 1 \in 1 .. Len(a) /\ i - 1 + 1 = i
      BY <1>2, <1>3, <2>2
    <3>2. a[i - 1] = s[i]
      BY <1>3, <3>1
    <3> QED BY <1>4, <3>1, <3>2 DEF Has
  <2> QED BY <2>1, <2>2
<1> QED BY <1>1, <1>4 DEF Has

LEMMA HeardStill ==
    ASSUME NEW v, Heard(v), linked'[v], choice' = choice, raw' = raw,
           Coming(v) => Coming(v)', Transit(v) => Transit(v)',
           ~ Coming(v)' => LastFor(v)' = LastFor(v)
    PROVE  Heard(v)'
BY DEF Heard, D!Present, D!Fresh, D!Total, D!RawCloud

LEMMA HeardComing == ASSUME NEW v, linked'[v], Coming(v)' PROVE Heard(v)'
BY DEF Heard

LEMMA OlderStays == ASSUME Older, job' = job PROVE Older'
BY DEF Older

LEMMA FilledStays ==
    ASSUME Filled, call' = call, cache' = cache, D!Open' = D!Open PROVE Filled'
BY DEF Filled

(* A step that neither changes what the server has nor what a viewer hears or shows.   *)
LEMMA RestStays ==
    ASSUME RestInv, raw' = raw, choice' = choice, cache' = cache, inbox' = inbox, linked' = linked,
           spoiled' = spoiled, D!Open' = D!Open, Filled', Older',
           \A v \in D!Open : Transit(v) => Transit(v)'
    PROVE  RestInv'
<1>1. ASSUME NEW v \in D!Open \ spoiled PROVE Heard(v)'
  <2>1. Heard(v) /\ linked'[v]
    BY DEF RestInv, Heard
  <2>2. Coming(v) => Coming(v)'
    BY DEF Coming
  <2>3. LastFor(v)' = LastFor(v)
    BY DEF LastFor
  <2> QED BY <1>1, <2>1, <2>2, <2>3, HeardStill
<1> QED BY <1>1 DEF RestInv

LEMMA FitsResult ==
    ASSUME NEW c, NEW r, Fits(c, r), NEW ai \in BOOLEAN
    PROVE  D!Result(c, ai) \in Results /\ D!Result(c, ai) # NoData /\ D!Result(c, ai).ai = ai
BY ResultIs DEF Fits

LEMMA RestTogether ==
    ASSUME Filled', Older', D!Open' = D!Open, \A v \in D!Open \ spoiled' : Heard(v)'
    PROVE  RestInv'
BY DEF RestInv

(* What the server has is a result.                                               *)
LEMMA PresentIs ==
    ASSUME CloudTypes, D!Fresh PROVE D!Present \in Results /\ D!Present # NoData /\ D!Present.ai = choice.on
<1>1. raw \in [Words -> Nat] /\ Setting(choice, raw)
  BY DEF CloudTypes, ServerTypes
<1>2. Fits(D!RawCloud(raw), raw)
  BY <1>1, RawFits
<1>3. CASE choice.on = TRUE
  <2>1. Fits(choice.cache, raw)
    BY <1>1, <1>3 DEF D!Fresh, Setting
  <2> QED BY <1>3, <2>1, FitsResult DEF D!Present
<1>4. CASE choice.on = FALSE
  BY <1>2, <1>4, FitsResult DEF D!Present
<1> QED BY <1>1, <1>3, <1>4 DEF Setting

LEMMA RestInit == D!Init => RestInv
<1> SUFFICES ASSUME D!Init PROVE RestInv
  OBVIOUS
<1>1. CloudTypes
  BY CloudTypesInit
<1>2. D!Fresh
  <2>1. CASE choice = D!Settings(FALSE, NoData, 0, <<>>)
    BY <2>1 DEF D!Fresh, D!Settings
  <2>2. ASSUME NEW g \in Groupings, choice = D!Settings(TRUE, D!Clustered(raw, g), D!Total(raw), <<>>)
        PROVE  D!Fresh
    <3>1. raw \in [Words -> Nat] /\ g \in [Words -> Words]
      BY <1>1, PartsAssumption DEF PartsAssumption, D!CloudAssumption, CloudTypes, ServerTypes
    <3>2. Fits(D!Clustered(raw, g), raw)
      BY <3>1, ClusteredFits
    <3>3. D!Clustered(raw, g) # NoData
      BY <3>2, Markers DEF Fits
    <3>4. choice.cache = D!Clustered(raw, g) /\ choice.at = D!Total(raw)
      BY <2>2 DEF D!Settings
    <3> QED BY <3>3, <3>4 DEF D!Fresh
  <2> QED BY <2>1, <2>2 DEF D!Init
<1>3. PICK p : p = D!Present
  OBVIOUS
<1>4. p # NoData /\ p.ai = choice.on
  BY <1>1, <1>2, <1>3, PresentIs
<1>5. ASSUME NEW v \in D!Open PROVE cache[v].fetch = "idle" /\ cache[v].data = p /\ v \in D!Viewers
  <2>1. v \in D!Viewers
    BY <1>1 DEF CloudTypes, ServerTypes, D!Open
  <2>2. cache[v] = D!Written(D!Unused, p)
    BY <1>3, <1>5, <2>1 DEF D!Init, D!Present
  <2> QED BY <2>1, <2>2 DEF D!Written, D!Unused
<1>6. /\ \A t \in D!Tools : call[t].at = "free"
      /\ \A v \in D!Viewers : job[v] = D!NoJob /\ inbox[v] = <<>> /\ linked[v] = TRUE
  BY DEF D!Init, D!NoCall, D!Callers
<1>7. Filled
  BY <1>4, <1>5, <1>6 DEF Filled
<1>8. Older
  BY <1>6 DEF Older, D!NoJob
<1>9. ASSUME NEW v \in D!Open PROVE Heard(v)
  <2>1. LastFor(v) = p
    BY <1>5, <1>9 DEF LastFor
  <2> QED BY <1>2, <1>3, <1>4, <1>5, <1>6, <1>9, <2>1 DEF Heard
<1> QED BY <1>7, <1>8, <1>9 DEF RestInv

LEMMA VotesRest ==
    ASSUME RestInv, CloudTypes, NEW p \in Voters, D!Counts(p) \/ D!ReadsTotals(p) \/ D!Schedules(p)
    PROVE  RestInv'
<1>1. /\ choice' = choice /\ job' = job /\ call' = call /\ cache' = cache /\ inbox' = inbox
      /\ linked' = linked /\ spoiled' = spoiled
  BY DEF D!Counts, D!ReadsTotals, D!Schedules, D!pages, D!past
<1>2. D!Open' = D!Open
  <2>1. CASE D!Counts(p)
    BY <2>1, SpendsOne DEF CloudTypes, D!Counts
  <2>2. CASE D!ReadsTotals(p) \/ D!Schedules(p)
    BY <2>2, OpenStays DEF D!ReadsTotals, D!Schedules
  <2> QED BY <2>1, <2>2
<1>3. vote = [q \in Voters |-> vote[q]] /\ raw \in [Words -> Nat]
  BY DEF CloudTypes, ServerTypes
<1>4. vote'[p] # NoData \/ pending' # NoData
  <2>1. CASE D!Counts(p)
    <3>1. vote'[p] = [at |-> "counted", raw |-> NoData]
      BY <1>3, <2>1 DEF D!Counts
    <3> QED BY <3>1, Markers
  <2>2. CASE D!ReadsTotals(p)
    <3>1. vote'[p] = [at |-> "read", raw |-> raw]
      BY <1>3, <2>2 DEF D!ReadsTotals
    <3> QED BY <1>3, <3>1, Markers
  <2>3. CASE D!Schedules(p)
    <3>1. pending' = vote[p].raw /\ Held(vote[p].raw, raw)
      BY <2>3 DEF D!Schedules, CloudTypes, ServerTypes
    <3> QED BY <3>1, Markers DEF Held
  <2> QED BY <2>1, <2>2, <2>3
<1>5. ASSUME NEW v \in D!Open \ spoiled PROVE Heard(v)'
  <2>1. Heard(v) /\ Transit(v)'
    BY <1>4, <1>5 DEF RestInv, Transit
  <2> QED BY <1>1, <2>1 DEF Heard, Coming, LastFor
<1>6. Filled' /\ Older'
  BY <1>1, <1>2, FilledStays, OlderStays DEF RestInv
<1> QED BY <1>1, <1>2, <1>5, <1>6, RestTogether

LEMMA SentRest == ASSUME RestInv, CloudTypes, D!Broadcasts PROVE RestInv'
<1>1. /\ choice' = choice /\ raw' = raw /\ job' = job /\ call' = call /\ cache' = cache
      /\ linked' = linked /\ spoiled' = spoiled /\ D!Open' = D!Open
  BY OpenStays DEF D!Broadcasts, D!past
<1>2. PICK e : e = [kind |-> "counts", raw |-> pending]
  OBVIOUS
<1>3. /\ e \in Notices /\ e.kind = "counts"
      /\ inbox' = [v \in D!Viewers |-> IF v \in D!Open /\ linked[v] THEN Append(inbox[v], e) ELSE inbox[v]]
  <2>1. pending \in [Words -> Nat]
    BY DEF D!Broadcasts, CloudTypes, ServerTypes, Held
  <2> QED BY <1>2, <2>1 DEF D!Broadcasts, D!Publish, Notices
<1>4. ASSUME NEW v \in D!Open \ spoiled PROVE Heard(v)'
  <2>1. Heard(v) /\ v \in D!Viewers
    BY <1>4 DEF RestInv, CloudTypes, ServerTypes, D!Open
  <2>2. linked[v] /\ linked'[v]
    BY <1>1, <2>1 DEF Heard
  <2>3. inbox'[v] = Append(inbox[v], e) /\ inbox[v] \in Seq(Notices)
    BY <1>3, <1>4, <2>1, <2>2 DEF CloudTypes, ViewTypes, HeardOf
  <2>4. /\ Has(inbox[v], "changed") => Has(inbox'[v], "changed")
        /\ Has(inbox'[v], "counts")
    <3>1. Has(Append(inbox[v], e), "counts")
      BY <1>3, <2>3, HasAppend
    <3>2. Has(inbox[v], "changed") => Has(Append(inbox[v], e), "changed")
      BY <1>3, <2>3, HasAppend
    <3> QED BY <2>3, <3>1, <3>2
  <2>5. Coming(v) => Coming(v)'
    BY <1>1, <2>4 DEF Coming
  <2>6. Transit(v)' /\ LastFor(v)' = LastFor(v)
    BY <1>1, <2>4 DEF Transit, LastFor
  <2> QED BY <1>1, <2>1, <2>2, <2>5, <2>6, HeardStill
<1>5. Filled' /\ Older'
  BY <1>1, FilledStays, OlderStays DEF RestInv
<1> QED BY <1>1, <1>4, <1>5, RestTogether

(* The workbench's requests.                                                     *)
LEMMA AskedRest ==
    ASSUME RestInv, CloudTypes, NEW t \in D!Tools, NEW kind, NEW s, NEW x, D!Starts(t, kind, s, x)
    PROVE  RestInv'
<1>1. PICK n : n = [D!NoCall EXCEPT !.at = "sent", !.kind = kind, !.source = s, !.target = x]
  OBVIOUS
<1>2. /\ call' = [call EXCEPT ![t] = n] /\ n.at = "sent"
      /\ choice' = choice /\ raw' = raw /\ job' = job /\ cache' = cache /\ inbox' = inbox
      /\ linked' = linked /\ spoiled' = spoiled /\ vote' = vote /\ pending' = pending
  BY <1>1 DEF D!Starts, D!server, D!past, D!NoCall
<1>3. D!Open' = D!Open
  BY SpendsOne DEF CloudTypes, D!Starts
<1>4. Filled'
  BY <1>2, <1>3 DEF RestInv, Filled, CloudTypes, CallTypes
<1>5. Older'
  BY <1>2, OlderStays DEF RestInv
<1>6. \A v \in D!Open : Transit(v) => Transit(v)'
  BY <1>2 DEF Transit
<1> QED BY <1>2, <1>3, <1>4, <1>5, <1>6, RestStays

LEMMA ReadRest == ASSUME RestInv, CloudTypes, NEW t \in D!Tools, D!Reads(t) PROVE RestInv'
<1>1. /\ choice' = choice /\ raw' = raw /\ cache' = cache /\ inbox' = inbox /\ call' = call
      /\ linked' = linked /\ spoiled' = spoiled /\ vote' = vote /\ pending' = pending
      /\ leftClouds' = leftClouds
  BY DEF D!Reads, D!pages, D!past
<1>2. D!Open' = D!Open
  BY <1>1, OpenStays
<1>3. \A v \in D!Viewers : job'[v] = job[v]
  BY DEF D!Reads, D!Tools, D!Viewers, D!Callers, CloudTypes, JobTypes
<1>4. Older'
  BY <1>3 DEF RestInv, Older, Behind
<1>5. Filled'
  BY <1>1, <1>2, FilledStays DEF RestInv
<1>6. \A v \in D!Open : Transit(v) => Transit(v)'
  BY <1>1 DEF Transit
<1> QED BY <1>1, <1>2, <1>4, <1>5, <1>6, RestStays

LEMMA HandlesRest == ASSUME RestInv, CloudTypes, NEW v \in D!Viewers, D!Handles(v) PROVE RestInv'
<1>0. job = [k \in D!Callers |-> job[k]] /\ D!Viewers \subseteq D!Callers
  BY DEF CloudTypes, JobTypes, D!Callers
<1>1. /\ choice' = choice /\ raw' = raw /\ cache' = cache /\ inbox' = inbox /\ call' = call
      /\ linked' = linked /\ spoiled' = spoiled /\ vote' = vote /\ pending' = pending
      /\ leftClouds' = leftClouds
  BY <1>0, HandlerReads
<1>2. D!Open' = D!Open
  BY <1>1, OpenStays
<1>3. PICK n, j : /\ j = job[v] /\ ReadOf(n, j, choice, raw)
                  /\ job' = [x \in D!Callers |-> IF x = v THEN n ELSE job[x]]
  BY <1>0, HandlerReads
<1>4. /\ j # D!NoJob => JobOf(j, raw)
      /\ j.kind \in {"total", "words"} => Behind(j)
      /\ D!NoJob.kind = "none"
  BY <1>0, <1>3 DEF CloudTypes, JobTypes, RestInv, Older, D!NoJob
<1>5. n.kind \in {"total", "words"} => Behind(n)
  <2>1. CASE /\ n.kind = "total" /\ j.kind = "settings" /\ n.choice = j.choice
             /\ n.count = D!Total(raw) /\ ~ D!Computed(n)
    <3>1. raw \in [Words -> Nat] /\ D!Total(raw) \in Nat
      BY TotalBounds DEF CloudTypes, ServerTypes
    <3>2. n.choice.at \in 0 .. D!Total(raw)
      BY <1>4, <2>1 DEF JobOf, Setting
    <3>3. n.choice.cache = NoData \/ n.choice.at # n.count
      BY <2>1 DEF D!Computed
    <3> QED BY <2>1, <3>1, <3>2, <3>3 DEF Behind
  <2>2. CASE n.kind = "words" /\ j.kind = "total" /\ n.choice = j.choice /\ n.count = j.count
    BY <1>4, <2>2 DEF Behind
  <2>3. CASE n.kind \in {"none", "settings"}
    BY <2>3
  <2> QED BY <1>3, <1>4, <2>1, <2>2, <2>3 DEF ReadOf
<1>6. Older'
  <2>1. \A u \in D!Viewers : job'[u].kind \in {"total", "words"} => Behind(job'[u])
    BY <1>0, <1>3, <1>5 DEF RestInv, Older
  <2> QED BY <2>1 DEF Older, Behind
<1>7. Filled'
  BY <1>1, <1>2, FilledStays DEF RestInv
<1>8. \A w \in D!Open : Transit(w) => Transit(w)'
  BY <1>1 DEF Transit
<1> QED BY <1>1, <1>2, <1>6, <1>7, <1>8, RestStays

LEMMA SettingsReply ==
    ASSUME NEW r \in [Words -> Nat], NEW j, Setting(j.choice, r), Held(j.raw, r), NEW g \in Groupings,
           NEW s, NEW t, ~ D!Refused(j, s, t), j.kind \in {"on", "off", "redo", "merge", "split"},
           j.kind = "merge" => s # t, NEW new, new = D!After(j, s, t, g)
    PROVE  D!Result(IF new.on \/ j.kind = "split" THEN new.cache ELSE D!RawCloud(j.raw), j.kind # "off") # NoData
<1>1. Setting(new, r) /\ (new.on = TRUE \/ j.kind = "split" => Fits(new.cache, r))
  BY AfterFits
<1>2. new.on \in BOOLEAN
  BY <1>1 DEF Setting
<1>3. Fits(D!RawCloud(j.raw), j.raw)
  BY RawFits DEF Held
<1>4. (j.kind # "off") \in BOOLEAN
  OBVIOUS
<1>5. CASE new.on = TRUE \/ j.kind = "split"
  <2>1. D!Result(new.cache, j.kind # "off") # NoData
    BY <1>1, <1>4, <1>5, FitsResult
  <2> QED BY <1>5, <2>1
<1>6. CASE ~ (new.on = TRUE \/ j.kind = "split")
  <2>1. D!Result(D!RawCloud(j.raw), j.kind # "off") # NoData
    BY <1>3, <1>4, FitsResult
  <2> QED BY <1>2, <1>6, <2>1
<1> QED BY <1>5, <1>6

LEMMA CommitRest ==
    ASSUME RestInv, CloudTypes, NEW tool \in D!Tools, NEW g \in Groupings, D!Commits(tool, g)
    PROVE  RestInv'
<1>1. PICK j, s, t, old : j = job[tool] /\ s = call[tool].source /\ t = call[tool].target /\ old = call[tool]
  OBVIOUS
<1>2. /\ j # D!NoJob /\ job' = [job EXCEPT ![tool] = D!NoJob] /\ raw' = raw /\ vote' = vote
      /\ pending' = pending /\ cache' = cache /\ linked' = linked /\ spoiled' = spoiled
      /\ leftClouds' = leftClouds
  BY <1>1 DEF D!Commits
<1>3. D!Open' = D!Open
  BY <1>2, OpenStays
<1>4. \A v \in D!Viewers : job'[v] = job[v]
  BY <1>2 DEF CloudTypes, JobTypes, D!Callers, D!Tools, D!Viewers
<1>5. Older'
  BY <1>4 DEF RestInv, Older, Behind
<1>6. tool \in D!Callers
  BY DEF D!Callers
<1>7. call = [x \in D!Tools |-> call[x]] /\ "at" \in DOMAIN old
  BY <1>1 DEF CloudTypes, CallTypes, CallOf
<1>8. CASE D!Refused(j, s, t)
  <2>1. call' = [call EXCEPT ![tool].at = "failed"] /\ choice' = choice /\ inbox' = inbox
    BY <1>1, <1>8 DEF D!Commits
  <2>2. PICK n : n = [old EXCEPT !.at = "failed"]
    OBVIOUS
  <2>3. call' = [call EXCEPT ![tool] = n] /\ n.at = "failed"
    BY <1>1, <1>7, <2>1, <2>2
  <2>4. Filled'
    BY <1>2, <1>3, <1>7, <2>3 DEF RestInv, Filled
  <2>5. \A v \in D!Open : Transit(v) => Transit(v)'
    BY <1>2, <2>1 DEF Transit
  <2> QED BY <1>2, <1>3, <1>5, <2>1, <2>4, <2>5, RestStays
<1>9. CASE ~ D!Refused(j, s, t)
  <2>1. PICK new, reply : /\ new = D!After(j, s, t, g)
                          /\ reply = D!Result(IF new.on \/ j.kind = "split" THEN new.cache ELSE D!RawCloud(j.raw),
                                              j.kind # "off")
    OBVIOUS
  <2>2. /\ D!Publish([kind |-> "changed", raw |-> NoData])
        /\ call' = [call EXCEPT ![tool].at = "ok", ![tool].reply = reply]
    BY <1>1, <1>9, <2>1 DEF D!Commits
  <2>3. reply # NoData
    <3>2. j.kind = old.kind /\ old.at = "sent" /\ CallOf(old, raw)
      BY <1>1, <1>2 DEF CloudTypes, JobTypes, CallTypes
    <3>3. j.kind \in {"on", "off", "redo", "merge", "split"} /\ (j.kind = "merge" => s # t)
      BY <1>1, <3>2 DEF CallOf, Asked
    <3>1. raw \in [Words -> Nat] /\ Setting(j.choice, raw) /\ Held(j.raw, raw)
      BY <1>1, <1>2, <1>6, <3>3 DEF CloudTypes, ServerTypes, JobTypes, JobOf
    <3> QED BY <1>9, <2>1, <3>1, <3>3, SettingsReply
  <2>4. PICK n : n = [old EXCEPT !.at = "ok", !.reply = reply]
    OBVIOUS
  <2>5. call' = [x \in D!Tools |-> IF x = tool THEN n ELSE call[x]]
    BY <1>1, <1>7, <2>2, <2>4
  <2>6. n.reply = reply
    <3>1. "reply" \in DOMAIN old
      BY <1>1 DEF CloudTypes, CallTypes, CallOf
    <3> QED BY <2>4, <3>1
  <2>7. Filled'
    BY <1>2, <1>3, <2>3, <2>5, <2>6 DEF RestInv, Filled
  <2>8. ASSUME NEW v \in D!Open \ spoiled PROVE Heard(v)'
    <3>1. PICK e : e = [kind |-> "changed", raw |-> NoData]
      OBVIOUS
    <3>2. e \in Notices /\ e.kind = "changed"
      BY <3>1 DEF Notices
    <3>3. linked[v] /\ linked'[v] /\ v \in D!Viewers
      BY <1>2, <2>8 DEF RestInv, Heard, CloudTypes, ServerTypes, D!Open
    <3>4. inbox'[v] = Append(inbox[v], e) /\ inbox[v] \in Seq(Notices)
      BY <2>2, <2>8, <3>1, <3>3 DEF D!Publish, CloudTypes, ViewTypes, HeardOf
    <3>5. Has(Append(inbox[v], e), "changed")
      BY <3>2, <3>4, HasAppend
    <3>6. Coming(v)'
      BY <3>4, <3>5 DEF Coming
    <3> QED BY <3>3, <3>6, HeardComing
  <2> QED BY <1>2, <1>3, <1>5, <2>7, <2>8, RestTogether
<1> QED BY <1>8, <1>9

LEMMA LostRest == ASSUME RestInv, CloudTypes, NEW t \in D!Tools, D!LoseAnswer(t) PROVE RestInv'
<1>1. PICK old, n : old = call[t] /\ n = [old EXCEPT !.at = "failed"]
  OBVIOUS
<1>2. /\ call' = [call EXCEPT ![t] = n]
      /\ choice' = choice /\ raw' = raw /\ job' = job /\ cache' = cache /\ inbox' = inbox
      /\ linked' = linked /\ spoiled' = spoiled /\ vote' = vote /\ pending' = pending
  BY <1>1 DEF D!LoseAnswer, D!server, D!past
<1>3. D!Open' = D!Open
  BY SpendsOne DEF CloudTypes, D!LoseAnswer
<1>4. n.at = "failed"
  BY <1>1 DEF CloudTypes, CallTypes, CallOf
<1>5. Filled'
  BY <1>2, <1>3, <1>4 DEF RestInv, Filled, CloudTypes, CallTypes
<1>6. Older' /\ \A v \in D!Open : Transit(v) => Transit(v)'
  BY <1>2, OlderStays DEF RestInv, Transit
<1> QED BY <1>2, <1>3, <1>5, <1>6, RestStays

(* A viewer whose cache a step leaves alone, and a viewer whose cache it changes.       *)
LEMMA CachedRest ==
    ASSUME RestInv, CloudTypes, raw' = raw, choice' = choice, inbox' = inbox, linked' = linked,
           spoiled' = spoiled, vote' = vote, pending' = pending, job' = job, leftClouds' = leftClouds,
           NEW v \in D!Viewers, NEW q, cache' = [cache EXCEPT ![v] = q], q.data # NoData,
           q.fetch = "answered" => q.reply # NoData,
           \A t \in D!Tools : call'[t].at = "ok" => call[t].at = "ok" /\ call'[t].reply = call[t].reply,
           v \in D!Open \ spoiled => Heard(v)'
    PROVE  RestInv'
<1>1. D!Open' = D!Open
  BY OpenStays
<1>2. cache' = [w \in D!Viewers |-> IF w = v THEN q ELSE cache[w]]
  BY DEF CloudTypes, ViewTypes
<1>3. D!Open \subseteq D!Viewers
  BY DEF CloudTypes, ServerTypes, D!Open
<1>4. Filled'
  <2>1. \A t \in D!Tools : call'[t].at = "ok" => call'[t].reply # NoData
    BY DEF RestInv, Filled
  <2>2. \A w \in D!Open : cache'[w].data # NoData
          /\ (cache'[w].fetch = "answered" => cache'[w].reply # NoData)
    BY <1>2, <1>3 DEF RestInv, Filled
  <2> QED BY <1>1, <2>1, <2>2 DEF Filled
<1>5. ASSUME NEW w \in D!Open \ spoiled PROVE Heard(w)'
  <2>1. CASE w = v
    BY <1>5, <2>1
  <2>2. CASE w # v
    <3>1. Heard(w) /\ cache'[w] = cache[w] /\ linked'[w]
      BY <1>2, <1>3, <1>5, <2>2 DEF RestInv, Heard
    <3>2. (Coming(w) => Coming(w)') /\ (Transit(w) => Transit(w)') /\ LastFor(w)' = LastFor(w)
      BY <3>1 DEF Coming, Transit, LastFor
    <3> QED BY <3>1, <3>2, HeardStill
  <2> QED BY <2>1, <2>2
<1> QED BY <1>1, <1>4, <1>5, OlderStays, RestTogether DEF RestInv

LEMMA SettleRest == ASSUME RestInv, CloudTypes, NEW t \in D!Tools, D!Settles(t) PROVE RestInv'
<1>1. /\ call[t].at \in {"ok", "failed"} /\ call' = [call EXCEPT ![t] = D!NoCall]
      /\ raw' = raw /\ choice' = choice /\ job' = job /\ vote' = vote /\ pending' = pending
      /\ inbox' = inbox /\ linked' = linked /\ spoiled' = spoiled
      /\ leftClouds' = leftClouds
  BY DEF D!Settles, D!server, D!past
<1>2. \A x \in D!Tools : call'[x].at = "ok" => call[x].at = "ok" /\ call'[x].reply = call[x].reply
  BY <1>1 DEF CloudTypes, CallTypes, D!NoCall
<1>3. CASE call[t].at = "ok"
  <2>1. PICK r, q : r = call[t].reply /\ q = D!Updated(cache["bench"], r)
    OBVIOUS
  <2>2. r # NoData
    BY <1>3, <2>1 DEF RestInv, Filled
  <2>3. "bench" \in D!Viewers
    BY DEF D!Viewers
  <2>4. cache["bench"] \in Caches
    BY <2>3 DEF CloudTypes, ViewTypes, CacheOf
  <2>5. q.fetch = "asked" /\ q.data = r
    BY <2>1, <2>2, <2>4, QueryViews
  <2>6. cache' = [cache EXCEPT !["bench"] = q]
    BY <1>3, <2>1 DEF D!Settles
  <2>7. "bench" \in D!Open \ spoiled => Heard("bench")'
    <3>1. Coming("bench")'
      BY <2>3, <2>5, <2>6 DEF Coming, CloudTypes, ViewTypes
    <3> QED BY <1>1, <3>1, HeardComing DEF RestInv, Heard
  <2> QED BY <1>1, <1>2, <2>2, <2>3, <2>5, <2>6, <2>7, CachedRest
<1>4. CASE call[t].at # "ok"
  <2>1. cache' = cache /\ D!Open' = D!Open
    BY <1>1, <1>4, OpenStays DEF D!Settles
  <2>2. Filled'
    BY <1>2, <2>1 DEF RestInv, Filled
  <2>3. Older' /\ \A v \in D!Open : Transit(v) => Transit(v)'
    BY <1>1, OlderStays DEF RestInv, Transit
  <2> QED BY <1>1, <2>1, <2>2, <2>3, RestStays
<1> QED BY <1>3, <1>4

LEMMA FetchRest ==
    ASSUME RestInv, CloudTypes, NEW v \in D!Viewers, D!IntervalFires(v) \/ D!Serves(v) \/ D!Stores(v)
    PROVE  RestInv'
<1>1. /\ raw' = raw /\ choice' = choice /\ job' = job /\ vote' = vote /\ pending' = pending
      /\ call' = call /\ inbox' = inbox /\ linked' = linked
      /\ spoiled' = spoiled /\ leftClouds' = leftClouds
  BY DEF D!IntervalFires, D!Serves, D!Stores, D!server, D!past
<1>2. v \in D!Open
  BY TimesOpen DEF CloudTypes, D!IntervalFires, D!Serves, D!Stores
<1>3. PICK p : p = cache[v]
  OBVIOUS
<1>4. /\ p \in Caches /\ p.data # NoData /\ (p.fetch = "answered" => p.reply # NoData)
      /\ cache = [w \in D!Viewers |-> cache[w]]
  BY <1>2, <1>3 DEF RestInv, Filled, CloudTypes, ViewTypes, CacheOf
<1>5. v \in D!Open \ spoiled => Heard(v) /\ linked'[v]
  BY <1>1 DEF RestInv, Heard
<1>6. CASE D!IntervalFires(v)
  <2>1. PICK q : q = D!Fetched(p)
    OBVIOUS
  <2>2. cache' = [cache EXCEPT ![v] = q] /\ q.fetch = "asked" /\ q.data = p.data
    BY <1>3, <1>4, <1>6, <2>1, QueryViews DEF D!IntervalFires
  <2>3. v \in D!Open \ spoiled => Heard(v)'
    <3>1. Coming(v)'
      BY <1>4, <2>2 DEF Coming
    <3> QED BY <1>5, <3>1, HeardComing
  <2> QED BY <1>1, <1>4, <2>2, <2>3, CachedRest
<1>7. CASE D!Serves(v)
  <2>1. PICK d, q : d = D!Present /\ q = D!Answered(p, d)
    OBVIOUS
  <2>2. cache' = [cache EXCEPT ![v] = q] /\ D!Fresh
    BY <1>3, <1>7, <2>1 DEF D!Serves
  <2>3. q.fetch = "answered" /\ q.data = p.data /\ q.reply = d
    BY <1>4, <2>1, QueryViews
  <2>4. d # NoData /\ d.ai = choice.on
    BY <2>1, <2>2, PresentIs
  <2>5. v \in D!Open \ spoiled => Heard(v)'
    <3>1. LastFor(v)' = d
      BY <1>4, <2>2, <2>3 DEF LastFor
    <3>2. D!Present' = d /\ D!Fresh'
      BY <1>1, <2>1, <2>2 DEF D!Present, D!Fresh, D!Total, D!RawCloud
    <3> QED BY <1>1, <1>5, <2>4, <3>1, <3>2 DEF Heard
  <2> QED BY <1>1, <1>4, <2>2, <2>3, <2>4, <2>5, CachedRest
<1>8. CASE D!Stores(v)
  <2>1. PICK q : q = D!Stored(p)
    OBVIOUS
  <2>2. cache' = [cache EXCEPT ![v] = q] /\ p.fetch = "answered"
    BY <1>3, <1>8, <2>1 DEF D!Stores
  <2>3. q.fetch = "idle" /\ q.data = p.reply
    BY <1>4, <2>1, QueryViews
  <2>4. v \in D!Open \ spoiled => Heard(v)'
    <3>1. LastFor(v)' = LastFor(v)
      BY <1>3, <1>4, <2>2, <2>3 DEF LastFor
    <3>2. (Coming(v) => Coming(v)') /\ (Transit(v) => Transit(v)')
      BY <1>1, <1>3, <2>2 DEF Coming, Transit
    <3> QED BY <1>1, <1>5, <3>1, <3>2, HeardStill
  <2> QED BY <1>1, <1>4, <2>2, <2>3, <2>4, CachedRest
<1> QED BY <1>6, <1>7, <1>8

LEMMA LinkRest ==
    ASSUME RestInv, CloudTypes, NEW v \in D!Viewers, D!LoseSocket(v) \/ D!Reconnect(v)
    PROVE  RestInv'
<1>1. /\ raw' = raw /\ choice' = choice /\ job' = job /\ vote' = vote /\ pending' = pending
      /\ call' = call /\ cache' = cache
  BY DEF D!LoseSocket, D!Reconnect, D!server
<1>2. D!Open' = D!Open
  <2>1. CASE D!LoseSocket(v)
    BY <2>1, SpendsOne DEF CloudTypes, D!LoseSocket
  <2>2. CASE D!Reconnect(v)
    BY <2>2, OpenStays DEF D!Reconnect
  <2> QED BY <2>1, <2>2
<1>3. \A w \in D!Viewers \ {v} : inbox'[w] = inbox[w] /\ linked'[w] = linked[w]
  BY DEF D!LoseSocket, D!Reconnect, CloudTypes, ViewTypes
<1>4. spoiled \subseteq spoiled' /\ (v \in spoiled' \/ ~ linked[v])
  BY DEF D!LoseSocket, D!Reconnect, D!past
<1>5. ASSUME NEW w \in D!Open \ spoiled' PROVE Heard(w)'
  <2>1. Heard(w) /\ w \in D!Viewers
    BY <1>4, <1>5 DEF RestInv, CloudTypes, ServerTypes, D!Open
  <2>2. w # v
    BY <1>4, <1>5, <2>1 DEF Heard
  <2>3. linked'[w] /\ inbox'[w] = inbox[w]
    BY <1>3, <2>1, <2>2 DEF Heard
  <2>4. (Coming(w) => Coming(w)') /\ (Transit(w) => Transit(w)') /\ LastFor(w)' = LastFor(w)
    BY <1>1, <2>3 DEF Coming, Transit, LastFor
  <2> QED BY <1>1, <2>1, <2>3, <2>4, HeardStill
<1> QED BY <1>1, <1>2, <1>5, FilledStays, OlderStays, RestTogether DEF RestInv

LEMMA DeliverRest == ASSUME RestInv, CloudTypes, NEW v \in D!Viewers, D!Deliver(v) PROVE RestInv'
<1>1. PICK e, q, s, n : /\ e = Head(inbox[v]) /\ q = cache[v] /\ s = Tail(inbox[v])
                        /\ n = IF e.kind = "counts" THEN D!Pushed(q, e) ELSE D!OnChanged(q, e)
  OBVIOUS
<1>2. /\ inbox[v] # <<>> /\ inbox' = [inbox EXCEPT ![v] = s] /\ cache' = [cache EXCEPT ![v] = n]
      /\ raw' = raw /\ choice' = choice /\ job' = job /\ vote' = vote /\ pending' = pending
      /\ call' = call /\ linked' = linked /\ leftClouds' = leftClouds
      /\ spoiled' = IF e.kind = "counts" /\ (q.data.ai \/ ~ D!Idle(q) \/ e.raw # raw)
                    THEN spoiled \cup {v} ELSE spoiled
  BY <1>1 DEF D!Deliver, D!server
<1>3. D!Open' = D!Open /\ v \in D!Open /\ D!Open \subseteq D!Viewers
  BY <1>2, OpenStays, TimesOpen DEF CloudTypes, ServerTypes, D!Open
<1>4. /\ q \in Caches /\ q.data # NoData /\ (q.fetch = "answered" => q.reply # NoData)
      /\ q.data \in Results /\ inbox[v] \in Seq(Notices) /\ D!Loaded(q)
  BY <1>1, <1>3 DEF RestInv, Filled, CloudTypes, ViewTypes, CacheOf, Shows, HeardOf, D!Loaded
<1>5. e \in Notices /\ (e.kind = "counts" => e.raw \in [Words -> Nat])
  <2>1. Len(inbox[v]) \in Nat /\ Len(inbox[v]) # 0 /\ e = inbox[v][1]
    BY <1>1, <1>2, <1>4, LenProperties, EmptySeq
  <2>2. 1 \in 1 .. Len(inbox[v])
    BY <2>1
  <2>3. e \in Notices
    BY <1>4, <2>1, <2>2, ElementOfSeq
  <2>4. e.kind = "counts" => Held(e.raw, raw)
    BY <2>1, <2>2 DEF CloudTypes, ViewTypes, HeardOf
  <2> QED BY <2>3, <2>4 DEF Held
<1>6. CASE e.kind # "counts"
  <2>1. n = D!Refetched(q)
    BY <1>1, <1>6 DEF D!OnChanged
  <2>2. n.fetch = "asked" /\ n.data = q.data
    BY <1>4, <2>1, QueryViews
  <2>3. spoiled' = spoiled
    BY <1>2, <1>6
  <2>4. \A w \in D!Viewers : w # v => cache'[w] = cache[w] /\ inbox'[w] = inbox[w]
    BY <1>2 DEF CloudTypes, ViewTypes
  <2>5. cache'[v] = n
    BY <1>2 DEF CloudTypes, ViewTypes
  <2>6. Filled'
    BY <1>2, <1>3, <1>4, <2>2, <2>4, <2>5 DEF RestInv, Filled
  <2>7. ASSUME NEW w \in D!Open \ spoiled PROVE Heard(w)'
    <3>1. Heard(w) /\ linked'[w] /\ w \in D!Viewers
      BY <1>2, <1>3, <2>7 DEF RestInv, Heard
    <3>2. CASE w = v
      <4>1. Coming(w)'
        BY <2>2, <2>5, <3>2 DEF Coming
      <4> QED BY <3>1, <4>1, HeardComing
    <3>3. CASE w # v
      <4>1. (Coming(w) => Coming(w)') /\ (Transit(w) => Transit(w)') /\ LastFor(w)' = LastFor(w)
        BY <1>2, <2>4, <3>1, <3>3 DEF Coming, Transit, LastFor
      <4> QED BY <1>2, <3>1, <4>1, HeardStill
    <3> QED BY <3>2, <3>3
  <2> QED BY <1>2, <1>3, <2>3, <2>6, <2>7, OlderStays, RestTogether DEF RestInv
<1>7. CASE e.kind = "counts"
  <2>1. PICK c, d : c = D!RawCloud(e.raw) /\ d = [q.data EXCEPT !.cloud = c]
    OBVIOUS
  <2>2. n = D!Patched(q, d)
    BY <1>1, <1>7, <2>1 DEF D!Pushed
  <2>3. Fits(c, e.raw)
    BY <1>5, <1>7, <2>1, RawFits
  <2>4. d \in Results /\ d.cloud = c /\ d.ai = q.data.ai /\ d # NoData
    <3>1. d \in Results /\ d.cloud = c /\ d.ai = q.data.ai
      BY <1>4, <2>1, <2>3 DEF Results, Fits
    <3> QED BY <3>1, Markers
  <2>5. n.data = d /\ n.fetch = q.fetch /\ n.reply = q.reply
    BY <1>4, <2>2, QueryViews
  <2>6. \A w \in D!Viewers : w # v => cache'[w] = cache[w] /\ inbox'[w] = inbox[w]
    BY <1>2 DEF CloudTypes, ViewTypes
  <2>7. cache'[v] = n /\ inbox'[v] = s
    BY <1>2 DEF CloudTypes, ViewTypes
  <2>8. Filled'
    BY <1>2, <1>3, <1>4, <2>4, <2>5, <2>6, <2>7 DEF RestInv, Filled
  <2>9. spoiled \subseteq spoiled'
    BY <1>2
  <2>10. ASSUME NEW w \in D!Open \ spoiled' PROVE Heard(w)'
    <3>1. Heard(w) /\ linked'[w] /\ w \in D!Viewers
      BY <1>2, <1>3, <2>9, <2>10 DEF RestInv, Heard
    <3>2. CASE w # v
      <4>1. (Coming(w) => Coming(w)') /\ (Transit(w) => Transit(w)') /\ LastFor(w)' = LastFor(w)
        BY <1>2, <2>6, <3>1, <3>2 DEF Coming, Transit, LastFor
      <4> QED BY <1>2, <3>1, <4>1, HeardStill
    <3>3. CASE w = v
      <4>1. ~ q.data.ai /\ D!Idle(q) /\ e.raw = raw
        BY <1>2, <1>7, <2>10, <3>3
      <4>2. q.fetch = "idle" /\ d.ai = FALSE /\ c = D!RawCloud(raw) /\ q.data.ai = FALSE
        BY <1>4, <2>1, <2>4, <4>1 DEF D!Idle, Results
      <4>3. Has(inbox[v], "changed") => Has(s, "changed")
        BY <1>1, <1>2, <1>4, <1>7, HasTail
      <4>4. Coming(v) => Coming(v)'
        BY <1>1, <2>7, <4>2, <4>3 DEF Coming
      <4>5. LastFor(v)' = d
        BY <2>5, <2>7, <4>2 DEF LastFor
      <4>6. ASSUME ~ Coming(v)' PROVE d.ai = choice.on /\ d = D!Present /\ D!Fresh
        <5>1. LastFor(v) = q.data /\ ~ Coming(v)
          BY <1>1, <4>2, <4>4, <4>6 DEF LastFor
        <5>2. choice.on = FALSE
          BY <3>1, <3>3, <4>2, <5>1 DEF Heard
        <5>3. d = D!Result(D!RawCloud(raw), FALSE)
          BY <2>4, <4>2 DEF Results, D!Result
        <5> QED BY <4>2, <5>2, <5>3 DEF D!Present, D!Fresh
      <4>7. D!Present' = D!Present /\ D!Fresh' = D!Fresh
        BY <1>2 DEF D!Present, D!Fresh, D!Total, D!RawCloud
      <4> QED BY <1>2, <3>1, <3>3, <4>5, <4>6, <4>7 DEF Heard
    <3> QED BY <3>2, <3>3
  <2> QED BY <1>2, <1>3, <2>8, <2>10, OlderStays, RestTogether DEF RestInv
<1> QED BY <1>6, <1>7

(* A cloud computed for a viewer from what the server still has: those that heard       *)
(* everything have votes under way to them, or wait for an answer.                     *)
LEMMA StoreRest ==
    ASSUME RestInv, CloudTypes, CloudInv, NEW v \in D!Viewers, NEW g \in Groupings, D!StoresCloud(v, g)
    PROVE  RestInv'
<1>1. PICK j, n : j = job[v] /\ n = D!Recomputed(j, g)
  OBVIOUS
<1>2. /\ j # D!NoJob /\ j.kind = "words" /\ job' = [job EXCEPT ![v] = D!NoJob] /\ choice' = n
      /\ cache' = IF cache[v].fetch = "asked"
                  THEN [cache EXCEPT ![v] = D!Answered(@, D!Result(n.cache, TRUE))] ELSE cache
      /\ raw' = raw /\ vote' = vote /\ pending' = pending /\ call' = call /\ inbox' = inbox
      /\ linked' = linked /\ leftClouds' = leftClouds
      /\ spoiled' = IF D!Late(j) THEN D!Viewers ELSE spoiled
  BY <1>1 DEF D!StoresCloud, D!NoJob
<1>3. v \in D!Callers /\ D!Viewers \subseteq D!Callers /\ D!Open' = D!Open /\ D!Open \subseteq D!Viewers
  BY <1>2, OpenStays DEF D!Callers, CloudTypes, ServerTypes, D!Open
<1>4. /\ Setting(j.choice, raw) /\ Held(j.raw, raw) /\ raw \in [Words -> Nat]
      /\ j.count \in 0 .. D!Total(raw)
  BY <1>1, <1>2, <1>3 DEF CloudTypes, JobTypes, JobOf, ServerTypes
<1>5. Fits(n.cache, raw)
  BY <1>1, <1>4, AgainFits
<1>6. n.on = TRUE /\ n.at = j.count
  BY <1>1 DEF D!Recomputed, D!Settings
<1>7. PICK d : d = D!Result(n.cache, TRUE)
  OBVIOUS
<1>8. d # NoData /\ d.ai = TRUE
  BY <1>5, <1>7, FitsResult
<1>9. PICK q : q = D!Answered(cache[v], d)
  OBVIOUS
<1>10. q.fetch = "answered" /\ q.data = cache[v].data /\ q.reply = d
  <2>1. cache[v] \in Caches
    BY DEF CloudTypes, ViewTypes, CacheOf
  <2> QED BY <1>9, <2>1, QueryViews
<1>11. /\ cache[v].fetch = "asked" => cache'[v] = q
       /\ cache[v].fetch # "asked" => cache'[v] = cache[v]
       /\ \A w \in D!Viewers : w # v => cache'[w] = cache[w]
  BY <1>2, <1>7, <1>9 DEF CloudTypes, ViewTypes
<1>12. Filled'
  <2>2. (q.data # NoData /\ q.reply # NoData) \/ v \notin D!Open
    BY <1>8, <1>10 DEF RestInv, Filled
  <2>3. ASSUME NEW w \in D!Open
        PROVE  cache'[w].data # NoData /\ (cache'[w].fetch = "answered" => cache'[w].reply # NoData)
    <3>1. CASE w = v /\ cache[v].fetch = "asked"
      BY <1>11, <2>2, <2>3, <3>1
    <3>2. CASE ~ (w = v /\ cache[v].fetch = "asked")
      <4>1. cache'[w] = cache[w]
        BY <1>3, <1>11, <2>3, <3>2
      <4> QED BY <2>3, <4>1 DEF RestInv, Filled
    <3> QED BY <3>1, <3>2
  <2> QED BY <1>2, <1>3, <2>3 DEF RestInv, Filled
<1>13. Older'
  <2>1. \A w \in D!Viewers : job'[w] = D!NoJob \/ job'[w] = job[w]
    BY <1>2, <1>3 DEF CloudTypes, JobTypes
  <2>2. D!NoJob.kind = "none"
    BY DEF D!NoJob
  <2> QED BY <2>1, <2>2 DEF RestInv, Older, Behind
<1>14. ASSUME NEW w \in D!Open \ spoiled' PROVE Heard(w)'
  <2>1. j.choice = choice /\ j.raw = raw /\ j.count = D!Total(raw) /\ w \in D!Open \ spoiled
    BY <1>2, <1>3, <1>14 DEF D!Late
  <2>2. Heard(w) /\ linked'[w] /\ w \in D!Viewers
    BY <1>2, <1>3, <2>1 DEF RestInv, Heard
  <2>3. choice.on = TRUE
    BY <1>1, <1>2, <2>1 DEF CloudInv
  <2>4. ~ D!Fresh
    <3>1. Behind(j)
      BY <1>1, <1>2 DEF RestInv, Older
    <3>2. choice.cache = NoData \/ choice.at < D!Total(raw)
      BY <2>1, <3>1 DEF Behind
    <3>3. choice.at \in 0 .. D!Total(raw) /\ D!Total(raw) \in Nat
      BY <1>4, <2>1, TotalBounds DEF Setting
    <3> QED BY <2>3, <3>2, <3>3 DEF D!Fresh
  <2>5. CASE w = v /\ cache[v].fetch = "asked"
    <3>1. LastFor(w)' = d
      BY <1>10, <1>11, <2>5 DEF LastFor
    <3>2. D!Present' = d
      BY <1>2, <1>6, <1>7 DEF D!Present
    <3>3. D!Fresh'
      <4>1. n.cache # NoData /\ n.at = D!Total(raw)
        BY <1>5, <1>6, <2>1, Markers DEF Fits
      <4> QED BY <1>2, <4>1 DEF D!Fresh, D!Total
    <3> QED BY <1>2, <1>6, <1>8, <2>2, <3>1, <3>2, <3>3 DEF Heard
  <2>6. CASE ~ (w = v /\ cache[v].fetch = "asked")
    <3>1. cache'[w] = cache[w]
      BY <1>11, <2>2, <2>6
    <3>2. (Coming(w) => Coming(w)') /\ LastFor(w)' = LastFor(w) /\ (Transit(w) => Transit(w)')
      <4>1. inbox' = inbox /\ vote' = vote /\ pending' = pending
        BY <1>2
      <4>2. (Coming(w) => Coming(w)') /\ LastFor(w)' = LastFor(w)
        BY <3>1, <4>1 DEF Coming, LastFor
      <4>3. Transit(w) => Transit(w)'
        BY <4>1 DEF Transit
      <4> QED BY <4>2, <4>3
    <3>3. ~ Coming(w) => Transit(w) /\ LastFor(w).ai = TRUE
      BY <2>2, <2>3, <2>4 DEF Heard
    <3> QED BY <1>2, <1>6, <2>2, <3>2, <3>3 DEF Heard
  <2> QED BY <2>5, <2>6
<1> QED BY <1>3, <1>12, <1>13, <1>14, RestTogether

LEMMA RestNext == CloudInv /\ CloudTypes /\ RestInv /\ [D!Next]_D!vars => RestInv'
<1> SUFFICES ASSUME CloudInv, CloudTypes, RestInv, [D!Next]_D!vars PROVE RestInv'
  OBVIOUS
<1>1. CASE UNCHANGED D!vars
  <2>1. /\ raw' = raw /\ choice' = choice /\ job' = job /\ vote' = vote /\ pending' = pending
        /\ call' = call /\ cache' = cache /\ inbox' = inbox /\ linked' = linked
        /\ spoiled' = spoiled /\ leftClouds' = leftClouds
    BY <1>1 DEF D!vars, D!server, D!pages, D!past
  <2>2. D!Open' = D!Open
    BY <2>1, OpenStays
  <2>3. Filled' /\ Older' /\ \A v \in D!Open : Transit(v) => Transit(v)'
    BY <2>1, <2>2, FilledStays, OlderStays DEF RestInv, Transit
  <2> QED BY <2>1, <2>2, <2>3, RestStays
<1>2. "button" \in D!Tools /\ "drag" \in D!Tools
  BY DEF D!Tools
<1>3. ASSUME NEW kind \in {"on", "off", "redo"}, D!Press(kind) PROVE RestInv'
  BY <1>2, <1>3, AskedRest DEF D!Press
<1>4. CASE D!Drag
  BY <1>2, <1>4, AskedRest DEF D!Drag
<1>5. CASE D!Split
  BY <1>2, <1>5, AskedRest DEF D!Split
<1> QED BY <1>1, <1>3, <1>4, <1>5, VotesRest, SentRest, ReadRest, HandlesRest, CommitRest, LostRest, SettleRest,
           FetchRest, LinkRest, DeliverRest, StoreRest DEF D!Next

LEMMA RestGives == RestInv /\ CloudTypes => D!CloudAtRest
<1> SUFFICES ASSUME RestInv, CloudTypes, NEW v \in D!Open \ spoiled, D!AtRest(v)
             PROVE  cache[v].data = D!Present
  BY DEF D!CloudAtRest
<1>1. Heard(v) /\ cache[v].fetch = "idle" /\ inbox[v] = <<>>
  BY DEF RestInv, D!AtRest, D!Idle
<1>2. ~ Coming(v) /\ ~ Transit(v)
  <2>1. \A kind : ~ Has(<<>>, kind)
    <3>1. Len(<<>>) = 0
      OBVIOUS
    <3> QED BY <3>1 DEF Has
  <2> QED BY <1>1, <2>1 DEF Coming, Transit, D!AtRest
<1> QED BY <1>1, <1>2 DEF Heard, LastFor

-----------------------------------------------------------------------------
(* A behaviour follows one part, and a step of it is a step of the part.           *)
LEMMA PartIsKept == [Next]_vars => part' = part
BY DEF Next, vars

LEMMA ModerationStep == part = "moderation" /\ [Next]_vars => [M!Next]_M!vars
BY DEF Next, vars, varsM, M!vars, M!rows, M!bar, M!trace

LEMMA BenchStep == part = "workbench" /\ [Next]_vars => [W!Next]_W!vars
BY DEF Next, vars, varsW, W!vars, W!server, W!cache, W!place, W!socket, W!wire, W!trace

LEMMA BuilderStep == part = "builder" /\ [Next]_vars => [B!Next]_B!vars
BY DEF Next, vars, varsB, B!vars, B!page

LEMMA CloudStep == part = "clouds" /\ [Next]_vars => [D!Next]_D!vars
BY DEF Next, vars, varsD, D!vars, D!server, D!pages, D!past

(* What holds of the part that is followed.                                        *)
PartInv ==
    /\ part \in {"moderation", "workbench", "builder", "clouds"}
    /\ part = "moderation" => LightInv /\ ModerationInv
    /\ part = "workbench"  => BenchInv /\ GoneInv /\ TidyInv /\ OrderInv /\ ButtonsInv
    /\ part = "builder"    => EditorBounds /\ EditorInv
    /\ part = "clouds"     => CloudInv /\ CloudTypes /\ RestInv

LEMMA PartsInit == Init => PartInv
BY LightInit, ModerationInit, BenchInit, GoneInit, TidyInit, OrderInit, ButtonsInit, BoundsInit, EditorInit,
   CloudInit, CloudTypesInit, RestInit DEF Init, PartInv

LEMMA PartsNext == PartInv /\ [Next]_vars => PartInv'
<1> SUFFICES ASSUME PartInv, [Next]_vars PROVE PartInv'
  OBVIOUS
<1>1. part' = part /\ part \in {"moderation", "workbench", "builder", "clouds"}
  BY PartIsKept DEF PartInv
<1>2. CASE part = "moderation"
  <2>1. LightInv' /\ ModerationInv'
    BY <1>2, ModerationStep, LightNext, ModerationNext DEF PartInv
  <2> QED BY <1>1, <1>2, <2>1 DEF PartInv
<1>3. CASE part = "workbench"
  <2>1. BenchInv' /\ GoneInv' /\ TidyInv' /\ OrderInv' /\ ButtonsInv'
    BY <1>3, BenchStep, BenchNext, GoneNext, TidyNext, OrderNext, ButtonsNext DEF PartInv
  <2> QED BY <1>1, <1>3, <2>1 DEF PartInv
<1>4. CASE part = "builder"
  <2>1. EditorBounds' /\ EditorInv'
    BY <1>4, BuilderStep, BoundsNext, EditorNext DEF PartInv
  <2> QED BY <1>1, <1>4, <2>1 DEF PartInv
<1>5. CASE part = "clouds"
  <2>1. CloudInv' /\ CloudTypes' /\ RestInv'
    BY <1>5, CloudStep, CloudNext, CloudTypesNext, RestNext DEF PartInv
  <2> QED BY <1>1, <1>5, <2>1 DEF PartInv
<1> QED BY <1>1, <1>2, <1>3, <1>4, <1>5

LEMMA PartsHold == Spec => []PartInv
BY PartsInit, PartsNext, PTL DEF Spec

(* What the host chose stands, whatever another host, lost requests and refetches do   *)
(* meanwhile: at most one question is highlighted unless two highlights overlapped     *)
(* (_apply_highlight), an item switched to at rest runs at rest again (selectItem), and *)
(* the clustering and merges of a cloud are as last asked unless a handler wrote across  *)
(* another (cluster_word_cloud).                                                   *)
THEOREM ChoiceStands == Spec => []HostsChoiceKept
<1>1. PartInv => HostsChoiceKept
  BY LightGives, BenchGives, CloudGives DEF PartInv, HostsChoiceKept
<1> QED BY <1>1, PartsHold, PTL

(* The editor's form, once filled, changes by the user's edits alone: no refetch,      *)
(* autosave, error or other host touches it (the effect of PollBuilderPage).          *)
THEOREM FormIsTheUsers == Spec => FormKept
<1>1. PartInv /\ [Next]_vars => [part = "builder" => B!OnlyEdits]_vars
  BY BuilderStep, EditsOnly DEF PartInv
<1> QED BY <1>1, PartsHold, PTL DEF Spec, FormKept

(* Whatever the hosts press and whatever is lost, the questions, the list and its      *)
(* items, the editor's form and a cloud's settings stay what the code can handle.      *)
THEOREM PagesAreTyped == Spec => []TypeOK
<1>1. PartInv => TypeOK
  BY ModerationGives, TidyGives, EditorGives, CloudTypesGive DEF PartInv, TypeOK
<1> QED BY <1>1, PartsHold, PTL

(* Neither merging questions (merge_questions sums the duplicates' counts and marks     *)
(* them), nor counting, moderating or taking apart, loses or doubles a vote, unless a   *)
(* vote or another merge met it halfway; and a clustered cloud shows no word's answers  *)
(* twice, or more of them than there were (cluster_word_cloud, apply_cloud_merge).       *)
THEOREM NoVoteLost == Spec => []VotesAddUp
<1>1. PartInv => VotesAddUp
  BY ModerationGives, CloudTypesGive DEF PartInv, VotesAddUp
<1> QED BY <1>1, PartsHold, PTL

(* At rest a host's page shows what the server has: the questions and votes of the     *)
(* panel, the buttons of the selected poll and the order of the list, the cloud; and    *)
(* what the editor saved is what the form says.  What the code leaves a page without    *)
(* (a lost event or answer, an overtaken one, a late clustering) is in the histories.   *)
THEOREM HostSeesTruly == Spec => []HostAtRest
<1>1. PartInv => HostAtRest
  BY ModerationGives, ButtonsGives, OrderGives, EditorGives, RestGives DEF PartInv, HostAtRest
<1> QED BY <1>1, PartsHold, PTL
==============================================================================
