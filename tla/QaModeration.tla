---------------------------- MODULE QaModeration ----------------------------
(* The host's moderation of questions: the panel's list with its buttons,      *)
(* merging by dragging one card on another or by a cluster the AI scan found,    *)
(* taking a merged question out again, replies; the server's handlers, which     *)
(* read in one step and write in a later one; and another host's requests.      *)
EXTENDS Integers, FiniteSets

CONSTANTS
    Questions, NoQuestion, NoData,
    FirstVotes,         \* upvotes each question was given before the start
    ModerationCases     \* where a behaviour starts (statuses, what is merged), and its
                        \* bounds: buttons pressed, replies, merges and their undoing,
                        \* requests of another host, votes counted, faults

Status == {"pending", "approved", "answered", "dismissed", "archived"}

ModerationAssumption ==
    /\ NoQuestion \notin Questions /\ IsFiniteSet(Questions)
    /\ FirstVotes \in [Questions -> Nat]
    /\ ModerationCases \subseteq
         [start : [Questions -> Status], into : [Questions -> Questions \cup {NoQuestion}],
          spare : [clicks : Nat, replies : Nat, merges : Nat, rivals : Nat, votes : Nat,
                   faults : Nat]]

INSTANCE QueryCache

VARIABLES
    status, up, into, lit, replied,  \* server: the rows of the questions
    items,     \* the panel's cache of the list
    request,   \* what each mutation of the panel, and another host, has under way
    clusters,  \* the AI bar's suggestions
    detail, parts, \* the question whose merged ones are shown, and those
    drafts,    \* questions whose reply form is open
    own,       \* history: the votes each question was given itself
    met,       \* history: a merge that another one, or a vote, had overtaken
    again,     \* history: a merge of what was merged already
    raced,     \* history: two highlights overlapped
    behind,    \* history: the last the panel was told is out of date
    spare      \* what is left of the behaviour's bounds

rows  == <<status, up, into, lit, replied>>
bar   == <<clusters, detail, parts, drafts>>
trace == <<own, met, again, raced>>
vars  == <<rows, items, request, bar, trace, behind, spare>>

Channels    == {"buttons", "drag", "cluster", "undo", "reply", "rival"}
Transitions == {"approve", "dismiss", "archive", "restore", "unapprove", "answer", "unanswer"}
Marks       == {"highlight", "unhighlight"}
Kinds       == Transitions \cup Marks \cup {"merge", "unmerge", "reply"}
NoRequest   == [kind |-> "none", q |-> NoQuestion, dups |-> {}, at |-> "free", read |-> NoData]
Ask(kind, q, dups) ==
    [NoRequest EXCEPT !.kind = kind, !.q = q, !.dups = dups, !.at = "asked"]

(* list_moderation: every question that is not merged into another.             *)
Row(q) == [status |-> status[q], up |-> up[q], lit |-> q \in lit, replied |-> q \in replied,
           parts |-> {x \in Questions : into[x] = q}]
Listing == [q \in {x \in Questions : into[x] = NoQuestion} |-> Row(q)]

(* Votes of a set of questions, counted one by one; and the questions a question      *)
(* speaks for: itself, and those merged into one it speaks for.                    *)
Tally(votes, asked) == Cardinality(UNION {{q} \X (1 .. votes[q]) : q \in asked})
Gathered(q) ==
    {x \in Questions : \A s \in SUBSET Questions :
        q \in s /\ (\A y \in Questions : into[y] \in s => y \in s) => x \in s}

Init ==
    /\ \E case \in ModerationCases :
         status = case.start /\ into = case.into /\ spare = case.spare
    /\ own = FirstVotes
    /\ up = [q \in Questions |-> Tally(own, Gathered(q))]
    /\ lit = {} /\ replied = {}
    /\ items = Written(Unused, Listing)
    /\ request = [c \in Channels |-> NoRequest]
    /\ clusters = {} /\ detail = NoQuestion /\ parts = {} /\ drafts = {}
    /\ met = FALSE /\ again = FALSE /\ raced = FALSE /\ behind = FALSE

Take(kind) == spare[kind] > 0 /\ spare' = [spare EXCEPT ![kind] = @ - 1]

Free(c)    == request[c] = NoRequest
Send(c, r) == request' = [request EXCEPT ![c] = r]
Put(data)  == IF detail \in DOMAIN data THEN data[detail].parts ELSE parts

-----------------------------------------------------------------------------
(* The panel.  A card is in the column of its cached status, with the buttons   *)
(* of that column; one request disables every button.                          *)
Shown   == {q \in DOMAIN items.data :
              items.data[q].status \in {"pending", "approved", "answered"}}
Offered(row) ==
    CASE row.status = "pending"  -> {"approve", "dismiss"}
      [] row.status = "approved" ->
           {"unapprove", "answer", "archive", IF row.lit THEN "unhighlight" ELSE "highlight"}
      [] row.status = "answered" -> {"unanswer", "archive"}

Press(q, kind) ==
    /\ Free("buttons") /\ q \in Shown /\ kind \in Offered(items.data[q])
    /\ Take("clicks") /\ Send("buttons", Ask(kind, q, {}))
    /\ UNCHANGED <<rows, items, bar, trace, behind>>

(* handleDrop: any card on any other.                                          *)
Drop(q, onto) ==
    /\ Free("drag") /\ {q, onto} \subseteq Shown /\ q # onto
    /\ Take("merges") /\ Send("drag", Ask("merge", onto, {q}))
    /\ UNCHANGED <<rows, items, bar, trace, behind>>

(* dedup_room_questions: the model is given every open question.                *)
Scan(q, dups) ==
    /\ spare.merges > 0
    /\ clusters = {} /\ dups # {} /\ q \notin dups
    /\ \A x \in dups \cup {q} : status[x] \in {"pending", "approved", "answered"}
    /\ clusters' = {[q |-> q, dups |-> dups]}
    /\ UNCHANGED <<rows, items, request, detail, parts, drafts, trace, behind, spare>>

MergeCluster(c) ==
    /\ c \in clusters /\ Free("cluster")
    /\ Take("merges") /\ Send("cluster", Ask("merge", c.q, c.dups))
    /\ UNCHANGED <<rows, items, bar, trace, behind>>

DismissCluster(c) ==
    /\ c \in clusters /\ clusters' = clusters \ {c}
    /\ UNCHANGED <<rows, items, request, detail, parts, drafts, trace, behind, spare>>

OpenDetail(q) ==
    /\ detail = NoQuestion /\ q \in Shown /\ items.data[q].parts # {} /\ spare.merges > 0
    /\ detail' = q /\ parts' = items.data[q].parts
    /\ UNCHANGED <<rows, items, request, clusters, drafts, trace, behind, spare>>

CloseDetail ==
    /\ detail # NoQuestion /\ detail' = NoQuestion /\ parts' = {}
    /\ UNCHANGED <<rows, items, request, clusters, drafts, trace, behind, spare>>

TakeOut(q) ==
    /\ q \in parts /\ Free("undo")
    /\ Take("merges") /\ Send("undo", Ask("unmerge", q, {}))
    /\ UNCHANGED <<rows, items, bar, trace, behind>>

(* The form stays open while its card is in the columns that have one.          *)
OpenReply(q) ==
    /\ q \in Shown \ drafts /\ items.data[q].status # "pending" /\ spare.replies > 0
    /\ drafts' = drafts \cup {q}
    /\ UNCHANGED <<rows, items, request, clusters, detail, parts, trace, behind, spare>>

Reply(q) ==
    /\ q \in drafts /\ Free("reply") /\ Take("replies") /\ Send("reply", Ask("reply", q, {}))
    /\ UNCHANGED <<rows, items, bar, trace, behind>>

(* Another host presses, drops or takes out, from a list of its own.            *)
Rival(kind, q, dups) ==
    /\ Free("rival") /\ Take("rivals")
    /\ q \notin dups /\ (kind = "merge" <=> dups # {})
    /\ Send("rival", Ask(kind, q, dups))
    /\ UNCHANGED <<rows, items, bar, trace, behind>>

-----------------------------------------------------------------------------
(* The server.  A handler reads its rows, then writes and commits.              *)
From(kind) == CASE kind = "approve"   -> {"pending"}
                [] kind = "dismiss"   -> {"pending", "approved"}
                [] kind = "archive"   -> {"approved", "answered"}
                [] kind = "restore"   -> {"dismissed"}
                [] kind = "unapprove" -> {"approved"}
                [] kind = "answer"    -> {"approved"}
                [] kind = "unanswer"  -> {"answered"}
To(kind) == CASE kind = "approve" -> "approved" [] kind = "dismiss" -> "dismissed"
              [] kind = "archive" -> "archived" [] kind \in {"restore", "unapprove"} -> "pending"
              [] kind = "answer" -> "answered"  [] kind = "unanswer" -> "approved"

Refused(r) == \/ r.kind \in Transitions /\ status[r.q] \notin From(r.kind)
              \/ r.kind = "unmerge" /\ into[r.q] = NoQuestion

NothingCleared(r) == {}  \* mutant: a highlight leaves the others

(* _apply_highlight clears the others it finds.                                 *)
Cleared(r) == IF r.kind = "highlight" THEN lit \ {r.q} ELSE {}

Read(c) ==
    LET r == request[c] IN
    /\ r.at = "asked"
    /\ IF Refused(r) THEN Send(c, [r EXCEPT !.at = "failed"])
       ELSE Send(c, [r EXCEPT !.at = "read",
                              !.read = [up |-> up, into |-> into, cleared |-> Cleared(r)]])
    /\ raced' = (raced \/ (r.kind = "highlight" /\ \E d \in Channels \ {c} :
                   request[d].kind = "highlight" /\ request[d].at = "read"))
    /\ UNCHANGED <<rows, items, bar, own, met, again, behind, spare>>

Touched(r) == CASE r.kind = "merge"   -> r.dups \cup {r.q}
                [] r.kind = "unmerge" -> {r.q, r.read.into[r.q]}
                [] OTHER -> {}

Overtaken(r) ==
    \E x \in Touched(r) : <<up[x], into[x]>> # <<r.read.up[x], r.read.into[x]>>
Again(r) ==
    \/ r.kind = "merge" /\ \E x \in Touched(r) : into[x] # NoQuestion
    \/ r.kind = "unmerge" /\ into[r.read.into[r.q]] # NoQuestion

(* What a merge adds is what it read, whoever counted or merged since.          *)
Merged(r, q) == r.read.up[q] + Tally(r.read.up, r.dups)

KeepsVotes(r, q) == r.read.up[q]  \* mutant: the votes stay when a question is taken out

Unmerged(r, q) ==
    LET rest == r.read.up[q] - r.read.up[r.q] IN IF rest < 0 THEN 0 ELSE rest

(* The audit entry of a merge, written after the commit and the events, is made *)
(* with arguments audit_service.log does not have: the request ends in an error. *)
Outcome(r) == IF r.kind \in {"merge", "unmerge"} THEN "failed" ELSE "served"

(* dismiss and archive go to hosts, so do private replies; unanswer and restore   *)
(* to nobody.  No page has a button for restore: another client sends it.         *)
Announced(r) == r.kind \notin {"unanswer", "restore"}

Write(r) ==
    LET q == r.q
        p == IF r.kind = "unmerge" THEN r.read.into[q] ELSE NoQuestion
    IN /\ status' = [x \in Questions |->
             CASE r.kind \in Transitions /\ x = q -> To(r.kind)
               [] r.kind = "merge" /\ x \in r.dups -> "dismissed"
               [] r.kind = "unmerge" /\ x = q -> "approved"
               [] OTHER -> status[x]]
       /\ into' = [x \in Questions |->
             IF r.kind = "merge" /\ x \in r.dups THEN q
             ELSE IF r.kind = "unmerge" /\ x = q THEN NoQuestion ELSE into[x]]
       /\ up' = [x \in Questions |->
             IF r.kind = "merge" /\ x = q THEN Merged(r, q)
             ELSE IF r.kind = "unmerge" /\ x = p THEN Unmerged(r, p) ELSE up[x]]
       /\ lit' = CASE r.kind = "highlight" -> (lit \ r.read.cleared) \cup {q}
                   [] r.kind = "unhighlight" -> lit \ {q} [] OTHER -> lit
       /\ replied' = IF r.kind = "reply" THEN replied \cup {q} ELSE replied

(* The panel refetches at every event of questions it has not seen.             *)
Commit(c, heard) ==
    LET r == request[c] IN
    /\ r.at = "read" /\ Write(r)
    /\ IF heard THEN UNCHANGED spare ELSE Announced(r) /\ Take("faults")
    /\ items' = IF Announced(r) /\ heard THEN Refetched(items) ELSE items
    /\ behind' = (behind \/ ~ (Announced(r) /\ heard))
    /\ met' = (met \/ Overtaken(r)) /\ again' = (again \/ Again(r))
    /\ Send(c, [r EXCEPT !.at = Outcome(r)])
    /\ UNCHANGED <<bar, own, raced>>

LoseRequest(c) ==
    /\ request[c].at \in {"asked", "served"} /\ Take("faults")
    /\ Send(c, [request[c] EXCEPT !.at = "failed"])
    /\ UNCHANGED <<rows, items, bar, trace, behind>>

(* The flush loop moves a vote to the row it was cast for, whatever became of the  *)
(* question since, merged ones included; nothing is announced then.               *)
CountVote(q) ==
    /\ Take("votes") /\ behind' = TRUE
    /\ up' = [up EXCEPT ![q] = @ + 1] /\ own' = [own EXCEPT ![q] = @ + 1]
    /\ met' = (met \/ into[q] # NoQuestion)
    /\ UNCHANGED <<status, into, lit, replied, items, request, bar, again, raced>>

-----------------------------------------------------------------------------
(* The answers.  An answer that comes is followed by a refetch; an error is     *)
(* shown, and changes nothing else.                                            *)
AfterSuccess(q) == Refetched(q)

(* After its own success the panel's next fetch tells it all.                   *)
Settle(c) ==
    LET r == request[c]
        ok == r.at = "served"
    IN /\ r.at \in {"served", "failed"} /\ c # "rival"
       /\ Send(c, NoRequest)
       /\ items' = IF ok THEN AfterSuccess(items) ELSE items
       /\ behind' = (behind /\ ~ (ok /\ Loaded(items)))
       /\ clusters' = IF ok /\ c = "cluster"
                      THEN {x \in clusters : x.q # r.q} ELSE clusters
       /\ parts' = IF ok /\ c = "undo" THEN parts \ {r.q} ELSE parts
       /\ drafts' = IF ok /\ c = "reply" THEN drafts \ {r.q} ELSE drafts
       /\ UNCHANGED <<rows, detail, trace, spare>>

RivalAnswered ==
    /\ request["rival"].at \in {"served", "failed"} /\ Send("rival", NoRequest)
    /\ UNCHANGED <<rows, items, bar, trace, behind, spare>>

-----------------------------------------------------------------------------
(* The list's own fetches: every 5 s, at each event, after an answer.           *)
NeverRefetches == FALSE /\ UNCHANGED vars  \* mutant: no refetchInterval

PollItems ==
    /\ items' = Fetched(items) /\ items' # items
    /\ UNCHANGED <<rows, request, bar, trace, behind, spare>>

AnswerItems ==
    /\ items.fetch = "asked" /\ items' = Answered(items, Listing)
    /\ UNCHANGED <<rows, request, bar, trace, behind, spare>>

(* A card that changes its column, or goes, takes its reply form along; the     *)
(* detail follows the list.                                                    *)
StoreItems ==
    /\ items.fetch = "answered" /\ items' = Stored(items)
    /\ behind' = (items.reply # Listing)
    /\ parts' = Put(items.reply)
    /\ drafts' = {q \in drafts \cap DOMAIN items.reply :
                    items.reply[q].status = items.data[q].status}
    /\ UNCHANGED <<rows, request, clusters, detail, trace, spare>>

Panel  == \E c \in Channels : Settle(c)
Server == (\E c \in Channels : Read(c) \/ Commit(c, TRUE)) \/ AnswerItems \/ RivalAnswered
Hosts  == \/ \E q \in Questions, k \in Kinds : Press(q, k)
          \/ \E q, p \in Questions : Drop(q, p)
          \/ \E q \in Questions, dups \in SUBSET Questions : Scan(q, dups)
          \/ \E c \in clusters : MergeCluster(c) \/ DismissCluster(c)
          \/ \E q \in Questions : OpenDetail(q) \/ TakeOut(q) \/ OpenReply(q) \/ Reply(q)
          \/ CloseDetail
          \/ \E k \in Kinds \ {"reply"}, q \in Questions, dups \in {{}} \cup {{x} : x \in Questions} :
                Rival(k, q, dups)
Faults == \E c \in Channels : LoseRequest(c) \/ Commit(c, FALSE)

Next == \/ Panel \/ Server \/ Hosts \/ Faults \/ StoreItems \/ PollItems
        \/ \E q \in Questions : CountVote(q)

Fairness == WF_vars(Panel) /\ WF_vars(Server) /\ WF_vars(StoreItems) /\ WF_vars(PollItems)
Spec     == Init /\ [][Next]_vars
FairSpec == Spec /\ Fairness

-----------------------------------------------------------------------------
TypeOK ==
    /\ status \in [Questions -> Status] /\ up \in [Questions -> Nat]
    /\ into \in [Questions -> Questions \cup {NoQuestion}]
    /\ lit \subseteq Questions /\ replied \subseteq Questions
    /\ items.fetch \in Fetches /\ DOMAIN items.data \subseteq Questions
    /\ \A c \in Channels : request[c] # NoRequest => request[c].kind \in Kinds
    /\ detail \in Questions \cup {NoQuestion} /\ parts \subseteq Questions
    /\ drafts \subseteq Questions /\ own \in [Questions -> Nat]

(* Merging moves votes and taking a question out moves them back: whatever the  *)
(* sequence of merges, also of questions that have others merged into them, a     *)
(* question that is not merged counts the votes of all that lead to it.  Not so  *)
(* when two of them, or a vote being counted, met (each writes what it read, and  *)
(* a vote that comes late stays with the merged question), or when one was applied *)
(* to a question merged already.                                               *)
VotesAddUp ==
    ~ met /\ ~ again => \A q \in Questions : into[q] = NoQuestion =>
        up[q] = Tally(own, Gathered(q))

(* Merging adds the votes of the duplicates to the question once, as long as the   *)
(* requests do not overlap: "all upvotes are added up to the main question"        *)
(* (README.md:28), also when the host is told that it failed and presses again.    *)
VotesCountOnce ==
    ~ met => \A q \in Questions : into[q] = NoQuestion => up[q] <= Tally(own, Gathered(q))

(* One question of the room is highlighted at a time, if highlights do not      *)
(* overlap.                                                                    *)
OneHighlight == ~ raced => Cardinality(lit) <= 1

(* The panel at rest lists what the server has, unless the last it was told is  *)
(* older: an event lost, or one nobody sends (unanswer or restore by another host, *)
(* a vote being flushed).                                                      *)
PanelAtRest ==
    (\A c \in Channels : Free(c)) /\ Idle(items) /\ ~ behind => items.data = Listing

(* The panel comes to list what the server has, whatever was lost.              *)
PanelIsNow == items.data = Listing
=============================================================================
