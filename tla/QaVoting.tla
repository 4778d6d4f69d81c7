------------------------------ MODULE QaVoting ------------------------------
(* The participant's question list: votes shown before the server has them     *)
(* (several may be under way: one votingId for the whole list), the counts      *)
(* that arrive by throttled broadcasts, the list refetched every 8 s, and what   *)
(* other participants and the host change meanwhile.                           *)
EXTENDS Integers, FiniteSets

CONSTANTS
    Questions, NoQuestion, NoData,
    Slots,         \* vote requests that may be under way at a time
    VoteBudgets    \* bounds: this participant's votes, votes of others, moves of the
                   \* host, questions asked, and requests, fetches or broadcasts lost

INSTANCE QueryCache

VARIABLES
    public,    \* server: the questions participants may see and vote on
    cast,      \* server: this participant's vote on each
    others,    \* server: upvotes of the other participants
    due,       \* server: questions with a throttled broadcast to come
    list,      \* cache of the question list
    votingId,  \* the question whose buttons are disabled
    req,       \* vote requests under way
    asking,    \* a new question is being sent
    doubt,     \* history: questions of which the page was last given what is out of date
    left       \* what is left of the behaviour's bounds

served == <<public, cast, others, due>>
panel  == <<list, votingId, req, asking>>
vars   == <<served, panel, doubt, left>>

Sides   == {"up", "down"}
Mine    == Sides \cup {"none"}
Entries == [mine : Mine, up : Int, down : Int]
NoReq   == [q |-> NoQuestion, side |-> "none", at |-> "free", previous |-> NoData,
            expects |-> "none", sure |-> FALSE, alone |-> TRUE, result |-> NoData]

VotingAssumption ==
    /\ NoQuestion \notin Questions /\ Slots \subseteq Nat
    /\ \A S \in SUBSET Questions : NoData \notin [S -> Entries]
    /\ VoteBudgets \subseteq
         [votes : Nat, others : Nat, moves : Nat, asks : Nat, faults : Nat]

One(mine, side) == IF mine = side THEN 1 ELSE 0
Entry(mine, ups) ==
    [mine |-> mine, up |-> ups + One(mine, "up"), down |-> One(mine, "down")]
Now(q)  == Entry(cast[q], others[q])
Listing == [q \in public |-> Now(q)]

Init ==
    /\ public \in (SUBSET Questions) \ {{}}
    /\ cast = [q \in Questions |-> "none"] /\ others = [q \in Questions |-> 0]
    /\ due = {} /\ list = Loading /\ votingId = NoQuestion
    /\ req = [s \in Slots |-> NoReq] /\ asking = FALSE
    /\ doubt = {} /\ left \in VoteBudgets

Use(kind) == left[kind] > 0 /\ left' = [left EXCEPT ![kind] = @ - 1]

-----------------------------------------------------------------------------
(* What is cached, and what of it the server has left behind: the history      *)
(* variable asks this of everything the page is given (a fetched list, an        *)
(* answer, the list a failed vote puts back), never of what it does with it.    *)
Shows(data, q) == data # NoData /\ q \in DOMAIN data

Current(data, q) ==
    IF q \notin public THEN ~ Shows(data, q)
    ELSE /\ Shows(data, q)
         /\ \/ data[q] = Now(q)
            \/ q \in due /\ data[q].mine = cast[q]  \* the broadcast will correct it
OldIn(data) == {q \in Questions : ~ Current(data, q)}

Toggle(mine, side) == IF mine = side THEN "none" ELSE side

(* patchQuestionVotes; the order of the list follows from its scores.           *)
Patch(data, q, entry) == IF Shows(data, q) THEN [data EXCEPT ![q] = entry] ELSE data

(* applyOptimisticVote, on what is cached at the click.                         *)
Voted(e, side) ==
    LET mine == Toggle(e.mine, side)
        Moved(s) == e[s] + One(mine, s) - One(e.mine, s)
    IN [mine |-> mine, up |-> Moved("up"), down |-> Moved("down")]

Reconciled(data, q, result) == Patch(data, q, result)

(* patchQaVoteFromWs: the event has counts only.                                *)
Counted(data, q) ==
    IF Shows(data, q)
    THEN Patch(data, q, [Now(q) EXCEPT !.mine = data[q].mine]) ELSE data

-----------------------------------------------------------------------------
(* A click: every request under way loses its hold on the buttons, the fetch in *)
(* flight is given up, the vote is shown at once.                               *)
UnderWay(q) == {s \in Slots : req[s].q = q}

MayVote(q) == votingId # q

Vote(q, side, s) ==
    /\ Shows(list.data, q) /\ MayVote(q)
    /\ req[s] = NoReq /\ \A r \in Slots : req[r] = NoReq => s <= r
    /\ Use("votes")
    /\ votingId' = q
    /\ list' = Written(Cancelled(list), Patch(list.data, q, Voted(list.data[q], side)))
    /\ req' = [r \in Slots |->
         IF r = s THEN [NoReq EXCEPT
                !.q = q, !.side = side, !.at = "asked", !.previous = list.data,
                !.expects = Toggle(list.data[q].mine, side),
                !.sure = q \notin doubt /\ \A u \in UnderWay(q) : req[u].alone]
         ELSE IF req[r] = NoReq THEN NoReq
         ELSE [req[r] EXCEPT !.alone = @ /\ req[r].q = q,
                             !.sure = @ /\ (req[r].q = q => req[r].alone)]]
    /\ doubt' = IF Idle(list) THEN doubt ELSE doubt \cup OldIn(list.data)
    /\ UNCHANGED <<served, asking>>

(* vote_question toggles the row it finds and answers with the counts; a        *)
(* question withdrawn meanwhile is refused.                                     *)
ServeVote(s) ==
    /\ req[s].at = "asked"
    /\ LET q == req[s].q
           mine == Toggle(cast[q], req[s].side)
       IN IF q \in public
          THEN /\ cast' = [cast EXCEPT ![q] = mine] /\ due' = due \cup {q}
               /\ req' = [req EXCEPT ![s].at = "served", ![s].result = Entry(mine, others[q])]
          ELSE req' = [req EXCEPT ![s].at = "failed"] /\ UNCHANGED <<cast, due>>
    /\ UNCHANGED <<public, others, list, votingId, asking, doubt, left>>

(* The request is lost before the server has it, or its answer on the way back. *)
LoseVote(s) ==
    /\ req[s].at \in {"asked", "served"} /\ Use("faults")
    /\ req' = [req EXCEPT ![s].at = "failed"]
    /\ UNCHANGED <<served, list, votingId, asking, doubt>>

(* onSettled enables every button, whichever vote holds them.                   *)
Freed(s) == [r \in Slots |->
    IF r = s \/ req[r] = NoReq THEN NoReq ELSE [req[r] EXCEPT !.alone = FALSE]]

VoteSucceeds(s) ==
    /\ req[s].at = "served"
    /\ list' = IF Loaded(list) THEN Written(list, Reconciled(list.data, req[s].q, req[s].result))
               ELSE list
    /\ doubt' = IF Current([q \in {req[s].q} |-> req[s].result], req[s].q)
                   /\ Shows(list.data, req[s].q)
                THEN doubt \ {req[s].q} ELSE doubt \cup {req[s].q}
    /\ req' = Freed(s) /\ votingId' = NoQuestion
    /\ UNCHANGED <<served, asking, left>>

(* onError puts the whole list of the time of the click back.                   *)
RolledBack(previous) == Written(list, previous)

VoteFails(s) ==
    /\ req[s].at = "failed"
    /\ list' = RolledBack(req[s].previous)
    /\ doubt' = doubt \cup OldIn(req[s].previous)
    /\ req' = Freed(s) /\ votingId' = NoQuestion
    /\ UNCHANGED <<served, asking, left>>

-----------------------------------------------------------------------------
(* A new question waits for the host's approval: the refetch after it brings   *)
(* nothing of it.                                                              *)
Ask ==
    /\ ~ asking /\ Use("asks") /\ asking' = TRUE
    /\ UNCHANGED <<served, list, votingId, req, doubt>>

AskSucceeds ==
    /\ asking /\ asking' = FALSE /\ list' = Refetched(list)
    /\ UNCHANGED <<served, votingId, req, doubt, left>>

AskFails ==
    /\ asking /\ Use("faults") /\ asking' = FALSE
    /\ UNCHANGED <<served, list, votingId, req, doubt>>

-----------------------------------------------------------------------------
(* The server's side: votes of others, the host's moderation, broadcasts.      *)
OthersVote(q) ==
    /\ q \in public /\ Use("others")
    /\ others' = [others EXCEPT ![q] = @ + 1] /\ due' = due \cup {q}
    /\ UNCHANGED <<public, cast, panel, doubt>>

(* After 300 ms, with the latest counts; sent to whoever is connected.          *)
Broadcast(q) ==
    /\ q \in due /\ due' = due \ {q}
    /\ list' = IF Loaded(list) THEN Written(list, Counted(list.data, q)) ELSE list
    /\ UNCHANGED <<public, cast, others, votingId, req, asking, doubt, left>>

LoseBroadcast(q) ==
    /\ q \in due /\ Use("faults") /\ due' = due \ {q}
    /\ doubt' = doubt \cup {q}
    /\ UNCHANGED <<public, cast, others, panel>>

Approve(q) ==
    /\ q \notin public /\ Use("moves") /\ public' = public \cup {q}
    /\ list' = Refetched(list)
    /\ UNCHANGED <<cast, others, due, votingId, req, asking, doubt>>

(* question_dismissed and question_archived are for hosts only.                 *)
Withdraw(q) ==
    /\ q \in public /\ Use("moves") /\ public' = public \ {q}
    /\ due' = due \ {q} /\ doubt' = doubt \cup {q}
    /\ UNCHANGED <<cast, others, panel>>

-----------------------------------------------------------------------------
(* The list's own fetches: on mount, every 8 s, after an event.                 *)
NeverPolls == FALSE /\ UNCHANGED vars  \* mutant: no refetchInterval

PollList ==
    /\ list' = Fetched(list) /\ list' # list
    /\ UNCHANGED <<served, votingId, req, asking, doubt, left>>

AnswerList ==
    /\ list.fetch = "asked" /\ list' = Answered(list, Listing)
    /\ UNCHANGED <<served, votingId, req, asking, doubt, left>>

StoreList ==
    /\ list.fetch = "answered" /\ list' = Stored(list)
    /\ doubt' = OldIn(list.reply)
    /\ UNCHANGED <<served, votingId, req, asking, left>>

ListFails ==
    /\ ~ Idle(list) /\ Loaded(list) /\ Use("faults") /\ list' = Cancelled(list)
    /\ doubt' = doubt \cup OldIn(list.data)
    /\ UNCHANGED <<served, votingId, req, asking>>

Page ==
    \/ \E s \in Slots : VoteSucceeds(s) \/ VoteFails(s)
    \/ AskSucceeds \/ StoreList
Server == \/ \E s \in Slots : ServeVote(s)
          \/ \E q \in Questions : Broadcast(q)
          \/ AnswerList
World == \/ \E q \in Questions : OthersVote(q) \/ Approve(q) \/ Withdraw(q) \/ LoseBroadcast(q)
         \/ \E s \in Slots : LoseVote(s)
         \/ \E q \in Questions, side \in Sides, s \in Slots : Vote(q, side, s)
         \/ Ask \/ AskFails \/ ListFails

Next == Page \/ Server \/ World \/ PollList

Fairness == WF_vars(Page) /\ WF_vars(Server) /\ WF_vars(PollList)
Spec     == Init /\ [][Next]_vars
FairSpec == Spec /\ Fairness

-----------------------------------------------------------------------------
TypeOK ==
    /\ public \subseteq Questions /\ due \subseteq public /\ doubt \subseteq Questions
    /\ cast \in [Questions -> Mine] /\ others \in [Questions -> Nat]
    /\ list.fetch \in Fetches /\ list.stale \in BOOLEAN
    /\ \A data \in {list.data, list.reply} \ {NoData} :
         DOMAIN data \subseteq Questions /\ \A q \in DOMAIN data : data[q] \in Entries
    /\ votingId \in Questions \cup {NoQuestion} /\ asking \in BOOLEAN
    /\ \A s \in Slots : req[s] # NoReq => req[s].q \in Questions /\ req[s].side \in Sides

(* When no vote is under way, no broadcast is due and no fetch is in flight, a  *)
(* question is listed with the counts and the own vote the server has, unless    *)
(* the last the page was given of it was out of date already (a lost broadcast,  *)
(* a question withdrawn silently, an answer overtaken, a fetch given up).       *)
AtRest == /\ \A s \in Slots : req[s] = NoReq
          /\ due = {} /\ Idle(list)
VotesAtRest ==
    AtRest => \A q \in Questions \ doubt :
        IF q \in public THEN Shows(list.data, q) /\ list.data[q] = Now(q)
        ELSE ~ Shows(list.data, q)

(* A button does what it shows: unless the page was given what is out of date, *)
(* or a second vote let go of the first one's buttons, the server makes of a     *)
(* vote what the page showed at the click.                                      *)
VoteMeansItsButton ==
    \A s \in Slots : req[s].at = "served" /\ req[s].sure => req[s].result.mine = req[s].expects

(* The list comes to show what the server has and keeps to it.                  *)
ListIsNow   == Loaded(list) /\ list.data = Listing
=============================================================================
