----------------------------- MODULE AnswerForms -----------------------------
(* The forms a participant answers polls with.  A form keeps what is picked or    *)
(* entered in the component of its kind of poll, which stays mounted when the     *)
(* page goes from one poll to another of the same kind that it has cached; what   *)
(* is sent, stored or lost follows from when each form forgets.  One participant; *)
(* an option, a rating or an entered text is a mark of the poll it was made for.   *)
EXTENDS Naturals, Sequences, SequencesExt, FiniteSets

CONSTANTS
    Polls,        \* polls of the room
    KindOf,       \* the kind of each
    Width,        \* the options of each
    MaxSubmissions, \* how often a participant may answer a word cloud
    NoPoll,       \* no poll runs, is shown, or is being answered
    FormBudgets   \* bounds: polls in use, moves of the host, marks, submissions, faults

Kinds == {"single", "multi", "rating", "ranking", "words", "text"}

FormAssumption ==
    /\ NoPoll \notin Polls /\ KindOf \in [Polls -> Kinds] /\ Width \in [Polls -> Nat]
    /\ MaxSubmissions \in Nat \ {0}

VARIABLES
    run,       \* server: the poll that runs
    stored,    \* server: the participant's rows, each a poll and its marks
    page,      \* the poll the page shows
    cached,    \* polls it has details of
    mine,      \* those that said, when read, that the participant has answered
    marks,     \* the form: what is picked or entered
    order,     \* the form: the ranking
    held,      \* place of the ranking's item that is being dragged, 0 if none
    call,      \* the submission under way
    carried,   \* history: a form with marks went on to another poll
    entered,   \* history: texts entered so far
    left       \* what is left of the behaviour's bounds

server == <<run, stored>>
form   == <<marks, order, held>>
vars   == <<server, page, cached, mine, form, call, carried, entered, left>>

Use(kind)  == left[kind] > 0 /\ left' = [left EXCEPT ![kind] = @ - 1]
Mark(p, n) == [of |-> p, n |-> n]
MarksOf(p) == {Mark(p, n) : n \in 1 .. Width[p]}
Listed(p)  == [n \in 1 .. Width[p] |-> Mark(p, n)]
Row(p, answer) == [poll |-> p, answer |-> answer]
NoCall     == [poll |-> NoPoll, answer |-> {}, at |-> "none"]

Texts   == {"words", "text"}
Repeats == {"multi", "words"}   \* allow_change, and a cloud's further words
IsText(p)   == KindOf[p] \in Texts
Answered(p) == \E r \in stored : r.poll = p

Init ==
    /\ run = NoPoll /\ stored = {} /\ page = NoPoll /\ cached = {} /\ mine = {}
    /\ marks = {} /\ order = <<>> /\ held = 0 /\ call = NoCall
    /\ carried = FALSE /\ entered = 0 /\ left \in FormBudgets

-----------------------------------------------------------------------------
(* The host starts and stops; the page follows.                                *)

Runs(p) ==
    /\ p # run /\ p \in left.polls \cup {NoPoll} /\ Use("moves") /\ run' = p
    /\ UNCHANGED <<stored, page, cached, mine, form, call, carried, entered>>

KeepsOrder(p)   == IF page = NoPoll \/ order = <<>> THEN Listed(p) ELSE order  \* mutant: no effect
RankingFor(p)   == IF KindOf[p] = "ranking" THEN Listed(p) ELSE <<>>

(* A form of the same kind is kept, but for the ranking, which an effect resets.  *)
Kept(p) == page # NoPoll /\ KindOf[page] = KindOf[p]
Showing(p) ==
    /\ page' = p /\ order' = RankingFor(p)
    /\ marks' = IF Kept(p) THEN marks ELSE {}
    /\ held' = IF Kept(p) THEN held ELSE 0
    /\ carried' = (carried \/ (Kept(p) /\ marks # {}))

Unmounted == page' = NoPoll /\ marks' = {} /\ order' = <<>> /\ held' = 0 /\ UNCHANGED carried

Follows ==
    /\ page # run
    /\ IF run \in cached THEN Showing(run) ELSE page # NoPoll /\ Unmounted
    /\ UNCHANGED <<server, cached, mine, call, entered, left>>

Truth(p) == IF Answered(p) THEN mine \cup {p} ELSE mine \ {p}
Loads ==
    /\ run # NoPoll /\ run \notin cached /\ page = NoPoll
    /\ cached' = cached \cup {run} /\ mine' = Truth(run) /\ Showing(run)
    /\ UNCHANGED <<server, call, entered, left>>

(* The refetch after a submission, and the interval's.                          *)
Refetches ==
    /\ page # NoPoll /\ mine' = Truth(page)
    /\ UNCHANGED <<server, page, cached, form, call, carried, entered, left>>

-----------------------------------------------------------------------------
(* The forms.                                                                  *)

CanAnswer == page # NoPoll /\ (page \in mine => KindOf[page] \in Repeats)
Edit(kinds) ==
    /\ CanAnswer /\ KindOf[page] \in kinds /\ Use("marks")
    /\ UNCHANGED <<server, page, cached, mine, call, carried>>

MultipleChoicePoll(m) ==
    /\ Edit({"single", "multi"}) /\ m \in MarksOf(page)
    /\ marks' = IF KindOf[page] = "single" THEN {m}
                ELSE IF m \in marks THEN marks \ {m} ELSE marks \cup {m}
    /\ UNCHANGED <<order, held, entered>>

RatingPoll(m) ==
    /\ Edit({"rating"}) /\ m \in MarksOf(page) /\ marks' = {m}
    /\ UNCHANGED <<order, held, entered>>

Enters ==
    /\ Edit(Texts) /\ entered' = entered + 1
    /\ marks' = {Mark(page, entered')} \cup (IF KindOf[page] = "text" THEN {} ELSE marks)
    /\ UNCHANGED <<order, held>>

RemoveWord(m) ==
    /\ Edit({"words"}) /\ m \in marks /\ marks' = marks \ {m}
    /\ UNCHANGED <<order, held, entered>>

ClearWords ==
    /\ Edit({"words"}) /\ marks # {} /\ marks' = {}
    /\ UNCHANGED <<order, held, entered>>

(* reorderIds leaves alone what is out of the list: a drag may end in another     *)
(* ranking than it began in.                                                    *)
ReorderIds(s, from, to) ==
    IF from = to \/ {from, to} \ (1 .. Len(s)) # {} THEN s
    ELSE InsertAt(RemoveAt(s, from), to, s[from])

MoveByArrow(from, to) ==
    /\ Edit({"ranking"}) /\ {from, to} \subseteq 1 .. Len(order) /\ to \in {from - 1, from + 1}
    /\ order' = ReorderIds(order, from, to)
    /\ UNCHANGED <<marks, held, entered>>

Grip(from) ==
    /\ Edit({"ranking"}) /\ from \in 1 .. Len(order) /\ held' = from
    /\ UNCHANGED <<marks, order, entered>>

FinishDrag(to) ==
    /\ held # 0 /\ page # NoPoll /\ to \in 1 .. Len(order) /\ held' = 0
    /\ order' = IF CanAnswer THEN ReorderIds(order, held, to) ELSE order
    /\ UNCHANGED <<server, page, cached, mine, marks, call, carried, entered, left>>

-----------------------------------------------------------------------------
(* A submission: words and texts are forgotten when it is sent, not when it is     *)
(* taken.                                                                      *)

AfterSubmit(p) == IF IsText(p) THEN {} ELSE marks

ToSend == IF KindOf[page] = "ranking" THEN ToSet(order) ELSE marks
Submit ==
    /\ CanAnswer /\ call = NoCall /\ ToSend # {} /\ Use("submits")
    /\ call' = [poll |-> page, answer |-> ToSend, at |-> "sent"]
    /\ marks' = AfterSubmit(page)
    /\ UNCHANGED <<server, page, cached, mine, order, held, carried, entered>>

(* A poll's own options, all of them in a ranking, one in a single choice; a       *)
(* rating and a text say nothing of the poll they were meant for.                *)
Valid(p, answer) ==
    CASE KindOf[p] \in {"single", "multi"} ->
            answer \subseteq MarksOf(p) /\ (KindOf[p] = "single" => Cardinality(answer) = 1)
      [] KindOf[p] = "ranking" -> answer = MarksOf(p)
      [] OTHER -> TRUE

Full(p) == KindOf[p] = "words" /\ Cardinality({r \in stored : r.poll = p}) >= MaxSubmissions
Accepts ==
    /\ call.poll = run /\ Valid(run, call.answer) /\ ~ Full(run)
    /\ Answered(run) => KindOf[run] \in Repeats
Taken(p, answer) ==
    {r \in stored : r.poll # p \/ IsText(p)} \cup {Row(p, answer)}

Serves ==
    /\ call.at = "sent"
    /\ IF Accepts THEN stored' = Taken(run, call.answer) /\ call' = [call EXCEPT !.at = "taken"]
       ELSE UNCHANGED stored /\ call' = [call EXCEPT !.at = "refused"]
    /\ UNCHANGED <<run, page, cached, mine, form, carried, entered, left>>

Settles ==
    /\ call.at \in {"taken", "refused"} /\ call' = NoCall
    /\ UNCHANGED <<server, page, cached, mine, form, carried, entered, left>>

(* The request or its answer is lost: the form is told that it failed.            *)
LoseCall ==
    /\ call # NoCall /\ Use("faults") /\ call' = NoCall
    /\ UNCHANGED <<server, page, cached, mine, form, carried, entered>>

-----------------------------------------------------------------------------
Next ==
    \/ \E p \in Polls \cup {NoPoll} : Runs(p)
    \/ Follows \/ Loads \/ Refetches \/ Enters \/ ClearWords
    \/ \E p \in Polls : \E m \in MarksOf(p) : MultipleChoicePoll(m) \/ RatingPoll(m)
    \/ \E m \in marks : RemoveWord(m)
    \/ \E i \in 1 .. Len(order) :
          \/ Grip(i) \/ FinishDrag(i) \/ \E j \in 1 .. Len(order) : MoveByArrow(i, j)
    \/ Submit \/ Serves \/ Settles \/ LoseCall

Spec == Init /\ [][Next]_vars

-----------------------------------------------------------------------------
TypeOK ==
    /\ {run, page} \subseteq Polls \cup {NoPoll} /\ cached \subseteq Polls /\ mine \subseteq cached
    /\ \A r \in stored : r.poll \in Polls
    /\ \A m \in marks : m.of \in Polls /\ held \in Nat /\ entered \in Nat
    /\ call.at \in {"none", "sent", "taken", "refused"}

(* What is stored for a poll was meant for it: options because the server looks    *)
(* them up, ratings and texts as long as no form went on with them to another.    *)
MeantForItsPoll ==
    \A r \in stored : \A m \in r.answer :
        m.of = r.poll \/ (carried /\ KindOf[r.poll] \in Texts \cup {"rating"})

(* A text that is entered once is counted once, whatever was lost on the way.     *)
CountedOnce ==
    \A r, s \in stored : r # s /\ IsText(r.poll) => r.answer \cap s.answer = {}

(* The ranking that would be sent is always one of the options shown, each once.   *)
RankingIsWhole ==
    page # NoPoll /\ KindOf[page] = "ranking" =>
        Len(order) = Width[page] /\ ToSet(order) = MarksOf(page)
=============================================================================
