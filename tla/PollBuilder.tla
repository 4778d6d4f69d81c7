---------------------------- MODULE PollBuilder ----------------------------
(* The host's question editor (PollBuilderPage): a form seeded once from the   *)
(* cached question, options saved by themselves 800 ms after the last edit,      *)
(* a button that saves everything and leaves, and the service that replaces all  *)
(* options of the question inside one transaction.                              *)
EXTENDS Naturals, FiniteSets

CONSTANTS
    Texts,          \* what an option may say; the form's options are a set of them
    Blank,          \* an option without text
    FirstOptions,   \* what the server and the cache may hold when the page opens
    NoData,         \* nothing: no data, no timer
    Puts,           \* requests of the autosave that may be under way at a time
    SaveButton,     \* the request of the button
    CoHost,         \* another host or tab that saves the same question
    BuilderBudgets  \* bounds: edits, writes of the co-host, refetches, requests lost

BuilderAssumption ==
    /\ FirstOptions \subseteq SUBSET Texts /\ CoHost \notin Puts \cup {SaveButton}
    /\ \A f \in SUBSET (Texts \cup {Blank}) : f # NoData
    /\ BuilderBudgets \subseteq [{"edits", "others", "refetches", "faults"} -> Nat]

INSTANCE QueryCache

VARIABLES
    rows,       \* server: the options, by the request that inserted them
    poll,       \* cache of the question: its options
    form,       \* the options shown in the form
    seeded,     \* initializedPollIdRef: the form was filled from the question
    hydrating,  \* optionsHydratingRef: changes are not saved yet
    settle,     \* the 100 ms timer that ends it
    lastSaved,  \* lastAutosavedOptionsRef
    timer,      \* the 800 ms timer: the options it will save
    write,      \* requests under way
    open,       \* the page is mounted
    doubt,      \* history: a reason for the form and the server to differ
    left        \* what is left of the behaviour's bounds

page == <<form, seeded, hydrating, settle, lastSaved, timer, open>>
vars == <<rows, poll, page, write, doubt, left>>

Pages   == Puts \cup {SaveButton}
Writers == Pages \cup {CoHost}
Options == SUBSET Texts
Forms   == SUBSET (Texts \cup {Blank})
NoWrite == [at |-> "free", opts |-> {}, sees |-> {}, alone |-> TRUE]

Held(r)    == UNION {r[w] : w \in Writers}
Busy       == {w \in Pages : write[w].at # "free"}
Use(kind)  == left[kind] > 0 /\ left' = [left EXCEPT ![kind] = @ - 1]

(* canAutosaveOptions, and what the button asks of the options.                 *)
CanSave(f) == f # {} /\ Blank \notin f

Seeds(f) ==  \* the effect that fills the form
    /\ form' = f /\ lastSaved' = f /\ timer' = NoData
    /\ seeded' = TRUE /\ hydrating' = TRUE /\ settle' = TRUE

(* The page is opened from the workbench: the question may be cached, fresh or   *)
(* behind what another host saved.                                              *)
Init ==
    /\ \E now \in FirstOptions, cached \in FirstOptions \cup {NoData} :
         /\ rows = [w \in Writers |-> IF w = CoHost THEN now ELSE {}]
         /\ poll \in {[Loading EXCEPT !.data = cached]}
                     \cup (IF cached = now THEN {[Unused EXCEPT !.data = now]} ELSE {})
         /\ form = (IF cached = NoData THEN {} ELSE cached)
         /\ lastSaved = form
         /\ seeded = (cached # NoData) /\ settle = seeded
         /\ doubt = (cached \notin {NoData, now})
    /\ hydrating = TRUE /\ timer = NoData /\ open = TRUE
    /\ write = [w \in Pages |-> NoWrite]
    /\ left \in BuilderBudgets

-----------------------------------------------------------------------------
(* The question's data changed: the effect's clean-up stops the 100 ms timer; a  *)
(* form already filled is left alone.                                           *)
SeedsAgain(d) ==  \* mutant: the form follows every refetch
    /\ Seeds(d) /\ UNCHANGED open

Shown(d) ==
    IF ~ open THEN UNCHANGED page
    ELSE IF ~ seeded THEN Seeds(d) /\ UNCHANGED open
    ELSE settle' = FALSE /\ UNCHANGED <<form, seeded, hydrating, lastSaved, timer, open>>

Changed(q) ==
    /\ poll' = q
    /\ IF q.data = poll.data THEN UNCHANGED page ELSE Shown(q.data)

PollAnswers ==
    /\ poll.fetch = "asked" /\ poll' = Answered(poll, Held(rows))
    /\ UNCHANGED <<rows, page, write, doubt, left>>

PollStores ==
    /\ poll.fetch = "answered"
    /\ Changed(Stored(poll))
    /\ doubt' = (doubt \/ (~ seeded /\ open /\ poll.reply # Held(rows)))
    /\ UNCHANGED <<rows, write, left>>

Refetches ==
    /\ open /\ Use("refetches") /\ poll' = Fetched(poll)
    /\ UNCHANGED <<rows, page, write, doubt>>

HydrationEnds ==
    /\ settle /\ settle' = FALSE /\ hydrating' = FALSE
    /\ UNCHANGED <<rows, poll, form, seeded, lastSaved, timer, open, write, doubt, left>>

-----------------------------------------------------------------------------
(* A keystroke, an option added, removed or checked: the pending save is dropped *)
(* and a new one armed, unless the form says what was saved last.               *)
ArmsAlways(f) == IF hydrating THEN NoData ELSE f  \* mutant: blank options are saved too

Arms(f) == IF hydrating \/ f = lastSaved \/ ~ CanSave(f) THEN NoData ELSE f

Edit(f) ==
    /\ open /\ seeded /\ f # form /\ Use("edits")
    /\ form' = f /\ timer' = Arms(f)
    /\ doubt' = (doubt \/ (CanSave(f) /\ Arms(f) = NoData /\ (hydrating \/ Busy # {})))
    /\ UNCHANGED <<rows, poll, seeded, hydrating, settle, lastSaved, open, write>>

Sent(w, at, f) == [v \in Pages |->
    IF v = w THEN [NoWrite EXCEPT !.at = at, !.opts = f, !.alone = (Busy = {})]
    ELSE [write[v] EXCEPT !.alone = @ /\ write[v].at = "free"]]

Autosaves(w) ==
    /\ w \in Puts /\ write[w] = NoWrite /\ timer # NoData
    /\ write' = Sent(w, "asked", timer) /\ timer' = NoData
    /\ doubt' = (doubt \/ Busy # {})
    /\ UNCHANGED <<rows, poll, form, seeded, hydrating, settle, lastSaved, open, left>>

Save ==  \* the title first, then the options; the form stays enabled meanwhile
    /\ open /\ seeded /\ CanSave(form) /\ write[SaveButton] = NoWrite
    /\ write' = Sent(SaveButton, "title", form)
    /\ doubt' = (doubt \/ Busy # {})
    /\ UNCHANGED <<rows, poll, page, left>>

TitleSaved ==
    /\ write[SaveButton].at = "title" /\ write' = [write EXCEPT ![SaveButton].at = "asked"]
    /\ UNCHANGED <<rows, poll, page, doubt, left>>

Leave ==  \* a pending save is dropped
    /\ open /\ open' = FALSE /\ timer' = NoData
    /\ UNCHANGED <<rows, poll, form, seeded, hydrating, settle, lastSaved, write, doubt, left>>

-----------------------------------------------------------------------------
(* upsert_poll_options: the DELETE takes the rows it sees; rows of a request       *)
(* committed after it are not among them, and stay.                             *)
Deletes(w) ==
    /\ write[w].at = "asked"
    /\ write' = [write EXCEPT ![w].at = "deleted", ![w].sees = {v \in Writers : rows[v] # {}}]
    /\ UNCHANGED <<rows, poll, page, doubt, left>>

Replaced(w, gone, opts) ==
    [v \in Writers |-> IF v = w THEN opts ELSE IF v \in gone THEN {} ELSE rows[v]]

Commits(w) ==
    /\ write[w].at = "deleted"
    /\ rows' = Replaced(w, write[w].sees, write[w].opts)
    /\ write' = [v \in Pages |->
         IF v = w THEN [write[w] EXCEPT !.at = "saved"]
         ELSE [write[v] EXCEPT !.sees = @ \ {w}]]
    /\ UNCHANGED <<poll, page, doubt, left>>

CoHostSaves(f) ==
    /\ f # Held(rows) /\ CanSave(f) /\ Use("others")
    /\ rows' = Replaced(CoHost, Writers, f)
    /\ write' = [v \in Pages |->
         IF v \in Busy THEN [write[v] EXCEPT !.sees = @ \ {CoHost}, !.alone = FALSE]
         ELSE NoWrite]
    /\ doubt' = TRUE
    /\ UNCHANGED <<poll, page>>

(* The request is lost, or its answer is.                                       *)
Loses(w) ==
    /\ write[w].at \in {"title", "asked", "saved"} /\ Use("faults")
    /\ write' = [write EXCEPT ![w].at = "failed"] /\ doubt' = TRUE
    /\ UNCHANGED <<rows, poll, page>>

Fails(w) ==  \* a notice, nothing else: the autosave waits for the next edit
    /\ write[w].at = "failed" /\ write' = [write EXCEPT ![w] = NoWrite]
    /\ UNCHANGED <<rows, poll, page, doubt, left>>

(* History: a write that ran alone settles what the form and the server say.     *)
Settles(w) == IF write[w].alone /\ form = write[w].opts THEN FALSE ELSE doubt

AutosaveDone(w) ==
    /\ w \in Puts /\ write[w].at = "saved"
    /\ poll' = Patched(poll, write[w].opts)
    /\ lastSaved' = write[w].opts
    /\ settle' = (settle /\ ~ (open /\ poll'.data # poll.data))
    /\ write' = [write EXCEPT ![w] = NoWrite] /\ doubt' = Settles(w)
    /\ UNCHANGED <<rows, form, seeded, hydrating, timer, open, left>>

SaveDone ==  \* the question is read again, and the page left for the workbench
    /\ write[SaveButton].at = "saved"
    /\ poll' = Refetched(poll) /\ lastSaved' = write[SaveButton].opts
    /\ open' = FALSE /\ timer' = NoData
    /\ write' = [write EXCEPT ![SaveButton] = NoWrite]
    /\ UNCHANGED <<rows, form, seeded, hydrating, settle, doubt, left>>

Next ==
    \/ PollAnswers \/ PollStores \/ Refetches \/ HydrationEnds
    \/ \E t \in Texts \cup {Blank} : Edit(form \cup {t}) \/ Edit(form \ {t})
    \/ \E f \in Options : CoHostSaves(f)
    \/ \E w \in Pages :
         Autosaves(w) \/ Deletes(w) \/ Commits(w) \/ Loses(w) \/ Fails(w) \/ AutosaveDone(w)
    \/ Save \/ TitleSaved \/ SaveDone \/ Leave

Spec == Init /\ [][Next]_vars

-----------------------------------------------------------------------------
Writes == [at : {"free", "title", "asked", "deleted", "saved", "failed"},
           opts : Forms, sees : SUBSET Writers, alone : BOOLEAN]

TypeOK ==
    /\ rows \in [Writers -> Options] /\ poll \in Queries(Options)
    /\ form \in Forms /\ lastSaved \in Forms /\ timer \in Forms \cup {NoData}
    /\ write \in [Pages -> Writes] /\ \A w \in Busy : CanSave(write[w].opts)
    /\ {seeded, hydrating, settle, open, doubt} \subseteq BOOLEAN
    /\ left \in [{"edits", "others", "refetches", "faults"} -> Nat]

(* When nothing is pending, the form's options are the server's, unless a          *)
(* request was lost, two of them crossed, an edit came while the form was still    *)
(* being filled or took back one under way, or another host saved; a later save    *)
(* that runs alone repairs all of these.                                          *)
AutosavedAtRest ==
    open /\ seeded /\ CanSave(form) /\ timer = NoData /\ Busy = {} /\ ~ doubt
        => Held(rows) = form

(* Once filled, the form changes by the user's edits alone: no refetch, autosave   *)
(* or other host touches it (comment on the effect, PollBuilderPage.tsx:95).      *)
OnlyEdits == seeded /\ form' # form => left'.edits < left.edits
FormKept == [][OnlyEdits]_vars
=============================================================================
