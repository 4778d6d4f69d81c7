---------------------------- MODULE DecisionReport ----------------------------
(* The AI report of a session.  The server keeps it inside the session's          *)
(* settings, which a handler reads before it asks the model and writes back       *)
(* afterwards; saving the session's settings replaces them, report and all.  The  *)
(* dialog of the overview fetches the report when it opens, generates one when    *)
(* there is none, and again on request.  A report is the activity it analysed.    *)
EXTENDS Naturals

CONSTANTS
    NoData,         \* no report, no request, nothing read
    Slots,          \* requests that may be under way at once
    ReportBudgets   \* bounds: activity, saves, openings, refreshes, faults

VARIABLES
    activity,   \* server: what there is to analyse
    settings,   \* server: the session's settings, with the report
    call,       \* the dialog's requests, with what their handlers have read
    open,       \* the dialog is shown
    force,      \* it was opened to generate
    shown,      \* the report in it
    loading, failed,
    clashed,    \* history: a report was written over what was read before a change
    late,       \* history: a report came for a dialog closed since, or across another
                \* request
    left        \* what is left of the behaviour's bounds

server == <<activity, settings>>
dialog == <<open, force, shown, loading, failed>>
vars   == <<server, call, dialog, clashed, late, left>>

Use(kind) == left[kind] > 0 /\ left' = [left EXCEPT ![kind] = @ - 1]
Settings(version, report) == [version |-> version, report |-> report]

ReportCalls ==
    [by : {"effect", "refresh"}, force : BOOLEAN, mounted : BOOLEAN,
     at : {"look", "found", "generate", "analyses", "done", "failed"},
     read : [version : Nat, report : Nat \cup {NoData}] \cup {NoData},
     seen : Nat \cup {NoData}, reply : Nat \cup {NoData}]
ReportAssumption == NoData \notin ReportCalls

Init ==
    /\ activity = 0 /\ settings \in {Settings(0, NoData), Settings(0, 0)}
    /\ call = [s \in Slots |-> NoData]
    /\ open = FALSE /\ force = FALSE /\ shown = NoData /\ loading = FALSE /\ failed = FALSE
    /\ clashed = FALSE /\ late = FALSE /\ left \in ReportBudgets

-----------------------------------------------------------------------------
(* The session goes on; its settings are saved.                                *)

GoesOn ==
    /\ Use("activity") /\ activity' = activity + 1
    /\ UNCHANGED <<settings, call, dialog, clashed, late>>

SavesSettings ==
    /\ Use("saves") /\ settings' = Settings(settings.version + 1, NoData)
    /\ UNCHANGED <<activity, call, dialog, clashed, late>>

-----------------------------------------------------------------------------
(* The dialog.                                                                 *)

Request(by, at, f) ==
    [by |-> by, at |-> at, force |-> f, mounted |-> TRUE, read |-> NoData, seen |-> NoData,
     reply |-> NoData]

Asks(r) ==
    /\ \E s \in Slots : call[s] = NoData /\ call' = [call EXCEPT ![s] = r]
    /\ loading' = TRUE /\ failed' = FALSE

(* The effect asks for the stored report first, unless it was told to generate.  *)
Opens(f) ==
    /\ ~ open /\ Use("openings") /\ open' = TRUE /\ force' = f
    /\ Asks(Request("effect", IF f THEN "generate" ELSE "look", f))
    /\ UNCHANGED <<server, shown, clashed, late>>

Unmounted(r) == IF r # NoData /\ r.by = "effect" THEN [r EXCEPT !.mounted = FALSE] ELSE r

Closes ==
    /\ open /\ open' = FALSE
    /\ call' = [s \in Slots |-> Unmounted(call[s])]
    /\ UNCHANGED <<server, force, shown, loading, failed, clashed, late, left>>

Refresh ==
    /\ open /\ (~ loading \/ failed) /\ Use("refreshes")
    /\ Asks(Request("refresh", "generate", TRUE))
    /\ UNCHANGED <<server, open, force, shown, clashed, late>>

-----------------------------------------------------------------------------
(* The handlers.                                                               *)

Step(s, r) == call' = [call EXCEPT ![s] = r]
At(s, step) == call[s] # NoData /\ call[s].at = step

Looks(s) ==
    /\ At(s, "look")
    /\ Step(s, [call[s] EXCEPT !.at = "found", !.reply = settings.report])
    /\ UNCHANGED <<server, dialog, clashed, late, left>>

(* Without force the stored report is the answer, the settings are read now.      *)
Reads(s) ==
    /\ At(s, "generate")
    /\ Step(s, IF ~ call[s].force /\ settings.report # NoData
               THEN [call[s] EXCEPT !.at = "done", !.reply = settings.report]
               ELSE [call[s] EXCEPT !.at = "analyses", !.read = settings, !.seen = activity])
    /\ UNCHANGED <<server, dialog, clashed, late, left>>

Crosses(s) == ~ call[s].mounted \/ \E t \in Slots \ {s} : call[t] # NoData
Written(r) == Settings(r.read.version, r.seen)

Writes(s) ==
    /\ At(s, "analyses") /\ settings' = Written(call[s])
    /\ clashed' = (clashed \/ settings # call[s].read) /\ late' = (late \/ Crosses(s))
    /\ Step(s, [call[s] EXCEPT !.at = "done", !.reply = call[s].seen])
    /\ UNCHANGED <<activity, dialog, left>>

Fails(s) ==
    /\ call[s] # NoData /\ call[s].at # "failed" /\ Use("faults")
    /\ Step(s, [call[s] EXCEPT !.at = "failed"])
    /\ UNCHANGED <<server, dialog, clashed, late>>

-----------------------------------------------------------------------------
(* What the dialog does with the answers.                                      *)

(* A report that is there is shown; an effect of a closed dialog goes on to       *)
(* generate, and shows nothing.                                                *)
LookEnds(s) ==
    /\ At(s, "found")
    /\ IF call[s].mounted /\ call[s].reply # NoData
       THEN /\ shown' = call[s].reply /\ loading' = FALSE
            /\ call' = [call EXCEPT ![s] = NoData]
       ELSE /\ Step(s, [call[s] EXCEPT !.at = "generate"]) /\ UNCHANGED <<shown, loading>>
    /\ UNCHANGED <<server, open, force, failed, clashed, late, left>>

Settled(r) == IF r.mounted THEN FALSE ELSE loading

Ends(s) ==
    /\ At(s, "done") \/ At(s, "failed")
    /\ LET r == call[s] IN
       /\ loading' = Settled(r)
       /\ failed' = (IF r.mounted THEN r.at = "failed" ELSE failed)
       /\ shown' = IF r.mounted /\ r.at = "done" THEN r.reply ELSE shown
       /\ late' = (late \/ Crosses(s))
    /\ call' = [call EXCEPT ![s] = NoData]
    /\ UNCHANGED <<server, open, force, clashed, left>>

-----------------------------------------------------------------------------
Next ==
    \/ GoesOn \/ SavesSettings \/ Closes \/ Refresh \/ \E f \in BOOLEAN : Opens(f)
    \/ \E s \in Slots : Looks(s) \/ Reads(s) \/ Writes(s) \/ Fails(s) \/ LookEnds(s) \/ Ends(s)

Spec == Init /\ [][Next]_vars

(* The model answers, or its call times out and the local analysis is used.       *)
Fairness ==
    \A s \in Slots : /\ WF_vars(Looks(s)) /\ WF_vars(Reads(s)) /\ WF_vars(Writes(s))
                     /\ WF_vars(LookEnds(s)) /\ WF_vars(Ends(s))
FairSpec == Spec /\ Fairness

-----------------------------------------------------------------------------
Reports == 0 .. activity
TypeOK ==
    /\ activity \in Nat /\ settings.version \in Nat /\ settings.report \in Reports \cup {NoData}
    /\ shown \in Reports \cup {NoData} /\ {open, force, loading, failed} \subseteq BOOLEAN
    /\ call \in [Slots -> ReportCalls \cup {NoData}]
    /\ \A s \in Slots : call[s] = NoData \/
          /\ call[s].seen \in Reports \cup {NoData} /\ call[s].reply \in Reports \cup {NoData}

(* The printed report is the stored one: it is the report shown, whenever nothing *)
(* is under way, unless one was written over a change that it had not read.       *)
AtRest == open /\ ~ loading /\ ~ failed /\ \A s \in Slots : call[s] = NoData
PrintsWhatIsShown ==
    AtRest /\ ~ clashed /\ ~ late /\ settings.report # NoData => shown = settings.report

(* A shown dialog that shows no error is busy only while a request is under way.  *)
BusyIsAsked == open /\ loading => \E s \in Slots : call[s] # NoData /\ call[s].mounted

(* The dialog becomes usable again.                                             *)
Usable == open => ~ loading
=============================================================================
