------------------------------ MODULE AiSettings ------------------------------
(* The dialog for the AI provider, the model and the key of one browser, kept in  *)
(* its local storage and sent with every AI request.  The dialog stays mounted     *)
(* when it is closed: answers and timers of an earlier opening still reach it.     *)
(* The base URL follows the provider as the model does and is left out.           *)
EXTENDS Naturals, FiniteSets

CONSTANTS
    Providers,
    Home,         \* the provider the dialog starts with
    Server,       \* the provider the server itself uses, NoData if it has no key
    NoData,       \* nothing stored, no list, no request
    Slots,        \* requests that may be under way at once
    AiBudgets     \* bounds: openings, edits, requests, saves

VARIABLES
    stored,   \* local storage
    form,     \* the dialog's fields
    list,     \* the provider whose models were fetched
    status,   \* the banner of the last test
    loading,  \* the list is being fetched
    call,     \* requests under way
    open,     \* the dialog is shown
    timers,   \* running timers that close it
    crossed,  \* history: an answer came for another provider than the form's, or the host
              \* typed another's model
    left      \* what is left of the behaviour's bounds

vars == <<stored, form, list, status, loading, call, open, timers, crossed, left>>

Model(p, name) == [of |-> p, name |-> name]
Models(p)      == {Model(p, "default"), Model(p, "other")}
AllModels      == UNION {Models(p) : p \in Providers}
Config(p, m, k) == [provider |-> p, model |-> m, key |-> k]
Default(p)     == Config(p, Model(p, "default"), FALSE)
Configs        == [provider : Providers, model : AllModels, key : BOOLEAN]
Answers        == [result : {"success", "warning", "error"}, of : Providers,
                   model : AllModels, models : BOOLEAN]
AiCalls        == [kind : {"test", "models"}, asked : Configs, answer : Answers \cup {NoData}]
Use(kind)      == left[kind] > 0 /\ left' = [left EXCEPT ![kind] = @ - 1]

(* getAiConfig: what is stored, or the first provider's defaults.                *)
Seed == IF stored = NoData THEN Default(Home) ELSE stored

(* An AI request carries the stored configuration, or nothing without a key.     *)
Headers == IF Seed.key THEN Seed ELSE NoData

AiAssumption ==
    /\ Home \in Providers /\ Server \in Providers \cup {NoData}
    /\ NoData \notin Configs /\ NoData \notin AiCalls

Init ==
    /\ stored \in {NoData} \cup {Config(p, Model(p, "default"), TRUE) : p \in Providers}
    /\ form = Default(Home) /\ list = NoData /\ status = "idle" /\ loading = FALSE
    /\ call = [s \in Slots |-> NoData] /\ open = FALSE /\ timers = 0
    /\ crossed = FALSE /\ left \in AiBudgets

-----------------------------------------------------------------------------
(* The dialog's buttons.                                                       *)

Opens ==
    /\ ~ open /\ Use("openings") /\ open' = TRUE
    /\ form' = Seed /\ status' = "idle" /\ list' = NoData
    /\ UNCHANGED <<stored, loading, call, timers, crossed>>

Cancel ==
    /\ open /\ open' = FALSE
    /\ UNCHANGED <<stored, form, list, status, loading, call, timers, crossed, left>>

KeepsModel(p) == [form EXCEPT !.provider = p]  \* mutant: the model stays
Switched(p)   == [form EXCEPT !.provider = p, !.model = Model(p, "default")]

ChangeProvider(p) ==
    /\ open /\ Use("edits") /\ form' = Switched(p) /\ list' = NoData
    /\ UNCHANGED <<stored, status, loading, call, open, timers, crossed>>

Offered == Models(form.provider) \cup (IF list = NoData THEN {} ELSE Models(list))

(* One that is offered, or any whose name is typed in.                            *)
PickModel(m) ==
    /\ open /\ Use("edits") /\ form' = [form EXCEPT !.model = m]
    /\ crossed' = (crossed \/ m \notin Offered)
    /\ UNCHANGED <<stored, list, status, loading, call, open, timers>>

TypeKey ==
    /\ open /\ Use("edits") /\ form' = [form EXCEPT !.key = ~ @]
    /\ UNCHANGED <<stored, list, status, loading, call, open, timers, crossed>>

Asks(kind) ==
    /\ open /\ Use("requests") /\ status' = "testing"
    /\ \E s \in Slots : call[s] = NoData /\ call' =
          [call EXCEPT ![s] = [kind |-> kind, asked |-> form, answer |-> NoData]]
    /\ UNCHANGED <<stored, form, list, open, timers, crossed>>

Test == status # "testing" /\ Asks("test") /\ UNCHANGED loading
FetchModels == ~ loading /\ status # "testing" /\ Asks("models") /\ loading' = TRUE

Closes(n) == timers' = n
Save ==
    /\ open /\ Use("saves") /\ stored' = form /\ Closes(timers + 1)
    /\ UNCHANGED <<form, list, status, loading, call, open, crossed>>

(* The timer of a save closes the dialog, whoever opened it since.               *)
TimerFires ==
    /\ timers > 0 /\ Closes(timers - 1) /\ open' = FALSE
    /\ UNCHANGED <<stored, form, list, status, loading, call, crossed, left>>

Clear ==
    /\ open /\ Use("saves") /\ stored' = NoData /\ form' = Default(Home)
    /\ list' = NoData /\ status' = "idle"
    /\ UNCHANGED <<loading, call, open, timers, crossed>>

-----------------------------------------------------------------------------
(* Answers.  Without a key the server speaks of its own configuration, and warns  *)
(* when it has no key either; a model the provider no longer has is replaced.     *)

Answer(result, p, m, models) == [result |-> result, of |-> p, model |-> m, models |-> models]
Asked(c) == IF c.asked.key \/ Server = NoData THEN c.asked ELSE Default(Server)
Possible(c) ==
    LET a == Asked(c) IN
    IF ~ c.asked.key /\ Server = NoData
    THEN {Answer("warning", Home, Model(Home, "default"), FALSE)}
    ELSE {Answer("success", a.provider, a.model, TRUE), Answer("error", a.provider, a.model, FALSE)}
         \cup (IF c.kind = "test" THEN {Answer("warning", a.provider, Model(a.provider, "other"), TRUE)}
                                  ELSE {})

Serves(s) ==
    /\ call[s] # NoData /\ call[s].answer = NoData
    /\ \E a \in Possible(call[s]) : call' = [call EXCEPT ![s].answer = a]
    /\ UNCHANGED <<stored, form, list, status, loading, open, timers, crossed, left>>

(* handleTest compares with the model it was called with, and looks no further.   *)
Replaces(c) == c.kind = "test" /\ c.answer.result = "warning" /\ c.answer.model # c.asked.model
Tested(c) == IF Replaces(c) THEN [form EXCEPT !.model = c.answer.model] ELSE form

Loads(c)        == IF c.kind = "models" THEN FALSE ELSE loading

Settles(s) ==
    /\ call[s] # NoData /\ call[s].answer # NoData
    /\ LET c == call[s] a == c.answer IN
       /\ form' = Tested(c) /\ loading' = Loads(c)
       /\ list' = IF a.models THEN a.of ELSE list
       /\ status' = IF c.kind = "test" \/ a.models THEN a.result ELSE "error"
       /\ crossed' = (crossed \/ (a.of # form.provider /\ (a.models \/ Replaces(c))))
    /\ call' = [call EXCEPT ![s] = NoData]
    /\ UNCHANGED <<stored, open, timers, left>>

-----------------------------------------------------------------------------
Next ==
    \/ Opens \/ Cancel \/ TypeKey \/ Test \/ FetchModels \/ Save \/ TimerFires \/ Clear
    \/ \E p \in Providers : ChangeProvider(p)
    \/ \E m \in AllModels : PickModel(m)
    \/ \E s \in Slots : Serves(s) \/ Settles(s)

Spec == Init /\ [][Next]_vars

(* Requests are answered and their handlers run; a timer fires.                  *)
Fairness == WF_vars(TimerFires) /\ \A s \in Slots : WF_vars(Serves(s)) /\ WF_vars(Settles(s))
FairSpec == Spec /\ Fairness

-----------------------------------------------------------------------------
TypeOK ==
    /\ stored \in Configs \cup {NoData} /\ form \in Configs
    /\ list \in Providers \cup {NoData}
    /\ status \in {"idle", "testing", "success", "warning", "error"}
    /\ loading \in BOOLEAN /\ open \in BOOLEAN /\ timers \in Nat
    /\ call \in [Slots -> AiCalls \cup {NoData}]

(* The model in the form, the fetched list, and so the configuration that every   *)
(* AI request carries belong to its provider, until an answer for another         *)
(* provider comes in or the host types a model it does not offer.                 *)
Matches(c) == c # NoData => c.model.of = c.provider
ModelOfProvider ==
    crossed \/ (/\ Matches(form) /\ Matches(stored) /\ Matches(Headers)
                /\ list \in {NoData, form.provider})

(* Both buttons come back: no answer is lost between two openings.               *)
NothingBusy == status # "testing" /\ ~ loading

(* The list is only said to be loading while a request for one is under way.      *)
BusyIsAsked == loading => \E s \in Slots : call[s] # NoData /\ call[s].kind = "models"
=============================================================================
