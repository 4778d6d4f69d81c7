----------------------------- MODULE HostSignIn -----------------------------
(* The tokens of a host's browser: the pages (tabs) share what localStorage     *)
(* has, each renews it on its own when a request needs it, and any of them      *)
(* signs in or out.  The server keeps no tokens: it renews for whoever has a    *)
(* refresh token that is still good.  The admin's app has the same code.        *)
EXTENDS Naturals

CONSTANTS
    Tabs, Calls,    \* pages; requests a page may have under way
    SignInBudgets   \* bounds a behaviour may have: requests, presses of sign-in and
                    \* sign-out, reloads, ageing of tokens, faults

SignInAssumption ==
    SignInBudgets \subseteq
        [requests : Nat, presses : Nat, reloads : Nat, ages : Nat, faults : Nat]

VARIABLES
    issued,   \* server: pairs of an access and a refresh token issued, numbered
    expired,  \* server: access tokens up to this one are refused
    lapsed,   \* server: refresh tokens up to this one are refused
    elapsed,  \* access tokens up to this one have expired by the browser's clock
    stored,   \* localStorage: the pair it has, 0 for none
    authed,   \* App: the page shows the host's pages, not the login
    entering, \* LoginPage: the pair the login in flight was answered with, 0 for none
    request,  \* requests of each page
    renewal,  \* refreshInFlight of each page: how far, the pair it brings
    wanted,   \* history: the host signed in last, and did not sign out
    failed,   \* history: a renewal failed since
    afloat,   \* history: a renewal or a login was under way when the host signed out
    budget    \* what is left of the behaviour's bounds

vars == <<issued, expired, lapsed, elapsed, stored, authed, entering, request, renewal,
          wanted, failed, afloat, budget>>
server == <<issued, expired, lapsed, elapsed>>
past   == <<wanted, failed, afloat>>

Quiet   == [at |-> "none", pair |-> 0, again |-> FALSE, excused |-> FALSE]
NoRenewal == [at |-> "none", pair |-> 0]
Stages  == {"none", "before", "after", "sent", "refused", "unauthenticated"}

Init ==
    /\ issued = 1 /\ expired = 0 /\ lapsed = 0 /\ elapsed = 0
    /\ stored = 1 /\ authed = [t \in Tabs |-> TRUE]
    /\ entering = [t \in Tabs |-> 0]
    /\ request = [t \in Tabs |-> [c \in Calls |-> Quiet]]
    /\ renewal = [t \in Tabs |-> NoRenewal]
    /\ wanted = TRUE /\ failed = FALSE /\ afloat = FALSE
    /\ budget \in SignInBudgets

Spend(kind) == budget[kind] > 0 /\ budget' = [budget EXCEPT ![kind] = @ - 1]

(* A request that goes wrong now has a reason to.                              *)
Excused(all) ==
    [t \in Tabs |-> [c \in Calls |-> [all[t][c] EXCEPT !.excused = @ \/ all[t][c].at # "none"]]]

-----------------------------------------------------------------------------
(* Time.  The browser's clock may be off either way.                           *)

(* An access token lasts a quarter of an hour: longer than a renewal takes to    *)
(* come back, and a request to arrive that is sent again with its token.        *)
Again(r)   == r.again /\ r.at = "sent"
JustIssued == {renewal[t].pair : t \in {u \in Tabs : renewal[u].at = "granted"}} \cup
    UNION {{request[t][c].pair : c \in {d \in Calls : Again(request[t][d])}} : t \in Tabs}

AccessExpires ==
    /\ Spend("ages")
    /\ \E p \in expired + 1 .. issued :
          (\A j \in JustIssued : p < j) /\ expired' = p
    /\ UNCHANGED <<issued, lapsed, elapsed, stored, authed, entering, request, renewal, past>>

BrowserSeesExpiry ==
    /\ elapsed < issued /\ Spend("ages") /\ elapsed' = issued
    /\ UNCHANGED <<issued, expired, lapsed, stored, authed, entering, request, renewal, past>>

(* After two weeks the refresh tokens are refused as well.                     *)
RefreshLapses ==
    /\ Spend("faults")
    /\ \E p \in lapsed + 1 .. issued :
          /\ \A j \in JustIssued : p < j
          /\ lapsed' = p /\ expired' = IF p > expired THEN p ELSE expired
    /\ UNCHANGED <<issued, elapsed, stored, authed, entering, request, renewal, past>>

-----------------------------------------------------------------------------
(* api(): a request of a page.                                                 *)

Sent(r, pair)    == [r EXCEPT !.at = "sent", !.pair = pair]
Waits(r, where)  == [r EXCEPT !.at = where]

(* refreshAccessToken(): one renewal of a page at a time, with the refresh      *)
(* token stored now; who comes later waits for it.                             *)
Joined(t) ==
    IF renewal[t].at = "none" THEN [renewal EXCEPT ![t] = [at |-> "asked", pair |-> stored]]
    ELSE renewal

Free(t, c) == request[t][c].at = "none"

(* resolveAccessToken: the stored token, or none, unless its time has come.     *)
Asks(t, c) ==
    /\ authed[t] /\ Spend("requests")
    /\ Free(t, c) /\ c = CHOOSE d \in Calls : Free(t, d)  \* they are alike
    /\ LET r == [Quiet EXCEPT !.excused = stored = 0]
       IN  IF stored # 0 /\ stored <= elapsed
           THEN /\ request' = [request EXCEPT ![t][c] = Waits(r, "before")]
                /\ renewal' = Joined(t)
           ELSE /\ request' = [request EXCEPT ![t][c] = Sent(r, stored)]
                /\ UNCHANGED renewal
    /\ UNCHANGED <<server, stored, authed, entering, past>>

(* An accepted request is answered; nothing depends on when the answer arrives. *)
Serves(t, c) ==
    /\ request[t][c].at = "sent"
    /\ request' = [request EXCEPT ![t][c] =
                     IF @.pair > expired THEN Quiet ELSE [@ EXCEPT !.at = "refused"]]
    /\ UNCHANGED <<server, stored, authed, entering, renewal, past, budget>>

MayRetry(r) == ~ r.again /\ stored # 0

(* A 401: the request is sent again once, with renewed tokens.                 *)
Hears401(t, c) ==
    /\ request[t][c].at = "refused"
    /\ IF MayRetry(request[t][c])
       THEN /\ request' = [request EXCEPT ![t][c] = Waits(@, "after")]
            /\ renewal' = Joined(t)
       ELSE /\ request' = [request EXCEPT ![t][c].at = "unauthenticated"]
            /\ UNCHANGED renewal
    /\ UNCHANGED <<server, stored, authed, entering, past, budget>>

(* What failed is shown as an error, and the page asks again when it likes.     *)
ShowsError(t, c) ==
    /\ request[t][c].at = "unauthenticated"
    /\ request' = [request EXCEPT ![t][c] = Quiet]
    /\ UNCHANGED <<server, stored, authed, entering, renewal, past, budget>>

(* POST /auth/refresh.                                                         *)
Renews(t) ==
    /\ renewal[t].at = "asked"
    /\ IF renewal[t].pair > lapsed
       THEN /\ issued' = issued + 1
            /\ renewal' = [renewal EXCEPT ![t] = [at |-> "granted", pair |-> issued + 1]]
       ELSE /\ renewal' = [renewal EXCEPT ![t].at = "denied"] /\ UNCHANGED issued
    /\ UNCHANGED <<expired, lapsed, elapsed, stored, authed, entering, request, past, budget>>

RenewalLost(t) ==
    /\ renewal[t].at = "asked" /\ Spend("faults")
    /\ renewal' = [renewal EXCEPT ![t].at = "denied"]
    /\ UNCHANGED <<server, stored, authed, entering, request, past>>

(* The waiting requests go on: those that waited before they were sent are      *)
(* sent, without a token if there is none; those answered 401 are sent again,   *)
(* unless the browser's clock has the new token expired as well: they wait for   *)
(* another renewal.                                                            *)
GoOn(r, pair) ==
    CASE r.at = "before" -> Sent(r, pair)
      [] r.at = "after"  -> LET retried == [r EXCEPT !.again = TRUE]
                            IN  CASE pair = 0        -> [r EXCEPT !.at = "unauthenticated"]
                                  [] pair > elapsed  -> Sent(retried, pair)
                                  [] OTHER           -> Waits(retried, "before")
      [] OTHER           -> r

RenewalEnds(t) ==
    /\ renewal[t].at \in {"granted", "denied"}
    /\ LET pair == IF renewal[t].at = "granted" THEN renewal[t].pair ELSE 0
           gone == [request EXCEPT ![t] = [c \in Calls |-> GoOn(request[t][c], pair)]]
       IN  /\ stored' = pair
           /\ request' = IF pair = 0 THEN Excused(gone) ELSE gone
           /\ failed' = (failed \/ pair = 0)
           /\ renewal' = [renewal EXCEPT ![t] =
                            IF \E c \in Calls : gone[t][c].at = "before"
                            THEN [at |-> "asked", pair |-> pair] ELSE NoRenewal]
    /\ UNCHANGED <<server, authed, entering, wanted, afloat, budget>>

-----------------------------------------------------------------------------
(* App and LoginPage.                                                          *)

Submits(t) ==
    /\ ~ authed[t] /\ entering[t] = 0 /\ Spend("presses")
    /\ issued' = issued + 1 /\ entering' = [entering EXCEPT ![t] = issued + 1]
    /\ UNCHANGED <<expired, lapsed, elapsed, stored, authed, request, renewal, past>>

SignedIn(t) ==
    /\ entering[t] # 0
    /\ stored' = entering[t] /\ entering' = [entering EXCEPT ![t] = 0]
    /\ authed' = [authed EXCEPT ![t] = TRUE]
    /\ wanted' = TRUE /\ failed' = FALSE
    /\ UNCHANGED <<server, request, renewal, afloat, budget>>

(* What is under way goes on, and its answers are still stored.                *)
LogOut(t) ==
    /\ authed[t] /\ Spend("presses")
    /\ stored' = 0 /\ authed' = [authed EXCEPT ![t] = FALSE]
    /\ request' = Excused(request)
    /\ wanted' = FALSE
    /\ afloat' = \E u \in Tabs : renewal[u].at # "none" \/ entering[u] # 0
    /\ UNCHANGED <<server, entering, renewal, failed>>

(* hasValidSession: an access token, or one the refresh token may replace.      *)
Reloads(t) ==
    /\ Spend("reloads")
    /\ authed' = [authed EXCEPT ![t] = stored # 0]
    /\ entering' = [entering EXCEPT ![t] = 0]
    /\ request' = [request EXCEPT ![t] = [c \in Calls |-> Quiet]]
    /\ renewal' = [renewal EXCEPT ![t] = NoRenewal]
    /\ UNCHANGED <<server, stored, past>>

-----------------------------------------------------------------------------
Answers(t, c) == Serves(t, c) \/ Hears401(t, c)
Renewing(t)   == Renews(t) \/ RenewalEnds(t)

Next ==
    \/ AccessExpires \/ BrowserSeesExpiry \/ RefreshLapses
    \/ \E t \in Tabs :
          \/ \E c \in Calls : Asks(t, c) \/ Answers(t, c) \/ ShowsError(t, c)
          \/ Renewing(t) \/ RenewalLost(t)
          \/ Submits(t) \/ SignedIn(t) \/ LogOut(t) \/ Reloads(t)

Spec == Init /\ [][Next]_vars

-----------------------------------------------------------------------------
(* Types; who waits for a renewal has one to wait for.                         *)
TypeOK ==
    /\ issued \in Nat /\ {expired, lapsed, elapsed, stored} \subseteq 0 .. issued
    /\ authed \in [Tabs -> BOOLEAN] /\ entering \in [Tabs -> 0 .. issued]
    /\ \A t \in Tabs :
          /\ renewal[t].at \in {"none", "asked", "granted", "denied"}
          /\ \A c \in Calls : /\ request[t][c].at \in Stages
                              /\ request[t][c].at \in {"before", "after"} =>
                                     renewal[t].at # "none"
    /\ {wanted, failed, afloat} \subseteq BOOLEAN

(* The host's last word on being signed in is what the browser has, whatever    *)
(* pages renew at once and however their answers overtake each other: a sign-in  *)
(* is kept until a renewal fails, a sign-out unless one was under way then.      *)
SignInStands ==
    /\ wanted /\ ~ failed => stored # 0
    /\ ~ wanted /\ ~ afloat => stored = 0

(* No request of a host the server would renew ends in a 401: not for a token    *)
(* that expired on its way, nor when several requests and pages renew at once.   *)
(* It has another reason: a renewal that failed or a sign-out in one of the      *)
(* pages, or no token from the start.                                          *)
NoNeedlessRefusal ==
    \A t \in Tabs, c \in Calls :
       request[t][c].at = "unauthenticated" => request[t][c].excused

(* No request waits for ever for a renewal, or goes on renewing.                *)
NothingWaits ==
    \A t \in Tabs, c \in Calls : request[t][c].at \in {"none", "unauthenticated"}
=============================================================================
