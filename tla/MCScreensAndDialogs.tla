------------------------- MODULE MCScreensAndDialogs -------------------------
(* Small instances of the screen, the pages that only show, the dialogs, the        *)
(* host's tokens and joining: the run follows every part.                          *)
EXTENDS ScreensAndDialogs

CONSTANTS sa, sb  \* sessions

(* The screen: presses of the panel, moves on the workbench, the host's refetch, a  *)
(* request that fails; with a screen open, a lost socket.                          *)
ScreenBounds(k, m, p, f, l, open) ==
    [presses |-> k, moves |-> m, polls |-> p, fails |-> f, losses |-> l, screen |-> open]
ScreenCases ==
    {ScreenBounds(2, 0, 0, 0, 0, FALSE), ScreenBounds(1, 0, 1, 1, 0, FALSE),
     ScreenBounds(1, 2, 0, 0, 0, FALSE), ScreenBounds(0, 2, 0, 1, 0, FALSE),
     ScreenBounds(1, 0, 0, 0, 0, TRUE), ScreenBounds(0, 1, 0, 0, 1, TRUE)}

(* The pages: changes, faults; the pages and the changes in play.                  *)
ViewBounds(k, f, pages, kinds) == [changes |-> k, faults |-> f, pages |-> pages, kinds |-> kinds]
Ideas == {"ideasScreen", "ideasPresent"}
Quiz  == {"quizPresent", "overviewScreen"}
Every == {"qaScreen", "qaPresent", "surveyScreen", "surveyPresent", "overviewPresent",
          "roomOverview"} \cup Ideas \cup Quiz
ViewCases == {ViewBounds(2, 0, Every, {"poll", "start", "survey", "qa"}),
              ViewBounds(2, 0, Ideas \cup Quiz, {"reveal", "close", "answer", "start", "idea", "quiet"}),
              ViewBounds(1, 1, Every, {"qa", "start", "idea", "joining"})}

AiBounds(o, e, r, s) == [openings |-> o, edits |-> e, requests |-> r, saves |-> s]
AiCases == {AiBounds(1, 1, 2, 0), AiBounds(2, 1, 1, 1), AiBounds(2, 0, 2, 0)}

ReportBounds(k, s, o, r, f) ==
    [activity |-> k, saves |-> s, openings |-> o, refreshes |-> r, faults |-> f]
ReportCases == {ReportBounds(1, 0, 2, 1, 0), ReportBounds(1, 1, 1, 1, 0),
                ReportBounds(0, 0, 2, 1, 1), ReportBounds(1, 0, 1, 2, 0)}

GeneratorBounds(g, c, e, m, f) ==
    [generate |-> g, create |-> c, edits |-> e, moves |-> m, faults |-> f]
GeneratorCases == {GeneratorBounds(1, 2, 1, 1, 1), GeneratorBounds(2, 1, 1, 1, 1),
                   GeneratorBounds(1, 2, 0, 2, 0)}

(* The tokens of two pages: requests, presses, reloads, ageing, faults.            *)
SignInBounds(q, p, r, a, f) ==
    [requests |-> q, presses |-> p, reloads |-> r, ages |-> a, faults |-> f]
SignInCases == {SignInBounds(3, 0, 0, 2, 0), SignInBounds(1, 2, 0, 1, 1),
                SignInBounds(2, 1, 1, 1, 0), SignInBounds(2, 0, 1, 1, 1)}

(* Who is live, what one joins by signing in elsewhere; addresses, joins, leavings, *)
(* moves of the host, reopenings, faults.                                         *)
JoinBounds(l, o, w, j, v, m, r, f) ==
    [live |-> l, sso |-> o, walks |-> w, joins |-> j, leaves |-> v, moves |-> m,
     reopens |-> r, faults |-> f]
JoinCases == {JoinBounds({sa, sb}, {sb}, 3, 2, 0, 0, 0, 0), JoinBounds({sa}, {}, 2, 2, 1, 0, 0, 0),
              JoinBounds({sa}, {}, 2, 1, 0, 2, 1, 0), JoinBounds({}, {sa}, 1, 1, 1, 2, 0, 0),
              JoinBounds({sa}, {sa}, 2, 2, 0, 0, 0, 1), JoinBounds({sa, sb}, {}, 2, 2, 0, 1, 0, 0)}
==============================================================================
