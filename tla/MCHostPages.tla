----------------------------- MODULE MCHostPages -----------------------------
(* Small instances of the host's pages: the run follows every part.               *)
EXTENDS HostPages

CONSTANTS
    pa, pz, wb,  \* two polls and a wall
    q1, q2, q3   \* questions, words, texts of options

ValueOf(x, y, r) == [q \in {q1, q2, q3} |-> CASE q = q1 -> x [] q = q2 -> y [] q = q3 -> r]

(* Moderation: questions apart or one merged; buttons, replies, merges, the other  *)
(* host's requests, votes counted, faults.                                        *)
Votes == ValueOf(1, 2, 4)
ModerationBounds(k, r, m, o, v, f) ==
    [clicks |-> k, replies |-> r, merges |-> m, rivals |-> o, votes |-> v, faults |-> f]
Moderated(start, merged, bounds) == [start |-> start, into |-> merged, spare |-> bounds]
Apart  == ValueOf(none, none, none)
Mixed  == ValueOf("pending", "approved", "answered")
OneOut == ValueOf("approved", "approved", "archived")
Joined == ValueOf("dismissed", "approved", "approved")
ModerationInstances ==
    {Moderated(Mixed, Apart, ModerationBounds(2, 0, 0, 0, 0, 1)),
     Moderated(Mixed, Apart, ModerationBounds(1, 0, 0, 1, 0, 0)),
     Moderated(Mixed, Apart, ModerationBounds(0, 1, 0, 1, 0, 0)),
     Moderated(Mixed, Apart, ModerationBounds(0, 1, 0, 0, 0, 1)),
     Moderated(Joined, ValueOf(q2, none, none), ModerationBounds(0, 0, 2, 0, 0, 0)),
     Moderated(OneOut, Apart, ModerationBounds(0, 0, 1, 0, 1, 0)),
     Moderated(OneOut, Apart, ModerationBounds(0, 0, 2, 0, 0, 1))}

(* The workbench: buttons, edits of the list, another host, faults, the socket.    *)
BenchBounds(k, e, o, f, l) ==
    [clicks |-> k, edits |-> e, others |-> o, faults |-> f, link |-> l]
Bench(listed, running, first, switches, bounds) ==
    [order |-> listed, status |-> [i \in {pa, pz, wb} |-> IF i = running THEN "active" ELSE "idle"],
     session |-> first, auto |-> switches, follow |-> TRUE, left |-> bounds]
WithLocked(case, i) == [case EXCEPT !.status[i] = "locked"]
BenchInstances ==
    {Bench(<<pa, pz>>, pa, "live", TRUE, BenchBounds(2, 0, 0, 0, 0)),
     WithLocked(Bench(<<pa, pz>>, pa, "live", FALSE, BenchBounds(2, 0, 0, 1, 0)), pz),
     Bench(<<pa, pz, wb>>, wb, "draft", TRUE, BenchBounds(2, 0, 0, 1, 0)),
     Bench(<<pa>>, pa, "live", TRUE, BenchBounds(1, 0, 1, 0, 0)),
     Bench(<<pa, pz>>, none, "live", TRUE, BenchBounds(0, 2, 0, 1, 0)),
     Bench(<<pa, wb>>, none, "live", TRUE, BenchBounds(1, 0, 1, 0, 1)),
     Bench(<<pa, wb>>, none, "live", TRUE, BenchBounds(0, 0, 1, 1, 1)),
     Bench(<<pa, pz>>, none, "live", TRUE, BenchBounds(1, 1, 0, 0, 0)),
     Bench(<<pa, pz>>, none, "live", TRUE, BenchBounds(0, 1, 1, 0, 0))}

BuilderBounds(e, o, r, f) == [edits |-> e, others |-> o, refetches |-> r, faults |-> f]
BuilderCases == {BuilderBounds(2, 0, 0, 0), BuilderBounds(1, 1, 0, 0), BuilderBounds(1, 0, 1, 0),
                 BuilderBounds(1, 0, 0, 1)}

CloudBounds(v, k, f, pages) == [votes |-> v, presses |-> k, faults |-> f, open |-> pages]
CloudCases ==
    {CloudBounds(2, 0, 0, {"bench"}), CloudBounds(1, 1, 0, {"bench"}), CloudBounds(0, 2, 0, {"bench"}),
     CloudBounds(0, 1, 0, {"bench", "wall"}), CloudBounds(1, 0, 1, {"wall"}), CloudBounds(0, 1, 1, {"bench"})}
CloudGroupings == {ValueOf(q1, q2, q3), ValueOf(q1, q1, q3)}
=============================================================================
