----------------------------- MODULE WordClouds -----------------------------
(* The word cloud of one running poll: participants add words, the server keeps  *)
(* the counts, the clustered cloud it last computed and the merges the host made  *)
(* by dragging, and two viewers keep a copy: the host's workbench and the wall.   *)
(* A vote pushes the raw counts to both; a change of the clustering only makes    *)
(* them fetch.  The poll's own row (status, reveal) is not part of this module.   *)
EXTENDS Naturals, Sequences, FiniteSets

CONSTANTS
    Words,
    Groupings,     \* what the model, or the local fallback, may answer: heads of words
    Voters,        \* submissions that may be under way at once
    NoData,        \* nothing cached, no cloud stored, no payload
    CloudBudgets   \* bounds: votes, presses and drags, requests or events lost;
                   \* and the viewers whose page is open

CloudAssumption ==
    /\ IsFiniteSet(Words) /\ Words # {} /\ Groupings \subseteq [Words -> Words]
    /\ CloudBudgets \subseteq [votes : Nat, presses : Nat, faults : Nat,
                              open : SUBSET {"bench", "wall"}]
    /\ NoData \notin [Words -> Nat]
    /\ NoData \notin [at : {"counted", "read"}, raw : [Words -> Nat] \cup {NoData}]
    /\ \A H \in SUBSET Words : LET Clouds == [H -> [Words -> Nat]]
                              IN  NoData \notin Clouds \cup [cloud : Clouds, ai : BOOLEAN]

INSTANCE QueryCache

VARIABLES
    raw,        \* server: how often each word was submitted
    choice,     \* server: settings_jsonb: on, cache, at, merges
    job,        \* server: what each handler that clusters has read, by caller
    vote,       \* server: the payload of a submission that was counted
    pending,    \* server: the throttled broadcast
    call,       \* workbench: requests of its buttons and of a drag
    cache,      \* viewers: cached results
    inbox,      \* viewers: events under way
    linked,     \* viewers: the socket is up
    said,       \* history: the clustering as the host's last request left it
    crossed,    \* history: a handler wrote what an overlapping one had changed
    spoiled,    \* history: viewers that lost an event, or patched over a fetch or a
                \* clustered cloud, or were not told of a cloud computed late
    left        \* what is left of the behaviour's bounds

server == <<raw, choice, job, vote, pending>>
pages  == <<call, cache, inbox, linked>>
past   == <<said, crossed, spoiled>>
vars   == <<server, pages, past, left>>

Viewers == {"bench", "wall"}
Tools   == {"button", "drag"}
Callers == Tools \cup Viewers
Open    == left.open
Use(kind) == left[kind] > 0 /\ left' = [left EXCEPT ![kind] = @ - 1]

-----------------------------------------------------------------------------
(* Clouds: a head word and, under it, how often each of its variants was said.  *)

Only(w, n)     == [v \in Words |-> IF v = w THEN n ELSE 0]
Plus(f, g)     == [v \in Words |-> f[v] + g[v]]
Variants(c, h) == {v \in Words : c[h][v] > 0}
Total(r)       == Cardinality(UNION {{w} \X (1 .. r[w]) : w \in Words})  \* _count_responses
RawCloud(r)    == [h \in {w \in Words : r[w] > 0} |-> Only(h, r[h])]

(* cluster_word_cloud: the counts of the variants the answer lists.             *)
Clustered(r, g) ==
    [h \in {g[w] : w \in {v \in Words : r[v] > 0}} |->
        [v \in Words |-> IF g[v] = h THEN r[v] ELSE 0]]

MergedInto(c, s, t) ==
    [h \in DOMAIN c \ {s} |-> IF h = t THEN Plus(c[t], c[s]) ELSE c[h]]

(* _apply_manual_merges: pairs whose words are no heads any more are skipped.   *)
MergedIf(c, m) ==
    IF {m[1], m[2]} \subseteq DOMAIN c THEN MergedInto(c, m[1], m[2]) ELSE c
Applied(c, merges) ==
    LET after[n \in 0 .. Len(merges)] ==
            IF n = 0 THEN c ELSE MergedIf(after[n - 1], merges[n])
    IN  after[Len(merges)]

(* A variant that is taken out again is not merged into its group any more.         *)
Without(merges, m) ==
    LET kept[n \in 0 .. Len(merges)] ==
            IF n = 0 THEN <<>>
            ELSE IF merges[n] = m THEN kept[n - 1] ELSE Append(kept[n - 1], merges[n])
    IN  kept[Len(merges)]

(* A variant that gave the group its name leaves it to the most frequent rest.  *)
TakenApart(c, h, v) ==
    LET rest == [c[h] EXCEPT ![v] = 0]
        name == IF v # h THEN h
                ELSE CHOOSE w \in Words : \A u \in Words : rest[w] >= rest[u]
    IN  [k \in (DOMAIN c \ {h}) \cup {name, v} |->
            IF k = v THEN Only(v, c[h][v]) ELSE IF k = name THEN rest ELSE c[k]]

Settings(on, c, at, merges) == [on |-> on, cache |-> c, at |-> at, merges |-> merges]
Result(c, ai) == [cloud |-> c, ai |-> ai]

NoJob  == [kind |-> "none", choice |-> NoData, raw |-> NoData]
NoCall == [at |-> "free", kind |-> "none", source |-> NoData, target |-> NoData, reply |-> NoData]

Init ==
    /\ raw = [w \in Words |-> 1]
    /\ choice \in {Settings(FALSE, NoData, 0, <<>>)} \cup
                  {Settings(TRUE, Clustered(raw, g), Total(raw), <<>>) : g \in Groupings}
    /\ job = [k \in Callers |-> NoJob] /\ vote = [p \in Voters |-> NoData]
    /\ pending = NoData /\ call = [t \in Tools |-> NoCall]
    /\ left \in CloudBudgets
    /\ cache = [v \in Viewers |->
                   IF v \notin Open THEN Unused
                   ELSE Written(Unused, IF choice.on THEN Result(choice.cache, TRUE)
                                                     ELSE Result(RawCloud(raw), FALSE))]
    /\ inbox = [v \in Viewers |-> <<>>] /\ linked = [v \in Viewers |-> TRUE]
    /\ said = [on |-> choice.on, merges |-> choice.merges]
    /\ crossed = FALSE /\ spoiled = {}

-----------------------------------------------------------------------------
(* Submissions: counted in Redis, the totals read, the broadcast put off 250 ms;  *)
(* a later submission replaces the one that waits.                              *)

Publish(e) ==
    inbox' = [v \in Viewers |-> IF v \in Open /\ linked[v] THEN Append(inbox[v], e) ELSE inbox[v]]

Counts(p) ==
    /\ vote[p] = NoData /\ Use("votes")
    /\ \E w \in Words : raw' = [raw EXCEPT ![w] = @ + 1]
    /\ vote' = [vote EXCEPT ![p] = [at |-> "counted", raw |-> NoData]]
    /\ UNCHANGED <<choice, job, pending, pages, past>>

ReadsTotals(p) ==
    /\ vote[p] # NoData /\ vote[p].at = "counted"
    /\ vote' = [vote EXCEPT ![p] = [at |-> "read", raw |-> raw]]
    /\ UNCHANGED <<raw, choice, job, pending, pages, past, left>>

Schedules(p) ==
    /\ vote[p] # NoData /\ vote[p].at = "read"
    /\ pending' = vote[p].raw /\ vote' = [vote EXCEPT ![p] = NoData]
    /\ UNCHANGED <<raw, choice, job, pages, past, left>>

Broadcasts ==
    /\ pending # NoData /\ pending' = NoData
    /\ Publish([kind |-> "counts", raw |-> pending])
    /\ UNCHANGED <<raw, choice, job, vote, call, cache, linked, past, left>>

-----------------------------------------------------------------------------
(* The workbench: the three buttons wait for one another and for a drag, a drag   *)
(* only for a drag.                                                            *)

Shown == cache["bench"].data
BenchReady == "bench" \in Open /\ Loaded(cache["bench"])
Starts(tool, kind, s, t) ==
    /\ Use("presses")
    /\ call' = [call EXCEPT ![tool] = [NoCall EXCEPT !.at = "sent", !.kind = kind,
                                                     !.source = s, !.target = t]]
    /\ UNCHANGED <<server, cache, inbox, linked, past>>

Press(kind) ==
    /\ BenchReady /\ \A t \in Tools : call[t] = NoCall
    /\ kind = "on" <=> ~ Shown.ai
    /\ Starts("button", kind, NoData, NoData)

Drag ==
    /\ BenchReady /\ call["drag"] = NoCall
    /\ \E s, t \in DOMAIN Shown.cloud : s # t /\ Starts("drag", "merge", s, t)

Split ==
    /\ BenchReady /\ call["drag"] = NoCall
    /\ \E h \in DOMAIN Shown.cloud : \E v \in Variants(Shown.cloud, h) :
          Variants(Shown.cloud, h) # {v} /\ Starts("drag", "split", h, v)

(* The handlers read the poll's settings and the totals first.                   *)
Reads(tool) ==
    /\ call[tool].at = "sent" /\ job[tool] = NoJob
    /\ job' = [job EXCEPT ![tool] = [kind |-> call[tool].kind, choice |-> choice, raw |-> raw]]
    /\ UNCHANGED <<raw, choice, vote, pending, pages, past, left>>

(* What "merge" and "split" work on: the stored cloud, however old it is.        *)
Current(j)  == IF j.choice.cache # NoData THEN j.choice.cache ELSE RawCloud(j.raw)
Refused(j, s, t) ==
    \/ j.kind = "merge" /\ ~ {s, t} \subseteq DOMAIN Current(j)
    \/ j.kind = "split" /\ (\/ j.choice.cache = NoData
                            \/ s \notin DOMAIN Current(j)
                            \/ t \notin Variants(Current(j), s)
                            \/ Variants(Current(j), s) = {t})

Merges(j) == j.choice.merges
After(j, s, t, g) ==
    CASE j.kind = "off"   -> Settings(FALSE, NoData, 0, <<>>)
      [] j.kind = "redo"  -> Settings(TRUE, Clustered(j.raw, g), Total(j.raw), <<>>)
      [] j.kind = "on"    -> Settings(TRUE, Applied(Clustered(j.raw, g), Merges(j)),
                                      Total(j.raw), Merges(j))
      [] j.kind = "merge" -> Settings(TRUE, MergedInto(Current(j), s, t), Total(j.raw),
                                      Append(Merges(j), <<s, t>>))
      [] j.kind = "split" -> Settings(j.choice.on, TakenApart(Current(j), s, t), Total(j.raw),
                                      Without(Merges(j), <<t, s>>))

Told(c) == [on |-> c.on, merges |-> c.merges]
Crosses(j) == Told(j.choice) # Told(choice)

Commits(tool, g) ==
    LET j == job[tool]
        s == call[tool].source
        t == call[tool].target
        new == After(j, s, t, g)
    IN  /\ j # NoJob
        /\ job' = [job EXCEPT ![tool] = NoJob]
        /\ IF Refused(j, s, t)
           THEN /\ call' = [call EXCEPT ![tool].at = "failed"]
                /\ UNCHANGED <<choice, inbox, said, crossed>>
           ELSE /\ choice' = new /\ said' = Told(new)
                /\ crossed' = (crossed \/ Crosses(j))
                /\ Publish([kind |-> "changed", raw |-> NoData])
                /\ call' = [call EXCEPT ![tool].at = "ok", ![tool].reply =
                       Result(IF new.on \/ j.kind = "split" THEN new.cache ELSE RawCloud(j.raw),
                              j.kind # "off")]
        /\ UNCHANGED <<raw, vote, pending, cache, linked, spoiled, left>>

LoseAnswer(tool) ==
    /\ call[tool].at = "ok" /\ Use("faults")
    /\ call' = [call EXCEPT ![tool].at = "failed"]
    /\ UNCHANGED <<server, cache, inbox, linked, past>>

(* onSuccess stores the answer, then asks again; a failure is not looked at.     *)
Updated(q, r) == Refetched(Written(q, r))

Settles(tool) ==
    /\ call[tool].at \in {"ok", "failed"}
    /\ cache' = IF call[tool].at = "ok"
                THEN [cache EXCEPT !["bench"] = Updated(@, call[tool].reply)] ELSE cache
    /\ call' = [call EXCEPT ![tool] = NoCall]
    /\ UNCHANGED <<server, inbox, linked, past, left>>

-----------------------------------------------------------------------------
(* Events at a viewer.                                                         *)

(* applyPollResponseSubmitted: the raw words, whatever the cached cloud was.     *)
Pushed(q, e) == Patched(q, [q.data EXCEPT !.cloud = RawCloud(e.raw)])

OnChanged(q, e)   == Refetched(q)

Deliver(v) ==
    /\ inbox[v] # <<>> /\ inbox' = [inbox EXCEPT ![v] = Tail(@)]
    /\ LET e == Head(inbox[v]) q == cache[v] IN
       /\ cache' = [cache EXCEPT ![v] = IF e.kind = "counts" THEN Pushed(q, e)
                                                             ELSE OnChanged(q, e)]
       /\ spoiled' = IF e.kind = "counts" /\ (q.data.ai \/ ~ Idle(q) \/ e.raw # raw)
                     THEN spoiled \cup {v} ELSE spoiled
    /\ UNCHANGED <<server, call, linked, said, crossed, left>>

LoseSocket(v) ==
    /\ v \in Open /\ linked[v] /\ Use("faults")
    /\ linked' = [linked EXCEPT ![v] = FALSE] /\ inbox' = [inbox EXCEPT ![v] = <<>>]
    /\ spoiled' = spoiled \cup {v}
    /\ UNCHANGED <<server, call, cache, said, crossed>>

Reconnect(v) ==
    /\ ~ linked[v] /\ linked' = [linked EXCEPT ![v] = TRUE]
    /\ UNCHANGED <<server, call, cache, inbox, past, left>>

-----------------------------------------------------------------------------
(* GET /polls/{id}/results: the stored cloud while the total is that of its       *)
(* computation, a new one otherwise, kept with the settings read at the start.   *)

Fresh == ~ choice.on \/ (choice.cache # NoData /\ choice.at = Total(raw))
Present == IF choice.on THEN Result(choice.cache, TRUE) ELSE Result(RawCloud(raw), FALSE)

(* The wall every 8 s, the workbench only without its socket.                   *)
OnInterval(v) == v = "wall" \/ ~ linked[v]

IntervalFires(v) ==
    /\ OnInterval(v) /\ v \in Open /\ Idle(cache[v])
    /\ cache' = [cache EXCEPT ![v] = Fetched(@)]
    /\ UNCHANGED <<server, call, inbox, linked, past, left>>

Serves(v) ==
    /\ cache[v].fetch = "asked" /\ Fresh
    /\ cache' = [cache EXCEPT ![v] = Answered(@, Present)]
    /\ UNCHANGED <<server, call, inbox, linked, past, left>>

(* A handler that may have to cluster reads the settings, then the total, then the *)
(* words: what it read of the words last is what it clusters.  One that finds the  *)
(* stored cloud to be of the total it read writes nothing, and answers as Serves.  *)
Reading(kind, c, n) ==
    [kind |-> kind, choice |-> c, count |-> n, raw |-> IF kind = "words" THEN raw ELSE NoData]

StartsClustering(v) ==
    /\ cache[v].fetch = "asked" /\ choice.on /\ job[v] = NoJob
    /\ job' = [job EXCEPT ![v] = Reading("settings", choice, 0)]
    /\ UNCHANGED <<raw, choice, vote, pending, pages, past, left>>

Computed(j) == j.choice.cache # NoData /\ j.choice.at = j.count
CountsResponses(v) ==
    /\ job[v].kind = "settings"
    /\ LET j == Reading("total", job[v].choice, Total(raw))
       IN  job' = [job EXCEPT ![v] = IF Computed(j) THEN NoJob ELSE j]
    /\ UNCHANGED <<raw, choice, vote, pending, pages, past, left>>

ReadsWords(v) ==
    /\ job[v].kind = "total"
    /\ job' = [job EXCEPT ![v] = Reading("words", job[v].choice, job[v].count)]
    /\ UNCHANGED <<raw, choice, vote, pending, pages, past, left>>

Handles(v) == StartsClustering(v) \/ CountsResponses(v) \/ ReadsWords(v)

Recomputed(j, g) ==
    Settings(TRUE, Applied(Clustered(j.raw, g), Merges(j)), j.count, Merges(j))

(* The handler runs to its end even when the viewer has given the fetch up, and  *)
(* tells nobody: it may replace what was clustered, or counted, while it ran.    *)
Late(j) == j.choice # choice \/ j.count # Total(raw) \/ j.raw # raw
StoresCloud(v, g) ==
    /\ job[v].kind = "words" /\ job' = [job EXCEPT ![v] = NoJob]
    /\ choice' = Recomputed(job[v], g)
    /\ crossed' = (crossed \/ Crosses(job[v]))
    /\ cache' = IF cache[v].fetch = "asked"
                THEN [cache EXCEPT ![v] = Answered(@, Result(choice'.cache, TRUE))] ELSE cache
    /\ spoiled' = IF Late(job[v]) THEN Viewers ELSE spoiled
    /\ UNCHANGED <<raw, vote, pending, call, inbox, linked, said, left>>

Stores(v) ==
    /\ cache[v].fetch = "answered" /\ cache' = [cache EXCEPT ![v] = Stored(@)]
    /\ UNCHANGED <<server, call, inbox, linked, past, left>>

-----------------------------------------------------------------------------
Next ==
    \/ \E p \in Voters : Counts(p) \/ ReadsTotals(p) \/ Schedules(p)
    \/ Broadcasts
    \/ \E kind \in {"on", "off", "redo"} : Press(kind)
    \/ Drag \/ Split
    \/ \E tool \in Tools :
          Reads(tool) \/ (\E g \in Groupings : Commits(tool, g)) \/ LoseAnswer(tool) \/ Settles(tool)
    \/ \E v \in Viewers :
          \/ Deliver(v) \/ LoseSocket(v) \/ Reconnect(v) \/ IntervalFires(v)
          \/ Serves(v) \/ Handles(v) \/ Stores(v)
          \/ \E g \in Groupings : StoresCloud(v, g)

Spec == Init /\ [][Next]_vars

Votes    == \E p \in Voters : ReadsTotals(p) \/ Schedules(p)
Serving  == \E t \in Tools : Reads(t) \/ \E g \in Groupings : Commits(t, g)
Settling == \E t \in Tools : Settles(t)

(* The server serves, its tasks run and the sockets deliver; timers fire.        *)
Fairness ==
    /\ WF_vars(Votes) /\ WF_vars(Broadcasts) /\ WF_vars(Serving) /\ WF_vars(Settling)
    /\ \A v \in Viewers :
          /\ WF_vars(Deliver(v)) /\ WF_vars(IntervalFires(v)) /\ WF_vars(Serves(v))
          /\ WF_vars(Handles(v)) /\ WF_vars(\E g \in Groupings : StoresCloud(v, g))
          /\ WF_vars(Stores(v))

FairSpec == Spec /\ Fairness

-----------------------------------------------------------------------------
Merging == {m \in Words \X Words : m[1] # m[2]}
IsCloud(c) == DOMAIN c \subseteq Words /\ \A h \in DOMAIN c : c[h] \in [Words -> 0 .. Total(raw)]
IsResult(d) == d = NoData \/ (IsCloud(d.cloud) /\ d.ai \in BOOLEAN)
IsChoice(c) ==
    /\ c.on \in BOOLEAN /\ c.at \in 0 .. Total(raw)
    /\ c.merges \in Seq(Merging)
    /\ c.cache = NoData \/ IsCloud(c.cache)

TypeOK ==
    /\ raw \in [Words -> Nat] /\ IsChoice(choice)
    /\ \A k \in Callers : job[k] = NoJob \/ IsChoice(job[k].choice)
    /\ \A t \in Tools : call[t].at \in {"free", "sent", "ok", "failed"} /\ IsResult(call[t].reply)
    /\ \A v \in Viewers :
          /\ cache[v].fetch \in Fetches /\ IsResult(cache[v].data) /\ IsResult(cache[v].reply)
          /\ v \notin Open => cache[v] = Unused /\ inbox[v] = <<>>
    /\ spoiled \subseteq Viewers /\ crossed \in BOOLEAN
    /\ linked \in [Viewers -> BOOLEAN]

(* No vote counts twice: in the cloud the server keeps and in those the viewers   *)
(* show every word stands under at most one head, with at most the votes cast.   *)
CountedOnce(c) ==
    \A w \in Words : \A h \in DOMAIN c :
        /\ c[h][w] <= raw[w]
        /\ c[h][w] > 0 => \A k \in DOMAIN c \ {h} : c[k][w] = 0

VotesOnce ==
    /\ choice.cache # NoData => CountedOnce(choice.cache)
    /\ \A v \in Viewers : Loaded(cache[v]) => CountedOnce(cache[v].data.cloud)

(* Clustering is on or off, and the host's merges are there, as the host's last   *)
(* request left them: only a handler that ran across it can undo that.           *)
HostsChoiceKept == crossed \/ Told(choice) = said

(* When nothing is under way a viewer that heard everything, and whose cache was  *)
(* not patched over a fetch or a clustered cloud, shows what the server has:     *)
(* unless a fetch clustered anew while the settings or the counts changed.       *)
AtRest(v) ==
    /\ \A t \in Tools : call[t] = NoCall
    /\ \A k \in Callers : job[k] = NoJob
    /\ \A p \in Voters : vote[p] = NoData
    /\ pending = NoData /\ inbox[v] = <<>> /\ Idle(cache[v])
CloudAtRest ==
    \A v \in Open \ spoiled : AtRest(v) => cache[v].data = Present

(* The wall's cloud becomes the server's, also after an event was lost.          *)
WallIsNow == "wall" \in Open => cache["wall"].data = Present
=============================================================================
