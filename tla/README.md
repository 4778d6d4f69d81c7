# LiveEngage: models and proofs

TLA+ models of the parts of LiveEngage (`src/`) in which several actors touch the
same state: on the server, requests on one room, votes and the flush of their counts,
retried requests, the event bus, answers and their counters; in the browsers, the pages
of participants, hosts and the projection screen, each with its caches, timers, requests
under way and the handlers of the server it talks to. TLC checks the models on small
instances; TLAPS proves the safety properties that matter most for every value of the
constants.

LiveEngage is a classroom and audience interaction system. A FastAPI back end (several
API processes, PostgreSQL, Redis) serves three single-page applications: host, join
(participants) and screen. Hosts run *interactions* of a room (polls, Q&A, quizzes,
surveys, ideas boards); participants answer them; every change is broadcast as an event.
PostgreSQL is the source of the truth. Redis holds locks, counters, streams and caches,
and every user of it has a path for "Redis is not there". A request is one coroutine
and one database session, so any two requests interleave at each `await`, within a
process and between processes. A page is one thread of handlers: what interleaves there
are events, answers of requests and fetches, timers and clicks. It learns of changes by
events that may be lost or late, and asks again at intervals.

To run a check: `tlc -config RoomMixed.cfg MCRoomControl`; a proof: `tlapm RoomControlProofs.tla`.

## 1. Inventory

Paths are below `src/backend/app/` or `src/frontend/`.

| Part | State it keeps | Operations | Interacts with |
|---|---|---|---|
| Room control: `services/poll_service.py` (`execute_poll_action`), `services/interaction_service.py` (`update_interaction`), `services/poll_redis.py` (room lock) | `interactions.status`, `result_visible`; Redis `room:{id}:interaction_lock` | start, stop, lock, unlock, reset, reveal, hide; PATCH of a status | hooks after the commit publish events and clear or expire counters |
| Q&A votes: `services/qa_service.py`, `services/qa_redis.py` | `question_votes`, the questions' counts; Redis `qa:pending:*`, `qa:flush_queue` | vote (toggle), flush every 2 s, throttled broadcast | event bus; merges read the counts |
| Idempotency: `core/idempotency.py` | Redis `idempotency:{key}` | reserve, run the handler, store the answer | wraps every route with the header |
| Event bus: `realtime/redis_pubsub.py`, `events.py`, `manager.py`, `gateway.py` | sockets of the process, Redis channel and stream of the room | publish, subscriber loop, connect, replay | every service publishes; the hook connects |
| Client hook: `packages/realtime/src/useRoomWebSocket.ts` | refs for socket, timer, purposeful close; `connected` | connect, cleanup, close, reconnect timer, wake-up, watchdog | gateway; every page |
| Answers: `services/poll_service.py`, `poll_redis.py` | `poll_responses`; Redis `agg:poll:{id}` | submit, change, read results | room control stops, resets and restarts the poll |
| Participant's page: `apps/join/src/pages/RoomPage.tsx` | caches of state and polls, tab, notices, refs of what it knows | handlers of the events of the room, intervals, submission | room control, bus |
| Participant's Q&A: `components/RoomQaPanel.tsx`, `lib/qaCache.ts` | list cache, votes under way | optimistic vote, rollback, reconciliation, ask | votes, moderation |
| Answer forms: `packages/renderers/src/polls/*` | what is picked, typed, ranked | edit, drag, submit, forget | participant's page |
| Surveys: `services/survey_service.py`, `RoomSurveyPanel.tsx`, `SurveyWorkbenchMain.tsx` | submissions; the panel's answers; the host's views | answer, submit, add a question | participant's page |
| Quiz: `services/quiz_service.py`, `QuizWorkbenchMain.tsx` | the questions' states, answers | start, next, reveal, hide, close, answer | publishes before the commit; three pages |
| Moderation: `services/qa_service.py`, `QaModerationPanel.tsx`, `QaAiDedupBar.tsx` | question status, merge parent, counts, highlight, replies | approve, reject, answer, highlight, reply, merge, take out | votes, another host |
| Workbench: `pages/SessionWorkbenchPage.tsx`, `lib/pollActionCache.ts`, `interaction_service.py` | list and order, selected item, caches, guard | buttons, switching, create, delete, reorder | room control, screen |
| Editor: `pages/PollBuilderPage.tsx` | form, autosave timer, refs | seed, edit, autosave, save | replaces all options |
| Word clouds: `services/poll_service.py`, `packages/realtime/src/pollResultsCache.ts` | counts, settings with the clustered cloud and merges, viewers' caches | submit, broadcast, cluster, merge and split by drag | AI model, bus |
| Screen control: `lib/useScreenControl.ts`, `services/screen_service.py`, `useScreenDisplay.ts` | queue, repeats, override of each hook; the stored view; the screen's copy | show, follow, flush, announce | workbench, moderation, quiz panel |
| Pages that only show: presenter pages, `apps/screen/src/views/*`, overview | caches | events, intervals | all of the above |
| AI dialogs: `packages/ui/src/AiConfigModal.tsx`, `AiDecisionReportModal.tsx`, `AiPollGeneratorModal.tsx` | form, local storage, requests, the stored report, the batch | test, list, save, clear; look, generate, refresh; generate, pick, create | AI handlers, workbench |
| Joining: `apps/join/src` (`App.tsx`, `JoinPage.tsx`, `CodeEntryPage.tsx`, `SsoCallbackPage.tsx`, `lib/participantAuth.ts`), `services/session_service.py` | local storage of all tabs, each tab's caches; sessions, participants | enter a code, wait, join, sign in elsewhere, leave; open, end | participant's page |
| Host's sign-in: `apps/host/src/lib/api.ts`, `lib/auth.ts`, `LoginPage.tsx`, `core/tokens.py`, `api/v1/auth.py` | local storage of all tabs, the renewal under way in each | ask, renew, ask again, sign in, sign out, reload | every request of the host |
| Rate limits, export jobs, ideas, co-hosts, administration, statistics, routers | | single transactions, reads | section 8 |

What is hard in each part, and what makes it correct:

* **Room control.** The action's status is read before the room lock is taken, the lock
  expires after 5 s, is given back before the commit, and is absent without Redis; the
  patch endpoint uses other statements than the poll endpoint; row locks, index waits
  and the room lock can wait for each other. Correct: at most one active interaction;
  no poll action replaces a status it did not load; nobody deletes another request's
  lock; every request ends; the commits are the moves of the action table; viewers end
  with the committed status.
* **Votes.** A vote is counted in Redis and committed in PostgreSQL by separate steps,
  while two flush loops read, apply and take back. Correct: stored plus pending counts
  are the votes; what is pending is written back.
* **Idempotency.** A retry may come after an answer, an error, a crash before or after
  the commit, or an expiry. Correct: the request is executed once.
* **Event bus.** Publishers send to their own sockets before the PUBLISH; sends are
  sequential; subscribers die; clients reconnect elsewhere. Correct: what was published
  while a socket was open reaches it; at the end all have the same last event.
* **Client hook.** Close events of old sockets arrive after new ones exist and share
  refs with them. Correct: a mounted hook gets and stays connected to its room, with one
  socket.
* **Answers.** Row and counter change by separate steps; host actions clear both by
  separate steps. Correct: what is shown follows the rows.
* **Pages.** An event writes or invalidates what a fetch asked earlier is about to
  overwrite; an optimistic change is taken back among changes of others; a success comes
  when another item is shown; a component keeps its state when the item changes under it.
  Correct: at rest a page shows what the server has; what it says was done was done; in
  the end, whatever was lost, the intervals repair it.
* **Handlers that read, wait and write.** Merging, clustering and the report read rows or
  a whole settings object, wait for a model or another statement, and write back.
  Correct: no vote is lost or doubled, no choice of the host undone.
* **Screen control.** One payload waits while an update is under way; repeats are left
  out; direct buttons overtake. Correct: the last view asked for is the one shown.

* **What a browser keeps.** Local storage is one for all tabs; each reads it when it renders or
  asks, and writes it when its own answer comes. Correct: the last sign-in, sign-out, joining or leaving
  stands; a host who could be renewed is not refused; a browser joins a session once.

Every such point, with its line, is a hazard in `PROJECT.json`, with the properties that catch it
going wrong. Some the code, as it is, does not master: a property excludes such a case by a history variable, and the
hazard has no property but a note that names the variable (section 4). Points beyond those: section 9.

## 2. Modules

| Module | Models | Run or proved in |
|---|---|---|
| `PollRoom` | abstract: what the poll endpoint promises, a board of statuses moved atomically by the action table | refined by `RoomControl`: `MCRoomControl`, `RoomControlProofs` |
| `RoomControl` | the handlers of actions and status patches, statement by statement | `MCRoomControl`, `RoomControlProofs` |
| `VoteCounts` | vote request and flush loops, command by command | `MCVoteCounts`, `VoteCountsProofs` |
| `IdempotentRequests` | deliveries of one request under one key | `MCIdempotentRequests`, `TransportProofs` |
| `EventBus` | publish, subscribers, sockets, restarts | `MCEventBus`, `EventBusProofs` |
| `RoomSocket` | the hook, one JavaScript handler at a time | `MCRoomSocket`, `TransportProofs` |
| `QueryCache` | one query of the react-query client, as the pages use it (external) | used by the modules below |
| `ParticipantPages` | the participant's six modules below as parts of one specification | `MCParticipantPages`, `ParticipantPagesProofs` |
| `ParticipantPage` | the participant's room page with the hosts' moves and both ways of an event | part "page" |
| `QaVoting` | the participant's question list | part "voting" |
| `Surveys` | survey panel, host's survey page, submissions | part "survey" |
| `QuizPlay` | quiz actions and answers, host, participant, projection | part "quiz" |
| `AnswerForms` | the six forms | part "forms" |
| `PollResponses` | submit and the host actions' hooks, counters | part "counts" |
| `HostPages` | the host's four modules below as parts | `MCHostPages`, `HostPagesProofs`, `WorkbenchProofs` |
| `QaModeration` | moderation panel and handlers, merging | part "moderation"; `MCQaModeration` |
| `HostWorkbench` | list, buttons, switching, creating, deleting, reordering | part "workbench" |
| `PollBuilder` | the editor with autosave | part "builder" |
| `WordClouds` | counts, clustering, merges by drag, two viewers | part "clouds" |
| `ScreensAndDialogs` | the seven modules below as parts | `MCScreensAndDialogs`, `ScreensAndDialogsProofs` |
| `ScreenControl` | the hook's queue, the stored view, the screen | part "screen" |
| `LiveViews` | ten pages that only show | part "views" |
| `AiSettings`, `DecisionReport`, `PollGenerator` | the three AI dialogs with their handlers | parts "ai", "report", "generator" |
| `HostSignIn` | the host's tokens in several tabs, their renewal | part "signin" |
| `Joining` | joining and leaving sessions in several tabs, with the host who opens and ends them | part "joining" |

**How they meet.** `ParticipantPage`, `PollResponses` and `HostWorkbench` take host actions as
atomic moves of a board: that is what `RoomImplemented` proves of the poll endpoint. `EventBus` takes
events as opaque numbers; the pages take its results as their environment: an event
comes directly and once more by the channel, later than younger direct ones or not
(`direct`, `relay` in `ParticipantPage` and `ScreenControl`), and what is published while
a socket is down is lost. `RoomSocket` is the client side of `EventBus`'s `Connect` and
`Drop`. `IdempotentRequests` stands around any handler. `QaModeration` counts votes by
`CountVote`, the flush of `VoteCounts`; `QaVoting` takes approval and withdrawal, the outcomes of
`QaModeration`. `ScreenControl` takes the workbench's selection and actions, the outcomes of `HostWorkbench`.
`QueryCache` is instantiated once per page module, with its own data.

**Three composed runs.** The page modules share the query cache and the kinds of their
properties, and each has little state of its own. `ParticipantPages`, `HostPages` and
`ScreensAndDialogs` each hold several of them, with all their constants as parameters; the `MC` modules
give these values. The variable `part` says which one a
behaviour follows; the variables of the others keep the value `NoData`. Parts do not
interact: it is several model checks, and several proofs, in one, and a property such as `ShownAtRest`
is a conjunction of `part = ... => M!P`.

`map` in `PROJECT.json` gives the source lines of every definition. In outline:

### RoomControl

State: `rows` is the committed table; `lock` the Redis key (whose token it holds); per
request `pc`, `act`, `tgt`, `seen` (the row as loaded), `other` (the interaction to
displace), `wrote`/`draft` (rows its open transaction has updated, and so locked, with
their uncommitted versions), `token`, `failure`, `outbox` (events its hooks still
publish); `announced` is what the last event said of each interaction.

Actions: `Load`/`Decline` (load and the checks before the lock), `AcquireLock`/`LockBusy`,
`FindActive`, `RefuseOpen`, `StopOther`/`StopOtherLost`, `Update`/`UpdateLost` (the
`UPDATE ... WHERE status = <loaded>` of the poll endpoint, the unconditional ORM write of
the patch), `EnterIndex`/`IndexViolation` (the partial unique index on active rows),
`Commit`, `Release`, `Rollback`, `Publish`, `Finish`. `Release` comes before `Commit` for
poll actions and after it for patches, as in the code's `finally`. PostgreSQL is
modelled as READ COMMITTED with row locks held to the end of the transaction, an index
that makes a second activation wait for the outcome of the first, and a deadlock
detector (`DeadlockVictim`) that fails one of two transactions waiting for each other.
Environment: `LockExpires`, `Crash`.

### VoteCounts

State: `votes` (rows), `db` (counts on the question), `pending` and `queued` (Redis),
per request `pc`, `who`, `old`, `new`, `stale` (the row it loaded was deleted since),
per flush loop `fpc`, `taken`. Actions: `LoadVote` (with the toggle), `CountUp`,
`CountDown`, `Enqueue` (the commands of `record_vote_deltas`), `CommitVote`/
`CommitRefused` (unique constraint, or an UPDATE that finds no row), `Answer`; `Scan`,
`ReadPending`, `Apply`, `TakeUp`, `TakeDown`, `Drop` (the flush); `Crash`, `FlushCrash`.
Slots in `Degraded` add to the question row instead of Redis. `overlapped` is history:
a participant voted again before the last vote was answered.

### IdempotentRequests

State: `entry` and per delivery `pc`, `outcome`; `effects` counts committed runs.
`Get`, `Reserve` (SET NX, whose loser goes on, as in the code), `RunHandler` with four
outcomes (2xx, 4xx, 5xx before and after the commit), `Store` (which may fail silently),
`Crash`, `Expire`. `bare` counts deliveries served without Redis.

### EventBus

State: `conn`, `seen`, `last`, `since` per client; `stage`, `home`, `aud`, `todo` per
event; `channel`; `redis`, `alive`, `pos`, `left` per process. `Begin`, `SendLocal`,
`Publish`/`PublishFails`, `Take`, `SendOn`, `Connect` (with the replay), `Drop`,
`SubscriberDies`, `Restart`. `Replay` is empty: the client presents an envelope id
(`evt_...`), the stream is read by entry ids.

### RoomSocket

State: the hook's refs (`wsRef`, `timers`/`timerRef`, `intentional`), `connected`, each
socket's `state` and the `target` its closure holds. `Mount`, `Unmount`, `Switch` (cleanup and
effect in one go), `Wake`, `WatchdogCloses`, `OpenEvent`, `CloseEvent`, `Loss`,
`TimerFires`. Close events arrive at any later time. `overtaken` is history: a socket was
made before the one before it had reported its close.

### QueryCache

A record of what is cached, the fetch in flight (asked, answered, stored: three steps, so
that everything can come between) and whether it is stale. `Fetched`, `Refetched` (the fetch in
flight is given up, but for the first), `Marked`, `Mounted`, `Written`, `Patched`,
`Cancelled` are what `invalidateQueries`, `refetch`, mounting, `setQueryData` and
`cancelQueries` do to it, `GivenUp` what a fetch that fails does. The library is external; its use is in the pages.

### The participant's pages (`ParticipantPages`)

* **ParticipantPage.** Server: `board`, `ended`, `answered`; requests of hosts `Move` the board and
  `Publish` their events one by one; `OpenOther`/`OpenCommits` is the patch, which publishes a stop
  before its commit. Page: `stateQ`, `pollQ`, `known`, `synced`, `tab`, `sub`, `ok`. One action per
  handler: `OnInteractionStarted`, `OnPollStarted`, `OnPollStopped`, `OnPollLockChange`,
  `OnSessionEnded`; the effects that follow a cache change (`Sync`, `Render`) are part of the action that changes
  it. Intervals, `Submit`, `ServerTakes`, `SubmitSucceeds`/`SubmitFails`, `CloseOkDialog`. The
  participant's own clicks on tabs are left out.
* **QaVoting.** `Vote` cancels the refetch and patches the list; `ServeVote` toggles; `VoteSucceeds`
  reconciles, `VoteFails` puts the earlier list back; `OthersVote`, `Broadcast` (throttled: a
  question is `due`, its event carries the counts of the moment), `Approve`, `Withdraw`, `Ask`.
* **AnswerForms.** A mark is an option, a text or a rating of the poll it was made *for*, so a mark that
  ends in another poll's answer shows. `MultipleChoicePoll`, `RatingPoll`, `Enters`, `RemoveWord`, `MoveByArrow`,
  `Grip`/`FinishDrag`, `Submit`, `Serves`, `Settles`; `Follows` is what the page does to the form when
  another poll runs; a word cloud takes `MaxSubmissions` submissions of a participant (`Full`).
* **Surveys.** `PageFollows` mounts the panel or passes it another survey; `Answer`, `Submit`, `AddQuestion`
  and the views of the host's page.
* **QuizPlay.** `Press`, `Handles` (reads, publishes), `Commits` (writes what it read), `CallEnds` with the host's cache;
  `Advances` is the action "next" by another client of the host: the API takes it and types it (`sprint9Api.ts:71`), no page sends
  it; `JoinHears`, `Answer`, `ServeAnswer`, `AnswerEnds`; `ScreenHears`.
* **PollResponses.** `status`, `row` (answers), `agg`/`fields`/`ttl` (the hash, its fields, whether it
  expires), `hooks` outstanding; `Load`, `Find`, `Commit`/`CommitRefused`, `CountDown`, `CountUp`
  (one HINCRBY each), `Start`, `LockAnswers`, `Unlock`, `Stop`, `Reset`, `ClearHash`, `SetExpiry`,
  `HookLost`, `Crash`, `Expire`.

### The host's pages (`HostPages`)

* **QaModeration.** `Press` (the transitions a row offers), `Drop`, `Scan`, `MergeCluster`, `TakeOut`, `Reply`; a request
  is read by `Read(c)` and written by `Commit(c, heard)` with its events; `Settle` is the page's `onSuccess` or
  `onError`; `Rival` is another host; `CountVote` the flush. A merge and a taking out end with an
  error after their commit, as the audit call makes them.
* **HostWorkbench.** `SelectItem`, `GoBy`, `PressPoll`, `PressBoard`, `PressSession`, `Reorder`, `Create`, `Delete`;
  `Serve`, `Done`/`Failed`; `Deliver` with the 2.5 s `guard`; `Rival`, another host who presses buttons, creates, deletes and
  reorders; `LoseFetch`, a fetch that fails. A switch starts the item if
  `ShouldStart` says so from the cached status.
* **PollBuilder.** `PollStores` seeds the form once; `Edit` arms the 800 ms timer unless hydrating;
  `Autosaves`, `Save`, `Leave`; the server deletes (`Deletes`) and inserts (`Commits`) all options in one transaction.
* **WordClouds.** `Counts`, `Schedules`, `Broadcasts`; `Reads`/`Commits` are the handlers that take the
  settings, ask the model and write all settings; a read of results that clusters takes the settings (`StartsClustering`), the
  count of answers (`CountsResponses`) and the words (`ReadsWords`) in turn and writes the cloud to the settings (`StoresCloud`);
  `Drag`, `Split`, `Press`; `Deliver` patches raw counts into a viewer's cache.

### Screens and dialogs (`ScreensAndDialogs`)

* **ScreenControl.** `ctl` per mounted hook: `last` (lastSyncedKey), `queued`, `manual`; `put`
  the updates under way, with whether their callbacks still run (`heard`) and whether they are
  direct. `Say` is `sendScreenState`, `ShowAtOnce` the direct buttons, `Settle` the callbacks
  with the flush; `SyncWorkbench` the 200 ms timer; `Persist` and `Announce` the server.
  `crossed` names when the last word may lose: a repeat left out after another was asked for, waiting
  behind a direct update, an update of another mounted hook under way, a failure with nothing waiting.
* **LiveViews.** A page is a record of queries, what they read and what events make it ask again; a
  change has topics it writes and events it announces, before or after its commit.
* **AiSettings.** `ChangeProvider`, `PickModel` (an offered one, or any name typed in), `Test`, `FetchModels`, `Save`, `Clear`,
  `Cancel`; answers settle into whatever the form holds then.
* **DecisionReport.** `Looks`, `LookEnds`, `Reads`, `Writes`, `Ends` per request, `SavesSettings` by the host.
* **PollGenerator.** `Generate`, `Pick`, `EditTitle`, `Create`, `Commits`, `Created` (asks for the list and waits, or does not: the
  browser is offline, or nobody looks at the list), `Sends` (to the first poll created, on any workbench); `Serves`, `Stores`,
  `ListFails` and `Asks` (a newer fetch replaces the one that runs) end the wait. `Leaves` and `Enters` unmount and mount the page; `Crosses`
  goes to another room's workbench by its address, where page and dialog stay.
* **HostSignIn.** A pair of an access and a refresh token is a number; the server and the browser's clock
  each refuse those up to some number, which may differ. `Asks` renews a token that looks expired before it
  sends; `Hears401` renews and asks again once; `Joined` waits for a renewal of the page that is under way;
  `RenewalEnds` stores the pair or forgets all and lets the waiting requests go on; `SignedIn`,
  `LogOut`, `Reloads`. An access token does not expire between being issued and first used (`JustIssued`).
* **Joining.** `Enters` (form, link or address), `IntervalFires` (every 2 s until live), `Presses`,
  `SignsInElsewhere`/`SendsTicket`, `Serves` (a live session admits), `Joined` (`Keeps` what local storage
  keeps and shows the room), `RoomPolls`, `HearsOfTheEnd`, `Leaves`; `Opens`, `Ends`. What other
  events do to the room page is in `ParticipantPage`.

## 3. Runs

All runs explore the full state space of their instance; sizes are distinct states.

| Run | Instance | Shows |
|---|---|---|
| `room_mixed` (218k) | two polls, two concurrent requests, all poll actions and patches, one fault | `OneActive`, `LockKept`, `PollActionsFromSeen`, `Answered` |
| `room_moves` (1.1M) | two polls, four requests over two slots, one without Redis, five poll actions, one fault | `RoomSpec`: each commit is a move of `PollRoom` |
| `room_sequential` (33k) | two polls and a Q&A, four requests one after another | `AnnouncedWhenQuiet` |
| `votes` (349k) | two voters who may overlap, one slot with Redis and one without, two flush loops, one death anywhere | `CrashCostsOneVote`, `QueueDrains` |
| `vote_flush_lost` | two voters, one slot, two flush loops, no crash | finding: `PendingIsQueued` violated |
| `idempotency_once` (173k) | five deliveries over three slots, one without Redis, two crashes, one expiry | `OnceInTurn` |
| `bus_events` (335k) | two processes, two clients, two events, one may be without Redis, one fault | `NothingLost`, `SameLastEvent`, `Delivered` |
| `socket_hook` (143k) | two rooms, three changes, one wake-up, one loss | `ConnectedAtRest`, `OneSocket`, `Reconnects` |
| `participant_pages` (701k) | six parts, below | `ShownAtRest`, `NoticesAreTrue`, `AnswersAreMeant`, `OneRuns`, `CountsFollow`, `PagesFollow` |
| `host_pages` (414k) | four parts, below | `HostAtRest`, `VotesAddUp`, `HostsChoiceKept`, `FormKept`, `HostFollows` |
| `screens_and_dialogs` (436k) | seven parts, below | `LastWordWins`, `ShownAtRest`, `DialogsAreTrue`, `CreatedOnce`, `SelectedIsListed`, `ViewsFollow` |
| `merge_retried` | three questions, two merges | finding: `VotesCountOnce` violated |

What the page runs show: at rest (nothing under way, no event to come) a page shows what the
server has, for the participant's room page, question list and tab, the moderation panel, the workbench's
buttons and order, the editor, the clouds, the screen and the pages that only show; a notice of
success is about what is shown; an answer is of the poll it was made for, a ranking whole, a text
counted once; one quiz question runs unless two actions overlap; merging and clustering keep the votes; the host's highlight,
merges and switches stand; the editor's form changes by edits alone; the model in the AI settings belongs to the
provider; a generated poll is created once and, once a list its creation waited for was read, is listed where the browser is sent; a sign-in stands until
a renewal fails, a sign-out unless a renewal was under way, and no request of a host who can be renewed is
refused; a browser is in the session its user asked for last and joined it once; and whatever is lost,
intervals and timers bring every page and dialog back.

**Bounds.** The conflicts of the room are between two requests over two interactions: the one
displaced and the one that displaces. `Init` takes *every* legal board of statuses, so few requests
reach every pair of handlers in every state. Two voters and two flush loops give every pair of
overlapping command sequences. Three slots are the least in which a retry meets one delivery in
progress and one entry already stored. Two concurrent publishers on two processes are the least for
events in different orders; one fault of any of the four kinds can come at any step. The hook needs three
changes for mount, switch, and a later unmount or switch back; `SocketAssumption` says why the bound on
sockets is never met.

The page parts start from a *set* of budgets (`PageCases`, `VoteCases`, `ScreenCases`, ...). Each
budget allows the two or three kinds of steps whose meeting is a hazard (two clicks; two tabs; a click and another
host; a click and a lost request; a drag and a poll that follows; a press, two moves of the workbench),
and none of the rest: all pairs are covered without the product of all of them. Two items are the least
for "the other one", three questions for a merge into a merged one, three words for a cluster and
a word outside it. Everything that is not a click, a move or a fault is unbounded.

Deadlock checking is off in all runs because the bounded environment stops: hosts and participants
send no more. That requests do not stop before their end is `Answered`, `QueueDrains`, `Delivered`,
`Reconnects` and the three `...Follow` properties.

**History variables.** The at-rest properties hold except where the code, as it is, leaves a
page behind; every exception has a history variable that names it at the step where it happens
(`blind`, `strayed`, `doubt`, `behind`, `missed`, `owed`, `spoiled`, `crossed`, `late`, `clashed`, `met`, `raced`, `carried`,
`again`, `unread`; `failed`,
`afloat` and `excused` of `HostSignIn`; `renamed`, `held`, `moved`, `reopened` of `Joining`). They are
set by the narrowest step that causes the disagreement: an event lost, a first load that
an event met, an answer overtaken, another host's change of the list, a wait that ended without the list. `TypeOK` and the properties' comments in the modules say
which. The liveness properties have no such exception: they are what the intervals are for. `HostFollows`
alone assumes that the workbench's socket stays down, because the workbench polls only then.

`CountsFollow` holds as long as nothing irregular happened: overlapping requests of one
participant, a reset with a request in progress, a death between commit and counting, an
expired hash, an answer Redis never had. Nothing in the code repairs these.

## 4. Findings

1. **A vote can stay outside the flush queue** (`services/qa_redis.py:178`,
   `vote_flush_lost`). A vote adds its delta and queues the question between the flush's
   HGETALL and its SREM; the delta waits until somebody votes again.
2. **A merge is repeated** (`services/qa_service.py:854`, `merge_retried`). After the commit and the
   broadcasts the audit log is called with arguments it does not take: the merge is done, the answer is
   an error, the panel says so. The host presses again, the handler finds the duplicates merged already
   and adds their votes a second time. `VotesAddUp` holds where nobody presses again.

Other disagreements between code and documents or comments met on the way; they are
excluded by name from the properties above or are part of the model, and have no run:

* The room lock is released before the commit (`services/poll_service.py:486`): the `finally` gives it
  back, then the audit row and the commit follow. The next start takes the lock, does not see the poll
  just started, and fails on the index with an unhandled error instead of stopping it.
  `src/docs/Sprint5-6_Poll_設計.md:162-167` releases last. `OneActive` holds and is proved.
* A purposeful close reconnects (`useRoomWebSocket.ts:75`): changing rooms connects to the new one,
  which resets the flag before the old socket's close event reads it; that event sets a timer that opens
  the old room again. `OneSocket` excludes it by `overtaken`.
* Counting after a reset (`services/poll_service.py:807`): a request that has committed counts after the
  reset's hook has cleared the hash.
* A vote pushes raw counts over a clustered cloud (`pollResultsCache.ts:89`), until the next
  fetch; `src/README.md:25` promises clustered words on the screen. `CloudAtRest` excludes it by `spoiled`.
* The patch endpoint writes the status without a condition on the one it loaded, so it
  overwrites a change committed meanwhile; `src/docs/Sprint5-6_Poll_設計.md:104` wants every
  transition conditional. `PollActionsFromSeen` is about poll actions for that reason.
* Unlock activates an interaction without looking at the room or taking its lock; with
  another one active the index refuses it, an error nobody handles (design document, line 171).
* Two overlapping votes of one participant both count in Redis and one row is refused
  (`services/qa_service.py:416`): `CrashCostsOneVote` requires `~ overlapped`.
* The loser of SET NX runs the handler as well (`core/idempotency.py:61`): `OnceInTurn`
  requires `~ overlapped`.
* A replay never finds anything (`realtime/gateway.py:92`): `Replay` is the empty sequence.
* A process's own events come back on the channel, so a client may get an event twice and,
  with concurrent publishers, an older one after a newer one; `SameLastEvent` speaks of
  the end, not of the way.
* A flush round that dies after its commit applies the same counts twice.
* The survey panel and the forms of ratings and texts go on to the next survey or poll with what was
  entered for the last one, because they have no key: `carried` in `Surveys` and `AnswerForms`.
* A reveal that read its quiz question before a start closed it brings it back (`quiz_service.py:548`): `crossed` in `QuizPlay`.
* "Next" publishes nothing for the question it closes (`quiz_service.py:760-764`), and no page follows it: pages
  learn of it by their intervals.
* Creating, deleting and reordering publish no event (`interaction_service.py:157, 196, 482`), and the workbench's list has no interval
  (`SessionWorkbenchPage.tsx:124-127`): with a second host, or a second tab, a connected workbench keeps the old list or order until something
  else has it read. `missed` has the list (`NoItem`) then; `OrderAtRest` is about one host's edits and all that can come between.
* The address may name a poll that the workbench does not list: the awaited `invalidateQueries` also resolves when the fetch failed, was paused or
  was replaced (`AiPollGeneratorModal.tsx:149-152`). The page takes it for no selection until the list is read. `unread` in `PollGenerator`.
* A model of another provider may be typed (`AiConfigModal.tsx:569-575`), or come with an answer that was asked for another provider
  (line 138): `crossed` in `AiSettings`.
* A notice says "submitted" of a poll, survey or question that came onto the screen meanwhile (`RoomPage.tsx:564`): `late` in `QuizPlay`, `carried` in
  `Surveys`, `kept` in `ParticipantPage`'s `sub`.
* A drag moves what stands in the place it was picked up from (`RankingSortableList.tsx:100`), which may be another item by then;
  `RankingIsWhole` only says that the list stays a ranking.
* The workbench shows old buttons after an event it skips for its own (`pollActionCache.ts:73`), a start or a reset by another host, or an answer overtaken: `missed`.
* Two quick switches send two starts, and the one that comes last wins (`SessionWorkbenchPage.tsx:339`): `promised` is kept by the last
  switch made at rest only.
* The editor does not repeat a failed autosave, nor save an edit taken back while one is under way (`PollBuilderPage.tsx:202`): `doubt`.
* Two highlights at once leave two questions lit (`qa_service.py:616`): `raced`. A read of a word cloud writes the settings of before back over the host's
  choice (`poll_service.py:1086`): `crossed` in `WordClouds`. So does a report over the session's settings, and the settings over a report (`ai_service.py:2309`): `clashed`.
* A batch whose answer was lost is created once more when the host presses again (`interactionApi.ts:141`, a key per press): `again`.

With live results on, the results take the place of the answer form (`liveAggregate.ts`): that is meant.

## 5. Fairness

Every fairness condition is weak and is about one actor of the system, never about users or
faults. `Serve(p)`: a request that was accepted runs on, as its coroutine does, when
its next statement can run (`WF` per request slot, not per action). `Flush(f)`: the
flush loop of a process is started with the process (`main.py`) and sleeps 2 s between
rounds. `Publishing(e)`, `Subscribing(p)`: the coroutine that publishes and the
subscriber task go on; a socket takes what is sent on it or is lost. In `RoomSocket`:
`OpenEvent` (the server is reachable), `CloseEvent` (browsers fire `close`), `TimerFires`
(timers fire). In the page runs: a `refetchInterval` fires while its page is mounted, a fetch is
answered and stored, a request that is under way is served or lost and its callbacks run, a
delivered event is handled, a timer fires. Each is a condition of its own on the variables of its part,
in force while the behaviour follows that part. Nothing obliges hosts, participants, crashes, expiries, losses or clicks.
Faults are bounded, so the liveness properties say what happens once they stop.

## 6. Proofs

All obligations are proved by Z3, Zenon and LS4. The assumptions are those named
in the modules, each a condition on constants:

* sorts and bounds (`RoomAssumption`, `VoteAssumption`, `BusAssumption`, `ModerationAssumption`,
  `BuilderAssumption`, `CloudAssumption`, `SignInAssumption`, ...): which constants are sets of which, disjointness of kinds of items,
  natural bounds, finite sets where something is counted (`Voters` and `Slots` of the two vote counters, `Questions`, `Words`);
* "no value" is not a value: `None`, `NoItem`, `NoQuestion`, `NoCall`, and `NoData` that is not a snapshot, a list, a
  form, a request, a row, a cloud or a report (in `PageAssumption`, `VotingAssumption`, `SurveyAssumption`, `AiAssumption`, ...).
  In the code that is `null` and `undefined`;
* the room's order lists an item once (`WorkbenchAssumption`; the code reads one row per item), a co-host is not the page
  itself (`BuilderAssumption`), a grouping maps words to words (`CloudAssumption`);
* order numbers are numbers (`QuizAssumption`, `SurveyAssumption`), and drafts have a first one
  (`GeneratorAssumption`);
* `LookedAt` names parts (`PartsAssumption`), and the assumptions of the parts hold.

Two theorems have a hypothesis, which restricts what hosts send: `RoomImplemented` that no patches are sent
(`Acts \subseteq PollActs`), `ToldWhenQuiet` that one request at a time is sent, none crashes, and of the patches only the opening
one (`OneByOne`). Nothing is assumed of how large a constant is.

| Theorem | States |
|---|---|
| `TypeCorrect`, `SingleActive`, `NoLostPollTransition`, `LockOwned` (`RoomControlProofs`) | `TypeOK`, `OneActive`, `PollActionsFromSeen`, `LockKept` |
| `RoomImplemented`, `ToldWhenQuiet` (`RoomControlProofs`) | `RoomSpec`, for poll actions; `AnnouncedWhenQuiet`, for requests one at a time |
| `VoteTypes`, `VotesConserved` (`VoteCountsProofs`) | `TypeOK`, `CrashCostsOneVote` |
| `RequestTypes`, `ExecutedOnceInTurn` (`TransportProofs`) | `RequestTypeOK`, `OnceInTurn` |
| `BusTypes`, `NoEventLost`, `ClientsAgree` (`EventBusProofs`) | `TypeOK`, `NothingLost`, `SameLastEvent` |
| `SocketTypes`, `MountedIsConnected`, `SocketIsSingle` (`TransportProofs`) | `TypeOK`, `ConnectedAtRest`, `OneSocket` |
| `PartsKeepTypes`, `ShownTruly`, `NoticesHold`, `AnswersMean`, `OneQuestionAtATime`, `ResultsFollowAnswers` (`ParticipantPagesProofs`) | `TypeOK`, `ShownAtRest`, `NoticesAreTrue`, `AnswersAreMeant`, `OneRuns`, `CountsFollow` |
| `PagesAreTyped`, `HostSeesTruly`, `NoVoteLost`, `ChoiceStands`, `FormIsTheUsers` (`HostPagesProofs`) | `TypeOK`, `HostAtRest`, `VotesAddUp`, `HostsChoiceKept`, `FormKept` |
| `PartsTyped`, `ScreensShowWhatIs`, `TheLastWordWins`, `NoDialogLies`, `OneOfEach`, `NoDeadAddress` (`ScreensAndDialogsProofs`) | `TypeOK`, `ShownAtRest`, `LastWordWins`, `DialogsAreTrue`, `CreatedOnce`, `SelectedIsListed` |

`HostPagesProofs` extends `WorkbenchProofs`, which has the workbench's lemmas; `TransportProofs` extends both components it is about,
which is why the definitions of `IdempotentRequests` carry the request's name. In the three modules of composed runs each part has an inductive
invariant of its own, in a section of its own; `PartInv` is their conjunction under `part = ...`, and a step of the whole is a step of the part that is followed.

* **One active interaction.** `OneActive` is not inductive: a commit makes drafts
  visible. `Slot` adds that no two transactions hold the same row (`RowsExclusive`), that
  the only row a transaction makes active is its target (`OnlyTargetActive`) and
  that a transaction with an entry in the index is alone (`EntryAlone`): every other row
  is inactive as that transaction sees it, and nobody else has an entry. The room lock is not part of the argument; the
  index alone carries the property, so it holds with an expired lock and without Redis.
* **No lost transition.** `Held`: a request about to commit holds the row of its target
  (`TargetHeld`), and while it holds it the committed status is still the one it loaded
  (`SeenStands`), because only the holder's commit can change that row.
* **The room is implemented.** The refinement maps the board to the committed rows, so
  everything but `Commit` must be a stutter and `Commit` one move. `Slot` and `Held` say that the target's
  status is what was loaded and that nothing else runs; what they do not say is what the commit
  writes. `Planned` adds, per request, that its action was allowed from the loaded
  status, that it has written no row but its target's and the displaced poll's, that the target's draft has the
  status of the action table, and that the displaced poll was running when its row was
  locked, and is stopped in the draft.
* **Votes.** The total of stored and pending counts, less what flush loops owe, moves
  with the set of supporters. A step of one request changes that set by at most its own
  participant, and the cardinality by what the step added; `Serving` (each
  participant has at most one request while `~ overlapped`, and `votes` still is what
  it loaded) is what makes a request's `old` the truth. A death costs the
  difference between what was counted and what was committed: one.
* **Once in turn.** With deliveries in turn at most one is in progress (`OneAtATime`);
  `Budgeted` bounds the effects by the deliveries without Redis and one more. While the
  entry is absent the one more has not been spent, and a delivery about to run its
  handler has either the reservation or its own allowance left.
* **No event lost.** `Begun` and `Behind` (events on the channel have been begun, positions
  do not pass its end), and `NoneLost`: the events addressed to a client after `since`
  are seen, in flight, or in the broadcast of its process. The step that matters is
  `Take`, which moves an event from "in flight" to "in the broadcast".
* **Connected at rest.** `Engaged`: while the hook is mounted the flag of purposeful closes is
  down, so every close event sets a timer; some socket for its target is live, closing, or
  has a timer pending; and if the hook says "not connected", a timer is pending or a
  socket is connecting.
* **One socket.** `Single`: while no socket was made before the last one had reported its
  close, at most one socket is live, closing or has a timer; the refs are about it; and
  unless its close was purposeful it is for what the hook is mounted with. `OneSocket` does not mention
  closing sockets; without them a close event could set a second timer.
* **Told when quiet.** `Solo` follows the one request: how far it is (`SoloWork`), that the committed rows are what it
  loaded or its draft (`SoloRows`), that no other interaction is open (`SoloOpens`), and that what its events have not
  said yet is in its outbox (`SoloTold`).
* **Clients agree.** What a client has last comes on the channel after everything its process gave it, or is an own event that
  the channel has not got yet (`NotOlder`); such an event the client may have early. At rest nothing is off the channel.
* **One quiz question** (`QInv`). `InTurn`: while no two actions overlapped, one request at most is between its
  reading and its commit, what it will write is still what the action writes for the rows as they are,
  which closes the other questions that run. **Quiz pages** (`PlayInv`): `Told` says that the question of an answer that was
  stored is answered until it starts anew, and that a notice shown in time is for an answered question.
* **The participant's page at rest** (`PageInv /\ RestInv`). `PageInv` has the types and that a notice is for the poll shown
  (`NoticeKept`). `RestInv` says what is still to come while the page is wrong: the page's list fits the board, or a fetch
  is asked, or an event that makes it ask is under way (`StateTold`); a poll that is on has, or is getting, the right status, or
  is stale and not shown, or an event about it is under way (`PollsTold`); the last event under way that activates something is
  about what runs, or the tab is there (`TabFollows`, by `Led`). `CopiesFollow` (what comes directly is a suffix of what comes by the
  channel) makes the second copies harmless, `OneBusy` the order of the hosts' events.
* **The question list** (`VoteInv`). A list that is current shows the own vote the server has (`OwnVotes`), a vote that
  nobody let go of holds its buttons (`Held`), and one that is sure is alone on its question (`Sure`).
* **Forms** (`FormInv`). Marks are of the page's kind of poll (`OfItsKind`); the ranking lists the poll's options, each
  once (`Ranked`, kept by `Reordered`, a lemma on taking out and putting in); a text is in the form, under way or
  stored, in one of them only (`InOnePlace`).
* **Surveys** (`SurveyInv`). `Numbered`: a question's number leaves room for those still to be added; `Thanked`: what the
  panel says is about the survey it was mounted for.
* **Counted answers** (`CountInv`). While nothing irregular happened: who has a request has one (`Alone`), its old answer
  is the row's (`Found`), the hash is cleared when nobody has an answer (`Erased`), and for each option rows less hash is what requests still
  add less what they still take (`Balanced`). `Having` and `OneHasAnother` move the cardinalities.
* **What the host chose.** `LightInv`: one highlight at most is between its reading and its writing, and clears whatever is lit but
  its own. `BenchInv`: the shape of the list and the calls (`BenchShape`) and `PromiseInv`, which says for an item switched to by
  which call it will run or that it does. `CloudInv`: what a handler has read is a setting, one that clusters for a viewer found the clustering
  on, and unless two changes crossed the stored settings are as the host last said. `EditorBounds` is all that `FormKept` needs, for a step of the editor
  can be looked at alone.
* **Votes of merged questions** (`ModerationInv`). `Led(into, q)` is the set of questions that lead to `q`, least closed set and not a
  recursion, so that lemmas say how it changes when questions are merged (`Led` of the target gains that of the duplicates, which
  are disjoint from it) and taken out. `Counted` says it of *every* question, merged ones too, while neither `met` nor `again`: that is what a
  question has when it is taken out again. `met` compares at each commit what was read with what is there, so a commit of a
  behaviour that has not met writes sums of the present; `AskedCalls` adds that an undo has read a question that was merged. `Listed`: a list at rest and not behind is the server's.
* **The workbench at rest** (`TidyInv`, `OrderInv`, `ButtonsInv`). `TidyInv`: the types of the calls and that no list has an item twice, so
  that removing one and putting it elsewhere gives a list of the same items (`RemovedAt`, `InsertedAt`). `OrderInv`: the page's
  last list is in the room's order, or one is asked for or will be when a call ends. `ButtonsInv`: for each poll, an
  answer to an action is under way, or what is shown, overwritten by the events still to come, is the server's row; `NamesTruly`
  and `LightsTruly` say that the last event under way about a poll names the status, and the last about its results says if they show.
* **The editor** (`EditorInv`). `Writing`: a save that runs alone takes all rows it can see, and what it saved is then what there is; `Settled`: without a doubt the server has what was
  saved last, and a form that no timer and no request waits for says the same.
* **Clouds** (`CloudTypes`, `RestInv`). Every cloud on its way, computed, stored, cached or in an answer, shows counts that were there (`Fits`:
  a word under one head, with at most its votes), and the counts only grow; `Applied` keeps that, merge by merge, along the list of
  merges. `Heard`: a viewer that was told all is linked, and what it will have last is the server's cloud, unless a request, a
  count or an event that makes it ask again is still under way.
* **The last word.** `Word`: while nothing crossed, at most one update is under way; what waits in
  a queue is the host's last word, and the update under way will flush it; with nothing waiting the
  update under way is the last word; once persisted the stored view is the update's; with no update
  the server has the last word. `LastWordWins` speaks of the end only; the induction needs
  who will flush the queue, which `heard` and `direct` decide. `ScreenInv` adds what the screen shows: `Following`, the stored view
  is shown, or is on its way, or the update that will announce it is kept.
* **Pages that only show** (`ViewInv`). `Followed`: a query that no change left behind has what the server has, or an event
  or an answer that brings it is under way.
* **Dialogs.** `AiInv` (`OwnModels`: what is busy, listed or in the form is of its provider, an answer under way too), `ReportInv`
  (`Agrees`, `Shows`: the report found or made is the stored one), `GenInv` (`NoTwins`: unless a press was tried again, no
  two polls, created or asked for, are of the same press and place; `Chosen`: the poll in the address, or asked for and waited for, is listed or the list that will be stored has it, unless a wait ended without one), `SignInv` (`Stands`: a pair that is granted is newer than those
  that expired; who is signed in has tokens unless a renewal failed; who is not has none, and no renewal runs, unless one was afloat; `Refusals`: why each unauthenticated request is excused), `JoinInv` (`Once`,
  `Forms`: a form that could join twice was held open; `Endings`: who is told of an end reads it of an ended session).

What proving showed of the models, each first as an invariant that was not inductive and then as a behaviour TLC found:

* `AgreesAtRest` did not hold with two polls (the run has one): an event about a poll that is not shown marks its query
  stale while an old answer is under way, and that answer is stored as fresh (`RoomPage.tsx:398`, `invalidateQueries`).
  `Unseen` now names it.
* `TabAtRest` did not hold after an unlock behind another tab: the handler of `poll_unlocked` does not move the tab
  (`RoomPage.tsx:399`). `strayed` now names it.
* `VotesAddUp` did not hold once a vote is counted for a question that was merged meanwhile, nor after an approval that had read its
  question before a merge and committed after it: the model let votes be counted for approved questions alone, and
  `flush_pending_counts` (`qa_redis.py:135`) looks at no status. `CountVote` has no such guard any more, and `met` names the vote.
* `CloudAtRest` did not hold with both pages open: two fetches cluster at once, the counts change, and the later one
  replaces what the earlier stored without telling anybody (`poll_service.py:1113`). `Late` now puts that into `spoiled`; in exchange
  the exception for `crossed` is gone.
* The list of questions added up the votes of duplicates one level deep at the start; a start with a chain of merges needs them all
  (`Gathered`). `VotesOnce` compared sums and now says it of each word under each head, which is stronger.
* An approval ended `doubt` of its question (`QaVoting`), though a list given before it can still be stored: `doubt` now
  ends only with an answer, or a list, that is up to date.

**Only model-checked.** Liveness (`Answered`, `QueueDrains`, `Delivered`, `Reconnects`, `PagesFollow`, `HostFollows`, `ViewsFollow`):
with `ENABLED` it is out of the prover's reach. Every other property of a passing run is a theorem. Where a theorem
has a hypothesis or a proof a part it does not speak of, the runs check the rest. The two violated properties are of
course not proved.

## 7. Plan

1. **What the participant does beside answering**: clicks on tabs (`RoomPage.tsx`).
2. **Quiz**: the hand-over of the room's active slot between a quiz and its questions, without the room
   lock, as a second detailed module over `PollRoom`; the time limit with its two seconds of grace and
   the score as a function against a reference over bounded inputs.
3. **Answers of the other kinds of poll on the server** (`poll_service.py` 815-1032): submission
   numbers and the limit (`Full` in `AnswerForms`) under overlapping requests of one participant.
4. **Surveys**: deletion of questions under submissions. **Rate limits**, **export jobs**.

Abstract specifications worth stating: a ledger of votes (one vote per participant, counts
equal to it) that `VoteCounts` implements while nobody overlaps and nothing dies; a
once-executed request that `IdempotentRequests` implements in turn; a screen that shows the last
word, for `ScreenControl`, with `Word` as its invariant.

Theorems: `VoteCounts` against the ledger, `IdempotentRequests` against the request executed once, and those of the
modules above. Safety of the modules there are is proved.

## 8. Not modelled, and why

* **Rate limits.** Two commands of Redis. **Export jobs.** States of one row that nothing else reads.
* **Ideas board.** One row per idea and toggles; the pages that show it are in `LiveViews`.
* **Co-hosts, administration, branding, integrations, audit log.** Edits of one
  organisation's rows, one transaction each. What another host does is in every host module.
* **Cryptography, roles, the identity provider.** External, or checks of one request.
* **Prompts and parsers of the AI assistance.** An external model and the parsing of its text; where it is
  called, its answer is any answer.
* **Statistics, routers, schemas, serializers.** Reads, validation, routing.
* **Shells, layout, dashboards, presentation.** No protocol.
* **Migrations, deployment, scripts, tests.** The constraints and indexes that migrations
  create are part of the models.

Within the modelled parts: the quiz branch of the patch (`RoomControl`); votes refused by a rate limit
(`VoteCounts`: they change nothing); two requests that share one key (`IdempotentRequests`);
authentication, pings, the cap of the stream, the instant between a process's start and
its subscription (`EventBus`); the length of a delay (everywhere: a timer fires at any time after it is
set); the tab the participant clicks (`ParticipantPage`); editing a quiz's questions, its time limit and
scores (`QuizPlay`); importing, deleting and exporting (`Surveys`); the fields of a form beside its options
(`PollBuilder`); archiving and creating sessions, their settings, further rooms (`Joining`); the admin's
app, whose token code is the host's (`HostSignIn`); the base URL, which follows the provider (`AiSettings`); the counters of the other
kinds of poll (`PollResponses` has multiple choice, `WordClouds` words).

## 9. Further points met while reading

Not in the hazard list, which has the nearest ones to the modelled code.

* `qa_redis.py:171`: a flush round that dies between its commit and its HINCRBY. `qa_service.py:416`:
  two overlapping votes. `core/idempotency.py:61`: reading and reserving in two commands; `:104`: a failing
  store. `gateway.py:92`: a failing replay is an empty one. `redis_pubsub.py:50`: a failing PUBLISH
  after the local broadcast. `poll_service.py:805`: a death between commit and increments; `:1368`: counts
  from a hash that is not whole; `:793`: two first answers at once. `poll_redis.py:216`: a reset's hook against
  an increment's expiry.
* `qa_redis.py:238`: the throttle window is the expiry of a key and the broadcast a sleep of
  the same length in one process; a vote between the two is stored and not broadcast.
* `poll_redis.py:225`: the dictionary of pending tasks is read before an await and written
  after it; a broadcast can be forgotten.
* `poll_service.py:1335`: the number of responses of a word cloud
  is read from the field `count`, where the word "count" is counted. `:1942`: splitting a
  word that came in through another cluster leaves its rule.
* `quiz_service.py:519`: the quiz is set active from a status loaded at the start of the
  request. `:838`: an answer two seconds late lowers the factor of the score below one half. `:851`: a
  question is closed between the check of an answer and its commit.
* `interaction_service.py:147, 182, 465`: order numbers used twice; a start between the
  check of a deletion and the deletion.
* `rate_limit_service.py:48, 51`: a counter without expiry when the process dies between
  INCR and EXPIRE; twice the limit around the end of a window.
* `export_service.py:137`: a job committed before the broker refuses it; `:252`: exports
  have stored votes without the pending ones.
* `screen_service.py:137`: two hosts' updates are published in another order than stored.
* `session_service.py:288`: a session ends between the check of a join and its commit (`Joining` has
  them in one step; who is admitted then is told of the end by the room page's first fetch).
* `apps/host/src/lib/api.ts:73`: a renewal that was under way at a sign-out stores tokens again (`afloat`);
  `:66`: a failing one removes the tokens of a newer sign-in (`failed`); `App.tsx:112`: the page goes on
  showing the host's pages after its tokens were removed.
* `apps/join/src/pages/JoinPage.tsx:87`: an address changed while the form is sent stores the new code
  with the old session (`renamed`); `:51`: a form that was open before another tab joined joins the
  session a second time (`held`). `RoomPage.tsx:607`: the notice that a session has ended stays when another
  tab joins another one, and closing it leaves that one (`moved`).
