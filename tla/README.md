# Specifications of muster

TLA+ models of muster (the session fleet service of this repository), the TLC configurations that
check them on small instances, and TLAPS proofs about seventeen of them. Paths are relative to `src/`;
`tmux.go` and its neighbours are in `internal/drivers/tmux/`, `client.go` in
`internal/delivery/modclient/`, `events.go`, `history.go`, `labels.go`, `http.go`, `service.go` and
`rename_corroboration.go` in `internal/service/`, `down.go` and `remote.go` in
`internal/drivers/remote/`, `ops.go` in `internal/drivers/opencode/`.

`tlc -config X.cfg M` checks module `M`, `tlapm MProofs.tla` checks the proofs. `PROJECT.json` says for
every definition which lines of the code it models.

## The system

muster presents the interactive coding sessions of a machine, and of its peers, as one HTTP API. A
driver (tmux, opencode, a remote peer) does what a verb asks for; the service keeps what no driver
remembers: an event window, records of sessions that ended, labels, watches of renames. A driver may
hand messages to a delivery module, a child process spoken to over its standard streams, or type them
into a session's composer like a person would; and it learns what a session is doing from its screen.

| Component | State | Operations | Modelled by |
| --- | --- | --- | --- |
| Delivery module client (`client.go`) | current child, generation, pending table, write queue, suspicion, availability | `do`, `writer`, `reader`, `supervise`, `probe`, `reap`, `failPending`, `Stop` | `ModPipe`, `ModSupervisor` |
| Create and its idempotency (`tmux.go`, `idempotency.go`, `naming.go`) | table of keys, in memory and on disk; sessions of the multiplexer | `Create`: replay, resolve, name, reserve, launch, complete, release | `CreateIdempotency`, `Multiplexer` |
| First prompts (`tmux.go`, `createrecord.go`) | create records with a prompt outcome, one settler per create | settle, consent, deliver, note, read back | `FirstPrompt` |
| Listing, close, rename, reaping (`tmux.go`) | `observed`, pending exits, sessions and their options | `List`, `Close`, `Rename`, `reapDeadRows`, marking in `Create` | `SessionOwnership`, `Multiplexer` |
| Session records (`reconcile.go`) | one document: run, asserted name, marker by name | load, change, save; names asserted again | `SessionRecords` |
| Delivery over the terminal (`tmux.go`, `terminalpath2*.go`, `draftrule.go`) | stranded record, tombstones, the composer, the transcript | `Send` (send, place, resume, replace), `Discard` | `ComposerDelivery` |
| Composer lock (`terminalpath2_lock.go`) | a lock and a counter per name, aliases | lock, yield, rename | `ComposerLock` |
| Route of a delivery (`route.go`, `modulelane_send.go`, `inbox*.go`) | ledgers of unconfirmed deliveries, the stranded document | choice between module, inbox and terminal; replay | `DeliveryRoutes` |
| Module lanes (`modulelane.go`) | lane records, attach polls, the module's own lanes | offer, attach, ready, rename, flush, close, reconcile | `DeliveryLanes` |
| Answering questions (`respond_*.go`, `tmux.go`) | the question on screen and its nonce | `Respond` by digit, arrows, paste, Enter | `QuestionAnswers` |
| Reading screens (`classify.go`, `tmux.go`, `reconcile.go`) | none; observations, on disk too | composer, menu, status; since when | `PaneScreens`, `ScreenReadings` |
| Turns since a delivery (`runtimerecord.go`, `turns.go`) | delivery marks | mark, count, refresh | `TurnCounts` |
| The driver's event stream (`subscribe.go`) | control clients, a baseline listing | subscribe, supervise, re-attach, compare | `PaneStream`, and `SessionHistory` for ends |
| Event plane (`events.go`, `service.go`, `http.go`) | cursor, epoch, ring, subscribers, the driver stream, the linger timer | `publish`, `add`, `ensureStream`, `release`, the pumps, SSE and watch | `EventHub` |
| Rename corroboration (`rename_corroboration.go`) | pending renames with their timers | announce, observe, gap, finalize | `RenameWatch` |
| Closed-session records (`history.go`) | seen records, tombstones | `created`, `renamed`, `closedByRequest`, `observe`, `requestSweep` | `SessionHistory`, `LiveSessions` |
| Session labels (`labels.go`) | one record per id | `setIfAbsent`, `merge`, `get`, `rekey`, `remove`, `retain` | `SessionLabels`, `LiveSessions` |
| Requests over several drivers (`service.go`, `http.go`) | none | fan-out and merge, resolution of a session, grants, relay | `FleetRequests` |
| Peers (`remote.go`, `subscribe.go` of the remote driver) | capability cache, cursor | relayed verbs and what each needs, the event feed | `PeerRelay` |
| A peer that is down (`down.go`) | failures, down mark, the probe | `admit`, `noteReached`, `noteFailure`, `probeLoop`, `endProbe`, `Shutdown` | `PeerDown` |
| opencode driver (`ops.go`, `client.go`) | sessions seen, its own key table | create, send, state, interrupt, close, list | `OpencodeSessions` |

How they interact: an HTTP handler calls the driver and tells the record keepers and the hub
*afterwards*, so another request may come between; `ListSessions` asks the drivers and folds the
answer into history and labels, and listings overlap; the tmux driver's stream is told by the
multiplexer that something changed, lists again and publishes the differences, and a
`session.closed` among them makes the history sweep; every driver verb addresses a session by name in
a command of its own, after a listing that said what the name holds. A send takes the composer's lock,
asks the lane and the ledger which way it goes, and may end in the terminal; an answer to a question
takes the same lock and makes a send give way.

What is hard: none of the multi-step operations holds a lock across its steps, deliberately, because
each step is a process or a network call; people use the same multiplexer and the same composer; a
command that reports an error may have taken effect; a screen is a snapshot that other programs
paint; the service, its modules and its peers restart between any two steps. What makes each
component correct is the list of properties under "Runs".

### Not modelled

`PROJECT.json` lists every component with its reason. Left out for good:

- text: redaction, Unicode folding, the wording of a runtime's screens and where its cards lie on it,
  transcripts and conversations as files, the encoding of frames and requests. They are sequential
  functions of text; what the rest of the code makes of their results is modelled.
- the search for a module's executable, process tables, environments, resume intents and titles: they
  read, or write once, what other programs own, and nothing in this repository is said of their order.
- `trustseed.go`: one read, change and atomic write of a file that another program also writes. What
  that program loses by it is outside what this repository states.
- the compatibility self-test and catalogue, the command line, the stub driver and the module test
  double: one-shot or test programs.

## Modules

The pipe to a delivery module:

- **`ModPipe`** - the requests on one child's pipe, one action per step another goroutine can
  observe. A caller is in `do` (`Connect`, `Register`, hand-over, wait, give up), the writer and the
  reader take frames and answers, and the supervisor detaches, reaps and fails what is pending.
  `frame[c]` is the call's state word (queued, writing, sent, dropped), `pending` and `failing` are
  the table and `failPending`'s copy. **`AtMostOnceRequest`** is the promise in the package comment:
  a request acts at most once, an answer is one the module gave, and "not sent" means it never acts.
  `ModPipe!Promise` instantiates it (`verdict` and `effect` are computed from `res` and `seen`).
- **`ModSupervisor`** - the child's life cycle: launch, hello, the prober with its missed deadlines,
  suspicion and nudges from callers, detach, kill and reap, the pause before the next launch, Stop.

The tmux driver:

- **`Multiplexer`** - what the models of the tmux driver need of the multiplexer: names with a
  number (`w`, `w-2`), the first free one, and what an unpinned target reaches: the session of that
  name or, when there is none, the one whose name it is a prefix of.
- **`CreateIdempotency`** - `Create` for clients that repeat their key. `keys` is the table in memory,
  `file` the table as saved; a step is one critical section of the store or one multiplexer command.
- **`FirstPrompt`** - the prompt a session is created with. `settlers` are the goroutines that poll the
  screen, answer the boot question the caller consented to, and send; `createRecords` what a listing
  tells of it. It uses of a delivery that it is taken, refused or unconfirmed.
- **`SessionOwnership`** - which session a command reaches. `call[a]` holds what a request has read
  (`row`, `rows`, `todo`) and will act on later.
- **`SessionRecords`** - the document behind the names. `tasks` are requests that have loaded it and will
  save it; a listing puts an asserted name back, `maxNameReasserts` times.
- **`ComposerDelivery`** - one call at a time (the composer's lock), a person and a runtime beside it.
  The composer is a sequence of pieces (messages, "draft", "rest"); its digest and rendering are that
  sequence. The transcript is a sequence of entries (a turn, one taken from the queue, an enqueue).
- **`ComposerLock`** - what justifies "one call at a time": the table of locks by name, waiters that
  give up, a rename that aliases, and the counter by which a respond makes a stuck send yield.
- **`DeliveryRoutes`** - one session, its successor under the name, and a caller that tries each text
  again until told that it arrived. `copies` are the texts written and what became of each; the
  terminal path is taken for what `ComposerDelivery` establishes of it, the lane for usable or not, as
  `DeliveryLanes` has it.
- **`DeliveryLanes`** - lane records through create, attach, rename, restart and close. `work` are the
  requests, polls, callbacks and the background pass that have read the records and will act on them, also
  when the records have changed since; `stray` and the module's own lanes are what may be left behind.
- **`QuestionAnswers`** - `Respond`, key by key. The keys pass through `tty` and the runtime takes them
  when it gets there, by then perhaps on another question.
- **`PaneScreens`** - the upper half paints rows (prompts, rules, options, prose, working marks) for
  what a session does and a person types; the lower half is `classify.go` over those rows. The
  properties compare the two. **`ScreenReadings`** - several readings in time, the memory between them
  that tells a still screen from a fresh one, and the time since when a status holds, over restarts.
- **`TurnCounts`** - a runtime appends lines, readers resume from the mark's size and count.
- **`PaneStream`** - one subscription: the lifecycle client and its supervisor, content clients and
  their limit, the engine that lists and compares.

The service:

- **`EventHub`** - clients that list, watch from the listing's position and hang up; `pumps` are the
  goroutines on driver streams, `happened` the changes in order. The window (`ring`), a client's
  replay (`backlog`) and its channel (`ch`) are sets of events with their cursors, of which the lowest
  comes first. `reflects[c]` is what a client's mirror reflects and `stale[c]` whether it knows it must
  list again: a *silent gap* is neither. `missed` are the clients whose channel was full once.
- **`RenameWatch`** - renames that are announced, the stream that lists and derives events, the timers
  and the follow-ups. A session is a number that stands for its start time.
- **`LiveSessions`** - the sessions under both record keepers: runs (one life of a session each) at
  ids, handlers' notes still owed (`owed`), listings under way (`list`) and exits captured by the
  driver. **`SessionHistory`** and **`SessionLabels`** extend it, each with its store.
- **`FleetRequests`** - two machines that list each other as peers, each with drivers of one or two
  runtimes; a request is resolved, relayed, fanned out and merged, and may need a grant.

Other drivers:

- **`PeerDown`** - overlapping calls to a peer, the failure count, the down mark and the probe's
  goroutine, which is in one of three places (`atTimer`, `atAsk`, `atCheck`).
- **`PeerRelay`** - the verbs to a peer of a newer or older build: what each needs of it, the cache that
  says so, requests that arrive late or whose answer is lost; and the peer's events with their cursor.
  The peer is muster too: its hub's bounded channel and its window (`events.go`), its handler (`http.go`) and
  its restarts are modelled from that code.
- **`OpencodeSessions`** - calls of one or more requests to a server that others use too. What the
  server does and what the driver makes of its answer are two steps.

- **`ModPipeProofs`**, **`ModSupervisorProofs`**, **`CreateIdempotencyProofs`** -
  the theorems about the module of that name;
  **`TmuxSessionProofs`** - those about `PaneStream`, `TurnCounts` and `QuestionAnswers`, what the tmux driver
  learns of a session and what it tells it;
  **`ServiceProofs`** - those about `EventHub`, `SessionLabels` and `FleetRequests`, three parts of the service;
  **`TmuxDriverProofs`** - those about `DeliveryLanes` and `SessionOwnership`; **`SendProofs`** - those about `ComposerLock`, `DeliveryRoutes` and `FirstPrompt`, what a send goes
  through and what a create does with one;
  **`OtherDriversProofs`** - those about `PeerDown`, `PeerRelay` and `OpencodeSessions`, the drivers beside tmux.

`MC*` modules give the constants of a run. **`MCTmuxDriver`**, **`MCFleet`**, **`MCReadings`** and
**`MCLive`** each check several modules in one run: a variable `part`, chosen by the initial state, says
which module moves, and the others are in an environment in which they do nothing. A property of a
part is claimed where that part moves. Where several properties of one component are one statement to
a reader they are named together: in the component's module where a theorem states the whole
(`HealthIsTrue`, `CreatesAreOnce`, `LanesAreTrue`), else in the `MC*` module. The parts are defined, and
explained, in the component's module.

A definition under a comment "Mutant: ..." is a plausible bug in the definition below it; exchanged
for it, TLC finds the named property violated. It is no part of the specification. `PROJECT.json`
lists one per property of each run; the modules hold more, for the parts of the joined properties.

### Environments

The code's promises often hold only if nobody does one particular thing. So each module has a
variable (`env`, `laneEnv`, ...) that is chosen by `Init` and never changes: who takes part, what may
fail or be done past the service (`may`), and the bounds. One run then checks every environment, and a
property states in its own text which of them it needs. What the code does in the others
is listed under "Known limits", with the environment that shows it.


## Runs

| Run | What it asks | States |
| --- | --- | --- |
| `pipe` | Is what a caller is told about its frame true (`NotSentIsTrue`), is nobody left without an outcome (`NeverStranded`), does a call on a child the supervisor let go of return (`DetachedCallsReturn`), does the client keep its promise (`KeepsPromise`)? | 312 k |
| `supervisor` | Is "available" earned by the child that is connected, and suspicion watched (`HealthIsTrue`), is there one process (`OneProcess`), does `Stop` return and is a hung child replaced (`EndingsCome`)? | 441 k |
| `idem` | One key, one running session; intent is on file before the session exists; "ended" is true (`CreatesAreOnce`). An interrupted create adopts only what it started, and a pending key is settled in the end (`PendingIsResolved`). | 733 k |
| `composer` | No draft is destroyed, one message is submitted whole and alone (`ComposerIsKept`), "queued" is true (`QueuedIsTrue`), a text left behind is recognised, no message runs twice (`LeftoversAreKnown`). | 12.6 M |
| `driver` | Close, rename and reaping hit the session they corroborated (`TouchesItsOwn`), an exit is told once and only of a session that is gone (`ExitIsTrue`). A lane in use is attached to the module that runs now, no lane of the module's is forgotten, it is closed once (`LanesAreTrue`), and not under a living session (`LivingKeepTheirLane`). A text arrives once though it is retried over three routes (`ArrivesOnce`), answers are true, a send is held back only for an earlier one to this session, a pinned one keeps off the terminal (`SendsAreAsAnswered`). Two calls never have one composer (`OnePerComposer`). | 2.3 M |
| `hub` | No mirror has a gap it does not know of (`NoSilentGap`); one driver stream watches everything asked for (`StreamServesAll`). | 2.7 M |
| `hub_overflow` | **Violated** (`SlowAreTold`): a client whose channel is full has an event skipped and is not told, which the comment at `events.go:168` says cannot happen. | - |
| `history` | One record per end, none for the living, the right session's (`RecordsOfTheEnded`); none lost, premature ones and only those withdrawn (`RecordsAreKept`). | 4.8 M |
| `fleet` | A peer is down only when that was earned (`DownIsEarned`), then a probe is on its way (`DownIsProbed`). A peer is sent only what its build carries out, once, and the caller is told what it did (`RelayedAsAsked`); its events come in order, each once, and a hole is announced or is one its hub left silently (`PeerEventsAreExact`). A complete listing lacks nothing, a request reaches the session it named (`FleetAnswersAreTrue`). No control client outlives its stream (`NoClientIsLeft`). A follow-up says what became of the rename it follows (`FollowUpsAreTrue`). Names and markers are those asserted last, and name fights end (`RecordsAreTrue`). Labels reach no stranger and are not lost (`LabelsAreTrue`). | 1.8 M |
| `readings` | The composer, the menu and the status read are the ones on screen (`ScreensAreRead`); a still screen was seen still, a "since" is no earlier than another status (`TimesAreTrue`); an answer reaches the question it was given to, as it was given (`AnsweredAsAsked`); turns since a delivery (`TurnsAreTrue`); what opencode calls say (`OpencodeAnswersAreTrue`); what became of a first prompt (`PromptIsTold`). | 1.8 M |
| `echo` | **Violated**: a submitted message of two numbered lines, echoed in the transcript, is read as a menu, where `classify.go:398` calls such lines history. | - |
| `live` | What was begun is finished (`BegunIsFinished`): a lane comes back, a closed one is closed at the module, a first prompt is settled, a respond gets past a stuck send. News arrives (`NewsArrives`): changes at every connected client, ends in the records, a peer that is back, what a subscriber knows of its sessions, the follow-up of a rename, a name that was taken away. | 90 k |

### Bounds, and why they are enough

- `pipe`: two requests, one child, a write queue of one. Two requests fill the queue, so a third party
  blocked on it exists; every race in the code is between one call and the goroutines, or between two
  calls on the queue. Restarts need a second generation, which the proofs cover for any number.
- `supervisor`: two launches show a child and its replacement with the old prober still about; one
  caller, since callers meet only through the suspicion flags. The periodic probe is off: that is the
  harder case, a nudge is then the only way to be probed.
- `idem`: `Two` has two clients with keys of their own that want one name, a restart and a table that
  may fail to be saved; `Outsider` a session started by hand; `Faulty` failing listings and lost
  replies. Two sessions per key are a duplicate, so three sessions are enough; `MaxNameAttempts` 2
  leaves one number to be raced for.
- `composer`: two senders with a runtime that hands messages back (all modes together with one entry in
  the transcript, a send with a resume or a replace with two); one sender, every call, and late renders,
  uncertain commands and lapsing records at once; the same with a restart; one who resumes again and
  again. Two pieces in the composer are the least that can be mixed up; four
  entries hold a message that ran twice, queued and taken.
- `driver`: owners: one request at a time and three sessions (a target, one under the name it leaves, a newcomer),
  or two requests and two sessions. Lanes: two lives of the module, two processes and two keys tell
  the old from the new in each; a drop and a restart of the service put a record into every state
  between them. Routes: three sends of two texts hold a first try, its retry and another in between;
  the ledger holds both texts. Locks: three calls, so that one may wait behind a waiter.
- `hub`: a window of two, three changes and a restart put every cursor before, in and after the
  window; three streams are a start, a restart for another filter and one after linger. What multiplies is
  kept apart: `Two` is two clients and two changes, `Broken` two clients and a broken stream; `One` is one
  client with three changes, a failure and a restart, `Failing` the same with two failures; `Scopes` puts
  a local client beside one of the fleet, with a peer and a window of one; `Fleet` is one client of the
  fleet before a channel that takes a single event.
- `history`, labels in `fleet`: two runs at two ids can reuse an id, swap ids and be renamed over each
  other; two listings can overtake each other. Overtaken listings are checked with one session,
  interleaved handlers with one run, and over a restart either listings overlap or people start
  sessions of their own, because the product is large.
- `fleet`: peer down: three overlapping calls and a threshold of two: one call may be left over from before
  a recovery while two more fail. Relay: two calls for a late first and its retry; a window of two,
  one place in the peer's channel and one in the stream's, and four events: a cursor is before, in and after
  the window, and a slow reader has the peer's channel full. Requests: two machines, two runtimes, one request
  at a time, since requests share no state; sessions open and close under it. Streams: three mute
  deaths reach the limit of futile re-attaches. Renames: two, the second over the first's id. Records:
  three moves exceed `maxNameReasserts`.
- `readings`: screens of at most twelve rows with a margin of two and menus of three options: the
  window and the depth of search are chosen so that each boundary falls on a row that matters. Three
  readings are one that is remembered, one that is compared with it, one after a restart. Two
  questions: the one that was read and the one keys may fall on. A tail of one to three lines of four
  reaches back to the delivery or not. Two creates under one name.
- `live`: the smallest environments in which something is lost and must come back: one session, one or
  two failures, one restart.

Clients of the hub, of the composer and requests are symmetric, and exchanged in safety runs only. Runs
with `CHECK_DEADLOCK FALSE` are of systems that may stop: everything is closed, or nobody calls.

### Fairness

Only goroutines of the service's own are fair: they are runnable, wait for nobody, or wait with a
deadline. In `ModPipe` these are the supervisor's detach and `failPending`, the reader once it has
taken a call, and callers; nothing is assumed of the module, of `Write`, or of deadlines. In
`ModSupervisor` the supervisor, `Stop`, probes (their request has a deadline) and callers' deadlines.
In `CreateIdempotency` a client that has not got a final answer keeps asking, since `PendingIsResolved`
is about that client. Listings, creates, closes, people and failures are never fair.

`MCLive` has the fairness of its parts side by side; each part's module states it as its own
specification (`HubFairSpec`, `LaneFairness`, ...):

- the hub's pumps that read and retry, and a connected client that reads;
- the sweep, the stream's reader and handlers finishing what they began, where a subscriber keeps the
  stream open; without one, an end waits for the next listing;
- the peer's probe, its timer and request;
- lanes: polls, flushes, the ready callback and the background pass. Strongly fair is what takes another
  party: a listing that succeeds, a module that takes an attach or a close it is asked for again and
  again. Without that nothing comes back;
- a stream's subscription, supervisor and engine; a watch's handler, timer and stream; a request on
  session records and the next listing, since listings are what repairs a name;
- locks: calls take their next step, and the mutex goes to some waiter, not to a given one; a send before
  a dialog never ends by itself. So a respond gets through because it is asked for, not by luck;
- first prompts: the settler polls and the runtime paints; nobody is assumed to answer it.

## Findings

`hub_overflow` and `echo` are violated by the code as it is, against what it says of itself; the texts
are quoted in `PROJECT.json`. Everything else under "Known limits" holds with a condition that the
property states.

## Proofs

`ModPipeProofs`, from `PipeAssumption` (at least one generation, a queue of at least one) and for any
set of requests, any number of generations, any capacity:

- `TypeCorrect`: `TypeOK` is inductive.
- `NotSentSafe`: `NotSentIsTrue`, by `NotSentInv`. The property alone is not inductive: a caller may
  leave with "not sent" while its frame is still in the queue. The invariant says that the state word
  tells the truth about the wire and that everything that says "not sent" (`out`, `res`) is backed by
  a frame that was dropped or never queued, which the writer's own compare-and-swap then refuses.
- `NoneStranded`: `NeverStranded`, by `NeverStrandedInv` = `TableInv` (the tables are as empty as the
  child's phase says, and hold that child's own calls) and `OwedInv` (a registered call without an
  outcome is in the pending table, in `failPending`'s copy or in the reader's hand).
- `DeadChildWritesNothingNew`: `QueuedDiesWithChild`, from the same invariant.
- `KeepsThePromise`: `ModPipe` refines `AtMostOnceRequest`. `StutterStep` and `ReturnStep` say which
  changes of `res` and `seen` are steps of the promise, `StepRefines` goes through the actions.

`OtherDriversProofs`, a peer that is down, from `PeerDownAssumption`, for any finite set of calls and any threshold above zero:

- `PeerTypeCorrect`; `ProbeInvariantHolds`: `probing` is true exactly when there is a probe goroutine,
  and a peer that is down has it. `AtMostOneProbe` and `DownHasItsProbe` follow.
- `DownIsAlwaysEarned`: a peer is down exactly when the threshold of failures was reached with no
  answer in between; inductive as it stands.

`OtherDriversProofs`, relayed calls, in every environment, for any number of calls:

- `RelaysAreAsAsked`: `RelayedAsAsked` where `RelaySteady` holds (a peer gets no older build while creates are
  relayed, and no name is used again while a discard names a run; both are under "Known limits"), by
  `RelayInv`. What a cache, an answer on its way to one or an answer in a create's hand says the peer
  carries, it carries (`FeaturesAreThere`); so what a create wants is there or is still asked for
  (`NeedsAreMet`), up to a request that arrives after its caller was told. A run that is named travels with
  the request, unless there is only one (`PinTravels`), and an effect is the work of a call that the peer has
  answered or that was told nothing (`EffectTrue`).
- `PeerEventsComeExactly`: `PeerEventsAreExact`, in every environment, for any number of events, cuts and restarts,
  any window and any channels, by `FeedInv`. The events of the peer's present epoch are the last ones it
  published, numbered from one (`FeedFrom`), so what a hub retains after a cursor is an end of them, counted
  without a gap (`EventsCounted`, `BacklogIs`); what is under way in the subscriber's channel and on the
  connection has every later event but those left out (`QueueIsTrue`). And the last event put into the
  stream's channel is the place that the next connection offers, or the one before what is under way
  (`LastIsTrue`): the two that must agree are kept by different steps, so the property alone is not
  inductive. What is left out is counted where the code leaves it out, in `PeerPublishes` and in
  `ResumedPast`; the theorem says there are no other holes, it does not say that these are announced.

`OtherDriversProofs`, opencode, from `OpencodeAssumption`, for any keys, calls and sessions and any failures:

- `OpencodeTypeCorrect`, in every environment.
- `OpencodeIsTrue`: `OpencodeAnswersAreTrue`, by `OpencodeInv`. A request and what the driver makes of its
  answer are two steps, so the invariant says, at each point of a call, what its last answer still proves
  (`CallIsTrue`). A `State` that did not find its session in the status map has learned only that it was
  at rest *or* is gone (`StateIsRead`); only the next request tells which, and "idle" may not be said before.
- `ListingsAreTrue` under `EndsAreTold`: a listing has no per-session request, so it must never know a
  session that is gone. One that is gone is known only to a close whose answer is on its way
  (`KnownAreThere`), which for a listing that runs alone (`CallsAreApart`) is no one; a create's new session
  is known to nobody and cannot be deleted before its create takes the answer (`MadeAreNew`).
- `OneSessionPerKey` under `KeysAreKept`: a session is the one its key is remembered for, or is in the hands
  of a create whose key is not remembered (`SessionsHaveTheirKey`, `KeysAreTaken`).

`ModSupervisorProofs`, from `SupervisorAssumption`, for any number of launches, any set of callers, and
with the periodic probe on or off:

- `SupervisorTypeCorrect`; `HealthIsAlwaysTrue` (`HealthIsTrue`) and `OneProcessAtATime` (`OneProcess`).
  `SuspicionIsWatched` was too weak to be kept: a prober that is gone satisfied it as long as a nudge
  was recorded. It now says that the prober is there to take the nudge. `SupervisorInvariant` ties the
  supervisor's place to the rest: a child is current only while it is served and has a prober, and
  wherever the next child may be launched the one before has exited or was killed.

`CreateIdempotencyProofs`, from `CreateAssumption` and `NoneAssumption` (no record is a record), for any
clients, keys, names, crashes and lost saves:

- `CreateTypeCorrect`.
- `CreatesAreAlwaysOnce`: `CreatesAreOnce`, by `CreateSafe`. For each key: at most one session, and it
  is on record in memory *and* on disk; a pending record says the key's directory. For each call: one
  that may start a session knows that there is none, one that acts on a record holds the one in memory,
  and from the launch on its own record is on disk. That a save precedes the launch is what carries the
  invariant over a crash. It needs `Truthful` (the multiplexer's answers are true) and `KeysOfTheirOwn`
  (one client per key); what happens without them is under "Known limits".
- `NeverAdoptsAnothers`: `AdoptsItsOwn`, the first half of `PendingIsResolved`, by `AdoptionSafe`: a name
  that a record or a call holds, in the key's directory, is held by sessions of that key only. It needs
  `PlacesOfTheirOwn` too.

`TmuxDriverProofs`, the lanes, from `LaneAssumption` and `NameAssumption`, for any sessions, lanes, lives of the
module and restarts of the service, in every environment:

- `LaneTypeCorrect`.
- `LanesAreAlwaysTrue` (`LanesAreTrue`) and `LivingAlwaysKeepTheirLane` (`LivingKeepTheirLane`), by
  `LaneInvariant`. Its parts: keys, processes and lives are counted (`CountsBound`, `GensInOrder`), a key
  is on one record and has one flush (`KeysApart`, `FlushesApart`), what was closed is not opened again
  (`DoneIsDone`); a lane of the module's is on a record, on its way to one, or being dropped
  (`Remembered`), for which a rename must be alone and its new name empty (`MovesApart`) and what the
  background pass is to forget must have no lane by then (`NothingToForget`), both assumed as
  `RecordsAreApart`; an answer is
  about the lane that is on the record (`AnswersAreOurs`, `NewNamesAreClear`), so that a live lane was
  answered for (`LiveHasLasted`); and a look that has not been acted on is not overtaken by a new
  session (`OneRequest`, `GoneIsGone`). From `Remembered` on the parts depend on who may act at once; each is
  claimed under the condition on `may` without which TLC breaks it.
- The steps are not taken one by one for each part. `ComesFrom` says where a task in `work` comes from and
  `Stays` what a step makes of a record; each part is then kept for these few reasons.

`TmuxDriverProofs`, sessions by name, from `OwnershipAssumption` and `MultiplexerAssumption`, for any names,
requests and sessions:

- `ExitsAreTrue` (`ExitIsTrue`) and `ItsOwnAreTouched` (`TouchesItsOwn`), by `OwnInv`, in a behaviour in which
  `NamesHold` always: an unpinned name reaches the session of exactly that name, and nobody takes a name
  that a request has looked at ("Known limits" has what happens otherwise). A command comes long after the
  look it relies on, so the invariant says what is still true of a look at each point of a request
  (`LookHolds`): a name that was seen holds what was seen there or nothing, what is to be reaped is dead and
  the driver's, and a session is marked only by the create that started it (`MarkedAreOurs`), so that the
  mark, set by name as well, can be trusted. `Follows` says what a step may make of the sessions without
  spoiling a look.

`SendProofs`, the lock, from `LockAssumption`, for any number of calls, renames and sessions:

- `LockTypeCorrect`.
- `NeverTwoInAComposer`: `OnePerComposer`, by `ComposerInvariant`. A mutex has one holder, and whoever is
  past the wait is it (`LocksAreHeld`); but the lock is found by *name* and the composer reached by name
  again later, so the invariant must say that the lock of a name stays (`LocksStay`), that who is inside
  a pane has the lock of whatever name the pane has by now (`InsideHaveTheLock`), and that a rename makes
  both names share before the session moves (`RenamesShare`). `NewNames` is needed for the last.

`SendProofs`, the route, from `RouteAssumption`, for any finite set of texts, any size of the ledger and
any number of sends, lane changes and events:

- `RouteTypeCorrect`, in every environment.
- `TextsArriveOnce` (`ArrivesOnce`) and `SendsAreAlwaysAsAnswered` (`SendsAreAsAnswered`), by
  `RouteInvariant`, which beyond the types claims its parts where sends are `Undisturbed`. A copy that is on
  its way may be taken at any time later, so "at most one has arrived" is kept only by "at most one
  can still arrive", and that by what stands between a retry and a second copy (`LiveCopiesAreKnown`): the
  caller was told, or its send still runs, or an entry of the ledger is about this very copy, of this run
  and by its handle (`Gated`). Hence a send that is past the ledger has no copy of its text on its
  way, and neither has the text in the composer, which only a resume can submit (`BoxIsKnown`). An
  entry is about a copy that was written, one entry per text (`EntriesAreTrue`), so that what the module
  or the transcript says of the entry's handle is about that copy; a send owns the one copy it wrote until
  it is answered (`CopiesAreOwned`); the lane a pinned send counts on is there (`SendIsInPlace`).
- A list of entries is a set of entries with places. `NothingIsPushedOut`: with one entry per text
  and room for all (`RoomForAll`), the cap cuts nothing, by the injection of entries into texts.
- What is proved of an action is what `GoingOnIsSafe`, `WritingIsSafe` and `EndingIsSafe` ask: of the
  six ways a send can move, each is one of the three.

`SendProofs`, the first prompt, for any names and any number of creates, closes, renames, exits, restarts,
lost keystrokes and forgotten records:

- `PromptsAreTold`: `PromptIsTold`, while no name is used again (`"reuse"`, see "Known limits"), by `PromptInv`.
  Settler, record and session find each other by name alone, so the invariant first says that they
  are one create's: no session has a name that is another's or that another's settler keeps
  (`NamesApart`), and a record belongs to the one settler of its name (`RecordsAreOfCreates`). The rest is what a settler
  knows at each point (`SettlerTrue`): that nothing was received until it sends, that it is at its
  retry only when something was lost, and that one empty poll already means its session is away for good
  (`Away` is stable, which a person or a rename could otherwise undo between two polls). `RecordTrue` says
  the same of the outcome, whether or not the session still has the name under which a listing shows it.

`TmuxSessionProofs`, the event stream, from `StreamAssumption`, for any sessions, any bound on clients and any failures:

- `StreamTypeCorrect`.
- `NoClientIsEverLeft`: `NoClientIsLeft`, by `StreamInvariant`. `Close` closes what it finds, so every
  client that is not closed is where `Close` or the supervisor looks for it (`ClientsAreHeld`); the
  supervisor's own is stored once both it and `Subscribe` have stored theirs (`LifecycleIsStored`), and
  until then nobody else has touched the stream (`SubscribeIsAlone`, which is what `"early"` breaks). The
  bound on clients is the injection of watched sessions into `conns` (`WatchingIsBounded`).

`TmuxSessionProofs`, answers to questions, from `AskAssumption`, for any kinds of questions and any number of
questions and calls, with keys that are swallowed and pastes that are refused:

- `AskTypeCorrect`, in every environment.
- `AnswersAreAsAsked`: `AnsweredAsAsked` where `AskPlain` holds (nobody answers while a Respond is under way, the
  driver waits until its keys were taken, no option is chosen from the free-text field, nor the free-text row
  of checkboxes; "Known limits" has the rest, and all environments of `readings` are such), by `AskInv` (`AskInvariantHolds`). An answer goes in
  stages, and what leaves the screen at the last of them is right only because of what the stages before have
  brought about: so the invariant has, for every plan that is left, what it may count on (`PlanIsTrue`: the boxes
  are ticked as asked before Right is pressed, the field holds the text before Enter is, the highlight is on the row
  that is wanted). A stage is under way or over: either its keys are on their way and the question is as it
  was, or they were taken or swallowed and it shows what they do (`Underway`), or the question has left at the
  keys of a last stage and was answered as asked (`HasLeft`). The property alone says nothing while
  keys are on their way.
- `KeyLands`: each key of a stage, where the runtime takes it, does what the stage wants of it or ends the question
  with the answer that was asked for. `VerdictIs`: while the question is on screen no reading takes it for answered,
  and one that says a stage is over is never too early - no key is left that could fall on what comes next.

`TmuxSessionProofs`, turns since a delivery, from `TurnAssumption`, for any number of lines, deliveries, readers and
failures, and any size of the tail:

- `TurnTypeCorrect`, in every environment.
- `TurnsAreAlwaysTrue`: `TurnsAreTrue` where `TurnPlain` holds (a reader meets no half line and no record that
  grows between its looks, and records are not both started anew and unreadable; see "Known limits"), by `TurnInv`.
  A count is of use only with the size it goes with, so the invariant says of every pair, in the mark
  and in a reader's hands, that the size is the end of a line, that the turns up to there are counted, and that
  all that follows is later than the delivery (`MayGoOn`); it is this last part, which the property does not
  mention, that lets the next reader count forward without looking at times. A reader that tells how many turns there
  are was right between the moment it took the mark and the moment it answers (`ReadIsTrue`).

`ServiceProofs`, the event plane, from `HubAssumption`, for any clients and sessions, with any filters and scopes, any
window and channel, and any number of changes, failures, streams and restarts:

- `HubTypeCorrect`: the types, and that every event is about a change that happened (`EventsAreReal`).
- `OneStreamServesAll`: `StreamServesAll`, by `FeedInvariant`, in every environment without `"race"`.
  `ensureStream` reads in three critical sections and acts in a fourth; what a request has read must
  still hold when it acts (`ViewsAreFresh`), for which there may be one request at a time in there
  (`OneInEnsure`). Then every living pump is of the current stream (`StreamIsCurrent`), and the current
  stream covers whoever is connected (`SubscribersAreServed`).
- `GapsAreNeverSilent`: `NoSilentGap`, by `GapInvariant`, which it claims under `OneFilter` as the
  property does. That a mirror is whole now says nothing of the next event, so the invariant is about
  events to come (`MirrorsAreWhole`): of every change that a pump has passed, a client that believes
  its mirror reflects it already, or has it to come, or has a resync to come, and no later event of
  that machine comes first. For a client that is away, "to come" is what the window would replay. It
  needs that subscribers hold what is in the window and newer than their cursor, in order
  (`ChannelsAreExact`, `CursorsInOrder`), that nobody takes a listing's position while a driver is not
  watched (`ListsAreFed`), and that the stream is started once (`StreamStaysOn`).
- The lemmas follow one question each: what `publish` makes of the window and of a subscriber
  (`PublishIs`, `WindowMoves`, `SubscriberGets`, `AwayGets`), that a cursor once lost from the window stays
  lost (`LackingLasts`), what each step of a pump announces, and that a client's step
  concerns that client alone (`OneClientIsEnough`). `HubInvariantHolds` puts the parts together.

`ServiceProofs`, session labels, from `LiveAssumption` and `LabelsAssumption`, for any ids, runs and
listings:

- `LabelsTypeCorrect`.
- `LabelsAreAlwaysTrue`: `LabelsAreTrue`, by `LabelsInv`, where `LabelsSteady`: start times differ, handlers
  note what they did before anything else happens, no listing is overtaken, and either no id with
  a record is taken by another session (then people may rename sessions past the service) or people only
  start sessions, at ids whose record has a start time. `Plain` and `RenamedPast` of `fleet` are such
  environments; "Known limits" says what breaks the others.
  That a record exists says little: the invariant is about where the labels of a living session are
  (`LabelsFollow`) - at its id, at an old id from which the note of a rename will take them, or
  at an old id from which the next complete listing will, for which the record must have a start time. It
  needs that `retain` can trust the listing it is given (`ListingsAreTrue`: there is one on its way, and a
  complete one lacks nothing that stands), that a session is found at one id (`RunsStandOnce`), and that a
  record is of one session, the one at its id unless its start time tells them apart (`RecordsAreOwn`).
  In `retain` several orphans may claim one session: all of them carry its labels, so it does not
  matter which of them wins.

`ServiceProofs`, requests over the fleet, from `FleetAssumption`, for any machines, runtimes, default drivers,
grants and failures, and any number of requests and of sessions that come and go:

- `FleetTypeCorrect`.
- `CompleteNeverLacks`: `CompleteLacksNothing`, in every environment.
- `FleetAnswersAreAlwaysTrue`: `FleetAnswersAreTrue`, which adds `ReachesWhatItNamed`, where `FleetPlain`: callers
  name no runtime of a peer, and drivers do not fail where an id may be in two runtimes of a machine. All
  environments of `fleet` are such; "Known limits" says what breaks the others.
- Both are read off `FleetInv`, which says of every request what it may rely on so far, since sessions come and go
  between its steps. A listing has what it need not ask for any more, unless it knows of a source that kept something
  back and so will not be told as complete (`ListingIsTrue`). A session that is looked for is with the
  runtimes that said so, that could not say, or that were not asked yet, and with no other
  (`RouteIsTrue`). Drivers know their own sessions, and where ids are not shared one place per id
  (`SessionsAreKnown`), which makes "the one that has it" the right one.

Each of these invariants was found or checked with TLC, in the environments of its run, before it was
proved; the environments in which TLC breaks a part are why that part has a condition.

Left to TLC: everything about the other modules, and all liveness (`DetachedCallsReturn`, `EndingsCome`,
`PendingIsSettled`, the `live` run), which needs fairness and `ENABLED`. `TypeOK` of the other modules
documents their variables.

## Known limits

Where a property names a condition, TLC finds it violated by the code without it. Each entry says
which constant or field of an environment shows it, what happens, and where; quotations are the
repository's own words that a reader may have taken as unconditional. `Lanes(...)`, `Sends(...)`,
`Screens(...)` and the like are the environments as the `MC*` modules write them.

**Module client.** Not checked as a property: `Client.Health` stores an answer whichever child gave it
(`client.go:1033`), so that `Status`, "the most recent health result of the CURRENT child"
(`client.go:138`), may show the previous child's until the new one's first probe.

**`CreateIdempotency`**

- `faults` with `"list"`, breaks `OneLiveSession`: `resolvePending` answers "not found" when the
  listing failed (`idempotency.go:184`), the key is released and a second session is started.
  `sessionLive` makes the distinction (`idempotency.go:166`).
- `faults` with `"reply"`, breaks `OneLiveSession`: `Create` releases the key on any error of
  new-session, "the create demonstrably failed" (`tmux.go:4810`); a client killed by its deadline
  reports an error after the session was started.
- Two clients with one key (without `KeysOfTheirOwn`), breaks `OneLiveSession`: nothing serialises creates of one key. A
  repeat during the first one's launch finds a pending record and no session, and launches too
  (`tmux.go:4589`).
- Two keys that ask for one name *and* one directory, or somebody else who works there (without
  `PlacesOfTheirOwn`), breaks `AdoptsItsOwn`: a record whose
  create never launched adopts the other key's session (`idempotency.go:187`).
- Not checked as a property: a completed key is replayed by name alone (`idempotency.go:171`), also
  with another's session under that name, or with an exited one that still stands.

**`SessionOwnership`**

- `may` with `"race"`: options, `kill-session` and the reaping kill address a session by an unpinned
  name (`tmux.go:4356`, `4437`, `4856`), which reaches `NAME-2` once `NAME` is gone, as the comments
  at `tmux.go:4321` and `naming.go:188` say. `HitsItsTarget` and `ReapsItsDead` break, another tool's
  session can be marked as managed and reaped, and a living one killed that took the name of a dead
  row.
- `other` with a prefix sibling such as `<<"w", 2>>` does the same without a race.

**`ComposerDelivery`**

- `may` with `"late"`, or a resume with no transcript, breaks `NeverTwice`: a record of a paste that
  never rendered may be pasted again when the composer is empty (`tmux.go:2664`, `6290`); a paste that
  rendered late and was submitted by a person runs twice.
- `may` with `"handBack"`, breaks `NeverTwice`: a queued delivery leaves a provisional tombstone and no
  record, and a resume that meets an empty composer looks for a record (`tmux.go:2613`).
- Two clients, breaks `NeverTwice`: one record serves a session, and one sender's confirmed delivery
  deletes another's (`tmux.go:3285`).
- `may` with `"unsurePaste"`, breaks `OwnTextIsKnown`: an error of paste-buffer returns without a record
  (`tmux.go:3079`), while one of Enter leaves one (`tmux.go:3217`).
- `may` with `"unsure"` and `"handBack"`, breaks `OwnTextIsKnown`: a resume confirmed by an enqueue
  entry keeps no provisional record (`tmux.go:2639`, against `terminalpath2_transcript.go:1091`).
- `may` with `"race"` (a person types or erases between the last look and Enter or the confirmation)
  breaks `DraftsAreKept`, `SubmitsOneMessage` and `QueuedIsTrue`: the driver cannot look and press
  Enter in one step. A stranded record's digest may include what was typed then (`tmux.go:3146`).

**`PeerDown`.** Not checked as a property: `failingSince` is when the first failing call *started*
(`down.go:194`), which may be before an answer that came after it.

**`EventHub`**

- `chan` smaller than what is sent, breaks `SlowAreTold`: the run `hub_overflow` (`events.go:173`). So
  `NoSilentGap` is about clients whose channel was never full.
- `Scopes`, breaks `LocalStaysLocal` (not a property of a run): a client with `scope=local` that resumes is
  sent the peers' events of the window (`events.go:224`), although "a local-scoped subscriber must not
  receive a peer's events" (`events.go:153`); `publish` looks at the scope and `add` does not, and the test
  of it covers the live channel only. The subscription to a peer is such a client, since it asks for
  `scope=local` with a cursor (`internal/drivers/remote/subscribe.go:132`).
- `changes` together with clients of different filters, breaks `NoSilentGap`: the stream is restarted for
  the new union (`events.go:422`) and what happens between the old stream's end and the new baseline
  is announced to nobody, although a restart is called "visible" (`events.go:388`).
- `"linger"`: the stopped stream leaves no mark, and a cursor of before is resumed (`events.go:299`).
- Not checked as a property: after a restart with `"durable"` the window is empty, and every old cursor of
  the kept epoch is resumed until the first event (`events.go:214`), although one "gets
  resync_required" (`service.go:33`).
- `"noEpoch"`: a watch without an epoch is given the service's own (`http.go:716`) and never told to
  list again for another instance's cursor.
- `"early"`: `streamOn` is set before the pump has subscribed (`events.go:426`), so a listing may take a
  position before the driver's baseline.
- `"race"`, breaks `OneStream` and `Watched`: `ensureStream` looks under one lock and acts under another
  (`events.go:397`), so that two requests may each start a stream, the first one's cancel function is
  lost, or one overtakes the other with an older union.
- A fleet-scoped client with the filter of a running local-scoped stream (`local`, equal `filter`),
  breaks `Watched`: `wantsPeers` is asked only when a stream is started (`events.go:418`). Therefore
  `OneScope`. When a stream is started again the peers are watched last, and `Watched` allows for that.

**`SessionHistory`**

- `gap` with `"close"`, breaks `OneRecord`: `handleClose` notes the close after the driver's answer
  (`http.go:1613`); a listing in between ends the session by absence, and the note adds a second
  tombstone.
- `gap` with `"rename"` or `"create"`, breaks `LivingHaveNone`: `renamed` runs after the driver and the
  event (`history.go:370`), so a listing in between finds the old id missing; undated records are not
  carried.
- `lag` with two ids, breaks `LivingHaveNone`: `renamed` keeps `LastSeen` (`history.go:378`), and a
  listing enumerated before the rename finds the moved record missing. Two overlapping listings can
  also miss a carry, the first one recording the new id afresh (`history.go:468`).
- `lag`, breaks `WithdrawnForTheLiving`: a listing enumerated before a close withdraws its tombstone
  (`history.go:448`).
- `"rename"` in `outside` together with `narrow`, or `"early"` in `surprises`, or a second session under
  the old id: the carry fails (`history.go:491`, `504`, `458`) and a living session is ended by
  absence.
- `"undated"` in `surprises`, breaks `NoneForgotten`: without start times to compare a reused id
  overwrites the record in place (`history.go:453`).
- `"renamed"` in `surprises`, breaks `NoneForgotten`: `renamed` overwrites the record at the target
  (`history.go:379`).
- `"dated"` with a close before the next listing, breaks `RightRun`: `created` keeps the old record's
  start time (`history.go:391`).
- `accepts` with `"early"`, breaks `WithdrawnForTheLiving`: a tombstone without start time is never
  withdrawn (`history.go:530`).
- Equal start times (`StartOf`), breaks `RightRun`: ambiguity is looked for among the newly listed only
  (`history.go:511`).
- Not checked as a property: an exit captured by one listing is drained by another whose enumeration
  may be older (`service.go:575`), so an id may be in both of its answers, against `history.go:406`; a
  session created and gone within one coalesce window causes no event (`subscribe.go:110`), so
  `EndIsRecorded` asks that the stream has read it.

**`SessionLabels`**

- `<<"create", _>>` and `"undated"` in `surprises`, breaks `NoStrangers`: labels stored without a start
  time agree with every session (`labels.go:127`), and `setIfAbsent` finds them for a new one
  (`labels.go:154`).
- `<<"move", "undated">>`, breaks `LabelsAreKept`: `retain` cannot re-attach a record without a start time
  (`labels.go:258`).
- `gap` with `"create"`, `"close"` or `"rename"` and two runs: `remove` and the notes go by id alone
  (`labels.go:224`); with `"label"`, a label write compares start times with a listing and merges by id
  later (`http.go:1818`).
- `lag` with two runs, breaks `LabelsAreKept`: `get` is given the older session and removes the newer
  one's record (`labels.go:128`).
- Equal start times (`StartOf`), breaks `NoStrangers`: `retain` takes them for the same session
  (`labels.go:261`).
- A rename past the service: the first listing after it may show no labels, the next one does.

**`DeliveryLanes`**

- `Lanes({"late"}, {a}, 1, 2, 1, 0, 0)`, breaks `LaneComesBack`: the
  attaches of one lane by its poll and by the ready callback are answered in one order and applied in
  the other. The "lost" applied last clears `Live` and leaves the state "live", which is not one
  that is asked for again (`modulelane.go:912`, `1262`), so that the lane never comes back.
- `"rename"` with `"meanwhile"` (without `NamesAreApart`), breaks `LiveIsTrue` and `NoLaneIsForgotten`: a
  create takes the new name of a rename before its `rekey` has come to it, and `rekey` overwrites the
  record that the create has just put there (`modulelane.go:1040`).
- `"rename"` with `"reuse"`, breaks `NoLaneIsForgotten`: the new name still has a record whose lane is not
  closed yet, and `rekey` overwrites it.
- `Lanes({"refuse", "meanwhile", "reuse"}, {a}, 1, 1, 2, 0, 0)` (without `RecordsAreApart`), breaks
  `NoLaneIsForgotten`: the background pass sees that the session of a record without a module is gone, and
  deletes by name when it has done with the records before it, which may take a close over the network
  (`modulelane.go:1222`). A create that took the name in between loses its record, and its lane stays open
  at the module.
- `"reuse"` alone breaks `LiveIsTrue`: the answer to an attach of
  the old lane is applied to the new one of that name.
- Not checked as properties: a listing between `offerLane` and new-session finds no session and closes the
  lane of the one about to start (`modulelane.go:1203`; `"meanwhile"` is checked with one process only);
  `applyAttach` goes by the session's name and not by the lane's key (`modulelane.go:885`); a rename
  during a poll leaves `attaching` set under the new name; a lost answer to prepare, a close that fails
  for good or a crash in between leave a lane at the module on no record.

**`DeliveryRoutes`**

- `Sends({"crash"}, 2, 1, 1)` (without `Undisturbed`), breaks `ArrivesOnce`: the module takes a message, the service stops before
  the ledger is saved, and the retry is delivered (`modulelane_send.go:274`).
- `"cwd"` in `may`, breaks `ArrivesOnce`: the ledger's key has the directory of the lane in one place and
  the pane's in another (`route.go:78`).
- `"close"` in `may`, breaks `PinnedKeepsOff`: a lane that is closed between the look at the ledger
  and the module's step leaves the pinned send to the terminal. It breaks `ArrivesOnce` too: an entry that
  is noted when the lane's record is gone has no directory, gates nothing, and is dropped at the retry.
- `Sends({"rename"}, 3, 2, 1)`, breaks `ArrivesOnce` and `PinnedKeepsOff`: a session that is renamed while a
  send is under way has its entry noted under the old name, where the retry does not look
  (`inbox.go:361`, `modulelane_send.go:343`). A pinned send finds no lane under that name and goes on to
  the terminal, which refuses a name that no session has.
- `"blind"` and `"succeed"` together (without `Recognised`), breaks `AnswersAreTrue` and `HeldForItself`: while
  sessions cannot be listed an entry made for the session before counts for the one that has
  the name now (`route.go:236`).
- More texts unconfirmed than the ledger holds (without `RoomForAll`), breaks `ArrivesOnce`: the oldest is
  pushed out (`route.go:151`) and its retry is delivered. That an entry lapses after its retention
  (`route.go:200`) has the same effect and is not modelled.

**`ComposerLock`** (without `NewNames`): `Locks({"taken"}, {"send"}, 2, 1, 2)`, breaks `OnePerComposer`: two calls have found a
lock each, for the old name and for the one it is renamed to, and the alias replaces one of them
(`terminalpath2_lock.go:105`, "Filed as a known limitation"). `"old"` with `"end"`, a session started
under the name that was left, does it the other way round.

**`SessionRecords`**, breaks `NamesAreKept`:

- two requests at a time (`slots` 2, two starts, a rename): both load the document, and the later save
  undoes the earlier (`reconcile.go:543`), although the merge is said to mean that a listing's fields
  "never race this and clobber it, or vice versa" (`reconcile.go:540`).
- `"again"`: a name that still has another run's record is created or renamed to.
- `"crash"`: the service stops between the command and the save.
- `"revert"`, `"stop"` and `"down"` together: two moves while the service is down, through a name that has
  a record.

**`FirstPrompt`**

- `Prompts({"rename"}, 1, 0)`, breaks `PromptIsNoSecret`: `rekeySessionState` moves the ledgers
  (`tmux.go:6652`) and not the create records, so that a renamed session's field is absent, which is
  "never a claim that one was carried and delivered" (`docs/spec/session-abstraction.md:1179`) but here
  is one that none was carried.
- `Prompts({"close", "reuse"}, 2, 0)`, breaks `PromptIsTold`: the settler polls and sends by name, and gives
  up when two polls in a row find nobody (`tmux.go:5464`). A name that is closed and taken again between two
  polls is never absent, and the first create's prompt is typed into the second create's session.
- `"restart"`, `"forget"` leave a record pending or make it absent: the settler is not started again
  (`PromptIsTold` calls that "not done" and claims no more), and the record lapses.

**`QuestionAnswers`**

- `AnsweredAsAsked` with `kinds` `{"list"}` and `may` `{"field"}`: an option chosen while the highlight
  is in the free-text field is typed into it. The prompt changes by that, and the receipt says
  "submitted" (`tmux.go:5324`).
- `AnsweredAsAsked` with `Questions({"boxes"}, {"row"}, 1, 1)`: a single choice on checkboxes is refused, since
  it "answers nothing" and "the flipped tick changed the nonce" (`tmux.go:5233`), but only up to the number
  of boxes, which leaves the free-text row out (`tmux.go:5232`, `classify.go:1222`). Its digit ticks that
  row, the nonce changes, and the receipt says "submitted" of a question that is still up.
- Not checked as a property: `RefusedBeforeAnything` (`kinds` `{"boxes"}`, `may` `{"shell"}`): a review
  list is ticked before the paste is refused (`respond_freetext.go:172`), where a refusal is a "pre-write
  guard, decided before anything was sent" (`delivery.go:51`).
- `"late"` or `"meanwhile"`: keys reach the next question, which the driver cannot exclude.

**`PaneScreens`** (environments are `Screens(may, ages, log, draft, turns, height, margin, depth)`)

- `"echo"` with `"number"`, breaks `MenuIsRead`: the run `echo`.
- `Screens({"unpainted"}, {"old"}, 4, 1, 2, 8, 2, 8)`, breaks `ReadingIsTrue`: a turn whose working mark is
  not painted yet looks like one that ended, and in a young session like one that was never asked
  (`classify.go:2554`).
- `Screens({"before"}, {"old"}, 2, 3, 1, 4, 2, 8)`, breaks `ComposerIsRead`: on a screen of four rows a rule
  in the history margin closes a composer whose own fence has scrolled away.
- `Screens({"notice"}, {"old"}, 4, 3, 1, 4, 2, 8)`, breaks `ReadingIsTrue`: a notice on a
  screen that it does not fit on.
- `Screens({"card", "number"}, {"old"}, 2, 2, 1, 6, 2, 6)`, breaks `ComposerIsRead`: a card that is cut off
  at the prompt's row, over a numbered draft.

**`ScreenReadings`**

- `Reading({}, {"list", "state"}, TRUE, ...)`, breaks `SinceIsTrue`: only listings write the file, so that
  a status seen by a read of one session in between is forgotten by a restart, and the older time is
  carried over (`tmux.go:7141`), where "since" is "the time the status was first observed to hold"
  (`docs/spec/session-abstraction.md:2337`).
- `"slow"`, breaks `StillIsStill`: two readings may store in another order than they captured.
- `"reuse"`, breaks `SinceIsTrue`: the memory goes by name (`tmux.go:7138`).

**`TurnCounts`**

- `"torn"` with a delivery, and `"meanwhile"`, break `TurnsAreTrue`: the size is read before the tail and a line
  may be half written, so that the offset is not "always [...] exactly on a line boundary"
  (`runtimerecord.go:333`).
- `Turns({"rotate", "fail"}, 4, 2, 2, 3)`, breaks `TurnsAreTrue`: a reader that cannot open the record that was
  started anew repeats the count of the one before (`runtimerecord.go:438`).

**`PaneStream`**

- `"gap"`, breaks `KnownCatchesUp`: what happens between the end of a lifecycle client and its successor
  is compared once, at the loss (`subscribe.go:498`), and not after the new one is attached. A session
  that ends meanwhile stays told as present.
- `"early"`, breaks `NoClientIsLeft`: the first lifecycle client's session ends while `Subscribe` is at
  work. The supervisor stores a successor, `Subscribe` stores its own dead client over it, and `Close`
  leaves the successor open (`subscribe.go:416`, `977`).
- As many mute deaths in a row as `maxFutileReattach`, breaks `KnownCatchesUp`: the stream gives up that
  session's screen, by design.

**`RenameWatch`**, breaks `FollowUpsAreTrue`: `"early"` (the watch is opened before the stream has
published what came before), `"idle"` (nobody listens, so nothing is heard), `"behind"` (the window
closes on a stream that has not caught up), `"reuse"` (a start time that is not known matches).

**`PeerRelay`**, breaks `RelayedAsAsked`:

- `"downgrade"` with `"create"`: a cached "yes" is trusted (`remote.go:508`, `545`) and outlives the build that
  said it, so that the older build drops a field and nobody is told.
- `"pin"` with `"reuse"` and `"discard"`: a discard relays its digest and `force` and not the run it was
  for (`remote.go:1569`).

Allowed by `PeerEventsAreExact`, as two holes that nobody is told of: what the peer publishes while its channel
for this subscriber is full (`events.go:165`; this reader blocks on its own full channel, `subscribe.go:129`,
so a slow one is enough), the same omission as in `hub_overflow`; and what a `"durable"` peer that restarted is
resumed past while its window is empty (`events.go:214`). The events are those the subscription asks for,
numbered among themselves: that the peer's cursors and window also count others is left out.

**`FleetRequests`**: `"named"`, breaks `ReachesWhatItNamed`: the peer driver sends no `?runtime=`, so that a
session of the peer whose id is in two of its runtimes cannot be reached there
(`docs/spec/api-http.md:1770`, `docs/spec/session-abstraction.md:2815`). So does `"same"` with `"fail"`: of two
runtimes of a machine with one id, the only one that answered is taken (`service.go:1068`), although the
other may hold the session that was meant.

**`OpencodeSessions`**

- `"twice"`, breaks `OneSessionPerKey`: the key is remembered after the server's answer. So do `"lost"`, when
  the answer of the create is the lost one, `"late"` (ten minutes) and `"restart"` (keys are in memory).
- `"lost"` and `"other"` break `ListingsAreTrue`: a session whose close was carried out without an answer,
  or that another client deleted, stays in `seen` and is listed as idle (`ops.go:449`). `"meanwhile"` does,
  too: a `State` that found its session before a close ended it puts it back into `seen`.

## Plan

1. Done: every part in the table of components has a module, most with the failures its code
   handles; proofs about the module client, creates, lanes, the composer's lock, the route of a send, first
   prompts, sessions by name, the event stream, the event plane, session labels, requests over the fleet, turns since a
   delivery, answers to questions, a peer that is down, relayed calls and opencode.
2. Screens: what `PaneScreens` leaves out of `classify.go`, the context meter and the queued messages.
   Conversations and resume intents, when more of what their files promise is stated in this repository.
3. Abstract specifications worth adding: a history that appends one record per end (for
   `SessionHistory`), an at-most-once launch per key (for `CreateIdempotency` and the opencode driver's
   keys), one composer, one writer (for `ComposerLock` under `ComposerDelivery`).
4. Proofs worth adding: the records of `SessionHistory` and `SessionRecords`, the follow-ups of `RenameWatch`.

Bounds of time: each run takes at most about four minutes with two workers on an idle machine.
