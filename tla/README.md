# Verification of AnimaForge

AnimaForge turns prompts into animated video: a console submits generation jobs, workers
drive them through an AI service and four governance stages, and users watch, edit and
stream the results together. This directory holds TLA+ models of the parts where the
program's own logic is hard to get right, the TLC configurations that check them on small
instances, and TLAPS proofs of what matters most for instances of every size.

- [1. The system](#1-the-system)
- [2. Plan](#2-plan)
- [3. The generation pipeline](#3-the-generation-pipeline)
- [4. The signaling server](#4-the-signaling-server)
- [5. The collaboration server](#5-the-collaboration-server)
- [6. Billing credits](#6-billing-credits)
- [7. Four small parts](#7-four-small-parts)
- [8. Collaboration documents](#8-collaboration-documents)
- [9. Where code and documents disagree](#9-where-code-and-documents-disagree)
- [10. What is only model-checked, and what is not modelled](#10-what-is-only-model-checked-and-what-is-not-modelled)

Run `tlc -config MCx_y.cfg MCx` for a check and `tlapm XProofs.tla` for a proof module.

| module | what it is |
| --- | --- |
| `DeliveryGate` | abstract: outputs are cleared stage by stage before they are released |
| `GenerationPipeline` | console job API, BullMQ queue, generation worker, governance pipeline |
| `GenerationProperties` | its invariants, step properties, fairness, liveness and refinement |
| `GenerationProofs` | its theorems |
| `MCGeneration` | model values, symmetry and view for TLC; six configurations |
| `SessionMembership` | abstract: a peer joins one session, while it has room, and leaves for good |
| `Signaling` | the WebRTC signaling server, its connections and clients |
| `SignalingProperties`, `SignalingProofs`, `MCSignaling` | as above; one configuration |
| `ShotLocks` | the shot lock manager: leases, expiry, timers |
| `Collaboration` | connections, presence and broadcasts of the collaboration server, over `ShotLocks` |
| `CollaborationProperties`, `CollaborationProofs`, `MCCollaboration` | as above; one configuration |
| `Billing` | deductions, top-ups and cancellations over usage meters, with the memory fallback |
| `BillingProperties`, `BillingProofs`, `MCBilling` | as above; two configurations |
| `OfflineQueue`, `OfflineQueueProperties`, `OfflineQueueProofs` | the mobile app's queue of offline actions |
| `EventBus`, `EventBusProperties`, `EventBusProofs` | the in-process event bus and the worker's connection to it |
| `RealtimePresence`, `RealtimePresenceProperties` | presence by user over sockets |
| `ShotTakes`, `ShotTakesProperties`, `ShotTakesProofs` | numbering and deletion of a shot's takes |
| `MCServices`, `ServicesProofs` | the last four, side by side; one configuration, the proofs about presence and of the types of the four together |
| `CollabDocuments`, `CollabDocumentsProperties`, `MCCollabDocuments` | the two documents of a project and what is saved; one configuration |

`PROJECT.json` maps every definition to the source lines it stands for, and lists the
hazards of the code with the properties that watch each of them.

## 1. The system

The repository is a pnpm monorepo: Node services under `services/`, a Python AI API,
web, desktop and mobile apps under `apps/`, shared packages under `packages/`. Most
services are CRUD over PostgreSQL (Prisma) or pure I/O. State that several actors change
without a lock lives in these parts:

| component | state | operations | interacts with | hard behaviour | correct when |
| --- | --- | --- | --- | --- | --- |
| Generation job API (`routes/console/production.ts`, `lib/generationQueue.ts`) | rows of `generation_jobs` | submit, retry, cancel | enqueues on BullMQ; writes the rows the worker writes | two queries per request with nothing between them locked; process death; rejected enqueue, and a rejected report of it | what was accepted ends; a row agrees with its job |
| Generation worker (`workers/generationWorker.ts`, `utils/jobHelpers.ts`, `utils/aiApiClient.ts`) | executions, `usePrisma`, the memory fallback | process, poll, deduplicate, complete, fail, dead-letter | BullMQ, AI service, database, event bus | two live executions of one job after a lapsed lock, retries at three levels, crash between awaits, dropped events | only governed outputs get out; a reused result is of the same request |
| Cleanup worker (`workers/cleanupWorker.ts`) | none of its own | delete old rows | deletes rows the worker and the API use | deduplicated rows outlive the rows they took their result from | what a row says stays earned |
| Governance pipeline (`workers/governancePipeline.ts`, `utils/governanceClient.ts`) | position in the stages, signing attempts, callbacks under way | four stages | moderation, consent, C2PA and watermark services | callbacks nobody awaits, errors swallowed by a loop | blocking stages precede delivery |
| WebRTC signaling (`live/src/webrtc/signaling.ts`) | `peers`, `sessions`, `socketToPeer` | join, leave, relay, disconnect | browser clients over `ws` | departures and joins cross frames on the way | maps agree, sessions stay isolated, rosters converge |
| Collaboration (`collab/src/index.ts`, `shotLocking.ts`, `awareness.ts`) | shot locks with timers, one presence entry per user and project | lock, unlock, query, connect, close | browser clients | several connections of one user; expiry racing a new lock; an unlock by someone else is announced | a granted shot stays its user's; no lock outlives its holder or its time; rooms and lists are true |
| Collaboration documents (`collab/src/index.ts`, `persistence.ts`) | the handler's documents, y-websocket's, a save timer, the saved state | open, close, update, save, restart | browser tabs, y-websocket | two maps of documents; a save that waits for quiet | what the server had long enough survives |
| Billing (`routes/billing.ts`, `billingService.ts`, `db.ts`) | usage meters, subscriptions, balances in memory, the remembered probe | deduct, top up, subscribe, cancel | database | read, check, absolute write; fallback after a lost answer; answers sent before anything is decided | every operation is booked once; no balance is invented |
| Mobile offline queue (`offlineManager.ts`) | one stored list | queue, replay, clear | device storage, API | concurrent read-modify-write, death in a replay | no confirmed action is lost or sent twice |
| Event bus (`packages/events`, `workers/utils/eventBus.ts`) | registrations, one connection | publish, subscribe, unsubscribe, disconnect | workers | throwing and slow handlers, reports that throw, a connection that fails under waiting publishes | every handler is called once, in the order of the job, whoever throws; publishes end |
| Realtime presence (`presenceService.ts`) | one entry per user, one timer handle per user, the timers that run | connect, disconnect, away | Socket.IO | several sockets of one user over one handle | who is listed is connected; nobody is online for ever |
| Shot takes (`production.ts` 267-316) | rows of `shot_takes` | add, delete | console | two queries without a transaction | numbers are distinct |

Not candidates: CRUD routes, UIs, cryptographic and signal-processing code (C2PA,
watermark), the Python model stubs, storage/CDN/export I/O, analytics and search,
infrastructure. The moderation, consent, C2PA, watermark and AI services appear in the
pipeline's model by the answers they can give.

## 2. Plan

The order puts first what decides whether an ungoverned output reaches a user.

1. **Generation pipeline** (done): `DeliveryGate` as the promise, `GenerationPipeline` as
   the composition of API, queue, worker and governance stages, which share rows and
   cannot be understood apart.
2. **Signaling** (done): `SessionMembership` as the promise, `Signaling` as its
   implementation together with clients.
3. **Collaboration** (done): `ShotLocks`, and `Collaboration` over it with connections,
   presence by user, broadcasts and what clients show. What a lock promises is stated as a
   lease (`LeaseHonoured`), not as a module of its own.
4. **Billing credits** (done): overlapping read-check-write operations over one meter, and
   the fallback. What is promised is stated as the bookkeeping of meters and memory, since
   the code does not implement an atomic ledger (section 9).
5. **Offline queue**, **event bus**, **realtime presence**, **shot takes** (done): four
   small parts with a hazard each, in modules of their own, checked in one run.
6. **Collaboration documents** (done): which document is saved.

Considered and left out after reading the code: the gateway's circuit breaker and the
two-tier cache, which no running path uses; offline edit synchronisation and conflict
resolution, whose router is mounted nowhere; sessions, consent and human review, which are
single calls or synchronous handlers on one record (section 10).

Every safety property that a passing run checks is also proved (sections 3 to 7). A
continuation could refine `Billing` into an atomic ledger once its operations are
conditional updates. Modules that are proved about avoid RECURSIVE operators.

## 3. The generation pipeline

### State and actions

| model | code |
| --- | --- |
| `status`, `outputUrl`, `inputHash`, `inputParams`, `completedAt` | columns of `generation_jobs` (schema.prisma 232-266); of `completedAt` only whether it is set; status "deleted" once the row is gone |
| `request`, `cancelling` | handlers of POST and DELETE `/jobs` between their two queries |
| `qstate`, `owner`, `payload`, `attemptsMade`, `stalls`, `returned` | the BullMQ job: list, lock token, data, counters, return value |
| `pc`, `job`, `out`, `attempt`, `tries` | one execution of `processGeneration` per slot: the next await, and its locals (`tries` counts the rounds of the loop it is in) |
| `late`, `usePrisma` | progress callbacks whose write has not landed; the switch of `jobHelpers.ts` |
| `submissions`, `cleared` | jobs the AI service was given; outputs each governance service let through |
| `deadLetters`, `bus` | dead-letter queue, events that reached the bus |

`SubmitJob`, `RetryJob`, `EnqueueGeneration`, `EnqueueRejected`, `CancelCheck` and
`CancelWrite` are the handlers, split where they await. A request ends as "accepted" (its
201), "refused" (the enqueue was rejected and the row says failed) or "lost" (the row could
not be updated either, or the API process died). `StartJob` .. `Rethrow` are
`processGeneration`: an action is the stretch from one await that another actor can observe
to the next. Several consecutive awaits are one action where only the same execution writes
in between and nothing reads the difference: input validation with the creation of the
record and the started event; a poll with the row write and the events that report it; the
last poll with the `governance_moderation` status; quality scoring, finalisation and
`markComplete`; the `done` status and the two announcements; `markFailed`, its event and the
dead-letter entry; the read and the create of a retry. A failure between two of them is
covered by `Throw`, which can happen before or after the merged action, and by
`WorkerCrash`.

`StalledCheck` and the lock test in `ReturnResult` and `Rethrow` are BullMQ's: a job whose
lock lapsed runs again while its first execution may still be alive, and BullMQ ignores what
the first one reports. `WorkerCrash` clears what is in process memory, `ApiCrash` what the
API still had to do. `DatabaseCallFails` sets `usePrisma` to false, after which writes go to
a map that nothing reads back; an update of a row that has been deleted is rejected as well,
with the same consequence (`Reaches`). `findCachedResult` has a `usePrisma` flag of its own:
when it is off the lookup misses, which `StartJob` allows anyway.

`CleanExpiredJobs` is the cleanup worker's deletion of failed and complete rows whose
`completedAt` is old enough. The model has no clock: any set of such rows may be old enough
at any moment, so a row can go between two steps of a job, a callback, a cancel or a retry.
A deduplicated row gets no `completedAt` (`updateJobStatus` does not set it) and, unless an
earlier attempt of its job failed, is never deleted. `Publish` sends any subset of the
events of a step, as `publishEvent` swallows a failure of the bus and goes on.

Abstractions: an input hash is represented by the data it hashes (`computeInputHash` is
SHA-256 over type, project and params; collisions are out of scope), with `Rehash` for
the hash that `createJobRecord` folds into the stored params and that a retry then
submits as params. An output is named by its job and submission number. The bus is a set
of events: publishing never blocks, may be dropped, and nothing in the pipeline reads it.
The progress callback of a stage is emitted when the outcome of the stage is known, in
the same step; in the code it is called just before or after the service call, and its
write lands any time later in both. Not in the model: the create branch of
`createJobRecord`'s upsert, which needs the row to be deleted between two writes at the
start of a job (after its status was set to running); the release of "stale" locks by the
cleanup worker, which passes a token that holds no lock, is refused by BullMQ and changes
nothing; BullMQ's own removal of finished jobs; priorities, rate limits and backoff
delays, which change when a job runs; quality scores, which refuse nothing.

### Properties

| property | why it is not obvious |
| --- | --- |
| `GovernanceGate` | an output may reach a user by its own completion, by deduplication into another row, by a retry, by a second live execution: each must have been cleared itself |
| `ReuseMatchesRequest` | reuse looks at rows whose status callbacks, cancels and retries overwrite, and a retried row carries an old hash |
| `CompleteIsGoverned` | a deduplicated row says complete without an output of its own and outlives the row it took its result from; writes may stop reaching the database half-way. An output made for the same request must have passed the blocking stages, whatever has become of rows since |
| `SubmissionBudget` | POST retries, queue attempts and stalls multiply |
| `DeadLettersAreLast` | two constants in two files, and an attempt that stalls is repeated |
| `VerdictsHold` | a row may end up disagreeing with its job, or be deleted, and events may be dropped; that the queue never calls a job completed without a cleared output of its request as its return value, nor failed one that had attempts left, is what remains to be relied on |
| `AcceptedSettles`, `SlotsRecycle` | liveness: what was answered with 201 is completed or failed in the queue for good, a failed attempt that is run again being no end; no outcome keeps a slot |
| `ImplementsGate` | refinement: every step is a clearance in stage order, a release of cleared outputs, or neither |

### Runs and bounds

| run | instance | shows |
| --- | --- | --- |
| `generation_reuse` | 2 rows, 2 inputs, 1 slot, 1 attempt, 1 late callback, database may fail, rows may expire | safety with reuse, retry, cancellation and deletion: an output is announced only for the data it was made for (1.6 million states) |
| `generation_zombie` | 1 row, 2 slots, 2 attempts, 2 POSTs, 2 signing tries, 1 stall, locks may lapse, rows may expire | safety, budgets, the queue's verdicts and the refinement of the gate with two live executions (510,000 states) |
| `generation_liveness` | 1 row, 1 slot, 2 attempts, 2 polls, 2 signing tries, 1 stall, API may crash, rows may expire | liveness under fairness (296,000 states) |
| `generation_cancel`, `generation_console`, `generation_queued` | 1 row, 1 slot, 1 attempt | three disagreements of section 9 |

Two rows are what reuse needs: one that produced, one that reuses or retries; and with two
inputs they may or may not ask for the same. Two slots are what a zombie needs. Retry,
stall, polling and signing limits are the smallest in which "again" and "last" differ.
`MaxLate` bounds the callbacks outstanding per job, of which one already lands at the worst
moment; `Cancellable` bounds which rows are cancelled. The view leaves out clearances of
outputs that no execution, row, event or return value names, except for the request data of
the fully cleared ones, which `CompleteIsGoverned` reads: outputs are never named twice, so
no later step or property can depend on them. Slots and inputs are symmetric: no constant or
property distinguishes them. `CHECK_DEADLOCK FALSE` stands in every configuration because a
system whose jobs have all ended rightly stops.

### Fairness

`FairSpec` assumes that a handler past an await goes on, that the event loop runs ready
executions and callbacks, that BullMQ hands waiting jobs to free slots, and that its
stalled check sees locks whose process died. The code justifies the first three (no
action blocks another in the event loop) and BullMQ's workers the last. Fairness of an
execution is weak fairness of all it can do next (`Process`): what it awaits comes back or
fails, and nothing is assumed of the answer. A poll that finds the AI job pending is such
an answer, and may come every time; the loop ends because `pollAiJobUntilDone` counts
(`AI_POLL_MAX_ATTEMPTS`). The calls to the governance services have no time limit of the
code's own (governanceClient.ts:58), so that one comes back at all rests on the limits of
the platform's `fetch`: this is an assumption and not something the runs show. Nothing is
assumed of users, crashes, deletions, lapsing locks or rejected calls.
Worker crashes remain possible in the liveness run; that a job fails after
`MaxStalledCount` stalls is what bounds them.

### Proofs

`GenerationProofs` proves, for all constants that satisfy `ConstantsAssumption` and
`NoneIsNoData` (limits are positive, `None` is no value of the data):

| theorem | statement |
| --- | --- |
| `TypeCorrect` | `Spec => []TypeOK` |
| `OnlyGovernedOutputs` | `Spec => []GovernanceGate` |
| `ReuseIsSound` | `Spec => []ReuseMatchesRequest` |
| `CompletionIsGoverned` | `Spec => []CompleteIsGoverned` |
| `Implementation` | `Spec => ImplementsGate` |
| `SubmissionsWithinBudget` | `Spec => []SubmissionBudget` |
| `DeadLettersHaveNoRetry` | `Spec => []DeadLettersAreLast`, if `DlqMaxRetries >= Attempts` |
| `FewExecutions` | `Spec => []ExecutionsBounded`: at most one live execution of a job more than it has stalled |
| `OneExecution` | `Spec => []ExecutesAlone`: a job that BullMQ has not found stalled and has not failed is executed at most once at a time, by the execution that holds its lock, and not after it was completed or put back |
| `QueueVerdicts` | `Spec => []VerdictsHold` |
| `ExecutionsGetOn` | every step of an execution, rounds of its loops included, lowers a rank that starts at `11 + 2 * MaxTries` (the larger of the two loops' limits), and nobody else's step raises it |

The hypothesis of `DeadLettersHaveNoRetry` is what the code has: `DLQ_MAX_RETRIES`
(generationWorker.ts:41) and the queue's `attempts` (generationQueue.ts:60) are both 3.
Locks may lapse in all of them: `OneExecution` is about every job whose lapses, if any,
BullMQ has not counted as a stall, and `FewExecutions` about the others.

None of these is inductive alone. `Requested` says that whatever the queue, a callback, a
cancellation or an execution refers to was once requested and has its data, and that a job
that may still run has attempts left; with it `TypeOK` is inductive. `Governed` says that
an execution at a given point carries an output that passed every stage before that point
(an output being reused: all blocking ones); the gate follows because only executions at
`done` or `reuse`, and `markComplete`, release. `Matching` follows an output from the
submission through execution, row and event, and says that a row with an output carries
the hash of its own data: this is why a retried row, whose hash was copied from another,
cannot make deduplication hand out the wrong output. `CompletionIsGoverned` cannot follow a
row to the output behind it, since that row may be deleted; it follows the evidence instead:
clearances and request data are never taken back, so an output that a completion once rested
on goes on being governed and of the same request (`CompleteBacked`).

The two budgets are about counters that only grow, and the steps that make them grow come
from executions that may long have lost the job. The invariant pays in advance: what a job
has used so far, and `a` more for each execution that may still use it (the set `S` of slots
in a stretch of the code), is within `a` for each time the job was handed to a slot
(`Covered`). A hand-out buys `a` and puts one slot in `S`; a use takes a slot out of `S`; a
crash only empties it. `CoveredStep` does the cardinalities once for both budgets. Hand-outs
are bounded by attempts and stalls, since each ended by one or the other.

`FewExecutions` and `OneExecution` compare the executions that no longer own the job with the
stalls that the queue has counted: an execution loses its job only in `StalledCheck`. The
verdicts follow the output that an execution will return to the one step that makes it the
queue's, for which the lock is checked; they use neither rows nor events.

`ExecutionsGetOn` is the part of `SlotsRecycle` that a safety proof can reach. An execution
has two loops, polling and signing; the rank counts their rounds, which share the register
`tries`, and the step out of the first sets it back to 0. That an execution does take its
steps is the fairness that TLC assumes.

## 4. The signaling server

### State and actions

`peers`, `sessions` and `socketToPeer` are the maps of `SignalingServer`; `None` stands
for a missing key. `conn` is the state of each `ws` connection. `home` and `told` are
history: the session a peer joined and the peers its `joined` frame listed, which
is nobody if the frame was dropped because the connection was closing. `inbox` is
what is on the way to a client, `known` the list of peers it has made of what it read.

Handlers are synchronous, so a frame is one step: `Join` (with `Register`, the three maps,
and `Announce`, the two kinds of frames), `JoinRefused`, `Leave`, `Relay`. `SocketError`
and `SocketClose` are the event handlers of `index.ts`; all departures are
`handleDisconnect` (`Depart`), which may meet a socket that has already left. A refused
join calls `close()`; frames may still arrive until the close event, and the server still
handles them. Error replies are left out (they change nothing), as are roles, names and
ICE configuration. Offers, answers and candidates are one kind of frame: the relay treats
them alike. A peer id is fresh (`randomUUID`), so ids are never reused.

Clients are external: they may send any frame at any time, read in order (TCP), and are
assumed only to apply `joined`, `peer-joined` and `peer-left` to their list of peers.

### Properties

| property | why it is not obvious |
| --- | --- |
| `MapsAgree` | three maps changed by five handlers in any order; a half-removed peer would be dereferenced with `!` (signaling.ts:175) |
| `WithinCapacity` | the check precedes the insertion, and a peer that is not removed keeps its place |
| `OneInitiator` | two simultaneous joiners must agree without talking who offers (signaling.ts:142): never both, and one of them while both are connected |
| `Isolation` | sender or addressee may leave and join elsewhere while a frame is on the way |
| `RostersConverge` | the snapshot of the join and the later announcements must add up |
| `SendersAnnounced` | no frame from a peer the client has not been told of, or knows to have left |
| `ImplementsMembership` | refinement: each step is one join, one departure for good, or neither |

### Runs and bounds

`signaling_rooms` (309,000 states): three connections, three peer ids, two sessions of at
most two peers, one relayed frame on the way to each socket. Three connections are the
smallest number that fills a session and leaves one outside it, which is refused and may
join the other session while its connection is closing; two sessions let a peer leave one
and join another; three ids allow three joins in a behaviour, by any of the connections, so
that a pair is told of a departure and an arrival at once. Sessions of more than two are
left to the proofs, which hold for any capacity. `MaxRelays` bounds only how many relayed
frames queue up; announcements are bounded by the ids. The view drops what a closed
connection will never read and what a departed peer was told, which no later step or
property looks at. Connections, ids and sessions are symmetric. `CHECK_DEADLOCK FALSE`: when
every connection has closed, nothing more happens.

### Proofs

`SignalingProofs` proves `TypeOK`, `MapsAgree`, `WithinCapacity`, `OneInitiator`,
`Isolation`, `RostersConverge`, `SendersAnnounced` and `ImplementsMembership` for any number
of connections, ids and sessions and any capacity, from `SignalingAssumption` (`None` is no
key or value; the capacity is positive). The inductive invariant adds to these
`HistoryAgrees` (a registered peer's `home` is its session, and a peer is told only of peers
that exist) and `SessionsFinite` (cardinalities are defined). The argument classifies each
step once (`Steps`): somebody arrives, somebody departs, or the maps stay; `Arrival` and
`Departure` say what the first two do to a session's members, and each conjunct is then
proved over three cases instead of eight actions. `OneInitiator` rests on freshness, nobody
can have been told of an id before it joined, and on connections never opening again.
`Isolation` rests on `home` never changing once set: a frame in flight compares homes, not
current entries. `Deliveries` says that a step gives an inbox at most one frame, at its end,
or takes one from its front.

`RostersConverge` and `SendersAnnounced` are about what a client will know after the frames
on the way to it, a recursive function over the inbox (`Rosters`). The prover has no
induction rule to instantiate, so `Induction` states it for sets of naturals (a set that
holds 0 and successors holds all, by its least element), and the function is shown to exist
and to follow its definition for every length. `RostersAppend` and `RostersTail` say what a
frame at the end and the reading of the first one do to it; with them both invariants are
kept step by step. Of frames that somebody relayed, the invariant says that the sender is
known when the frame's turn comes: it was announced before, and its departure comes behind.

`EveryPairMeets` draws the conclusion that matters to users: when two clients in a session
have read all their frames (`CaughtUp`), each shows the other, and exactly one of them was
asked to make the offer (`PairsMeet`); being caught up includes being connected.

## 5. The collaboration server

### State and actions

| model | code |
| --- | --- |
| `locks`, `timers` | `ShotLockManager.locks`, and the timeouts pending for each shot |
| `lease` | history: who was told to hold a shot, until its time is up or it gives the shot up |
| `rooms`, `docs` | `AwarenessManager.rooms` (`None`: no entry), the keys of `docs` in index.ts |
| `conn` | each `ws` connection; "closing" from the handshake to the `close` event |
| `listed`, `shown` | the last list of users sent to a client; the locks it shows |

Everything runs in one event loop, so a lock manager call, a frame and a `close` event are
one step each: `HandleLock`, `HandleUnlock` and `HandleQuery` are the branches of the
message handler with their broadcast, `Connect` and `Close` the connection handlers with
the awareness broadcast, the release of locks and the room's document. `Closing` matters
because `send` skips sockets that are no longer open while their frames are still handled.

Time is abstracted to what locks depend on: `Lapse` is the moment `expiresAt` passes, and
`TimerFires` a timeout, which may come any time after it (Node promises no more). Between
the two an entry exists but counts for nothing, which is where `lockShot`, `isLocked` and
the timeout meet. `timers` counts pending timeouts: the newest belongs to the entry, and
only that of a live lock is not yet due. The timeout deletes the shot's entry whoever owns
it, as the code does.

Frames are not queued: they reach a client in order and each overwrites what an earlier
one said, so `listed` and `shown` hold what all frames sent so far add up to by the
handlers of `useCollab.ts`. That hook also overwrites its list of users on awareness
changes of y-websocket, and listens only on the first socket of a provider; both depend on
the library, which is external, and `listed` is about what the server sends. Clients name
shots of the project they are connected to. Not in the model: `updateCursor` and
`updateSelectedShot`, which nothing calls, authentication of upgrades, and Yjs.

### Properties

| property | why it is not obvious |
| --- | --- |
| `LeaseHonoured` | six operations and a timeout delete or replace entries; a timeout of an earlier lock or renewal would end a later one |
| `TimerPerLock` | four operations must cancel what one of them set |
| `NoOrphanLocks` | locks go by user, connections come and go one by one, and a lock may have lapsed when its holder closes |
| `PresenceIsLive` | one entry for a user with several connections, overwritten by one and deleted by another |
| `ListsConverge` | the audience of a broadcast is the room as just changed, without sockets that are closing |
| `LocksGiveUp` | liveness: a silent holder loses the shot, unless somebody keeps asking for it |

### Runs, bounds and fairness

`collaboration_rooms` has two users, two projects with a shot each, and four connections:
one user has two to the same project and one to the other, which is the smallest case of a
user that is overwritten in a room and of locks released across projects; the other user is
the one who competes and watches. Nothing is bounded: leases, timers and connections are
finite. The view drops what a client that is not open shows, since it starts afresh.
`FairSpec` assumes that time passes and that timeouts fire. `CHECK_DEADLOCK FALSE` is there
as elsewhere.

### Proofs

`CollaborationProofs` proves `TypeOK`, `LeaseHonoured`, `TimerPerLock`, `NoOrphanLocks`,
`PresenceIsLive` and `ListsConverge` for any number of users, connections, projects and
shots, from the two assumptions of the modules (`None` is no user, connection or lock; a
connection has a user and a project). The invariant is their conjunction; it splits in
`LockInv`, which every lock manager operation keeps by itself (`RemovalKeepsLockInv` covers
the five that delete), and `RoomInv`, which connections keep. Types need `TimerPerLock`
(a count of timeouts never falls below zero) and lists need `PresenceIsLive` (a client is
in the audience of its own project's room only). `NoOrphanLocks` joins the two halves: each
step's lemma says which locks can be new and which connections can be gone.

## 6. Billing credits

### State and actions

| model | code |
| --- | --- |
| `meter` | `usage_meters.credits_used` per customer and month |
| `active` | customers with an active row of `subscriptions` |
| `mem` | `memSubscriptions`, `memCreditBalances` and the sums of `memTransactions` |
| `reachable`, `period` | the cached answer of `isDatabaseReachable`, the month |
| `req` | requests: how far the operation is, what it read, what the caller was told |
| `net`, `stale`, `booked`, `lost` | history: what was done to a meter, meters a stale charge wrote, where an operation was booked |

The mounted routes are `Subscribe` (memory only), `DeductCredits`, `TopUp` and
`CancelSubscription`; reads are left out, and so is changing the tier, which nothing in the
model reads: a deduction is checked against the tier its request names. An operation is
split at its awaited database calls: `ReadMeter` then the charge, the upsert of a top-up,
`FindActive` then the update. Each call may answer (`Charged`, `Credited`, `Cancelled`),
take effect and lose its answer (`ChargeLost`, ..) or fail (`CallFails`); a failure runs the
catch block, which does the operation again in memory, in the same step, since nothing in
it awaits. A month is taken when the request arrives, as in the code.

The routes hand the promise to `res.json`. So `status` is 200 from the start, and an
operation that throws is an unhandled rejection: `Throw` ends the process, with what is in
memory and under way. `Restart` does that at any other time. A write that was sent by then
is with the database, which may still carry it out (`CommitsLate`) with nobody left to hear
of it. Credits are integers in the smallest unit: the code's costs are multiples of one
half, exact in floating point, but a top-up may be any positive float
(billingSchemas.ts:32), and the rounding of such sums is not modelled. Rows
of `subscriptions` come from elsewhere: any set may be active at the start.

### Properties, run and proofs

| property | why it is not obvious |
| --- | --- |
| `WithinAllowance` | charges overwrite each other and top-ups, but each writes what it checked: the meter never exceeds a checked allowance |
| `RecordedUseExact` | the only way to lose a booking is a charge computed from a meter that has changed since; also writes that commit after the process ended are in the sum |
| `BookedOnce` | an operation runs on the database, in memory, or in both if an answer is lost, which is how the code double-charges; a refusal must leave nothing behind |
| `MemoryBooksBalance` | memory is used by operations that began on the database, and emptied at any moment |

`billing_credits`: one customer, three requests, costs 1 and 2, allowances 2 and 3, top-ups
of 1, two months, one restart. Three requests are two overlapping writers and one between
them; the costs and allowances make "just enough", "one short" and "spent by the other" all
happen. Customers share nothing but the process, whose end one customer's requests
already meet at every moment. Requests are symmetric. `billing_answers` is the disagreement of
section 9.

`BillingProofs` proves all five properties of the run for any constants that satisfy
`CreditsAssumption`. `BillingInv` adds to them `GoodRequest`: an operation that has not
ended has booked nothing, and a charge about to be written fits the allowance it was
checked against. `WithinAllowance` needs that no step unbooks a request (`KeepsBookings`).

## 7. Four small parts

`MCServices` checks four modules that share no variable and no code; `moving` chooses which
one moves in a behaviour, so the run explores their sum and not their product
(123,000 states).

**Offline queue.** `stored` is the list under `STORAGE_KEY_ACTIONS`; `queueing` is
`queueAction` between its read and its write, `replay` is `syncPendingActions` with the list
it read, what is still to be sent and what failed. `Send` succeeds, fails, or is carried out
and reported as failed. `Clear` is `clearOfflineData` for everything, `Kill` the end of the
app. `overwritten` records actions that a write dropped without having read them, `calm`
whether overlaps and lost answers have been avoided so far. `StoredOnce` says that putting
back an old list never doubles an action, `NoneLost` that there is no way to lose a
confirmed action other than the known one, `CalmQueue` that without overlaps each is
carried out exactly once. Two actions and two replays overlap in every way; the screen can
be opened twice, hence more than one replay. The invariant of the proofs, `QueueInv`, says
that every list anybody has read holds confirmed actions once, and that what a replay read
is to be sent, failed or carried out; `CalmInv` adds that in a calm queue those lists are
the stored one. No screen calls `queueAction` yet; any may.

**Event bus.** A publish is `PublishEvent` (it asks for the bus), `Publish` (snapshot of the
registrations, first handler), `HandlerSettles` (the running handler returns or throws, the
next is called) and `Refuse`: the payload does not parse, before any handler is called, or
the running handler has thrown and its registration's own `onInvalidMessage` throws too,
which only the registrations in `Reporting` have. `Connected` and `ConnectFails` end the
shared connection attempt. Registrations come and go at any time; no service of the
repository subscribes yet, so subscribers are whatever the package's interface allows. The
connection can fail with the Kafka backend or a configuration that `createEventBus` refuses,
the dispatch is the memory backend's: the model lets both happen in one behaviour, which
covers each. `HandedOnce` says that a publish that is over has called each handler of its
snapshot once, whoever threw meanwhile, with the one exception the code has: the report of a
registration at or before it in the list. Without the `try` around the call
(memory-bus.ts:93-107) any handler would end the list; that is its mutant. `AwaitedInOrder`
is the order a handler may rely on; `Awaiting` are the publishers whose code awaits each
publish. `PublishesEnd` is liveness under `BusFairness`: an attempt to connect ends, the
event loop runs callbacks, and handlers return. The last is a demand on subscribers: the bus
itself has no timeout. Two jobs, one with two events, two handlers, one of them choosy: the
smallest case of an order, of an overlap and of a handler behind another. `BusInv` adds that
a publish's remaining handlers were there and want it, and that an awaiting job has one
publish under way; `OrderInv` that the handlers called come before those that remain.

**Realtime presence.** `PresenceConnect` is the connection handler (entry online, timer
started over), `PresenceDisconnect` the end of any socket, `GoesAway` a timer that runs out.
A user has one entry in `awayTimers`, the handle of one timer, but `running` holds all
timers that have been started, by the connection that did, so that one which is not cleared
goes on and strikes a later connection. `ListedAreConnected` relates entries, sockets,
handles and timers, and is inductive with the types; `OnlineEnds` is liveness under
`PresenceFairness` (timers fire). Three sockets of two users give one user several. The
converse, that whoever is connected is listed, is false (section 9).

**Shot takes.** `AddFinds` and `AddInserts` are the two queries of a POST, `DeleteFinds` and
`DeleteRemoves` those of a DELETE; an insert may fail. `NumbersDistinct` says that only
overlapping POSTs can produce one number twice: deletions, even of the highest take in the
middle of a POST, cannot. It speaks of takes that exist together: the number of a deleted
highest take is given again. `overtaken` is history. `HighestIsCurrent` makes it inductive.
Three POSTs and two DELETEs allow a number to be freed, read and taken again.

**Proofs.** Each part's invariants are proved in its own module, for any constants that
satisfy its assumptions: `StoredOnce`, `NoneLost` and `CalmQueue` in `OfflineQueueProofs`,
`HandedOnce` and `AwaitedInOrder` in `EventBusProofs`, `NumbersDistinct` in
`ShotTakesProofs`, `ListedAreConnected` in `ServicesProofs`, which also has the types of the
four parts side by side (`ServicesTypes`).

## 8. Collaboration documents

`registered` is the handler's map `docs` (the project's document, if any), `served` the
document y-websocket keeps under the same name, `tab` the clients' copies, `saveTimer` what
a pending `debouncedSave` would write, `saved` the stored state. A document is the set of
edits it holds. `OpenTab` and `CloseTab` are the connection handlers, with the registered
document loaded from `saved` and removed with the room's last entry; `Upload` and `Download`
are y-websocket's; `Quiet` is the end of more than `DEBOUNCE_MS` without an update, after
which `settled` is what persistence should have kept. `RestartServer` may come at any time.

`collab_documents` finds `EditsKept` violated (section 9): updates reach `served` only, so
`registered` never changes after it was loaded, no timer is ever set and `SaveFires` cannot
happen. That follows from lines 65-70 of index.ts together with y-websocket's
`setupWSConnection`, which looks up the document by its name. Two users, three tabs and two
edits; the counterexample needs one of each.

## 9. Where code and documents disagree

With a run that shows it:

- **A completed job can be cancelled** (`generation_cancel`). `DELETE /jobs/:id` answers
  "A completed job cannot be cancelled" (production.ts:88) when its first query says
  complete, but its second query updates without a condition. The worker completes the
  job in between; the row, output included, becomes cancelled.
- **A completed job's row can say running for ever** (`generation_console`).
  generationQueue.ts:100 promises that the console sees every transition. The governance
  callback's row write is not awaited, and may land after the completion's.
- **A row can say queued with nothing to run it** (`generation_queued`). production.ts:160-162
  sets out to prevent exactly that when an enqueue is rejected; the update that says so is
  not guarded itself. A process that dies between the row and the enqueue leaves the same.
- **A refused deduction is answered with 200** (`billing_answers`). The tests say 402
  (tests/integration/billing.test.ts:83); the route does not await the operation
  (billing.ts:95-100), and its rejection ends the process with all balances in memory.
- **Edits are never saved** (`collab_documents`). README.md:61 lists persistence as wired
  end to end; the document that is observed and saved is not the one that is served.

Read from the code while modelling it:

- **A deduplicated result outlives its output.** Reuse sets status and nothing else
  (generationWorker.ts:373): no output, no `completedAt`. The row with the output is deleted
  72 hours after its completion (cleanupWorker.ts:28), the deduplicated one never; it goes on
  saying complete. `CompleteIsGoverned` states what its status still means.
- **A deleted row turns the database off.** A write of the worker to a row the cleanup has
  deleted (a failed row whose retry waited out a long outage) is rejected, and
  `withFallback` (jobHelpers.ts:79) takes that for an unreachable database: from then on the
  process writes every row to its own memory. In the model: `Reaches`.
- **Not every output passes four stages.** docs/architecture.md:168 and README.md:123
  promise all four before delivery. A failed watermark does not block
  (governancePipeline.ts:110). The gate of the model has the three blocking stages.
- **Stage order.** docs/governance-pipeline.md:20-23 and 150 describe watermarking before
  signing as what the pipeline does; the worker signs first (governancePipeline.ts:72) and
  watermarks afterwards (103). The model follows the code (`Before`).
- **A connected user is not tracked.** awareness.ts:33: "Tracks cursors, selections, and
  connected users." A user that connects twice to a project and closes one connection is
  gone from the room: not listed, and sent no more broadcasts.
- **A refused unlock is announced.** tests/unit/collab.test.ts:113: "refuses unlock from a
  non-owner". The lock manager does, but index.ts:80 ignores its answer and tells the room
  that the shot is free.
- **Concurrent deductions are not all recorded** (billingService.ts:327): each writes an
  absolute value computed from what it read. `RecordedUseExact` names the exception.
- **A subscription made through the API cannot be cancelled** when the database answers:
  POST writes to memory, DELETE looks in the database (billingService.ts:260).
- **Replays do not remove each action after success** (offlineManager.ts:155): the list is
  written once at the end (186), over actions queued meanwhile.
- **Events of one job may be handled out of order.** memory-bus.ts:89-91 says that
  sequential dispatch keeps the order; the governance callback's publish
  (generationWorker.ts:468) is not awaited and overlaps the job's later ones.
- **Presence** is set offline by the end of any socket of a user (realtime/src/index.ts:64),
  and away five minutes after connecting however active the user is, though the comment at
  index.ts:52 says "after 5 minutes of inactivity".

## 10. What is only model-checked, and what is not modelled

Some properties leave out the very case in which the code goes wrong, and name it by a
history variable: `stale` (a lost update of a meter), `lost` (a double charge),
`overwritten` and `calm` (actions dropped or sent again), `overtaken` (two POSTs with one
take number). They show that nothing else goes wrong, not that this does not; section 9 and
the hazards of `PROJECT.json` say where it does.

Only model-checked, on the instances above: the liveness properties `AcceptedSettles`,
`SlotsRecycle`, `LocksGiveUp`, `PublishesEnd` and `OnlineEnds`, and the five disagreements
of section 9 that have a run, each by its counterexample. Liveness under fairness and
ENABLED are beyond TLAPS, and so are induction theorems that take an operator; where the
rosters of section 4 need induction, it is over a set of naturals. Proved and in no run:
`PairsMeet`, `ExecutionsBounded`, `ExecutesAlone` and `GetsOn`, of which the last is the
safety half of `SlotsRecycle`. `CHECK_DEADLOCK FALSE` stands in every configuration:
requests, actions, publishes, sockets and rows are finite, and a system with nothing left to
do rightly stops.

Not modelled:

- **Mounted nowhere**: the gateway's circuit breaker (`circuitBreakerMiddleware` has no
  caller; the admin routes show breakers that no request feeds), the two-tier cache
  (`packages/shared/src/cache.ts`, imported by nobody), offline edit synchronisation and
  conflict resolution (`collab/src/routes/collab.ts` is not mounted), `creditGuard`,
  `subscribeTier` and `changeTier` in billing, `RoomManager`'s join and leave,
  `closeEventBus`. Models of them would describe no behaviour of the program.
- **Nothing consumes it**: the Kafka bus (README.md, "nothing consumes yet"), and the
  archive of presence sessions.
- **One call or one synchronous handler per operation**: sessions and API keys, consent and
  rights, human review, live session resources, notifications, marketplace and the
  remaining CRUD routes. There is no second step for anything to come between.
- **Pure computation or I/O**: C2PA, watermark and moderation internals, unit economics,
  analytics, export, storage, the Python model stubs, infrastructure. The pipeline's model
  has the answers of the services it calls.
- **User interfaces**, by far most of the repository's lines: pages that hold local state
  and call the routes above. What clients make of the collaboration and signaling frames
  is in those models.

`PROJECT.json` gives the reason for each component.
