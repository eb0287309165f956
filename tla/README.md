# Verification of the Samsara integration

The service of this repository polls Samsara for safety and speeding events and
posts them to Telegram: to a notifications group, to every subscriber and to the
driver's own group. When an alert goes out without its dashcam clip, a durable
worker brings the clip later. This directory holds TLA+ models of what the
service does between the awaits, configurations that check them with TLC, and
proofs about them that TLAPS checks.

The models are translated from the code. Where a document, a comment or a test
promises something else, the promise is stated as a property and refuted by a
run of its own ("Divergences" below).

Contents: 1 the system, 2 the modules, 3 the runs, 4 fairness, 5 the proofs,
6 divergences and observations, 7 what is not modelled, 8 the plan.

## 1. The system

One Node.js process: no threads, but every `await` is a point where a timer, a
command or another poll may run. What survives it: PostgreSQL (shared with the
hub), the cursor file, Upstash Redis or the subscriber file.

| Part | State | Operations | Talks to |
|---|---|---|---|
| Alert queue (`poller.js`) | `SEEN_IDS`, `PENDING_DELIVERY_IDS`, `ALERT_QUEUE`, `isProcessingQueue`; table `samsara_processed_events` | `executePoll`, `queueAlert`, `processQueue`, `noteEventDelivered`, `noteEventDeliveryFailed` | Samsara, the broadcast |
| Poll windows (`poller.js`, `speedingPoller.js`, `db.js`, `speedingPollState.js`) | watermark and cursor, each as a row or file and as a cache | window, page, scan, save of cursor and watermark | Samsara, PostgreSQL, disk |
| Broadcast (`broadcastDelivery.js`, `deliveryTracker.js`, `driverGroupDelivery.js`) | ledger `samsara_event_deliveries`; a run's statuses, `transientPending`, `sentMessages` | `deliverEvent` over every chat: both clips, then one clip, then text | routing, the switch, Telegram, the ledger |
| Video recovery (`videoRecoveryWorker.js`, `videoRecoveryStore.js`, `videoBackfill.js`) | rows of `samsara_video_recovery_jobs`: status, due time, attempts, request, targets, claim | enqueue, claim, look, ask, deliver, reschedule, finish | Samsara, Telegram, PostgreSQL |
| Process life (`index.js`, `pollCoordinator.js`, `standby.js`) | how far `start()` is, shutting down, the coordinator's cycle, the intervals | start, poll in turns, shutdown, standby | everything |
| App secrets (`appSecrets/`) | what the boot read did; the watch's `lastSeen`, `restarting` | boot read, check every minute, restart | the hub's tables, Coolify |
| Subscribers (`store.js`) | a Redis set or a file, and an in-memory set | `/start`, `/stop`, `getAll` before each broadcast, `init` | Redis, disk |
| Routing (`routing.js`, `store.findGroupByUnit`, `routingFindings.js`) | one routing finding per key in `operational_findings` | read the vehicle links, read the titles, choose a group, file a finding, settle the others | PostgreSQL, which the hub edits too |
| Captions (`driverAlertMessageAi.js`, `groqClient.js`, `geminiClient.js`) | the call in progress | ask Groq, then Gemini, each down a chain of models; keep the standard text | two AI services |
| Music overlay (`safetyEventVideoMusicService.js`, `safetyEventVideoSettings.js`) | rows of `safety_event_video_jobs` | probe, mix, two passes of compression, close the row | ffmpeg, PostgreSQL |
| Driver copy (`driverGroupDelivery.js`, section 2 of `deliverEvent`) | the clips a broadcast keeps | route, caption, download, mix, send | the three parts above, Telegram |
| Settings (`samsaraSettings.js`) | a cached row with an expiry | load, answer from the cache | PostgreSQL |
| Health (`healthReport.js`, `hubHeartbeat.js`, `pollCoordinator.js`) | each poller's last success; the hub's row for this service | poll in turns, `/health`, a beat after each poll | the panel, the hub's table |
| Driver switch (`driverGroupSwitch.js`) | none here: a column the Wenze panel writes | on, off or unknown | PostgreSQL |

How an event travels: the coordinator calls `executePoll`; the poll skips the
ids it knows, asks the database about the others, marks them pending,
transforms and queues them; the consumer takes one alert at a time and calls
`broadcast`; the run writes a ledger row after every answer of Telegram; a run
that ends cleanly marks the event processed and, when the alert carried no clip,
writes a recovery row; a run that throws releases the pending mark, so that a
poll that is given the event again would take it up. Whether one is given it
depends on the cursor, which the poll has saved meanwhile.

What is hard here, and so what the properties are about:

- **interleavings**: a poll awaits the database while the consumer releases the
  same id; two commands of a chat overlap in Redis; a check of the settings is
  overtaken by the next one; a signal arrives while `start()` awaits;
- **partial failure**: one chat of three cannot be reached; a query that fails
  is answered like one that found nothing (`isEventProcessed`,
  `getEventDeliveries`, routing, the watermark);
- **crashes** between a send and the row that records it, between the cursor's
  save and the delivery of what it passed, between a claim and its outcome;
- **lost answers**: Telegram or Samsara did it, nobody knows;
- **limits**: the queue's, the seen set's, a page of 100, a window of 24 hours;
- **stale values**: a cached setting, a clip kept for a chat that comes later, a
  title or a link the hub edits between two queries of one resolution;
- **liveness**: an alert behind a failing one, a row whose worker died, a
  polling cycle without a timer, a service that restarts for ever, a key the
  panel saved that no poller takes up.

What makes each part correct: the queue never has an event in two places and
never loses the consumer; a chat gets an alert once, and again only where a
fault hid the first copy; the ledger tells the truth; an event is out of reach
of the next poll only when it was delivered or lost in one of a few named ways;
a recovery ends, never loses the alert, never asks a truck twice without
reason; standby is silent; the newest settings end up running; broadcasts reach
the chats that were told they are subscribed; captions and music are extras that
cost a driver nothing; the routing findings say how the last alert was routed;
`/health` reports a poller that has stopped and forgives one that has not.

## 2. The modules

`Faults` is shared: every failure is an action guarded by `Fault(kind)`, and a
configuration says which kinds may happen and how many of them (`FaultKinds`,
`MaxFaults`). Retries, restarts and interleavings are not counted; only what the
environment does wrong is.

A step of a model is the code from one await to the next. History variables
(marked `history` at their declaration) only record what happened; no guard of
a code action reads them.

**`AlertQueue`** — the poller's sets and its consumer. `poll` is where
`executePoll` is in its page (`lookup`: awaiting `isEventProcessed`;
`transform`: awaiting the transformation), `consumer` where `processQueue` is
(`broadcast`, the ledger mark, the timer). `Dropped` and `TransformThrows` put
an event into the history `stranded`: the code leaves its pending mark behind.

**`Broadcast`** — one `deliverEvent` run over an alert: load the ledger, find the
driver group, record the event, send to the notifications group and the
subscribers, read the switch, forward to the driver's group, then return or
throw. `run` holds the locals (`statuses`, `transientPending` as `retry`, the
sent messages as `sent`). `copies` counts what each chat really received, and
a chat's `Answers` are those and its refusal; `excuse` counts the faults that hid
an answer. The queue above it may start a run for an
event any number of times.

**`AlertService`** — `AlertQueue` and `Broadcast` in one process: the step that
takes an alert starts its run, the run's end is the consumer's next step, a
death ends both. Of the request it has the cursor: a page is of events ahead of
it, the page may come with a new one (`endCursor`), which is saved when the page
is done, Samsara may reject it, and a death may take it. The history `letGo` has
the events that left the process without being delivered. The module extends
`Broadcast`, and has the queue as the instance `Q` over variables of its own, so
that what is proved of the broadcast can be cited.

**`AlertContract`** is the abstract specification: copies, refusals, faults that
hide either (`hidden`), and events that are handled. A chat may be sent an alert,
or may refuse it, only while every answer it has given is hidden; so a copy after
a refusal needs a fault that hid the refusal. The run `alert_service` checks that
`AlertService` implements it under the mapping `hidden <- excuse`,
`handled <- processed`.

**`PollWindow`** — what a poll asks for and which position it keeps. A cursor is
the set of events behind it. `markRow`/`stateCache`/`mark` and
`cursorStore`/`cursorCache` are the stored and the cached values with every
failed read and write between them; queue and broadcast are one step, `Deliver`
or `DeliveryFails`. Both pollers are in it; a behaviour has one of them and the
actions test `poller` where they differ.

**`VideoRecovery`** — the rows and the workers. `rows[j]` is the table's row (due
and the age of the claim in place of timestamps), `work[w]` what a tick holds:
the rows as the claim returned them, the chat in hand, what was posted. The
events' re-read, the retrieval check and the media listing are one look. A claim
may grow older than ten minutes under its worker; the history `outlived` names
the jobs this happened to, and the properties a second worker can spoil leave
those out.

**`Routing`**, **`Captions`**, **`Overlay`** and **`DriverCopy`** — how the driver's
group gets its copy. `Routing` has `findGroupByUnit` by its awaits (links,
titles, findings) while the hub links, renames and dismisses; a title is a
class, holding the unit's number or also a name. `Captions` walks both chains of
models with each way an answer fails. `Overlay` has each await of
`prepareDriverVideoBuffer` and the job rows. `DriverCopy` extends the three and
runs the two lanes side by side, one alert after the other in each; a run that
is tried again is one more alert there, and `Broadcast` has only the outcome of
the whole.

**`PollHealth`** — the settings cache with its loads in flight, the two pollers
that refresh from it in turns, the verdict of `/health` and the beats to the
hub. It is the one module with a clock: a `Tick` is 15 seconds, the
coordinator's pause, and ages are counted in ticks up to a cap.

**`Runtime`** — the process: the boot read of the settings, `start()` by its
awaits, the coordinator, the recovery worker's interval, the watch with several
checks in flight, shutdown, standby, and outside it the hub that saves versions
and Coolify that holds the environment.

**`Subscribers`** — Redis calls as sent, executed and answered, in any number up
to `Calls`; the cache; the file; what each chat was last told.

**`MC*`** modules give the constants their values. **`AlertQueue_proofs`**,
**`AlertService_proofs`** (of `Broadcast` too), **`DriverCopy_proofs`**, **`PollHealth_proofs`**,
**`PollWindow_proofs`**, **`Runtime_proofs`**, **`Subscribers_proofs`** and
**`VideoRecovery_proofs`** hold the theorems.

The correspondence of every definition with source lines is in `PROJECT.json`
under `map`. Notes on what is translated how:

- `poller.js` has a debug switch that lets polls overlap; the models have the
  default, one poll at a time. The speeding poller's queue has the shape of the
  safety poller's; `PollWindow` has its windows and pages.
- A message falls back from both clips to the road camera's and to text
  (`FirstMedium`, `Fallbacks`); a refusal of the chat (403 and the other permanent descriptions of
  `classifyTelegramError`) ends them.
- The settings a version holds for this service are one value; a version under
  another `INTEGRATION_SECRET_KEY` hides it, and one whose ciphertext is broken
  does not open. `Breaking` values make `index.js` exit with code 78.
- A clip is its size: within the overlay's safe target, above it, or above the 50
  MB Telegram takes. ffmpeg ends with an output of some size or an error.
- An AI caption is standard, friendly, or broken: its tags do not parse. The
  model writes them so, or the cut at 900 characters opens one.
- Redis executes a call some time after it is sent and answers it some time
  after that, or never. A call that fails before it was executed and one whose
  answer is lost have the same effect in this process, so the first is
  `WriteFails` and the second is included in `WriteAnswered`.

## 3. The runs

Passing runs. The bounds are the smallest at which every hazard of the part
occurs: what has to happen is given beside them.

| Run | Shows | Bounds and why |
|---|---|---|
| `alert_queue` | sets and queue agree (`PendingAccounted`), one place per event (`OnePlace`), nothing processed comes back (`NoRedelivery`), queued alerts leave (`QueueDrains`) | 3 events, queue of 1, seen set of 2: overflow and eviction both happen; 2 faults |
| `broadcast` | copies are explained, the ledger is truthful, a clean run reached all, nobody outside the audience | 1 alert with and without two clips, 3 chats, 2 of which come and go, 2 faults: a lost answer and a lost write for one chat |
| `alert_service` | a processed event has reached its driver's group (`ProcessedReachedDriver`), the cursor passes no event unnoticed (`PassedIsAccounted`), the contract is implemented (`ContractSpec`), every event reaches the notifications group or is let go of (`EveryEventReachesGroup`) | 2 events, one of them without a group, pages of one or both, queue of 1 (it overflows), 2 chats, 1 fault, a rejected cursor among the kinds; a page that comes without a cursor is offered again, so runs repeat without a fault; fairness |
| `video_recovery` | `VideosExplained`, `AsksExplained`, `AlertNeverLost`, `CompletedReached`, `TerminalStays`, every recovery ends (`JobEnds`) | 2 workers, 1 event with two clips, 2 chats, 2 attempts, 2 faults, among them a claim that grows old under its worker; fairness |
| `poll_window` | cursors behind what was picked up, losses explained, what is on offer is delivered | both pollers, 2 events, pages of 1 (a full page), overlap 1, bootstrap 1, times 0..2 (an event may be older than a first window: `tooOld`), 1 fault |
| `runtime` | the cycle lives (`CycleAlive`), no settings are missed (`NothingMissed`), restarts do not loop (`NoRestartLoop`), the newest settings run (`NewestValuesRun`) | 2 versions (one may be superseded while it is read), 5 environments, 2 overlapping checks, 2 faults |
| `subscribers` | broadcasts reach the chats that were told so (`ListedWhenTold`) | 2 chats, 3 calls in flight (two commands and a list), both backends, 2 faults; chats and calls are symmetric |
| `driver_copy` | the findings tell how the last alert was routed (`FindingsCurrent`), music and size limits cost the group no clip (`ClipsKept`), every open job row has an owner or a fault (`JobsAccounted`) | 2 lanes at once, 2 groups (the link and the title may disagree), 1 edit by the hub, clips that fit and clips Telegram refuses, 2 Groq models and 1 Gemini model with 2 tries, 1 fault |
| `poll_health` | settings in use are recent (`AppliedIsRecent`), a stalled coordinator is reported (`StallReported`), the panel's last save reaches both pollers and the hub (`PanelApplies`), health comes back (`HealthRecovers`) | 3 rows (on, off, a key that does not open), cache of 3 ticks and 1 after a failure, threshold 3, grace 2, 1 save, 1 fault: a load, a slow poll, an error or a death each long enough to outlast each limit |

The recovery's batch is 1: rows of one batch are worked one after the other, and
what one of them does to the next is that it makes its claim older, which the
run has as `LockGoesStale`.

The ticks of `poll_health` shrink five minutes and more to three units: what
matters is the order of the limits, failed age < cached age, grace < threshold,
and that each is longer than a pause.

The type invariants also bound what the code bounds: the queue by its limit,
the attempts by their budget, the pages by their limit.

Deadlock is checked in every run except two, where the system rests as it
should: `runtime`, in a standby with no further save and no fault left, and
`alert_service`, once the cursor has passed both events and nothing is in hand.

Every property of these runs is violated by at least one small change of the
model that a slip in the code would make: a released mark that comes too early,
a transient error written as permanent, a cursor saved before its page is
scanned, and so on. These changed definitions stand directly before the
definition they would replace (`ReleasedEarly`, `TextFailsForGood`,
`FetchedAndSaved`, ...) and are used nowhere.

Violated runs, each with one property quoted from a document or a comment:
`failed_not_retried`, `backlog_lost`, `ai_caption_refused`; see section 6.

## 4. Fairness

Nothing is fair except what the runtime guarantees:

- an await is answered or fails, and a timer that was armed fires: weak fairness
  of the steps of a poll, of the consumer, of a worker, of `start()` and of a
  check. Samsara's, Telegram's and the database's *failures* are never fair, nor
  is a death;
- the recovery worker's ticks and the watch's interval come again, since
  `setInterval` repeats them until `stop()`;
- time passes over a claim and a due date (`VideoRecovery`);
- Docker starts a container whose process is gone, as `watch.js` counts on, and
  a shutdown ends (`Runtime`). The second is an assumption about what it awaits,
  the end of Telegram polling and the close of the HTTP server;
- `AlertService` assumes, with strong fairness, that an event still ahead of the
  cursor comes in a page again and again: the window of the next poll reaches two
  hours behind the watermark. Of an event the cursor has passed it assumes
  nothing, and `EveryEventReachesGroup` claims nothing once such an event was let
  go of. `PollWindow` has clock, window and page in place of the assumption, and
  says when it fails (`leftBehind`: a backlog longer than a page);
- `Deliver` is weakly fair in `PollWindow`: in `alert_service` an alert in the
  queue leaves it by a run that ends;
- in `PollHealth` queries are answered, timers fire, time passes, and a poll that
  does not fail succeeds in the end (`PollSucceeds`): failures and slow answers
  are faults, so there are finitely many of them.

Nobody is obliged to save settings, to subscribe, to edit a group or to upload a
clip.

## 5. The proofs

They hold for every number of events, chats, faults and retries, and every
length of the clock, under the named assumptions on the constants (`ASSUME` in
each module), which TLC evaluates in the runs.

`AlertService_proofs` works up a chain of inductive invariants, first of
`Broadcast` alone, where a run may start at any time:

- `TypeCorrect`: types, and the agreement of the run's position with what it
  holds.
- `CopiesExplained` (`DuplicatesExplained`). Not inductive: a copy may be in the
  chat before anything records it. `CountInv` counts answers, copies and refusals
  alike, against what is known (`AnswersCounted`): they are at most the excuses,
  plus one when the ledger, or the run about to write it, knows of one. It adds
  that the run takes a chat for unserved only when every answer there is excused
  (`StatusesHonest`), and that a message is attempted on an unsettled chat only
  (`ChatUndecided`).
- `LedgerIsTruthful`: `TruthInv` adds that the run's statuses tell the truth
  (`StatusesTruthful`), since the ledger is written from them.
- `DeliveredForEver` (`NeverDowngraded`), an action property of the upsert.
- `CleanRunDealtWithAll` (`CleanRunReachedAll`): `DealtInv` adds
  `TargetsFollowed`: a chat the run has decided to send to is still to be
  visited, in hand or settled, or the run is going to throw.
- `NobodyElse` (`OnlyAudience`): `AudienceInv` adds that what the list and the
  switches say was noted (`AudienceNoted`) and that the chats a run will still
  attempt may have the event (`VisitsEntitled`).
- `CleanRunDealtWithDriver`: what a clean run did for the driver's own group,
  which is not among its targets until the switch has answered. `DriverInv` adds
  that a group which is off was seen off (`OffNoted`), and `RouteFollowed`: past
  the lookup the run holds the driver's group or the lookup failed, and it ends
  without that group among its targets only when the group is dealt with or the
  run is going to throw.

and then of `AlertService`, for any pages, queue length and seen-set limit:

- Every step is one of the broadcast, or leaves its state alone
  (`ServiceRunsBroadcast`, from `ServiceSimulates`), so that its invariants are
  kept: `ServiceKeepsBroadcast`, `ServiceNobodyElse`. This needs `Linked`: the
  consumer awaits a broadcast exactly while a run is under way, about the same
  event. Otherwise a start could overwrite a run. `ServiceRunsQueue` is the
  same for the queue, to which a run that returns after its recovery row could not
  be written has returned like any other.
- `ProcessedIsDelivered` (`ProcessedReachedDriver`). Not inductive: an event is
  marked processed two awaits after its run ended. `HandledDealt` adds the
  consumer that is about to mark: what it holds has been dealt with, and "mark"
  is entered by a run that returned cleanly only.
- `PassedAreAccounted` (`PassedIsAccounted`). Not inductive: the cursor that is
  saved came with the page, some steps before. `CursorInv` follows it
  (`CursorFollowed`: what it would pass is in the rest of the page, delivered,
  held or let go of) and says that what a poll skips without asking was delivered
  (`SeenReached`), for which `HandledDealt` answers.
- `ServiceImplementsContract` (`ContractSpec`): under the mapping, an accepted
  answer, or one that is lost, is `Receive` or `ReceiveUnnoticed`, and a refusal
  is `Refuse`; they are allowed (`MayAnswer`) because `ChatUndecided` and
  `StatusesHonest` make every answer there, copy or refusal, an excused one; a
  ledger that could not be read, a failed write and a death are `Forget` of the
  answers nobody will know of; the mark is `Handle`, by `HandledDealt`. Everything
  else leaves the four abstract variables as they are.

`PollWindow_proofs`:

- `TypeCorrect`, `CacheIsHonest` (`CacheNeverAhead`), `CursorsAreBehind`
  (`CursorNotPastPickUp`, from an invariant that has the request and the answer
  in flight behind what was picked up, too).
- `LossesExplained` (`LossExplained`). The invariant `WindowInv` is the argument
  for the overlap: known watermarks are at most one overlap past every event
  that still waits (`MarksReach`), so the window under way starts before it
  (`StartReaches`), so its answer has the event or cut it off
  (`AnswerComplete`), and clock and marks are in order (`ClockOrder`).

`Subscribers_proofs`, for any chats and any number of calls in flight:

- `TypeCorrect`: types; only Upstash has calls in flight, and a call is about one
  chat exactly when it writes.
- `ListedAsTold` (`ListedWhenTold`), about a chat that is settled: none of its
  commands is in flight, and its last one did not fail, overlap another or die. It
  is in the shared list exactly when it was told so; in a list answer, if it was
  not written while that list was read; in the cache, unless that is one of those
  lists or none was read yet; in the file, where that is the store and its last
  write succeeded. Nothing is said of the excluded cases, in which the code may
  serve a chat otherwise (section 6). Not inductive: what the chat will be told is
  decided when Redis executes the write, and told later. `ListInv` adds that a
  write that calls itself alone is (`AloneIsAlone`) and any other has its chat in
  doubt, that what a lone write did lasts until its answer (`LoneWriteLasts`),
  that a list on its way shows the shared one but for the chats written since
  (`ListsCurrent`), and that the file, unless a write of it failed, is the cache
  (`FileIsCache`). A chat settles only by the answer to a lone write, so its
  reply and the shared list agree then.

`AlertQueue_proofs`, for any number of events, any limits and any interleaving
of poll, consumer and database:

- `TypeCorrect`; `PendingIsHeld` (`PendingAccounted`) and `HeldOnce`
  (`OnePlace`), proved together from `HeldInv`. Neither is inductive alone: an
  event is queued because its mark was absent, and the mark is absent because the
  event was in no place. `HeldInv` adds that the consumer is busy exactly while its
  flag is up (`ConsumerFlagged`), that an id the poll has looked up is not marked
  meanwhile (`LookupFree`), and that what is being transformed was not given up
  (`NotGivenUp`).
- `NeverRedelivered` (`NoRedelivery`): what is broadcast is not marked processed,
  unless a failed query said so.

`VideoRecovery_proofs`, for any number of jobs, chats, workers and faults, and
any batch:

- `BaseInv` is the types and, for each worker, the order of its lists: a chat is
  waiting, left without video, or posted to. `ClaimInv` is the claim: while it is
  young, one worker at most holds a row (`Holds`) and what it read is what the row
  says (`ClaimKept`). `TypeCorrect` and `EndsStay` (`TerminalStays`) follow.
- `OneVideo` (`VideosExplained`), from `VideoInv`: the row's targets, less the
  chats its holder has posted to and not written yet, have no video that is not
  excused.
- `OneRequest` (`AsksExplained`), from `AskInv`: a row that shows no request, and
  whose holder has made none, has none that is not accounted for.
- `NoAlertLost` (`AlertNeverLost`) and `EndIsTrue` (`CompletedReached`), from
  `ServedInv`: a chat that is missing from a row's targets, from a claim's, or from
  a worker's lists, has the video or is a group that was switched off. These two
  hold for claims of any age, because a stale claim only ever names chats too
  many.

`Runtime_proofs`, for any versions, values and number of overlapping checks:

- `TypeCorrect`; `CycleNeverDies` (`CycleAlive`); `StandbyIsQuiet`
  (`QuietUnlessLive`): coordinator, worker and watch run in a live process
  outside standby only.
- `NoVersionMissed` (`NothingMissed`) and `RestartsEnd` (`NoRestartLoop`), from
  `WatchInv`: nobody knows of a version that is not stored (`Known`); only a
  start that may restart has checks in flight, none of them about a version older
  than its own, and every version a start has tried is no newer than that
  (`Guarded`).

`DriverCopy_proofs`, for any groups, clips, lanes and faults:

- `TypeCorrect`. `ParsedGroup` and `Choice` take the greatest of a set of groups;
  that there is one is `Greatest`, from the well-foundedness of strict inclusion
  on finite sets.
- `JobsKnown` (`JobsAccounted`), by counting: each step of an overlay moves at
  most one row into or out of "processing", so the equality holds if the lane
  that moved is counted apart from the others (`LaneKeepsJobs`); `JobAtWork` says
  which points of an overlay hold a row.
- `MusicIsFree` (`ClipsKept`). Not inductive: a clip is dropped only at the end.
  `ClipsInv` adds that the form a copy is about to try is excused already
  (`FormExcused`), and that the overlay under way has the copy's own clip
  (`OwnClip`), which nothing it does makes too large (`NoGrowth`).
- `FindingsTrue` (`FindingsCurrent`). `FindingsInv` adds that a resolution nothing
  overlapped is alone (`CleanIsAlone`), that what it filed stands while it settles
  the others (`FiledStands`), and that only then may a second finding be open
  (`FindingsTold`).

`PollHealth_proofs`, for any thresholds, ages and overlapping loads:

- `TypeCorrect`; `StallSurfaces` (`StallReported`), since no success is younger
  than the cycle's last move (`SuccessNoYounger`).
- `SettingsAreRecent` (`AppliedIsRecent`). `RecentInv` follows a value from the
  row (`RowHeld`) into a load (`LoadsFresh`: the row held it no longer ago than
  the load has run) and into the cache (`CacheFresh`: since the
  row held it and until it expires there is no more time than the cache grants).

`DeliveredForEver`, `CacheIsHonest`, `StandbyIsQuiet` and the type invariant of
`Subscribers` are about definitions no run checks: they are one step from the
code, and serve the other proofs or the reader.

Only model-checked: liveness (`QueueDrains`, `EveryEventReachesGroup`, `JobEnds`,
`OfferedIsDelivered`, `NewestValuesRun`, `PanelApplies`, `HealthRecovers`), which
the prover cannot treat under fairness. Every other property of the passing runs
is stated by a theorem. The queue's own invariants are proved of `AlertQueue`
alone; in `AlertService` they are not stated again.

## 6. Divergences and observations

Divergences, each shown by a run:

1. `failed_not_retried` — a poll saves the page's cursor (`poller.js:432-434`) when
   the page is queued, and the next poll asks after it (338-339). An alert whose
   broadcast throws later is released, and lies behind the cursor: no poll asks for
   it again unless Samsara rejects the cursor or its file is lost. poller.js:152:
   "Delivery failed, will retry on next poll"; README.md:361: "the queue re-runs
   the event on the next poll"; docs/architecture/module-map.md:24: "A failed send
   is retried on the next poll", and so 129 and 146.
2. `ai_caption_refused` — the AI's text goes to Telegram as HTML, cut at 900
   characters wherever that falls, in every form of the driver's copy. When a tag
   is left open, Telegram answers 400 to all of them, a 400 counts as a refusal of
   the chat, and the alert is settled undelivered.
   docs/architecture/module-map.md:31-32: "an AI failure never blocks or crashes
   delivery."
3. `backlog_lost` — the safety poller reads one page of 100 and saves the end of
   the window as its watermark; with a longer backlog the older events past the
   page are out of the next window. README.md:27-28: "the bot picks up every
   event that occurred even if it was offline or restarting."

Observations met while modelling. The models have this behaviour; no run
isolates it:

- A recovery row has the messages of the run that finished
  (`broadcastDelivery.js:376`). Chats served by an earlier run that threw, where a
  later poll did find the event, are not in it and keep the text. README.md:58-60
  has the clip folded into the messages already sent, "the notifications group,
  every subscriber, **and** the matched driver group".
- An alert dropped from a full queue keeps its pending mark, so every later poll
  skips the event until the process restarts (`stranded`, `poller.js:121`).
- Whether a video is owed is decided from the alert (`broadcastDelivery.js:388`):
  one that carried a clip url gets no recovery row, also when no upload of the
  clip succeeded and the text went out, though `index.js:329-330` says "If it went
  out without video, record a DURABLE recovery job". No property covers it.
- A retrieval whose write failed is asked again at the next attempt
  (`videoRecoveryWorker.js:321`); README.md:50 has the clip "requested — once".
  The model counts these (`unrecorded`).
- `SEEN_IDS` outgrows its limit: ids of processed events enter it without
  eviction.
- A death, or a failed write, between Telegram's answer and the ledger row means
  a second copy; the same for a video and its outcome. `excuse` counts them.
- The last attempt of a recovery ends `no_video` by its own look, also when an
  earlier attempt brought the video to some chats.
- A worker writes an outcome by row id alone; after more than ten minutes on one
  claim it may reopen a row another worker has finished.
- Nothing clears the speeding poller's cursor once Samsara rejects it; every
  later poll asks with it and throws.
- What a restart lets go of lies behind the cursor too, where the cursor's file
  survives (`letGo` in `AlertService`, `released` in `PollWindow`).
- A lookup of the routing that fails looks like a vehicle without a group, and the
  driver's group misses the alert for good (`unrouted`).
- A watermark that cannot be read counts as none: after a pause longer than the
  bootstrap window, the events in between are gone.
- A signal during `start()`: shutdown stops what does not run yet and `start()`
  then begins to poll, until the process exits.
- After a start whose stored settings could not be opened, the watch is off, and
  a later good version is not noticed; README.md:297-299 has the service restart
  "within about a minute when a save changes one of ITS values".
- The comment in `watch.js` says of a start whose read failed that the watch
  "restarts it once, and that start succeeds"; while the boot read goes on
  failing and the watch's reads succeed, every start is followed by a restart
  (`NoRestartLoop` excuses it through `boot.retryable`).
- Overlapping checks may restart the process for a version that is superseded
  already; the start then reads the newer one.
- A version with an unreadable value takes the service back to Coolify's values;
  one that breaks `index.js` takes it down until someone pins or switches off.
- When Redis fails under `/start`, the chat is told it is subscribed, and the
  next successful list read drops it (`doubted`). The file is a store of its
  own, not a fallback under a failing Redis, as
  docs/deployment/pre-deploy-checklist.md:76 could be read.
- The safety poller's status has no `enabled` (`poller.js:533-541`; the speeding
  poller's has it), which `healthReport.js:65` takes for true. A service switched
  off in the panel does not poll, so after the grace, or five minutes after the
  last success, `/health` answers 503, though `healthReport.js:71` says "a
  deliberately disabled poller can never be "stale"". `HealthRecovers` is about a
  service that is switched on.
- A change in the panel takes up to the cache's five minutes, where
  `poller.js:27-31` says "within a cycle"; a key removed there leaves the pollers
  on the last one. Overlapping loads may put an older row back into the cache
  (`AppliedIsRecent` bounds its age).
- Without a Groq key Gemini is not asked either (`groqClient.js:68-77`, `197-199`),
  and Gemini is asked twice when its first call throws inside the try.
- `fallback_sent`, which README.md:209-214 lists among the job's outcomes, is
  written before the upload it is about; a dual clip's job may say `sent` although
  it went out without music.
- The limit of 50 MB is checked where alerts are sent and not in
  `videoBackfill.js:60-136`.
- Whether ffmpeg is there is asked once for the process's life
  (`safetyEventVideoMusicService.js:246-256`), and the music is cached by its
  asset's id alone (`63-65`).
- A finding that was filed for a unit number stays open once alerts carry a
  vehicle id, and resolutions that overlap may leave none open (`FindingsCurrent`
  excuses them).

## 7. What is not modelled, and why

- **Encryption**: a stored value opens or does not.
- **Formatting, geocoding and lookups**: data; each falls back to something that
  can be sent.
- **The prompts, the models' answers and their back-off times, the ffmpeg
  commands**: `Captions` and `Overlay` have the ways a call ends.
- **How a group's title is parsed, how media urls are found in an event**:
  `Routing` has the classes a title falls into, the alert its set of clips.
- **The speeding poller's queue and severity filter**: the queue has the shape of
  the safety poller's, the filter is data.
- **The cache in `safetyEventVideoSettings.js`**: three numbers of the recovery,
  constant in a behaviour.
- **The SQL and the columns** of safety events and of the schema setup.
- **The manual scripts**: run by hand, beside the service.

External, modelled from their use only: Samsara, Telegram, PostgreSQL, Redis,
the Wenze panel, the hub, Coolify, Docker.

## 8. The plan

Order of the modules: the path of an alert first (`AlertQueue`, `Broadcast`,
their composition and contract), then what may lose an event before it is an
alert (`PollWindow`), what comes after it (`VideoRecovery`), the process around
them (`Runtime`, `Subscribers`), the driver's copy (`Routing`, `Captions`,
`Overlay`, `DriverCopy`), and what the service says of itself (`PollHealth`).
These are done. Next:

1. The queue's invariants (`HeldInv` and what follows from it) stated and proved
   of `AlertService` too.
2. Larger instances: two faults in `alert_service`; a batch of two in
   `video_recovery`.
