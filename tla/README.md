# Verification of MADE, the market anomaly detection engine

This directory holds TLA+ models of the services under `src/services`, the TLC
configurations that check them on small instances, and proofs that TLAPS checks
for every value of the constants. The web dashboard and the live benchmarks are
modelled too, as users of these services. Paths below are relative to
`src/services/made-core/src/made_core` (*core*),
`src/services/api/src/made_api` (*api*) and `src/web-dashboard/src` (*web*).

## 1. The system

Collectors poll exchanges and publish normalized market events to a Redis
stream. A worker takes the events from a consumer group, keeps the latest quote
of every market in memory, runs the detection modules, aggregates their results
into an alert, stores the outcome in PostgreSQL, notifies a Telegram chat, and
acknowledges the entry. A REST API reads PostgreSQL and changes the settings of
the detection modules; the worker reads those settings back before each batch.

| component | state | operations | interacts with |
|---|---|---|---|
| Ingestion (core/ingestion) | none that is durable; rejected and failed items are logged | collect per source, normalize, publish one by one or as a batch | exchanges (HTTP), Redis (XADD) |
| Redis stream consumer (core/infrastructure/redis_consumer.py) | in Redis: the stream, the group's cursor, the pending entries list (PEL) with idle times, the dead-letter stream | initialize, read_batch (XREADGROUP), claim_stale_messages (XAUTOCLAIM), XACK | called by the worker |
| Worker (core/infrastructure/worker.py) | where its single asyncio task is; the batch; SnapshotCache | run, process_batch, process_message, sync_module_configs, stop | all of the others |
| Application pipelines (core/application) | HomonymBlacklist; the registry of modules; otherwise pure | process_event (validate, enrich, detect), process_pipeline_result_detailed (aggregate, correlate, prioritize, alert) | called by the worker, synchronously |
| Detection modules (core/modules) | thresholds, price ratio, reference price | detect, update_config | called by the pipelines |
| PostgreSQL storage (core/infrastructure/postgres) | processed_events, detection_results, aggregated_results, alerts, module_configs | persist_processing_result (one transaction), mark_alert_sent/failed, get_pending_alert_for_event, upsert_module_config | worker and API |
| Telegram notifier (core/infrastructure/telegram) | _funding_alert_cooldowns, in memory | send_alert: throttle, then up to telegram_max_retries + 1 attempts | the chat (HTTP) |
| Query API (api) | an in-memory copy of the module settings | lists with a total and a page, single rows, get_metrics, get_chart_history; update_module_config | PostgreSQL |
| Entrypoint (core/infrastructure/entrypoint.py) | the stop flag of the worker | start-up, purge of old rows, signal handlers, close | Docker, worker |
| Web dashboard (web) | the page and filters chosen, what is shown, the forms of the settings page | polling, paging, editing and saving settings | API (HTTP) |
| Experiments (src/experiments) | the position and verdicts of a benchmark | publish events, poll processed_events, restart the worker, classify | Redis, PostgreSQL, Docker |
| Migrations, compose files | the first rows of module_configs | run by hand (alembic) or not at all | PostgreSQL, deployment |

**What is hard.** Delivery is at least once: a step can raise or the process
can die between any two awaits, and what was done stays done. The entry is then
redelivered, to the same worker or to another, at least `pel_claim_min_idle_ms`
later, and after newer entries. The alert is sent after the commit and marked
after it is sent. The notifier throttles in memory, the snapshot cache and the
blacklist are in memory, so the result of an event depends on what the process
saw before. Two workers may handle the same event, and `session.merge` decides
by what it loaded earlier. An API request reads the tables with several
statements, each of which sees different commits; the dashboard shows answers
in the order they arrive; a benchmark draws its conclusions while the worker it
measures is restarted. `hazards` in `PROJECT.json` lists each of these at its
line.

**What makes each component correct.**

- *Consumer, worker, storage and notifier together:* no entry leaves the PEL
  before its event is stored (or dead-lettered); a stored alert that is not
  SENT always has a pending entry that retries it; SENT means delivered, unless
  the funding throttle suppressed the alert; nothing is sent before it is
  stored; SENT is final; everything published is acknowledged in the end.
- *Detection:* the result of an event reflects the latest quotes; a spread
  above the threshold is not missed; a homonym is muted only on evidence.
- *Aggregation:* the priority follows the documented boundaries, more anomalies
  never lower it, an alert is raised exactly when it is warranted.
- *Module settings:* what the API accepts reaches the worker's modules.
- *Ingestion:* a failing source or a malformed payload does not cost the
  others' events; what is reported as published was published.
- *Notifier:* `send_alert` returns only if the chat got the message or the alert
  was throttled; it keeps the worker waiting no longer than configured; it picks
  the topic of a module that raised the alert.
- *Query API:* what one request answers is consistent with itself and with what
  it answered before, although the worker writes in between.
- *Dashboard:* what a user typed is not overwritten by a poll; what is shown
  catches up with what is stored.
- *Benchmarks:* what they conclude is true of the worker, and a signal ends it.

## 2. Modules

| module | models |
|---|---|
| `RedisStreamConsumer` | the stream, group, PEL, idle times and dead-letter stream; the fragments `ReadBatch`, `ClaimStale`, `XAck`, `PublishDlq`, `XAdd` |
| `Alerts` | the vocabulary shared by storage, notifier and worker |
| `PostgresStorage` | `processed_events` and `alerts`; the two halves of `persist_processing_result` (what `session.merge` loaded, what the commit writes), the status updates |
| `TelegramNotifier` | the funding cooldown, what the chat received |
| `MadeCoreWorker` | composes the three: workers as processes, one action per await |
| `AlertOutbox` | abstract specification: store once, owe, tell, close, finish |
| `MadeCoreWorkerInv` | the inductive invariants |
| `AnomalyPipeline` | aggregation, priority and the decision to alert, as operators over the detection results of an event |
| `DetectionModules` | `detect` of the four modules, as operators over the snapshots of a symbol |
| `CorePipeline` | cache, blacklist and the execution of the modules, over the life of a process with failed attempts, redeliveries and restarts |
| `ModuleSettings` | the settings of the modules: API, table and worker |
| `Ingestion` | the cycle of the ingestion runner |
| `TelegramDelivery` | `send_alert` attempt by attempt: answers, waits, cooldowns, topics |
| `AlertCall` | abstract specification: what the worker may rely on when it awaits `send_alert` |
| `QueryApi` | the API's reads, statement by statement, while the worker writes |
| `Dashboard` | `usePolling`, the list pages and the forms of the settings page |
| `WorkerProcess` | the worker as a process: start-up, loop, signals, restarts |
| `BenchmarkRunners` | the live benchmarks, on top of `WorkerProcess` |
| `MC...` | values of the constants for TLC |
| `...Proofs` | theorems about the module of that name; those of `AnomalyPipeline` are in `CorePipelineProofs` |

The worker is modelled three times, at three levels. `MadeCoreWorker` has every
await and every call to Redis, PostgreSQL and Telegram, and takes what the core
computes as a choice from `Outcomes[event]`. `CorePipeline` has what the core
computes, and an attempt to handle an event is one step that may fail before or
after it. What the second needs of the first is that a failed attempt is
repeated later (`AckedIsSettled`, `PublishedIsAcked`) in any order.
`WorkerProcess` has the process around the loop, and of an entry only its commit
and its acknowledgement. In the same way `TelegramNotifier` has a whole call of
`send_alert` as one step, and `TelegramDelivery` what happens within the call.

### Worker, consumer, storage, notifier

The component modules own their variables and export fragments that change only
these; `MadeCoreWorker` conjoins them into steps. Its `pc` names the await a
worker is at:

| label | code |
|---|---|
| `down` | no process; `Start` is `run` up to its loop |
| `claim`, `read` | `process_batch`: `claim_stale_messages`, then `read_batch` |
| `check` | `process_message` up to `is_event_processed` and `get_pending_alert_for_event` |
| `persist`, `commit` | `persist_processing_result`: the SELECTs of its transaction, then its commit |
| `send` | `send_alert` |
| `markSent`, `markFailed` | `mark_alert_sent`, `mark_alert_failed` |
| `ack` | `_ack_message` |

`StepFails` lets every await raise, before its effect or after it (then it
follows the step that had the effect); `Crash` lets the process die anywhere;
`ClaimFails` is the one error that the consumer hides. What happens between two
awaits is one step, since a worker is a single asyncio task. Two queries of
`check` are one step because rows of `processed_events` are never deleted.

`Outcomes[event]` is a set of no alert, a price alert and a funding alert. Two
entries may hold the same event (`EventOf`), an entry may be undecodable
(`Malformed`). Time passes in ticks that age pending entries and cooldowns.

### Core pipeline

| action | code |
|---|---|
| `Publish` | an event enters the stream |
| `Finish` | `process_message` from `update_from_event` to the commit |
| `FailAfterCore` | the same, but the transaction fails: cache and blacklist keep what the attempt did |
| `FailBeforeCore` | `is_event_processed` raises, or an earlier entry aborted the batch |
| `Restart` | a new process: empty cache, configured blacklist |

Detection is exact integer arithmetic. A percentage is a pair of numerator and
denominator, and "above the threshold" a comparison of products (`PriceRatio`),
so that nothing is rounded that `Decimal` does not round. The order in which
the dict of the cache was filled decides which two of several sources are
compared; `place` keeps it. The blacklist is one object shared by the three price
modules, so what an earlier module adds silences a later one within the same
event (`Before`, `MutedFor`).

### Module settings

| action | code |
|---|---|
| `Load`, `Commit`, `InsertConflict`, `Answer` | `update_module_config`: the SELECT of `upsert_module_config`, its commit (SQLAlchemy writes the columns that differ from what it loaded), a failing INSERT, the API's own registry |
| `SyncQuery`, `SyncApply`, `SyncFails`, `Batch` | `sync_module_configs` before each batch |
| `RequestFails`, `ApiRestarts`, `WorkerRestarts` | faults |

Thresholds and ratios are integers, and the columns round them to multiples of
`ThresholdStep` and `RatioStep`, as `Numeric(28, 10)` and `Numeric(10, 2)` do.
Each of the worker, the API, the upsert and the seed has its own defaults.

`Init` has two tables. The worker creates the tables when it starts
(`initialize` awaits `create_tables`, worker.py:109) and puts no row into
module_configs: `CreatedTable`. Neither `docker-compose.yml` nor a Dockerfile
runs Alembic, so this is the table after the `docker compose up` that the
repository's README asks for. Where the migrations are run by hand before the first
start, `0002_module_configs.py:34` seeds a row per module: `MigratedTable`, with
the constant `Seed`. Rows are never deleted, so the two stay apart until every
module has had a request.

### Ingestion

One task per source: `Tickers`, for Binance futures then `FundingRates`, with
`Retried` and `GivesUp`; `Publish` when all are over (`gather`); `NextCycle` or,
after `Stop`, `Close`. A request for one asset on the DEXes is a feed of its own,
since each has its own retries. Its market is the asset's deepest pool
(`fetch_dex_ticker` sorts by liquidity), whichever exchange that pool is on. Of the
stream only the last entry of each market is kept: it is what is left in a
consumer's cache.

### Telegram delivery

| action | code |
|---|---|
| `Unconfigured` | `send_alert` raises at once, without a bot token or chat id (`configured`) |
| `Throttle`, `Begin` | `send_alert` up to its loop: throttle, cooldown, topic |
| `Post` | `client.post`, with any `Outcomes`: an error of the server or the network says nothing about whether the chat got the message |
| `Sent`, `Refused`, `GiveUp` | the ways out of the loop |
| `Unreadable` | an exception leaves the loop: a body that cannot be decoded, a redirect (httpx follows none), a page of a proxy, a success that does not say ok; the chat may or may not have the message |
| `Retry`, `WakeUp` | the wait, exponential or as long as `retry_after` asks, up to 30 s |
| `TimePasses`, `Dies` | cooldowns run on; the process ends and forgets them |

`copies` and `unheard` count, for the properties, what the chat got and what of
it the call was not told about.

### Query API

A statement is a step, since PostgreSQL runs at READ COMMITTED: `Count` and
`Page` are the two statements of a list request, `CountRows` one of the eight of
`get_metrics`, `ChartHistory` the one of a chart. A count is modelled by the set
of the rows it counted, so that properties can compare it with a page. A page
is ordered by descending timestamp, ties in any order (`IsPage`); timestamps of
overlapping transactions come out of order (`Overlap`). The time of the model is
finer than a second, and the duration of a chart is cut to whole seconds
(`Span`, with `Second` units to a second), as `int(total_seconds())` does. `walk` is a client that
turns pages (web/components/DataTable.tsx) or polls one again (`AskAgain`), and
opens rows it was shown (`Open`). The worker's side is `Persist`,
`MarkAlertSent`, `MarkAlertFailed` and `PurgeNormal`; `Legacy` are events of a
worker that still stored NORMAL results.

### Dashboard

`gets` are the polls on their way, any number up to `Slots` at once, answered
and delivered in any order. `form` is the form of one module, `put` the save it
waits for, `late` the saves that the client gave up (timeout, navigation) and
that the API may still handle. `edits` (what was typed and must not be lost)
and `asked` (what somebody chose) exist for the properties only. The API shows
numbers with two decimals (`ShownNumber`).

### Process and benchmarks

`phase` is where the process is: the three steps of its start-up (`__aenter__`,
the purge, the `initialize` of `run`), the loop, closing, or down. `Terminate` is
`docker compose restart`: the signal calls `stop`, whose effect `EnterLoop`
undoes if it came during start-up; then only `Kill` ends the process. The
benchmarks are scripts, one per behaviour: the restart trial, the deduplication
trial, the stages of a throughput test, the runs of a latency test. Their polls
are bounded by `MaxPolls`, after which they give up as the code does after its
timeout.

## 3. Runs

| run | instance | shows |
|---|---|---|
| `Worker` | 1 worker, 4 entries (e1, e2, e1, undecodable), batches of 2, 2 faults, fairness | no entry and no alert is lost, everything is acknowledged and sent in the end, and the worker implements `AlertOutbox` |
| `TwoWorkers` | 2 workers, 2 entries of one event, 1 fault | no price alert is lost when transactions and claims overlap |
| `FundingRetry` (violation) | 1 worker, 1 funding event, 1 fault | the retry is throttled by the failed attempt's own cooldown and marked SENT |
| `RejectedHead` (violation) | 1 worker, 2 entries, batches of 2, e1 rejected for good | the claimed batch always aborts at its head; e2 is never acknowledged |
| `CorePipeline` | 4 markets of one symbol, 4 events out of 8 quotes, 1 fault | no false alarm, no missed one, the blacklist is earned, wide spreads raise an alert |
| `ModuleSettings` | 2 clients, 3 requests, one of them with a ratio that is rounded to 1.00, 1 fault, both tables | concurrent requests last, and reach the worker |
| `PauseResets` (violation) | pause and resume of funding-spread, both tables | in the table the worker created, the first request for a module replaces its threshold by the insert's default; in a migrated one the threshold stays the seeded one |
| `Ingestion` | 3 markets, 3 feeds of which one is down, 1 retry, 2 faults | what is published is current, quotes arrive, a stop closes the runner |
| `TelegramDelivery` | 6 alerts, 2 calls, 2 retries, 1 end of the process, with and without token and chat | the calls implement `AlertCall`, bound the wait and fit the topic |
| `QueryApi` | an old event with a NORMAL row and 2 new ones, 7 list requests, 3 charts, walks of 3 pages | what pages, totals, breakdowns, rows and charts say about each other |
| `Dashboard` | 2 polls at a time, 3 acts of users and other clients, 1 failed request, fairness | typed values are kept, nothing is invented, what is shown catches up |
| `Benchmarks` | each benchmark with up to 4 entries, batches of 2, 1 failed start-up, failed batch or crash, fairness | conclusions are true of the worker, a signal ends its loop |

**Bounds.** *Worker:* two events are enough to have one that blocks, throttles or
races with another; an event published twice exercises the idempotency path;
batches of two make an abort leave an entry behind. Two faults allow a failed
delivery followed by a failed or crashed retry. `MinIdle = 1` and `Cooldown = 2`
let a retry fall inside and outside the cooldown. `DeliveryCap = 2` only has to
tell never, once, and again. `MaxFaults`, `NumMsgs` and `DeliveryCap` are the
only bounds on behaviours. *Core:* four events are two for a pair, one that
replaces a snapshot, and one more to be judged against the result; the quotes are
chosen at the boundaries (prices exactly one and a half thresholds apart, on
different scales, one and two freshness windows apart, with and without
funding, one crossed); `MaxQuotes` and `MaxFaults` bound the behaviours.
*Settings:* three requests are two that race and one before them to create the
row. The thresholds stand for the code's in their order only. The unusable ratio is of a module that is synced before the others. *Ingestion:*
one retry is enough to have a request that succeeds after a failure and one that
is given up; each market moves once. The stream is not bounded. *Telegram:* two
retries are a first, a middle and a last attempt; two calls let the first one's
cooldown throttle the second; the alerts take every branch of the routing, with
funding metrics that differ by less and by more than `MinChange`. *Query API:*
pages of one row and lists of three; charts of `ChartLimit = 3` rows, which
three events cannot exceed, so that cut charts are out of this instance (section
6); `Second = 2` makes half of the durations lose a fraction; `Overlap = 1` lets a row arrive behind the one that was first. *Dashboard:*
two polls can cross, a third adds no new order of two answers; three acts are
an edit, an edit during its save, and another client or a change of pages.
*Benchmarks:* two polls are one that finds nothing and one that decides; one
fault on top of the restart that a trial itself causes.

**Deadlock** is checked in every run but three: `CorePipeline` stops when
`MaxQuotes` events are stored, `Ingestion` when the runner is closed,
`TelegramDelivery` when `MaxCalls` calls are over and no cooldown is left.

**Fairness.** *Worker:* `FairSpec` assumes weak fairness of `Work(w)`, of which
exactly one step is possible at a time unless the task is inside `send` (an
answer arrives or not), and of time. The event loop schedules a task whose await
is over, and `docker-compose.yml` restarts the container (`restart:
unless-stopped`). Nothing is assumed about faults, which are bounded by
`MaxFaults`, or about publication. The liveness properties say what happens
after the faults have stopped. `RejectedHead` uses `QuietSpec`, which assumes
more: the clock (whose unit is the 60 s of `pel_claim_min_idle_ms`) ticks only
while the workers wait for new entries, and then again and again. Without it the
counterexample could be a worker that is slower than the clock.
*Settings:* the worker's loop goes on (`WorkerStep`); a client may stop anywhere.
*Dashboard:* the timer ticks, a request that is sent is answered, or given up,
and the browser delivers it; nobody has to save. *Benchmarks:* the worker's task
goes on when its await is over, and Docker starts the container again
(`WorkerStep`); nothing is assumed about a kill, so `StopEndsLoop` says that a
stop that found the loop needs none. *Ingestion:* every request ends, at the latest by the timeout that the collectors
configure; the publication ends, which assumes that a dead Redis connection
breaks, since the client has no timeout; sleeps end. A source that is down fails
every request and is not bounded by `MaxFaults`.

**What the violations mean.** Each contradicts a line of a docstring, comment or
document that `PROJECT.json` quotes with the finding. `OnlyAskedThresholds`
accepts the thresholds that modules start with, those of the seed and those that
a request named; the counterexample starts from `CreatedTable`. More places where code and
text differ, for which no run is kept, are in section 6.

## 4. Proofs

All theorems hold for every value of the constants that satisfies the
assumptions named in the modules: any number of entries, events, workers,
markets, clients, retries, pages, faults. Every invariant, action property and
refinement that a passing run checks is also the statement of a theorem. Each
inductive invariant was checked by TLC on the instance of the run before it was
proved. Where an argument counts (waits over attempts, rows over pages, sequences
taken from a set), induction is done as an argument about the least element of a
set of numbers, from the well-foundedness of `Nat` (`NatLessThanWellFounded`,
`WFMin`), since the provers cannot use an induction theorem that has a predicate
as a parameter.

`MadeCoreWorkerProofs`, for any number of workers:

- `TypeCorrect`: `Spec => []TypeOK`.
- `NoEntryLost`: `Spec => []AckedIsSettled`. It is not inductive: an entry is
  acknowledged at `ack`, and why its event is settled was decided some awaits
  earlier. `GroupInv` adds `TaskSettles` (by the position of a worker, how far
  the event of the entry it handles has come), `AlertRowsSound` (an alert row
  has its processed row), `RowsStillThere` (what an open transaction loaded is
  still there, since rows are never deleted) and `BatchesHandedOut`.
- `NoPriceAlertLost`: `Spec => []AckedWasNotified`. `NotifyInv` adds
  `BoundIsNotified` and `KindsAllowed`. With several workers a conflict makes
  the loser go on to `send`, and a stale `PENDING` may overwrite `SENT`; what
  survives all of this is that such an event is at `ack` only after the chat
  got it.

and for one worker (assuming `SingleWorker`, as deployed):

- `OwedAlertsAreRetried`, `SentPricesWereDelivered`, `DeliveredAlertsAreStored`
  (the chat gets only what is committed): from `SingleInv`, which
  adds `BatchesPending` (the entries of the batch stay pending until this worker
  acknowledges them) and `TaskKnows` (nobody else touches the rows of the event
  at hand between two awaits).
- `SentStaysSent`: the action property, from the same invariant.
- `WorkerImplementsOutbox`: `Spec => Outbox!Spec` under the refinement mapping
  in `MadeCoreWorker`; every action maps to a step of the outbox or a stutter.

`SingleWorker` is needed: with two, both may send the alert of an event that they
persisted together, so that the second delivery may come when the alert is SENT
already.

`CorePipelineProofs`:

- `PriorityMonotone`: an anomaly more or a larger ratio never lowers the
  priority, from the monotony of comparing fractions by cross multiplication
  (`FractionMonotone`).
- `CoreTypes`: the type invariant, which says in particular that the cached entry
  of a market is an entry of that market, and that everything cached was handed
  out. The other theorems rest on it and on `QuotesStay` (a step changes no quote
  that was published).
- `NoFalseAlarm`: `Spec => []AnomaliesAreReal`. Results are only stored by
  `Finish`, and the pair a module compares there comes from the context
  (`PairSound`), hence from two published, fresh quotes.
- `NoGroundlessMuting`: `Spec => []MutedOnEvidence`; both quotes of a mismatch are
  fresh for the same event, hence at most two windows apart.
- `MutedSymbolsSilent`: `Spec => MutedIsSilent`.
- `AlarmsAreExact`: `Spec => []NothingMissed`, and `WideSpreadsRaiseAlerts`:
  `Spec => []WideSpreadsAlert`. Both compare the system with a reference
  definition over everything published (`LastUpTo`). Their invariant
  `Undisturbed` says that as long as there was no fault the memory of the process
  agrees with that reference (`MemoryIsCurrent`: the cache holds the last quote
  of every market, the places of the dict are ordered as the markets first came,
  a symbol that was muted has two quotes on different scales) and that each
  stored result is the one the last quotes call for (`AsPublished`). The
  heart of the proof is that an event which `Decides` leaves the modules exactly
  one pair to look at (`TheOnlyPair`) and that nothing mutes it (`MismatchShown`).
  The two properties speak of events without faults before them, of symbols
  that stayed on one scale, and of modules that have one pair to compare. Of two
  futures markets the one quoted first is the first observation (`CameBefore`),
  so that they hold for every `ReferenceMode`.

`ModuleSettingsProofs`: `SettingsTypes`, the type invariant, inductive as it is
once what the requests and defaults are is assumed; `ConcurrentRequestsLast`,
`Spec => ConcurrentFieldsKept`, from an invariant on the types of the table and
of what a request loaded.

`IngestionProofs`: `IngestionTypes` and `NothingStalePublished`, from
`QuotesInOrder`: the last entry of a market is no newer than the quote at which
the cycle began, what a task holds was taken since, and nothing is ahead of the
source.

`QueryApiProofs`, from the inductive `QueryInv`:

- `TablesTyped`: the type invariant.
- `TotalsCoverPages`: `QueryInv` adds `CountStillThere`: what a list that rows
  never leave was counted with still matches when the page is read, so the page
  is cut from a set at least as large (`FS_Subset`, cardinalities of the skipped
  rows).
- `ShownRowsStay`: `RowsKept`: every row that was shown is still there, or was a
  NORMAL row of an older worker.
- `BreakdownsAreComplete`: `MetricsInOrder`: what one statement counted of alerts
  and anomalies is still there for the statements after it. The order of the
  statements matters: totals are read before their breakdowns.
- `WalksMissFew`: `Spec => []WalkMissesFew`. `WalkPlaced` says that some set of
  the rows the walk has to show has been passed over (`PassedOver`): it holds at
  least as many as the offset, or all; it is closed towards the newer rows; and of
  it no more were missed than rows left the list under the walk. `RowsMovedUp`
  and `PageMisses` count what one page adds: a row that moves up past the offset
  does so because one before it left.
- `DurationsCoverStreaks`: `Spec => []DurationCoversStreak`, from `ResultsStored`
  (every anomaly of a processed event has its row, and only anomalies have one)
  and what a chart's points are (`PointsOf`, `StreakStart`, `SpanCovers`). The
  duration in a chart is less than a second shorter than the streak
  (`CutToSeconds`), and no less: cutting loses a fraction of a second.

`TelegramDeliveryProofs`, from the inductive `DeliveryInv`, which adds to the
types that an answer belongs to the attempt it was given to, and that an answer
that says ok was given for a message the chat got (`AnswerInPlace`):

- `DeliveryTyped`, the type invariant; `CopiesWereUnheard`: within a call the
  chat gets a message twice only because an answer was lost; `TopicsFit`.
- `CallsWaitBounded`: `Spec => []WaitBounded`. `WaitAccounted` says that what a
  call has waited is explained by the attempts behind it, and the wait it is in
  by the next one. That the bound, a recursive function of the attempt, exists
  and is a sum (`SumsExist`, `LongestWait`) is shown by extending partial sums
  one attempt at a time.
- `DeliveryKeepsItsPromise`: `Spec => KeepsItsPromise`, the refinement of
  `AlertCall`. Only a call that returns promises a delivery; one that raises, or
  that an exception leaves, says nothing about it. The step that needs the invariant is `WakeUp`: past the last
  attempt the loop would fall through and return as if the message had been
  sent, but a call never sleeps after its last attempt.

`BackoffAssumption` says that the delays `BaseDelay * 2^n` are natural numbers,
which the provers do not find out about a power.

`DashboardProofs`, from the inductive `DashboardInv`: `EditsKept`,
`Spec => []UnsavedEditsKept`, for any number of polls at once; and
`NothingIsInvented`, `Spec => []NothingInvented`. For the latter `AllKnown` says
of every place where values are (the row, the form, saves on their way or given
up, answers on their way) that somebody chose them, or that they are what the
API shows of such a value; it needs that showing a number twice is showing it
once.

`BenchmarkRunnersProofs`, from `RunnersInv`, which joins an invariant of the
worker's process to one of each benchmark:

- `ProbesAreSeenByNewProcesses`: `RestartInv` says that a probe is in the stream
  only since a process of a later life is there, and `StoresAreBacked` that what
  is stored was stored by an entry that carries it.
- `SustainableRatesAreComplete`: `ThroughputInv`, by stage and position; the
  ids counted as persisted are the ids of that stage.
- `FirstRunIsTimed`: `LatencyInv`, that in the first run the entry just published
  is the only one with its id, and that later ids are not in the stream. It
  uses `IdAssumption`: the ids of a benchmark are numbered, and no event of
  ingestion has one.

**Left to TLC.** The eight liveness properties (`PublishedIsAcked`, `OwedIsSent`,
`SettingsReachWorker`, `QuotesArrive`, `StopCloses`, `CleanFormCatchesUp`,
`ListCatchesUp`, `StopEndsLoop`), since TLAPS cannot reason about fairness and
ENABLED; and the counterexamples of the three runs that expect a violation.

## 5. Possible extensions

1. Identity of events from ingestion to worker: an event published without its
   funding rate takes the id of the complete one (normalizer.py:98).
2. Proofs: the step from `MadeCoreWorker` to `CorePipeline` as a refinement of its
   attempts, so that what is proved of results holds of the alerts that are sent.
3. The longest duration of `send_alert` against `pel_claim_min_idle_ms`, in a
   composition of `TelegramDelivery` with two workers.

## 6. Not modelled, and divergences without a run

**Not modelled.** The redis consumer's own loop (`handle_message`,
`process_one_batch`, `run`), which nothing in the deployed service calls, and
`ingest_single` and `ingest_all` of the ingestion for the same reason. The text
and buttons of messages. The fields of a row that no filter compares. Rendering
and charts of the dashboard, and its other list pages, which poll in the same
way. The in-memory benchmarks, the trials that only probe a health endpoint,
generators, statistics and plots. More than one trial per throughput stage: the
model has one, and takes its verdict for the stage's. Of the migrations, all but
the rows that one of them seeds; parsing of the environment.
XAUTOCLAIM's scan limit (ten times COUNT): with a longer list of entries that
are not idle yet it may return fewer entries than the model. The Redis client
has no socket timeout: that a dead connection breaks is assumed.

**Divergences.** While modelling, these places were met where the code differs
from a text, or where what it does may surprise, and no run is kept:

- *Worker.* With two workers, an event that both persist is announced twice: the
  loser's IntegrityError is swallowed (repository.py:348) and both go on to send.
  The snapshot cache is updated before the event is validated (worker.py:240),
  in the other order than the repository's README.md:126, so a crossed quote
  that is rejected is compared with later events. It keeps the quote handled
  last (worker.py:59), so a redelivered older one replaces the newer, although
  worker.py:31 calls it the latest; `AnomaliesAreReal` shows that what is found
  is real all the same. A signal that arrives during start-up is forgotten
  (worker.py:322). `homonym_auto_blacklist` is without effect, since the modules
  call `HomonymBlacklist.add` themselves (futures_futures_spread.py:82).
- *Telegram.* The chat may receive a message several times within one call, when
  answers are lost. Text and topic of a message are chosen by different
  conditions and may belong to different modules.
- *Settings.* A ratio of 1.004 is accepted by the API and stored as 1.00, which
  `update_config` refuses in every sync; the modules after it are then not
  synced at all (`HeldBack` in `SettingsReachWorker`). The API shows the
  thresholds of its own registry (api main.py:47) for modules without a row.
  The seeded threshold of funding-spread is 0.01, that of the worker's
  environment 0.0005: after a migration the rows override the environment from
  the first batch on.
- *Query API.* A chart reads the 2000 oldest rows of its window
  (repository.py:681), so with more rows the "Latest spread percentage"
  (schemas/charts.py:37) and the duration are those of an older row.
  `DurationCoversStreak` is stated for charts that were not cut off.
- *Dashboard.* A save sends every field of the form, with numbers as they were
  rounded for display, and may so undo another client's change. What is typed
  while a save is on its way is taken for saved (ModulesPage.tsx:169). The
  timeout of a request ends before its body is read (client.ts:60).
- *Ingestion.* An event published without its funding rate has the id of the
  complete one, which the worker then takes for processed.
- *Benchmarks.* The ids of a latency test repeat from run to run, so on a used
  database its samples end before the event is handled;
  `FirstRunTimesItsCommits` is stated for the first run. The exit code of
  `docker compose restart` is not looked at. The deduplication trial passes
  without looking at the duplicate. An error of XPENDING counts as no backlog.
  INCONCLUSIVE cannot be reached.
