# Verification of the kline service

TLA+ models of `marketd`, the Go service that collects one-minute candles of
crypto markets, derives the longer timeframes from them, keeps both in MySQL and
corrects them against the exchanges' official REST history, and of the gap-fill
tool that works on the same tables. Paths below are relative to `src/`.

## 1. Inventory

| Component | State it keeps | Operations | Interacts with |
|---|---|---|---|
| Exchange adapters (`internal/exchange`) | none | parse WebSocket payloads, fetch REST history page by page | collector, guardian, corporate action worker, tools |
| Collector (`internal/collector`) | connections, shards, subscriptions, reconnect health | connect, read, resubscribe, rebuild, back off, shut down | calls `MarketService.IngestKline`; writes the symbol registry |
| Symbol snapshots (`internal/collector/symbol_snapshots.go`, `internal/storage/mysql/symbol_snapshots.go`) | records per symbol, one watermark per scope | fetch, reconcile, publish, record a failure | registry, guardian, gap-fill gate |
| MarketService (`internal/app`) | live bars, 1024 symbol locks, `latestVerification` | `IngestKline`, `VerifyFinalBars`, `RepairRollups`, `RepairFinalBars`, `Klines` | store, hub, observers (guardian, corporate action) |
| Aggregator, timeframes (`internal/aggregator`, `internal/timeframe`) | none | bucket arithmetic, roll-up of bars | MarketService, guardian, tools |
| Store (`internal/storage`, `internal/storage/mysql`) | bars with `verified_at_ms`, guardian states, audit tasks and cursors, corporate-action jobs, symbol snapshots | upsert, revise, mark, delete, lease, finish | everything |
| Guardian (`internal/guardian`) | 128 minute locks, request pacers, cursor and failed ranges of the 1D audit | rolling audit, day audit, retry workers, daily (1D) audit, gap detection on finals | store, MarketService, REST |
| Corporate-action worker (`internal/corporateaction`) | job rows, last bar and forward-support cache | detect a split, confirm, delete and rewrite history, audit anchors | store directly, without the symbol lock |
| Hub and API (`internal/realtime`, `internal/api`) | subscribers with bounded buffers | subscribe, publish, query | MarketService, browsers |
| Gap-fill tool (`cmd/gapfill_klines`, `internal/gapfill`) | plan, journal, progress on disk | plan, run, repair, resume | store, REST, snapshots |
| Monitoring, alerts (`internal/monitoring`, `cmd/health_watchdog`) | counters, alert states | evaluate, notify, recover | everything, Feishu |
| Other tools (`cmd/backfill_klines`, `cmd/maintain_klines`, `cmd/audit_kline_times`, `internal/timeaudit`, `internal/retention`) | plans on disk | backfill, prune, report | store, REST |
| Legacy Python (`src/crypto_ticket`), web client (`web`) | | | not part of `marketd` |

What is hard about it:

* **Two writers per minute.** A WebSocket final and the official REST answer for
  the same minute race; afterwards every derived timeframe must agree with the
  minutes. Locks cover the writers inside `MarketService`, not the corporate-action
  backfill or the tools.
* **Steps that are not one transaction.** Revision, cascade and mark are separate
  store calls; so are registration, cursor and execution of an audit task, or the
  insert and the journal line of a gap-fill task. The process may stop between any
  two of them.
* **Leases, watermarks and wall-clock time.** Tasks are leased for ten minutes;
  generations of official answers and watermarks of inventories are wall-clock
  milliseconds, and the clock may be set back.
* **Retention.** Minutes disappear after some days, in the middle of tasks.
* **Fail-closed inventories.** A missing or stale symbol snapshot must not
  acknowledge work or permit a repair.
* **Goroutines per connection.** Shards of two sessions, heartbeats, half-open
  connections, clients that stop reading or close while an event is being sent.

`PROJECT.json` lists the hazards line by line, each with the properties that would
catch it.

## 2. Modules

| Module | Models | Composes |
|---|---|---|
| `KlineStore` | rows of one symbol: 1m values, marks, derived rows | |
| `MinuteCalibration` | ingest of finals, execution of an audit task, backfill, crashes | extends `KlineStore` |
| `MinuteAuditLedger` | task rows and cursors, the store's operations on them | |
| `MinuteAuditGuardian` | the goroutines that register and work off tasks | extends `MinuteAuditLedger` |
| `CorporateAction` | split jobs and the forward-adjusting backfill beside the Guardian's repairs | |
| `DailyAudit` | the Guardian's 1D audit: recent days, rotation, retries, state row | |
| `SymbolInventory` | refresh, reconciliation and publication of an inventory; the planners that read it | implements `RepairGrants` |
| `RepairGrants` | abstract: publications under a watermark, and what may be repaired | |
| `Collector` | sessions, shards, subscriptions, heartbeats, backoff of one market | |
| `GapPlan` | the gap-fill planner and a reference definition of its targets | |
| `GapRepair` | runs of the gap-fill tool with workers, journal and resume | extends `GapPlan` |
| `Realtime` | publishers, hub, subscribers and WebSocket handlers | |
| `KlinePages` | `FetchKlines` of both exchanges, page by page | |
| `MinuteCalibrationProofs`, `MinuteAuditGuardianProofs`, `SymbolInventoryProofs`, `CollectorProofs`, `GapRepairProofs`, `RealtimeProofs`, `DailyAuditProofs`, `CorporateActionProofs` | TLAPS proofs | extend their modules |
| `MC*` | instances for TLC | |

Every module keeps one type invariant, `TypeOK`, as the documentation of its state.
Two runs check it, and theorems prove both for every instance. For the other
modules it holds in the same bounds but is not listed as a result.

### KlineStore and MinuteCalibration

`row`, `verifiedAt` and `roll` are the `bar_history` rows of one symbol: the final
1m values, their `verified_at_ms`, and the derived rows. A derived row is whatever
the CONSTANT `Rollup` makes of its sources. The instances use the free aggregator
(the derived value records what it was made of), so two derived rows are equal only
if every possible aggregator would make them equal.

`exec` holds the local variables of `executeLeasedMinuteTask`,
`repairTimeframeRange` and `verifySymbolMinutes`; its `phase` is the program
counter. `ws` is the same for `IngestKline`. `symbolLock` is the lock of
`lockBarSymbols`; `exec.phase # "idle"` is `minuteLock`. One step is one store
call:

| Action | Code |
|---|---|
| `IngestAccept`, `IngestConflict` | `acceptUnverifiedFinal` |
| `IngestWrite`, `IngestCascade`, `IngestReturn` | `persistFinalBars`, `rollupFinalBars(repair = false)` |
| `LeaseTask`, `RequestOfficial`, `AnswerOfficial` | `executeMinuteTask`, `repairTimeframeRange` up to the filtered answer |
| `VerifyBegin`, `VerifySame`, `VerifyRevise`, `VerifyStale`, `VerifyMark` | `VerifyFinalBars`, `verifySymbolMinutes` |
| `RepairCascade` | `rollupFinalBars(repair = true)` |
| `ReplayBegin`, `ReplayLevel`, `ReplayDone` | `RepairRollups` |
| `FinishTask`, `FinishLost` | `FinishMinuteAuditTask` |
| `BackfillDelete`, `BackfillWrite` | `Worker.backfill`, 1m rows |
| `IngestFail`, `RepairFail`, `Crash`, `ClockStep` | error returns, process exit, wall clock |

`confirmed` and `settled` are history variables for the properties only.
Because due times and lease lengths belong to `MinuteAuditLedger`, here a task may
be leased whenever `minuteLock` is free: a superset of the program's schedules. The
`repair_error` row of the guardian-state table, which can force a replay, is a free
choice in `LeaseTask`. A REST answer holds the values the exchange has when it
answers; minutes may be missing. `Spec` is the service alone; `BackfillSpec` adds
the corporate-action backfill, which ignores the symbol lock, and is what the
first two theorems are about.

### MinuteAuditLedger and MinuteAuditGuardian

A row's `next_attempt_ms` and `lease_until_ms` are kept as the facts asked of them
(`due`, `live`), and time makes them change. `pending`, `retry` and `blocked` are one
status: no operation tells them apart. Rows are named by their identity (kind,
start, end) where the code uses fresh ids, which allows more behaviours.

Workers: `audit` (`auditMinuteWindow`), `retry` and `daily` (`minuteRetryPass` of the
two groups), `days` (`MinuteDayAuditOnce`). Each ledger call is a step; between two
calls any other worker may run and the process may stop. Executions succeed or fail
(a fault). An execution outliving its lease is a fault too: its deadline of 8 minutes
is below the lease of 10, but waiting for a symbol lock ignores it. Rolling rounds
are at least one interval apart; a ticker catching up after a slow round is left out.

`inventory` is what the symbol's snapshots say: fresh, unavailable, or a fresh list in
which the symbol is not subscribed (delisted, halted, not active). It may return at any
time (`InventoryChanges`). The retry pass ends a row of an unsubscribed symbol as
`excluded`, for good, whatever happens to the symbol later (section 6); the history
variable `waived` records the minutes given up this way, and the properties except
exactly these, not the minutes of whatever symbol happens to be unsubscribed.

### CorporateAction

One Binance symbol with the 1m and 1D frames. A price is abstracted to the set of
splits it was multiplied with: a 1m row is such a set, a 1D row one for each of its
minutes, so a bar scaled as a whole and a bar rebuilt from adjusted minutes differ
exactly when the code's do. `job` is the `corporate_action_job` table (`due` stands
for `next_retry_ms` reached, or ten minutes without an update for a running row),
`worker` the locals of `processJob` and `backfill`, `audit` those of the minute or 1D
repair in progress. The worker writes to the store without `MarketService`'s symbol
lock, so every store call of either side is a step. `AuditedDay` are the days whose
1D audit runs.

The exchange may answer a timeframe with fewer bars than the window has, or with none
(`Answered`, `BackfillDelete(B)`). Then the code skips the timeframe, or deletes and
rewrites only what lies between the first and the last bar, checks what it wrote and
completes the job; a hole between the two is deleted and not rewritten. A day that a
split falls into is rebuilt from a second request for its minutes, which may be short
too. `exempt` is a history variable: rows an answer left out, and rows last written by an
audit that ran while a job did or built from such rows, until something rewrites them.

| Action | Code |
|---|---|
| `Detect` | `handleFinalBar`, `confirm`, the insert |
| `Due`, `JobStart`, `TimePasses` | `ListDueCorporateActionJobs`, `processJob`, `retryDelay` |
| `BackfillFactors`, `BackfillDelete`, `BackfillWrite`, `BackfillVerify` | `backfill`, `verifyStored` |
| `JobComplete`, `JobError`, `OutcomeLost`, `BackfillFails` | the ends of `processJob` |
| `AuditMinutes` ... `AuditMark` | `verifySymbolMinutes` and its cascade |
| `AuditDay`, `AuditDayLoad`, `AuditDayRepair` | 1D `repairTimeframeRange`, `RepairFinalBars` |

### DailyAudit

One symbol, days as numbers. `row` tells whether the stored 1D row is the official
one, `behind` the days whose weekly and monthly rows were not rebuilt since. `cursor`
and `retries` live in memory, `state` is the `kline_guardian_state` row. Passes
exclude each other (`dailyRunMu`), so the repair of one request is one step whose
disjuncts are the exits of `repairTimeframeRange`
(`NotListed`, `RestError`, `RepairEmpty`, `RepairStops`, `RepairBreaks`,
`RepairIncomplete`, `RepairEnds`). Ranges longer than `maxNoTradeDayChecksPerRange`
are audited piece by piece (`AuditPieces`, `AuditPiece`, `AuditPiecesEnd`).
`covered` is a history variable: the days of the last three rotations, forgiven
after a restart or a skipped pass. The cascades of minute repairs, which write 1D rows
too, are left out here; `CorporateAction` has both writers.

### SymbolInventory and RepairGrants

One scope (exchange and market type). A refresher is one process running
`RefreshOnce`; two of them overlap during a deployment. Its steps are the store
calls: `Fetch`, `ListPrevious`, `ReconcileStep`, `SaveLock` (the sync row is locked
and a stamp older than the last attempt refused), `SaveCommit` (records and watermark
become visible together), `RecordFailure`. A planner reads the records (`ReadItems`)
and then the watermark (`ReadSyncs`), as `loadRepairEligibility` and the gap-fill
gate do; `Permitted` is `permits` and `SymbolSnapshotRepairSkipReason`. Answers are
cut short, statements fail, processes die, the clock steps back.

`RepairGrants` says what the inventory promises to code that repairs history: the
watermark never moves back, and a repair is granted only to symbols that an inventory
published under the current watermark lists as tradable, and only while the last
refresh did not fail. Its variables are `watermark <- sync.success`,
`usable <- (sync.status = "ok")`, `published` (a history variable) and `granted`.
Publications of the same millisecond share a watermark, so the abstract state keeps
a set of them. `GrantsRefined` is the refinement, model-checked and proved.

### Collector

Loop 0 is `runExchange` with the dynamic connection (OKX) or the watch of the static
shards (Binance), loops from 1 are the shards; each has its program counter,
connection, heartbeat, age and delay. `wire` is what the exchange streams on a
connection. Shards are dealt round robin (`Shard`), subscriptions go out in chunks
(`Chunks`). A connection dies noticed (`closed`) or unnoticed (`dead`, ended by the
read deadline). The markets do not share state, so one is modelled; what a message
carries belongs to `MinuteCalibration`.

### GapPlan and GapRepair

`GapPlan` is the planner for one series: candidates per kind of gap, the boundaries
of listing, retention and last closed bucket, the greedy cut into tasks that fit one
request; and beside it `Fillable`, the reference definition it is compared with.
`GapRepair` executes a plan: `Start` with or without `-retry-unresolved`, workers
with `Take`, `Gate`, `ReadKeys`, `Fetch`, `Insert`, `Verify`, `Record`, retries of
transient errors, the circuit breaker, safety stops, interrupts, a kill at any step
(which may tear the journal), an append or sync that fails with the line written, in
part or not at all, an insert whose commit took effect although it failed; and beside
it the live service writing the same rows, minutes expiring and policies changing.
`review` stands for the corrections of the symbol: a task whose first retained key lies
before the last one ends as `adjustment_history_requires_review` in every run, however
often the tool is started; the same guard above all keys is a market without a verified
route. Keys are read as the store gives them, final rows only, so that a row the live
service has not finished is fetched, skipped by the insert and reported `partial`. The
`already_present` count of a dry run, which the properties bound for real runs, is left
at 0.

### Realtime

Publishers take their symbol's lock, store a final, then publish `kline`, `ticker`
and roll-up events through `Hub.Publish`: sequence number, read lock, one subscriber
after another, non-blocking send. A handler per client has a reading loop (`Subscribe`,
`Acknowledge`, `ReaderEnds`) and a writing loop (`TakeEvent`, `Ping`, `Written`,
`WriteFails`, `HandlerStops`, `Unregister`, `CloseChannel`). A client may stop reading
for ever: `Written` and `Acknowledge` have no fairness. Live bars are published or
skipped for want of subscribers; that `buildLiveRollup` may fail or have no bar to give
is left out.

### KlinePages

One call of `FetchKlines`: the page loops of Binance (upwards, `BinancePage`) and OKX
(downwards, `OKXPage`), limits, cursors, the recent and the history endpoint, the
retries of `doKlineGET`, `ErrUnsupportedKlineAdjustment` and the final sort and trim.
The exchange may lack a bar, hold a row the parsers drop, answer short pages; bars
close between two requests.

## 3. Runs

| Run | Bounds | Shows |
|---|---|---|
| `MinuteRange` | 2 minutes, buckets A over both and T over A, 2 values, tasks window, daily and one conflict per minute, 1 failure | the first minute does not close its bucket, a cascade has two levels, a loop visits two bars, a failure or crash falls between any two store calls |
| `MinuteFaults` | 1 minute, A and T, tasks daily and conflict, clock 1..2 that may step back, 2 failures or crashes | repeated failures of the same work, stale generations; the daily pass ends, stale derived rows are repaired |
| `MinuteAuditWindow` | 6 minutes, retention 4, 2 failures or losses of the inventory, workers audit and retry | nothing behind the cursor is forgotten, interrupted work is replayed, leases are exclusive |
| `MinuteAuditDays` | 8 minutes, days of 2, retention 4, listing at 4, 1 failure, workers days and daily | the same for settled days; registered days leave the backlog |
| `CorporateDayAudit` | days of 1 and 2 minutes, a split inside the second day and one after it, 1 attempt, 1 failure; the 1D audit visits the first day | crossing and preceding bars, answers without minute 2, without any day, or with a part of the crossing day; a job that fails, dies or loses its outcome and gives up, two overlapping jobs, minute and 1D audits beside them; jobs end |
| `CorporateMidday` | the same days and the split inside the second, no failure; the 1D audit visits both | *violated*: see section 6 |
| `DailyPieces` | 2 recent of 6 days, blocks of 2 days, requests of 1 day, 4 passes a day, a listing day that is known or not, a quiet day, two days that close, 2 failures, short answers or restarts | a range is cleared only when all of it is right, unchecked ranges stay remembered, the rotation leaves no day out, every wrong day is repaired |
| `SymbolRefresh` | 3 symbols of which one changes, 2 refreshers, 1 planner, clock 1..2, 1 failure or step back | grants refine `RepairGrants`; the inventory converges to the list |
| `CollectorSession` | 3 symbols in chunks of 2, both kinds of adapter, 3 changes of the list, 3 failures, delays 1, 2, 4 | sessions never overlap, cover their symbols, keep their backoff, converge and end |
| `GapfillRuns` | all plans of 3 buckets; 2 of them executed by 2 workers, 2 attempts, circuit 2, 1 failure, 1 event beside the tool, a correction in bucket 2 or none | plans are exact, rows are only inserted, nothing is forgotten, counts are honest, what can be filled is |
| `RealtimeHub` | 2 publishers, 2 symbols, 2 bars, 1 client with a queue of 1, 1 failed write | no panic, order, nothing missed unnoticed, nobody waits for a client |
| `KlinePaging` | 6 bars, pages of 2 (3 on the recent endpoint), 33 requests, a missing bar, an unusable row, 2 failures or short pages | answers without holes, complete where promised, loops that end |

The bounds are chosen so that the cases above occur: each property has a mutant in
`PROJECT.json` that breaks it within the same bounds. `MinuteRange` uses the symmetry
of the two bar values; no run with liveness uses symmetry. The guardian runs switch
deadlock checking off: at the last minute of the model, with nothing due, the workers
really wait for the clock.

Properties, in the words of the code:

* `VerifiedBacked`: `MarkMinutesVerified` never blesses, and no writer leaves,
  values other than the last official answer applied. The run checks it without the
  backfill, the theorem with it.
* `VerifiedProtected`: a verified row changes only by a revision not older than its
  mark.
* `StaleRollupHasWork`: "A failed or interrupted chain is replayed by the persistent
  minute audit task" (`internal/app/minute_verification.go`).
* `AckMeansReconciled`: "A task is acknowledged only after official validation,
  source writes, verification markers and cascades return"
  (`internal/guardian/durable_minute_audit.go`); for a replayed task this means the
  whole range is verified and every bucket inside it correct.
* `DailySettles`, `StaleRollupRepaired`, `BacklogDrains`: the liveness side.
  `BacklogDrains` is checked for settled days; downtime gaps go through the same
  retry worker.
* `CursorCovered`: the cursor is a registration watermark: whatever is behind it was
  checked, is in the ledger, is excused by retention or listing, or was given up
  when a row was excluded because the symbol was not subscribed then.
* `ReplayNotForgotten`: an interrupted range keeps its need for a replay through
  expiry, remainders and deferral.
* `LeaseExclusive`: a late finish of a previous holder changes nothing.
* `AdjustedWhenQuiet`: once no job is outstanding and the last one completed, every
  row of both frames carries exactly the splits after it, except rows written by an
  audit that overlapped a job (the code does not order the two) and rows the answer to
  the job left out, as long as nothing has rewritten them.
* `JobsEnd`: a confirmed split is completed or given up.
* `ClearedDaysRight`: a 1D range audited without an error is right and so are the
  frames above it.
* `FailureKept`: the remembered failure survives until a range that covers it is
  audited.
* `RotationCovers`: block arithmetic against a window that moves by a day at every
  close. Two days close in the run, and its last passes are those of the fourth
  rotation, when nothing is forgiven any more: the day on the seam is then covered by
  the earliest of the three rotations only (with two rotations instead of three the
  property is violated in the same bounds). It is not true of every configuration:
  with 2-day blocks, a 5-day lookback and one pass a day the blocks and the days move
  in step, and a day is passed over again and again. `BlockCount <= RecentDays *
  PassesPerDay` is enough for it (section 4); that configuration misses it by one block,
  the run (3 <= 8) and the defaults (7-day blocks, 300 days, 24 passes a day: 43 <= 168)
  meet it.
* `WrongDayRepaired`: the liveness side.
* `GrantsRefined`: the refinement of `RepairGrants`; a planner pairs records and
  watermark of two statements.
* `InventoryConverges`: once the exchange's list and the faults rest, exactly the
  tradable symbols are tradable, unless the list is one the shrink guard refuses.
* `OneStreamPerSymbol`, `SessionCovers`: a symbol is streamed once, and a live
  connection streams what its loop stands for, less what the exchange refused.
* `BackoffKept`: "A successful handshake alone must not erase repeated short
  connection failures" (`internal/collector/collector.go`).
* `CollectorConverges`, `ShutdownCompletes`: half-open connections, changed lists,
  waiting readers.
* `PlanExact`: the tasks of every audit cover the reference definition's buckets,
  each once, within one request, under distinct journal keys.
* `InsertOnly`: "never ... updates existing primary keys": what changes a stored row
  is the live service finishing its own.
* `NothingForgotten`, `CountsHonest`: what the journal says against what the table
  holds, through kills, commits that failed late and rows of the live service.
* `EventuallyFilled`: repeated runs store every retained target with official data,
  but for the tasks that a correction leaves to a person.
* `NeverPanics`, `BarsInOrder`, `AckedNotMissed`, `FinalsStored`: what a client sees,
  against closing channels, full queues, concurrent publishers and failed writes.
* `PublisherNotBlocked`, `SubscriberReleased`: nobody waits for a client for ever.
* `HoleFree`: the corporate-action worker deletes everything between the first and
  the last bar of an answer, so an answer may leave out nothing in between.
* `AllReturned`, `Terminates`: completeness, with the exceptions the loops really have
  (section 6), and progress of every page.

### Fairness

Goroutines in the middle of their work go on (weak fairness). `minuteLock` and the
symbol lock are `sync.Mutex`es; a waiter of more than a millisecond puts the mutex
into starvation mode, which is FIFO, so whoever keeps asking obtains them (strong
fairness on `VerifyBegin`, `ReplayBegin`, `ExecLock`). The row lock of the sync table
is granted in order too (strong fairness on `SaveLock` and `RecordFailure`). Retry
workers poll forever and list the oldest due rows first (strong fairness on leasing
and listing). The clock advances, the job poller (one goroutine: a step of the running job or the
start of a due one), the hourly ticker and the snapshot ticker run, retry times and read
deadlines are reached, the HTTP client has a
timeout. The operator of the gap-fill tool is assumed to start it again with
`-retry-unresolved`. Nothing is assumed of finals, revisions, messages, clients,
failures or crashes; the number of failures is bounded by `MaxFaults`, because no
liveness holds if every call fails forever.

## 4. Proofs

For every value of the constants that satisfies the named assumptions. Each inductive
invariant below was first checked by TLC as an invariant of the run's instance. Most
assumptions only give the constants their types. The ones that say more, and why the
code justifies them:

| Assumption | Says | Because |
|---|---|---|
| `SourceAssumption` (`KlineStore`) | no set of buckets is built only from itself | a derived frame is built from a shorter one (`RollupSourceTimeframe`), down to minutes |
| `DayAssumption` (`CorporateAction`) | a day is an interval of minutes, days are disjoint | calendar days |
| `ListingAssumption`, `QuietAssumption` (`DailyAudit`) | a listing time is 0 or the first day; days without trades come after it | `listed_at` is optional, an exchange has no rows before it |
| `PlanAssumption` (`GapPlan`) | the buckets of a report are finitely many | a report lists them |
| `RealtimeAssumption`, `NoEventAssumption`, `NoResultAssumption` | the markers `Free`, `NoEvent`, `NoResult` are no publisher, event, result | nil differs from every value |
| `WorkerAssumption`, `ConfigAssumption` (`MinuteAuditGuardian`) | the goroutines are the four the Guardian starts; windows and chunks are not empty; the service starts more than a window after minute 0 | minute 0 is 1970; sizes are raised to a positive default |

`MinuteCalibrationProofs`:

* `TypeCorrect`: `BackfillSpec => []TypeOK`. It contains that derived rows are only
  built from complete sources.
* `VerifiedAlwaysBacked`: `BackfillSpec => []VerifiedBacked`. `VerifiedBacked` alone
  is not inductive: whether a mark is sound depends on what the loop of
  `verifySymbolMinutes` has read and collected. The invariant `Backing` adds
  `LoopOnly` (something to visit or to mark exists only inside the loop),
  `OnlyAnswered` (only answered minutes are visited and marked), `ReadStillValid`
  (a verified row not yet visited either still has the loaded value or was deleted
  since) and `MarkConfirmed` (what is collected for marking was confirmed with the
  answer). The proof has one step per action; steps that touch neither rows nor loop
  go through `QuietStep`, `ReturnStep` and `LoopStep`.
* `VerifiedRowsProtected`: `Spec => VerifiedProtected`, from type correctness. It is
  false under a backfill, which deletes verified rows, hence `Spec`.
* `StaleAlwaysHasWork`: `Spec => []StaleRollupHasWork`. A derived row goes wrong in one
  store call and is put right in another, with failures and crashes between them, so
  the property rests on who is responsible in the meantime. `WorkInv` says: who holds
  the symbol lock and what its holder is doing (`Held`, `LockHeld`); what the executor
  asked and what it has yet to visit (`Asked`, `Queued`, `Marking`, `Marked`); that rows
  do not go away, so that a derived row keeps complete sources (`Solid`); that the replay has a
  set of buckets it is done with, closed under sources, each of them correct
  (`Replaying`); and `Worked`, the property for every bucket with the step that will
  repair it. The set in `Replaying` is why the sources have to be well-founded.
* `AckAlwaysReconciled`: `Spec => AckMeansReconciled`, an action property, from the same
  invariant: when the replay has reached its end, the set it is done with contains every
  bucket of the range.

`SymbolInventoryProofs`:

* `InventoryTypes`: `Spec => []TypeOK`.
* `InventoryRefinesGrants`: `Spec => GrantsRefined`. That the watermark never moves
  back needs `Ordered`: a refresher about to commit holds the lock and a stamp not
  older than the last attempt, and the last attempt is not older than the last
  success. That grants are covered needs `AllVouched`: every record, stored or in a
  planner's hands, is stamped no later than the watermark, and one that carries the
  watermark and is tradable is listed by a publication under it; a commit keeps this
  because all records of a batch carry its stamp (`Stamped`). `VouchedKept` is the
  heart of it: a later watermark makes old records harmless, the same watermark keeps
  its publications.

`MinuteAuditGuardianProofs`:

* `LeasesEndByHolder`: `Spec => LeaseExclusive`. `StepShape` reduces every step to what
  it does to the rows: nothing, a registration, a lease, the passing of time, or
  `Ends`, the call with which a holder gives its row up. Only the last can end a lease
  (`EnqueueKeeps`, `LeaseKeeps`, `TimeKeeps`), and `FinishOwn` shows that it ends no
  other: the pruning removes terminal rows only. The two facts it needs of a state are
  that rows have a status and that every worker has a job.
* `CursorsForgetNothing`: `Spec => []CursorCovered`. Rows come and go (done rows are
  pruned, a new range replaces its remainder, a restart drops what workers hold), so
  the invariant says what becomes of each: a terminal row is handed on (`Gone`), the
  plan and the deferred remainder a worker carries stand for the rows they came from
  (`Workers`: `Deferred`, `Picked`, `Plans`), and a group is responsible for minutes as
  soon as its cursor is saved (`Starts`).
* `ReplaysNeverForgotten`: `Spec => []ReplayNotForgotten`. The property is not inductive:
  a row that was never attempted may complete without a replay, and when
  `minuteRetryPass` registers a remainder under the identity of an existing row, the
  existing row wins, replay or not. `ReplayInv` therefore asks for more of the row that
  covers a dirty minute: it is `Sure`, that is outstanding, not `Young` (never attempted,
  or in a first run that does not replay) and not `Superseded` (a daily row of which a
  remainder has already completed). A sure row stays sure until it is replayed or passes
  its minutes on (`SureKept`, `SurePasses`). That a remainder never meets a young row
  is a matter of the ranges the planners register: `Shapes` (lengths, and day
  boundaries for daily rows), `Youngs` (young rows are whole windows or downtime tasks
  behind the cursor), `Apart` (no downtime row with the same end starts before a young
  one), `Nested` (of two daily rows with one end the later starts no later than the
  retained range), and what the rolling audit and the day scheduler carry between their
  calls (`Planned`). The rest says who does what: one execution at a time under
  `minuteLock` (`Locked`), each worker its own kinds of rows (`Role`), a running
  execution has its replay secured in case it is cut short (`Runs`), the daily worker
  executes nothing superseded (`Current`), and an expiring row has handed its minutes
  over before it ends (`HandsOver`). TLC checked `ReplayInv` on four instances
  (windows, days, a day of three minutes, all four workers; 476 936 to 2 245 342
  states) before it was proved.

`CollectorProofs`:

* `StreamsNeverOverlap`: `Spec => []OneStreamPerSymbol`. The invariant adds that the
  round robin of `shardSymbols` gives no symbol to two shards (`PartsDisjoint`), that a
  shard streams only its part and nothing while it is offline (`ShardWires`), and that
  shards exist only while `connectStaticStreams` watches or drains them, so that a new
  division never meets a connection of the old one (`Sessions`).
* `SessionsAlwaysCover`: `Spec => []SessionCovers`. Half of it is arithmetic: the lemmas
  `Division` to `ChunksDivide` show that the round robin over as many shards as the
  chunk size asks for reaches every symbol and overfills no shard (`ShardsCovered`). The
  other half says that what a dynamic connection streams and the requests it has still
  to send together make what is wanted, less what was refused (`Requests`).
* `BackoffNeverErased`: `Spec => BackoffKept`, an action property. Its invariant `Ripe`
  says that a connection counts as stable only once it reached the reset age.

`RealtimeProofs`:

* `HubNeverPanics`: `Spec => []NeverPanics`. A publisher visits only registered
  subscribers while it holds the read lock (`Visiting`); a subscriber's channel is
  closed only after it left the hub under the write lock, and it does not return
  (`Leaving`).
* `HubKeepsOrder`: `Spec => []BarsInOrder`. A publisher keeps the symbol's lock from the
  acceptance of a bar to its last send (`Turns`), so what it still has to announce is
  newer than everything announced (`Announced`, `Past`, `Newest`).
* `HubAnnouncesStored`: `Spec => []FinalsStored`. What a publisher is about to announce is
  already stored (`Work`).
* `HubMissesNothing`: `Spec => []AckedNotMissed`. An acknowledged channel is in the filter
  of a registered subscriber (`Acks`), and an event numbered since is handed over, counted
  as dropped, or in the hands of a publisher that still has the subscriber to visit
  (`NotMissed`).

`GapRepairProofs`:

* `NeverUpdates`: `Spec => InsertOnly`, for every audit, plan and number of workers,
  whatever the plan looks like. The invariant `KInv` follows the keys from the plan
  through the queue to what a worker kept, still needs and fetched, and says that only
  an applying run reaches an insert.
* `TargetsNeverForgotten`: `Spec => []NothingForgotten`, and `CountsNeverExceed`:
  `Spec => []CountsHonest`. `RInv` adds what a result may say of the rows (`Sheets`), that
  the journal and the results in memory say it (`Journals`), that the result a
  queued task had when its run began may be merged into (`Queues`), and that a worker's
  task is its own and what it has kept and counted so far makes its result right
  (`Carries`). Counts are cardinalities, hence the finite set of buckets.

`DailyAuditProofs`:

* `ClearedAlwaysRight`: `Spec => []ClearedDaysRight`. Besides the property the invariant
  `DInv` says that only closed days are audited (`Closed`) and that the pieces of a range
  done so far are right (`PiecesRight`).
* `FailuresNeverForgotten`: `Spec => FailureKept`, an action property of
  `upsertTimeframeAuditState` and of whoever calls it.
* `RotationsLeaveNothingOut`: `RotationFits => (Spec => []RotationCovers)`. `RotationFits`
  says that a rotation takes no longer than the window needs to move by one block
  (`BlockCount <= RecentDays * PassesPerDay`). A condition is needed: in the three
  counterexamples TLC found (block, lookback, passes a day: 2, 5, 1; 4, 20, 1; 1, 4, 3)
  the rotation is one pass too long. The proof counts time in passes. A whole rotation audits
  the window except for the day on the seam of two blocks between which a day closed
  (`RotationAudits`). For the next rotation to pass the same day over, the window must
  have moved by some `j >= 1` blocks in `BlockCount - j` passes, so that
  `BlockCount = j * (RecentDays * PassesPerDay + 1)`, which is more than `RotationFits`
  allows (`SeamsDiffer`). So the current rotation and the two before it leave nothing out
  (`ThreeRotations`). The invariant `RotationInv` says that `covered` holds what the
  passes of these rotations audited, or, after a skipped pass or a restart, that nothing
  is held against the audit.

`CorporateActionProofs`:

* `CandlesAdjusted`: `WholeDays /\ Spec => []AdjustedWhenQuiet`. `WholeDays` says that no
  split falls into a day the 1D audit visits; without it the statement is false, which is
  the finding of section 6, and the instance of `CorporateDayAudit` satisfies it. `AInv`
  relates the job rows to the goroutine that works on one (`Working`), the candles
  rewritten so far to its progress (`Progress`, `Settling`), what the answer left out to
  the exempt rows (`LeftOut`), and what an audit read to what it will write (`Auditing`). The lemmas `DayAdjusted` and `GuardianAdjusted` show
  that scaling a whole day and rebuilding it from its minutes agree when no split falls
  into it.

Model-checked only:

* Every liveness property: fairness and `ENABLED` are out of the prover's reach.
* `PlanExact`: what the recursive cut of the planner computes needs induction over data.
* `HoleFree` and `AllReturned` of `KlinePages`: they rest on what sorting and
  deduplicating a page computes, which is again induction over data.

## 5. Not modelled

SQL text, number formats and payload layouts, HTTP query handlers, logging, the text
of notifications, the legacy Python service and the web client: nothing there changes
state that another step depends on. Left for later, because they are of their own kind:
the alert engine and the watchdog, request pacing, calendar arithmetic of the
timeframes, `handleFinalBar`'s watermark (off by default), the page and batch loops of
the backfill tool, the OKX anchor audit. Two compositions are missing on purpose: the
gap-fill tool that reads the factor list before a job and writes after it
(nothing in the code orders them; see the hazards), and `prev_close`. `PROJECT.json`
lists every component with its status.

## 6. Findings

`CorporateMidday`: the worker rebuilds a 1D bar that a split falls into from its
adjusted minutes (`adjustBinanceBars`). The Guardian's `applyCorporateActionFactors`
multiplies every bar that starts before the split as a whole, so the next hourly 1D
audit finds the day different and overwrites it with a bar whose minutes after the
split are scaled as well. Nothing corrects it later: both audits agree with
themselves. Days a split does not fall into are not affected (`CorporateDayAudit`, and
for every instance the theorem `CandlesAdjusted`).

Met while modelling, and not runs of their own:

* `internal/app/minute_verification.go:41` says refused conflicts "remain durable
  work". A second conflicting final that arrives while the conflict task of the first
  executes deduplicates onto the running row (`internal/storage/minute_audit_memory.go:26`)
  and is deleted with it. The day audit looks at the minute again later.
* The comment of `dailyAuditRange` says a restart "resumes historical coverage from the
  current cursor"; the cursor is a field that starts at 0. A comment in `dailyAuditOnce`
  says the persisted state covers the latest failed range, while
  `upsertTimeframeAuditState` keeps the older one.
* A subscription OKX refuses is an event the parser skips; it is not repeated until
  the connection is renewed (`SessionCovers` and `CollectorConverges` say so).
* A list that really shrinks below half is refused for good, with every attempt
  recorded as a failure (`InventoryConverges` excepts it).
* A gap-fill task skipped because the symbol's policy changed is not taken up again
  when the policy returns; a journal torn by a kill or a failed append is refused until
  an operator repairs it; history before a correction "is left unresolved rather than
  mixed with raw historical bars" (`cmd/gapfill_klines/README.md:80-82`), with the whole
  task it begins, also the keys after the correction (`EventuallyFilled` excepts all
  three).
* The retry pass excludes a row for good when a fresh inventory says the symbol is
  delisted *or not subscribed* (`internal/guardian/durable_minute_audit.go:329`), and a
  halted symbol is not subscribed (`internal/market/symbol_snapshot.go:133`). When it
  returns, the minutes of those rows lie behind the cursor and no audit of their group
  looks at them again; an interrupted replay is forgotten with its row
  (`CursorCovered` and `ReplayNotForgotten` except the minutes of such rows, `waived`).
* A backfill job completes although the exchange answered a timeframe with no bar
  (`internal/corporateaction/worker.go:483`) or only with a part of it: the rows outside
  the answer stay unadjusted, a hole inside it is deleted, and no error says so
  (`AdjustedWhenQuiet` excepts these rows, `exempt`).
* Sequence numbers of events are global, so a client of one channel sees gaps in
  normal operation; only drops counted for it are losses.
* Binance: a request without a start reads one page, in which the bar in progress may
  take a place; a range with a limit is read from its old end; a row dropped from a
  full page ends the loop early. OKX: a limit of 1 may return nothing while a bar is
  open. `AllReturned` states what remains true.

## 7. Plan

Done: the 1m calibration core, the audit ledger, corporate-action jobs, the 1D audit,
symbol inventories with their refinement, the collector, the gap-fill tool, the hub
and its clients, REST paging. Next:

1. the alert engine and the watchdog; request pacing;
2. timeframe arithmetic and the aggregator against reference definitions;
3. the `handleFinalBar` watermark; the loops of the backfill tool.
