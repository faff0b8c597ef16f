# Formal models of the A-share quant workbench

TLA+ models of the parts of this repository in which order, failure and
concurrency decide about correctness, TLC configurations that check them on
small instances, and TLAPS proofs for every instance. The workbench is one
Python process with several threads, worker processes it launches, a backup
manager that may run in other processes, and a directory of JSON and Parquet
files that all of them replace. It never trades; what can go wrong is that a
file, a status or an advice says something that is not so.

Paths below are relative to `src/a_share_quant/` in the repository unless they
begin with `scripts/`, `tests/`, `docs/` or `reports/`.

    module                 models                                            checked by
    AtomicRestore          what a restore promises (abstract)                backup_overlap (as a property)
    BackupRestore          workbench/backup.py                               backup_overlap, backup_recovery
    BackupRestoreProofs    theorems about BackupRestore: locks, markers,     tlapm
                           what a restore and recovery promise
    ResearchLifecycle      runtime/research_jobs.py, research_worker.py,     research_crash, research_progress,
                           the lifecycle in workbench/app.py                 research_fingerprint
    ResearchProofs         theorems about ResearchLifecycle                  tlapm
    DatasetLog             what the data store promises (abstract)           workbench_parts (as a property)
    ResearchDataStore      storage/research_data_store.py                    workbench_parts
    HistoricalBackfill     runtime/historical_backfill.py                    progress
    HistoricalScreen       research/historical_screening.py and its worker   decision_parts
    ProspectiveContest     research/prospective_competition.py, the freezer  workbench_parts
                           in scripts/quant_cli.py, the predict worker
    ProspectiveLedger      storage/prospective_ledger_store.py and the       workbench_parts, ledger_tear,
                           predict and settle workers                        ledger_unpriced
    ModelEvolution         research/evolution.py and its handlers            decision_parts
    DailyLake              runtime/daily_refresh.py, data/pipeline.py,       workbench_parts, lake_damage
                           research/daily_candidates.py
    DailyPublication       runtime/eod_coordinator.py, daily_bundle.py,      decision_parts
                           refresh and start in workbench/app.py
    PriceGuidance          advisory/, runtime/price_guidance.py, what the    decision_parts
                           service shows of a stock and of a holding
    RealtimeQuotes         runtime/scheduler.py, realtime_telemetry.py,      workbench_parts, realtime_gate
                           data/realtime/
    AccountDesk            account/, workbench/advisory_service.py           workbench_parts
    ImportInbox            account/import_inbox.py, importer.py              workbench_parts
    PublicRisk             runtime/public_risk.py, its store and provider    workbench_parts
    AccountWatch           AccountDesk and PublicRisk together               workbench_parts
    AccountProofs          theorems about AccountDesk and AccountWatch       tlapm
    ImportProofs           theorems about ImportInbox                        tlapm
    AgentRuntime           workbench/agent_runtime.py                        workbench_parts, progress
    WorkbenchProofs        theorems about four scenes of MCWorkbench: the    tlapm
                           data store, the ledger, the contest, the lake
    RuntimeProofs          about the others: the agents, public risk, the    tlapm
                           quotes, the account and its imports
    DecisionProofs         theorems about the four scenes of MCDecision      tlapm
    ProgressProofs         theorems about the safety of MCProgress           tlapm
    MCBackupRestore, MCProspectiveLedger   small instances of the modules they extend
    MCWorkbench, MCDecision, MCProgress    several modules, each in a scene of its own

`PROJECT.json` relates every definition to the lines it models, and gives for
each checked property a mutated definition that breaks it. Those mutants stand
in the modules, marked as such, and are used by no specification.

To check: `tlc -config X.cfg M` for the pairs of PROJECT.json's runs, and
`tlapm` on each of the eight modules named `...Proofs`.

## Inventory

For each component: its state, its operations, how it meets the others, what is
hard about it, and what makes it correct.

**Backup and restore** (`workbench/backup.py`). State: the managed files, beside
each a lock and a pending-restore marker, beside an audit file a restore journal
with rollback snapshots, archives. Operations: open (which recovers), create a
backup, preflight (which issues a token), restore. Several managers with
different configurations may share files. Hard: a crash or an exception between
any two replacements, recovery by another process, edits by hand while a restore
is pending, lock order. Correct when a restore is all or nothing, recovery
overwrites no edit, and no manager works past the interrupted restore of
another. No code of the repository constructs a `LocalBackupManager` outside the
tests: it is a library part.

**Research job lifecycle** (`runtime/research_jobs.py`, `runtime/research_worker.py`,
`ResearchLifecycle` in `workbench/app.py`, the context supplier in
`scripts/quant_cli.py`). State: the job table, owned child processes, a
checkpoint, and per job an evidence and a status file. A thread ticks: it reads
a context, registers the jobs of the current cycles, collects ended children,
starts due jobs. Hard: workers outlive the workbench, a restart runs the same job
beside its orphan on the same files, the context is stale when used. Correct
when a success is believed only with its own evidence, no ended cycle is run
again, and no job starves.

**Research data store** (`storage/research_data_store.py`). State: content-addressed
blobs, a manifest that is replaced as a whole with a rollback copy, markers that
name the owner of every temporary file, quotas. Operations: put, replace, read,
clean up. Hard: some fifteen file operations per publication, each of which may
fail or be the last. Correct when it is a log that only grows and what a caller
was given stays readable.

**Historical backfill** (`runtime/historical_backfill.py`). State: a checkpoint of
what each symbol has and which of its requests failed; everything else is in the
store. A batch visits the symbols, asks for the missing edges of each in windows
of bounded length, publishes, records. Hard: a batch that ends between the two,
a lost checkpoint, symbols that ask in vain. Correct when no hole is left between
the first and the last row of a symbol and repeated batches reach every row.

**Historical screening** (`research/historical_screening.py`, the screen job).
State: none of its own; it reads artifact after artifact while the backfill
replaces them. Hard: features, labels, windows and embargoes count sessions, and
a suspended symbol counts differently. Correct when no score saw its future.

**Prospective contest** (`research/prospective_competition.py`, `_freeze_contest` in
`scripts/quant_cli.py`). State: the frozen contest, its archive, the model bundle,
the artifact of the day. Hard: contest, bundle and artifact are replaced while a
worker that read them appends; an exclusive create is cut off. Correct when one
day of a registration has one input and no contest with predictions is lost.

**Prospective ledger** (`storage/prospective_ledger_store.py`). State: one append-only
JSONL file and its lock. Predict and settle workers load it, check, append. Hard:
torn writes, two workers with stale memory. Correct when what was acknowledged
stays, nothing is settled twice, and every due prediction with a price is settled.

**Model evolution** (`research/evolution.py`, its handlers in `workbench/app.py`). State: the champion, reports,
one-time tokens, an audit chain, one state file. Handler threads confirm
promotions and rollbacks. Hard: two confirmations at once, a preview replaced by
a later one, a restart. Correct when a token changes the champion at most once.

**Daily lake and candidates** (`runtime/daily_refresh.py`, `research/daily_candidates.py`,
`data/pipeline.py`). State: one file per symbol. A child process with a deadline
brings each up to a session. Hard: it is terminated between two files, a damaged
file is put aside first, an orphan works on. Correct when candidates are never
published over a lake that lacks a session the provider had.

**Daily publication** (`runtime/eod_coordinator.py`, `runtime/daily_bundle.py`,
`refresh_eod_state` in `workbench/app.py`). State: the coordinator's job with its
checkpoint, the candidate file, the plan file, a journal, and the view in
memory. A thread polls; account events request a refresh; the operator lifts
pauses. Hard: holdings change while plans for the old ones are generated, a crash
between files, a checkpoint that cannot be written. Correct when both files are
of one generation, "completed" is never claimed of anything else, and changed
holdings are covered in the end.

**Price guidance** (`advisory/`, `runtime/price_guidance.py`,
`workbench/service.py`, `workbench/context_tools.py`). State: the plans of the day,
the candidates, the newest quote and the published row, the risk assessment. Hard:
a request reads them one after another while each is replaced. Correct when a
verdict is shown only beside the quote and plan it is about.

**Realtime data** (`runtime/scheduler.py`, `runtime/realtime_telemetry.py`,
`data/realtime/`). Polling in a session, an asynchronous full-market request with
a single slot, a killable child with a deadline, failover, a gate that calls data
GOOD only after two distinct updates. Hard: answers that arrive in a later poll,
symbols changed by another thread, polls that bring nothing.

**Account ledger and import** (`account/`, `workbench/advisory_service.py`). State: a
hash-chained JSONL file of fills, the initial cash beside it, a replaced snapshot of
imported positions, the ledger in memory, previews confirmed by a token, an inbox
of broker exports. Hard: a crash between the initialization file and the first
fill, torn lines, exports rewritten between the reads of a preview. Correct when an
answered fill is recorded for good and an import is what its source said.

**Public risk** (`runtime/public_risk.py`, `storage/public_risk_store.py`,
`data/public_intelligence/cninfo.py`). A thread asks the announcements of candidates
and holdings every six hours and whenever these change. Hard: the wake flag, partial
answers, announcements that leave the window. Correct when adverse evidence stays
and every holding is assessed in the end.

**Agent runtime** (`workbench/agent_runtime.py`). One analysis task at a time on a
thread with an event loop, cancellation, a deadline, and a budget file shared by
processes. Hard: cancel, timeout and end race; a reservation whose charge is
unknown is kept. Correct when the budget covers every charge, a cancelled task
sends no further request, and every task ends.

**Trading calendar, backtests, features, experiments, strategies, integrations, data
providers, web view, scripts**: numeric, sequential or I/O code; PROJECT.json lists
each with the reason why it is not modelled.

How they meet: the daily lake is what candidates are computed from; the daily
publication writes the file from which the lifecycle takes "fresh" and the plans
that price guidance judges by; the history job runs the backfill, which writes the
store whose manifest fingerprint the lifecycle registers jobs with and whose
artifacts the screen reads; the contest says under which registration the predict
worker writes the ledger, and the settle worker reads it; account events request a
daily refresh and change the symbols of public risk and of realtime data; the gate,
the risk and the plans meet in what a reader is shown.

The models meet there too. `HistoricalBackfill` works on `DatasetLog`, the abstract
store that `ResearchDataStore` is shown to implement. `AccountWatch` composes
`AccountDesk` and `PublicRisk` step by step: the callback after a confirmation changes
the symbols of the risk thread, and both begin anew with a process. Elsewhere what
one component does to another is a nondeterministic action in the other's model
(`Publish`, `PublishDaily`, `AccountChanges`, `Outside`).

## The models

### BackupRestore

A manager is a process of its own with a program counter; each durable step (one
`os.replace`, one `unlink`, one audit line, one marker) is an action. `Open` is the
constructor, `Begin` one of the public operations, `Acquire` takes the next lock by
canonical path; then comes `_recover_pending_restore` (`RecoverBlocked`,
`RecoverNothing`, `RecoverMarkers`, `RecoverJournal`), the rollback loop
(`Rollback`, `RollbackUnlink`, `RollbackVerify`), the finalisation (`UnlinkJournal`,
`DropSnapshot`, `ClearMarker`), or the body (`CreateBackup`, `Preflight`, `Confirm` and
the steps of `_restore_locked`). `Fail` lets any step raise instead of taking
effect, and `Handle` is the `except` clause. `Crash` frees the locks of a process and
keeps what is durable. A content stands for bytes and their digest.

`AtomicRestore` knows no journals, markers or processes: a restore replaces all
files of an archive at once, after its audit line, at most once; a backup is of
one instant. **Refinement**: `View` maps a file of a pending restore to its original
content, so the abstract restore happens when the journal is unlinked, the
replacements before are stutters, and so is a rollback. `AtomicRestoreSpec` is the
abstract specification under that mapping.

### ResearchLifecycle

A job id is a hash of command and cycle key; here it is the record of what the
key depends on. The table `_jobs` is the set of its jobs, each with its place in the order
of insertion (`nth`), by which the first possible job is launched and the oldest
terminal ones are pruned. A tick is `TickRead` (the context) and later `TickDone` or
`TickAborted` (registration, collection, launches), because the world changes
between. Workers publish, write evidence, write status and exit, each a step;
`Die` ends one anywhere. `Stop`, `StopWorkers` and `Leave` are the two shutdowns of a
normal exit, `CrashWorkbench` leaves orphans, `OpenWorkbench` restores the checkpoint.
Fingerprints are numbered in order of appearance.

### ResearchDataStore and DatasetLog

Every operation of the store holds one file lock, so one is under way at a time;
its file operations are steps (`Write`, `Seal`, `Reserve`, `MoveBlob`, `MarkManifest`,
`WriteRollback`, `Replace`, ...), each of which may raise (`Raise`, then `Restore` and
`Finally`) or be the last (`Crash`). `strays` are files nothing refers to, `markers` the
owner markers beside them, `Clean` the cleanup that decides from the markers alone.

`DatasetLog` knows neither files nor markers: artifacts are appended, a key and
version names one content, and only what is in the log is handed out.
**Refinement**: `StoreIsLog`. The log is the manifest, except that a replacement
counts only from its directory sync on (`Settled`), since a failed sync rolls it back.

### HistoricalBackfill

Works on `DatasetLog`. `Start` begins a batch, `Reconcile` rebuilds a symbol's record
from the log, `Skip`, `Full`, `Fail`, `Empty`, `PublishRows` and `Save` are what a request
for the next missing window comes to, `Visit` the symbol, `Done` and `Abort` the ends of a
batch. `Lose` loses the checkpoint, with `Post` the provider has the day's rows, `NextDay`
moves the wanted range. Rows are days; a history is the set of days a provider has.

### HistoricalScreen

The worker compares the backfill's checkpoint with the active artifacts (`Compare`),
reads one artifact after another (`Read`) while the backfill goes on (`Publish`,
`Checkpoint`) or an artifact is damaged, then derives and tries all candidates
(`Screen`). Values are left out: a feature is the closes it reads (`FeatureReads`), a
label the session it matures on (`Labels`), a window's training the closes that
fitted it. A symbol misses the sessions in `halts`.

### ProspectiveContest

`Freeze`, `NameArchive`, `Move`, `Register` and `Create` are the steps of
`_freeze_contest`, each of which may be the last one (`Die`); an exclusive create cut off
leaves a `Torn` contest. `ReadContest`, `Accepted`, `Derive` and `Predict` are the worker,
which checks once and appends row by row. New bundles, days and regenerated artifacts
are the environment. Artifacts are numbered in the order of generation.

### ProspectiveLedger

The file is a sequence of lines, each with or without its record and its line
feed, so a write can be cut off before the record is whole, or just before the
line feed. Load, check and append happen under one file lock and are one step;
opening the store is another, so a worker's memory may be stale. Outcomes carry
the run that derived them, as the instant of derivation makes any two differ.

### ModelEvolution

A confirmation is the steps of a handler thread: the service's preview is taken
(`Confirm`), the registry's token is spent (`Consume`), the champion is read, set and
recorded (`ReadChampion`, `SetChampion`, `AppendRecord`), the state file is encoded and
replaced (`Encode`, `Replace`, or `PersistFails`). Handlers interleave between any two, as
the code has no lock around them. `Restart` loads the file and forgets tokens and
previews. `spent` is a history of what was confirmed.

### DailyLake

The child's request for one symbol is one of `Skip`, `Ask` with its answer
and `Refused`; damaged files are put aside first (`Quarantine`), from the
listing comes the set of symbols (`List`), and `Write` merges or replaces a history.
`Finish` and `Break` end the child, `Publish` is what the workbench makes of a finished
one. Bars are days; halted stocks have none on `HaltDay`.

### DailyPublication

The coordinator's fields are one record, `job`, and its checkpoint another, `ckpt`; the
functions `Begun`, `Requested`, `Succeeded`, `FailedRun`, `DeniedRun`, `Unsaved` are the
assignments of the corresponding code paths, and `SavedOr` says that a checkpoint is
replaced or cannot be written. The thread's steps are those of `refresh_eod_state`:
recover a journal, read the holdings, fetch and stage, compare and write the journal,
replace the candidates, replace the plans, remove the journal, record the outcome. A
notification is four steps (read the ledger, update the symbols, read the clock,
request), one notification at a time. A bundle is its session and the holdings it
has plans for. `published` is a history variable.

### PriceGuidance

The rule of the plan is arithmetic on multiples of a four-hundredth of a tick
(`Zone`, `ZoneFits`). A poll is `Ingest` (the store) and later `ApplyTick` (what is
published), or `PollFails`; the evening refresh is `PublishDaily` or `DailyFails`. A request for
the context of a stock is `Capture` (one snapshot and its verdict) and `StockContext`
(what is shown beside it, at a later clock); one for a holding is `ReadPosition`,
`ReadPlan`, `HoldingContext`. The account itself is another module's: its positions are
chosen. One stock with one set of features.

### RealtimeQuotes

`Begin`, `Take`, `Priority`, `Decide` and `Full` are the steps of one poll; `Refreshed` and
`RefreshFails` are the second thread's, whose result waits in `pending` for a later poll.
`Judge` is the scheduler's quality, `Gated` the gate's, `Publish` what the service shows of
both. What a provider answers is chosen, including old and repeated timestamps.

### AccountDesk, ImportInbox

`AccountDesk`: previews issue tokens (`PreviewBuy`, `PreviewFile`), a confirmation takes its
token whatever comes of it (`Refuse`, `Confirm`, `CashFails`, `ConfirmPositions`), and then
appends and remembers row by row (`Append1`, `Remember`, `AppendFails`) under the account
lock; `Tell` and `Told` hand the holdings to the callback under a lock of their own.
`Start` is refused when the file cannot be replayed. Fills are lots that cost one unit.

`ImportInbox`: a scan gives ids (`Scan`), a preview hashes the file (`Check`) and reads it
again (`Read`), a confirmation hashes it once more (`Unchanged`). Contents are small sheets
with blank and unreadable cells; `Fills` and `Saved` say which rows become what, and
`Raises` which ones make the preview fail. `Write` is the broker's client.

### PublicRisk, AccountWatch

The thread's `Ask`, `Learn` or `Miss`, `Publish` and `Wake`, and the wake flag (`Request`).
Titles are of three kinds: a block, a review, and the relief of the former; `Retained`
keeps adverse evidence, `Unresolved` says what a relief undoes. Of a symbol only the
newest `Pages` announcements are read. `AccountWatch` adds nothing of its own but
the meeting: the callback changes the symbols first and wakes the thread later.
`AnsweredHoldings` counts what answered confirmations bought against all that was sold:
an import that fails half-way leaves buys in the ledger that no callback ever reported.

### AgentRuntime

Per process a task (`Start`, `Preflight`, `Loop`, `Reserve`, `Reply`, `Answer`, `Finally`), which a
cancellation reaches only where it awaits (`Interrupted`), and between processes one
budget file (`Reserved`, `SettledDay`, `SettledTrial`). Settings, key and connection check
change beside it (`Configure`, `CredentialChanged`, `ProbeBegin`, `ProbeEnd`). A request
reserves `Price` and may cost `Excess` more; `charged` and `billed` are the history of what
the provider charged of the reservations, by day and in all.

## What is checked

Every passing run finishes, and every action of every module fires in one of them.
Parts without shared state are checked by one run in scenes of their own: the scene
is chosen at the start and only its part takes steps, so the states are those of the
separate checks added up.

| run | properties | states | what it shows |
|---|---|---|---|
| backup_overlap | Exclusion, PendingIsMarked, WriteAhead, ManualEditKept, AtomicRestoreSpec | 711 k | two configurations that share a file, with a consistency group |
| backup_recovery | RecoveryPossible, ReturnMeansRestored, OperationsEnd, InterruptionsResolved | 27 k | one configuration in two processes under two audit files, with liveness |
| research_crash | SuccessIsOwn, EndedNotReplayed | 564 k | shutdowns, crashes and orphans over two days |
| research_progress | EveryJobEnds | 97 k | nothing starves |
| research_fingerprint | TickRegistersPrint, **violated** | | finding 1 |
| ledger_tear | Durable, **violated** | | finding 2 |
| ledger_unpriced | DueSettled, **violated** | | finding 3 |
| realtime_gate | GoodEarned, **violated** | | finding 4 |
| lake_damage | DamageRepaired, **violated** | | finding 5 |
| workbench_parts | GivenStaysReadable, NothingUnmarked, StoreIsLog | 1.02 M | the data store implements its log |
| | ChargesCovered, LimitsHold, CallsVerified | | the agent's budget, limits and verified connections |
| | HandedForward | | quotes only go forward |
| | AnsweredIsKept, FileReplays | | the account keeps what it answered |
| | HoldingsAssessed, AdverseStays | | what is held is assessed, and stays adverse |
| | ImportsAreTheirSource | | imports are what their file said |
| | OnlyJoinedLinesBreak, HistoryKept | | the prediction ledger |
| | PublishedWhole | | candidates rest on a lake without holes |
| | OneInputPerDay, ContestKept | | one registered input a day, no contest lost |
| decision_parts | NoFabricatedSuccess, OneBundle, CompletedCovers, HoldingsCovered | 375 k | the daily job against account events, failing writes and restarts |
| | JudgedTogether | | what a reader sees together was judged together |
| | ConfirmedOnce | | a champion changes once per confirmation |
| | OutOfSample | | no score of the screen saw its future |
| progress | NoHole, LivelyAdvance | 159 k | the backfill leaves no hole and reaches every row |
| | CancelBinds, TaskEnds | | a cancelled task stops, and every task ends |

### Findings

1. **research_fingerprint**: the history cycle is keyed by its day only, and the
   history job changes the manifest whose fingerprint the next tick of that day
   registers with. `_register_cycle` raises, the tick swallows it, and nothing is
   registered, collected or launched until the next day, although
   `research_jobs.py:363` promises an instance for every new fingerprint.
2. **ledger_tear**: an append cut off exactly before its line feed leaves a line
   that loads and that a retry is answered with; the next append continues it. If
   that one completes no load succeeds again; if it is cut off too, the load cuts the
   whole line, and the acknowledged prediction is gone. The design
   (`docs/superpowers/specs/2026-08-14-historical-acceleration-d-drive-design.md:36`)
   excludes both. `OnlyJoinedLinesBreak` shows that nothing else makes the ledger unreadable.
3. **ledger_unpriced**: one due prediction without a usable price blocks every settle
   job, although "unusable observations remain pending"
   (`prospective_competition.py:311`).
4. **realtime_gate**: while a display cache exists, a poll that brings nothing leaves
   the count of the gate as it was, and the next single snapshot is GOOD, although two
   in succession are asked for (`reports/a_share_quant_handover_2026-08-11.md:51`,
   `realtime_telemetry.py:34`).
5. **lake_damage**: a damaged file is renamed before its symbol is asked for, and the
   symbols are derived from the file names. When that request fails or the child ends,
   the next attempt knows nothing of the symbol and publishes without it, although
   "a damaged file is not mistaken for a finished refresh"
   (`docs/superpowers/specs/2026-08-13-reliability-upgrade-design.md:28`).

### Observed, and not a finding

What the models contain because the code does so, and a reader may want to know:

- Backup: where two configurations share some files but not all, a marker of one may
  stand beside a file that is not in the journal of the other, and recovery of that one
  waits for it. The same can happen to one configuration
  under two audit files when a backup of no files is restored: its journal is empty and
  leaves no marker that would refuse the other (`RecoverableWhole` has the exact conditions).
- Contest: a worker that died after its first prediction of a day is refused when it
  is run again (`research_worker.py:727`); the first artifact after a contest began is
  never predicted, and neither is the artifact it was frozen from, as a contest starts
  after its input was made; a create that is cut off blocks the contest for good. The
  properties are checked and proved with one freezer and one predict worker: two freezers break `ContestKept`, and two
  predict workers `OneInputPerDay`. A model registered again is credited with its old predictions.
- Research: a job is known as ended only as long as it is retained. The fingerprint
  alone is the key of a screen, so the screen of a manifest that stays is registered and run
  again after 64 later jobs have ended. With fewer retained than ended, one more thing can happen: the
  jobs of a failed launch push an ended job out of the table while the old checkpoint
  still records it, and it is launched again (`EndedNotReplayed` is violated with `Retained`
  1; see `AllRetained` below).
- Settlement: whenever the lake refuses a maturity price, `_derived_outcome` falls
  back to the research returns and records that no corporate action interfered.
- Account: the import of fills into a new account never records the initial cash; an
  append that raises after its row was written leads to the same buy twice on a
  retry, and withdraws the initial cash (`FileReplays` excludes this by `surplus`).
  A fill file with a sale is refused when it is confirmed a second time.
- Imports: rows of an export that was there between the two reads pass under the
  digest of the one before and after it (`returned`); an export that grew gives all its
  rows new ids; a blank or unreadable quantity makes the whole preview fail; position
  rows that are refused are dropped silently; an older export replaces a newer snapshot.
- Lake: bars of two adjustments may meet after a retry; the file of a delisted symbol
  makes each refresh fail.
- Public risk: of more announcements than two pages the rest is not read, and the
  answer is FRESH all the same.
- Guidance: the protection price of a holding may fall, as the refresh passes none
  (`price_guidance.py:238`, against the design); a holding plan past its day still
  warns; one without prices yields HOLD_WATCH; new candidates stay beside old plans
  when these cannot be generated.
- Evolution: an approved report can be approved again; a rollback restores what its
  record names although another champion came since; an error of the disk leaves memory
  ahead of the file, and an older body may replace a newer one.
- Agent: the status RUNNING may replace CANCELLING, although the cancellation binds.

### Bounds, and why they are enough

- Backup: two files (one shared, one not), two managers, one archive path, one
  content beside the original. `MaxOps` 3 allows backup, preflight and restore in one
  run, 2 the last two of them in backup_recovery, which begins with an archive of both
  files; `MaxFaults` 1 puts one crash or exception at every step including recovery after
  a normal restart; `MaxManual` 1 puts one edit anywhere. The proved invariant needs
  none of these bounds.
- Research: two days, the network on the first or not at all, one fingerprint and
  two worker processes in research_crash (a job and its orphan or its relaunch); one
  day and four processes in research_progress, without network, as finding 1 breaks
  progress with it. `Retained` is the value of the code and is not reached.
- Workbench.cfg. Store: one key, two versions, two contents, files and a quota that the
  second publication may exceed, two replacements, one upset. Agent: two processes or
  one, two limits, two tasks of one request, so that two requests compete for one
  remaining price. Quotes: sets of one or two symbols with one change, four instants,
  snapshots that age after one. Account: two symbols, one file of fills (a buy and a
  sale) and one of positions, two previews, two days alone and one day with the risk
  thread. Risk: one symbol, three announcements or departures, the newest two read.
  Ledger: two workers, two predictions, two cut-off writes. Lake: one steady stock, one
  that is halted once, the benchmark, four sessions, one damage and one end of a child.
  Contest: two bundles, three artifacts over two days, one death.
  Imports: one name with four contents, two writes, two previews, two days.
- Decision.cfg. Publication: one stock, one account event, two sessions, two attempts,
  two upsets (ends of the process or the calendar, reviews, new sessions) in any mix: two
  are needed for a restart during a retry of a restart. Failing fetches, replacements
  and checkpoint writes are not bounded. Guidance: two prices, on both sides of the zone, two
  happenings, four instants of which two make a day. Evolution: two handlers, one
  report, three tokens, one fault. Screen: two symbols that miss up to two of the
  sessions 3 and 8 and reach session 13 or 14; windows of 2, 1, 1 and 2 sessions, so that
  three windows fit and a halt moves a label across an embargo.
- Progress.cfg. Backfill: two symbols, a batch of one, windows of two days, four days,
  and the four histories of `Progress.cfg`, with and without gaps that no window spans.
  Agent: one task of two requests.

Deadlock checking is off in all runs: every module has states in which the bounds
are used up and nothing is left to do.

### Fairness

Weak fairness of threads and processes that run: a manager's own steps, the
lifecycle's tick, a worker's steps; in the publication the polls of the coordinator, a
notification under way and the end of a retry delay; a backfill batch under way, the
next one and the next day; the steps of the agent's loop, which its own deadline ends.
None of them waits for anything but a lock or its own deadline, and `Fail`, `Crash`,
`Die`, `Raise` and the like are never fair. Strong fairness of `Acquire`: the code polls
for a lock that is freed again and again. Managers that are down and workbenches
that are closed are opened again, as recovery happens nowhere else; the daily
publication needs no such assumption and counts a closed process as halted. A
settle job is launched again and again, which is what the lifecycle's daily cycle does.

`HoldingsCovered` is deliberately weak: the job may be paused, blocked or out of
attempts, and it then says so. Its point is that no other state is final.
`LivelyAdvance` excepts symbols that ask in vain (no row within a window, or none on the
last day) once they are as many as a batch takes: these do starve the others.

## What is proved

Eight modules hold theorems, for every value of the constants: any sets of managers,
files, stocks, workers or symbols, any bounds. PROJECT.json lists them. Every safety
property in the table above, invariant or step property, is there; what is left to TLC is named at
the end of this chapter. A component without shared state is proved about in its scene, as a
theorem of the specification that the run checks, or in a module of its own
(`AccountProofs`, `ImportProofs`) whose theorems are brought to the scenes.

What is assumed of the constants are the named assumptions of the modules, which TLC
evaluates on every run: configurations are functions into sets of files and the order of
locks is total (`ConfigAssumption`, `RankAssumption`); bounds are numbers
(`BoundsAssumption`, `ConstantsAssumption`, `BackfillAssumption`), the price of a request is
positive, a batch takes at least one symbol, windows of the screen are not empty
(`ScreenAssumption`), what the account holds are stocks (`SteadyAssumption`), the export
files of the account have rows (`AccountAssumption`), the age of a quote is a number
(`QuotesAssumption`), the research jobs know a day and a fingerprint; and `None`
and `Absent` are none of the values they stand beside (`NoneAssumption`,
`GuidanceAssumption` and parts of the others). Two hypotheses stand with the theorems they
belong to: that `None` is no set of fills (`Assumed` and `NoneIsNoFills`; TLC cannot
evaluate membership in an infinite set of sets), and `AllRetained`, below.

### Backup and restore

`BackupRestoreProofs`:

- `InvariantHolds`: `Spec => []IInv`; `TypeCorrect`, `MutualExclusion` (`Exclusion`) and
  `JournalsAnnounced` (`PendingIsMarked`) follow;
- `WorkingAlways`: `Spec => []WInv`; `WritesAhead` (`WriteAhead`) and `HandEditsKept`
  (`ManualEditKept`) follow.

`Exclusion` is not inductive: it follows from `LocksHeld`, which says
that a manager past its locks has each lock of its configuration. `PendingIsMarked` (a journal on disk has
the marker of its transaction beside each of its files) is disturbed by a manager
that clears or writes markers, and by one that writes a journal. Writing one is
safe when the markers of its plan are already there and the journal path is empty:
`MarkersInPlace` carries the first from the marker loop to the journal, `NoJournal` the
second; `NoJournal` also says that markers are only cleared where the journal is gone. Both need that what is
planned is managed and loops only treat planned files: `PlanManaged`, `TodoInRange`.
Interference by other managers is excluded by `LocksHeld`, as markers and journals are
only touched under the locks of their paths. `TypeOK` serves all.

`WriteAhead` and `ManualEditKept` relate a write to the journal on disk, while a manager writes from
the plan and the originals in its memory. `WInv` says that these agree as long as
it installs or rolls back (`JournalMine`), that every file it recorded then holds its
old or its new content (`TargetsKnown`), and that the audit line precedes the first
replacement (`AuditedFirst`). A manager's own steps keep that by what they check
(`PreparingSteps`, `InstallingSteps`), those of another one because the two share neither
file nor journal past their locks (`Footprint`, `OthersWorking`), and a hand because it touches no
locked file (`ManualWorking`). A journal goes away by `UnlinkJournal` only, where every
file is known (`JournalStays`): an edit by hand is not.

From both invariants follow:

- `PromisingAlways`: `Spec => []PInv`;
- `RestoredOnReturn`: `Spec => []ReturnMeansRestored`;
- `RestoreIsAtomic`: `Spec => AtomicRestoreSpec`, the refinement;
- `RecoverableAlways`: `Spec => []RInv`;
- `RecoverableWhole`: `RecoveryPossible`, for configurations that share all files or none.

`PInv` says what each step of a restore has achieved: in which phase the manager is
(`PhaseFits`), which files hold the old and which the new content (`Installed`), which
markers are gone (`Cleared`), and that the id of its operation is neither another's nor in
the abstract state yet (`Fresh`, `IdsUsed`). Only few steps write anything the abstract state is made of
(`StutterSteps`): `UnlinkJournal` of a restore is the abstract restore, the audit
line and the archive are steps of their own, and an edit by hand is seen only of a file
in no journal (`ManualSeen`), as one that is journalled is seen with its original. The lemmas
`InstallUnseen`, `JournalUnseen` and `UnlinkSeen` say what a replacement, a new journal and
one that is removed change of `View`; they need `SoleCovering`, that at most one journal
covers a file.

`RInv` says what recovery will find: a journal has a snapshot of every original
and, unless edited by hand, every file with one of its two contents (`JournalKept`, which
`HandsOff` and `JournalKeeps` preserve); and before it is written only files of its plan
are marked (`Prepared`). That is true of all configurations. `RecoveryPossible` itself is
not: see "Observed". Hence the hypothesis `SharedWhole` (managers share all their files or
none), which the run backup_recovery satisfies, and, for each state, that there is one
audit file per configuration or no journal with an empty plan.

### The daily publication

`DecisionProofs`: `PublicationAlways` (`Spec => []PublicationInv`), and from it
`SuccessIsFounded` (`NoFabricatedSuccess`), `BundleStaysOne` (`OneBundle`) and
`CompletedStaysCovering` (`CompletedCovers`).

The last of these took the invariant. That completed plans cover the holdings is disturbed when the
holdings change, which a notification repairs; when a run ends that began before they
changed; and when a checkpoint comes back after a restart. `Notified` says that the symbols
known to the job are those of the account or a notification is on its way, `Covering`
says what holds while that is not being requested, also of a bundle half written and of
a run that is about to succeed, and `Bundled` and `Founded` where the replacement of the
two files stands. `InRange` (no session ahead of the latest one) is what makes a new session clear
of all of them.

### Guidance, evolution, screen

The same module has the other scenes:

- `ShownIsJudged` (`JudgedTogether`) from `GuidanceAlways`: what is published keeps
  quote and row together (`RowListed`), and a capture takes them in one step
  (`CapturedTogether`), so a later request shows no verdict beside another quote.
- `ChangedOnce` (`ConfirmedOnce`) from `EvolutionAlways`: every change recorded, and every
  one a handler is about to record, has its own spent token (`Accounted` counts them, as
  handlers interleave between the two), and a token known to the registry is later
  than all that were spent on its subject (`TokensFresh`, `SpentOnce`).
- `EvidenceOutOfSample` (`OutOfSample`) from `ScreenAlways`: the invariant is small, the
  work is in the lemmas about dates. Ranks of sessions order as sessions do, also with
  sessions missing (`RanksDiffer`, `DatesOrdered`), windows follow each other
  (`WindowsFit`, `WindowParts`), and a label that matures after an embargo is in no
  training (`EmbargoKept`).

### Backfill and cancellation

`ProgressProofs`:

- `HistoryHasNoHole` (`NoHole`) from `BackfillAlways`: the rows of a symbol are all that it
  traded up to some day (`UpToDay`). A window is merged only when it follows on
  what is held (`FollowOn`, `MergedUpToDay`), which `BatchFits` says of a batch under way,
  whose checkpoint may be older than the log.
- `CancelledStays` (`CancelBinds`) from `CancelAlways`: after the one request that was about
  to be sent, a task is on its way to the end (`Winding`).

### The scenes of the workbench

`WorkbenchProofs`:

- `GivenStays` (`GivenStaysReadable`), `NoFileUnmarked` (`NothingUnmarked`) and
  `StoreImplementsLog` (`StoreIsLog`, the refinement) from `StoreAlways`. A file has its
  marker before it is written (`MarkedAhead`, `FilesMarked`), a blob before it gets its name
  (`BlobsMarked`), and what was handed out is in the manifest that a rollback would restore
  (`PublishedKept`).
- `OnlyJoinsBreak` (`OnlyJoinedLinesBreak`) and `LinesStay` (`HistoryKept`) from `LedgerAlways`:
  while no line was joined, the file is in order, without rivals, and torn in its last
  line at most (`Sound`), and whatever a worker remembers, it appends only what agrees with
  the file at that moment.
- `OneInput` (`OneInputPerDay`) and `ContestsStay` (`ContestKept`) from `ContestAlways`: a
  contest is bound to an artifact from before its start (`StartsLater`), a worker's row agrees with
  those of its day (`Agreed`), an archive is named for its contest (`Named`), and the
  contest a worker holds is active or archived (`HeldKept`). For one tick and one predict
  worker, which is what the module is instantiated with; both are false for two.
- `PublishedIsWhole` (`PublishedWhole`) from `LakeAlways`: a file has no gap in the
  window (`FilesWhole`); each file is to do, failed or up to date for what could be had when
  the refresh began (`ChildKnows`); and what was asked for follows on the file that it will be
  merged with, begins before the window, or replaces it (`AskFollows`), although
  sessions pass and files are damaged meanwhile (`FilesStay`, `ChildStays`). A file that is written
  is then whole (`AnswerWhole`, `UpdatedWhole`).

### Agents, public risk, quotes

`RuntimeProofs`: `ChargesAreCovered` (`ChargesCovered`), `CallsAreVerified` (`CallsVerified`)
and `LimitsAreKept` (`LimitsHold`) from `AgentAlways`. A settlement returns what a request
reserved and did not use, so the budget covers the charges only together with all
requests in flight, of any number of processes. Sums over sets are recursive; the
invariant instead says that there is an additive function of sets of processes (`Adds`)
whose value for all of them the budget exceeds the charges by (`Covers`), and `CoverStep` that
it follows a change at one process.

Of the public risk, without any assumption: `ShownAlwaysKept`, what is published as
adverse is in the store at least as severely, and `AdverseKept` (`AdverseStays`).
`AdverseStays` compares what is shown before and after a step, but the step that publishes
takes the store, which an earlier answer wrote: hence `ShownIsKept`. It is inductive because a step
either publishes what is kept or leaves what is shown, and what is kept only
grows more severe (`StepKinds`, by `RetainedSevere` about `_retain_adverse_evidence`).

Of the quotes: `HandedIsNewest` (`HandedForward`) from `QuotesAlways`. What a caller is
handed comes from the store, and what is newest was decided when an answer was
judged, by this thread or for the other one, possibly polls ago. `StoreNewest` relates
the two: a quote of the store that nobody marked stale is the newest accepted one of its symbol,
or too old to be handed to anybody. To keep it when a slow answer replaces the whole
store, the answer's quotes must be recorded no earlier than they were exchanged
(`QuotesTimely`), also those that wait in `pending` and in the provider's kept snapshot, and a
poll must judge by the instant it began at (`PollKnown`). `JudgedQuotes` says what
`_check_quotes` lets pass, `PutNewest` what `put_quotes` keeps of an older answer.

### The research jobs

`ResearchProofs`:

- `ResearchAlways` (`Spec => []ResearchInv`), and `SuccessIsBelieved` (`SuccessIsOwn`) from it,
  with any retention. A status that claims success names evidence (`FilesKnown`), an
  exited process has an exit code (`ProcessesKnown`), and the table and the
  checkpoint hold one job of each id, whose end says how it ended (`Table`).
- `EndedIsNotReplayed` (`EndedNotReplayed`) from `EndedAlways`: while the workbench is up, what
  the checkpoint records as ended is in the table, and ended (`EndedKnown`). The checkpoint
  is older than the table whenever it could not be written, so this is about two histories of one
  table, and it is false when pruning runs ahead of the checkpoint. Hence the
  hypothesis `AllRetained`: the cycles of all days and fingerprints together are no
  more than are retained (`NothingIsPruned`). The run has 12 of them and the code's 64. A
  longer life of the workbench is beyond the theorem; TLC finds no violation at the bounds
  of the run with `Retained` 2 or 3 either, and one with 1.

### The account and its imports

`AccountProofs`, for any symbols, exports, requests for cash and bounds:

- `DeskAlways` (`DeskSpec => []DeskInv`), and from it `AnsweredStays` (`AnsweredIsKept`) and
  `FileAlwaysReplays` (`FileReplays`). That a file replays is an induction along its
  rows, which no single step shows. `FileFollowed` makes it one over steps: as long as the
  file can be read and no row was written in vain, memory has what the file has, but for the
  row at work, and the rows a confirmation still has to append can be recorded one
  after the other upon what was there before its first (`Upon`). It takes that the
  rows of a preview have ids of their own (`RowsDistinct`), and that what is in memory is
  in the file (`MemoryIsFiled`), which alone gives `AnsweredIsKept`.
- `HoldingsAreAssessed` (`HoldingsAssessed`) from `WatchAlways`: an answered holding is monitored, or
  somebody is on the way to tell of it, with holdings read after it was bought
  (`HoldingsTold`); the risk thread asked for what is monitored, or is or will be woken,
  and what it publishes covers what it asked for (`ThreadFollows`).

`ImportProofs`: `ImportsSayTheirSource` (`ImportsAreTheirSource`) from `InboxAlways`. A preview hashes a
file and reads it a second time. If the two differ, the file has moved on from the
content that was hashed (`PreviewsHonest`), and has it again only by returning to it
(`NotAgain`); so the check of a confirmation refuses the preview.

The run has both modules in scenes, with symbols and exports of its own. `RuntimeProofs` takes
their lemmas by INSTANCE and shows that the steps of the scenes are steps of those
instances (`DeskLink`, `WatchLink`, `ImportLink`): `AnswersAreKept`, `TheFileReplays`,
`WatchAssesses` and `ImportsKeepTheirSource` are the properties of the run itself.

### Model-checked only

Liveness under fairness (`OperationsEnd`, `InterruptionsResolved`, `EveryJobEnds`,
`HoldingsCovered`, `LivelyAdvance`, `TaskEnds`) and anything about `ENABLED` stay with TLC, as the
prover does not support them; so do the properties that the findings violate. What recursive
functions on data compute for every input cannot be proved either, as the induction
theorems of the library take an operator, which no prover here instantiates: hence sums
as additive functions, and the table of jobs as a set with an order instead of
a filtered sequence.

## What is not modelled

- Backup: staged temporary files and their cleanup, the parsing of archives, linked
  paths, journals of the legacy format, loss of power (an `fsync` is taken to be a
  write), and writers that take no lock while a manager works: the code has no
  defence against those.
- Research: what a job computes; the resource monitor; temporary files of
  evidence; two calendars of UTC and Shanghai (one day here); the registration of jobs
  from outside (`register_job`), which no path of the program uses.
- Store: `verify`, which only reads; path policies, links and the encoding of tables.
- Ledger: pending records (no worker writes one), metrics, the timeout of the lock (a
  worker that gives up has not appended). Contest: observations, metrics and gates, which
  no operation of the program calls.
- Screen: the metrics, beyond the sessions they rest on; research snapshots, which
  only tests build.
- Evolution: the rules of `governance.py` and `production_gate.py`, which only tests
  run; a damaged state file, which stops the start.
- Daily lake: adjustments, features, scores and gates of the ranking; a second child
  beside an orphaned one. Daily publication: what is fetched and computed; price
  observations appended while a bundle is staged (they make the commit fail, which any
  commit may); failing recovery at startup; checkpoints damaged on disk (they are
  replaced as a whole and carry a digest): the only rejection is a clock that went back.
- Guidance: the forecast engine (`advisory/engine.py`, `risk.py`, `store.py`), which nothing of the
  running workbench feeds; the dashboard's own rows.
- Realtime: failover between providers, whose index only grows within a call but is
  shared by both threads; the overlay of prices.
- Account: corrections of fills, which no operation of the service makes; amounts, fees
  and the decoding of files beyond the cells read.
- Agent: evidence, prompts, web search and the validation of answers, which are the
  outcomes of a step; the backends that cost nothing.
- Calendar, backtests, features, experiments, strategies, integrations, providers, web
  view and scripts: pure, sequential or external code. Their failures are choices of
  the models.

## Plan

Done: the models of all parts that the workbench runs, and the proofs above.

No safety property that a passing run checks is without a proof. The theorem worth having
next is `EndedIsNotReplayed` without `AllRetained`: that a job pruned from the table is
no longer in the checkpoint or of a cycle that is over, from how far a table can run ahead of
its last checkpoint.

For the model: failover between providers in RealtimeQuotes, several freezers and
predict workers in ProspectiveContest under the lock that would be needed, and a
composition of DailyPublication with PriceGuidance, which meet so far in `PublishDaily`.
