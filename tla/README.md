# OpenADUC: a verification project

OpenADUC is a web console for Active Directory. Its API (`apps/api`, Fastify on Node) keeps
its state in Postgres, writes to domain controllers over LDAP as the signed-in operator, and
reads and writes Entra ID over Microsoft Graph. This directory holds TLA+ modules of the
parts of the API whose correctness depends on the order in which things happen, the TLC
configurations that check them on small instances, and proofs, checked by TLAPS, that their
main properties hold on every instance.

Contents: [the system](#the-system) ·
[how the modules are written](#how-the-modules-are-written) ·
[bulk jobs](#bulk-jobs) · [the sync task scheduler](#the-sync-task-scheduler) ·
[imports](#imports) · [class passes](#class-passes) · [import licenses](#import-licenses) ·
[sessions](#sessions) ·
[findings](#what-the-code-does-otherwise-than-it-says) ·
[what is not modelled](#what-is-not-modelled) · [plan](#plan) · [running it](#running-it)

## The system

Paths are under `apps/api/src`. "Hard" is what makes a part hard to test.

| Component | State | Operations | Hard | What makes it correct |
| --- | --- | --- | --- | --- |
| Bulk jobs engine (`services/bulkJobs/service.ts`) | `bulk_jobs`, `bulk_job_rows`; in memory the `runs` chain, `stopping`, each run's `stopped.pause` | create, revert, resume, retry, cancel, run and its workers, settle, heartbeat, sweep, stop | workers, runs and processes interleave; crashes; late results; a stop, retry or revert at any moment | one run per job, one writer per row, results are final, no job hangs, reverts exclude each other |
| Reverts (`services/bulkJobs/reverts.ts`) | the results and before-values in `bulk_job_rows`, the unique index on open reverts | plan, store, run | planned from results that change before they are stored | only what a job changed is put back, once |
| Row handlers (`services/bulkJobs/handlers.ts`) | none | one directory write each | a directory that doesn't answer, or changes in part | every row ends in a result that says what happened |
| User imports, held passwords (`importRows.ts`, `services/heldPasswords.ts`, `services/importResults.ts`) | columns of `bulk_job_rows`, `import_passwords` | create an account in steps, hold its password, hand it out once, purge it | a retry takes up a row half done; downloads race | no account is made twice, no password is lost or handed out twice |
| Sync task scheduler (`services/syncTasks/scheduler.ts`, `service.ts`) | `directory_sync_tasks`, `directory_sync_task_runs`; in memory `inFlight`, `forced`; an advisory lock per directory | tick, watchdog, forced runs, run, record | ticks overlap; replicas; crashes; two-statement updates | one task per directory at a time, failures counted right, no task row or request is left behind |
| Sync schedules (`services/syncTasks/cron.ts`, `isDueNow`) | none | when a slot falls | calendars, DST | every slot is due once it is past |
| Sync runners and caches (`services/syncTasks/runners`, `*Cache.ts`) | cached users, groups, computers, OUs, policies, photos | full and delta crawls, live refresh | a live refresh races a crawl | caches converge to the directory |
| Sessions, step-up (`services/sessions.ts`, `credentialCache.ts`, `plugins/auth.ts`) | `admin_sessions`, `elevated_sessions`; passwords in memory | sign in, step up (rotates), step down, log out, idle and absolute ends | two tables and a process's memory change in several statements | a password is held no longer than its session lives |
| Login backoff (`services/loginBackoff.ts`) | counters in memory | check, fail, succeed | concurrent attempts | attempts are bounded |
| Class passes (`services/classPasses`) | pass rows with leases | claim, check authority, make in Entra, record, reveal, reissue, reschedule, revoke | Graph and Postgres are not one transaction; leases end; crashes | one live pass per student, none past its class |
| Import licenses (`services/importLicenses`, `services/sweepTimer.ts`) | `import_license_checks` with leases | store, stop overdue, claim, find, read, record | leases end under their runs, retries, replicas, a row that is retried | every check ends by its deadline and stays as it ended, and a settled one was true |
| Audit log (`services/audit.ts`, `auditContext.ts`) | `audit_events` | record, two-phase record, look up what a row created | the process dies between a write and its event | a write that can't be audited isn't made, an import's retry reads back what was done |
| Directory provider (`providers/active-directory`) | connections, the preferred controller | bind, search, modify, fail over | timeouts after a write was sent | a write is not repeated blindly |
| Entra and Graph clients (`services/graphClient.ts`, `entra*.ts`) | tokens in memory | HTTP requests | throttling | retries end |
| Authorization, settings, directory configuration | tables of settings | look up, change | none | |
| Account and group writes (`services/user*Write.ts`) | the directory | one write and a cache refresh | the refresh fails after the write | the answer tells the write's outcome |
| Shared pure logic (`packages/shared`) | none | names, CSV, DNs, phones, schedules | boundaries | round trips |
| Web application (`apps/web`), deployment | browser state | none the server relies on | | |

How they interact:

- A route authenticates the session, audits, and calls a service. Bulk jobs are stored and
  then run *in the process that took the request*, since only its memory holds the operator's
  password (sessions → bulk jobs). Any process may stop, resume, retry or revert any job:
  processes talk to each other only through Postgres.
- Imports, class passes and import licenses are bulk jobs whose rows also feed tables of
  their own; class passes and import licenses are then driven by their own timers and leases.
- The sync scheduler runs in every process. Directories are kept apart by one advisory lock
  each, on connections from a pool of their own.
- Runners and live refreshes write the caches that the routes read.

## How the modules are written

| Module | Contents |
| --- | --- |
| `BulkJobs` | bulk jobs and their reverts: state, actions, fairness, properties |
| `JobLifecycle` | what bulk jobs promise: the states of a job and its rows alone, which `BulkJobs` implements |
| `MCBulkJobs` | the instances of `BulkJobs` the runs use |
| `BulkJobsProofs` | theorems about `BulkJobs` |
| `BulkJobsLimits` | theorems about how far what the code doesn't promise can go: unaudited jobs, stopped jobs' rows, rows in flight |
| `BulkJobsRefinement` | the proof that `BulkJobs` implements `JobLifecycle` |
| `TaskLifecycle` | what the sync scheduler promises: a directory's task rows and its one run, which `SyncScheduler` implements |
| `SyncScheduler` | one directory's task scheduler in several processes |
| `MCSyncScheduler` | the instances of `SyncScheduler` |
| `SyncSchedulerProofs` | theorems about `SyncScheduler` |
| `Imports` | one row of an import through its runs, and the password its job hands out |
| `MCImports`, `ImportsProofs` | its instances, and theorems about it |
| `ClassPasses` | one person's Temporary Access Pass, in the table and in Entra |
| `MCClassPasses`, `ClassPassesProofs` | its instances, and theorems about it |
| `CheckLifecycle` | what license checks promise: one look counts at a time, which `ImportLicenses` implements |
| `ImportLicenses` | the license check of one row of an import, in several processes |
| `MCImportLicenses`, `ImportLicensesProofs` | its instance, and theorems about it |
| `Sessions` | one operator's sign-ins, step-ups and cached password, and first-run setup |
| `MCSessions`, `SessionsProofs` | its instances, and theorems about it |

The specifications share little, and each takes what it needs of another as something that may happen at any
time, which is more than the other does: `BulkJobs` has `armed`, the passwords a process holds, which
`EndElevation` clears at any time (in the code when `Sessions` wipes one); `Imports` has its job's
stop, retry, crash and recovery, without the runs that outlive their heartbeat; `ClassPasses` has `AccountCreated`, and
`ImportLicenses` `RowEnds` and `RowRetried`, the import's doing. Sync tasks and bulk jobs meet only in the directory and its caches, which neither models. None uses a
recursive operator, so that all can be proved about.

**Steps.** Node runs one callback at a time, so what a process does between two `await`s
is one step. A SQL statement is one step, and so is a transaction: each of those modelled
locks, as its first statement, the rows the others of its kind lock. What a process knows
from an earlier read is a variable (`planned`, `snaps`, `prev`).

**Crashes.** `Crash`, or `End` and `Restart`, drop a process's memory at any point and keep
the tables. A statement that throws is an action next to the one that succeeds. An
advisory lock ends with its session.

**Bounds.** Operator calls, faults, lapsed heartbeats and slots are counted, and the counters
bounded by `MaxCalls`, `MaxFaults`, `MaxLapses` and `MaxSlots`. They exist for TLC: the
proofs hold for any values.

**Seeded bugs.** Directly above some operators stands a variant with the same parameters and
a plausible bug in it (a dropped guard, a missing reset). No action uses a variant. Each property a run
checks fails when one of them takes the operator's place, which shows that the run is large
enough to notice.

## Bulk jobs

### Model and code

`service.ts` below is `services/bulkJobs/service.ts`.

| Variables | Code |
| --- | --- |
| `status`, `reason`, `token`, `fresh` | `bulk_jobs.status`, `pause_reason`, `run_token`, and whether `heartbeat_at` is within `STALE_AFTER` |
| `headed` | whether the job's `bulk.create` event was written |
| `planned` | reverts planned from the reverted job's current `finished_at`, held by a request |
| `rowStatus`, `rowToken` | `bulk_job_rows.status`, `run_token` |
| `phase`, `runProc`, `runJob`, `pause` | a run: where in `run()` and `settle()` it is, and its `stopped.pause` |
| `pc`, `at` | a worker of a run: the await it is at, the row it holds |
| `announcing`, `kicked`, `sweeping`, `armed`, `proc` | a process: requests between their UPDATE and their audit event, the `runs` chain, jobs whose rows a sweep has still to fail, passwords held, up / stopping / down |
| `givenUp` | history: rows a sweep failed under a worker still writing them |

| Actions | Code |
| --- | --- |
| `Create`, `PlanRevert`, `CreateRevert`, `AnnounceOk`, `AnnounceFails` | `create`, `revert`, `insert`: the plan, the guarded insert, the audit event, the kick or the deletion |
| `StartRun`, `StartUnbuilt`, `StartNothing` | `kick`, `run`: the job is claimed with a fresh token, its handlers can't be built, or it is not queued any more |
| `Check`, `Claim`, `Look`, `RunOutcome`, `RunUnavailable`, `Release`, `Record`, `WorkerFails` | `worker`, `claimRow`, `waiting`, `runRow` |
| `SettlePause`, `SettleFinish`, `SettleRows`, `SettleFails` | `settle`, `interruptRows` |
| `Cancel`, `Resume`, `Retry`, `EndElevation` | `cancel`, `resume`, `retryRows`; a session's end |
| `Beat`, `Lapse`, `Sweep`, `SweepRows`, `SweepFails` | the heartbeat and `recoverStale` |
| `Stop`, `End`, `Restart` | `stop()`, the end of a process by stop or crash, its next start |

What a row writes is left out; `Outcomes` is how rows of the action can end. Rows are claimed in
any order their `after_ordinal` allows.

### The abstract specification

`JobLifecycle` keeps only what a reader of the two tables sees: each job's and row's status, and
which rows were given up (`BulkJobs!Lifecycle` maps them to `status`, `rowStatus` and `givenUp`). It has no runs,
tokens, workers, processes or heartbeats. A job turns (`Turn`: queued, running, finished, paused, queued
again) with its rows as they are, or it is deleted (`Drop`), stopped (`Stop`: the rows that wait are skipped), or
retried (`Retry`: the failed and partial rows wait again). A row starts only in a running job (`Claim`), and
ends or is put back from `running` whatever its job does (`Record`), or is failed (`GiveUp`). What it rules out is
what a late or lost run could do: change a result that was recorded, restart a row in a stopped job,
start a job that nobody continued. It allows two things on purpose, because the code does: a row that a sweep gave up
may still change until it has succeeded, and a row of a stopped job may be put back to `pending` (a finding).

Jobs step independently (`Next` is a conjunction over jobs) because `recoverStale` pauses every
stale job with one statement.

### Runs

| Run | Question | Bounds, and why they are enough |
| --- | --- | --- |
| `BulkJobsEngine` | Is a job run by one run, a row written by one worker and none forgotten, and what can a run that lost its job still do? (`TypeOK`, `OneRunHolds`, `OneWriter`, `AuditedUnlessContinued`, `OneFaultStrandsNone`, `FinishedWhole`, `Implements`) | Two processes, two workers, two rows of which one waits for the other: workers compete, one is idle while the other holds what it waits for. Two runs, a lapse, a call and a fault at any step: a job is taken from a live run, resumed in either process, and the first run's late results come in. Rows succeed or fail of a fault; `BulkJobsReverts` has the other outcomes. A call, a fault and a lapse each also come alone, which is what `OneFaultStrandsNone` is about. A third run or a second call adds nothing the theorems below don't cover. |
| `BulkJobsReverts` | Do reverts exclude each other and the job? (`OneOpenRevert`, `PlansAreCurrent`, `RevertsApart`) | A job and two reverts, one row each, two calls: each pair of create, stop, retry and store happens in both orders. |
| `BulkJobsLive` | Does a queued or running job always end, pause or stop? (`JobsSettle`) | Two rows of which the second waits for the first, so that a worker goes round its one unbounded loop (nothing to claim, `waiting()`, sleep, check); two workers, two runs, a call, a fault and a lapse: a resumed job waits for what its first run had in flight. One outcome, since a wait does not look at how the row before ended. No symmetry. |

Deadlock is not checked: a system whose jobs are done and whose bounds are used up stops.

**Fairness** (`FairSpec`). Weak fairness of a request's continuation after its UPDATE, of a
kicked job's start, of workers and settles (awaited calls return or throw: LDAP and SQL calls
have timeouts), of the heartbeat and sweep timers, and of a supervisor that starts a process
again. `Lapse` is fair only for a job nobody attends: its `heartbeat_at` then gets old by
itself. Nothing is assumed of operators, sessions and faults.

`JobsSettle` names the one way a job can stay in `running` for ever, with a fresh heartbeat: a row of it waits for a row
that is in flight under an older token, and that no worker, settle or sweep will end (`Stranded`). A sweep that dies
between pausing a job and failing its rows leaves one. TLC refutes the property without the exception,
`EveryJobSettles` ([below](#divergences-without-a-run)).

### Proofs

For any jobs, rows, processes, workers, tokens and bounds:

| Theorem | States |
| --- | --- |
| `TypeCorrect` | `[]TypeOK` |
| `OneRunHoldsAlways` | `[]OneRunHolds`: a job is running exactly while one run of that job holds its token |
| `OneWriterAlways` | `[]OneWriter`: no row is written by two workers, unless a sweep failed it under one of them |
| `SucceededStays` | `SucceededIsFinal`: a success is never taken back (no run checks it by itself: `Implements` says it too) |
| `OneOpenRevertAlways` | `[]OneOpenRevert` |
| `RevertsStayApart` | `RevertsApart`: while a revert may write, nothing starts the stopped job it reverts, and the two only come to write at once by a retry of the revert |
| `PlansStayCurrent` | `[]PlansAreCurrent`: what may be stored as a revert was planned after its job last stopped |
| `FinishedWholeAlways` | `FinishedWhole`: only the run that holds a job finishes it, its workers done, and leaves no row waiting but those a run that had lost the job put back |
| `EngineImplementsLifecycle` | `Implements`: every step is a step, or a stutter, of `JobLifecycle` |
| `LifecycleKeepsRows` | of `JobLifecycle` alone: a success is never taken back, and a row starts only while its job runs. So the engine has both by the refinement |
| `UncontinuedIsAudited`, `AuditedUntilContinued` | of any job nobody resumes or retries, a row runs only once `bulk.create` was written; so `[]AuditedUnlessContinued` |
| `StoppedTookUpAllAlways` | `[]StoppedTookUpAll`: a row that waits in a stopped job was put back by a run that had lost it |
| `OneFaultStrandsNoRow` | `[]OneFaultStrandsNone`: one crash, stop, failed statement, lapse or call leaves no row in flight for ever |

The assumptions are `ConstantsOK` and, for `FinishedWholeAlways`, `SomeWorker`: a run without workers would finish at once and
leave every row (`ROW_CONCURRENCY` is 4). Six inductive invariants carry them, because most of the properties are not inductive by themselves.

- `RunInv`, for `OneRunHolds`: a token in use names a run of a job and a process
  (`RunsAreOfJobs`), also the token of a claimed row (`RowsClaimedByRuns`), and workers work only
  for a run that is working, in a process that is up (`WorkersWork`). So a token that starts a run is
  fresh: no job holds it, no row carries it, no worker works under it.
- `RowInv`, for `OneWriter` and `SucceededStays`: a worker's row is a row of its run's job
  (`HoldersHold`), carries the run's token and is `running` until a sweep gives it up (`HeldUntilGivenUp`), or
  is running or failed as long as the run holds the job (`HeldWhileCurrent`); no two workers of a
  run have the same row (`HoldersDiffer`); and a result that will count is not recorded yet
  (`NotYetRecorded`). Two workers of different runs then differ in the token the row would carry.
- `RevertInv`, for the revert theorems: one open revert, counting a stopped one whose rows are in flight
  (`MayWrite`), and no reverts of reverts. It is kept because only storing and retrying a job make one
  that may write of one that may not, and both look for open reverts under the lock on the reverted job's row.
- `FinishInv`, for `FinishedWholeAlways`, on top of `RunInv`: a worker of a run that nothing disturbs is done only when
  none of the run's rows waits (`DoneWhenDrained`). A run is undisturbed while it holds the job, has no reason to
  pause and its process is up, and once disturbed it stays so, so only a worker's end and a row put back can break it: the
  first happens when nothing is left to claim or wait for, the second only with a reason to pause (`ReleasesPause`).
  `StoppedTookUpAll` is inductive with `RunInv` and `FinishInv`.
- `AuditedFirst(j)`, for the auditing theorems: nothing has continued the job, and it is kicked, runs or has a row run only once
  it is audited. It is of one job, so it holds however many others are continued.
- `StrandInv`, for `OneFaultStrandsNoRow`. Without a fault a worker has every row in flight (`Held`). As long as nothing has done
  harm, the row's run also has the job, and beats (`Smooth`). One fault takes a row out of its worker's
  hands, but the row's run then still has the job and is over or about to pause it, or is failing its rows, or a sweep is (`InHand`);
  and a process that is stopping has had its fault already (`StopsCounted`). A call or a lapse takes a row's run away but not its worker.

`EngineImplementsLifecycle` (in `BulkJobsRefinement`) rests on `RunInv` and `RowInv`. `HeldUntilGivenUp` and
`NotYetRecorded` are what makes a worker's late UPDATE a `Record`: a row that still carries the run's token is running, or was
given up and has not succeeded. It needs one invariant of its own, `Announced`: a job whose creation
is not audited yet has a record and one request that created it, so a failed audit deletes a job that exists. Steps that leave the rows alone
are handled together (`RowsAlone`), and those that move the rows of one job by `RowsOfOne`.

Every property of the runs is proved but `JobsSettle`: TLAPS does not prove liveness under fairness. `OneFaultStrandsNone` is
about safety for that reason: it says that somebody is there to end the row, and `JobsSettle` that they do.

## The sync task scheduler

### Model and code

Directories share nothing but the timer, so `SyncScheduler` is one directory. `scheduler.ts` and
`service.ts` are those of `services/syncTasks`.

| Variables | Code |
| --- | --- |
| `enabled`, `row`, `due`, `overdue`, `failures` | `directory_sync_tasks`: `enabled`, `last_status`, whether a slot has passed since `last_started_at` (`isDueNow`), whether `watchdogMinutes` have, `consecutive_failures` |
| `entra` | the Entra integration is enabled and has its secret |
| `open`, `orphans` | `directory_sync_task_runs` with status `running`: those whose run is alive, by process, and the tasks with one whose run is gone |
| `lock`, `unlocking` | the session that holds `pg_advisory_lock(SYNC_LOCK_CLASS, directory)`, and whether it is about to release it |
| `busy`, `pc`, `ran`, `ok`, `prev` | a process's run: `inFlight`, its await, whether the runner returned, the result to record, the count `markFinished` has read |
| `forced`, `snaps` | the `forced` set of a process, and what its ticks have read and still act on |
| `streak` | history: failures recorded since the last success |

| Actions | Code |
| --- | --- |
| `SlotArrives`, `RunsOver` | time: `isDueNow`, `watchdogMinutes` |
| `Trigger`, `SetEnabled`, `SetEntra` | `triggerNow`, `update`, the integration's `update` |
| `TickRead`, `WatchdogFails`, `WatchdogCloses`, `WatchdogSkips` | `tick`: the reads, `resetStuck`'s two statements for each stuck row, and the pick (`Candidates`, `Picked`, `Runnable`, `Pick`), which is in the same step as the last read or reset before it |
| `TakeLock`, `LockRefused`, `Unlock` | `runTask` |
| `CheckOk`, `CheckGone`, `RunnerEnds`, `RunFails`, `RecordFails`, `Leave` | `runTaskInProcess`: prerequisites, runner, catch, finally |
| `MarkStarted`, `OpenHistory`, `MarkFinished`, `CloseHistory` | the two statements each of `markStarted` and `markFinished` |
| `Crash` | the end of a process |

A tick may begin at any time, which covers the timer and every wake-up, so a wake-up that is
lost costs time only. The removal of the Entra integration is modelled as its being turned off and its rows
disabled. A connection of the lock pool is taken to live as long as its process.

### The abstract specification

`TaskLifecycle` is what whoever reads the task rows may rely on: a directory has one run at a time, which begins, says so in
its row, and ends as succeeded, failed or not recorded at all; only a run that started succeeds, and success alone
ends a row of failures; a failure counts one; a reset row isn't counted. It has no processes, ticks, snapshots,
lock or history rows. Its run is that of the lock's holder: `AtTask` is the task of the process that holds the lock and
is at work, `AtStage` how far it is. `MarkFinished`, which writes a count read a statement before, is one step of `TaskLifecycle`'s
`Succeed` or `Fail`; a tick, a trigger, a tick's refusal and an unlock are stutters.

### Runs

| Run | Question | Bounds, and why they are enough |
| --- | --- | --- |
| `SyncTasks` | Is one task at work at a time, and do the task rows tell what that one did, counted once? (`TypeOK`, `OneTaskAtWork`, `Implements`) | Two processes; a task and the one it triggers, by the registry's priorities; a call and a fault at any step, so that a task is run again after a failed record, a crash or a request. |
| `SyncLive` | Does a forced task get its run, and does no row say `running` for ever? (`ForcedStarts`, `RowSettles`) | One process, an AD task and an Entra task, a slot, a call, a fault. |
| `SyncStarved` | [Finding](#what-the-code-does-otherwise-than-it-says) | The smallest instance that shows it. |

`MaxTicks` bounds the ticks of a process that are resetting stuck rows at the same time; other ticks are one step and
not bounded. `ForcedStarts` is about a bounded number of other runs: in a deployment whose
other processes always happen to hold the lock when this one ticks, a forced task waits as long as they do.

**Fairness.** Weak fairness of ticks (a timer that is never cleared), of the steps of a run and of the watchdog (awaited
calls return), of the unlock, and of `RunsOver` for a row whose run is gone: time passes. Nothing of operators, slots and faults.

### Proofs

For any processes, tasks, prerequisites, triggers and bounds:

| Theorem | States |
| --- | --- |
| `TypeCorrect` | `[]TypeOK` |
| `OneTaskAlways` | `[]OneTaskAtWork` |
| `SchedulerImplementsLifecycle` | `Implements`: every step is a step, or a stutter, of `TaskLifecycle` |
| `SuccessClearsAlways` | a task whose row says `succeeded` has no failures counted: proved of `TaskLifecycle` alone (`LifecycleClears`), and inherited |
| `FailuresCountedAlways` | `[]FailuresCounted`, which no run checks by itself: `Implements` says what each step adds to the count |

`RunsInv` says that a process at work has the lock *and isn't about to release it*. The
second half is what makes it inductive: a finished run frees its process before its
`pg_advisory_unlock`, so without it the unlock could take the lock from a later holder.
`CountInv` adds that the count a run is about to write is based on the row's. It is inductive
because of the lock: nobody else is between the two statements of `markFinished`, and neither
the watchdog nor an operator writes `consecutive_failures`.

`SchedulerImplementsLifecycle` takes the steps of the process at work one by one (`LifecycleStep`). `RunsInv` makes that
process the only one, so nobody else's step moves `AtTask` or `AtStage` (`SeenRun`, `SeenNone`), and `CountInv` makes
the count that `MarkFinished` writes the row's own plus one, also after a watchdog or an operator has written the row between.

All use only the assumption `ConstantsOK`. `ForcedStarts` and `RowSettles` are liveness and
stay with TLC.

## Imports

### Model and code

A row of an import makes an account in steps (create, set the password, enable, then groups and
manager), and a retry takes up what an earlier run did. `Imports` is one such row, the password the job holds for it, and
the requests that download the job's results. Rows share only the job's own facts, so a job of one row is enough.

| Variables | Code |
| --- | --- |
| `mode`, `enables` | the plan's password mode (`random`, `generate`, `set`), whether accounts are enabled |
| `job`, `downloaded` | `bulk_jobs.status` (`queued` under `running`), `results_downloaded_at` |
| `row` | `bulk_job_rows.status`, `attempts`, `after_json` (the progress) |
| `audited` | `completed` of the job's last `user.create` event with a create |
| `account`, `made`, `lost` | AD: the account a run made last (`ours`) and one that somebody else made (`theirs`): the steps done to it, the password a run set, whether it has the row's names, whether it is from before the job, or made since and enabled or not; history: how many accounts the runs made, and how many accounts made since the job were renamed before the row's create was audited |
| `held` | `import_passwords`: what isn't expired, since no query takes an expired one |
| `pc`, `seen`, `progress`, `using`, `told`, `out` | the run: its await, `results_downloaded_at` as it read it, its progress, the password it sets, what AD answered, its outcome |
| `dl`, `shown` | a download: where it is, what it took, what its CSV shows |
| `crossed` | history: the downloads that a retry came in the middle of |

| Actions | Code |
| --- | --- |
| `Claim`, `Settle`, `Resume`, `Retry`, `Cancel`, `Crash`, `RecoverStale` | the job around the row (`services/bulkJobs/service.ts`) |
| `ReadFacts`, `AskAudit`, `Adopt`, `FindCreated` | `runImportRow`'s start: the job's facts, `createdBefore`, `adopt` with `adoptable`, `findCreated` |
| `PasswordFor`, `Hold` | `passwordFor`, `holdPassword` |
| `Write`, `Record` | `createUser` or `finishUserCreate` (with `remainingSteps`), and the audit event after it (`mergeSteps`) |
| `Rest`, `RecordOutcome`, `Throws`, `Unanswered`, `Unrecorded` | groups and manager, `runRow`'s UPDATE, and the ways a run ends early |
| `Ask`, `Look`, `Take`, `Csv` | the results route: its checks, `takePasswords`, `importResultsCsv` |
| `Expire`, `Rename`, `TakeNames` | time; other administrators, who rename either account or make one of the row's names, and enable it or leave it disabled, at any time |

`Write` leaves some steps done in AD and tells the run of some of them: a step may fail, or be done and its answer
lost, or a bind fail before the first.

### Runs

| Run | Question | Bounds, and why they are enough |
| --- | --- | --- |
| `Imports` | Does a retry take up exactly what was done, and does the CSV's password work? (`TypeOK`, `CreatedOnce`, `ForeignUntouched`, `ProgressTrue`, `HandedWorks`, `HandedOnce`) | Three runs: a create, a retry of what it left, and a retry of that. A fault: an answer lost, an error, or a crash, also between a create and its audit event. A change by others at any step: the names taken by an account that is enabled or isn't, or an account renamed, so that a second one is made after a crash and a rename, and somebody else's is adopted after a run that failed. Two downloads, which race. Every mode. Two faults and two changes were checked with one download; the theorems are for any number. |
| `ImportsUnset` | [Finding](#what-the-code-does-otherwise-than-it-says) | The smallest instance that shows it. |

No liveness is stated: that jobs end is `BulkJobs`' `JobsSettle`, and a row is retried only if somebody asks.

**Crossed downloads.** A retry may come at any time, also between a download's check that the job has stopped and its answer.
Then the retry's run reads that nothing was downloaded, the download takes password P1, the run holds and sets P2, and the CSV shows P1 for
a row that doesn't say it fell back. Code and docs promise nothing about it, and the operator's remedy is a reset, so it is no
finding. `HandedWorks` says that there is no other way: it excepts the downloads of `crossed`, and no others. `AllHandedWorks`,
without the exception, is refuted in 25 states ([below](#divergences-without-a-run)).

**Accounts known by their names only.** Until the create's audit event is recorded, only the row's names tie an account to
the row. `adopt` then takes an account of those names that was made since the job and is still disabled. So a rename of the row's
own account before that event makes the next run create another (`made <= 1 + lost`, where a `lost` account is one that was renamed so), and an account that
somebody else made since and left disabled is taken for the row's and gets a password (only while every account of the runs'
own is lost: `made <= lost`). `CreatedOnce` and `ForeignUntouched` say that it goes no further; what the
comments promise, `NeverTwice` and `OthersUntouched`, isn't so ([below](#divergences-without-a-run)). The accounts of such a row
differ in what they know of the password, which is why `HandedWorks` is about rows with `lost = 0`.

### Proofs

For any number of runs, downloads, changes and faults: `TypeCorrect`, `OneAccount` (`CreatedOnce`),
`OthersLeftAlone` (`ForeignUntouched`), `NothingSkipped` (`ProgressTrue`), `TakenOnce` (`HandedOnce`) and
`ShownWorks` (`HandedWorks`). The only assumptions are `ConstantsOK` and `NoProgressOK`.

`IInv` carries the first five. That a row makes one account is not inductive: a run creates when it has no progress, so it must be
known that *no progress means nothing was made, or what was made will be found, or it is lost*. `MadeInv` counts: until a create is
audited, the accounts made since the job and left disabled (the runs' and somebody else's) are those lost and the one, if any,
that has the row's names (so that `adopt` or AD's refusal of a taken name finds it). Both bounds follow from that equation. `Own` says that progress is about the row's
account, claims nothing that isn't so, and *nothing less than the audit event*, `RunInv` that a run without progress has looked in
both places. `HInv` adds what `HandedWorks` rests on: `GoodInv`, that once anything (the row, its run, the audit
event) says the password is set and shown, what is held, taken or shown is the account's; `UsingInv`, that a
password about to be set is the held one, or the results were downloaded since the run looked, or it is marked as a fallback because the held one
is gone; `ApartInv`, that the job stays stopped while a download is answered that no retry crossed; and `MissedInv`, which carries the
boundary: when a run hasn't seen that results were downloaded, no download but a crossed one has taken or shown a password. The run that
misses one may thus set a password of its own and contradict nothing. TLC checked `HInv` on a smaller instance before it was proved.

## Class passes

### Model and code

Passes share nothing but their class's authoriser, so `ClassPasses` is one person's: the row in
`class_passes`, the class, the pass in Entra, and the runs at work. `service.ts` is
`services/classPasses/service.ts`.

| Variables | Code |
| --- | --- |
| `row` | `class_passes`: `status`, `claim_token`, whether `next_attempt_at` has come, `entra_method_id`, `stale_method_id`, the pass `pass_enc` holds, whether `message` says to delete a pass by hand |
| `authoriser`, `lapsed` | `import_classes`: who authorises, `authority_lapsed_at` |
| `created`, `over`, `on`, `admin`, `able`, `wasUnable` | the account is made; the class is over; the feature is on; the holder is an administrator; who may issue passes (now, and ever not) |
| `entra`, `used`, `ids` | Entra: the person's pass, whether it's used, the ids given out |
| `pc`, `seen`, `made`, `answer` | a run (a sweep or an operator's call): its await, what it loaded, the pass it made, what AD or Graph answered |
| `observed`, `live` | a process's `observedSpent` and `liveStatus` |

| Actions | Code |
| --- | --- |
| `SweepBegins`, `AuthorityRead`, `AuthorityWrites`, `ClaimDue`, `Load` | `sweep`: what needn't be held goes, `checkAuthority`, `claimDue`, the claimed row |
| `DeleteStale`, `ClearStale`, `Preflight`, `Post`, `Record`, `Undo`, `RecordUndone`, `Settle` | `make`, `attempt`, `record`, `recordMade` |
| `Recheck`, `RecordRecheck`, `RevokeDeletes`, `RecordRevoke` | `recheck`, `revoke` |
| `Reveal`, `RevealChecks`, `Roster`, `RosterAsks`, `Reissue`, `Reschedule`, `TakeOver` | the operators' calls |
| `DueComes`, `StatusAges`, `Crash` | leases and retries end, the cached status expires, a process dies |
| `AccountCreated`, `ClassEnds`, `BecomesAdmin`, `SetFeature`, `AbilityChanges`, `Used`, `GivenElsewhere` | what happens outside |

### Runs

| Run | Question | Bounds, and why they are enough |
| --- | --- | --- |
| `ClassPasses` | Is a pass ever left behind, or a person left waiting? (`TypeOK`, `NoPassBehind`, `PausedForAuthoriser`, `StraysExplained`, `WaitingSettles`, `AdminLosesPass`) | A sweep and an operator's run, so that a run works on under a lease another has taken; two calls or outside changes, a fault and a lapsed lease: a pass is made, replaced while being made, and its deletion fails. Two operators: a takeover during the check. Seven ids are never used up. |
| `ClassPassesSpent` | [Finding](#what-the-code-does-otherwise-than-it-says) | The smallest instance that shows it. |

Two sweeps add only a second run that loses its lease, which the operator's run is. That is what TLC sees; the
theorems are for any number of processes.

**Fairness.** Weak fairness of `DueComes` (time), of each process's sweep (a timer) and of each run's steps (HTTP and
SQL calls time out). `WaitingSettles` and `AdminLosesPass` need no more, because faults are bounded: a Graph that never
answers keeps a person waiting, as it should.

### Proofs

For any processes, calls, ids, operators and bounds: `TypeCorrect`, `NothingLeftBehind`
(`NoPassBehind`), `PausedForItsOwn` (`PausedForAuthoriser`), `NoOtherStrays` (`StraysExplained`), and `OnlyDeadForgotten` (`ForgetsOnlyDead`, which
no run checks by itself: `StraysExplained` says as much of the passes that matter, those in Entra).

`NoPassBehind` is not inductive: `Record` issues a pass and must know that the one it replaces is gone. `ClaimStands` says
so: a run whose claim the row still bears sees the row as it is, so one past `ClearStale` works on a row with nothing
to delete. It holds because every update that changes those columns also takes or clears the claim. `IdsGiven` says that every id a
row or run knows was given out, so a new one is nobody's; `LapseSeen` that an answer of AD's that would pause a class
is about an operator who was unable. `ForgetsOnlyDead` then compares, step by step, what the row knows of before and after.

`StraysExplained` says the same of Entra: a pass that is there, and that neither the row nor a run knows of, is there because
somebody gave it outside the class, a process died, the POST's answer was lost, a run that had lost its claim could not
delete what it made, a reveal revoked, or with the person told. It needs `MadeInv` as well: a run knows of a pass it made until it has
recorded it, deleted it or stored its id to be deleted.

### Seen in modelling

Not findings, as no text says otherwise: a reveal that finds its holder an administrator overwrites the row
unconditionally, so a pass given meanwhile by a reissue is forgotten (hence the exception in `ForgetsOnlyDead`); a reschedule during
a make leaves a new pass that Entra lists and the row doesn't know until the make undoes it, or, if it crashes first, until it expires
(the next sweep reports `other_pass`); so does an answer to the POST that is lost. Entra deletes every pass at its end.

## Import licenses

### Model and code

Checks share only Graph's throttling of a directory, so `ImportLicenses` is the check of one row, in any number of processes.
`service.ts` and `rules.ts` are those of `services/importLicenses`.

| Variables | Code |
| --- | --- |
| `check` | `import_license_checks`: `status`, `claim_token`, whether `next_attempt_at` has come, whether `started_at` and `synced_at` are set, `entra_user_id`, the groups in `licenses` and those of them not pending, and whether `error_code` is `not_in_groups` |
| `row`, `joined` | `bulk_job_rows.status` (`open`: pending or running), the groups joined in `after_json` |
| `syncOver`, `settleOver` | `SYNC_WINDOW_MS` and `SETTLE_WINDOW_MS` are over |
| `on` | the feature, for the directory (`directoriesWith`) |
| `entra`, `ids`, `granted`, `ever` | Entra: the person, the ids given out, the groups whose license it lists on them; history: those it ever listed |
| `pc`, `seen`, `answer` | a process's sweep: its await, what it has read, what it is about to record |
| `late` | sweeps whose `TICK_BUDGET_MS` are over before the retry they have recorded is due |

| Actions | Code |
| --- | --- |
| `SweepBegins`, `SelectOverdue`, `StopOverdue` | `sweep`, and `stopOverdue`'s query and UPDATE |
| `ClaimDue` | `claimDue`'s UPDATE, or the end of the sweep: nothing due, throttled, no time left |
| `Load`, `Find`, `Read`, `Record` | `claimDue`'s second query with `check`'s look at what was joined; `sidOf` and `findEntraUser`; `assignmentStates`; `record` and `update` |
| `Throws` | a statement or `graph.build` throws, or the process dies: the claim stays until its lease ends |
| `DueComes`, `SyncWindowEnds`, `SettleWindowEnds` | time |
| `RowEnds`, `RowRetried` | the import's row, as `BulkJobs` and `Imports` have it |
| `Syncs`, `Lists`, `PersonGoes`, `SetFeature` | Connect Sync, group-based licensing, a deletion in Entra, the switch |

### The abstract specification

`CheckLifecycle` is a check as whoever reads it may think of it: one look at Entra at a time counts; it begins on a waiting check of a
row that has ended, aims at what the row has joined *after* that, sees what Entra lists *after* that, and is recorded once or not
at all; nobody takes the check from it while its lease lasts; a check that is given up takes its look with it; nothing is written of an
ended one. It has no sweeps, claims, people's ids, windows or retries. In the code any number of looks may be under way at once, each in a
process that lost its lease without knowing. The one that counts is the claim's holder's, if that is at work: `AtLook` is how far it is,
`AtGroups` and `AtSees` what it has read. The claims of dead runs, and every read of a run that has lost its claim, are stutters.

### Run

`ImportLicenses` checks, under `FairSpec`, `TypeOK`, `SettledIsTrue`, `Implements` and `ChecksEnd`. Two processes: a run
works on under a lease that another's sweep ends or claims anew. One group: joined or not, listed or not; with more, a row joins some and a
check looks for some, which the theorems cover. One retry, deletion or switch, and one fault or lapsed lease at any step.
Graph may refuse, fail or not find the person at every look, without a bound.

**Fairness.** Weak fairness of time (`DueComes` and the two windows) and of each process's sweep (a timer; awaits
return). Not of the import, Connect Sync, Entra or Graph's good answers: `ChecksEnd` needs none of them. It is about a promise of the
comment at `service.ts:15`, that a check's deadline is enforced whatever Graph answers, and rests on two things that the code's numbers justify:

- A sweep claims for 25 seconds from `stopOverdue`'s end, and a retry is due 30 seconds or more from its look's start. So the sweep that recorded
  a retry does not claim the check again, and comes back to `stopOverdue` first (`late`). *Another* process's sweep may: a look
  can take longer than the difference of five seconds (a throttled request waits up to ten, `graphClient.ts:75`, and `fetch` has no timeout), and
  a sweep that passed `stopOverdue` while the check was claimed then finds it due. Nothing in the code keeps two processes from
  passing each other so for ever, and `ChecksEnd` says that nothing else keeps a check waiting: it ends, or again and again one sweep is past its
  `stopOverdue` while another's look holds it (`Passed`). `AllChecksEnd`, without that, TLC refutes.
- Leases of 10 minutes end under a live run only a bounded number of times, and so do statements or `graph.build` fail. A `graph.build` that
  always throws does keep a check waiting only until the next sweep past its deadline, but another process that takes it up each
  time its lease ends, just before that sweep, could put it off.

### Proofs

For any processes, groups, calls and faults: `TypeCorrect`, `SettledTrue` (`SettledIsTrue`), `ChecksImplementLifecycle`
(`Implements`), `LifecycleEnds` (`CheckLifecycle` alone implies that an ended check shows what it showed for good, and that no look at it
counts), and `EndedStays` (`EndedForGood`, which no run checks by itself).

`Implements` and `EndedForGood` need only that *an ended check bears no claim* (in `TypeOK`), so no late `update` finds its token:
`Record` changes something only under its claim, and then it is `CheckLifecycle`'s (`RecordRecords`); a process
has one run, so a claim it left by dying is never taken for that of its next sweep, which isn't at work until it claims. `LoadAims` and `ReadSees` say the
same of the two reads, which is where a result read before the claim would show.
`SettledIsTrue` needs `Looking`: a run past the `not_in_groups` return looks for some group, since a check for none would settle at once; and
what it read Entra has listed, which stays true however late the run records it. `ChecksEnd` is liveness and stays with TLC.

### Seen in modelling

`stopOverdue` reads, then updates whatever is waiting and unclaimed by then: a check that another process has found synced in between,
and let go, is stopped with the reason read before (`sync_timeout`) although its two hours have just begun.

## Sessions

### Model and code

One operator, one API process (a second's start would end the first's elevated sessions: `onReady` revokes them all), any number of
requests at once. `sessions.ts`, `credentialCache.ts` and `loginBackoff.ts` are those of `services`.

| Variables | Code |
| --- | --- |
| `admin`, `elevated` | `admin_sessions`, `elevated_sessions`: state, the session rotated from, `last_seen_at`, `expires_at`, `idle_expires_at`. A sign-in session has at most one elevated session, so both bear its id |
| `directories`, `setupLock` | configured directories, `SETUP_LOCK_KEY` |
| `up`, `cache`, `fails`, `locked` | the process; the credential cache's entries and their ends; backoff's failures and lock |
| `known` | tokens the browser was given, in whichever tab |
| `pc`, `kind`, `on`, `new`, `idle`, `hit` | a request: its await, what it came for, its session, the one it makes, the idle end it has read, whether its UPDATE hit |
| `forgotten` | history: sessions whose password a request has wiped |

| Actions | Code |
| --- | --- |
| `Sends`, `Resolve`, `Find`, `Activity`, `Extend` | `plugins/auth.ts`: `resolve`, `findActiveElevated` with the cache, `recordElevatedActivity`, `extend` |
| `Login`, `Bind` | `/login`, and the bind of a step-up, between backoff's `check` and `recordFailure` |
| `Mint`, `Elevate`, `RevokeAdmin`, `DropElevated`, `Wipe` | `createAdminSession`, `rotateAndElevate`, `revokeAdminSession`, `/logout`, `/step-down` |
| `SetUp`, `SetUpLocks`, `SetUpLooks`, `SetUpCreates` | first-run setup (`routes/setup.ts`) |
| `Tick`, `Sweep`, `FailuresAge` | time and the timers |
| `StatementFails`, `Crash`, `Start` | a query that throws, the end of the process, `endOpenElevatedSessions` |

### Run

`Sessions` checks, under `FairSpec`, `TypeOK`, `PasswordWithinSignIn`, `OldTokenDead`, `WipedStaysWiped`, `FailuresBounded`,
`OneSetup`, `EndedStaysEnded` and `DeadPasswordGoes`. Two requests at once and three in all: a sign-in, a step-up, and
anything else beside or after it. Two sessions: one, and its rotation. A clock of three, timeouts of one and two: the
elevated session idles out before either session ends, and the sign-in session ends before the clock stops
(`ClockLeft`). A failure locks out, so that one success and one failure, or two failures, race. One crash or failed statement.

**Fairness.** Time passes, the sweep is a timer, awaits return. Requests need not come, nor need a process that ended
start again (its memory is empty).

### Proofs

For any sessions, finite set of concurrent requests, timeouts, threshold and bounds: `TypeCorrect`, `PasswordsEnd`
(`PasswordWithinSignIn`), `OldTokensDie` (`OldTokenDead`), `NothingPutBack` (`WipedStaysWiped`), `FewFailures`
(`FailuresBounded`), `OneSetupOnly` (`OneSetup`), `EndedForGood` (`EndedStaysEnded`).

`IInv` says of each session (`RowInv`) that its ends are ordered, cache within elevated within sign-in within the session it was
rotated from; of each request (`RequestInv`) that the idle end it carries is no later than its elevated session's,
that the session it makes is known to no browser yet, and that it reaches the cache only after the old one was revoked;
that no two requests make the same session (`OwnNew`); that setup looks and creates only under its lock
(`LockInv`); and that *failures plus binds under way* are bounded once a lock is set (`BackoffInv`), which is what makes
`FailuresBounded` inductive: a lock stops new binds, and each one under way may still fail. The last needs
`IsFiniteSet(Request)`.

### Seen in modelling

Two step-ups of one session at once leave two live elevated sessions, each with its password and within the same
sign-in's end. A logout that races a step-up revokes the old session and leaves the rotated one signed in, until it is
used or idles out. When the UPDATE that revokes an elevated session takes effect and its answer is lost, the password stays
until the cache's sweep (`DeadPasswordGoes`).

## What the code does otherwise than it says

Each of these is a run that TLC finds violated; `PROJECT.json` quotes the line.

- **A forced Entra task keeps a directory's other tasks from running** (`SyncStarved`) while the
  integration is off: it is picked before its prerequisites are looked at, every time.
- **A new pass's value is deleted because the old one was spent** (`ClassPassesSpent`): the roster notes the
  *row* whose pass it saw spent, and the next sweep deletes what that row holds by then.
- **An account without a password counts as a success** (`ImportsUnset`): a retry that can't bind to finish an
  account gets a failure that names no step, and `stepFailure` looks for the step's name.

### Divergences without a run

These properties stand in the modules and do not hold; to see TLC refute one, make it
the property of a small instance of its module (one process, one worker, no lapses, and what the table says).

| Property | Instance | What happens |
| --- | --- | --- |
| `JobAndRevertExclusive` (`BulkJobs`) | jobs `j1`, `j2`, a row each, four tokens, `RevertsOfOne`, `Outcomes = {"partial"}`, two calls, no fault | A job and its revert retried one after the other both write: retrying a revert looks for other open reverts, not at the reverted job itself. `RevertsStayApart` proves that this is the only way. |
| `StoppedLeavesNoPending` (`BulkJobs`) | one job, row and token, one call, no fault | A row in flight whose directory is unavailable is put back to `pending`, also in a job that was stopped meanwhile. `StoppedTookUpAllAlways` proves that no other row stays so. |
| `RunningRowResolves` (`BulkJobs`, `FairSpec`) | one job and row, two tokens, one call, one fault | A row of a stopped job is in flight for ever when the process dies: the sweep looks at queued and running jobs only. `OneFaultStrandsNoRow` proves that the crash or the stop alone does not do it. |
| `RowsRunAudited` (`BulkJobs`) | one job and row, two tokens, one call, one fault | A job runs that was never audited, when the process dies between storing and auditing it, the sweep pauses it, and it is resumed. `UncontinuedIsAudited` proves that it takes the resume, or a retry. |
| `EveryJobSettles` (`BulkJobs`, `FairSpec`) | the bounds of `BulkJobsLive`, with one worker | A job whose process died "is paused as interrupted by the next sweep, its in-flight rows failed" (`docs/architecture.md:88`). The process of a sweep dies after the statement that pauses a job and before the one that fails its rows. The job is resumed; its waiting row waits for the row that is still `running`, its heartbeat stays fresh, and no sweep looks at it again. `JobsSettle` says that only a row so stranded does it. |
| `NeverTwice` (`Imports`) | two runs, no download, a change and a fault | "Never creates the account twice" (`importRows.ts:5`): the create is done, the process dies before its audit event, somebody renames the account, and the retry finds neither an event nor the names, and makes another. `OneAccount` proves that it takes such a rename for each. |
| `OthersUntouched` (`Imports`) | two runs, no download or fault, a change | "Anyone else's account fails the row" (`importRows.ts:170`): `adoptable` tells an account by its names, its date and its being disabled, so one that another administrator or import made since the job and left disabled is adopted by a retry, and given a password. `OthersLeftAlone` proves that no other kind is. |
| `AllHandedWorks` (`Imports`) | two runs, one download, no fault or change | A CSV shows a password that no longer works, when a retry crossed the download. `ShownWorks` proves that this is the only way. |
| `NoneJoinedLater` (`ImportLicenses`) | one process and group, one call, no fault | A row that joined no group ends `partial`; its check stops for good, since "a row's run has finished, so one that joined none never will" (`service.ts:314`). The row is retried, joins them, and no license is ever checked. |
| `AllChecksEnd` (`ImportLicenses`, `FairSpec`) | two processes, one group, no call, no fault | "Every waiting check has a deadline each sweep enforces, whatever Graph answers" (`service.ts:15`): the looks of two processes, each longer than five seconds, follow on each other, and each process's `stopOverdue` comes while the other has the check. `ChecksEnd` says that this is the only way. |
| `OrphansClosed` (`SyncScheduler`, `FairSpec`) | one task, no slots, no calls, one fault | Run history shows a task running for ever when the process dies between the two statements of `markFinished`: only task rows that say `running` are reset. |

Some were met in reading only:

- `docs/configuration.md:65` says that with `SYNC_SCHEDULER_ENABLED=0` "Manual and setup-time
  syncs still run", but `triggerNow` only starts a tick while the timer is set (`scheduler.ts:108`), so a manual sync of
  such a process is queued and not run.
- A tick that waited for another process's run of the same task runs it once more, since due-ness is not read again under
  the lock. `resetStuck`'s second statement closes every `running` history row of the task, also one a new run has just
  opened.
- The audit event of an import row's create doesn't say whether its password was a fallback. A row whose process died after that event
  and before its result, or whose run met an error it didn't expect (which stores no progress over an earlier run's), is taken up from the
  event. If results were downloaded in between, the password that was set is shown to nobody, and the row doesn't say that it fell back.

## What is not modelled

- In the modelled parts: who may call an operation, notifications, what handlers and runners do
  beyond how they end, pagination and display, the order among claimable rows, calendars, the seeding and
  removal of task rows, the onboarding wizard's inline runs, the cursors a run leaves to the next. Of imports, the checks before
  a job is stored and the plan's names (`userImport.ts`), and the jobs that reset passwords in bulk. Of class passes, when a class is due, and passes
  issued outside a class. Of import licenses, the warnings before an import is stored (`check.ts`), a license's error, and throttling beyond a sweep's end. Of sessions, capabilities beyond having any, settings that change, several operators.
- `claimRow`'s subquery and UPDATE are one step; under READ COMMITTED the job's status is read by the
  subquery, so a claim can also commit shortly after a pause.
- Awaits taken together. A worker's look at its loop condition, `credentials()` and the second test of `stopped.pause`
  are one step (`Check`; `service.ts:680-686`): a pause that comes between the tests is one that comes before or after both. A sweep of class passes
  reads the directories, updates and clears `observedSpent` in one step (`SweepBegins`; `service.ts:308-328`): a spent pass that the roster notes during the
  UPDATE is, in the code, cleared unused, and noted again by the next roster. A step-up's `recordElevatedActivity` reads the clock and runs its UPDATE in one step (`Activity`;
  `sessions.ts:261-269`), so the idle end is compared at that time and not some milliseconds before.
- Outcomes taken together. `Preflight` has one answer for each thing that happens to a pass: `not_found`, a policy that is off and
  unknown roles end as an expired class or an administrator's pass do, and `unsynced` and `later` are retried, as faults under `MaxFaults`.
  A pass of an administrator is lost (`AdminLosesPass`) also when the DELETE failed and the person was told to delete it.
- The components without a module above. `PROJECT.json` gives the reason for each: those of the plan
  below, and those that are I/O of an external system, lookups, formatting, or the browser.

## Plan

In order of what would hurt most if it were wrong:

1. *Bulk jobs, reverts* – done, with `JobLifecycle`, which they are shown to implement; next, what a revert
   puts back (`planRevert`, `revertRunner`), as an algorithm over before and after values.
2. *Sync task scheduler* – done, with `TaskLifecycle`; next, `NextDue` for `isDueNow` and `previousCronSlot` as operators against a
   reference definition.
3. *Sessions*, *class passes*, *imports and held passwords* – done; next, their composition with `BulkJobs`.
4. *Import licenses* – done, with `CheckLifecycle`; next, its row's retries from `BulkJobs` and `Imports` instead of actions of its own.
5. A live refresh against a full sync of the caches.

The run that shows a finding goes when the code or the sentence it quotes changes.

## Running it

    tlc -workers 2 -config BulkJobsEngine.cfg MCBulkJobs
    tlc -workers 2 -config SyncTasks.cfg MCSyncScheduler
    tlc -workers 2 -config Imports.cfg MCImports
    tlc -workers 2 -config ClassPasses.cfg MCClassPasses
    tlc -workers 2 -config ImportLicenses.cfg MCImportLicenses
    tlc -workers 2 -config Sessions.cfg MCSessions
    tlapm BulkJobsProofs.tla

and so on for the other `.cfg` files and the modules with theorems (`BulkJobsLimits` and those whose names end in `Proofs` or `Refinement`). The longest runs
take a minute or two, and so do the longest proofs.
