--------------------------- MODULE SyncScheduler ---------------------------
(***************************************************************************)
(* The sync task scheduler of one directory                                *)
(* (apps/api/src/services/syncTasks/scheduler.ts and service.ts), in any   *)
(* number of API processes.  Directories share nothing but the timer, so   *)
(* one of them is the whole story.                                         *)
(*                                                                         *)
(* A tick reads the task rows, resets those stuck in `running`, and picks  *)
(* one task, forced or due.  The task runs under the directory's advisory  *)
(* lock, is marked started, runs, and is marked finished; then its process *)
(* is free again, and only then the lock.  Every SQL statement is one      *)
(* step, and ticks of one process overlap, as nothing awaits them.  A tick *)
(* may begin at any time, which covers the timer and every wake-up.        *)
(*                                                                         *)
(* Left out: calendars (a slot arrives), what runners do (they return or   *)
(* throw), notifications, and the onboarding wizard's inline runs.  The    *)
(* removal of the Entra integration is its being turned off and its rows   *)
(* disabled.  A directory always has its sync credentials.                 *)
(*                                                                         *)
(* An operator directly above another of the same parameters is that one   *)
(* with a bug seeded in it, which the run's properties must notice.        *)
(***************************************************************************)
EXTENDS Naturals, FiniteSets

CONSTANTS
    Proc, Task,
    NoTask, NoProc,
    Priority,         \* lower goes first
    NeedsEntra,       \* tasks with requires.entra
    Triggers,         \* tasks a run may force, once its runner has returned
    MaxTicks,         \* bound: ticks of one process that are resetting rows
    MaxSlots,         \* bound: cadence slots that arrive
    MaxCalls,         \* bound: operator calls
    MaxFaults         \* bound: crashes and failed statements

ASSUME ConstantsOK ==
    /\ NoTask \notin Task /\ NoProc \notin Proc
    /\ Priority \in [Task -> Nat]
    /\ NeedsEntra \subseteq Task
    /\ Triggers \in [Task -> SUBSET Task]
    /\ MaxTicks \in Nat /\ MaxSlots \in Nat /\ MaxCalls \in Nat
    /\ MaxFaults \in Nat

VARIABLES
    \* directory_sync_tasks: enabled, last_status, whether a slot has passed
    \* since last_started_at, whether watchdogMinutes have, and
    \* consecutive_failures
    enabled, row, due, overdue, failures,
    entra,            \* the integration is on and has its secret
    \* directory_sync_task_runs still `running`: the processes whose run
    \* opened one, and the tasks left with one whose run is gone
    open, orphans,
    \* the advisory lock: its holder, and whether that one is about to unlock
    lock, unlocking,
    \* a process's run: inFlight, the await it is at, whether its runner has
    \* returned, the result to record, and the failure count it has read
    busy, pc, ran, ok, prev,
    \* the forced tasks, and what ticks under way have read
    forced, snaps,
    \* history: the failures recorded since the last success
    streak,
    slots, calls, faults

taskVars == <<enabled, row, due, overdue, failures, entra>>
runVars  == <<busy, pc, ran, ok, prev>>
tickVars == <<forced, snaps>>
vars == <<taskVars, open, orphans, lock, unlocking, runVars, tickVars,
          streak, slots, calls, faults>>

AtWork   == {"check", "mark", "open", "run", "write", "close"}
Snapshot == [on : SUBSET Task, due : SUBSET Task, stuck : SUBSET Task,
             closing : SUBSET Task, entra : BOOLEAN]

TypeOK ==
    /\ enabled \subseteq Task
    /\ row \in [Task -> {"never", "running", "succeeded", "failed"}]
    /\ due \subseteq Task /\ overdue \subseteq Task
    /\ failures \in [Task -> Nat]
    /\ entra \in BOOLEAN
    /\ open \in [Task -> SUBSET Proc] /\ orphans \subseteq Task
    /\ lock \in Proc \cup {NoProc} /\ unlocking \in BOOLEAN
    /\ busy \in [Proc -> Task \cup {NoTask}]
    /\ pc \in [Proc -> {"idle", "lock"} \cup AtWork]
    /\ ran \in [Proc -> BOOLEAN] /\ ok \in [Proc -> BOOLEAN]
    /\ prev \in [Proc -> Nat]
    /\ forced \in [Proc -> SUBSET Task]
    /\ snaps \in [Proc -> SUBSET Snapshot]
    /\ streak \in [Task -> Nat]
    /\ slots \in Nat /\ calls \in Nat /\ faults \in Nat

\* Seeded rows have never run: they are due at once.
Init ==
    /\ enabled = Task /\ due = Task /\ overdue = {}
    /\ row = [k \in Task |-> "never"]
    /\ failures = [k \in Task |-> 0]
    /\ entra = TRUE
    /\ open = [k \in Task |-> {}] /\ orphans = {}
    /\ lock = NoProc /\ unlocking = FALSE
    /\ busy = [p \in Proc |-> NoTask]
    /\ pc = [p \in Proc |-> "idle"]
    /\ ran = [p \in Proc |-> FALSE] /\ ok = [p \in Proc |-> FALSE]
    /\ prev = [p \in Proc |-> 0]
    /\ forced = [p \in Proc |-> {}]
    /\ snaps = [p \in Proc |-> {}]
    /\ streak = [k \in Task |-> 0]
    /\ slots = 0 /\ calls = 0 /\ faults = 0

Fault == faults < MaxFaults /\ faults' = faults + 1
Call  == calls < MaxCalls /\ calls' = calls + 1

-----------------------------------------------------------------------------
(***************************************************************************)
(* Time and operators.                                                     *)
(***************************************************************************)
SlotArrives(k) ==
    /\ k \notin due /\ slots < MaxSlots
    /\ due' = due \cup {k} /\ slots' = slots + 1
    /\ UNCHANGED <<enabled, row, overdue, failures, entra, open, orphans, lock,
                   unlocking, runVars, tickVars, streak, calls, faults>>

\* watchdogMinutes pass: for a run that is gone, or one that takes so long
RunsOver(k) ==
    /\ row[k] = "running" /\ k \notin overdue
    /\ overdue' = overdue \cup {k}
    /\ UNCHANGED <<enabled, row, due, failures, entra, open, orphans, lock,
                   unlocking, runVars, tickVars, streak, slots, calls, faults>>

\* triggerNow from a route
Trigger(p, k) ==
    /\ Call
    /\ forced' = [forced EXCEPT ![p] = @ \cup {k}]
    /\ UNCHANGED <<taskVars, open, orphans, lock, unlocking, runVars, snaps,
                   streak, slots, faults>>

\* SyncTaskService.update: a row is enabled or disabled
SetEnabled(k) ==
    /\ Call
    /\ enabled' = IF k \in enabled THEN enabled \ {k} ELSE enabled \cup {k}
    /\ UNCHANGED <<row, due, overdue, failures, entra, open, orphans, lock,
                   unlocking, runVars, tickVars, streak, slots, faults>>

\* The Entra integration is turned off, or on again.
SetEntra ==
    /\ Call
    /\ entra' = ~ entra
    /\ UNCHANGED <<enabled, row, due, overdue, failures, open, orphans, lock,
                   unlocking, runVars, tickVars, streak, slots, faults>>

-----------------------------------------------------------------------------
(***************************************************************************)
(* A tick: read, reset stuck rows, pick.                                   *)
(***************************************************************************)
\* Rows past their watchdogMinutes
StuckIfFailing == {k \in enabled \cap overdue : row[k] = "running" /\ failures[k] > 0}
Stuck == {k \in enabled \cap overdue : row[k] = "running"}

\* pickDueTasks, of the rows read as enabled: forced tasks go first, then by priority
Candidates(p, s) ==
    IF forced[p] \cap s.on # {} THEN forced[p] \cap s.on ELSE s.due

Picked(p, s) == {k \in Candidates(p, s) :
    \A j \in Candidates(p, s) : Priority[k] <= Priority[j]}

\* The prerequisites, which are looked at once a task is picked
Runnable(s, k) == k \in NeedsEntra => s.entra

\* A run is started, in a process that has none.
Pick(p, s) ==
    \/ \E k \in Picked(p, s) :
        /\ busy[p] = NoTask /\ Runnable(s, k)
        /\ busy' = [busy EXCEPT ![p] = k]
        /\ pc' = [pc EXCEPT ![p] = "lock"]
    \/ /\ busy[p] # NoTask \/ \A k \in Picked(p, s) : ~ Runnable(s, k)
       /\ UNCHANGED <<busy, pc>>

\* The stuck rows a tick has still to reset: not the one this process runs
ToReset(p, s) == s.stuck \ {busy[p]}

\* The tick has read s, or reset a row of it, and picks once none is left.
Proceed(p, s, others) ==
    IF ToReset(p, s) = {}
    THEN Pick(p, s) /\ snaps' = [snaps EXCEPT ![p] = others]
    ELSE /\ Cardinality(others) < MaxTicks
         /\ snaps' = [snaps EXCEPT ![p] = others \cup {s}]
         /\ UNCHANGED <<busy, pc>>

TickRead(p) ==
    /\ Proceed(p, [on |-> enabled, due |-> due \cap enabled, stuck |-> Stuck,
                   closing |-> {}, entra |-> entra], snaps[p])
    /\ UNCHANGED <<taskVars, open, orphans, lock, unlocking, ran, ok, prev,
                   forced, streak, slots, calls, faults>>

\* resetStuck: the row is failed, if it still says `running`, ...
WatchdogFails(p, s, k) ==
    /\ s \in snaps[p] /\ s.closing = {} /\ k \in ToReset(p, s)
    /\ row' = IF row[k] = "running" THEN [row EXCEPT ![k] = "failed"] ELSE row
    /\ snaps' = [snaps EXCEPT ![p] = (@ \ {s}) \cup {[s EXCEPT !.closing = {k}]}]
    /\ UNCHANGED <<enabled, due, overdue, failures, entra, open, orphans, lock,
                   unlocking, runVars, forced, streak, slots, calls, faults>>

\* ... and then its history rows are closed.
WatchdogCloses(p, s, k) ==
    /\ s \in snaps[p] /\ k \in s.closing
    /\ open' = [open EXCEPT ![k] = {}]
    /\ orphans' = orphans \ {k}
    /\ Proceed(p, [s EXCEPT !.stuck = @ \ {k}, !.closing = {}], snaps[p] \ {s})
    /\ UNCHANGED <<taskVars, lock, unlocking, ran, ok, prev, forced, streak,
                   slots, calls, faults>>

\* The row it was to reset is run by this process by now.
WatchdogSkips(p, s) ==
    /\ s \in snaps[p] /\ s.closing = {} /\ ToReset(p, s) = {}
    /\ Proceed(p, s, snaps[p] \ {s})
    /\ UNCHANGED <<taskVars, open, orphans, lock, unlocking, ran, ok, prev,
                   forced, streak, slots, calls, faults>>

-----------------------------------------------------------------------------
(***************************************************************************)
(* A run.                                                                  *)
(***************************************************************************)
Goto(p, l) == pc' = [pc EXCEPT ![p] = l]

\* pg_try_advisory_lock; the lock is a session's, and unlocking takes as long
\* as any statement.
LockFreeByRow == \A k \in Task : row[k] # "running"
LockFree == lock = NoProc

\* The forced flag goes the moment the task is picked up.
TakeLock(p) ==
    /\ pc[p] = "lock" /\ LockFree
    /\ lock' = p /\ unlocking' = FALSE
    /\ forced' = [forced EXCEPT ![p] = @ \ {busy[p]}]
    /\ Goto(p, "check")
    /\ UNCHANGED <<taskVars, open, orphans, busy, ran, ok, prev, snaps,
                   streak, slots, calls, faults>>

LockRefusedForgets(p) ==
    /\ pc[p] = "lock" /\ ~ LockFree
    /\ busy' = [busy EXCEPT ![p] = NoTask]
    /\ forced' = [forced EXCEPT ![p] = @ \ {busy[p]}]
    /\ Goto(p, "idle")
    /\ UNCHANGED <<taskVars, open, orphans, lock, unlocking, ran, ok, prev,
                   snaps, streak, slots, calls, faults>>

\* Another session has the lock, or the lock pool fails: nothing is retried
\* before the next tick.
LockRefused(p) ==
    /\ pc[p] = "lock"
    /\ \/ ~ LockFree /\ UNCHANGED faults
       \/ Fault
    /\ busy' = [busy EXCEPT ![p] = NoTask]
    /\ Goto(p, "idle")
    /\ UNCHANGED <<taskVars, open, orphans, lock, unlocking, ran, ok, prev,
                   tickVars, streak, slots, calls>>

\* A run's own variables go with it.
ForgetRun(p) ==
    /\ ran' = [ran EXCEPT ![p] = FALSE] /\ ok' = [ok EXCEPT ![p] = FALSE]
    /\ prev' = [prev EXCEPT ![p] = 0]

\* runTaskInProcess's finally: free again, and force what the run triggers.
\* The lock is still to be released.
Leave(p) ==
    LET k == busy[p] IN
    /\ busy' = [busy EXCEPT ![p] = NoTask]
    /\ Goto(p, "idle")
    /\ unlocking' = TRUE
    /\ \E triggered \in {{}, IF ran[p] THEN Triggers[k] ELSE {}} :
        forced' = [forced EXCEPT ![p] = @ \cup triggered]
    /\ ForgetRun(p)
    /\ UNCHANGED <<lock, snaps, slots, calls>>

\* Prerequisites read again; without them the run ends, unrecorded.
CheckOk(p) ==
    /\ pc[p] = "check" /\ (busy[p] \in NeedsEntra => entra)
    /\ Goto(p, "mark")
    /\ UNCHANGED <<taskVars, open, orphans, lock, unlocking, busy, ran, ok,
                   prev, tickVars, streak, slots, calls, faults>>

CheckGone(p) ==
    /\ pc[p] = "check" /\ busy[p] \in NeedsEntra /\ ~ entra
    /\ Leave(p)
    /\ UNCHANGED <<taskVars, open, orphans, streak, faults>>

\* markStarted: the task row ...
MarkStarted(p) ==
    LET k == busy[p] IN
    /\ pc[p] = "mark"
    /\ row' = [row EXCEPT ![k] = "running"]
    /\ due' = due \ {k} /\ overdue' = overdue \ {k}
    /\ Goto(p, "open")
    /\ UNCHANGED <<enabled, failures, entra, open, orphans, lock, unlocking,
                   busy, ran, ok, prev, tickVars, streak, slots, calls, faults>>

\* ... and a history row
OpenHistory(p) ==
    /\ pc[p] = "open"
    /\ open' = [open EXCEPT ![busy[p]] = @ \cup {p}]
    /\ Goto(p, "run")
    /\ UNCHANGED <<taskVars, orphans, lock, unlocking, busy, ran, ok, prev,
                   tickVars, streak, slots, calls, faults>>

\* The runner returns or throws, and markFinished reads the failures so far, ...
RunnerEnds(p) ==
    /\ pc[p] = "run"
    /\ \E result \in BOOLEAN :
        /\ ok' = [ok EXCEPT ![p] = result]
        /\ ran' = [ran EXCEPT ![p] = result]
    /\ prev' = [prev EXCEPT ![p] = failures[busy[p]]]
    /\ Goto(p, "write")
    /\ UNCHANGED <<taskVars, open, orphans, lock, unlocking, busy,
                   tickVars, streak, slots, calls, faults>>

FailuresTakenBack(p) == IF ok[p] THEN prev[p] - 1 ELSE prev[p] + 1
FailuresKept(p) == IF ok[p] THEN prev[p] ELSE prev[p] + 1
Failures(p) == IF ok[p] THEN 0 ELSE prev[p] + 1

\* ... the task row is written, ...
MarkFinished(p) ==
    LET k == busy[p] IN
    /\ pc[p] = "write"
    /\ row' = [row EXCEPT ![k] = IF ok[p] THEN "succeeded" ELSE "failed"]
    /\ failures' = [failures EXCEPT ![k] = Failures(p)]
    /\ streak' = [streak EXCEPT ![k] = IF ok[p] THEN 0 ELSE @ + 1]
    /\ Goto(p, "close")
    /\ UNCHANGED <<enabled, due, overdue, entra, open, orphans, lock, unlocking,
                   busy, ran, ok, prev, tickVars, slots, calls, faults>>

\* ... and the run's own history row closed.
CloseHistory(p) ==
    /\ pc[p] = "close"
    /\ open' = [open EXCEPT ![busy[p]] = @ \ {p}]
    /\ Leave(p)
    /\ UNCHANGED <<taskVars, orphans, streak, faults>>

\* A statement throws: the run is to be recorded as failed ...
RunFails(p) ==
    /\ \/ pc[p] \in {"check", "mark", "open", "run"}
       \/ pc[p] \in {"write", "close"} /\ ok[p]
    /\ Fault
    /\ ok' = [ok EXCEPT ![p] = FALSE]
    /\ prev' = [prev EXCEPT ![p] = failures[busy[p]]]
    /\ Goto(p, "write")
    /\ UNCHANGED <<taskVars, open, orphans, lock, unlocking, busy, ran,
                   tickVars, streak, slots, calls>>

\* ... or, when that is what throws, is recorded no further.
RecordFails(p) ==
    /\ pc[p] \in {"write", "close"} /\ ~ ok[p] /\ Fault
    /\ Leave(p)
    /\ open' = [open EXCEPT ![busy[p]] = @ \ {p}]
    /\ orphans' = IF p \in open[busy[p]] THEN orphans \cup {busy[p]} ELSE orphans
    /\ UNCHANGED <<taskVars, streak>>

\* pg_advisory_unlock, after the process is free again
Unlock ==
    /\ unlocking
    /\ lock' = NoProc /\ unlocking' = FALSE
    /\ UNCHANGED <<taskVars, open, orphans, runVars, tickVars, streak, slots,
                   calls, faults>>

\* A process crashes and starts again: its memory is lost, and its session
\* with the lock ends.
Crash(p) ==
    /\ Fault
    /\ busy' = [busy EXCEPT ![p] = NoTask]
    /\ Goto(p, "idle")
    /\ IF lock = p THEN lock' = NoProc /\ unlocking' = FALSE
                   ELSE UNCHANGED <<lock, unlocking>>
    /\ forced' = [forced EXCEPT ![p] = {}]
    /\ snaps' = [snaps EXCEPT ![p] = {}]
    /\ orphans' = orphans \cup {k \in Task : p \in open[k]}
    /\ open' = [k \in Task |-> open[k] \ {p}]
    /\ ForgetRun(p)
    /\ UNCHANGED <<taskVars, streak, slots, calls>>

-----------------------------------------------------------------------------
Run(p) ==
    \/ TakeLock(p) \/ LockRefused(p) \/ CheckOk(p) \/ CheckGone(p)
    \/ MarkStarted(p) \/ OpenHistory(p) \/ RunnerEnds(p)
    \/ MarkFinished(p) \/ CloseHistory(p)

Watchdog(p) == \E s \in snaps[p] :
    \/ WatchdogSkips(p, s)
    \/ \E k \in Task : WatchdogFails(p, s, k) \/ WatchdogCloses(p, s, k)

Next ==
    \/ \E k \in Task : SlotArrives(k) \/ RunsOver(k) \/ SetEnabled(k)
    \/ SetEntra \/ Unlock
    \/ \E p \in Proc :
        \/ TickRead(p) \/ Watchdog(p) \/ Run(p)
        \/ RunFails(p) \/ RecordFails(p) \/ Crash(p)
        \/ \E k \in Task : Trigger(p, k)

Spec == Init /\ [][Next]_vars

Working(p) == pc[p] \in AtWork

(***************************************************************************)
(* Timers fire, statements and runners return, and a run that is gone gets *)
(* old.  Nothing is assumed of operators, slots and failures.              *)
(***************************************************************************)
Fairness ==
    /\ \A p \in Proc : WF_vars(TickRead(p))
                       /\ WF_vars(Watchdog(p)) /\ WF_vars(Run(p))
    /\ WF_vars(Unlock)
    /\ \A k \in Task :
        WF_vars((\A p \in Proc : Working(p) => busy[p] # k) /\ RunsOver(k))

FairSpec == Spec /\ Fairness

-----------------------------------------------------------------------------
(***************************************************************************)
(* Properties.                                                             *)
(***************************************************************************)

\* Two processes never run tasks of the directory at once, although a run
\* frees its process before it unlocks.
OneTaskAtWork == \A p, q \in Proc : Working(p) /\ Working(q) => p = q

\* consecutive_failures, which is read and written in two statements, is
\* what operators are notified by: no failure is lost, and no success.
FailuresCounted == \A k \in Task : failures[k] = streak[k]

\* Whatever processes and ticks do, a directory's tasks only go the way
\* TaskLifecycle says: a row is written by the one run there is, as the run
\* stands, or by a watchdog that finds it running; and a run counts as one
\* failure, or ends them, however many statements that takes.
Runner   == lock # NoProc /\ Working(lock)
Stage(p) ==
    CASE pc[p] \in {"check", "mark"} -> "begun"
      [] pc[p] \in {"open", "run"}   -> "started"
      [] pc[p] = "write"             -> IF ok[p] THEN "started" ELSE "thrown"
      [] pc[p] = "close"             -> IF ok[p] THEN "succeeded" ELSE "failed"
AtTask  == IF Runner THEN busy[lock] ELSE NoTask
AtStage == IF Runner THEN Stage(lock) ELSE "none"
Lifecycle == INSTANCE TaskLifecycle WITH task <- AtTask, stage <- AtStage
Implements == Lifecycle!Spec

\* A task forced in a process gets a run there, whatever else is due and
\* whoever has the lock when it is picked, unless its row is disabled, it
\* waits for the Entra integration, or something fails.
ForcedStarts == \A p \in Proc, k \in Task \ NeedsEntra :
    k \in forced[p] ~>
        (Working(p) /\ busy[p] = k) \/ k \notin enabled \/ faults > 0

\* A row doesn't say `running` for ever, whatever happened to its run.
RowSettles == \A k \in Task :
    row[k] = "running" ~> row[k] # "running" \/ k \notin enabled

-----------------------------------------------------------------------------
(***************************************************************************)
(* What comments say, and the code does not do.                            *)
(***************************************************************************)

\* resetStuck(): the history rows a crashed run left open are closed, so run
\* history doesn't show them as running forever.
OrphansClosed == \A k \in Task : k \in orphans ~> k \notin orphans \/ k \notin enabled

\* registry.ts: the picker skips Entra tasks while the integration is off, so
\* that a due task which needs none still runs.
DueRuns == \A k \in Task \ NeedsEntra :
    k \in due ~> k \notin due \/ k \notin enabled
=============================================================================
