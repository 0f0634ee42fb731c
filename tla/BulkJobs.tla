------------------------------ MODULE BulkJobs ------------------------------
(***************************************************************************)
(* Bulk jobs: a job of many rows, each one directory write, run in-process *)
(* by the API process that took the request                                *)
(* (apps/api/src/services/bulkJobs/service.ts).                            *)
(*                                                                         *)
(* The shared state is two Postgres tables, bulk_jobs and bulk_job_rows.   *)
(* Every SQL statement, and every transaction, is one step; what a process *)
(* does between two awaits is one step.  A run claims its job with a fresh *)
(* token, its workers claim rows, call the directory and record results;   *)
(* operators stop, continue, retry and revert jobs from any process; a     *)
(* periodic sweep pauses jobs whose heartbeat stopped; processes stop,     *)
(* crash and restart.                                                      *)
(*                                                                         *)
(* Left out: what a row writes (only how it ends), the order in which      *)
(* claimable rows are picked, and who may call an operation.               *)
(*                                                                         *)
(* An operator directly above another of the same parameters is that one   *)
(* with a bug seeded in it, which the runs' properties must notice; no     *)
(* action uses it.                                                         *)
(***************************************************************************)
EXTENDS Naturals

CONSTANTS
    Job, Row,         \* bulk_jobs.id, bulk_job_rows.id
    Proc, Worker,     \* API processes; the ROW_CONCURRENCY workers of a run
    Token,            \* run tokens (UUIDs): a run is named by its token
    JobOf, After,     \* a row's job_id, and the row its after_ordinal names
    Reverts,          \* a job's reverts_job_id
    Outcomes,         \* how the action's rows can end
    NoToken, NoRow, NoJob, NoProc,
    MaxCalls,         \* bound: operator calls (resume, retry, cancel)
    MaxFaults,        \* bound: crashes and failed statements
    MaxLapses         \* bound: heartbeats that lapse although someone lives

ASSUME ConstantsOK ==
    /\ JobOf \in [Row -> Job]
    /\ After \in [Row -> Row \cup {NoRow}]
    /\ Reverts \in [Job -> Job \cup {NoJob}]
    /\ Outcomes \subseteq {"succeeded", "partial", "failed", "skipped"}
    /\ NoToken \notin Token /\ NoRow \notin Row
    /\ NoJob \notin Job /\ NoProc \notin Proc
    /\ MaxCalls \in Nat /\ MaxFaults \in Nat /\ MaxLapses \in Nat

\* ROW_CONCURRENCY is not 0.
ASSUME SomeWorker == Worker # {}

VARIABLES
    \* bulk_jobs: status ("absent", "deleted": no record), pause_reason, run_token,
    \* whether heartbeat_at is within STALE_AFTER, whether the bulk.create
    \* event was written
    status, reason, token, fresh, headed,
    \* the reverts planned from the reverted job's current finished_at
    planned,
    \* bulk_job_rows: status, run_token
    rowStatus, rowToken,
    \* runs: where one is in run() and settle(), its process and job, and
    \* its in-memory stopped.pause
    phase, runProc, runJob, pause,
    \* workers: the await one is at (an outcome: about to record it), and
    \* the row it holds
    pc, at,
    \* process memory: requests between their UPDATE and their audit event,
    \* kicked jobs (the `runs` chain), the jobs a sweep still has rows to
    \* fail of, and the passwords held for the sessions jobs are on
    proc, announcing, kicked, sweeping, armed,
    \* history: the rows a sweep failed while a worker still wrote them
    givenUp,
    calls, faults, lapses

jobVars   == <<status, reason, token, fresh, headed, planned>>
rowVars   == <<rowStatus, rowToken>>
runVars   == <<phase, runProc, runJob, pause>>
workVars  == <<pc, at>>
procVars  == <<proc, announcing, kicked, sweeping, armed>>
vars == <<jobVars, rowVars, runVars, workVars, procVars, givenUp,
          calls, faults, lapses>>

-----------------------------------------------------------------------------
Stopped  == {"finished", "cancelled"}
OpenJob  == {"queued", "running", "paused"}
Reasons  == {"none", "step_up_required", "interrupted", "directory_unavailable"}
Results  == {"succeeded", "partial", "failed", "skipped"}
RowState == {"pending", "running"} \cup Results
PCs      == {"off", "check", "claim", "look", "run", "release"} \cup Results
Busy     == {"run", "release"} \cup Results
Slot     == Token \X Worker

RowsOf(j) == {r \in Row : JobOf[r] = j}

TypeOK ==
    /\ status \in [Job -> {"absent", "deleted"} \cup OpenJob \cup Stopped]
    /\ reason \in [Job -> Reasons]
    /\ token \in [Job -> Token \cup {NoToken}]
    /\ fresh \in [Job -> BOOLEAN]
    /\ headed \in [Job -> BOOLEAN]
    /\ planned \subseteq Job
    /\ rowStatus \in [Row -> RowState]
    /\ rowToken \in [Row -> Token \cup {NoToken}]
    /\ phase \in [Token -> {"unused", "working", "settling", "over"}]
    /\ runProc \in [Token -> Proc \cup {NoProc}]
    /\ runJob \in [Token -> Job \cup {NoJob}]
    /\ pause \in [Token -> Reasons]
    /\ pc \in [Slot -> PCs]
    /\ at \in [Slot -> Row \cup {NoRow}]
    /\ proc \in [Proc -> {"up", "stopping", "down"}]
    /\ announcing \subseteq Proc \X Job \X {"create", "continue"}
    /\ kicked \subseteq Proc \X Job
    /\ sweeping \in [Proc -> SUBSET Job]
    /\ armed \subseteq Proc \X Job
    /\ givenUp \subseteq Row
    /\ calls \in Nat /\ faults \in Nat /\ lapses \in Nat

Init ==
    /\ status = [j \in Job |-> "absent"]
    /\ reason = [j \in Job |-> "none"]
    /\ token = [j \in Job |-> NoToken]
    /\ fresh = [j \in Job |-> FALSE]
    /\ headed = [j \in Job |-> FALSE]
    /\ planned = {}
    /\ rowStatus = [r \in Row |-> "pending"]
    /\ rowToken = [r \in Row |-> NoToken]
    /\ phase = [t \in Token |-> "unused"]
    /\ runProc = [t \in Token |-> NoProc]
    /\ runJob = [t \in Token |-> NoJob]
    /\ pause = [t \in Token |-> "none"]
    /\ pc = [s \in Slot |-> "off"]
    /\ at = [s \in Slot |-> NoRow]
    /\ proc = [p \in Proc |-> "up"]
    /\ announcing = {} /\ kicked = {} /\ armed = {}
    /\ sweeping = [p \in Proc |-> {}]
    /\ givenUp = {}
    /\ calls = 0 /\ faults = 0 /\ lapses = 0

Fault == faults < MaxFaults /\ faults' = faults + 1
Call  == calls < MaxCalls /\ calls' = calls + 1

-----------------------------------------------------------------------------
(***************************************************************************)
(* Starting jobs.  A job that is stored is audited, then kicked; a retry   *)
(* or a resume likewise.                                                   *)
(***************************************************************************)

InFlight(j) == {r \in RowsOf(j) : rowStatus[r] = "running"}

\* A job that may still write: not stopped, or stopped with rows running.
MayWrite(j) ==
    \/ status[j] \in OpenJob
    \/ status[j] \in Stopped /\ InFlight(j) # {}

HasUnstoppedRevert(k, except) ==
    \E j \in Job \ {except} : Reverts[j] = k /\ status[j] \in OpenJob

HasOpenRevert(k, except) ==
    \E j \in Job \ {except} : Reverts[j] = k /\ MayWrite(j)

\* bulk_jobs_one_open_revert_uq
IndexAllows(j) ==
    Reverts[j] = NoJob \/ ~ \E i \in Job \ {j} :
        Reverts[i] = Reverts[j] /\ status[i] \in OpenJob

\* revertRefusal: why job k can't be reverted now
Refused(k) ==
    \/ Reverts[k] # NoJob
    \/ status[k] \notin Stopped \/ InFlight(k) # {}
    \/ HasOpenRevert(k, NoJob)
    \/ \A r \in RowsOf(k) : rowStatus[r] \notin {"succeeded", "partial"}

\* actorColumns: the job now writes as the caller, whose session is at p
TakenOver(p, j) == (armed \ (Proc \X {j})) \cup {<<p, j>>}

\* finished_at changes, so no revert planned from the old value is stored
StillPlanned(k) == planned
Replanned(k) == {j \in planned : Reverts[j] # k}

\* run_token: null, wherever a job stops running
TokenKept(j) == token
NoRun(j) == [token EXCEPT ![j] = NoToken]

\* insert() doesn't kick the job: its audit event comes first
KickedAtOnce(p, j) == kicked \cup {<<p, j>>}
NotYetKicked(p, j) == kicked

Store(p, j) ==
    /\ proc[p] = "up" /\ status[j] = "absent"
    /\ status' = [status EXCEPT ![j] = "queued"]
    /\ fresh' = [fresh EXCEPT ![j] = TRUE]
    /\ armed' = TakenOver(p, j)
    /\ announcing' = announcing \cup {<<p, j, "create">>}
    /\ kicked' = NotYetKicked(p, j)
    /\ UNCHANGED <<reason, token, headed, rowVars, runVars, workVars, proc,
                   sweeping, givenUp, calls, faults, lapses>>

Create(p, j) ==
    /\ Reverts[j] = NoJob
    /\ Store(p, j)
    /\ UNCHANGED planned

\* revert(), up to planRevert: refused without a lock, then rows are read
PlanRevert(j) ==
    /\ Reverts[j] # NoJob /\ status[j] = "absent" /\ j \notin planned
    /\ ~ Refused(Reverts[j])
    /\ planned' = planned \cup {j}
    /\ UNCHANGED <<status, reason, token, fresh, headed, rowVars, runVars,
                   workVars, procVars, givenUp, calls, faults, lapses>>

\* insert() of a revert: its guard runs under the reverted job's lock
CreateRevert(p, j) ==
    /\ j \in planned
    /\ ~ Refused(Reverts[j])
    /\ IndexAllows(j)
    /\ Store(p, j)
    /\ planned' = planned \ {j}

\* The audit event is written, and the job kicked (not by a stopping process).
AnnounceOk(p, j, what) ==
    /\ <<p, j, what>> \in announcing
    /\ announcing' = announcing \ {<<p, j, what>>}
    /\ headed' = [headed EXCEPT ![j] = @ \/ what = "create"]
    /\ kicked' = IF proc[p] = "up" THEN kicked \cup {<<p, j>>} ELSE kicked
    /\ UNCHANGED <<status, reason, token, fresh, planned, rowVars, runVars,
                   workVars, proc, sweeping, armed, givenUp,
                   calls, faults, lapses>>

\* It can't be written: a new job is deleted, a continued one not kicked.
AnnounceFails(p, j, what) ==
    /\ <<p, j, what>> \in announcing /\ Fault
    /\ announcing' = announcing \ {<<p, j, what>>}
    /\ IF what = "create"
       THEN /\ status' = [status EXCEPT ![j] = "deleted"]
            /\ token' = NoRun(j)
       ELSE UNCHANGED <<status, token>>
    /\ UNCHANGED <<reason, fresh, headed, planned, rowVars, runVars, workVars,
                   proc, kicked, sweeping, armed, givenUp, calls, lapses>>

-----------------------------------------------------------------------------
(***************************************************************************)
(* A run: claim the job, let ROW_CONCURRENCY workers drain it, settle.     *)
(***************************************************************************)

\* Process p still has a run of j to wind down: the next one waits for it.
Winding(p, j) == \E t \in Token :
    phase[t] \in {"working", "settling"} /\ runProc[t] = p /\ runJob[t] = j

Holds(t) == token[runJob[t]] = t

StartRun(p, j, t) ==
    /\ <<p, j>> \in kicked /\ ~ Winding(p, j)
    /\ status[j] = "queued" /\ phase[t] = "unused"
    /\ kicked' = kicked \ {<<p, j>>}
    /\ status' = [status EXCEPT ![j] = "running"]
    /\ token' = [token EXCEPT ![j] = t]
    /\ fresh' = [fresh EXCEPT ![j] = TRUE]
    /\ phase' = [phase EXCEPT ![t] = "working"]
    /\ runProc' = [runProc EXCEPT ![t] = p]
    /\ runJob' = [runJob EXCEPT ![t] = j]
    /\ pc' = [s \in Slot |-> IF s[1] = t THEN "check" ELSE pc[s]]
    /\ UNCHANGED <<reason, headed, planned, rowVars, pause, at, proc,
                   announcing, sweeping, armed, givenUp,
                   calls, faults, lapses>>

\* buildForDirectory throws: no worker starts.
StartUnbuilt(p, j, t) ==
    /\ <<p, j>> \in kicked /\ ~ Winding(p, j) /\ Fault
    /\ status[j] = "queued" /\ phase[t] = "unused"
    /\ kicked' = kicked \ {<<p, j>>}
    /\ status' = [status EXCEPT ![j] = "running"]
    /\ token' = [token EXCEPT ![j] = t]
    /\ fresh' = [fresh EXCEPT ![j] = TRUE]
    /\ phase' = [phase EXCEPT ![t] = "working"]
    /\ runProc' = [runProc EXCEPT ![t] = p]
    /\ runJob' = [runJob EXCEPT ![t] = j]
    /\ pause' = [pause EXCEPT ![t] = "interrupted"]
    /\ UNCHANGED <<reason, headed, planned, rowVars, workVars, proc,
                   announcing, sweeping, armed, givenUp, calls, lapses>>

\* The job isn't queued any more, or its UPDATE fails: the kick is spent.
StartNothing(p, j) ==
    /\ <<p, j>> \in kicked /\ ~ Winding(p, j)
    /\ \/ status[j] # "queued" /\ UNCHANGED faults
       \/ Fault
    /\ kicked' = kicked \ {<<p, j>>}
    /\ UNCHANGED <<jobVars, rowVars, runVars, workVars, proc, announcing,
                   sweeping, armed, givenUp, calls, lapses>>

(***************************************************************************)
(* A worker's loop, one step per await.                                    *)
(***************************************************************************)
At(t, w, l) == pc[<<t, w>>] = l /\ proc[runProc[t]] # "down"
Goto(t, w, l) == pc' = [pc EXCEPT ![<<t, w>>] = l]
Stopping(t) == proc[runProc[t]] = "stopping"

WorkerFrame == UNCHANGED <<jobVars, phase, runProc, runJob, procVars,
                           givenUp, calls, lapses>>

\* The loop's condition, then credentials()
Check(t, w) ==
    /\ At(t, w, "check")
    /\ IF pause[t] # "none" \/ Stopping(t)
       THEN Goto(t, w, "off") /\ UNCHANGED pause
       ELSE IF <<runProc[t], runJob[t]>> \in armed
            THEN Goto(t, w, "claim") /\ UNCHANGED pause
            ELSE /\ Goto(t, w, "off")
                 /\ pause' = [pause EXCEPT ![t] = "step_up_required"]
    /\ WorkerFrame /\ UNCHANGED <<rowVars, at, faults>>

ClaimableRunning(t, r) ==
    /\ JobOf[r] = runJob[t] /\ rowStatus[r] \in {"pending", "running"}
    /\ status[runJob[t]] = "running" /\ Holds(t)

Claimable(t, r) ==
    /\ JobOf[r] = runJob[t] /\ rowStatus[r] = "pending"
    /\ status[runJob[t]] = "running" /\ Holds(t)
    /\ After[r] # NoRow => rowStatus[After[r]] \notin {"pending", "running"}

\* claimRow's UPDATE; a pause another worker set meanwhile isn't seen.
Claim(t, w) ==
    /\ At(t, w, "claim")
    /\ \/ \E r \in Row :
            /\ Claimable(t, r)
            /\ rowStatus' = [rowStatus EXCEPT ![r] = "running"]
            /\ rowToken' = [rowToken EXCEPT ![r] = t]
            /\ at' = [at EXCEPT ![<<t, w>>] = r]
            /\ Goto(t, w, "run")
       \/ /\ ~ \E r \in Row : Claimable(t, r)
          /\ Goto(t, w, "look")
          /\ UNCHANGED <<rowVars, at>>
    /\ WorkerFrame /\ UNCHANGED <<pause, faults>>

\* waiting(): the run still has rows pending, ones waiting for another
Waiting(t) ==
    /\ status[runJob[t]] = "running" /\ Holds(t)
    /\ \E r \in RowsOf(runJob[t]) : rowStatus[r] = "pending"

Look(t, w) ==
    /\ At(t, w, "look")
    /\ Goto(t, w, IF Waiting(t) THEN "check" ELSE "off")
    /\ WorkerFrame /\ UNCHANGED <<rowVars, pause, at, faults>>

\* The directory answered, or failed part way: an outcome to record.
RunOutcome(t, w) ==
    /\ At(t, w, "run")
    /\ \E o \in Outcomes :
        /\ Goto(t, w, o)
        /\ \/ UNCHANGED pause
           \/ /\ o \in {"failed", "partial"}
              /\ pause' = [pause EXCEPT ![t] = "directory_unavailable"]
    /\ WorkerFrame /\ UNCHANGED <<rowVars, at, faults>>

\* No domain controller answered: the job pauses, the row goes back.
RunUnavailable(t, w) ==
    /\ At(t, w, "run")
    /\ Goto(t, w, "release")
    /\ pause' = [pause EXCEPT ![t] = "directory_unavailable"]
    /\ WorkerFrame /\ UNCHANGED <<rowVars, at, faults>>

\* A row's result is this run's to write while the row has its token.
OwnsAny(t, r) == TRUE
Owns(t, r) == rowToken[r] = t

Write(t, w, to) ==
    LET r == at[<<t, w>>] IN
    /\ rowStatus' = IF Owns(t, r) THEN [rowStatus EXCEPT ![r] = to]
                    ELSE rowStatus
    /\ at' = [at EXCEPT ![<<t, w>>] = NoRow]
    /\ Goto(t, w, "check")
    /\ WorkerFrame /\ UNCHANGED <<rowToken, pause, faults>>

Release(t, w) == At(t, w, "release") /\ Write(t, w, "pending")

Record(t, w) == \E o \in Outcomes : At(t, w, o) /\ Write(t, w, o)

\* catch: stopped.pause is set, whatever it was
UncaughtPause(t) == pause
CaughtPause(t) == [pause EXCEPT ![t] = "interrupted"]

\* A statement of the worker's throws: the others stop claiming rows.
WorkerFails(t, w) ==
    /\ \E l \in PCs \ {"off", "run"} : At(t, w, l)
    /\ Fault
    /\ Goto(t, w, "off")
    /\ at' = [at EXCEPT ![<<t, w>>] = NoRow]
    /\ pause' = CaughtPause(t)
    /\ WorkerFrame /\ UNCHANGED rowVars

(***************************************************************************)
(* settle(): pause or finish the job, then fail the rows left in flight.   *)
(***************************************************************************)
Settles(t) ==
    /\ phase[t] = "working" /\ proc[runProc[t]] # "down"
    /\ \A w \in Worker : pc[<<t, w>>] = "off"

PauseUnset(t) == pause[t]
PauseUnknown(t) ==
    IF pause[t] = "none" /\ Stopping(t) THEN "stopping" ELSE pause[t]

\* What the run pauses for: a stop, unless a worker had a reason
Pause(t) == IF pause[t] = "none" /\ Stopping(t) THEN "interrupted" ELSE pause[t]

\* The job is still this run's to pause or finish.
CurrentStatus(t) == status[runJob[t]] = "running"
Current(t) == Holds(t) /\ status[runJob[t]] = "running"

SettlePause(t) ==
    /\ Settles(t) /\ Pause(t) # "none"
    /\ IF Current(t)
       THEN /\ status' = [status EXCEPT ![runJob[t]] = "paused"]
            /\ reason' = [reason EXCEPT ![runJob[t]] = Pause(t)]
            /\ token' = NoRun(runJob[t])
            /\ phase' = [phase EXCEPT ![t] = "settling"]
       ELSE /\ phase' = [phase EXCEPT ![t] = "over"]
            /\ UNCHANGED <<status, reason, token>>
    /\ UNCHANGED <<fresh, headed, planned, rowVars, runProc, runJob, pause,
                   workVars, procVars, givenUp, calls, faults, lapses>>

SettleFinish(t) ==
    /\ Settles(t) /\ Pause(t) = "none"
    /\ phase' = [phase EXCEPT ![t] = "over"]
    /\ IF Current(t)
       THEN /\ status' = [status EXCEPT ![runJob[t]] = "finished"]
            /\ token' = NoRun(runJob[t])
            /\ planned' = Replanned(runJob[t])
       ELSE UNCHANGED <<status, token, planned>>
    /\ UNCHANGED <<reason, fresh, headed, rowVars, runProc, runJob, pause,
                   workVars, procVars, givenUp, calls, faults, lapses>>

\* interruptRows(job, token), once the job is paused
SettleRows(t) ==
    /\ phase[t] = "settling" /\ proc[runProc[t]] # "down"
    /\ rowStatus' = [r \in Row |->
            IF r \in InFlight(runJob[t]) /\ Owns(t, r) THEN "failed"
            ELSE rowStatus[r]]
    /\ phase' = [phase EXCEPT ![t] = "over"]
    /\ UNCHANGED <<jobVars, rowToken, runProc, runJob, pause, workVars,
                   procVars, givenUp, calls, faults, lapses>>

SettleFails(t) ==
    /\ Settles(t) \/ (phase[t] = "settling" /\ proc[runProc[t]] # "down")
    /\ Fault
    /\ phase' = [phase EXCEPT ![t] = "over"]
    /\ UNCHANGED <<jobVars, rowVars, runProc, runJob, pause, workVars,
                   procVars, givenUp, calls, lapses>>

-----------------------------------------------------------------------------
(***************************************************************************)
(* Operators stop, continue and retry jobs, through any process that is up.*)
(***************************************************************************)

Cancel(j) ==
    /\ \E p \in Proc : proc[p] = "up"
    /\ Call
    /\ status[j] \in OpenJob
    /\ status' = [status EXCEPT ![j] = "cancelled"]
    /\ reason' = [reason EXCEPT ![j] = "none"]
    /\ token' = NoRun(j)
    /\ planned' = Replanned(j)
    /\ rowStatus' = [r \in Row |->
            IF JobOf[r] = j /\ rowStatus[r] = "pending" THEN "skipped"
            ELSE rowStatus[r]]
    /\ UNCHANGED <<fresh, headed, rowToken, runVars, workVars, procVars,
                   givenUp, faults, lapses>>

\* Queued again on the caller's session; the audit event and the kick follow.
Continue(p, j) ==
    /\ proc[p] = "up" /\ Call
    /\ status' = [status EXCEPT ![j] = "queued"]
    /\ reason' = [reason EXCEPT ![j] = "none"]
    /\ fresh' = [fresh EXCEPT ![j] = TRUE]
    /\ armed' = TakenOver(p, j)
    /\ announcing' = announcing \cup {<<p, j, "continue">>}
    /\ UNCHANGED <<token, headed, runVars, workVars, proc, kicked, sweeping,
                   givenUp, faults, lapses>>

Resume(p, j) ==
    /\ status[j] = "paused"
    /\ Continue(p, j)
    /\ UNCHANGED <<planned, rowVars>>

\* RETRIED: the rows a retry runs again
RetriedRunning(j) ==
    {r \in RowsOf(j) : rowStatus[r] \in {"failed", "partial", "running"}}
Retried(j) == {r \in RowsOf(j) : rowStatus[r] \in {"failed", "partial"}}

\* The job whose record a retry of j locks: the one j reverts, or j
Locked(j) == IF Reverts[j] = NoJob THEN j ELSE Reverts[j]

\* retryRows' check under that lock
RetryUnchecked(j) == FALSE
RetryRefused(j) == HasOpenRevert(Locked(j), j)

Retry(p, j) ==
    /\ ~ RetryRefused(j) /\ IndexAllows(j)
    /\ status[j] \in {"paused", "finished", "cancelled"}
    /\ Retried(j) # {}
    /\ Continue(p, j)
    /\ rowStatus' = [r \in Row |->
            IF r \in Retried(j) THEN "pending" ELSE rowStatus[r]]
    /\ planned' = Replanned(j)
    /\ UNCHANGED rowToken

\* The operator's elevated session ends, or the cache drops its password.
EndElevation(p, j) ==
    /\ <<p, j>> \in armed
    /\ armed' = armed \ {<<p, j>>}
    /\ UNCHANGED <<jobVars, rowVars, runVars, workVars, proc, announcing,
                   kicked, sweeping, givenUp, calls, faults, lapses>>

-----------------------------------------------------------------------------
(***************************************************************************)
(* Heartbeats, and the sweep for jobs that lost theirs.                    *)
(***************************************************************************)
Beating(t) == phase[t] = "working" /\ proc[runProc[t]] # "down" /\ Holds(t)

\* Somebody alive is about to take the job further.
Attended(j) ==
    \/ \E t \in Token : Beating(t) /\ runJob[t] = j
    \/ \E p \in Proc : status[j] = "queued" /\
        \/ <<p, j>> \in kicked /\ ~ Winding(p, j)
        \/ \E what \in {"create", "continue"} : <<p, j, what>> \in announcing

\* The interval started by run(): it stops before settle().
Beat(t) ==
    /\ Beating(t) /\ ~ fresh[runJob[t]]
    /\ fresh' = [fresh EXCEPT ![runJob[t]] = TRUE]
    /\ UNCHANGED <<status, reason, token, headed, planned, rowVars, runVars,
                   workVars, procVars, givenUp, calls, faults, lapses>>

\* heartbeat_at falls behind STALE_AFTER: nobody beats, or, MaxLapses times,
\* whoever should is held up that long.
Lapse(j) ==
    /\ status[j] \in {"queued", "running"} /\ fresh[j]
    /\ IF Attended(j) THEN lapses < MaxLapses /\ lapses' = lapses + 1
                      ELSE UNCHANGED lapses
    /\ fresh' = [fresh EXCEPT ![j] = FALSE]
    /\ UNCHANGED <<status, reason, token, headed, planned, rowVars, runVars,
                   workVars, procVars, givenUp, calls, faults>>

StaleRunning == {j \in Job : status[j] = "running" /\ ~ fresh[j]}
Stale == {j \in Job : status[j] \in {"queued", "running"} /\ ~ fresh[j]}

\* recoverStale's UPDATE pauses every stale job at once ...
Sweep(p) ==
    /\ proc[p] = "up" /\ Stale # {}
    /\ status' = [j \in Job |-> IF j \in Stale THEN "paused" ELSE status[j]]
    /\ reason' = [j \in Job |->
            IF j \in Stale THEN "interrupted" ELSE reason[j]]
    /\ token' = [j \in Job |-> IF j \in Stale THEN NoToken ELSE token[j]]
    /\ sweeping' = [sweeping EXCEPT ![p] = @ \cup Stale]
    /\ UNCHANGED <<fresh, headed, planned, rowVars, runVars, workVars, proc,
                   announcing, kicked, armed, givenUp, calls, faults, lapses>>

Writing(t, w, r) ==
    at[<<t, w>>] = r /\ pc[<<t, w>>] \in Busy /\ proc[runProc[t]] # "down"

\* ... and then fails their rows in flight, any run's, one job at a time.
SweepRows(p, j) ==
    /\ j \in sweeping[p] /\ proc[p] # "down"
    /\ sweeping' = [sweeping EXCEPT ![p] = @ \ {j}]
    /\ rowStatus' = [r \in Row |->
            IF r \in InFlight(j) THEN "failed" ELSE rowStatus[r]]
    /\ givenUp' = givenUp \cup
            {r \in InFlight(j) : \E t \in Token, w \in Worker : Writing(t, w, r)}
    /\ UNCHANGED <<jobVars, rowToken, runVars, workVars, proc, announcing,
                   kicked, armed, calls, faults, lapses>>

\* One job's rows can't be failed: the jobs after it aren't tried.
SweepFails(p) ==
    /\ sweeping[p] # {} /\ proc[p] # "down" /\ Fault
    /\ sweeping' = [sweeping EXCEPT ![p] = {}]
    /\ UNCHANGED <<jobVars, rowVars, runVars, workVars, proc, announcing,
                   kicked, armed, givenUp, calls, lapses>>

-----------------------------------------------------------------------------
(***************************************************************************)
(* Processes: stop() lets rows in flight finish briefly; what is still     *)
(* running when the process ends, or crashes, is lost with its memory.     *)
(***************************************************************************)
Stop(p) ==
    /\ proc[p] = "up" /\ Fault
    /\ proc' = [proc EXCEPT ![p] = "stopping"]
    /\ UNCHANGED <<jobVars, rowVars, runVars, workVars, announcing, kicked,
                   sweeping, armed, givenUp, calls, lapses>>

End(p) ==
    /\ \/ proc[p] = "up" /\ Fault
       \/ proc[p] = "stopping" /\ UNCHANGED faults
    /\ proc' = [proc EXCEPT ![p] = "down"]
    /\ phase' = [t \in Token |->
            IF phase[t] # "unused" /\ runProc[t] = p THEN "over" ELSE phase[t]]
    /\ pc' = [s \in Slot |-> IF runProc[s[1]] = p THEN "off" ELSE pc[s]]
    /\ at' = [s \in Slot |-> IF runProc[s[1]] = p THEN NoRow ELSE at[s]]
    /\ announcing' = {a \in announcing : a[1] # p}
    /\ kicked' = {k \in kicked : k[1] # p}
    /\ armed' = {k \in armed : k[1] # p}
    /\ sweeping' = [sweeping EXCEPT ![p] = {}]
    /\ UNCHANGED <<jobVars, rowVars, runProc, runJob, pause, givenUp,
                   calls, lapses>>

Restart(p) ==
    /\ proc[p] = "down"
    /\ proc' = [proc EXCEPT ![p] = "up"]
    /\ UNCHANGED <<jobVars, rowVars, runVars, workVars, announcing, kicked,
                   sweeping, armed, givenUp, calls, faults, lapses>>

-----------------------------------------------------------------------------
Work(t, w) == Check(t, w) \/ Claim(t, w) \/ Look(t, w) \/ RunOutcome(t, w)
              \/ RunUnavailable(t, w) \/ Release(t, w) \/ Record(t, w)

Settle(t) == SettlePause(t) \/ SettleFinish(t) \/ SettleRows(t)

Kick(p, j) == StartNothing(p, j) \/ \E t \in Token : StartRun(p, j, t)

Announce(p, j) == \E what \in {"create", "continue"} : AnnounceOk(p, j, what)

Next ==
    \/ \E p \in Proc, j \in Job :
        \/ Create(p, j) \/ CreateRevert(p, j)
        \/ Resume(p, j) \/ Retry(p, j) \/ EndElevation(p, j)
        \/ Announce(p, j) \/ Kick(p, j) \/ SweepRows(p, j)
        \/ \E what \in {"create", "continue"} : AnnounceFails(p, j, what)
        \/ \E t \in Token : StartUnbuilt(p, j, t)
    \/ \E j \in Job : PlanRevert(j) \/ Cancel(j) \/ Lapse(j)
    \/ \E p \in Proc :
        Sweep(p) \/ SweepFails(p) \/ Stop(p) \/ End(p) \/ Restart(p)
    \/ \E t \in Token : Settle(t) \/ SettleFails(t) \/ Beat(t)
    \/ \E t \in Token, w \in Worker : Work(t, w) \/ WorkerFails(t, w)

Spec == Init /\ [][Next]_vars

(***************************************************************************)
(* What the runtime schedules happens in the end: timers fire, awaited     *)
(* calls return, a supervisor restarts the process.  Nothing is assumed of *)
(* operators, of failures, or of heartbeats somebody holds up.             *)
(***************************************************************************)
Fairness ==
    /\ \A p \in Proc, j \in Job :
        WF_vars(Announce(p, j)) /\ WF_vars(Kick(p, j)) /\ WF_vars(SweepRows(p, j))
    /\ \A p \in Proc : WF_vars(Sweep(p)) /\ WF_vars(Restart(p))
                       /\ WF_vars(proc[p] = "stopping" /\ End(p))
    /\ \A j \in Job : WF_vars(~ Attended(j) /\ Lapse(j))
    /\ \A t \in Token : WF_vars(Settle(t)) /\ WF_vars(Beat(t))
    /\ \A t \in Token, w \in Worker : WF_vars(Work(t, w))

FairSpec == Spec /\ Fairness

-----------------------------------------------------------------------------
(***************************************************************************)
(* Properties.                                                             *)
(***************************************************************************)

\* A job runs exactly while one run holds its token, and that run is a run
\* of this job: every heartbeat, claim, pause and finish matches on it.
OneRunHolds == \A j \in Job :
    /\ status[j] = "running" <=> token[j] # NoToken
    /\ \A t \in Token : token[j] = t => runJob[t] = j /\ phase[t] # "unused"

\* No two workers, of one run or of two, write the same row at once, unless
\* a sweep has failed the row under a worker that was still at it.
OneWriter ==
    \A t1, t2 \in Token, w1, w2 \in Worker, r \in Row :
        Writing(t1, w1, r) /\ Writing(t2, w2, r)
            => r \in givenUp \/ <<t1, w1>> = <<t2, w2>>

\* A recorded success stays recorded: no retry, release, sweep, pause or
\* late result takes it back, or the row would be written twice and a
\* revert would not know what to put back.  (Implements says it too.)
SucceededIsFinal ==
    [][\A r \in Row : rowStatus[r] = "succeeded" => rowStatus'[r] = "succeeded"]_vars

\* Only the run that holds a job finishes it, and only once its own workers
\* are done: a run that lost the job, winding down elsewhere, can't.  And
\* no row of the job then waits to be written; rows put back by a run that
\* had lost the job are the exception.
FinishedByHolder(j) ==
    \A t \in Token, w \in Worker : token[j] = t => pc[<<t, w>>] = "off"
NoneForgotten(j) ==
    \A r \in RowsOf(j) :
        rowStatus'[r] = "pending" => rowToken[r] \notin {NoToken, token[j]}
FinishedWhole ==
    [][\A j \in Job : status[j] = "running" /\ status'[j] = "finished" =>
        FinishedByHolder(j) /\ NoneForgotten(j)]_vars

\* No row of a stopped job waits to be written that no run ever took up:
\* neither an end nor a cancel leaves one.
StoppedTookUpAll ==
    \A r \in Row : status[JobOf[r]] \in Stopped /\ rowStatus[r] = "pending"
        => rowToken[r] # NoToken

\* A job whose audit event was never written has rows run only if somebody
\* continued it: the crash between insert() and the event, with all that
\* sweeps and restarts do afterwards, does not start it.
AuditedUnlessContinued ==
    calls = 0 => \A r \in Row : rowStatus[r] = "running" => headed[JobOf[r]]

\* Somebody will end the row in flight: its worker; the run, or the sweep
\* of the job that lost it; or a settle or a sweep that is failing it.
Tended(r) ==
    \/ \E t \in Token, w \in Worker : Writing(t, w, r)
    \/ status[JobOf[r]] = "running"
    \/ \E t \in Token : rowToken[r] = t /\ phase[t] = "settling"
    \/ \E p \in Proc : JobOf[r] \in sweeping[p]

\* One thing that goes wrong strands no row in flight, be it a crash, a
\* stop, a failed statement, a heartbeat held up or a call of an operator
\* at the wrong moment.  It takes two.
OneFaultStrandsNone ==
    calls + faults + lapses <= 1 =>
        \A r \in Row : rowStatus[r] = "running" => Tended(r)

\* At most one revert of a job may still write, those whose rows are still
\* in flight after a stop included.
OneOpenRevert ==
    \A i, j \in Job : Reverts[i] = Reverts[j] /\ Reverts[i] # NoJob
        /\ MayWrite(i) /\ MayWrite(j) => i = j

\* A revert being planned from a job's results is dropped once that job is
\* continued, so it is stored only while the job is stopped (or not at all,
\* if the job could not be audited and was deleted meanwhile).
PlansAreCurrent ==
    \A j \in planned : status[Reverts[j]] \in Stopped \cup {"deleted"}

\* A job and its revert may both write: what docs/security.md excludes.
Overlap(j) == MayWrite(j) /\ MayWrite(Reverts[j])

\* While a revert of a stopped job may write, its rows in flight after a
\* stop included, neither a retry nor a resume starts the job again; and
\* only a retry of the revert itself makes the two overlap.
RevertedStaysStopped(j) ==
    MayWrite(j) /\ status[Reverts[j]] \in Stopped => status'[Reverts[j]] \notin OpenJob
OverlapByRetry(j) ==
    ~ Overlap(j) /\ Overlap(j)' => \E p \in Proc : Retry(p, j)
RevertsApart ==
    [][\A j \in Job : Reverts[j] # NoJob =>
        RevertedStaysStopped(j) /\ OverlapByRetry(j)]_vars

InRun(j) == status[j] \in {"queued", "running"}

\* A row in flight that no run of its job, no worker, settle or sweep will end.
Stranded(r) ==
    /\ rowStatus[r] = "running" /\ rowToken[r] # token[JobOf[r]]
    /\ ~ \E t \in Token, w \in Worker : Writing(t, w, r)
    /\ ~ \E t \in Token : rowToken[r] = t /\ phase[t] = "settling"
    /\ ~ \E p \in Proc : JobOf[r] \in sweeping[p]
WaitsOnStranded(j) ==
    \E r \in RowsOf(j) :
        rowStatus[r] = "pending" /\ After[r] # NoRow /\ Stranded(After[r])

\* A job that is queued or running ends, pauses or is stopped: it does not
\* hang when its process dies or stops, whatever else fails, nor while its
\* rows wait for each other (service.ts:617, 687).  One thing alone keeps one
\* running for ever: a row of it waits for a row an earlier run left stranded.
JobsSettle ==
    \A j \in Job : <>[]InRun(j) => <>[]WaitsOnStranded(j)

\* Whatever the runs, workers and sweeps do to it, a job and its rows only
\* move the way JobLifecycle says: rows start only in a running job, a stop
\* skips and a retry takes up exactly the rows they should, and a recorded
\* result changes only by a retry or if it was given up.
Lifecycle == INSTANCE JobLifecycle WITH job <- status, row <- rowStatus
Implements == Lifecycle!Spec

-----------------------------------------------------------------------------
(***************************************************************************)
(* What the documentation says, and the code does not do.                  *)
(***************************************************************************)

\* docs/security.md: a retry and a revert lock the reverted job, so a job
\* and a revert of it never write at the same time.
JobAndRevertExclusive ==
    \A j \in Job : Reverts[j] # NoJob => ~ Overlap(j)

\* cancel(): rows not yet started are skipped, rows in flight finish; no row
\* of a stopped job waits to be written.
StoppedLeavesNoPending ==
    \A r \in Row : status[JobOf[r]] \in Stopped => rowStatus[r] # "pending"

\* docs/architecture.md: a process that stops mid-job leaves its rows in
\* flight failed and retryable; no row stays in flight for ever.
RunningRowResolves ==
    \A r \in Row : rowStatus[r] = "running" ~> rowStatus[r] # "running"

\* docs/architecture.md:88: a job whose process died is paused by the next sweep,
\* its rows in flight failed; so no job stays queued or running for ever.
EveryJobSettles == \A j \in Job : InRun(j) ~> ~ InRun(j)

\* insert(): a job that can't be audited doesn't run.
RowsRunAudited ==
    \A r \in Row : rowStatus[r] = "running" => headed[JobOf[r]]
=============================================================================
