--------------------------- MODULE BulkJobsProofs ---------------------------
(***************************************************************************)
(* Proofs about bulk jobs, for any jobs, rows, processes, workers, run     *)
(* tokens and bounds.                                                      *)
(***************************************************************************)
EXTENDS BulkJobs, TLAPS

\* The initial state is well typed.
LEMMA TypeInit == Init => TypeOK
  BY ConstantsOK DEF Init, TypeOK, Slot, RowState, PCs, Reasons

\* Recording a result or putting a row back keeps the types.
LEMMA TypeWrite ==
    ASSUME TypeOK, NEW t \in Token, NEW w \in Worker, NEW to \in RowState,
           Write(t, w, to)
    PROVE  TypeOK'
  <1>1. rowStatus' \in [Row -> RowState]
    BY DEF TypeOK, Write
  <1>2. at' \in [Slot -> Row \cup {NoRow}] /\ pc' \in [Slot -> PCs]
    BY DEF TypeOK, Write, Goto, PCs
  <1> QED
    BY <1>1, <1>2 DEF TypeOK, Write, WorkerFrame, jobVars, procVars

\* Every step keeps the types: one action at a time.
LEMMA TypeStep == TypeOK /\ [Next]_vars => TypeOK'
  <1> SUFFICES ASSUME TypeOK, [Next]_vars PROVE TypeOK'
    OBVIOUS
  <1> USE ConstantsOK DEF TypeOK
  <1>1. ASSUME NEW p \in Proc, NEW j \in Job, Create(p, j) PROVE TypeOK'
    BY <1>1 DEF Create, Store, NotYetKicked, TakenOver, OpenJob, rowVars, runVars, workVars
  <1>2. ASSUME NEW j \in Job, PlanRevert(j) PROVE TypeOK'
    BY <1>2 DEF PlanRevert, rowVars, runVars, workVars, procVars
  <1>3. ASSUME NEW p \in Proc, NEW j \in Job, CreateRevert(p, j) PROVE TypeOK'
    BY <1>3 DEF CreateRevert, Store, NotYetKicked, TakenOver, OpenJob, rowVars, runVars, workVars
  <1>4. ASSUME NEW p \in Proc, NEW j \in Job, NEW what \in {"create", "continue"},
               AnnounceOk(p, j, what) PROVE TypeOK'
    BY <1>4 DEF AnnounceOk, rowVars, runVars, workVars
  <1>5. ASSUME NEW p \in Proc, NEW j \in Job, NEW what \in {"create", "continue"},
               AnnounceFails(p, j, what) PROVE TypeOK'
    BY <1>5 DEF AnnounceFails, NoRun, Fault, rowVars, runVars, workVars
  <1>6. ASSUME NEW p \in Proc, NEW j \in Job, NEW t \in Token, StartRun(p, j, t)
        PROVE TypeOK'
    BY <1>6 DEF StartRun, OpenJob, PCs, Slot, rowVars
  <1>7. ASSUME NEW p \in Proc, NEW j \in Job, NEW t \in Token, StartUnbuilt(p, j, t)
        PROVE TypeOK'
    BY <1>7 DEF StartUnbuilt, Fault, OpenJob, Reasons, rowVars, workVars
  <1>8. ASSUME NEW p \in Proc, NEW j \in Job, StartNothing(p, j) PROVE TypeOK'
    BY <1>8 DEF StartNothing, Fault, jobVars, rowVars, runVars, workVars
  <1>9. ASSUME NEW t \in Token, NEW w \in Worker, Work(t, w) \/ WorkerFails(t, w)
        PROVE TypeOK'
    <2> USE DEF WorkerFrame, jobVars, procVars, rowVars, Goto, PCs, Reasons, Slot
    <2>1. CASE Check(t, w)
      BY <2>1 DEF Check
    <2>2. CASE Claim(t, w)
      <3>1. CASE UNCHANGED <<rowVars, at>> /\ Goto(t, w, "look")
        BY <2>2, <3>1 DEF Claim
      <3>2. ASSUME NEW r \in Row,
                   rowStatus' = [rowStatus EXCEPT ![r] = "running"],
                   rowToken' = [rowToken EXCEPT ![r] = t],
                   at' = [at EXCEPT ![<<t, w>>] = r],
                   Goto(t, w, "run")
            PROVE TypeOK'
        BY <2>2, <3>2 DEF Claim, RowState
      <3> QED
        BY <2>2, <3>1, <3>2 DEF Claim
    <2>3. CASE Look(t, w)
      BY <2>3 DEF Look
    <2>4. CASE RunOutcome(t, w)
      BY <2>4 DEF RunOutcome, Results
    <2>5. CASE RunUnavailable(t, w)
      BY <2>5 DEF RunUnavailable
    <2>6. CASE Release(t, w)
      BY <2>6, TypeWrite DEF Release, RowState
    <2>7. CASE Record(t, w)
      <3>1. PICK o \in Outcomes : Write(t, w, o)
        BY <2>7 DEF Record
      <3> QED
        BY <3>1, TypeWrite DEF RowState, Results
    <2>8. CASE WorkerFails(t, w)
      BY <2>8 DEF WorkerFails, CaughtPause, Fault
    <2> QED
      BY <1>9, <2>1, <2>2, <2>3, <2>4, <2>5, <2>6, <2>7, <2>8 DEF Work
  <1>10. ASSUME NEW t \in Token, Settle(t) \/ SettleFails(t) PROVE TypeOK'
    <2> USE DEF jobVars, rowVars, workVars, procVars
    <2>1. CASE SettlePause(t)
      <3>1. Pause(t) \in Reasons
        BY DEF Pause, Reasons
      <3>2. /\ status' \in [Job -> {"absent", "deleted"} \cup OpenJob \cup Stopped]
            /\ phase' \in [Token -> {"unused", "working", "settling", "over"}]
        BY <2>1 DEF SettlePause, OpenJob
      <3>3. reason' \in [Job -> Reasons]
        BY <2>1, <3>1 DEF SettlePause
      <3>4. token' \in [Job -> Token \cup {NoToken}]
        BY <2>1 DEF SettlePause, NoRun
      <3> QED
        BY <2>1, <3>2, <3>3, <3>4 DEF SettlePause
    <2>2. CASE SettleFinish(t)
      BY <2>2 DEF SettleFinish, NoRun, Stopped, Replanned
    <2>3. CASE SettleRows(t)
      BY <2>3 DEF SettleRows, RowState, Results
    <2>4. CASE SettleFails(t)
      BY <2>4 DEF SettleFails, Fault
    <2> QED
      BY <1>10, <2>1, <2>2, <2>3, <2>4 DEF Settle
  <1>11. ASSUME NEW j \in Job, Cancel(j) PROVE TypeOK'
    BY <1>11 DEF Cancel, Call, NoRun, Stopped, Replanned, RowState, Results, Reasons,
                 runVars, workVars, procVars
  <1>12. ASSUME NEW p \in Proc, NEW j \in Job, Resume(p, j) PROVE TypeOK'
    BY <1>12 DEF Resume, Continue, Call, TakenOver, OpenJob, Reasons,
                 rowVars, runVars, workVars
  <1>13. ASSUME NEW p \in Proc, NEW j \in Job, Retry(p, j) PROVE TypeOK'
    BY <1>13 DEF Retry, Continue, Call, TakenOver, OpenJob, Reasons, Replanned,
                 RowState, runVars, workVars
  <1>14. ASSUME NEW p \in Proc, NEW j \in Job, EndElevation(p, j) PROVE TypeOK'
    BY <1>14 DEF EndElevation, jobVars, rowVars, runVars, workVars
  <1>15. ASSUME NEW t \in Token, Beat(t) PROVE TypeOK'
    BY <1>15 DEF Beat, rowVars, runVars, workVars, procVars
  <1>16. ASSUME NEW j \in Job, Lapse(j) PROVE TypeOK'
    BY <1>16 DEF Lapse, rowVars, runVars, workVars, procVars
  <1>17. ASSUME NEW p \in Proc, Sweep(p) PROVE TypeOK'
    BY <1>17 DEF Sweep, Stale, OpenJob, Reasons, rowVars, runVars, workVars
  <1>18. ASSUME NEW p \in Proc, NEW j \in Job, SweepRows(p, j) PROVE TypeOK'
    BY <1>18 DEF SweepRows, InFlight, RowsOf, RowState, Results,
                 jobVars, runVars, workVars
  <1>19. ASSUME NEW p \in Proc, SweepFails(p) PROVE TypeOK'
    BY <1>19 DEF SweepFails, Fault, jobVars, rowVars, runVars, workVars
  <1>20. ASSUME NEW p \in Proc, Stop(p) PROVE TypeOK'
    BY <1>20 DEF Stop, Fault, jobVars, rowVars, runVars, workVars
  <1>21. ASSUME NEW p \in Proc, End(p) PROVE TypeOK'
    BY <1>21 DEF End, Fault, PCs, jobVars, rowVars
  <1>22. ASSUME NEW p \in Proc, Restart(p) PROVE TypeOK'
    BY <1>22 DEF Restart, jobVars, rowVars, runVars, workVars
  <1>23. CASE UNCHANGED vars
    BY <1>23 DEF vars, jobVars, rowVars, runVars, workVars, procVars
  <1> HIDE DEF TypeOK
  <1> QED
    BY <1>1, <1>2, <1>3, <1>4, <1>5, <1>6, <1>7, <1>8, <1>9, <1>10, <1>11, <1>12,
       <1>13, <1>14, <1>15, <1>16, <1>17, <1>18, <1>19, <1>20, <1>21, <1>22, <1>23
    DEF Next, Announce, Kick

\* Every variable keeps to the values the database columns and the memory of
\* a process can hold.
THEOREM TypeCorrect == Spec => []TypeOK
  BY TypeInit, TypeStep, PTL DEF Spec

-----------------------------------------------------------------------------
(***************************************************************************)
(* Runs: who they belong to, and which one holds a job.                    *)
(***************************************************************************)
\* A run in use is of a job, in a process.
RunsAreOfJobs == \A t \in Token :
    phase[t] # "unused" => runJob[t] \in Job /\ runProc[t] \in Proc

\* Workers work for a run that is working, in a process that is up.
WorkersWork == \A t \in Token, w \in Worker :
    pc[<<t, w>>] # "off" => phase[t] = "working" /\ proc[runProc[t]] # "down"

\* Only a process that is up has jobs to run.
KickedAreAlive == \A p \in Proc, j \in Job : <<p, j>> \in kicked => proc[p] # "down"

\* A row is claimed by a run in use.
RowsClaimedByRuns == \A r \in Row, t \in Token : rowToken[r] = t => phase[t] # "unused"

\* The inductive invariant of runs.
RunInv ==
    TypeOK /\ RunsAreOfJobs /\ WorkersWork /\ KickedAreAlive /\ RowsClaimedByRuns
    /\ OneRunHolds

\* No job runs at first.
LEMMA RunInit == Init => RunInv
  <1> SUFFICES ASSUME Init PROVE RunInv
    OBVIOUS
  <1>1. TypeOK
    BY TypeInit
  <1>2. RunsAreOfJobs /\ WorkersWork /\ KickedAreAlive
    BY DEF Init, RunsAreOfJobs, WorkersWork, KickedAreAlive, Slot
  <1>3. RowsClaimedByRuns /\ OneRunHolds
    BY ConstantsOK DEF Init, RowsClaimedByRuns, OneRunHolds
  <1> QED
    BY <1>1, <1>2, <1>3 DEF RunInv

\* Every step keeps the bookkeeping of runs: one action at a time.
LEMMA RunStep == RunInv /\ [Next]_vars => RunInv'
  <1> SUFFICES ASSUME RunInv, [Next]_vars PROVE RunInv'
    OBVIOUS
  <1>t. TypeOK /\ TypeOK'
    BY TypeStep DEF RunInv
  <1> USE ConstantsOK DEF RunInv, RunsAreOfJobs, WorkersWork, KickedAreAlive,
                          RowsClaimedByRuns, OneRunHolds
  <1>1. ASSUME NEW p \in Proc, NEW j \in Job, Create(p, j) PROVE RunInv'
    BY <1>t, <1>1 DEF Create, Store, NotYetKicked, rowVars, runVars, workVars, TypeOK
  <1>2. ASSUME NEW j \in Job, PlanRevert(j) PROVE RunInv'
    BY <1>t, <1>2 DEF PlanRevert, rowVars, runVars, workVars, procVars, TypeOK
  <1>3. ASSUME NEW p \in Proc, NEW j \in Job, CreateRevert(p, j) PROVE RunInv'
    BY <1>t, <1>3 DEF CreateRevert, Store, NotYetKicked, rowVars, runVars, workVars, TypeOK
  <1>4. ASSUME NEW p \in Proc, NEW j \in Job, NEW what \in {"create", "continue"},
               AnnounceOk(p, j, what) PROVE RunInv'
    BY <1>t, <1>4 DEF AnnounceOk, rowVars, runVars, workVars, TypeOK
  <1>5. ASSUME NEW p \in Proc, NEW j \in Job, NEW what \in {"create", "continue"},
               AnnounceFails(p, j, what) PROVE RunInv'
    BY <1>t, <1>5 DEF AnnounceFails, NoRun, rowVars, runVars, workVars, TypeOK
  <1>6. ASSUME NEW p \in Proc, NEW j \in Job, NEW t \in Token, StartRun(p, j, t)
        PROVE RunInv'
    BY <1>t, <1>6 DEF StartRun, rowVars, TypeOK, Slot
  <1>7. ASSUME NEW p \in Proc, NEW j \in Job, NEW t \in Token, StartUnbuilt(p, j, t)
        PROVE RunInv'
    BY <1>t, <1>7 DEF StartUnbuilt, rowVars, workVars, TypeOK
  <1>8. ASSUME NEW p \in Proc, NEW j \in Job, StartNothing(p, j) PROVE RunInv'
    BY <1>t, <1>8 DEF StartNothing, jobVars, rowVars, runVars, workVars
  <1>9. ASSUME NEW t \in Token, NEW w \in Worker, Work(t, w) \/ WorkerFails(t, w)
        PROVE RunInv'
    <2> USE <1>t DEF WorkerFrame, jobVars, procVars, rowVars, Goto, At, TypeOK, Slot
    <2>1. CASE Check(t, w)
      BY <2>1 DEF Check
    <2>2. CASE Claim(t, w)
      <3>1. \A r \in Row, u \in Token :
                rowToken'[r] = u => rowToken[r] = u \/ u = t
        BY <2>2 DEF Claim
      <3>2. phase[t] = "working" /\ phase' = phase
        BY <2>2 DEF Claim
      <3>3. RowsClaimedByRuns'
        BY <3>1, <3>2
      <3> QED
        BY <2>2, <3>2, <3>3 DEF Claim
    <2>3. CASE Look(t, w)
      BY <2>3 DEF Look
    <2>4. CASE RunOutcome(t, w)
      BY <2>4 DEF RunOutcome
    <2>5. CASE RunUnavailable(t, w)
      BY <2>5 DEF RunUnavailable
    <2>6. CASE Release(t, w)
      BY <2>6 DEF Release, Write
    <2>7. CASE Record(t, w)
      BY <2>7 DEF Record, Write
    <2>8. CASE WorkerFails(t, w)
      BY <2>8 DEF WorkerFails
    <2> QED
      BY <1>9, <2>1, <2>2, <2>3, <2>4, <2>5, <2>6, <2>7, <2>8 DEF Work
  <1>10. ASSUME NEW t \in Token, Settle(t) \/ SettleFails(t) PROVE RunInv'
    <2> USE <1>t DEF jobVars, rowVars, workVars, procVars, TypeOK, Settles
    <2>1. CASE SettlePause(t)
      BY <2>1 DEF SettlePause, NoRun, Current, Holds
    <2>2. CASE SettleFinish(t)
      BY <2>2 DEF SettleFinish, NoRun, Current, Holds
    <2>3. CASE SettleRows(t)
      BY <2>3 DEF SettleRows
    <2>4. CASE SettleFails(t)
      BY <2>4 DEF SettleFails
    <2> QED
      BY <1>10, <2>1, <2>2, <2>3, <2>4 DEF Settle
  <1>11. ASSUME NEW j \in Job, Cancel(j) PROVE RunInv'
    BY <1>t, <1>11 DEF Cancel, NoRun, runVars, workVars, procVars, TypeOK
  <1>12. ASSUME NEW p \in Proc, NEW j \in Job, Resume(p, j) PROVE RunInv'
    BY <1>t, <1>12 DEF Resume, Continue, rowVars, runVars, workVars, TypeOK
  <1>13. ASSUME NEW p \in Proc, NEW j \in Job, Retry(p, j) PROVE RunInv'
    BY <1>t, <1>13 DEF Retry, Continue, runVars, workVars, TypeOK
  <1>14. ASSUME NEW p \in Proc, NEW j \in Job, EndElevation(p, j) PROVE RunInv'
    BY <1>t, <1>14 DEF EndElevation, jobVars, rowVars, runVars, workVars
  <1>15. ASSUME NEW t \in Token, Beat(t) PROVE RunInv'
    BY <1>t, <1>15 DEF Beat, rowVars, runVars, workVars, procVars
  <1>16. ASSUME NEW j \in Job, Lapse(j) PROVE RunInv'
    BY <1>t, <1>16 DEF Lapse, rowVars, runVars, workVars, procVars
  <1>17. ASSUME NEW p \in Proc, Sweep(p) PROVE RunInv'
    BY <1>t, <1>17 DEF Sweep, Stale, rowVars, runVars, workVars, TypeOK
  <1>18. ASSUME NEW p \in Proc, NEW j \in Job, SweepRows(p, j) PROVE RunInv'
    BY <1>t, <1>18 DEF SweepRows, jobVars, runVars, workVars
  <1>19. ASSUME NEW p \in Proc, SweepFails(p) PROVE RunInv'
    BY <1>t, <1>19 DEF SweepFails, jobVars, rowVars, runVars, workVars
  <1>20. ASSUME NEW p \in Proc, Stop(p) PROVE RunInv'
    BY <1>t, <1>20 DEF Stop, jobVars, rowVars, runVars, workVars, TypeOK
  <1>21. ASSUME NEW p \in Proc, End(p) PROVE RunInv'
    BY <1>t, <1>21 DEF End, jobVars, rowVars, TypeOK, Slot
  <1>22. ASSUME NEW p \in Proc, Restart(p) PROVE RunInv'
    BY <1>t, <1>22 DEF Restart, jobVars, rowVars, runVars, workVars, TypeOK
  <1>23. CASE UNCHANGED vars
    BY <1>t, <1>23 DEF vars, jobVars, rowVars, runVars, workVars, procVars
  <1> HIDE DEF RunInv
  <1> QED
    BY <1>1, <1>2, <1>3, <1>4, <1>5, <1>6, <1>7, <1>8, <1>9, <1>10, <1>11, <1>12,
       <1>13, <1>14, <1>15, <1>16, <1>17, <1>18, <1>19, <1>20, <1>21, <1>22, <1>23
    DEF Next, Announce, Kick

\* A job runs exactly while one run holds its run_token, and that run is a
\* run of the job.
THEOREM OneRunHoldsAlways == Spec => []OneRunHolds
  <1>1. RunInv => OneRunHolds
    BY DEF RunInv
  <1> QED
    BY RunInit, RunStep, <1>1, PTL DEF Spec

-----------------------------------------------------------------------------
(***************************************************************************)
(* Rows: who writes one, and whose result counts.                          *)
(***************************************************************************)
\* The worker has the row, and writes or is about to record it.
Holder(t, w, r) == at[<<t, w>>] = r /\ pc[<<t, w>>] \in Busy

\* A worker's row is a row of the job its run is of.
HoldersHold == \A t \in Token, w \in Worker : pc[<<t, w>>] \in Busy =>
    at[<<t, w>>] \in Row /\ JobOf[at[<<t, w>>]] = runJob[t]

\* Until a sweep fails the row under it, a worker's row is its run's.
HeldUntilGivenUp == \A t \in Token, w \in Worker, r \in Row :
    Holder(t, w, r) /\ r \notin givenUp => rowToken[r] = t /\ rowStatus[r] = "running"

\* While its run holds the job, whatever else happens to the row.
HeldWhileCurrent == \A t \in Token, w \in Worker, r \in Row :
    Holder(t, w, r) /\ token[runJob[t]] = t =>
        rowToken[r] = t /\ rowStatus[r] \in {"running", "failed"}

\* No two workers of a run have the same row.
HoldersDiffer == \A t \in Token, v, w \in Worker, r \in Row :
    Holder(t, v, r) /\ Holder(t, w, r) => v = w

\* A result that will count is not recorded yet.
NotYetRecorded == \A t \in Token, w \in Worker, r \in Row :
    Holder(t, w, r) /\ rowToken[r] = t => rowStatus[r] # "succeeded"

\* The inductive invariant of rows, given RunInv.
RowInv == HoldersHold /\ HeldUntilGivenUp /\ HeldWhileCurrent /\ HoldersDiffer
          /\ NotYetRecorded

\* No worker holds a row at first.
LEMMA RowInit == Init => RowInv
  BY DEF Init, RowInv, HoldersHold, HeldUntilGivenUp, HeldWhileCurrent,
         HoldersDiffer, NotYetRecorded, Holder, Busy, Results, Slot

\* A step that leaves rows, workers and the tokens of runs at work alone.
LEMMA RowsUntouched ==
    ASSUME RowInv, UNCHANGED <<rowStatus, rowToken, pc, at, givenUp>>,
           \A t \in Token, w \in Worker : pc[<<t, w>>] \in Busy =>
               /\ runJob'[t] = runJob[t]
               /\ token'[runJob[t]] = t => token[runJob[t]] = t
    PROVE  RowInv'
  BY DEF RowInv, HoldersHold, HeldUntilGivenUp, HeldWhileCurrent,
         HoldersDiffer, NotYetRecorded, Holder

\* A step that changes rows other than those a run at work still has: only
\* rows that don't run, or, ending in failed, ones its job's run has lost.
LEMMA RowsReset ==
    ASSUME RowInv, UNCHANGED <<rowToken, pc, at, runJob>>,
           givenUp \subseteq givenUp',
           \A r \in Row : rowStatus'[r] # rowStatus[r] =>
               /\ rowStatus'[r] # "succeeded"
               /\ rowStatus[r] = "running" =>
                    /\ rowStatus'[r] = "failed"
                    /\ \A t \in Token, w \in Worker : Holder(t, w, r) => r \in givenUp'
               /\ rowStatus[r] # "running" => \A t \in Token, w \in Worker :
                    Holder(t, w, r) => token'[runJob[t]] # t,
           \A t \in Token : token'[runJob[t]] = t => token[runJob[t]] = t
    PROVE  RowInv'
  <1> USE DEF RowInv, HoldersHold, HeldUntilGivenUp, HeldWhileCurrent,
              HoldersDiffer, NotYetRecorded, Holder
  <1>1. HoldersHold' /\ HoldersDiffer'
    OBVIOUS
  <1>2. HeldUntilGivenUp'
    <2> SUFFICES ASSUME NEW t \in Token, NEW w \in Worker, NEW r \in Row,
                        Holder(t, w, r), r \notin givenUp'
                 PROVE  rowToken[r] = t /\ rowStatus'[r] = "running"
      OBVIOUS
    <2>1. rowToken[r] = t /\ rowStatus[r] = "running"
      OBVIOUS
    <2> QED
      BY <2>1
  <1>3. HeldWhileCurrent'
    OBVIOUS
  <1>4. NotYetRecorded'
    OBVIOUS
  <1> QED
    BY <1>1, <1>2, <1>3, <1>4

\* A worker's own step, which leaves its row alone.
LEMMA RowsKept ==
    ASSUME TypeOK, RowInv, NEW t \in Token, NEW w \in Worker, NEW l \in PCs,
           UNCHANGED <<rowStatus, rowToken, givenUp, token, runJob>>,
           pc' = [pc EXCEPT ![<<t, w>>] = l],
           \/ l \notin Busy
           \/ pc[<<t, w>>] \in Busy,
           \/ at' = at
           \/ l \notin Busy /\ at' = [at EXCEPT ![<<t, w>>] = NoRow]
    PROVE  RowInv'
  <1> USE DEF TypeOK, RowInv, HoldersHold, HeldUntilGivenUp, HeldWhileCurrent,
              HoldersDiffer, NotYetRecorded, Holder, Slot
  <1>1. \A u \in Token, v \in Worker :
            pc'[<<u, v>>] \in Busy => pc[<<u, v>>] \in Busy /\ at'[<<u, v>>] = at[<<u, v>>]
    <2> SUFFICES ASSUME NEW u \in Token, NEW v \in Worker, pc'[<<u, v>>] \in Busy
                 PROVE  pc[<<u, v>>] \in Busy /\ at'[<<u, v>>] = at[<<u, v>>]
      OBVIOUS
    <2>1. CASE <<u, v>> = <<t, w>>
      <3>1. l \in Busy
        BY <2>1
      <3> QED
        BY <2>1, <3>1
    <2>2. CASE <<u, v>> # <<t, w>>
      BY <2>2
    <2> QED
      BY <2>1, <2>2
  <1> QED
    BY <1>1

\* A worker claims a row that waits: nobody at work in the job's run has it.
LEMMA RowsClaimed ==
    ASSUME RunInv, RowInv, NEW t \in Token, NEW w \in Worker, NEW r \in Row,
           At(t, w, "claim"), Claimable(t, r),
           UNCHANGED <<givenUp, token, runJob>>,
           rowStatus' = [rowStatus EXCEPT ![r] = "running"],
           rowToken' = [rowToken EXCEPT ![r] = t],
           at' = [at EXCEPT ![<<t, w>>] = r],
           pc' = [pc EXCEPT ![<<t, w>>] = "run"]
    PROVE  RowInv'
  <1> USE DEF RowInv
  <1>1. TypeOK /\ <<t, w>> \in Slot
    BY DEF RunInv, Slot
  <1>2. Holder(t, w, r)'
    BY <1>1 DEF Holder, Busy, TypeOK
  <1>3. ASSUME NEW u \in Token, NEW v \in Worker, <<u, v>> # <<t, w>>
        PROVE  at'[<<u, v>>] = at[<<u, v>>] /\ pc'[<<u, v>>] = pc[<<u, v>>]
    BY <1>1, <1>3 DEF TypeOK, Slot
  <1>4. ASSUME NEW v \in Worker PROVE ~ Holder(t, v, r)
    BY DEF HeldWhileCurrent, Claimable, Holds
  <1>5. rowToken'[r] = t /\ rowStatus'[r] = "running"
    BY <1>1 DEF TypeOK
  <1>6. ASSUME NEW q \in Row, q # r
        PROVE  rowToken'[q] = rowToken[q] /\ rowStatus'[q] = rowStatus[q]
    BY <1>1, <1>6 DEF TypeOK
  <1>7. HoldersHold'
    <2> SUFFICES ASSUME NEW u \in Token, NEW v \in Worker, pc'[<<u, v>>] \in Busy
                 PROVE  at'[<<u, v>>] \in Row /\ JobOf[at'[<<u, v>>]] = runJob[u]
      BY DEF HoldersHold
    <2>1. CASE <<u, v>> = <<t, w>>
      BY <2>1, <1>2 DEF Holder, Claimable
    <2>2. CASE <<u, v>> # <<t, w>>
      BY <2>2, <1>3 DEF HoldersHold
    <2> QED
      BY <2>1, <2>2
  <1>8. HeldUntilGivenUp'
    <2> SUFFICES ASSUME NEW u \in Token, NEW v \in Worker, NEW q \in Row,
                        Holder(u, v, q)', q \notin givenUp
                 PROVE  rowToken'[q] = u /\ rowStatus'[q] = "running"
      BY DEF HeldUntilGivenUp
    <2>1. CASE <<u, v>> = <<t, w>>
      BY <2>1, <1>2, <1>5 DEF Holder
    <2>2. CASE <<u, v>> # <<t, w>>
      BY <2>2, <1>3, <1>6 DEF Holder, HeldUntilGivenUp, Claimable
    <2> QED
      BY <2>1, <2>2
  <1>9. HeldWhileCurrent'
    <2> SUFFICES ASSUME NEW u \in Token, NEW v \in Worker, NEW q \in Row,
                        Holder(u, v, q)', token[runJob[u]] = u
                 PROVE  rowToken'[q] = u /\ rowStatus'[q] \in {"running", "failed"}
      BY DEF HeldWhileCurrent
    <2>1. CASE <<u, v>> = <<t, w>>
      BY <2>1, <1>2, <1>5 DEF Holder
    <2>2. CASE <<u, v>> # <<t, w>>
      BY <2>2, <1>3, <1>4, <1>6
      DEF Holder, HeldWhileCurrent, HoldersHold, Claimable, Holds
    <2> QED
      BY <2>1, <2>2
  <1>10. HoldersDiffer'
    BY <1>2, <1>3, <1>4 DEF Holder, HoldersDiffer
  <1>11. NotYetRecorded'
    BY <1>2, <1>3, <1>5, <1>6 DEF Holder, NotYetRecorded
  <1> QED
    BY <1>7, <1>8, <1>9, <1>10, <1>11

\* A worker records a result, or puts its row back, if the row is its run's.
LEMMA RowsWritten ==
    ASSUME RunInv, RowInv, NEW t \in Token, NEW w \in Worker, NEW to \in RowState,
           pc[<<t, w>>] \in Busy, Write(t, w, to)
    PROVE  RowInv'
  <1> USE DEF RowInv
  <1> DEFINE r == at[<<t, w>>]
  <1>1. TypeOK /\ <<t, w>> \in Slot /\ r \in Row /\ Holder(t, w, r)
    BY DEF RunInv, Slot, HoldersHold, Holder
  <1>2. pc' = [pc EXCEPT ![<<t, w>>] = "check"]
        /\ at' = [at EXCEPT ![<<t, w>>] = NoRow]
        /\ UNCHANGED <<rowToken, givenUp, token, runJob>>
    BY DEF Write, Goto, WorkerFrame, jobVars
  <1>3. ASSUME NEW u \in Token, NEW v \in Worker, NEW q \in Row, Holder(u, v, q)'
        PROVE  Holder(u, v, q) /\ <<u, v>> # <<t, w>>
    BY <1>1, <1>2, <1>3 DEF Holder, TypeOK, Slot, Busy, Results
  <1>4. ASSUME NEW u \in Token, NEW v \in Worker, NEW q \in Row, Holder(u, v, q)',
               rowToken[q] = u
        PROVE  rowStatus'[q] = rowStatus[q]
    <2>1. Holder(u, v, q) /\ <<u, v>> # <<t, w>>
      BY <1>3, <1>4
    <2>2. CASE q = r /\ rowToken[r] = t
      BY <1>1, <1>4, <2>1, <2>2 DEF HoldersDiffer
    <2>3. CASE ~ (q = r /\ rowToken[r] = t)
      BY <1>1, <2>3 DEF Write, Owns, TypeOK
    <2> QED
      BY <2>2, <2>3
  <1>5. HoldersHold'
    <2> SUFFICES ASSUME NEW u \in Token, NEW v \in Worker, pc'[<<u, v>>] \in Busy
                 PROVE  at'[<<u, v>>] \in Row /\ JobOf[at'[<<u, v>>]] = runJob[u]
      BY <1>2 DEF HoldersHold
    <2>1. <<u, v>> # <<t, w>>
      BY <1>1, <1>2 DEF TypeOK, Busy, Results
    <2>2. pc[<<u, v>>] \in Busy /\ at'[<<u, v>>] = at[<<u, v>>]
      BY <1>1, <1>2, <2>1 DEF TypeOK, Slot
    <2> QED
      BY <2>2 DEF HoldersHold
  <1>6. HeldUntilGivenUp'
    BY <1>2, <1>3, <1>4 DEF HeldUntilGivenUp
  <1>7. HeldWhileCurrent'
    BY <1>2, <1>3, <1>4 DEF HeldWhileCurrent
  <1>8. HoldersDiffer'
    BY <1>3 DEF HoldersDiffer
  <1>9. NotYetRecorded'
    BY <1>2, <1>3, <1>4 DEF NotYetRecorded
  <1> QED
    BY <1>5, <1>6, <1>7, <1>8, <1>9

\* Every step keeps the bookkeeping of rows: one action at a time, by the
\* lemma above that fits what it does to rows and workers.
LEMMA RowStep == RunInv /\ RowInv /\ [Next]_vars => RowInv'
  <1> SUFFICES ASSUME RunInv, RowInv, [Next]_vars PROVE RowInv'
    OBVIOUS
  <1>t. TypeOK /\ WorkersWork /\ OneRunHolds
    BY DEF RunInv
  <1>n. NoToken \notin Token
    BY ConstantsOK
  <1>1. ASSUME NEW p \in Proc, NEW j \in Job, Create(p, j) PROVE RowInv'
    BY <1>1, RowsUntouched DEF Create, Store, NotYetKicked, rowVars, runVars, workVars
  <1>2. ASSUME NEW j \in Job, PlanRevert(j) PROVE RowInv'
    BY <1>2, RowsUntouched DEF PlanRevert, rowVars, runVars, workVars
  <1>3. ASSUME NEW p \in Proc, NEW j \in Job, CreateRevert(p, j) PROVE RowInv'
    BY <1>3, RowsUntouched DEF CreateRevert, Store, NotYetKicked, rowVars, runVars, workVars
  <1>4. ASSUME NEW p \in Proc, NEW j \in Job, NEW what \in {"create", "continue"},
               AnnounceOk(p, j, what) PROVE RowInv'
    BY <1>4, RowsUntouched DEF AnnounceOk, rowVars, runVars, workVars
  <1>5. ASSUME NEW p \in Proc, NEW j \in Job, NEW what \in {"create", "continue"},
               AnnounceFails(p, j, what) PROVE RowInv'
    <2>1. \A i, t : token'[i] = t /\ t # NoToken /\ i \in Job => token[i] = t
      BY <1>t, <1>5 DEF AnnounceFails, NoRun, TypeOK
    <2>2. \A t \in Token, w \in Worker :
            pc[<<t, w>>] \in Busy => runJob[t] \in Job
      BY <1>t DEF RunInv, RunsAreOfJobs, WorkersWork, Busy, Results
    <2> QED
      BY <1>5, <1>n, <2>1, <2>2, RowsUntouched DEF AnnounceFails, rowVars, runVars, workVars
  <1>6. ASSUME NEW p \in Proc, NEW j \in Job, NEW t \in Token, StartRun(p, j, t)
        PROVE RowInv'
    <2>1. \A u \in Token, v \in Worker : pc'[<<u, v>>] \in Busy =>
            /\ u # t /\ pc[<<u, v>>] \in Busy
            /\ runJob'[u] = runJob[u] /\ runJob[u] \in Job
            /\ token'[runJob[u]] = u => token[runJob[u]] = u
      BY <1>t, <1>6 DEF StartRun, TypeOK, Busy, Results, Slot, WorkersWork,
                        RunInv, RunsAreOfJobs
    <2> QED
      BY <1>6, <2>1 DEF StartRun, rowVars, RowInv, HoldersHold, HeldUntilGivenUp,
                        HeldWhileCurrent, HoldersDiffer, NotYetRecorded, Holder
  <1>7. ASSUME NEW p \in Proc, NEW j \in Job, NEW t \in Token, StartUnbuilt(p, j, t)
        PROVE RowInv'
    <2>1. \A u \in Token, v \in Worker : pc[<<u, v>>] \in Busy =>
            /\ runJob'[u] = runJob[u]
            /\ token'[runJob[u]] = u => token[runJob[u]] = u
      BY <1>t, <1>7 DEF StartUnbuilt, TypeOK, Busy, Results, WorkersWork,
                        RunInv, RunsAreOfJobs
    <2> QED
      BY <1>7, <2>1, RowsUntouched DEF StartUnbuilt, rowVars, workVars
  <1>8. ASSUME NEW p \in Proc, NEW j \in Job, StartNothing(p, j) PROVE RowInv'
    BY <1>8, RowsUntouched DEF StartNothing, jobVars, rowVars, runVars, workVars
  <1>9. ASSUME NEW t \in Token, NEW w \in Worker, Work(t, w) \/ WorkerFails(t, w)
        PROVE RowInv'
    <2> USE <1>t DEF WorkerFrame, jobVars, rowVars, Goto, PCs
    <2>1. CASE Check(t, w)
      BY <2>1, RowsKept DEF Check, Busy, Results
    <2>2. CASE Claim(t, w)
      BY <2>2, RowsClaimed, RowsKept DEF Claim, Busy, Results
    <2>3. CASE Look(t, w)
      BY <2>3, RowsKept DEF Look, Busy, Results
    <2>4. CASE RunOutcome(t, w)
      <3>1. PICK o \in Outcomes : Goto(t, w, o)
        BY <2>4 DEF RunOutcome
      <3>2. o \in PCs /\ pc[<<t, w>>] \in Busy
        BY <2>4, ConstantsOK DEF RunOutcome, At, Busy, Results
      <3> QED
        BY <2>4, <3>1, <3>2, RowsKept DEF RunOutcome
    <2>5. CASE RunUnavailable(t, w)
      BY <2>5, RowsKept DEF RunUnavailable, At, Busy
    <2>6. CASE Release(t, w)
      BY <2>6, RowsWritten DEF Release, At, Busy, RowState
    <2>7. CASE Record(t, w)
      <3>1. PICK o \in Outcomes : At(t, w, o) /\ Write(t, w, o)
        BY <2>7 DEF Record
      <3> QED
        BY <3>1, RowsWritten, ConstantsOK DEF At, Busy, Results, RowState
    <2>8. CASE WorkerFails(t, w)
      BY <2>8, RowsKept DEF WorkerFails, Busy, Results
    <2> QED
      BY <1>9, <2>1, <2>2, <2>3, <2>4, <2>5, <2>6, <2>7, <2>8 DEF Work
  <1>10. ASSUME NEW t \in Token, Settle(t) \/ SettleFails(t) PROVE RowInv'
    <2> USE DEF jobVars, rowVars, workVars
    <2>1. ASSUME SettlePause(t) \/ SettleFinish(t)
          PROVE  \A u \in Token, v \in Worker : pc[<<u, v>>] \in Busy =>
                    (token'[runJob[u]] = u => token[runJob[u]] = u)
      BY <1>t, <1>n, <2>1 DEF SettlePause, SettleFinish, NoRun, TypeOK, RunInv,
                              RunsAreOfJobs, WorkersWork, Busy, Results
    <2>2. CASE SettlePause(t)
      BY <2>1, <2>2, RowsUntouched DEF SettlePause
    <2>3. CASE SettleFinish(t)
      BY <2>1, <2>3, RowsUntouched DEF SettleFinish
    <2>4. CASE SettleRows(t)
      <3>1. ASSUME NEW r \in Row, rowStatus'[r] # rowStatus[r]
            PROVE  /\ rowStatus[r] = "running" /\ rowStatus'[r] = "failed"
                   /\ rowToken[r] = t
        BY <2>4, <3>1 DEF SettleRows, InFlight, Owns
      <3>2. ASSUME NEW r \in Row, rowToken[r] = t, NEW u \in Token, NEW v \in Worker,
                   Holder(u, v, r)
            PROVE  r \in givenUp
        BY <1>t, <2>4, <3>2 DEF SettleRows, RowInv, HeldUntilGivenUp, WorkersWork,
                                Holder, Busy, Results
      <3> QED
        BY <2>4, <3>1, <3>2, RowsReset DEF SettleRows
    <2>5. CASE SettleFails(t)
      BY <2>5, RowsUntouched DEF SettleFails
    <2> QED
      BY <1>10, <2>2, <2>3, <2>4, <2>5 DEF Settle
  <1>11. ASSUME NEW j \in Job, Cancel(j) PROVE RowInv'
    <2>1. token' = [token EXCEPT ![j] = NoToken]
      BY <1>11 DEF Cancel, NoRun
    <2>2. ASSUME NEW r \in Row, rowStatus'[r] # rowStatus[r]
          PROVE  JobOf[r] = j /\ rowStatus[r] = "pending" /\ rowStatus'[r] = "skipped"
      BY <1>11, <2>2 DEF Cancel
    <2>3. ASSUME NEW r \in Row, JobOf[r] = j, NEW t \in Token, NEW w \in Worker,
                 Holder(t, w, r)
          PROVE  token'[runJob[t]] # t
      BY <1>t, <1>n, <2>1, <2>3 DEF RowInv, HoldersHold, Holder, TypeOK
    <2>4. \A t \in Token : token'[runJob[t]] = t => token[runJob[t]] = t
      BY <1>t, <1>n, <2>1 DEF TypeOK
    <2> QED
      BY <1>11, <2>2, <2>3, <2>4, RowsReset DEF Cancel, runVars, workVars
  <1>12. ASSUME NEW p \in Proc, NEW j \in Job, Resume(p, j) PROVE RowInv'
    BY <1>12, RowsUntouched DEF Resume, Continue, rowVars, runVars, workVars
  <1>13. ASSUME NEW p \in Proc, NEW j \in Job, Retry(p, j) PROVE RowInv'
    <2>1. token' = token /\ token[j] = NoToken
      BY <1>t, <1>13 DEF Retry, Continue, OneRunHolds, TypeOK
    <2>2. ASSUME NEW r \in Row, rowStatus'[r] # rowStatus[r]
          PROVE  /\ JobOf[r] = j /\ rowStatus'[r] = "pending"
                 /\ rowStatus[r] \in {"failed", "partial"}
      BY <1>13, <2>2 DEF Retry, Retried, RowsOf
    <2>3. ASSUME NEW r \in Row, JobOf[r] = j, NEW t \in Token, NEW w \in Worker,
                 Holder(t, w, r)
          PROVE  token'[runJob[t]] # t
      BY <1>n, <2>1, <2>3 DEF RowInv, HoldersHold, Holder
    <2> QED
      BY <1>13, <2>1, <2>2, <2>3, RowsReset DEF Retry, Continue, runVars, workVars
  <1>14. ASSUME NEW p \in Proc, NEW j \in Job, EndElevation(p, j) PROVE RowInv'
    BY <1>14, RowsUntouched DEF EndElevation, jobVars, rowVars, runVars, workVars
  <1>15. ASSUME NEW t \in Token, Beat(t) PROVE RowInv'
    BY <1>15, RowsUntouched DEF Beat, rowVars, runVars, workVars
  <1>16. ASSUME NEW j \in Job, Lapse(j) PROVE RowInv'
    BY <1>16, RowsUntouched DEF Lapse, rowVars, runVars, workVars
  <1>17. ASSUME NEW p \in Proc, Sweep(p) PROVE RowInv'
    <2>1. \A t \in Token, w \in Worker : pc[<<t, w>>] \in Busy =>
            (token'[runJob[t]] = t => token[runJob[t]] = t)
      BY <1>t, <1>n, <1>17 DEF Sweep, RunInv, RunsAreOfJobs, WorkersWork, Busy, Results
    <2> QED
      BY <1>17, <2>1, RowsUntouched DEF Sweep, rowVars, runVars, workVars
  <1>18. ASSUME NEW p \in Proc, NEW j \in Job, SweepRows(p, j) PROVE RowInv'
    <2>1. ASSUME NEW r \in Row, rowStatus'[r] # rowStatus[r]
          PROVE  r \in InFlight(j) /\ rowStatus[r] = "running" /\ rowStatus'[r] = "failed"
      BY <1>18, <2>1 DEF SweepRows, InFlight
    <2>2. ASSUME NEW r \in InFlight(j), NEW t \in Token, NEW w \in Worker,
                 Holder(t, w, r)
          PROVE  r \in givenUp'
      BY <1>t, <1>18, <2>2 DEF SweepRows, Writing, Holder, WorkersWork, Busy, Results
    <2> QED
      BY <1>18, <2>1, <2>2, RowsReset DEF SweepRows, jobVars, runVars, workVars
  <1>19. ASSUME NEW p \in Proc, SweepFails(p) PROVE RowInv'
    BY <1>19, RowsUntouched DEF SweepFails, jobVars, rowVars, runVars, workVars
  <1>20. ASSUME NEW p \in Proc, Stop(p) PROVE RowInv'
    BY <1>20, RowsUntouched DEF Stop, jobVars, rowVars, runVars, workVars
  <1>21. ASSUME NEW p \in Proc, End(p) PROVE RowInv'
    <2>1. \A t \in Token, w \in Worker : pc'[<<t, w>>] \in Busy =>
            pc[<<t, w>>] \in Busy /\ at'[<<t, w>>] = at[<<t, w>>]
      BY <1>t, <1>21 DEF End, Busy, Results, Slot, TypeOK
    <2>2. UNCHANGED <<rowStatus, rowToken, token, runJob, givenUp>>
      BY <1>21 DEF End, jobVars, rowVars
    <2>3. \A t \in Token, w \in Worker, r \in Row : Holder(t, w, r)' => Holder(t, w, r)
      BY <2>1 DEF Holder
    <2>4. HoldersHold'
      BY <2>1, <2>2 DEF RowInv, HoldersHold
    <2>5. HeldUntilGivenUp' /\ HeldWhileCurrent'
      BY <2>2, <2>3 DEF RowInv, HeldUntilGivenUp, HeldWhileCurrent
    <2>6. HoldersDiffer' /\ NotYetRecorded'
      BY <2>2, <2>3 DEF RowInv, HoldersDiffer, NotYetRecorded
    <2> QED
      BY <2>4, <2>5, <2>6 DEF RowInv
  <1>22. ASSUME NEW p \in Proc, Restart(p) PROVE RowInv'
    BY <1>22, RowsUntouched DEF Restart, jobVars, rowVars, runVars, workVars
  <1>23. CASE UNCHANGED vars
    BY <1>23, RowsUntouched DEF vars, jobVars, rowVars, runVars, workVars
  <1> QED
    BY <1>1, <1>2, <1>3, <1>4, <1>5, <1>6, <1>7, <1>8, <1>9, <1>10, <1>11, <1>12,
       <1>13, <1>14, <1>15, <1>16, <1>17, <1>18, <1>19, <1>20, <1>21, <1>22, <1>23
    DEF Next, Announce, Kick

\* No two workers, of one run or of two, write the same row at once, unless a
\* sweep has failed the row under a worker that was still at it.
THEOREM OneWriterAlways == Spec => []OneWriter
  <1>1. RunInv /\ RowInv => OneWriter
    <2> SUFFICES ASSUME RunInv, RowInv,
                        NEW t \in Token, NEW u \in Token, NEW v \in Worker,
                        NEW w \in Worker, NEW r \in Row,
                        Writing(t, v, r), Writing(u, w, r), r \notin givenUp
                 PROVE  <<t, v>> = <<u, w>>
      BY DEF OneWriter
    <2>1. Holder(t, v, r) /\ Holder(u, w, r)
      BY DEF Writing, Holder
    <2>2. t = u
      BY <2>1 DEF RowInv, HeldUntilGivenUp
    <2> QED
      BY <2>1, <2>2 DEF RowInv, HoldersDiffer
  <1> QED
    BY RunInit, RunStep, RowInit, RowStep, <1>1, PTL DEF Spec

\* No step takes a recorded success back: the only one that could is a
\* late result, and a row whose token is its run's is not yet recorded.
LEMMA SuccessStep ==
    ASSUME RunInv, RowInv, [Next]_vars, NEW r \in Row, rowStatus[r] = "succeeded"
    PROVE  rowStatus'[r] = "succeeded"
  <1> USE DEF rowVars
  <1>t. TypeOK
    BY DEF RunInv
  <1>1. ASSUME NEW t \in Token, NEW w \in Worker, Claim(t, w)
        PROVE  rowStatus'[r] = "succeeded"
    BY <1>t, <1>1 DEF Claim, Claimable, TypeOK
  <1>2. ASSUME NEW t \in Token, NEW w \in Worker, NEW to, Write(t, w, to),
               pc[<<t, w>>] \in Busy
        PROVE  rowStatus'[r] = "succeeded"
    <2>1. at[<<t, w>>] = r => rowToken[r] # t
      BY <1>2 DEF RowInv, NotYetRecorded, Holder
    <2> QED
      BY <1>t, <1>2, <2>1 DEF Write, Owns, TypeOK
  <1>3. ASSUME NEW t \in Token, NEW w \in Worker, Work(t, w) \/ WorkerFails(t, w)
        PROVE  rowStatus'[r] = "succeeded"
    BY <1>1, <1>2, <1>3, ConstantsOK
    DEF Work, WorkerFails, Check, Look, RunOutcome, RunUnavailable, Release, Record,
        At, Busy, Results
  <1>4. ASSUME NEW t \in Token, Settle(t) \/ SettleFails(t)
        PROVE  rowStatus'[r] = "succeeded"
    BY <1>4 DEF Settle, SettlePause, SettleFinish, SettleRows, SettleFails, InFlight
  <1>5. ASSUME NEW j \in Job, Cancel(j) PROVE rowStatus'[r] = "succeeded"
    BY <1>5 DEF Cancel
  <1>6. ASSUME NEW p \in Proc, NEW j \in Job, Retry(p, j)
        PROVE  rowStatus'[r] = "succeeded"
    BY <1>6 DEF Retry, Retried
  <1>7. ASSUME NEW p \in Proc, NEW j \in Job, SweepRows(p, j)
        PROVE  rowStatus'[r] = "succeeded"
    BY <1>7 DEF SweepRows, InFlight
  <1>8. ASSUME NEW p \in Proc, NEW j \in Job,
               \/ Create(p, j) \/ CreateRevert(p, j) \/ Resume(p, j)
               \/ EndElevation(p, j) \/ Announce(p, j) \/ Kick(p, j)
               \/ \E what \in {"create", "continue"} : AnnounceFails(p, j, what)
               \/ \E t \in Token : StartUnbuilt(p, j, t)
        PROVE  rowStatus' = rowStatus
    BY <1>8 DEF Create, CreateRevert, Store, Resume, EndElevation, Announce, AnnounceOk,
                AnnounceFails, Kick, StartNothing, StartRun, StartUnbuilt
  <1>9. ASSUME NEW j \in Job, PlanRevert(j) \/ Lapse(j) PROVE rowStatus' = rowStatus
    BY <1>9 DEF PlanRevert, Lapse
  <1>10. ASSUME NEW p \in Proc,
                Sweep(p) \/ SweepFails(p) \/ Stop(p) \/ End(p) \/ Restart(p)
         PROVE  rowStatus' = rowStatus
    BY <1>10 DEF Sweep, SweepFails, Stop, End, Restart
  <1>11. ASSUME NEW t \in Token, Beat(t) PROVE rowStatus' = rowStatus
    BY <1>11 DEF Beat
  <1>12. CASE UNCHANGED vars
    BY <1>12 DEF vars
  <1> QED
    BY <1>3, <1>4, <1>5, <1>6, <1>7, <1>8, <1>9, <1>10, <1>11, <1>12 DEF Next

\* A row recorded as succeeded stays so: no retry, release, sweep, pause or
\* late result of a run that lost the job takes it back.
THEOREM SucceededStays == Spec => SucceededIsFinal
  <1>1. RunInv /\ RowInv /\ [Next]_vars =>
            [\A r \in Row : rowStatus[r] = "succeeded" => rowStatus'[r] = "succeeded"]_vars
    BY SuccessStep
  <1> QED
    BY RunInit, RunStep, RowInit, RowStep, <1>1, PTL DEF Spec, SucceededIsFinal

-----------------------------------------------------------------------------
(***************************************************************************)
(* Reverts: what may write at the same time.                               *)
(***************************************************************************)
\* The job has a record.
Kept(j) == status[j] \in OpenJob \cup Stopped

\* Reverts are of jobs that were stored, and not of reverts.
RevertsAreOfActions == \A j \in Job :
    Kept(j) /\ Reverts[j] # NoJob =>
        Reverts[Reverts[j]] = NoJob /\ status[Reverts[j]] # "absent"

\* The inductive invariant of reverts.
RevertInv == TypeOK /\ OneOpenRevert /\ RevertsAreOfActions

\* What may start a job that doesn't write.
Starts(j) == \E p \in Proc : Create(p, j) \/ CreateRevert(p, j) \/ Retry(p, j)

\* Only storing or retrying a job makes one that may not write one that may.
LEMMA OnlyStartsOpen ==
    ASSUME TypeOK, [Next]_vars, NEW j \in Job, ~ Starts(j), ~ MayWrite(j)
    PROVE  ~ MayWrite(j)'
  <1> USE DEF MayWrite, OpenJob, Stopped, InFlight, RowsOf, jobVars, rowVars
  <1>1. ASSUME NEW p \in Proc, NEW i \in Job,
               \/ Create(p, i) \/ CreateRevert(p, i) \/ Resume(p, i) \/ Retry(p, i)
        PROVE  ~ MayWrite(j)'
    <2>1. CASE Create(p, i) \/ CreateRevert(p, i)
      BY <2>1 DEF Create, CreateRevert, Store, Starts, TypeOK
    <2>2. CASE Resume(p, i)
      BY <2>2 DEF Resume, Continue, TypeOK
    <2>3. CASE Retry(p, i)
      BY <2>3 DEF Retry, Continue, Starts, TypeOK
    <2> QED
      BY <1>1, <2>1, <2>2, <2>3
  <1>2. ASSUME NEW p \in Proc, NEW i \in Job, NEW t \in Token,
               StartRun(p, i, t) \/ StartUnbuilt(p, i, t)
        PROVE  ~ MayWrite(j)'
    BY <1>2 DEF StartRun, StartUnbuilt, TypeOK
  <1>3. ASSUME NEW p \in Proc, NEW i \in Job,
               \/ EndElevation(p, i) \/ Announce(p, i) \/ StartNothing(p, i)
               \/ SweepRows(p, i)
               \/ \E what \in {"create", "continue"} : AnnounceFails(p, i, what)
        PROVE  ~ MayWrite(j)'
    BY <1>3 DEF EndElevation, Announce, AnnounceOk, AnnounceFails, StartNothing,
                SweepRows, TypeOK
  <1>4. ASSUME NEW i \in Job, PlanRevert(i) \/ Cancel(i) \/ Lapse(i)
        PROVE  ~ MayWrite(j)'
    BY <1>4 DEF PlanRevert, Cancel, Lapse, TypeOK
  <1>5. ASSUME NEW p \in Proc,
               Sweep(p) \/ SweepFails(p) \/ Stop(p) \/ End(p) \/ Restart(p)
        PROVE  ~ MayWrite(j)'
    BY <1>5 DEF Sweep, Stale, SweepFails, Stop, End, Restart, TypeOK
  <1>6. ASSUME NEW t \in Token, Settle(t) \/ SettleFails(t) \/ Beat(t)
        PROVE  ~ MayWrite(j)'
    BY <1>6 DEF Settle, SettlePause, SettleFinish, SettleRows, SettleFails, Beat,
                Current, TypeOK
  <1>7. ASSUME NEW t \in Token, NEW w \in Worker, Work(t, w) \/ WorkerFails(t, w)
        PROVE  ~ MayWrite(j)'
    <2>1. status' = status
      BY <1>7 DEF Work, WorkerFails, WorkerFrame, Check, Claim, Look, RunOutcome,
                  RunUnavailable, Release, Record, Write
    <2>2. ASSUME NEW r \in Row, JobOf[r] = j, rowStatus[r] # "running"
          PROVE  rowStatus'[r] # "running" \/ status[j] = "running"
      <3>1. CASE Claim(t, w)
        BY <2>2, <3>1 DEF Claim, Claimable, TypeOK
      <3>2. ASSUME NEW to \in Results \cup {"pending"}, Write(t, w, to)
            PROVE  rowStatus'[r] # "running"
        BY <2>2, <3>2 DEF Write, Results, TypeOK
      <3>3. CASE rowStatus' = rowStatus
        BY <2>2, <3>3
      <3> QED
        BY <1>7, <3>1, <3>2, <3>3, ConstantsOK
        DEF Work, WorkerFails, Check, Look, RunOutcome, RunUnavailable, Release,
            Record, Results
    <2> QED
      BY <2>1, <2>2
  <1>8. CASE UNCHANGED vars
    BY <1>8 DEF vars
  <1> QED
    BY <1>1, <1>2, <1>3, <1>4, <1>5, <1>6, <1>7, <1>8 DEF Next, Kick

\* Storing or retrying one job leaves every other as it was.
LEMMA StartsOne ==
    ASSUME TypeOK, NEW i \in Job, NEW j \in Job, i # j, Starts(j)
    PROVE  status'[i] = status[i] /\ (MayWrite(i)' <=> MayWrite(i))
  <1> USE DEF MayWrite, InFlight, RowsOf, rowVars, Starts
  <1>1. PICK p \in Proc : Create(p, j) \/ CreateRevert(p, j) \/ Retry(p, j)
    OBVIOUS
  <1>2. CASE Create(p, j) \/ CreateRevert(p, j)
    BY <1>2 DEF Create, CreateRevert, Store, TypeOK
  <1>3. CASE Retry(p, j)
    <2>1. status'[i] = status[i]
      BY <1>3 DEF Retry, Continue, TypeOK
    <2>2. \A r \in Row : JobOf[r] = i => rowStatus'[r] = rowStatus[r]
      BY <1>3 DEF Retry, Retried
    <2> QED
      BY <2>1, <2>2
  <1> QED
    BY <1>1, <1>2, <1>3

\* What is stored or retried as a revert is the only one open of its job.
LEMMA StartsAlone ==
    ASSUME RevertInv, NEW i \in Job, NEW j \in Job, i # j, Starts(j),
           Reverts[i] = Reverts[j], Reverts[i] # NoJob
    PROVE  ~ MayWrite(i)
  <1>1. NoJob \notin Job
    BY ConstantsOK
  <1> QED
    BY <1>1 DEF Starts, Create, CreateRevert, Retry, Refused, RetryRefused,
                HasOpenRevert, Locked

\* A job has no record until it is stored.
LEMMA OnlyStoringKeeps ==
    ASSUME TypeOK, [Next]_vars, NEW j \in Job, ~ Kept(j), Kept(j)'
    PROVE  \E p \in Proc : Create(p, j) \/ CreateRevert(p, j)
  <1> USE DEF Kept, OpenJob, Stopped, jobVars
  <1>1. ASSUME NEW p \in Proc, NEW i \in Job,
               \/ Create(p, i) \/ CreateRevert(p, i) \/ Resume(p, i) \/ Retry(p, i)
        PROVE  (Create(p, i) \/ CreateRevert(p, i)) /\ i = j
    BY <1>1 DEF Create, CreateRevert, Store, Resume, Retry, Continue, TypeOK
  <1>2. ASSUME NEW p \in Proc, NEW i \in Job,
               \/ EndElevation(p, i) \/ Announce(p, i) \/ Kick(p, i)
               \/ SweepRows(p, i)
               \/ \E what \in {"create", "continue"} : AnnounceFails(p, i, what)
               \/ \E t \in Token : StartUnbuilt(p, i, t)
        PROVE  FALSE
    BY <1>2 DEF EndElevation, Announce, AnnounceOk, AnnounceFails, Kick, StartNothing,
                StartRun, StartUnbuilt, SweepRows, TypeOK
  <1>3. ASSUME NEW i \in Job, PlanRevert(i) \/ Cancel(i) \/ Lapse(i) PROVE FALSE
    BY <1>3 DEF PlanRevert, Cancel, Lapse, TypeOK
  <1>4. ASSUME NEW p \in Proc,
               Sweep(p) \/ SweepFails(p) \/ Stop(p) \/ End(p) \/ Restart(p)
        PROVE  FALSE
    BY <1>4 DEF Sweep, Stale, SweepFails, Stop, End, Restart, TypeOK
  <1>5. ASSUME NEW t \in Token, Settle(t) \/ SettleFails(t) \/ Beat(t) PROVE FALSE
    BY <1>5 DEF Settle, SettlePause, SettleFinish, SettleRows, SettleFails, Beat,
                Current, TypeOK
  <1>6. ASSUME NEW t \in Token, NEW w \in Worker, Work(t, w) \/ WorkerFails(t, w)
        PROVE  FALSE
    BY <1>6 DEF Work, WorkerFails, WorkerFrame, Check, Claim, Look, RunOutcome,
                RunUnavailable, Release, Record, Write
  <1>7. CASE UNCHANGED vars
    BY <1>7 DEF vars
  <1> QED
    BY <1>1, <1>2, <1>3, <1>4, <1>5, <1>6, <1>7 DEF Next

\* A job that was stored once is not stored again: nothing makes it absent.
LEMMA StoredStays ==
    ASSUME TypeOK, [Next]_vars, NEW j \in Job, status[j] # "absent"
    PROVE  status'[j] # "absent"
  <1> USE DEF OpenJob, Stopped, jobVars
  <1>1. ASSUME NEW p \in Proc, NEW i \in Job,
               \/ Create(p, i) \/ CreateRevert(p, i) \/ Resume(p, i) \/ Retry(p, i)
               \/ EndElevation(p, i) \/ Announce(p, i) \/ Kick(p, i)
               \/ SweepRows(p, i)
               \/ \E what \in {"create", "continue"} : AnnounceFails(p, i, what)
               \/ \E t \in Token : StartUnbuilt(p, i, t)
        PROVE  status'[j] # "absent"
    BY <1>1 DEF Create, CreateRevert, Store, Resume, Retry, Continue, EndElevation,
                Announce, AnnounceOk, AnnounceFails, Kick, StartNothing, StartRun,
                StartUnbuilt, SweepRows, TypeOK
  <1>2. ASSUME NEW i \in Job, PlanRevert(i) \/ Cancel(i) \/ Lapse(i)
        PROVE  status'[j] # "absent"
    BY <1>2 DEF PlanRevert, Cancel, Lapse, TypeOK
  <1>3. ASSUME NEW p \in Proc,
               Sweep(p) \/ SweepFails(p) \/ Stop(p) \/ End(p) \/ Restart(p)
        PROVE  status'[j] # "absent"
    BY <1>3 DEF Sweep, Stale, SweepFails, Stop, End, Restart, TypeOK
  <1>4. ASSUME NEW t \in Token, Settle(t) \/ SettleFails(t) \/ Beat(t)
        PROVE  status'[j] # "absent"
    BY <1>4 DEF Settle, SettlePause, SettleFinish, SettleRows, SettleFails, Beat,
                Current, TypeOK
  <1>5. ASSUME NEW t \in Token, NEW w \in Worker, Work(t, w) \/ WorkerFails(t, w)
        PROVE  status'[j] # "absent"
    BY <1>5 DEF Work, WorkerFails, WorkerFrame, Check, Claim, Look, RunOutcome,
                RunUnavailable, Release, Record, Write
  <1>6. CASE UNCHANGED vars
    BY <1>6 DEF vars
  <1> QED
    BY <1>1, <1>2, <1>3, <1>4, <1>5, <1>6 DEF Next

\* No job has a record at first.
LEMMA RevertInit == Init => RevertInv
  BY TypeInit DEF Init, RevertInv, OneOpenRevert, RevertsAreOfActions, Kept, MayWrite,
                  OpenJob, Stopped

\* Every step keeps at most one open revert of a job.
LEMMA RevertStep == RevertInv /\ [Next]_vars => RevertInv'
  <1> SUFFICES ASSUME RevertInv, [Next]_vars PROVE RevertInv'
    OBVIOUS
  <1>t. TypeOK /\ TypeOK'
    BY TypeStep DEF RevertInv
  <1>1. OneOpenRevert'
    <2> SUFFICES ASSUME NEW i \in Job, NEW j \in Job, Reverts[i] = Reverts[j],
                        Reverts[i] # NoJob, MayWrite(i)', MayWrite(j)', i # j
                 PROVE  FALSE
      BY DEF OneOpenRevert
    <2>1. CASE Starts(j)
      BY <1>t, <2>1, StartsAlone, StartsOne
    <2>2. CASE Starts(i)
      BY <1>t, <2>2, StartsAlone, StartsOne
    <2>3. CASE ~ Starts(i) /\ ~ Starts(j)
      BY <1>t, <2>3, OnlyStartsOpen DEF RevertInv, OneOpenRevert
    <2> QED
      BY <2>1, <2>2, <2>3
  <1>2. RevertsAreOfActions'
    <2> SUFFICES ASSUME NEW j \in Job, Kept(j)', Reverts[j] # NoJob
                 PROVE  Reverts[Reverts[j]] = NoJob /\ status'[Reverts[j]] # "absent"
      BY DEF RevertsAreOfActions
    <2>1. Reverts[j] \in Job
      BY ConstantsOK
    <2>2. CASE Kept(j)
      BY <1>t, <2>1, <2>2, StoredStays DEF RevertInv, RevertsAreOfActions
    <2>3. CASE ~ Kept(j)
      <3>1. ~ Refused(Reverts[j])
        BY <1>t, <2>3, OnlyStoringKeeps DEF Create, CreateRevert
      <3>2. Reverts[Reverts[j]] = NoJob /\ status[Reverts[j]] # "absent"
        BY <3>1 DEF Refused, Stopped
      <3> QED
        BY <1>t, <2>1, <3>2, StoredStays
    <2> QED
      BY <2>2, <2>3
  <1> QED
    BY <1>t, <1>1, <1>2 DEF RevertInv

\* At most one revert of a job may still write, counting one stopped with
\* rows still in flight.
THEOREM OneOpenRevertAlways == Spec => []OneOpenRevert
  <1>1. RevertInv => OneOpenRevert
    BY DEF RevertInv
  <1> QED
    BY RevertInit, RevertStep, <1>1, PTL DEF Spec

\* A stopped job is started again only by a retry.
LEMMA OnlyRetryRestarts ==
    ASSUME TypeOK, [Next]_vars, NEW j \in Job, ~ Starts(j), status[j] \in Stopped
    PROVE  status'[j] \notin OpenJob
  <1> USE DEF OpenJob, Stopped, jobVars
  <1>1. ASSUME NEW p \in Proc, NEW i \in Job,
               \/ Create(p, i) \/ CreateRevert(p, i) \/ Resume(p, i) \/ Retry(p, i)
        PROVE  status'[j] \notin OpenJob
    BY <1>1 DEF Create, CreateRevert, Store, Resume, Retry, Continue, Starts, TypeOK
  <1>2. ASSUME NEW p \in Proc, NEW i \in Job,
               \/ EndElevation(p, i) \/ Announce(p, i) \/ Kick(p, i)
               \/ SweepRows(p, i)
               \/ \E what \in {"create", "continue"} : AnnounceFails(p, i, what)
               \/ \E t \in Token : StartUnbuilt(p, i, t)
        PROVE  status'[j] \notin OpenJob
    BY <1>2 DEF EndElevation, Announce, AnnounceOk, AnnounceFails, Kick, StartNothing,
                StartRun, StartUnbuilt, SweepRows, TypeOK
  <1>3. ASSUME NEW i \in Job, PlanRevert(i) \/ Cancel(i) \/ Lapse(i)
        PROVE  status'[j] \notin OpenJob
    BY <1>3 DEF PlanRevert, Cancel, Lapse, TypeOK
  <1>4. ASSUME NEW p \in Proc,
               Sweep(p) \/ SweepFails(p) \/ Stop(p) \/ End(p) \/ Restart(p)
        PROVE  status'[j] \notin OpenJob
    BY <1>4 DEF Sweep, Stale, SweepFails, Stop, End, Restart, TypeOK
  <1>5. ASSUME NEW t \in Token, Settle(t) \/ SettleFails(t) \/ Beat(t)
        PROVE  status'[j] \notin OpenJob
    BY <1>5 DEF Settle, SettlePause, SettleFinish, SettleRows, SettleFails, Beat,
                Current, TypeOK
  <1>6. ASSUME NEW t \in Token, NEW w \in Worker, Work(t, w) \/ WorkerFails(t, w)
        PROVE  status'[j] \notin OpenJob
    BY <1>6 DEF Work, WorkerFails, WorkerFrame, Check, Claim, Look, RunOutcome,
                RunUnavailable, Release, Record, Write
  <1>7. CASE UNCHANGED vars
    BY <1>7 DEF vars
  <1> QED
    BY <1>1, <1>2, <1>3, <1>4, <1>5, <1>6, <1>7 DEF Next

\* No step starts a stopped job again while a revert of it may write.
LEMMA RevertedStays ==
    ASSUME RevertInv, [Next]_vars, NEW j \in Job, Reverts[j] # NoJob, MayWrite(j),
           status[Reverts[j]] \in Stopped
    PROVE  status'[Reverts[j]] \notin OpenJob
  <1> DEFINE k == Reverts[j]
  <1>1. TypeOK /\ k \in Job
    BY ConstantsOK DEF RevertInv
  <1>2. Reverts[k] = NoJob
    BY DEF RevertInv, RevertsAreOfActions, Kept, MayWrite
  <1>3. ~ Starts(k)
    BY <1>1, <1>2, ConstantsOK
    DEF Starts, Create, CreateRevert, Store, Retry, RetryRefused, Locked,
        HasOpenRevert, Stopped
  <1> QED
    BY <1>1, <1>3, OnlyRetryRestarts

\* A job and its revert come to overlap only when the revert is retried.
LEMMA OverlapsByRetry ==
    ASSUME RevertInv, [Next]_vars, NEW j \in Job, Reverts[j] # NoJob,
           ~ Overlap(j), Overlap(j)'
    PROVE  \E p \in Proc : Retry(p, j)
  <1> DEFINE k == Reverts[j]
  <1>1. TypeOK /\ k \in Job
    BY ConstantsOK DEF RevertInv
  <1>2. CASE MayWrite(j)
    <2>1. Reverts[k] = NoJob /\ status[k] # "absent"
      BY <1>2 DEF RevertInv, RevertsAreOfActions, Kept, MayWrite
    <2>2. Starts(k)
      BY <1>1, <1>2, OnlyStartsOpen DEF Overlap
    <2>3. PICK p \in Proc : Retry(p, k)
      BY <2>1, <2>2 DEF Starts, Create, CreateRevert, Store
    <2> QED
      BY <1>2, <2>1, <2>3 DEF Retry, RetryRefused, Locked, HasOpenRevert
  <1>3. CASE ~ MayWrite(j)
    <2>1. Starts(j)
      BY <1>1, <1>3, OnlyStartsOpen DEF Overlap
    <2>2. ASSUME NEW p \in Proc, CreateRevert(p, j) PROVE FALSE
      <3>1. ~ MayWrite(k) /\ k # j
        BY <2>2 DEF CreateRevert, Refused, MayWrite, OpenJob, Stopped
      <3> QED
        BY <1>1, <2>1, <3>1, StartsOne DEF Overlap
    <2> QED
      BY <2>1, <2>2 DEF Starts, Create
  <1> QED
    BY <1>2, <1>3

\* While a revert of a stopped job may write, the job is not started again;
\* and only a retry of the revert makes the two write at the same time.
THEOREM RevertsStayApart == Spec => RevertsApart
  <1>1. RevertInv /\ [Next]_vars =>
            [\A j \in Job : Reverts[j] # NoJob =>
                RevertedStaysStopped(j) /\ OverlapByRetry(j)]_vars
    BY RevertedStays, OverlapsByRetry DEF RevertedStaysStopped, OverlapByRetry
  <1> QED
    BY RevertInit, RevertStep, <1>1, PTL DEF Spec, RevertsApart

\* Nothing but a retry starts a job that is stopped or deleted, and a retry
\* drops the plans made from it.
LEMMA PlansStep ==
    TypeOK /\ PlansAreCurrent /\ (\A j \in planned : Reverts[j] # NoJob) /\ [Next]_vars
        => (PlansAreCurrent /\ \A j \in planned : Reverts[j] # NoJob)'
  <1> SUFFICES ASSUME TypeOK, PlansAreCurrent, \A j \in planned : Reverts[j] # NoJob,
                      [Next]_vars, NEW j \in planned'
               PROVE  /\ status'[Reverts[j]] \in Stopped \cup {"deleted"}
                      /\ Reverts[j] # NoJob
    BY DEF PlansAreCurrent
  <1> DEFINE k == Reverts[j]
             Goal == status'[k] \in Stopped \cup {"deleted"} /\ k # NoJob
  <1>k. j \in planned => k \in Job /\ k # NoJob /\ status[k] \in Stopped \cup {"deleted"}
    BY ConstantsOK DEF TypeOK, PlansAreCurrent
  <1> USE <1>k DEF OpenJob, Stopped, jobVars
  <1>1. ASSUME NEW p \in Proc, NEW i \in Job,
               Create(p, i) \/ CreateRevert(p, i) \/ Resume(p, i)
        PROVE  Goal
    BY <1>1 DEF Create, CreateRevert, Store, Resume, Continue, TypeOK
  <1>2. ASSUME NEW p \in Proc, NEW i \in Job, Retry(p, i) PROVE Goal
    <2>1. j \in planned /\ k # i
      BY <1>2 DEF Retry, Replanned
    <2> QED
      BY <1>2, <2>1 DEF Retry, Continue, TypeOK
  <1>3. ASSUME NEW p \in Proc, NEW i \in Job,
               \/ EndElevation(p, i) \/ Announce(p, i) \/ Kick(p, i)
               \/ SweepRows(p, i)
               \/ \E what \in {"create", "continue"} : AnnounceFails(p, i, what)
               \/ \E t \in Token : StartUnbuilt(p, i, t)
        PROVE  Goal
    BY <1>3 DEF EndElevation, Announce, AnnounceOk, AnnounceFails, Kick, StartNothing,
                StartRun, StartUnbuilt, SweepRows, TypeOK
  <1>4. ASSUME NEW i \in Job, PlanRevert(i) PROVE Goal
    <2>1. CASE j = i
      BY <1>4, <2>1 DEF PlanRevert, Refused
    <2>2. CASE j # i
      BY <1>4, <2>2 DEF PlanRevert
    <2> QED
      BY <2>1, <2>2
  <1>5. ASSUME NEW i \in Job, Cancel(i) \/ Lapse(i) PROVE Goal
    BY <1>5 DEF Cancel, Lapse, Replanned, TypeOK
  <1>6. ASSUME NEW p \in Proc,
               Sweep(p) \/ SweepFails(p) \/ Stop(p) \/ End(p) \/ Restart(p)
        PROVE  Goal
    BY <1>6 DEF Sweep, Stale, SweepFails, Stop, End, Restart
  <1>7. ASSUME NEW t \in Token, Settle(t) \/ SettleFails(t) \/ Beat(t) PROVE Goal
    BY <1>7 DEF Settle, SettlePause, SettleFinish, SettleRows, SettleFails, Beat,
                Current, Replanned, TypeOK
  <1>8. ASSUME NEW t \in Token, NEW w \in Worker, Work(t, w) \/ WorkerFails(t, w)
        PROVE  Goal
    BY <1>8 DEF Work, WorkerFails, WorkerFrame, Check, Claim, Look, RunOutcome,
                RunUnavailable, Release, Record, Write
  <1>9. CASE UNCHANGED vars
    BY <1>9 DEF vars
  <1> QED
    BY <1>1, <1>2, <1>3, <1>4, <1>5, <1>6, <1>7, <1>8, <1>9 DEF Next

\* A revert is stored only from a plan made after the job last stopped.
THEOREM PlansStayCurrent == Spec => []PlansAreCurrent
  <1>1. Init => PlansAreCurrent /\ \A j \in planned : Reverts[j] # NoJob
    BY DEF Init, PlansAreCurrent
  <1> QED
    BY TypeInit, TypeStep, PlansStep, <1>1, PTL DEF Spec

-----------------------------------------------------------------------------
(***************************************************************************)
(* Finishing: which run does, and what it leaves.                          *)
(***************************************************************************)
\* A job is finished only by the settle of the run that holds it.
LEMMA OnlySettleFinishes ==
    ASSUME TypeOK, [Next]_vars, NEW j \in Job,
           status[j] = "running", status'[j] = "finished"
    PROVE  \E t \in Token : SettleFinish(t) /\ Current(t) /\ runJob[t] = j
  <1> DEFINE Goal == \E t \in Token : SettleFinish(t) /\ Current(t) /\ runJob[t] = j
  <1> USE DEF TypeOK, jobVars
  <1>1. ASSUME NEW p \in Proc, NEW i \in Job,
               \/ Create(p, i) \/ CreateRevert(p, i) \/ Resume(p, i) \/ Retry(p, i)
        PROVE  Goal
    BY <1>1 DEF Create, CreateRevert, Store, Resume, Retry, Continue
  <1>2. ASSUME NEW p \in Proc, NEW i \in Job,
               \/ EndElevation(p, i) \/ Announce(p, i) \/ Kick(p, i)
               \/ SweepRows(p, i)
               \/ \E what \in {"create", "continue"} : AnnounceFails(p, i, what)
               \/ \E t \in Token : StartUnbuilt(p, i, t)
        PROVE  Goal
    BY <1>2 DEF EndElevation, Announce, AnnounceOk, AnnounceFails, Kick, StartNothing,
                StartRun, StartUnbuilt, SweepRows
  <1>3. ASSUME NEW i \in Job, PlanRevert(i) \/ Cancel(i) \/ Lapse(i) PROVE Goal
    BY <1>3 DEF PlanRevert, Cancel, Lapse
  <1>4. ASSUME NEW p \in Proc,
               Sweep(p) \/ SweepFails(p) \/ Stop(p) \/ End(p) \/ Restart(p)
        PROVE  Goal
    BY <1>4 DEF Sweep, SweepFails, Stop, End, Restart
  <1>5. ASSUME NEW t \in Token, SettleFinish(t) PROVE Goal
    BY <1>5 DEF SettleFinish
  <1>6. ASSUME NEW t \in Token,
               SettlePause(t) \/ SettleRows(t) \/ SettleFails(t) \/ Beat(t)
        PROVE  Goal
    BY <1>6 DEF SettlePause, SettleRows, SettleFails, Beat
  <1>7. ASSUME NEW t \in Token, NEW w \in Worker, Work(t, w) \/ WorkerFails(t, w)
        PROVE  Goal
    BY <1>7 DEF Work, WorkerFails, WorkerFrame, Check, Claim, Look, RunOutcome,
                RunUnavailable, Release, Record, Write
  <1>8. CASE UNCHANGED vars
    BY <1>8 DEF vars
  <1> QED
    BY <1>1, <1>2, <1>3, <1>4, <1>5, <1>6, <1>7, <1>8 DEF Next, Settle

\* A run at work or settling is in a process that is up.
RunsLive == \A t \in Token :
    phase[t] \in {"working", "settling"} => proc[runProc[t]] # "down"

\* A row is put back only by a worker that has the job pause.
ReleasesPause == \A t \in Token, w \in Worker :
    pc[<<t, w>>] = "release" => pause[t] # "none"

\* The run's row waits: nobody else put it back.
Waits(t, r) ==
    JobOf[r] = runJob[t] /\ rowStatus[r] = "pending" /\ rowToken[r] \in {NoToken, t}

\* Nothing makes the run's workers stop early.
Undisturbed(t) ==
    /\ phase[t] = "working" /\ token[runJob[t]] = t
    /\ pause[t] = "none" /\ proc[runProc[t]] = "up"

\* A worker of an undisturbed run is done only when none of its rows waits.
DoneWhenDrained == \A t \in Token, w \in Worker :
    Undisturbed(t) /\ pc[<<t, w>>] = "off" => \A r \in Row : ~ Waits(t, r)

\* The inductive invariant of finishing, given RunInv.
FinishInv == RunsLive /\ ReleasesPause /\ DoneWhenDrained

\* No run works at first.
LEMMA FinishInit == Init => FinishInv
  BY DEF Init, FinishInv, RunsLive, ReleasesPause, DoneWhenDrained, Undisturbed, Slot

\* A step that disturbs runs or leaves them alone, and makes no row wait.
LEMMA FinishKept ==
    ASSUME FinishInv,
           \A t \in Token : phase'[t] \in {"working", "settling"} =>
               phase[t] \in {"working", "settling"} /\ proc'[runProc'[t]] # "down",
           \A t \in Token, w \in Worker : pc'[<<t, w>>] = "release" =>
               (pc[<<t, w>>] = "release" \/ pause'[t] # "none"),
           \A t \in Token : pause[t] # "none" => pause'[t] # "none",
           \A t \in Token, w \in Worker : Undisturbed(t)' /\ pc'[<<t, w>>] = "off" =>
               \/ Undisturbed(t) /\ pc[<<t, w>>] = "off"
                  /\ \A r \in Row : Waits(t, r)' => Waits(t, r)
               \/ \A r \in Row : ~ Waits(t, r)'
    PROVE  FinishInv'
  BY DEF FinishInv, RunsLive, ReleasesPause, DoneWhenDrained

\* A worker writes its row: as pending only if the job is to pause.
LEMMA FinishWritten ==
    ASSUME RunInv, FinishInv, NEW t \in Token, NEW w \in Worker, NEW to \in RowState,
           to = "pending" => pause[t] # "none", pc[<<t, w>>] # "off", Write(t, w, to)
    PROVE  FinishInv'
  <1>t. TypeOK /\ <<t, w>> \in Slot /\ NoToken \notin Token
    BY ConstantsOK DEF RunInv, Slot
  <1>1. /\ pc' = [pc EXCEPT ![<<t, w>>] = "check"]
        /\ UNCHANGED <<rowToken, pause, token, phase, runJob, runProc, proc>>
    BY DEF Write, WorkerFrame, Goto, jobVars, procVars
  <1>2. ASSUME NEW u \in Token, NEW r \in Row, Undisturbed(u), Waits(u, r)'
        PROVE  Waits(u, r)
    <2>1. rowStatus'[r] = rowStatus[r] \/ (to = "pending" /\ rowToken[r] = t)
      BY <1>t, <1>2 DEF Write, Owns, TypeOK, Waits
    <2>2. rowToken[r] = t => u = t
      BY <1>t, <1>1, <1>2 DEF Waits
    <2> QED
      BY <1>1, <1>2, <2>1, <2>2 DEF Waits, Undisturbed
  <1>3. \A u \in Token, v \in Worker :
            /\ pc'[<<u, v>>] = "off" => pc[<<u, v>>] = "off"
            /\ pc'[<<u, v>>] = "release" => pc[<<u, v>>] = "release"
    BY <1>t, <1>1 DEF TypeOK, Slot
  <1>4. \A u \in Token : Undisturbed(u)' => Undisturbed(u)
    BY <1>1 DEF Undisturbed
  <1> QED
    BY <1>1, <1>2, <1>3, <1>4, FinishKept DEF FinishInv, RunsLive

\* Every step keeps it: one action at a time.
LEMMA FinishStep == RunInv /\ FinishInv /\ [Next]_vars => FinishInv'
  <1> SUFFICES ASSUME RunInv, FinishInv, [Next]_vars PROVE FinishInv'
    OBVIOUS
  <1>t. TypeOK /\ OneRunHolds /\ RunsLive
    BY DEF RunInv, FinishInv
  <1>n. NoToken \notin Token
    BY ConstantsOK
  <1> USE DEF jobVars, rowVars, runVars, workVars, procVars
  \* Neither runs nor workers move: rows that begin to wait, and tokens
  \* that change, are those of jobs no run holds.
  <1>a. ASSUME UNCHANGED <<phase, runProc, runJob, pause, pc, rowToken>>,
               \A q \in Proc : proc'[q] = "down" => proc[q] = "down",
               \A t \in Token : proc'[runProc[t]] = "up" /\ phase[t] = "working"
                   => proc[runProc[t]] = "up",
               \A t \in Token : phase[t] = "working" /\ token'[runJob[t]] = t
                   => token[runJob[t]] = t,
               \A t \in Token, r \in Row : Undisturbed(t) /\ JobOf[r] = runJob[t] =>
                   (rowStatus'[r] = "pending" => rowStatus[r] = "pending"),
               \A t \in Token : phase[t] # "unused" => runProc[t] \in Proc
        PROVE  FinishInv'
    <2>1. \A t \in Token : Undisturbed(t)' => Undisturbed(t)
      BY <1>a DEF Undisturbed
    <2>2. \A t \in Token, r \in Row : Undisturbed(t) /\ Waits(t, r)' => Waits(t, r)
      BY <1>a DEF Waits
    <2> QED
      BY <1>t, <1>a, <2>1, <2>2, FinishKept DEF RunsLive
  <1>r. \A t \in Token : phase[t] # "unused" => runJob[t] \in Job /\ runProc[t] \in Proc
    BY DEF RunInv, RunsAreOfJobs
  <1>1. ASSUME NEW p \in Proc, NEW j \in Job,
               \/ Create(p, j) \/ CreateRevert(p, j) \/ Resume(p, j)
               \/ EndElevation(p, j) \/ Announce(p, j) \/ StartNothing(p, j)
        PROVE  FinishInv'
    BY <1>1, <1>a, <1>r
    DEF Create, CreateRevert, Store, Resume, Continue, EndElevation, Announce,
        AnnounceOk, StartNothing
  <1>2. ASSUME NEW p \in Proc, NEW j \in Job, NEW what \in {"create", "continue"},
               AnnounceFails(p, j, what)
        PROVE  FinishInv'
    BY <1>t, <1>n, <1>2, <1>a, <1>r DEF AnnounceFails, NoRun, TypeOK
  <1>3. ASSUME NEW p \in Proc, NEW j \in Job, Retry(p, j) PROVE FinishInv'
    <2>1. token' = token /\ token[j] = NoToken
      BY <1>t, <1>3 DEF Retry, Continue, OneRunHolds, TypeOK
    <2>2. \A r \in Row : rowStatus'[r] = rowStatus[r] \/ JobOf[r] = j
      BY <1>3 DEF Retry, Retried, RowsOf
    <2> QED
      BY <1>n, <1>3, <1>a, <1>r, <2>1, <2>2 DEF Retry, Continue, Undisturbed
  <1>4. ASSUME NEW p \in Proc, NEW j \in Job, SweepRows(p, j) PROVE FinishInv'
    BY <1>4, <1>a, <1>r DEF SweepRows
  <1>5. ASSUME NEW j \in Job, PlanRevert(j) \/ Cancel(j) \/ Lapse(j) PROVE FinishInv'
    BY <1>t, <1>n, <1>5, <1>a, <1>r DEF PlanRevert, Cancel, NoRun, Lapse, TypeOK
  <1>6. ASSUME NEW p \in Proc, Sweep(p) \/ SweepFails(p) PROVE FinishInv'
    BY <1>n, <1>6, <1>a, <1>r DEF Sweep, SweepFails
  <1>7. ASSUME NEW p \in Proc, Stop(p) \/ Restart(p) PROVE FinishInv'
    <2>1. \A q \in Proc : proc'[q] = "down" => proc[q] = "down"
      BY <1>t, <1>7 DEF Stop, Restart, TypeOK
    <2>2. \A t \in Token : proc'[runProc[t]] = "up" /\ phase[t] = "working"
            => proc[runProc[t]] = "up"
      BY <1>t, <1>7, <1>r DEF Stop, Restart, RunsLive, TypeOK
    <2> QED
      BY <1>7, <1>a, <1>r, <2>1, <2>2 DEF Stop, Restart
  <1>8. ASSUME NEW p \in Proc, End(p) PROVE FinishInv'
    <2>1. \A t \in Token : phase'[t] \in {"working", "settling"} =>
            /\ phase'[t] = phase[t] /\ runProc[t] # p
            /\ proc'[runProc[t]] = proc[runProc[t]]
            /\ \A w \in Worker : pc'[<<t, w>>] = pc[<<t, w>>]
      BY <1>t, <1>8, <1>r DEF End, TypeOK, Slot
    <2>2. UNCHANGED <<runProc, runJob, pause, token, rowStatus, rowToken>>
      BY <1>8 DEF End
    <2>3. \A t \in Token : Undisturbed(t)' =>
            Undisturbed(t) /\ \A w \in Worker : pc'[<<t, w>>] = pc[<<t, w>>]
      BY <2>1, <2>2 DEF Undisturbed
    <2>4. \A t \in Token, r \in Row : Waits(t, r)' => Waits(t, r)
      BY <2>2 DEF Waits
    <2>5. \A t \in Token, w \in Worker :
            pc'[<<t, w>>] = "release" => pc[<<t, w>>] = "release"
      BY <1>t, <1>8 DEF End, TypeOK, Slot
    <2> QED
      BY <1>t, <2>1, <2>2, <2>3, <2>4, <2>5, FinishKept DEF RunsLive
  <1>9. ASSUME NEW p \in Proc, NEW j \in Job, NEW t \in Token, StartRun(p, j, t)
        PROVE  FinishInv'
    <2>1. proc[p] # "down" /\ pc' = [s \in Slot |-> IF s[1] = t THEN "check" ELSE pc[s]]
      BY <1>9 DEF StartRun, RunInv, KickedAreAlive
    <2>2. \A u \in Token \ {t} : Undisturbed(u)' => Undisturbed(u)
      BY <1>t, <1>9, <1>r DEF StartRun, Undisturbed, TypeOK
    <2>3. \A u \in Token, r \in Row : u # t /\ Waits(u, r)' => Waits(u, r)
      BY <1>t, <1>9 DEF StartRun, Waits, TypeOK
    <2>4. \A u \in Token : phase'[u] \in {"working", "settling"} =>
            proc'[runProc'[u]] # "down" /\ (u # t => phase[u] = phase'[u])
      BY <1>t, <1>9, <2>1 DEF StartRun, RunsLive, TypeOK
    <2> QED
      BY <1>t, <1>9, <2>1, <2>2, <2>3, <2>4
      DEF StartRun, FinishInv, RunsLive, ReleasesPause, DoneWhenDrained, Slot
  <1>10. ASSUME NEW p \in Proc, NEW j \in Job, NEW t \in Token, StartUnbuilt(p, j, t)
         PROVE  FinishInv'
    <2>1. proc[p] # "down" /\ pc' = pc /\ pause'[t] # "none"
      BY <1>t, <1>10 DEF StartUnbuilt, RunInv, KickedAreAlive, TypeOK
    <2>2. \A u \in Token : Undisturbed(u)' => u # t /\ Undisturbed(u)
      BY <1>t, <1>10, <1>r, <2>1 DEF StartUnbuilt, Undisturbed, TypeOK
    <2>3. \A u \in Token, r \in Row : u # t /\ Waits(u, r)' => Waits(u, r)
      BY <1>t, <1>10 DEF StartUnbuilt, Waits, TypeOK
    <2>4. \A u \in Token : phase'[u] \in {"working", "settling"} =>
            proc'[runProc'[u]] # "down" /\ (u # t => phase[u] = phase'[u])
      BY <1>t, <1>10, <2>1 DEF StartUnbuilt, RunsLive, TypeOK
    <2>5. \A u \in Token : u # t => pause'[u] = pause[u]
      BY <1>t, <1>10 DEF StartUnbuilt, TypeOK
    <2> QED
      BY <1>t, <2>1, <2>2, <2>3, <2>4, <2>5
      DEF FinishInv, RunsLive, ReleasesPause, DoneWhenDrained
  <1>11. ASSUME NEW t \in Token, Settle(t) \/ SettleFails(t) PROVE FinishInv'
    <2>1. \A u \in Token : phase'[u] \in {"working", "settling"} =>
            phase[u] \in {"working", "settling"} /\ (phase'[u] = "working" => phase[u] = "working")
      BY <1>t, <1>11
      DEF Settle, SettlePause, SettleFinish, SettleRows, SettleFails, Settles, TypeOK
    <2>2. /\ UNCHANGED <<pc, pause, runJob, runProc, proc, rowToken>>
          /\ \A r \in Row : rowStatus'[r] = "pending" => rowStatus[r] = "pending"
      BY <1>11 DEF Settle, SettlePause, SettleFinish, SettleRows, SettleFails
    <2>3. \A u \in Token : phase[u] = "working" /\ token'[runJob[u]] = u
            => token[runJob[u]] = u
      BY <1>t, <1>n, <1>11, <1>r
      DEF Settle, SettlePause, SettleFinish, SettleRows, SettleFails, NoRun, TypeOK
    <2>4. \A u \in Token : Undisturbed(u)' => Undisturbed(u)
      BY <2>1, <2>2, <2>3 DEF Undisturbed
    <2>5. \A u \in Token, r \in Row : Waits(u, r)' => Waits(u, r)
      BY <2>2 DEF Waits
    <2> QED
      BY <1>t, <2>1, <2>2, <2>4, <2>5, FinishKept DEF RunsLive
  <1>12. ASSUME NEW t \in Token, Beat(t) PROVE FinishInv'
    BY <1>12, <1>a, <1>r DEF Beat
  <1>13. ASSUME NEW t \in Token, NEW w \in Worker, Work(t, w) \/ WorkerFails(t, w)
         PROVE  FinishInv'
    <2>s. <<t, w>> \in Slot
      BY DEF Slot
    <2> USE DEF WorkerFrame, Goto
    \* The worker moves on and leaves rows alone, or claims one.
    <2>m. ASSUME NEW l \in PCs, pc' = [pc EXCEPT ![<<t, w>>] = l],
                 UNCHANGED <<token, phase, runJob, runProc, proc>>,
                 \A u \in Token : pause[u] # "none" => pause'[u] # "none",
                 l = "release" => pause'[t] # "none",
                 l = "off" /\ Undisturbed(t)' => \A r \in Row : ~ Waits(t, r)',
                 \A u \in Token, r \in Row :
                    Undisturbed(u)' /\ Waits(u, r)' => Waits(u, r)
          PROVE  FinishInv'
      <3>1. ASSUME NEW u \in Token, NEW v \in Worker, <<u, v>> # <<t, w>>
            PROVE  pc'[<<u, v>>] = pc[<<u, v>>]
        BY <1>t, <2>m, <3>1 DEF TypeOK, Slot
      <3>2. pc'[<<t, w>>] = l
        BY <1>t, <2>s, <2>m DEF TypeOK
      <3>3. \A u \in Token : Undisturbed(u)' => Undisturbed(u)
        BY <2>m DEF Undisturbed
      <3>4. \A u \in Token, v \in Worker :
                pc'[<<u, v>>] = "release" => pc[<<u, v>>] = "release" \/ pause'[u] # "none"
        BY <2>m, <3>1, <3>2
      <3>5. \A u \in Token, v \in Worker : Undisturbed(u)' /\ pc'[<<u, v>>] = "off" =>
                \/ pc[<<u, v>>] = "off" \/ \A r \in Row : ~ Waits(u, r)'
        BY <2>m, <3>1, <3>2
      <3> QED
        BY <1>t, <2>m, <3>3, <3>4, <3>5, FinishKept DEF RunsLive
    <2>1. CASE Check(t, w)
      <3>1. /\ pause' = pause \/ pause' = [pause EXCEPT ![t] = "step_up_required"]
            /\ UNCHANGED <<rowStatus, rowToken, token, phase, runJob, runProc, proc>>
        BY <2>1 DEF Check
      <3>2. \A u \in Token : pause[u] # "none" => pause'[u] # "none"
        BY <1>t, <3>1 DEF TypeOK
      <3>3. PICK l \in {"off", "claim"} : Goto(t, w, l)
        BY <2>1 DEF Check
      <3>4. l = "off" => ~ Undisturbed(t)'
        <4>1. CASE l = "off"
          <5>1. pc'[<<t, w>>] = "off"
            BY <1>t, <2>s, <3>3, <4>1 DEF TypeOK
          <5>2. \/ pause[t] # "none" \/ Stopping(t)
                \/ pause' = [pause EXCEPT ![t] = "step_up_required"]
            BY <1>t, <2>s, <2>1, <5>1 DEF Check, TypeOK
          <5> QED
            BY <1>t, <3>1, <3>2, <5>2 DEF Undisturbed, Stopping, TypeOK
        <4> QED
          BY <4>1
      <3>5. \A u \in Token, r \in Row : Waits(u, r)' => Waits(u, r)
        BY <3>1 DEF Waits
      <3>6. pc' = [pc EXCEPT ![<<t, w>>] = l] /\ l \in PCs
        BY <3>3 DEF PCs
      <3> QED
        BY <2>m, <3>1, <3>2, <3>3, <3>4, <3>5, <3>6
    <2>2. CASE Claim(t, w)
      <3>1. PICK l \in {"run", "look"} : Goto(t, w, l)
        BY <2>2 DEF Claim
      <3>2. \A u \in Token, r \in Row : Waits(u, r)' => Waits(u, r)
        BY <1>t, <2>2 DEF Claim, Waits, TypeOK
      <3> QED
        BY <2>m, <2>2, <3>1, <3>2 DEF Claim, PCs
    <2>3. CASE Look(t, w)
      <3>1. UNCHANGED <<rowStatus, rowToken, pause, token, phase, runJob, runProc, proc>>
        BY <2>3 DEF Look
      <3>2. PICK l \in {"off", "check"} :
                Goto(t, w, l) /\ (l = "off" => ~ Waiting(t))
        BY <2>3 DEF Look
      <3>3. ASSUME ~ Waiting(t), Undisturbed(t)', NEW r \in Row, Waits(t, r)' PROVE FALSE
        <4>1. runJob[t] \in Job /\ token[runJob[t]] = t /\ r \in RowsOf(runJob[t])
              /\ rowStatus[r] = "pending"
          BY <1>r, <3>1, <3>3 DEF Undisturbed, Waits, RowsOf
        <4>2. status[runJob[t]] = "running"
          BY <1>t, <1>n, <4>1 DEF OneRunHolds
        <4> QED
          BY <3>3, <4>1, <4>2 DEF Waiting, Holds
      <3>4. \A u \in Token, r \in Row : Waits(u, r)' => Waits(u, r)
        BY <3>1 DEF Waits
      <3> QED
        BY <2>m, <3>1, <3>2, <3>3, <3>4 DEF PCs
    <2>4. CASE RunOutcome(t, w)
      <3>1. /\ pause' = pause \/ pause' = [pause EXCEPT ![t] = "directory_unavailable"]
            /\ UNCHANGED <<rowStatus, rowToken, token, phase, runJob, runProc, proc>>
        BY <2>4 DEF RunOutcome
      <3>2. \A u \in Token : pause[u] # "none" => pause'[u] # "none"
        BY <1>t, <3>1 DEF TypeOK
      <3>3. PICK o \in Outcomes : Goto(t, w, o)
        BY <2>4 DEF RunOutcome
      <3>4. o \in PCs /\ o \notin {"release", "off"}
        BY ConstantsOK DEF PCs, Results
      <3>5. \A u \in Token, r \in Row : Waits(u, r)' => Waits(u, r)
        BY <3>1 DEF Waits
      <3> QED
        BY <2>m, <3>1, <3>2, <3>3, <3>4, <3>5
    <2>5. CASE RunUnavailable(t, w)
      <3>1. /\ pause' = [pause EXCEPT ![t] = "directory_unavailable"]
            /\ UNCHANGED <<rowStatus, rowToken, token, phase, runJob, runProc, proc>>
            /\ pc' = [pc EXCEPT ![<<t, w>>] = "release"]
        BY <2>5 DEF RunUnavailable
      <3>2. \A u \in Token : pause[u] # "none" \/ u = t => pause'[u] # "none"
        BY <1>t, <3>1 DEF TypeOK
      <3>3. \A u \in Token, r \in Row : Waits(u, r)' => Waits(u, r)
        BY <3>1 DEF Waits
      <3> QED
        BY <2>m, <3>1, <3>2, <3>3 DEF PCs
    <2>6. CASE Release(t, w)
      BY <2>6, FinishWritten DEF Release, At, RowState, FinishInv, ReleasesPause
    <2>7. CASE Record(t, w)
      <3>1. PICK o \in Outcomes : At(t, w, o) /\ Write(t, w, o)
        BY <2>7 DEF Record
      <3> QED
        BY <3>1, FinishWritten, ConstantsOK DEF At, RowState, Results
    <2>8. CASE WorkerFails(t, w)
      <3>1. /\ pause' = [pause EXCEPT ![t] = "interrupted"]
            /\ UNCHANGED <<rowStatus, rowToken, token, phase, runJob, runProc, proc>>
            /\ pc' = [pc EXCEPT ![<<t, w>>] = "off"]
        BY <2>8 DEF WorkerFails, CaughtPause
      <3>2. \A u \in Token : pause[u] # "none" \/ u = t => pause'[u] # "none"
        BY <1>t, <3>1 DEF TypeOK
      <3>3. \A u \in Token, r \in Row : Waits(u, r)' => Waits(u, r)
        BY <3>1 DEF Waits
      <3> QED
        BY <2>m, <3>1, <3>2, <3>3 DEF PCs, Undisturbed
    <2> QED
      BY <1>13, <2>1, <2>2, <2>3, <2>4, <2>5, <2>6, <2>7, <2>8 DEF Work
  <1>14. CASE UNCHANGED vars
    BY <1>14, <1>a, <1>r DEF vars
  <1> QED
    BY <1>1, <1>2, <1>3, <1>4, <1>5, <1>6, <1>7, <1>8, <1>9, <1>10, <1>11, <1>12,
       <1>13, <1>14
    DEF Next, Kick

\* What is so when a run finishes its job.
LEMMA FinishesWhole ==
    ASSUME RunInv, FinishInv, [Next]_vars, NEW j \in Job,
           status[j] = "running", status'[j] = "finished"
    PROVE  FinishedByHolder(j) /\ NoneForgotten(j)
  <1>1. TypeOK
    BY DEF RunInv
  <1>2. PICK t \in Token : SettleFinish(t) /\ Current(t) /\ runJob[t] = j
    BY <1>1, OnlySettleFinishes
  <1>3. FinishedByHolder(j)
    BY <1>2 DEF SettleFinish, Settles, Current, Holds, FinishedByHolder
  <1>4. Undisturbed(t)
    BY <1>1, <1>2 DEF SettleFinish, Settles, Current, Holds, Pause, Stopping,
                      Undisturbed, RunInv, RunsAreOfJobs, TypeOK
  <1>5. PICK w \in Worker : pc[<<t, w>>] = "off"
    BY <1>2, SomeWorker DEF SettleFinish, Settles
  <1>6. \A r \in Row : ~ Waits(t, r)
    BY <1>4, <1>5 DEF FinishInv, DoneWhenDrained
  <1>7. NoneForgotten(j)
    BY <1>2, <1>6 DEF NoneForgotten, SettleFinish, Current, Holds, RowsOf, Waits, rowVars
  <1> QED
    BY <1>3, <1>7

\* Only the run that holds a job finishes it, once its workers are done, and
\* then no row of it waits to be written, except rows put back by a run that
\* had lost the job.
THEOREM FinishedWholeAlways == Spec => FinishedWhole
  <1>1. RunInv /\ FinishInv /\ [Next]_vars =>
            [\A j \in Job : status[j] = "running" /\ status'[j] = "finished" =>
                FinishedByHolder(j) /\ NoneForgotten(j)]_vars
    BY FinishesWhole
  <1> QED
    BY RunInit, RunStep, FinishInit, FinishStep, <1>1, PTL DEF Spec, FinishedWhole
=============================================================================
