------------------------ MODULE SyncSchedulerProofs ------------------------
(***************************************************************************)
(* Proofs about the sync task scheduler, for any processes, tasks,         *)
(* prerequisites, triggers and bounds.                                     *)
(***************************************************************************)
EXTENDS SyncScheduler, TLAPS

\* A process that runs a task says which.
Assigned == \A p \in Proc : pc[p] # "idle" => busy[p] \in Task

\* Whoever is at work has the lock, and isn't giving it back.
LockInv == \A p \in Proc : Working(p) => lock = p /\ ~ unlocking

\* The count a run is about to write is based on the row's.
ReadsAreFresh == \A p \in Proc : pc[p] = "write" => prev[p] = failures[busy[p]]

\* The two inductive invariants: of the lock, and of the failure counts.
RunsInv == TypeOK /\ Assigned /\ LockInv

\* What a tick does to the runs of the processes: it may start one.
RunsKept ==
    /\ busy' \in [Proc -> Task \cup {NoTask}]
    /\ pc' \in [Proc -> {"idle", "lock"} \cup AtWork]
    /\ \A q \in Proc : pc'[q] # "idle" => busy'[q] \in Task
    /\ \A q \in Proc : pc[q] \in AtWork \/ pc'[q] \in AtWork
                         => pc'[q] = pc[q] /\ busy'[q] = busy[q]

CountInv == RunsInv /\ ReadsAreFresh /\ FailuresCounted

-----------------------------------------------------------------------------
\* Picking keeps the types of a process's run, and assigns a task to it.
LEMMA PickKeeps ==
    ASSUME TypeOK, Assigned, NEW p \in Proc, NEW s \in Snapshot, Pick(p, s)
    PROVE  RunsKept
  <1>1. CASE UNCHANGED <<busy, pc>>
    BY <1>1 DEF TypeOK, Assigned, RunsKept
  <1>2. ASSUME NEW k \in Picked(p, s), busy[p] = NoTask,
               busy' = [busy EXCEPT ![p] = k], pc' = [pc EXCEPT ![p] = "lock"]
        PROVE  RunsKept
    <2>1. k \in Task
      BY DEF Picked, Candidates, Snapshot, TypeOK
    <2>2. pc[p] \notin AtWork
      BY <1>2, ConstantsOK DEF Assigned, AtWork
    <2> QED
      BY <1>2, <2>1, <2>2 DEF TypeOK, Assigned, AtWork, RunsKept
  <1> QED
    BY <1>1, <1>2 DEF Pick

\* A tick that reads, or goes on, does the same, and keeps well-typed snapshots.
LEMMA ProceedKeeps ==
    ASSUME TypeOK, Assigned, NEW p \in Proc, NEW s \in Snapshot,
           NEW others \in SUBSET Snapshot, Proceed(p, s, others)
    PROVE  RunsKept /\ snaps' \in [Proc -> SUBSET Snapshot]
  <1>1. snaps' \in [Proc -> SUBSET Snapshot]
    <2>1. others \cup {s} \in SUBSET Snapshot
      OBVIOUS
    <2> HIDE DEF Snapshot
    <2> QED
      BY <2>1 DEF Proceed, TypeOK
  <1>2. CASE Pick(p, s)
    BY <1>1, <1>2, PickKeeps
  <1>3. CASE UNCHANGED <<busy, pc>>
    BY <1>1, <1>3 DEF TypeOK, Assigned, RunsKept
  <1> QED
    BY <1>2, <1>3 DEF Proceed

\* The snapshots ticks go on with are well typed.
LEMMA TickKeeps ==
    ASSUME TypeOK, Assigned, NEW p \in Proc,
           TickRead(p) \/ \E s \in snaps[p] :
               WatchdogSkips(p, s) \/ \E k \in Task : WatchdogCloses(p, s, k)
    PROVE  RunsKept /\ snaps' \in [Proc -> SUBSET Snapshot]
  <1>0. snaps[p] \in SUBSET Snapshot
    BY DEF TypeOK
  <1>1. CASE TickRead(p)
    <2> DEFINE s == [on |-> enabled, due |-> due \cap enabled, stuck |-> Stuck,
                     closing |-> {}, entra |-> entra]
    <2>1. s \in Snapshot
      BY DEF Snapshot, TypeOK, Stuck
    <2>2. Proceed(p, s, snaps[p])
      BY <1>1 DEF TickRead
    <2> QED
      BY <1>0, <2>1, <2>2, ProceedKeeps
  <1>2. ASSUME NEW s \in snaps[p], WatchdogSkips(p, s)
        PROVE  Proceed(p, s, snaps[p] \ {s})
    BY <1>2 DEF WatchdogSkips
  <1>3. ASSUME NEW s \in snaps[p], WatchdogSkips(p, s)
        PROVE  RunsKept /\ snaps' \in [Proc -> SUBSET Snapshot]
    <2>1. s \in Snapshot /\ snaps[p] \ {s} \in SUBSET Snapshot
      BY <1>0
    <2> QED
      BY <1>2, <1>3, <2>1, ProceedKeeps
  <1>4. ASSUME NEW s \in snaps[p], NEW k \in Task, WatchdogCloses(p, s, k)
        PROVE  RunsKept /\ snaps' \in [Proc -> SUBSET Snapshot]
    <2> DEFINE t == [s EXCEPT !.stuck = @ \ {k}, !.closing = {}]
    <2>1. t \in Snapshot
      BY <1>0 DEF Snapshot
    <2>2. snaps[p] \ {s} \in SUBSET Snapshot
      BY <1>0
    <2>3. Proceed(p, t, snaps[p] \ {s})
      BY <1>4 DEF WatchdogCloses
    <2> HIDE DEF t
    <2> QED
      BY <2>1, <2>2, <2>3, ProceedKeeps
  <1> QED
    BY <1>1, <1>3, <1>4

-----------------------------------------------------------------------------
\* The initial state is well typed, and nobody is at work.
LEMMA RunsInit == Init => RunsInv
  <1> SUFFICES ASSUME Init PROVE RunsInv
    OBVIOUS
  <1>1. TypeOK
    BY ConstantsOK DEF Init, TypeOK
  <1>2. Assigned /\ LockInv
    BY DEF Init, Assigned, LockInv, Working, AtWork
  <1> QED
    BY <1>1, <1>2 DEF RunsInv

\* Every step keeps the types: one action at a time.
LEMMA TypeStep == TypeOK /\ Assigned /\ [Next]_vars => TypeOK'
  <1> SUFFICES ASSUME TypeOK, Assigned, [Next]_vars PROVE TypeOK'
    OBVIOUS
  <1> USE ConstantsOK DEF TypeOK, Fault, Call, Goto, ForgetRun, taskVars, runVars, tickVars
  <1>1. ASSUME NEW k \in Task, SlotArrives(k) PROVE TypeOK'
    BY <1>1 DEF SlotArrives
  <1>2. ASSUME NEW k \in Task, RunsOver(k) PROVE TypeOK'
    BY <1>2 DEF RunsOver
  <1>3. ASSUME NEW k \in Task, SetEnabled(k) PROVE TypeOK'
    BY <1>3 DEF SetEnabled
  <1>4. ASSUME NEW p \in Proc, NEW k \in Task, Trigger(p, k) PROVE TypeOK'
    BY <1>4 DEF Trigger
  <1>5. CASE SetEntra
    BY <1>5 DEF SetEntra
  <1>6. CASE Unlock
    BY <1>6 DEF Unlock
  <1>7. ASSUME NEW p \in Proc, TickRead(p) PROVE TypeOK'
    BY <1>7, TickKeeps DEF TickRead, RunsKept
  <1>8. ASSUME NEW p \in Proc, Watchdog(p) PROVE TypeOK'
    <2>1. PICK s \in snaps[p] :
              \/ WatchdogSkips(p, s)
              \/ \E k \in Task : WatchdogFails(p, s, k) \/ WatchdogCloses(p, s, k)
      BY <1>8 DEF Watchdog
    <2>2. CASE WatchdogSkips(p, s)
      BY <2>2, TickKeeps DEF WatchdogSkips, RunsKept
    <2>3. ASSUME NEW k \in Task, WatchdogCloses(p, s, k) PROVE TypeOK'
      BY <2>3, TickKeeps DEF WatchdogCloses, RunsKept
    <2>4. ASSUME NEW k \in Task, WatchdogFails(p, s, k) PROVE TypeOK'
      <3>1. [s EXCEPT !.closing = {k}] \in Snapshot
        BY DEF Snapshot
      <3>2. (snaps[p] \ {s}) \cup {[s EXCEPT !.closing = {k}]} \in SUBSET Snapshot
        BY <3>1
      <3>3. snaps' \in [Proc -> SUBSET Snapshot]
        BY <2>4, <3>2 DEF WatchdogFails
      <3> QED
        BY <2>4, <3>3 DEF WatchdogFails
    <2> QED
      BY <2>1, <2>2, <2>3, <2>4
  <1>9. ASSUME NEW p \in Proc, Run(p) PROVE TypeOK'
    <2> USE DEF AtWork
    <2>1. CASE TakeLock(p)
      BY <2>1 DEF TakeLock
    <2>2. CASE LockRefused(p)
      BY <2>2 DEF LockRefused
    <2>3. CASE CheckOk(p)
      BY <2>3 DEF CheckOk
    <2>4. CASE CheckGone(p)
      BY <2>4 DEF CheckGone, Leave
    <2>5. CASE MarkStarted(p)
      BY <2>5 DEF MarkStarted
    <2>6. CASE OpenHistory(p)
      BY <2>6 DEF OpenHistory
    <2>7. CASE RunnerEnds(p)
      BY <2>7 DEF RunnerEnds, Assigned
    <2>8. CASE MarkFinished(p)
      <3>1. busy[p] \in Task /\ Failures(p) \in Nat
        BY <2>8 DEF MarkFinished, Failures, Assigned
      <3>2. streak' \in [Task -> Nat] /\ failures' \in [Task -> Nat]
        BY <2>8, <3>1 DEF MarkFinished
      <3> QED
        BY <2>8, <3>1, <3>2 DEF MarkFinished
    <2>9. CASE CloseHistory(p)
      BY <2>9 DEF CloseHistory, Leave, Assigned
    <2> QED
      BY <1>9, <2>1, <2>2, <2>3, <2>4, <2>5, <2>6, <2>7, <2>8, <2>9 DEF Run
  <1>10. ASSUME NEW p \in Proc, RunFails(p) PROVE TypeOK'
    BY <1>10 DEF RunFails, Assigned, AtWork
  <1>11. ASSUME NEW p \in Proc, RecordFails(p) PROVE TypeOK'
    BY <1>11 DEF RecordFails, Leave, Assigned
  <1>12. ASSUME NEW p \in Proc, Crash(p) PROVE TypeOK'
    <2>1. /\ lock' \in Proc \cup {NoProc} /\ unlocking' \in BOOLEAN
          /\ orphans' \subseteq Task /\ open' \in [Task -> SUBSET Proc]
      BY <1>12 DEF Crash
    <2>2. /\ busy' \in [Proc -> Task \cup {NoTask}]
          /\ pc' \in [Proc -> {"idle", "lock"} \cup AtWork]
          /\ forced' \in [Proc -> SUBSET Task]
          /\ snaps' \in [Proc -> SUBSET Snapshot]
      BY <1>12 DEF Crash
    <2> QED
      BY <1>12, <2>1, <2>2 DEF Crash
  <1>13. CASE UNCHANGED vars
    BY <1>13 DEF vars
  <1> QED
    BY <1>1, <1>2, <1>3, <1>4, <1>5, <1>6, <1>7, <1>8, <1>9, <1>10, <1>11, <1>12,
       <1>13 DEF Next

\* Every step keeps the lock with whoever is at work.
LEMMA LockStep ==
    TypeOK /\ Assigned /\ LockInv /\ [Next]_vars => Assigned' /\ LockInv'
  <1> SUFFICES ASSUME TypeOK, Assigned, LockInv, [Next]_vars
               PROVE  Assigned' /\ LockInv'
    OBVIOUS
  <1> USE ConstantsOK
      DEF Assigned, LockInv, Working, Goto, runVars, tickVars
  <1>1. ASSUME NEW k \in Task, SlotArrives(k) \/ RunsOver(k) \/ SetEnabled(k)
        PROVE  Assigned' /\ LockInv'
    BY <1>1 DEF SlotArrives, RunsOver, SetEnabled
  <1>2. ASSUME NEW p \in Proc, NEW k \in Task, Trigger(p, k)
        PROVE  Assigned' /\ LockInv'
    BY <1>2 DEF Trigger
  <1>3. CASE SetEntra \/ Unlock
    BY <1>3 DEF SetEntra, Unlock
  <1>4. ASSUME NEW p \in Proc, TickRead(p) PROVE Assigned' /\ LockInv'
    BY <1>4, TickKeeps DEF TickRead, RunsKept
  <1>5. ASSUME NEW p \in Proc, Watchdog(p) PROVE Assigned' /\ LockInv'
    <2>1. PICK s \in snaps[p] :
              \/ WatchdogSkips(p, s)
              \/ \E k \in Task : WatchdogFails(p, s, k) \/ WatchdogCloses(p, s, k)
      BY <1>5 DEF Watchdog
    <2>2. CASE WatchdogSkips(p, s)
      BY <2>2, TickKeeps DEF WatchdogSkips, RunsKept
    <2>3. ASSUME NEW k \in Task, WatchdogCloses(p, s, k) PROVE Assigned' /\ LockInv'
      BY <2>3, TickKeeps DEF WatchdogCloses, RunsKept
    <2>4. ASSUME NEW k \in Task, WatchdogFails(p, s, k) PROVE Assigned' /\ LockInv'
      BY <2>4 DEF WatchdogFails
    <2> QED
      BY <2>1, <2>2, <2>3, <2>4
  <1>6. ASSUME NEW p \in Proc, Run(p) \/ RunFails(p) \/ RecordFails(p)
        PROVE  Assigned' /\ LockInv'
    <2> USE DEF TypeOK, AtWork
    <2>1. CASE TakeLock(p)
      BY <2>1 DEF TakeLock, LockFree
    <2>2. CASE LockRefused(p)
      BY <2>2 DEF LockRefused
    <2>3. CASE CheckOk(p) \/ MarkStarted(p) \/ OpenHistory(p) \/ RunnerEnds(p)
      BY <2>3 DEF CheckOk, MarkStarted, OpenHistory, RunnerEnds
    <2>4. CASE MarkFinished(p) \/ RunFails(p)
      BY <2>4 DEF MarkFinished, RunFails
    <2>5. CASE CheckGone(p) \/ CloseHistory(p) \/ RecordFails(p)
      BY <2>5 DEF CheckGone, CloseHistory, RecordFails, Leave
    <2> QED
      BY <1>6, <2>1, <2>2, <2>3, <2>4, <2>5 DEF Run
  <1>7. ASSUME NEW p \in Proc, Crash(p) PROVE Assigned' /\ LockInv'
    BY <1>7 DEF Crash, TypeOK, AtWork
  <1>8. CASE UNCHANGED vars
    BY <1>8 DEF vars
  <1> QED
    BY <1>1, <1>2, <1>3, <1>4, <1>5, <1>6, <1>7, <1>8 DEF Next

\* Who is at work, with what lock, and every type, at every step.
LEMMA RunsStep == RunsInv /\ [Next]_vars => RunsInv'
  BY TypeStep, LockStep DEF RunsInv

\* Every reachable state is well typed.
THEOREM TypeCorrect == Spec => []TypeOK
  <1>1. RunsInv => TypeOK
    BY DEF RunsInv
  <1> QED
    BY RunsInit, RunsStep, <1>1, PTL DEF Spec

\* Two processes never run tasks of the directory at once.
THEOREM OneTaskAlways == Spec => []OneTaskAtWork
  <1>1. RunsInv => OneTaskAtWork
    BY DEF RunsInv, LockInv, OneTaskAtWork
  <1> QED
    BY RunsInit, RunsStep, <1>1, PTL DEF Spec

-----------------------------------------------------------------------------
\* Writing a result counts it, and nobody else has a count in hand.
LEMMA CountWritten ==
    ASSUME CountInv, NEW p \in Proc, MarkFinished(p)
    PROVE  ReadsAreFresh' /\ FailuresCounted'
  <1> USE DEF CountInv, RunsInv, TypeOK
  <1>1. busy[p] \in Task /\ prev[p] = failures[busy[p]]
    BY DEF MarkFinished, Assigned, ReadsAreFresh
  <1>2. \A q \in Proc : pc'[q] # "write"
    BY DEF MarkFinished, Goto, LockInv, Working, AtWork
  <1>3. failures' = [failures EXCEPT ![busy[p]] =
                        IF ok[p] THEN 0 ELSE failures[busy[p]] + 1]
    BY <1>1 DEF MarkFinished, Failures
  <1>4. streak' = [streak EXCEPT ![busy[p]] =
                      IF ok[p] THEN 0 ELSE streak[busy[p]] + 1]
    BY <1>1 DEF MarkFinished
  <1>5. \A k \in Task : failures'[k] = streak'[k]
    BY <1>1, <1>3, <1>4 DEF FailuresCounted
  <1> QED
    BY <1>2, <1>5 DEF ReadsAreFresh, FailuresCounted

\* The counts stay right: only MarkFinished writes them, and only RunnerEnds
\* and RunFails read them for a run.
LEMMA CountStep == CountInv /\ [Next]_vars => CountInv'
  <1> SUFFICES ASSUME CountInv, [Next]_vars
               PROVE  ReadsAreFresh' /\ FailuresCounted'
    BY RunsStep DEF CountInv
  <1> USE DEF taskVars, runVars, tickVars
  <1>1. ASSUME NEW p \in Proc, MarkFinished(p) PROVE ReadsAreFresh' /\ FailuresCounted'
    BY <1>1, CountWritten
  <1>2. ASSUME NEW p \in Proc, RunnerEnds(p) \/ RunFails(p)
        PROVE  ReadsAreFresh' /\ FailuresCounted'
    BY <1>2 DEF RunnerEnds, RunFails, Goto, CountInv, RunsInv, TypeOK,
                ReadsAreFresh, FailuresCounted
  <1>3. ASSUME UNCHANGED <<failures, streak>>,
               \A q \in Proc : pc'[q] = "write" =>
                   pc[q] = "write" /\ busy'[q] = busy[q] /\ prev'[q] = prev[q]
        PROVE  ReadsAreFresh' /\ FailuresCounted'
    BY <1>3 DEF CountInv, ReadsAreFresh, FailuresCounted
  <1>4. ASSUME NEW k \in Task, SlotArrives(k) \/ RunsOver(k) \/ SetEnabled(k)
        PROVE  ReadsAreFresh' /\ FailuresCounted'
    BY <1>3, <1>4 DEF SlotArrives, RunsOver, SetEnabled
  <1>5. ASSUME NEW p \in Proc, NEW k \in Task, Trigger(p, k)
        PROVE  ReadsAreFresh' /\ FailuresCounted'
    BY <1>3, <1>5 DEF Trigger
  <1>6. CASE SetEntra \/ Unlock
    BY <1>3, <1>6 DEF SetEntra, Unlock
  <1>7. ASSUME NEW p \in Proc, TickRead(p) \/ Watchdog(p)
        PROVE  ReadsAreFresh' /\ FailuresCounted'
    <2> USE DEF AtWork
    <2>1. CASE TickRead(p)
      BY <1>3, <2>1, TickKeeps DEF TickRead, RunsKept, CountInv, RunsInv
    <2>2. ASSUME NEW s \in snaps[p], WatchdogSkips(p, s)
          PROVE  ReadsAreFresh' /\ FailuresCounted'
      BY <1>3, <2>2, TickKeeps DEF WatchdogSkips, RunsKept, CountInv, RunsInv
    <2>3. ASSUME NEW s \in snaps[p], NEW k \in Task, WatchdogCloses(p, s, k)
          PROVE  ReadsAreFresh' /\ FailuresCounted'
      BY <1>3, <2>3, TickKeeps DEF WatchdogCloses, RunsKept, CountInv, RunsInv
    <2>4. ASSUME NEW s \in snaps[p], NEW k \in Task, WatchdogFails(p, s, k)
          PROVE  ReadsAreFresh' /\ FailuresCounted'
      BY <1>3, <2>4 DEF WatchdogFails
    <2> QED
      BY <1>7, <2>1, <2>2, <2>3, <2>4 DEF Watchdog
  <1>8. ASSUME NEW p \in Proc,
               \/ TakeLock(p) \/ LockRefused(p) \/ CheckOk(p) \/ CheckGone(p)
               \/ MarkStarted(p) \/ OpenHistory(p) \/ CloseHistory(p)
               \/ RecordFails(p) \/ Crash(p)
        PROVE  ReadsAreFresh' /\ FailuresCounted'
    <2> USE DEF Goto, CountInv, RunsInv, TypeOK
    <2>1. CASE TakeLock(p) \/ LockRefused(p)
      BY <1>3, <2>1 DEF TakeLock, LockRefused
    <2>2. CASE CheckOk(p) \/ MarkStarted(p) \/ OpenHistory(p)
      BY <1>3, <2>2 DEF CheckOk, MarkStarted, OpenHistory
    <2>3. CASE CheckGone(p) \/ CloseHistory(p) \/ RecordFails(p)
      BY <1>3, <2>3 DEF CheckGone, CloseHistory, RecordFails, Leave, ForgetRun
    <2>4. CASE Crash(p)
      BY <1>3, <2>4 DEF Crash, ForgetRun
    <2> QED
      BY <1>8, <2>1, <2>2, <2>3, <2>4
  <1>9. CASE UNCHANGED vars
    BY <1>3, <1>9 DEF vars
  <1> QED
    BY <1>1, <1>2, <1>4, <1>5, <1>6, <1>7, <1>8, <1>9 DEF Next, Run

\* No failure is lost from a task's count, and no success, although the count
\* is read and written in two statements.
THEOREM FailuresCountedAlways == Spec => []FailuresCounted
  <1>1. Init => CountInv
    BY RunsInit DEF Init, CountInv, ReadsAreFresh, FailuresCounted
  <1>2. CountInv => FailuresCounted
    BY DEF CountInv
  <1> QED
    BY CountStep, <1>1, <1>2, PTL DEF Spec

-----------------------------------------------------------------------------
(***************************************************************************)
(* The scheduler implements TaskLifecycle.                                 *)
(***************************************************************************)
\* Whoever is at work is the run TaskLifecycle sees.
LEMMA SeenRun ==
    /\ RunsInv => \A p \in Proc : Working(p) => AtTask = busy[p] /\ AtStage = Stage(p)
    /\ RunsInv' => \A p \in Proc :
           Working(p)' => AtTask' = busy'[p] /\ AtStage' = Stage(p)'
  BY ConstantsOK DEF RunsInv, LockInv, AtTask, AtStage, Runner

LEMMA SeenNone ==
    /\ RunsInv /\ (\A p \in Proc : ~ Working(p)) => AtTask = NoTask /\ AtStage = "none"
    /\ RunsInv' /\ (\A p \in Proc : ~ Working(p)') => AtTask' = NoTask /\ AtStage' = "none"
  BY DEF RunsInv, TypeOK, AtTask, AtStage, Runner

\* A step that leaves the rows, and whoever is at work, as they are.
LEMMA NothingSeen ==
    ASSUME RunsInv, RunsInv', UNCHANGED <<row, failures>>,
           \A q \in Proc : Working(q) \/ Working(q)'
               => pc'[q] = pc[q] /\ busy'[q] = busy[q] /\ ok'[q] = ok[q]
    PROVE  UNCHANGED <<row, failures, AtTask, AtStage>>
  <1>1. ASSUME NEW p \in Proc, Working(p) PROVE UNCHANGED <<AtTask, AtStage>>
    <2>1. Working(p)' /\ Stage(p)' = Stage(p)
      BY <1>1 DEF Working, Stage
    <2> QED
      BY <1>1, <2>1, SeenRun
  <1>2. ASSUME \A p \in Proc : ~ Working(p) PROVE UNCHANGED <<AtTask, AtStage>>
    <2>1. \A p \in Proc : ~ Working(p)'
      BY <1>2 DEF Working
    <2> QED
      BY <1>2, <2>1, SeenNone
  <1> QED
    BY <1>1, <1>2

\* A step of the run at work, after which it still is.
LEMMA RunGoesOn ==
    ASSUME RunsInv, RunsInv', NEW p \in Proc, Working(p), Working(p)',
           busy'[p] = busy[p]
    PROVE  /\ AtTask = busy[p] /\ AtTask' = busy[p]
           /\ AtStage = Stage(p) /\ AtStage' = Stage(p)'
  BY SeenRun

\* A step with which the run at work is over, its row as it is.
LEMMA RunIsOver ==
    ASSUME RunsInv, RunsInv', NEW p \in Proc, Working(p),
           \A q \in Proc : ~ Working(q)', UNCHANGED <<row, failures>>
    PROVE  Lifecycle!End
  <1>1. AtStage \in {"begun", "started", "thrown", "succeeded", "failed"}
    BY SeenRun DEF Working, AtWork, Stage
  <1> QED
    BY <1>1, SeenNone DEF Lifecycle!End

\* Each step, with what it is of TaskLifecycle's.
LEMMA LifecycleStep ==
    ASSUME CountInv, CountInv', [Next]_vars
    PROVE  [Lifecycle!Next]_<<row, failures, AtTask, AtStage>>
  <1> DEFINE Abstract == [Lifecycle!Next]_<<row, failures, AtTask, AtStage>>
  <1>0. RunsInv /\ RunsInv' /\ TypeOK /\ Assigned /\ ReadsAreFresh
    BY DEF CountInv, RunsInv
  <1> DEFINE Unseen == /\ UNCHANGED <<row, failures>>
                       /\ \A q \in Proc : Working(q) \/ Working(q)'
                            => pc'[q] = pc[q] /\ busy'[q] = busy[q] /\ ok'[q] = ok[q]
  <1>s. ASSUME Unseen PROVE Abstract
    BY <1>0, <1>s, NothingSeen
  <1>o. ASSUME NEW p \in Proc, Working(p), \A q \in Proc : ~ Working(q)',
               UNCHANGED <<row, failures>>
        PROVE  Abstract
    BY <1>0, <1>o, RunIsOver DEF Lifecycle!Next
  <1> USE DEF taskVars, runVars, tickVars
  <1>1. ASSUME NEW k \in Task, SlotArrives(k) \/ RunsOver(k) \/ SetEnabled(k)
        PROVE  Abstract
    BY <1>1, <1>s DEF SlotArrives, RunsOver, SetEnabled, Working
  <1>2. ASSUME NEW p \in Proc, NEW k \in Task, Trigger(p, k) PROVE Abstract
    BY <1>2, <1>s DEF Trigger, Working
  <1>3. ASSUME SetEntra \/ Unlock PROVE Abstract
    BY <1>3, <1>s DEF SetEntra, Unlock, Working
  <1>4. ASSUME NEW p \in Proc, TickRead(p) PROVE Abstract
    <2>1. Unseen
      BY <1>0, <1>4, TickKeeps DEF TickRead, RunsKept, Working
    <2> QED
      BY <1>s, <2>1
  <1>5. ASSUME NEW p \in Proc, Watchdog(p) PROVE Abstract
    <2>1. PICK s \in snaps[p] :
              \/ WatchdogSkips(p, s)
              \/ \E k \in Task : WatchdogFails(p, s, k) \/ WatchdogCloses(p, s, k)
      BY <1>5 DEF Watchdog
    <2>2. CASE WatchdogSkips(p, s)
      <3>1. Unseen
        BY <1>0, <2>2, TickKeeps DEF WatchdogSkips, RunsKept, Working
      <3> QED
        BY <1>s, <3>1
    <2>3. ASSUME NEW k \in Task, WatchdogCloses(p, s, k) PROVE Abstract
      <3>1. Unseen
        BY <1>0, <2>3, TickKeeps DEF WatchdogCloses, RunsKept, Working
      <3> QED
        BY <1>s, <3>1
    <2>4. ASSUME NEW k \in Task, WatchdogFails(p, s, k) PROVE Abstract
      <3>1. CASE row[k] # "running"
        BY <1>s, <2>4, <3>1 DEF WatchdogFails, Working
      <3>2. CASE row[k] = "running"
        <4>1. UNCHANGED <<AtTask, AtStage>>
          BY <2>4 DEF WatchdogFails, AtTask, AtStage, Runner, Stage, Working
        <4> QED
          BY <2>4, <3>2, <4>1 DEF WatchdogFails, Lifecycle!Next, Lifecycle!Reset
      <3> QED
        BY <3>1, <3>2
    <2> QED
      BY <2>1, <2>2, <2>3, <2>4
  <1>6. ASSUME NEW p \in Proc, TakeLock(p) PROVE Abstract
    <2>1. \A q \in Proc : ~ Working(q)
      BY <1>0, <1>6, ConstantsOK DEF TakeLock, LockFree, RunsInv, LockInv
    <2>2. Working(p)' /\ Stage(p)' = "begun" /\ busy'[p] \in Task
      BY <1>0, <1>6 DEF TakeLock, Goto, Working, AtWork, Stage, Assigned, TypeOK
    <2>3. AtStage = "none" /\ AtStage' = "begun" /\ AtTask' \in Task
      BY <1>0, <2>1, <2>2, SeenNone, SeenRun
    <2> QED
      BY <1>6, <2>3 DEF TakeLock, Lifecycle!Next, Lifecycle!Begin
  <1>7. ASSUME NEW p \in Proc, LockRefused(p) PROVE Abstract
    BY <1>0, <1>7, <1>s DEF LockRefused, Goto, Working, AtWork, TypeOK
  <1>8. ASSUME NEW p \in Proc, CheckOk(p) \/ OpenHistory(p) PROVE Abstract
    <2>1. /\ Working(p) /\ Working(p)' /\ busy'[p] = busy[p]
          /\ Stage(p)' = Stage(p) /\ UNCHANGED <<row, failures>>
      BY <1>0, <1>8 DEF CheckOk, OpenHistory, Goto, Working, AtWork, Stage, TypeOK
    <2> QED
      BY <1>0, <2>1, RunGoesOn
  <1>9. ASSUME NEW p \in Proc, MarkStarted(p) PROVE Abstract
    <2>1. /\ Working(p) /\ Working(p)' /\ busy'[p] = busy[p]
          /\ Stage(p) = "begun" /\ Stage(p)' = "started"
      BY <1>0, <1>9 DEF MarkStarted, Goto, Working, AtWork, Stage, TypeOK
    <2>2. row' = [row EXCEPT ![busy[p]] = "running"] /\ UNCHANGED failures
      BY <1>9 DEF MarkStarted
    <2>3. /\ AtTask = busy[p] /\ AtTask' = busy[p]
          /\ AtStage = "begun" /\ AtStage' = "started"
      BY <1>0, <2>1, RunGoesOn
    <2>4. Lifecycle!Start
      BY <2>2, <2>3 DEF Lifecycle!Start, Lifecycle!Moves
    <2> QED
      BY <2>4 DEF Lifecycle!Next
  <1>10. ASSUME NEW p \in Proc, RunnerEnds(p) \/ RunFails(p) PROVE Abstract
    <2>1. /\ Working(p) /\ Working(p)' /\ busy'[p] = busy[p]
          /\ UNCHANGED <<row, failures>>
      BY <1>0, <1>10 DEF RunnerEnds, RunFails, Goto, Working, AtWork, TypeOK
    <2>2. CASE RunnerEnds(p)
      <3>1. Stage(p) = "started" /\ Stage(p)' \in {"started", "thrown"}
        BY <1>0, <2>2 DEF RunnerEnds, Goto, Stage, TypeOK
      <3> QED
        BY <1>0, <2>1, <3>1, RunGoesOn
        DEF Lifecycle!Next, Lifecycle!Throw, Lifecycle!Moves
    <2>3. CASE RunFails(p)
      <3>1. Stage(p) \in {"begun", "started", "succeeded"} /\ Stage(p)' = "thrown"
        BY <1>0, <2>3 DEF RunFails, Goto, Stage, TypeOK
      <3> QED
        BY <1>0, <2>1, <3>1, RunGoesOn
        DEF Lifecycle!Next, Lifecycle!Throw, Lifecycle!Moves
    <2> QED
      BY <1>10, <2>2, <2>3
  <1>11. ASSUME NEW p \in Proc, MarkFinished(p) PROVE Abstract
    <2>1. Working(p) /\ Working(p)' /\ busy'[p] = busy[p] /\ ok'[p] = ok[p]
      BY <1>0, <1>11 DEF MarkFinished, Goto, Working, AtWork, TypeOK
    <2>2. prev[p] = failures[busy[p]]
      BY <1>0, <1>11 DEF MarkFinished, ReadsAreFresh
    <2>3. CASE ok[p]
      <3>1. Stage(p) = "started" /\ Stage(p)' = "succeeded"
        BY <1>0, <1>11, <2>1, <2>3 DEF MarkFinished, Goto, Stage, TypeOK
      <3>2. /\ row' = [row EXCEPT ![busy[p]] = "succeeded"]
            /\ failures' = [failures EXCEPT ![busy[p]] = 0]
        BY <1>11, <2>3 DEF MarkFinished, Failures
      <3>3. /\ AtTask = busy[p] /\ AtTask' = busy[p]
            /\ AtStage = "started" /\ AtStage' = "succeeded"
        BY <1>0, <2>1, <3>1, RunGoesOn
      <3>4. Lifecycle!Succeed
        BY <3>2, <3>3 DEF Lifecycle!Succeed, Lifecycle!Moves
      <3> QED
        BY <3>4 DEF Lifecycle!Next
    <2>4. CASE ~ ok[p]
      <3>1. Stage(p) = "thrown" /\ Stage(p)' = "failed"
        BY <1>0, <1>11, <2>1, <2>4 DEF MarkFinished, Goto, Stage, TypeOK
      <3>2. /\ row' = [row EXCEPT ![busy[p]] = "failed"]
            /\ failures' = [failures EXCEPT ![busy[p]] = failures[busy[p]] + 1]
        BY <1>11, <2>2, <2>4 DEF MarkFinished, Failures
      <3>3. /\ AtTask = busy[p] /\ AtTask' = busy[p]
            /\ AtStage = "thrown" /\ AtStage' = "failed"
        BY <1>0, <2>1, <3>1, RunGoesOn
      <3>4. Lifecycle!Fail
        BY <3>2, <3>3 DEF Lifecycle!Fail, Lifecycle!Moves
      <3> QED
        BY <3>4 DEF Lifecycle!Next
    <2> QED
      BY <2>3, <2>4
  <1>12. ASSUME NEW p \in Proc, CheckGone(p) \/ CloseHistory(p) \/ RecordFails(p)
         PROVE  Abstract
    <2>1. Working(p) /\ pc'[p] = "idle" /\ \A q \in Proc : q # p => pc'[q] = pc[q]
      BY <1>0, <1>12 DEF CheckGone, CloseHistory, RecordFails, Leave, Goto,
                         Working, AtWork, TypeOK
    <2>2. \A q \in Proc : ~ Working(q)'
      BY <1>0, <2>1 DEF RunsInv, LockInv, Working, AtWork
    <2> QED
      BY <1>12, <1>o, <2>1, <2>2 DEF CheckGone, CloseHistory, RecordFails
  <1>13. ASSUME NEW p \in Proc, Crash(p) PROVE Abstract
    <2>1. /\ ~ Working(p)' /\ UNCHANGED <<row, failures>>
          /\ \A q \in Proc : q # p =>
                 pc'[q] = pc[q] /\ busy'[q] = busy[q] /\ ok'[q] = ok[q]
      BY <1>0, <1>13 DEF Crash, Goto, ForgetRun, Working, AtWork, TypeOK
    <2>2. CASE Working(p)
      <3>1. \A q \in Proc : ~ Working(q)'
        BY <1>0, <2>1, <2>2 DEF RunsInv, LockInv, Working
      <3> QED
        BY <1>o, <2>1, <2>2, <3>1
    <2>3. CASE ~ Working(p)
      BY <1>s, <2>1, <2>3
    <2> QED
      BY <2>2, <2>3
  <1>14. ASSUME UNCHANGED vars PROVE Abstract
    BY <1>14, <1>s DEF vars, Working
  <1> HIDE DEF Abstract
  <1>15. ASSUME NEW p \in Proc, Run(p) PROVE Abstract
    BY <1>6, <1>7, <1>8, <1>9, <1>10, <1>11, <1>12, <1>15 DEF Run
  <1>16. Abstract
    BY <1>1, <1>2, <1>3, <1>4, <1>5, <1>10, <1>12, <1>13, <1>14, <1>15 DEF Next
  <1> QED
    BY <1>16 DEF Abstract

\* Every step is a step of one run at a time, recorded and counted by itself,
\* or of a watchdog, or nothing a reader of the rows sees.
THEOREM SchedulerImplementsLifecycle == Spec => Implements
  <1>1. Init => CountInv
    BY RunsInit DEF Init, CountInv, ReadsAreFresh, FailuresCounted
  <1>2. Init => Lifecycle!Init
    BY DEF Init, Lifecycle!Init, AtTask, AtStage, Runner
  <1> QED
    BY <1>1, <1>2, CountStep, LifecycleStep, PTL DEF Spec, Implements, Lifecycle!Spec

-----------------------------------------------------------------------------
\* A task that succeeded last has no failures counted.
SuccessClears ==
    \A k \in Task : row[k] = "succeeded" => failures[k] = 0

\* The run under way is of a task.
TasksOnly ==
    /\ DOMAIN row = Task /\ DOMAIN failures = Task
    /\ AtStage # "none" => AtTask \in Task

\* What TaskLifecycle alone gives a reader of the rows.
LEMMA LifecycleClears == Lifecycle!Spec => [](TasksOnly /\ SuccessClears)
  <1>1. Lifecycle!Init => TasksOnly /\ SuccessClears
    BY DEF Lifecycle!Init, TasksOnly, SuccessClears
  <1>2. TasksOnly /\ SuccessClears
            /\ [Lifecycle!Next]_<<row, failures, AtTask, AtStage>>
          => (TasksOnly /\ SuccessClears)'
    BY DEF Lifecycle!Next, Lifecycle!Begin, Lifecycle!Start, Lifecycle!Throw,
           Lifecycle!Succeed, Lifecycle!Fail, Lifecycle!End, Lifecycle!Reset,
           Lifecycle!Moves, TasksOnly, SuccessClears
  <1> QED
    BY <1>1, <1>2, PTL DEF Lifecycle!Spec

\* So the scheduler has it too: a row says succeeded and a count above zero
\* at no time, though markStarted, markFinished and resetStuck, of several
\* processes, each write one without the other or both.
THEOREM SuccessClearsAlways == Spec => []SuccessClears
  BY SchedulerImplementsLifecycle, LifecycleClears, PTL DEF Implements
=============================================================================
