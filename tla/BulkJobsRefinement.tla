------------------------- MODULE BulkJobsRefinement -------------------------
(***************************************************************************)
(* The engine implements JobLifecycle: each of its steps is a step, or a   *)
(* stutter, of the jobs and rows alone.                                    *)
(***************************************************************************)
EXTENDS BulkJobsProofs

\* A job being created has a record, and one request creates it: what makes
\* the job a failed audit deletes the job that request stored.
Announced == \A p \in Proc, j \in Job : <<p, j, "create">> \in announcing =>
    /\ status[j] \in Lifecycle!Kept
    /\ \A q \in Proc : <<q, j, "create">> \in announcing => q = p

\* No creation waits for its audit at first.
LEMMA AnnouncedInit == Init => Announced
  BY DEF Init, Announced

\* A step that announces no creation and deletes no job.
LEMMA AnnouncedKept ==
    ASSUME Announced,
           \A p \in Proc, j \in Job :
               <<p, j, "create">> \in announcing' => <<p, j, "create">> \in announcing,
           \A j \in Job : status[j] \in Lifecycle!Kept => status'[j] \in Lifecycle!Kept
    PROVE  Announced'
  BY DEF Announced, Lifecycle!Kept

\* Storing a job announces it, and nothing else does.
LEMMA AnnouncedStored ==
    ASSUME TypeOK, Announced, NEW p \in Proc, NEW j \in Job, Store(p, j)
    PROVE  Announced'
  <1> SUFFICES ASSUME NEW q \in Proc, NEW i \in Job, <<q, i, "create">> \in announcing'
               PROVE  /\ status'[i] \in Lifecycle!Kept
                      /\ \A o \in Proc : <<o, i, "create">> \in announcing' => o = q
    BY DEF Announced
  <1>1. CASE i = j
    <2>1. status'[i] = "queued"
      BY <1>1 DEF Store, TypeOK
    <2>2. \A o \in Proc : <<o, i, "create">> \notin announcing
      BY <1>1 DEF Store, Announced, Lifecycle!Kept
    <2> QED
      BY <1>1, <2>1, <2>2 DEF Store, Lifecycle!Kept
  <1>2. CASE i # j
    BY <1>2 DEF Store, TypeOK, Announced
  <1> QED
    BY <1>1, <1>2

\* Every step keeps it: a job that is announced isn't deleted but by its audit.
LEMMA AnnouncedStep == RunInv /\ Announced /\ [Next]_vars => Announced'
  <1> SUFFICES ASSUME RunInv, Announced, [Next]_vars PROVE Announced'
    OBVIOUS
  <1>t. TypeOK
    BY DEF RunInv
  <1> USE <1>t DEF TypeOK, jobVars, procVars
  <1>1. ASSUME NEW p \in Proc, NEW j \in Job, Create(p, j) \/ CreateRevert(p, j)
        PROVE  Announced'
    BY <1>1, AnnouncedStored DEF Create, CreateRevert
  <1>2. ASSUME NEW p \in Proc, NEW j \in Job, Resume(p, j) \/ Retry(p, j)
        PROVE  Announced'
    BY <1>2, AnnouncedKept DEF Resume, Retry, Continue, Lifecycle!Kept
  <1>3. ASSUME NEW p \in Proc, NEW j \in Job,
               EndElevation(p, j) \/ Announce(p, j) \/ Kick(p, j) \/ SweepRows(p, j)
               \/ \E t \in Token : StartUnbuilt(p, j, t)
        PROVE  Announced'
    BY <1>3, AnnouncedKept
    DEF EndElevation, Announce, AnnounceOk, Kick, StartNothing, StartRun,
        StartUnbuilt, SweepRows, Lifecycle!Kept
  <1>4. ASSUME NEW p \in Proc, NEW j \in Job, NEW what \in {"create", "continue"},
               AnnounceFails(p, j, what)
        PROVE  Announced'
    <2>1. CASE what = "continue"
      BY <1>4, <2>1, AnnouncedKept DEF AnnounceFails
    <2>2. CASE what = "create"
      BY <1>4, <2>2 DEF AnnounceFails, Announced
    <2> QED
      BY <2>1, <2>2
  <1>5. ASSUME NEW j \in Job, PlanRevert(j) \/ Cancel(j) \/ Lapse(j) PROVE Announced'
    BY <1>5, AnnouncedKept DEF PlanRevert, Cancel, Lapse, Lifecycle!Kept
  <1>6. ASSUME NEW p \in Proc,
               Sweep(p) \/ SweepFails(p) \/ Stop(p) \/ End(p) \/ Restart(p)
        PROVE  Announced'
    BY <1>6, AnnouncedKept
    DEF Sweep, Stale, SweepFails, Stop, End, Restart, Lifecycle!Kept
  <1>7. ASSUME NEW t \in Token, Settle(t) \/ SettleFails(t) \/ Beat(t) PROVE Announced'
    BY <1>7, AnnouncedKept
    DEF Settle, SettlePause, SettleFinish, SettleRows, SettleFails, Beat, Lifecycle!Kept
  <1>8. ASSUME NEW t \in Token, NEW w \in Worker, Work(t, w) \/ WorkerFails(t, w)
        PROVE  Announced'
    BY <1>8, AnnouncedKept
    DEF Work, WorkerFails, WorkerFrame, Check, Claim, Look, RunOutcome,
        RunUnavailable, Release, Record, Write
  <1>9. CASE UNCHANGED vars
    BY <1>9, AnnouncedKept DEF vars
  <1> QED
    BY <1>1, <1>2, <1>3, <1>4, <1>5, <1>6, <1>7, <1>8, <1>9 DEF Next

-----------------------------------------------------------------------------
\* Steps that leave the rows alone: jobs turn, are deleted, or stay.
LEMMA RowsAlone ==
    ASSUME UNCHANGED <<rowStatus, givenUp>>,
           \A j \in Job :
               \/ status'[j] = status[j]
               \/ <<status[j], status'[j]>> \in Lifecycle!Turns
               \/ status[j] \in Lifecycle!Kept /\ status'[j] = "deleted"
    PROVE  Lifecycle!Next
  BY DEF Lifecycle!Next, Lifecycle!Turn, Lifecycle!Drop, Lifecycle!Stay,
         Lifecycle!RowsStay, Lifecycle!NoneGivenUp

\* Steps that move the rows of one job.
LEMMA RowsOfOne ==
    ASSUME NEW j \in Job,
           \/ Lifecycle!Stop(j) \/ Lifecycle!Retry(j) \/ Lifecycle!Claim(j)
           \/ Lifecycle!Record(j) \/ Lifecycle!GiveUp(j),
           \A i \in Job \ {j} : status'[i] = status[i],
           \A r \in Row : JobOf[r] # j =>
               rowStatus'[r] = rowStatus[r] /\ (r \in givenUp' <=> r \in givenUp)
    PROVE  Lifecycle!Next
  <1>1. \A i \in Job \ {j} : Lifecycle!Stay(i)
    BY DEF Lifecycle!Stay, Lifecycle!RowsStay, Lifecycle!NoneGivenUp, Lifecycle!RowsOf
  <1> QED
    BY <1>1 DEF Lifecycle!Next

\* A worker writes its row only as long as that is its run's.
LEMMA WriteRecords ==
    ASSUME RunInv, RowInv, NEW t \in Token, NEW w \in Worker,
           pc[<<t, w>>] \in Busy, NEW to \in Outcomes \cup {"pending"}, Write(t, w, to)
    PROVE  Lifecycle!Next
  <1> DEFINE r == at[<<t, w>>]
  <1>1. r \in Row /\ JobOf[r] = runJob[t] /\ Holder(t, w, r)
    BY DEF RowInv, HoldersHold, Holder
  <1>2. JobOf[r] \in Job /\ UNCHANGED <<status, givenUp>>
    BY <1>1, ConstantsOK DEF Write, WorkerFrame, jobVars
  <1>3. CASE rowToken[r] = t
    <2>1. rowStatus[r] = "running" \/ (r \in givenUp /\ rowStatus[r] # "succeeded")
      BY <1>1, <1>3 DEF RowInv, HeldUntilGivenUp, NotYetRecorded
    <2>2. rowStatus' = [rowStatus EXCEPT ![r] = to]
      BY <1>3 DEF Write, Owns
    <2>3. rowStatus'[r] = to /\ \A s \in Row \ {r} : rowStatus'[s] = rowStatus[s]
      BY <1>1, <2>2 DEF RunInv, TypeOK
    <2>4. Lifecycle!Record(JobOf[r])
      BY <1>1, <1>2, <2>1, <2>3
      DEF Lifecycle!Record, Lifecycle!RowsOf, Lifecycle!NoneGivenUp
    <2> QED
      BY <1>2, <2>3, <2>4, RowsOfOne
  <1>4. CASE rowToken[r] # t
    BY <1>2, <1>4, RowsAlone DEF Write, Owns
  <1> QED
    BY <1>3, <1>4

\* Every step is one of the lifecycle: one action at a time.
LEMMA LifecycleStep ==
    ASSUME RunInv, RowInv, Announced, [Next]_vars PROVE Lifecycle!Next
  <1>t. TypeOK
    BY DEF RunInv
  <1> USE <1>t DEF jobVars, rowVars
  <1>1. ASSUME NEW p \in Proc, NEW j \in Job,
               \/ Create(p, j) \/ CreateRevert(p, j) \/ Resume(p, j)
               \/ EndElevation(p, j) \/ Announce(p, j) \/ Kick(p, j)
               \/ \E t \in Token : StartUnbuilt(p, j, t)
        PROVE  Lifecycle!Next
    BY <1>1, RowsAlone
    DEF Create, CreateRevert, Store, Resume, Continue, EndElevation, Announce,
        AnnounceOk, Kick, StartNothing, StartRun, StartUnbuilt, Lifecycle!Turns, TypeOK
  <1>2. ASSUME NEW p \in Proc, NEW j \in Job, NEW what \in {"create", "continue"},
               AnnounceFails(p, j, what)
        PROVE  Lifecycle!Next
    BY <1>2, RowsAlone DEF AnnounceFails, Announced, TypeOK
  <1>3. ASSUME NEW p \in Proc, NEW j \in Job, Retry(p, j) PROVE Lifecycle!Next
    <2>1. Lifecycle!Retry(j)
      BY <1>3 DEF Retry, Continue, Retried, RowsOf, Lifecycle!Retry,
                  Lifecycle!RowsOf, Lifecycle!NoneGivenUp, TypeOK
    <2> QED
      BY <1>3, <2>1, RowsOfOne DEF Retry, Continue, Retried, RowsOf, TypeOK
  <1>4. ASSUME NEW p \in Proc, NEW j \in Job, SweepRows(p, j) PROVE Lifecycle!Next
    <2>1. Lifecycle!GiveUp(j)
      BY <1>4 DEF SweepRows, InFlight, RowsOf, Lifecycle!GiveUp, Lifecycle!RowsOf
    <2> QED
      BY <1>4, <2>1, RowsOfOne DEF SweepRows, InFlight, RowsOf
  <1>5. ASSUME NEW j \in Job, PlanRevert(j) \/ Lapse(j) PROVE Lifecycle!Next
    BY <1>5, RowsAlone DEF PlanRevert, Lapse
  <1>6. ASSUME NEW j \in Job, Cancel(j) PROVE Lifecycle!Next
    <2>1. Lifecycle!Stop(j)
      BY <1>6 DEF Cancel, OpenJob, Lifecycle!Stop, Lifecycle!RowsOf,
                  Lifecycle!NoneGivenUp, TypeOK
    <2> QED
      BY <1>6, <2>1, RowsOfOne DEF Cancel, TypeOK
  <1>7. ASSUME NEW p \in Proc,
               Sweep(p) \/ SweepFails(p) \/ Stop(p) \/ End(p) \/ Restart(p)
        PROVE  Lifecycle!Next
    BY <1>7, RowsAlone
    DEF Sweep, Stale, SweepFails, Stop, End, Restart, Lifecycle!Turns, TypeOK
  <1>8. ASSUME NEW t \in Token, Settle(t) \/ SettleFails(t) \/ Beat(t)
        PROVE  Lifecycle!Next
    <2>1. CASE SettleRows(t)
      <3>1. runJob[t] \in Job
        BY <2>1 DEF SettleRows, RunInv, RunsAreOfJobs
      <3>2. Lifecycle!GiveUp(runJob[t])
        BY <2>1, <3>1 DEF SettleRows, InFlight, RowsOf, Lifecycle!GiveUp, Lifecycle!RowsOf
      <3> QED
        BY <2>1, <3>1, <3>2, RowsOfOne DEF SettleRows, InFlight, RowsOf
    <2>2. CASE ~ SettleRows(t)
      BY <1>8, <2>2, RowsAlone
      DEF Settle, SettlePause, SettleFinish, SettleFails, Beat, Current,
          Lifecycle!Turns, TypeOK
    <2> QED
      BY <2>1, <2>2
  <1>9. ASSUME NEW t \in Token, NEW w \in Worker, Work(t, w) \/ WorkerFails(t, w)
        PROVE  Lifecycle!Next
    <2>1. CASE Claim(t, w)
      <3>1. CASE UNCHANGED rowVars
        BY <2>1, <3>1, RowsAlone DEF Claim, WorkerFrame
      <3>2. ASSUME NEW r \in Row, Claimable(t, r),
                   rowStatus' = [rowStatus EXCEPT ![r] = "running"]
            PROVE  Lifecycle!Next
        <4>1. JobOf[r] \in Job /\ UNCHANGED <<status, givenUp>>
          BY <2>1, ConstantsOK DEF Claim, WorkerFrame
        <4>2. rowStatus'[r] = "running"
              /\ \A s \in Row \ {r} : rowStatus'[s] = rowStatus[s]
          BY <3>2 DEF TypeOK
        <4>3. Lifecycle!Claim(JobOf[r])
          BY <3>2, <4>1, <4>2
          DEF Claimable, Lifecycle!Claim, Lifecycle!RowsOf, Lifecycle!NoneGivenUp
        <4> QED
          BY <4>1, <4>2, <4>3, RowsOfOne
      <3> QED
        BY <2>1, <3>1, <3>2 DEF Claim
    <2>2. CASE Release(t, w)
      BY <2>2, WriteRecords DEF Release, At, Busy
    <2>3. CASE Record(t, w)
      <3>1. PICK o \in Outcomes : At(t, w, o) /\ Write(t, w, o)
        BY <2>3 DEF Record
      <3> QED
        BY <3>1, WriteRecords, ConstantsOK DEF At, Busy, Results
    <2>4. CASE ~ (Claim(t, w) \/ Release(t, w) \/ Record(t, w))
      BY <1>9, <2>4, RowsAlone
      DEF Work, WorkerFails, WorkerFrame, Check, Look, RunOutcome, RunUnavailable
    <2> QED
      BY <2>1, <2>2, <2>3, <2>4
  <1>10. CASE UNCHANGED vars
    BY <1>10, RowsAlone DEF vars
  <1> QED
    BY <1>1, <1>2, <1>3, <1>4, <1>5, <1>6, <1>7, <1>8, <1>9, <1>10 DEF Next

\* Whatever runs, workers, sweeps, crashes and restarts do, a job and its
\* rows only move as JobLifecycle says.
THEOREM EngineImplementsLifecycle == Spec => Implements
  <1>1. Init => Lifecycle!Init
    BY DEF Init, Lifecycle!Init
  <1>2. RunInv /\ RowInv /\ Announced /\ [Next]_vars
            => [Lifecycle!Next]_<<status, rowStatus, givenUp>>
    BY LifecycleStep
  <1> QED
    BY RunInit, RunStep, RowInit, RowStep, AnnouncedInit, AnnouncedStep, <1>1, <1>2, PTL
    DEF Spec, Implements, Lifecycle!Spec

-----------------------------------------------------------------------------
\* A row starts only while its job runs.
StartsWhileRunning ==
    [][\A r \in Row :
         rowStatus'[r] = "running" /\ rowStatus[r] # "running"
             => status[JobOf[r]] = "running"]_<<status, rowStatus, givenUp>>

\* What JobLifecycle alone gives a reader of the tables: a row that succeeded
\* stays so, and one starts only while its job runs.  So the engine has both from
\* Implements, whatever its runs, workers and late results (runRow) do.
THEOREM LifecycleKeepsRows ==
    Lifecycle!Spec => SucceededIsFinal /\ StartsWhileRunning
  <1>1. ASSUME Lifecycle!Next, NEW r \in Row
        PROVE  /\ rowStatus[r] = "succeeded" => rowStatus'[r] = "succeeded"
               /\ rowStatus'[r] = "running" /\ rowStatus[r] # "running"
                    => status[JobOf[r]] = "running"
    <2>1. JobOf[r] \in Job /\ r \in Lifecycle!RowsOf(JobOf[r])
      BY ConstantsOK DEF Lifecycle!RowsOf
    <2> QED
      BY <1>1, <2>1, ConstantsOK
      DEF Lifecycle!Next, Lifecycle!Turn, Lifecycle!Drop, Lifecycle!Stop,
          Lifecycle!Retry, Lifecycle!Claim, Lifecycle!Record, Lifecycle!GiveUp,
          Lifecycle!Stay, Lifecycle!RowsStay
  <1>2. ASSUME [Lifecycle!Next]_<<status, rowStatus, givenUp>>
        PROVE  /\ \A r \in Row : rowStatus[r] = "succeeded" => rowStatus'[r] = "succeeded"
               /\ \A r \in Row : rowStatus'[r] = "running" /\ rowStatus[r] # "running"
                                     => status[JobOf[r]] = "running"
    BY <1>1, <1>2
  <1>3. [Lifecycle!Next]_<<status, rowStatus, givenUp>>
            => [\A r \in Row : rowStatus[r] = "succeeded"
                                   => rowStatus'[r] = "succeeded"]_vars
    BY <1>2
  <1>4. [Lifecycle!Next]_<<status, rowStatus, givenUp>>
            => [\A r \in Row : rowStatus'[r] = "running" /\ rowStatus[r] # "running"
                                   => status[JobOf[r]] = "running"
               ]_<<status, rowStatus, givenUp>>
    BY <1>2
  <1> QED
    BY <1>3, <1>4, PTL DEF Lifecycle!Spec, SucceededIsFinal, StartsWhileRunning
=============================================================================
