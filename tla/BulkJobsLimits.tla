---------------------------- MODULE BulkJobsLimits ----------------------------
(***************************************************************************)
(* How far the promises hold that the engine does not keep in every case:  *)
(* what has to happen before an unaudited job runs, a stopped job keeps a  *)
(* row that waits, or a row in flight is stranded.                         *)
(***************************************************************************)
EXTENDS BulkJobsProofs

\* What happened stays counted.
Counts == calls' >= calls /\ faults' >= faults /\ lapses' >= lapses

\* No step takes a call, a fault or a lapse back.
LEMMA CountsGrow == ASSUME TypeOK, [Next]_vars PROVE Counts
  <1> USE DEF Counts, TypeOK
  <1>1. ASSUME NEW p \in Proc, NEW j \in Job,
               \/ Create(p, j) \/ CreateRevert(p, j) \/ Resume(p, j) \/ Retry(p, j)
               \/ EndElevation(p, j) \/ Announce(p, j) \/ Kick(p, j)
               \/ SweepRows(p, j)
               \/ \E what \in {"create", "continue"} : AnnounceFails(p, j, what)
               \/ \E t \in Token : StartUnbuilt(p, j, t)
        PROVE  Counts
    BY <1>1 DEF Create, CreateRevert, Store, Resume, Retry, Continue, Call, Fault,
                EndElevation, Announce, AnnounceOk, AnnounceFails, Kick, StartNothing,
                StartRun, StartUnbuilt, SweepRows
  <1>2. ASSUME NEW j \in Job, PlanRevert(j) \/ Cancel(j) \/ Lapse(j) PROVE Counts
    BY <1>2 DEF PlanRevert, Cancel, Call, Lapse
  <1>3. ASSUME NEW p \in Proc,
               Sweep(p) \/ SweepFails(p) \/ Stop(p) \/ End(p) \/ Restart(p)
        PROVE  Counts
    BY <1>3 DEF Sweep, SweepFails, Stop, End, Restart, Fault
  <1>4. ASSUME NEW t \in Token, Settle(t) \/ SettleFails(t) \/ Beat(t) PROVE Counts
    BY <1>4 DEF Settle, SettlePause, SettleFinish, SettleRows, SettleFails, Beat, Fault
  <1>5. ASSUME NEW t \in Token, NEW w \in Worker, Work(t, w) \/ WorkerFails(t, w)
        PROVE  Counts
    BY <1>5 DEF Work, WorkerFails, WorkerFrame, Check, Claim, Look, RunOutcome,
                RunUnavailable, Release, Record, Write, Fault
  <1>6. CASE UNCHANGED vars
    BY <1>6 DEF vars
  <1> HIDE DEF Counts, TypeOK
  <1> QED
    BY <1>1, <1>2, <1>3, <1>4, <1>5, <1>6 DEF Next

-----------------------------------------------------------------------------
(***************************************************************************)
(* Auditing.                                                               *)
(***************************************************************************)
\* What is said of a job nobody continued: it was audited before it was
\* kicked, so before it ran.
Uncontinued(j) == \A p \in Proc : <<p, j, "continue">> \notin announcing
Underway(j) ==
    \/ \E p \in Proc : <<p, j>> \in kicked
    \/ status[j] = "running"
    \/ \E r \in RowsOf(j) : rowStatus[r] = "running"
AuditedFirst(j) == Uncontinued(j) /\ (Underway(j) => headed[j])

\* An operator has the job queued again.
Continues(j) == \E p \in Proc : Resume(p, j) \/ Retry(p, j)

\* A job is not kicked and has no rows at first.
LEMMA AuditedInit == ASSUME Init, NEW j \in Job PROVE AuditedFirst(j)
  BY DEF Init, AuditedFirst, Uncontinued, Underway, RowsOf

\* No step but a continuation breaks it: one action at a time.
LEMMA AuditedStep ==
    ASSUME TypeOK, NEW j \in Job, AuditedFirst(j), [Next]_vars, ~ Continues(j)
    PROVE  AuditedFirst(j)'
  <1> USE DEF AuditedFirst, Uncontinued, Underway, RowsOf, TypeOK, jobVars, rowVars, procVars
  <1>1. ASSUME NEW p \in Proc, NEW i \in Job, Create(p, i) \/ CreateRevert(p, i)
        PROVE  AuditedFirst(j)'
    BY <1>1 DEF Create, CreateRevert, Store, NotYetKicked
  <1>2. ASSUME NEW p \in Proc, NEW i \in Job, Resume(p, i) \/ Retry(p, i)
        PROVE  AuditedFirst(j)'
    <2>1. i # j
      BY <1>2 DEF Continues
    <2>2. /\ announcing' = announcing \cup {<<p, i, "continue">>}
          /\ status'[j] = status[j] /\ UNCHANGED <<headed, kicked>>
          /\ \A r \in Row : rowStatus'[r] = "running" => rowStatus[r] = "running"
      BY <1>2, <2>1 DEF Resume, Retry, Continue
    <2> QED
      BY <2>1, <2>2
  <1>3. ASSUME NEW p \in Proc, NEW i \in Job,
               Announce(p, i)
        PROVE  AuditedFirst(j)'
    <2>1. PICK what \in {"create", "continue"} : AnnounceOk(p, i, what)
      BY <1>3 DEF Announce
    <2>2. CASE i = j
      <3>1. what = "create"
        BY <2>1, <2>2 DEF AnnounceOk
      <3>2. headed'[j] = TRUE
        BY <2>1, <2>2, <3>1 DEF AnnounceOk
      <3> QED
        BY <2>1, <3>2 DEF AnnounceOk
    <2>3. CASE i # j
      BY <2>1, <2>3 DEF AnnounceOk
    <2> QED
      BY <2>2, <2>3
  <1>4. ASSUME NEW p \in Proc, NEW i \in Job, NEW what \in {"create", "continue"},
               AnnounceFails(p, i, what)
        PROVE  AuditedFirst(j)'
    BY <1>4 DEF AnnounceFails
  <1>5. ASSUME NEW p \in Proc, NEW i \in Job, NEW t \in Token,
               StartRun(p, i, t) \/ StartUnbuilt(p, i, t)
        PROVE  AuditedFirst(j)'
    BY <1>5 DEF StartRun, StartUnbuilt
  <1>6. ASSUME NEW p \in Proc, NEW i \in Job,
               EndElevation(p, i) \/ StartNothing(p, i) \/ SweepRows(p, i)
        PROVE  AuditedFirst(j)'
    BY <1>6 DEF EndElevation, StartNothing, SweepRows
  <1>7. ASSUME NEW i \in Job, PlanRevert(i) \/ Cancel(i) \/ Lapse(i)
        PROVE  AuditedFirst(j)'
    BY <1>7 DEF PlanRevert, Cancel, Lapse
  <1>8. ASSUME NEW p \in Proc,
               Sweep(p) \/ SweepFails(p) \/ Stop(p) \/ End(p) \/ Restart(p)
        PROVE  AuditedFirst(j)'
    BY <1>8 DEF Sweep, SweepFails, Stop, End, Restart
  <1>9. ASSUME NEW t \in Token, Settle(t) \/ SettleFails(t) \/ Beat(t)
        PROVE  AuditedFirst(j)'
    BY <1>9 DEF Settle, SettlePause, SettleFinish, SettleRows, SettleFails, Beat
  <1>10. ASSUME NEW t \in Token, NEW w \in Worker, Work(t, w) \/ WorkerFails(t, w)
         PROVE  AuditedFirst(j)'
    <2>1. UNCHANGED <<jobVars, procVars>>
      BY <1>10 DEF Work, WorkerFails, WorkerFrame, Check, Claim, Look, RunOutcome,
                   RunUnavailable, Release, Record, Write
    <2>2. CASE Claim(t, w)
      <3>1. ASSUME NEW r \in Row, JobOf[r] = j, rowStatus[r] # "running",
                   rowStatus'[r] = "running"
            PROVE  status[j] = "running"
        BY <2>2, <3>1 DEF Claim, Claimable
      <3> QED
        BY <2>1, <3>1
    <2>3. ASSUME NEW r \in Row, ~ Claim(t, w), rowStatus'[r] = "running"
          PROVE  rowStatus[r] = "running"
      BY <1>10, <2>3, ConstantsOK
      DEF Work, WorkerFails, Check, Look, RunOutcome, RunUnavailable, Release,
          Record, Write
    <2> QED
      BY <2>1, <2>2, <2>3
  <1>11. CASE UNCHANGED vars
    BY <1>11 DEF vars
  <1> HIDE DEF AuditedFirst, TypeOK
  <1> QED
    BY <1>1, <1>2, <1>3, <1>4, <1>5, <1>6, <1>7, <1>8, <1>9, <1>10, <1>11
    DEF Next, Kick

\* A job that is never continued runs rows only once it was audited,
\* whatever crashes, stops, fails and is swept meanwhile.
THEOREM UncontinuedIsAudited ==
    ASSUME NEW j \in Job
    PROVE  Spec /\ [][~ Continues(j)]_vars
               => [](\A r \in RowsOf(j) : rowStatus[r] = "running" => headed[j])
  <1> DEFINE Ran == \A r \in RowsOf(j) : rowStatus[r] = "running" => headed[j]
  <1>1. AuditedFirst(j) => Ran
    BY DEF AuditedFirst, Underway
  <1>2. Init => AuditedFirst(j)
    BY AuditedInit
  <1>3. TypeOK /\ AuditedFirst(j) /\ [Next]_vars /\ [~ Continues(j)]_vars
            => AuditedFirst(j)'
    <2>1. CASE UNCHANGED vars
      BY <2>1 DEF vars, AuditedFirst, Uncontinued, Underway, RowsOf, jobVars,
                  rowVars, procVars
    <2> QED
      BY <2>1, AuditedStep
  <1> QED
    BY TypeInit, TypeStep, <1>1, <1>2, <1>3, PTL DEF Spec

\* So, before the first call of an operator, no unaudited job runs a row.
THEOREM AuditedUntilContinued == Spec => []AuditedUnlessContinued
  <1> DEFINE Inv == calls = 0 => \A j \in Job : AuditedFirst(j)
  <1>1. Init => Inv
    BY AuditedInit
  <1>2. TypeOK /\ Inv /\ [Next]_vars => Inv'
    <2> SUFFICES ASSUME TypeOK, Inv, [Next]_vars, calls' = 0, NEW j \in Job
                 PROVE  AuditedFirst(j)'
      OBVIOUS
    <2>1. calls = 0
      BY CountsGrow DEF Counts, TypeOK
    <2>2. ~ Continues(j)
      BY <2>1 DEF Continues, Resume, Retry, Continue, Call
    <2> QED
      BY <2>1, <2>2, AuditedStep
  <1>3. Inv => AuditedUnlessContinued
    BY ConstantsOK DEF AuditedUnlessContinued, AuditedFirst, Underway, RowsOf
  <1> QED
    BY TypeInit, TypeStep, <1>1, <1>2, <1>3, PTL DEF Spec

-----------------------------------------------------------------------------
(***************************************************************************)
(* What a stop leaves waiting.                                             *)
(***************************************************************************)
\* No job is stopped at first.
LEMMA StoppedInit == Init => StoppedTookUpAll
  BY ConstantsOK DEF Init, StoppedTookUpAll, Stopped

\* Every step keeps it: one action at a time.
LEMMA StoppedStep ==
    ASSUME RunInv, FinishInv, StoppedTookUpAll, [Next]_vars
    PROVE  StoppedTookUpAll'
  <1> SUFFICES ASSUME NEW r \in Row, status'[JobOf[r]] \in Stopped,
                      rowStatus'[r] = "pending", rowToken'[r] = NoToken
               PROVE  FALSE
    BY DEF StoppedTookUpAll
  <1> DEFINE j == JobOf[r]
  <1>t. TypeOK /\ j \in Job /\ NoToken \notin Token
    BY ConstantsOK DEF RunInv
  <1>s. status[j] \in Stopped => rowStatus[r] # "pending" \/ rowToken[r] # NoToken
    BY DEF StoppedTookUpAll
  <1> USE <1>t DEF TypeOK, Stopped, OpenJob, jobVars, rowVars
  <1>1. ASSUME NEW p \in Proc, NEW i \in Job,
               \/ Create(p, i) \/ CreateRevert(p, i) \/ Resume(p, i)
               \/ EndElevation(p, i) \/ Announce(p, i) \/ Kick(p, i)
               \/ \E what \in {"create", "continue"} : AnnounceFails(p, i, what)
               \/ \E t \in Token : StartUnbuilt(p, i, t)
        PROVE  FALSE
    BY <1>1, <1>s
    DEF Create, CreateRevert, Store, Resume, Continue, EndElevation, Announce,
        AnnounceOk, AnnounceFails, Kick, StartNothing, StartRun, StartUnbuilt
  <1>2. ASSUME NEW p \in Proc, NEW i \in Job, Retry(p, i) PROVE FALSE
    BY <1>2, <1>s DEF Retry, Retried, RowsOf, Continue
  <1>3. ASSUME NEW p \in Proc, NEW i \in Job, SweepRows(p, i) PROVE FALSE
    BY <1>3, <1>s DEF SweepRows
  <1>4. ASSUME NEW i \in Job, PlanRevert(i) \/ Lapse(i) PROVE FALSE
    BY <1>4, <1>s DEF PlanRevert, Lapse
  <1>5. ASSUME NEW i \in Job, Cancel(i) PROVE FALSE
    BY <1>5, <1>s DEF Cancel
  <1>6. ASSUME NEW p \in Proc,
               Sweep(p) \/ SweepFails(p) \/ Stop(p) \/ End(p) \/ Restart(p)
        PROVE  FALSE
    BY <1>6, <1>s DEF Sweep, Stale, SweepFails, Stop, End, Restart
  <1>7. ASSUME NEW t \in Token, SettleFinish(t) PROVE FALSE
    <2>1. CASE status[j] = "running" /\ status'[j] = "finished"
      <3>1. NoneForgotten(j) /\ r \in RowsOf(j)
        BY <2>1, FinishesWhole DEF RowsOf
      <3> QED
        BY <1>7, <3>1 DEF NoneForgotten, SettleFinish
    <2>2. CASE ~ (status[j] = "running" /\ status'[j] = "finished")
      BY <1>7, <1>s, <2>2 DEF SettleFinish, Current
    <2> QED
      BY <2>1, <2>2
  <1>8. ASSUME NEW t \in Token,
               SettlePause(t) \/ SettleRows(t) \/ SettleFails(t) \/ Beat(t)
        PROVE  FALSE
    BY <1>8, <1>s DEF SettlePause, SettleRows, SettleFails, Beat
  <1>9. ASSUME NEW t \in Token, NEW w \in Worker, Work(t, w) \/ WorkerFails(t, w)
        PROVE  FALSE
    <2>1. status' = status
      BY <1>9 DEF Work, WorkerFails, WorkerFrame, Check, Claim, Look, RunOutcome,
                  RunUnavailable, Release, Record, Write
    <2>2. CASE Claim(t, w)
      BY <1>s, <2>1, <2>2 DEF Claim
    <2>3. ASSUME NEW to, Write(t, w, to) PROVE FALSE
      BY <1>s, <2>1, <2>3 DEF Write, Owns
    <2>4. CASE UNCHANGED rowVars
      BY <1>s, <2>1, <2>4
    <2> QED
      BY <1>9, <2>2, <2>3, <2>4
      DEF Work, WorkerFails, Check, Look, RunOutcome, RunUnavailable, Release, Record
  <1>10. CASE UNCHANGED vars
    BY <1>10, <1>s DEF vars
  <1> HIDE DEF TypeOK
  <1> QED
    BY <1>1, <1>2, <1>3, <1>4, <1>5, <1>6, <1>7, <1>8, <1>9, <1>10 DEF Next, Settle

\* Neither an end nor a cancel leaves a row waiting that no run took up: a
\* row that waits in a stopped job was put back by a run that lost it.
THEOREM StoppedTookUpAllAlways == Spec => []StoppedTookUpAll
  BY RunInit, RunStep, FinishInit, FinishStep, StoppedInit, StoppedStep, PTL DEF Spec

-----------------------------------------------------------------------------
(***************************************************************************)
(* Rows in flight: who ends them.                                          *)
(***************************************************************************)
\* A worker has the row, for the run that claimed it last.
Held(r) == \E t \in Token, w \in Worker : Holder(t, w, r) /\ rowToken[r] = t

\* Nobody has called, no heartbeat was held up, and at most one thing failed;
\* and that has not cost anything yet: a process that stops still works.
Quiet    == calls = 0 /\ lapses = 0 /\ faults <= 1
Unharmed == faults = 0 \/ \E p \in Proc : proc[p] = "stopping"

\* A stop is a fault.
StopsCounted ==
    /\ \A p \in Proc : proc[p] = "stopping" => faults >= 1
    /\ \A p, q \in Proc : proc[p] = "stopping" /\ proc[q] = "stopping"
                              => p = q \/ faults >= 2

\* Rows in flight have their worker, jobs that run their run, and each run
\* holds what it works on.
Smooth ==
    /\ \A r \in Row : rowStatus[r] = "running" => Held(r) /\ token[JobOf[r]] = rowToken[r]
    /\ \A j \in Job : status[j] = "running" =>
           fresh[j] /\ \E t \in Token : runJob[t] = j /\ Beating(t)

\* The row in flight has its worker; or its run has the job and won't finish
\* it, being over or about to pause it; or the job is paused, and the run or
\* a sweep is failing its rows.
InHand(r) ==
    \/ Held(r)
    \/ \E t \in Token : /\ rowToken[r] = t /\ token[JobOf[r]] = t
                        /\ phase[t] = "over" \/ pause[t] # "none"
    \/ \E t \in Token : rowToken[r] = t /\ phase[t] = "settling" /\ runJob[t] = JobOf[r]
    \/ \E p \in Proc : JobOf[r] \in sweeping[p]

\* The inductive invariant of rows in flight, given RunInv and FinishInv.
StrandInv ==
    /\ StopsCounted
    /\ faults = 0 => \A r \in Row : rowStatus[r] = "running" => Held(r)
    /\ Quiet /\ Unharmed => Smooth
    /\ Quiet => \A r \in Row : rowStatus[r] = "running" => InHand(r)

\* No row is in flight, and no job runs, at first.
LEMMA StrandInit == Init => StrandInv
  BY DEF Init, StrandInv, StopsCounted, Smooth

\* A worker loses its row only by writing it, by failing, or with its process.
LEMMA HeldKept ==
    ASSUME RunInv, [Next]_vars, NEW r \in Row, rowStatus'[r] = "running",
           rowStatus[r] = "running" => Held(r),
           \A p \in Proc : ~ End(p),
           \A t \in Token, w \in Worker : ~ WorkerFails(t, w)
    PROVE  Held(r)'
  <1>t. TypeOK /\ WorkersWork
    BY DEF RunInv
  <1> USE <1>t DEF TypeOK, jobVars, rowVars, runVars, workVars, Held, Holder
  <1>1. ASSUME NEW p \in Proc, NEW j \in Job,
               \/ Create(p, j) \/ CreateRevert(p, j) \/ Resume(p, j) \/ Retry(p, j)
               \/ EndElevation(p, j) \/ Announce(p, j) \/ SweepRows(p, j)
               \/ StartNothing(p, j)
               \/ \E what \in {"create", "continue"} : AnnounceFails(p, j, what)
               \/ \E t \in Token : StartUnbuilt(p, j, t)
        PROVE  Held(r)'
    BY <1>1 DEF Create, CreateRevert, Store, Resume, Retry, Continue, EndElevation,
                Announce, AnnounceOk, AnnounceFails, StartNothing, StartUnbuilt,
                SweepRows
  <1>2. ASSUME NEW p \in Proc, NEW j \in Job, NEW t \in Token, StartRun(p, j, t)
        PROVE  Held(r)'
    <2>1. \A w \in Worker : pc[<<t, w>>] = "off"
      BY <1>2 DEF StartRun, WorkersWork
    <2>2. PICK u \in Token, w \in Worker : Holder(u, w, r) /\ rowToken[r] = u
      BY <1>2 DEF StartRun
    <2>3. u # t
      BY <2>1, <2>2 DEF Busy, Results
    <2>4. pc'[<<u, w>>] = pc[<<u, w>>]
      BY <1>2, <2>3 DEF StartRun, Slot
    <2> QED
      BY <1>2, <2>2, <2>4 DEF StartRun
  <1>3. ASSUME NEW j \in Job, PlanRevert(j) \/ Cancel(j) \/ Lapse(j) PROVE Held(r)'
    BY <1>3 DEF PlanRevert, Cancel, Lapse
  <1>4. ASSUME NEW p \in Proc, Sweep(p) \/ SweepFails(p) \/ Stop(p) \/ Restart(p)
        PROVE  Held(r)'
    BY <1>4 DEF Sweep, SweepFails, Stop, Restart
  <1>5. ASSUME NEW t \in Token, Settle(t) \/ SettleFails(t) \/ Beat(t) PROVE Held(r)'
    BY <1>5 DEF Settle, SettlePause, SettleFinish, SettleRows, SettleFails, Beat
  <1>6. ASSUME NEW t \in Token, NEW w \in Worker, Work(t, w) PROVE Held(r)'
    <2>s. <<t, w>> \in Slot
      BY DEF Slot
    <2>1. ASSUME NEW q \in Row, at' = [at EXCEPT ![<<t, w>>] = q], Goto(t, w, "run"),
                 rowStatus' = [rowStatus EXCEPT ![q] = "running"],
                 rowToken' = [rowToken EXCEPT ![q] = t], rowStatus[q] # "running",
                 pc[<<t, w>>] = "claim"
          PROVE  Held(r)'
      <3>1. CASE r = q
        BY <2>s, <2>1, <3>1 DEF Goto, Busy
      <3>2. CASE r # q
        <4>1. PICK u \in Token, v \in Worker : Holder(u, v, r) /\ rowToken[r] = u
          BY <2>1, <3>2
        <4>2. <<u, v>> # <<t, w>>
          BY <2>1, <4>1 DEF Busy, Results
        <4> QED
          BY <2>s, <2>1, <3>2, <4>1, <4>2 DEF Goto, Slot
      <3> QED
        BY <3>1, <3>2
    <2>2. CASE Claim(t, w)
      <3>1. CASE UNCHANGED <<rowVars, at>> /\ Goto(t, w, "look")
        BY <2>s, <2>2, <3>1 DEF Claim, At, Goto, Busy, Results, Slot
      <3> QED
        BY <2>1, <2>2, <3>1 DEF Claim, Claimable, At
    <2>3. ASSUME NEW to \in Results \cup {"pending"}, Write(t, w, to)
          PROVE  Held(r)'
      <3>1. rowStatus[r] = "running" /\ UNCHANGED rowToken
        BY <2>3 DEF Write, Results
      <3>2. PICK u \in Token, v \in Worker : Holder(u, v, r) /\ rowToken[r] = u
        BY <3>1
      <3>3. <<u, v>> # <<t, w>>
        BY <2>3, <3>2 DEF Write, Owns, Results
      <3> QED
        BY <2>s, <2>3, <3>1, <3>2, <3>3 DEF Write, Goto, Slot
    <2>4. CASE Check(t, w) \/ Look(t, w)
      <3>1. UNCHANGED <<rowVars, at>> /\ pc[<<t, w>>] \in {"check", "look"}
            /\ \E l \in PCs : Goto(t, w, l)
        BY <2>4 DEF Check, Look, At, PCs
      <3>2. PICK u \in Token, v \in Worker : Holder(u, v, r) /\ rowToken[r] = u
        BY <3>1
      <3>3. <<u, v>> # <<t, w>>
        BY <3>1, <3>2 DEF Busy, Results
      <3> QED
        BY <2>s, <3>1, <3>2, <3>3 DEF Goto, Slot
    <2>5. CASE RunOutcome(t, w) \/ RunUnavailable(t, w)
      <3>1. UNCHANGED <<rowVars, at>> /\ \E l \in Busy : Goto(t, w, l)
        BY <2>5, ConstantsOK DEF RunOutcome, RunUnavailable, Busy, Results
      <3> QED
        BY <2>s, <3>1 DEF Goto, Slot
    <2> QED
      BY <1>6, <2>2, <2>3, <2>4, <2>5, ConstantsOK DEF Work, Release, Record, Results
  <1>7. CASE UNCHANGED vars
    BY <1>7 DEF vars
  <1> HIDE DEF TypeOK, Held
  <1> QED
    BY <1>1, <1>2, <1>3, <1>4, <1>5, <1>6, <1>7 DEF Next, Kick

\* While all is smooth, rows in flight are of jobs that run, by their runs.
LEMMA SmoothRows ==
    ASSUME RunInv, Smooth, NEW r \in Row, rowStatus[r] = "running"
    PROVE  /\ JobOf[r] \in Job /\ status[JobOf[r]] = "running"
           /\ rowToken[r] \in Token /\ runJob[rowToken[r]] = JobOf[r]
           /\ phase[rowToken[r]] = "working"
           /\ \E w \in Worker : Holder(rowToken[r], w, r)
  <1>1. PICK t \in Token, w \in Worker : Holder(t, w, r) /\ rowToken[r] = t
    BY DEF Smooth, Held
  <1>2. token[JobOf[r]] = t /\ JobOf[r] \in Job /\ NoToken \notin Token
    BY <1>1, ConstantsOK DEF Smooth
  <1>3. phase[t] = "working"
    BY <1>1 DEF Holder, Busy, Results, RunInv, WorkersWork
  <1> QED
    BY <1>1, <1>2, <1>3 DEF RunInv, OneRunHolds

\* It stays smooth as long as nothing fails, though a process may stop: one
\* action at a time.
LEMMA SmoothStep ==
    ASSUME RunInv, FinishInv, Smooth, [Next]_vars,
           calls' = calls, lapses' = lapses,
           faults' = faults \/ \E p \in Proc : Stop(p),
           \A p \in Proc : ~ End(p)
    PROVE  Smooth'
  <1>t. TypeOK /\ OneRunHolds /\ NoToken \notin Token /\ calls \in Nat /\ lapses \in Nat
        /\ faults \in Nat
    BY ConstantsOK DEF RunInv, TypeOK
  <1>f. \A t \in Token, w \in Worker : ~ WorkerFails(t, w)
    BY <1>t DEF WorkerFails, Fault, Stop, WorkerFrame, procVars, Goto, TypeOK
  <1>h. \A r \in Row : rowStatus'[r] = "running" => Held(r)'
    BY <1>f, HeldKept DEF Smooth
  <1>r. \A r \in Row : rowStatus[r] = "running" =>
            /\ JobOf[r] \in Job /\ status[JobOf[r]] = "running"
            /\ token[JobOf[r]] = rowToken[r] /\ rowToken[r] \in Token
    BY SmoothRows DEF Smooth
  <1>w. ASSUME NEW r \in Row, rowStatus[r] = "running", NEW t \in Token, Settles(t)
        PROVE  rowToken[r] # t
    <2>1. \E w \in Worker : pc[<<rowToken[r], w>>] # "off"
      BY <1>w, SmoothRows DEF Holder, Busy, Results
    <2> QED
      BY <1>w, <2>1 DEF Settles
  <1>j. \A j \in Job : status[j] = "running" =>
            /\ fresh[j] /\ token[j] \in Token /\ runJob[token[j]] = j
            /\ phase[token[j]] = "working" /\ proc[runProc[token[j]]] # "down"
            /\ runProc[token[j]] \in Proc
    BY DEF Smooth, Beating, Holds, RunInv, RunsAreOfJobs
  <1> DEFINE RowsSmooth ==
        \A r \in Row : rowStatus'[r] = "running" => token'[JobOf[r]] = rowToken'[r]
  <1> DEFINE JobsSmooth ==
        \A j \in Job : status'[j] = "running" =>
            /\ fresh'[j] /\ token'[j] \in Token /\ runJob'[token'[j]] = j
            /\ phase'[token'[j]] = "working" /\ proc'[runProc'[token'[j]]] # "down"
  <1>s. RowsSmooth /\ JobsSmooth => Smooth'
    BY <1>h DEF Smooth, Beating, Holds
  <1> USE <1>t DEF TypeOK, jobVars, rowVars, runVars, workVars, procVars
  <1>1. ASSUME NEW p \in Proc, NEW j \in Job,
               \/ Create(p, j) \/ CreateRevert(p, j) \/ Resume(p, j) \/ Retry(p, j)
               \/ \E t \in Token : StartUnbuilt(p, j, t)
               \/ \E what \in {"create", "continue"} : AnnounceFails(p, j, what)
        PROVE  RowsSmooth /\ JobsSmooth
    BY <1>1, <1>r, <1>j
    DEF Create, CreateRevert, Store, Resume, Retry, Continue, Call, StartUnbuilt,
        AnnounceFails, Fault, Stop
  <1>2. ASSUME NEW p \in Proc, NEW j \in Job,
               \/ EndElevation(p, j) \/ Announce(p, j) \/ SweepRows(p, j)
               \/ StartNothing(p, j)
        PROVE  RowsSmooth /\ JobsSmooth
    BY <1>2, <1>r, <1>j DEF EndElevation, Announce, AnnounceOk, SweepRows, StartNothing
  <1>3. ASSUME NEW p \in Proc, NEW j \in Job, NEW t \in Token, StartRun(p, j, t)
        PROVE  RowsSmooth /\ JobsSmooth
    <2>1. RowsSmooth
      BY <1>3, <1>r DEF StartRun
    <2>2. proc[p] # "down"
      BY <1>3 DEF StartRun, RunInv, KickedAreAlive
    <2>3. JobsSmooth
      BY <1>3, <1>j, <2>2 DEF StartRun
    <2> QED
      BY <2>1, <2>3
  <1>4. ASSUME NEW j \in Job, PlanRevert(j) \/ Cancel(j) PROVE RowsSmooth /\ JobsSmooth
    BY <1>4, <1>r, <1>j DEF PlanRevert, Cancel, Call
  <1>5. ASSUME NEW j \in Job, Lapse(j) PROVE RowsSmooth /\ JobsSmooth
    <2>1. status[j] # "running"
      BY <1>5 DEF Lapse, Attended, Smooth
    <2> QED
      BY <1>5, <1>r, <1>j, <2>1 DEF Lapse
  <1>6. ASSUME NEW p \in Proc, Sweep(p) PROVE RowsSmooth /\ JobsSmooth
    BY <1>6, <1>r, <1>j DEF Sweep, Stale
  <1>7. ASSUME NEW p \in Proc, SweepFails(p) \/ Stop(p) \/ Restart(p)
        PROVE  RowsSmooth /\ JobsSmooth
    <2>1. \A q \in Proc : proc[q] # "down" => proc'[q] # "down"
      BY <1>7 DEF SweepFails, Stop, Restart
    <2> QED
      BY <1>7, <1>r, <1>j, <2>1 DEF SweepFails, Stop, Restart
  <1>8. ASSUME NEW t \in Token, SettlePause(t) \/ SettleFinish(t)
        PROVE  RowsSmooth /\ JobsSmooth
    <2>1. \A r \in Row : rowStatus[r] = "running" => rowToken[r] # t
      BY <1>8, <1>w DEF SettlePause, SettleFinish
    <2>2. ~ Current(t) => \A j \in Job : status[j] = "running" => token[j] # t
      BY <1>j DEF Current, Holds
    <2>3. phase[t] = "working" /\ runJob[t] \in Job
      BY <1>8 DEF SettlePause, SettleFinish, Settles, RunInv, RunsAreOfJobs
    <2>4. RowsSmooth
      BY <1>8, <1>r, <2>1, <2>3 DEF SettlePause, SettleFinish, NoRun, Current, Holds
    <2>5. JobsSmooth
      BY <1>8, <1>j, <2>2, <2>3 DEF SettlePause, SettleFinish, NoRun, Current, Holds
    <2> QED
      BY <2>4, <2>5
  <1>9. ASSUME NEW t \in Token, SettleRows(t) \/ Beat(t)
        PROVE  RowsSmooth /\ JobsSmooth
    BY <1>9, <1>r, <1>j DEF SettleRows, Beat
  <1>10. ASSUME NEW t \in Token, SettleFails(t) PROVE FALSE
    BY <1>10 DEF SettleFails, Fault, Stop
  <1>11. ASSUME NEW t \in Token, NEW w \in Worker, Work(t, w)
         PROVE  RowsSmooth /\ JobsSmooth
    <2>1. UNCHANGED <<status, token, fresh, phase, runJob, runProc, proc>>
      BY <1>11 DEF Work, WorkerFrame, Check, Claim, Look, RunOutcome,
                   RunUnavailable, Release, Record, Write
    <2>2. JobsSmooth
      BY <1>j, <2>1
    <2>3. CASE Claim(t, w)
      <3>1. \A r \in Row : rowStatus'[r] = "running" =>
              \/ rowStatus[r] = "running" /\ rowToken'[r] = rowToken[r]
              \/ JobOf[r] = runJob[t] /\ Holds(t) /\ rowToken'[r] = t
        BY <2>3 DEF Claim, Claimable
      <3> QED
        BY <1>r, <2>1, <2>2, <3>1 DEF Holds
    <2>4. ASSUME NEW to \in Results \cup {"pending"}, Write(t, w, to)
          PROVE  RowsSmooth
      BY <1>r, <2>1, <2>4 DEF Write, Results
    <2>5. CASE UNCHANGED rowVars
      BY <1>r, <2>1, <2>2, <2>5
    <2> QED
      BY <1>11, <2>2, <2>3, <2>4, <2>5, ConstantsOK
      DEF Work, Check, Look, RunOutcome, RunUnavailable, Release, Record, Results
  <1>12. CASE UNCHANGED vars
    <2>1. UNCHANGED <<status, token, fresh, phase, runJob, runProc, proc, rowVars>>
      BY <1>12 DEF vars
    <2> QED
      BY <1>s, <1>r, <1>j, <2>1
  <1> HIDE DEF TypeOK, RowsSmooth, JobsSmooth
  <1> QED
    BY <1>s, <1>f, <1>1, <1>2, <1>3, <1>4, <1>5, <1>6, <1>7, <1>8, <1>9, <1>10, <1>11, <1>12
    DEF Next, Kick, Settle

\* What the first thing that fails costs: a run whose worker failed has the
\* job pause, one whose process ended is over, and either still has the job.
LEMMA SmoothBroken ==
    ASSUME RunInv, Smooth, [Next]_vars, NEW r \in Row, rowStatus'[r] = "running"
    PROVE  InHand(r)'
  <1>t. TypeOK /\ NoToken \notin Token
    BY ConstantsOK DEF RunInv
  <1> DEFINE u == rowToken[r]
  <1>r. rowStatus[r] = "running" =>
            /\ token[JobOf[r]] = u /\ u \in Token /\ phase[u] = "working"
    BY SmoothRows DEF Smooth
  <1>1. ASSUME NEW p \in Proc, End(p) PROVE InHand(r)'
    <2>1. UNCHANGED <<rowVars, token, runProc>>
      BY <1>1 DEF End, jobVars
    <2>2. CASE runProc[u] = p
      <3>1. phase'[u] = "over"
        BY <1>t, <1>1, <1>r, <2>1, <2>2 DEF End, rowVars, TypeOK
      <3> QED
        BY <1>r, <2>1, <3>1 DEF InHand, rowVars
    <2>3. CASE runProc[u] # p
      <3>1. PICK w \in Worker : Holder(u, w, r)
        BY <2>1, SmoothRows DEF rowVars
      <3>2. Holder(u, w, r)'
        BY <1>r, <1>1, <2>1, <2>3, <3>1 DEF End, Holder, Slot, rowVars
      <3> QED
        BY <1>r, <2>1, <3>2 DEF InHand, Held, rowVars
    <2> QED
      BY <2>2, <2>3
  <1>2. ASSUME NEW t \in Token, NEW w \in Worker, WorkerFails(t, w) PROVE InHand(r)'
    <2>1. UNCHANGED <<rowVars, token>> /\ pause' = [pause EXCEPT ![t] = "interrupted"]
          /\ pc' = [pc EXCEPT ![<<t, w>>] = "off"]
          /\ at' = [at EXCEPT ![<<t, w>>] = NoRow]
      BY <1>2 DEF WorkerFails, CaughtPause, WorkerFrame, Goto, jobVars
    <2>2. CASE u = t
      <3>1. pause'[u] # "none"
        BY <1>t, <2>1, <2>2 DEF TypeOK
      <3> QED
        BY <1>r, <2>1, <3>1 DEF InHand, rowVars
    <2>3. CASE u # t
      <3>1. PICK v \in Worker : Holder(u, v, r)
        BY <2>1, SmoothRows DEF rowVars
      <3>2. Holder(u, v, r)'
        BY <1>t, <1>r, <2>1, <2>3, <3>1 DEF Holder, TypeOK, Slot, rowVars
      <3> QED
        BY <1>r, <2>1, <3>2 DEF InHand, Held, rowVars
    <2> QED
      BY <2>2, <2>3
  <1>3. CASE /\ \A p \in Proc : ~ End(p)
             /\ \A t \in Token, w \in Worker : ~ WorkerFails(t, w)
    BY <1>3, HeldKept DEF Smooth, InHand
  <1> QED
    BY <1>1, <1>2, <1>3

\* As long as nothing more goes wrong, whoever has the row in hand hands it
\* on: a run that is over to the sweep, one that pauses to its own settling.
LEMMA InHandStep ==
    ASSUME RunInv, FinishInv, [Next]_vars, NEW r \in Row,
           rowStatus'[r] = "running", rowStatus[r] = "running" => InHand(r),
           calls' = calls, faults' = faults, \A p \in Proc : ~ End(p)
    PROVE  InHand(r)'
  <1>t. TypeOK /\ OneRunHolds /\ NoToken \notin Token /\ calls \in Nat /\ faults \in Nat
    BY ConstantsOK DEF RunInv, TypeOK
  <1>f. ~ Fault /\ \A t \in Token, w \in Worker : ~ WorkerFails(t, w)
    BY <1>t DEF WorkerFails, Fault
  <1>h. CASE rowStatus[r] = "running" => Held(r)
    BY <1>f, <1>h, HeldKept DEF InHand
  <1> DEFINE j == JobOf[r]
             u == rowToken[r]
             Lost == phase[u] = "over" \/ pause[u] # "none"
             HasJob == u \in Token /\ token[j] = u /\ Lost
             Failing == u \in Token /\ phase[u] = "settling" /\ runJob[u] = j
             Swept == \E p \in Proc : j \in sweeping[p]
  <1>i. InHand(r)' <=> Held(r)' \/ HasJob' \/ Failing' \/ Swept'
    BY DEF InHand
  <1> SUFFICES ASSUME rowStatus[r] = "running", HasJob \/ Failing \/ Swept
               PROVE  HasJob' \/ Failing' \/ Swept'
    BY <1>h, <1>i DEF InHand
  <1>j. j \in Job /\ (HasJob => status[j] = "running" /\ runJob[u] = j /\ phase[u] # "unused")
    BY <1>t, ConstantsOK DEF OneRunHolds
  <1> USE <1>t DEF TypeOK, jobVars, rowVars, runVars, workVars, procVars
  <1>1. ASSUME NEW p \in Proc, NEW i \in Job,
               \/ Create(p, i) \/ CreateRevert(p, i) \/ Resume(p, i) \/ Retry(p, i)
               \/ EndElevation(p, i) \/ Announce(p, i) \/ StartNothing(p, i)
        PROVE  HasJob' \/ Failing' \/ Swept'
    BY <1>1 DEF Create, CreateRevert, Store, Resume, Retry, Continue, EndElevation,
                Announce, AnnounceOk, StartNothing
  <1>2. ASSUME NEW p \in Proc, NEW i \in Job, NEW t \in Token, StartRun(p, i, t)
        PROVE  HasJob' \/ Failing' \/ Swept'
    BY <1>j, <1>2 DEF StartRun
  <1>3. ASSUME NEW p \in Proc, NEW i \in Job, SweepRows(p, i)
        PROVE  HasJob' \/ Failing' \/ Swept'
    <2>1. i # j
      BY <1>3 DEF SweepRows, InFlight, RowsOf
    <2> QED
      BY <1>3, <2>1 DEF SweepRows
  <1>4. ASSUME NEW i \in Job, PlanRevert(i) \/ Lapse(i)
        PROVE  HasJob' \/ Failing' \/ Swept'
    BY <1>4 DEF PlanRevert, Lapse
  <1>5. ASSUME NEW p \in Proc, Sweep(p) PROVE HasJob' \/ Failing' \/ Swept'
    <2>1. CASE j \in Stale
      BY <1>j, <1>5, <2>1 DEF Sweep
    <2>2. CASE j \notin Stale
      BY <1>j, <1>5, <2>2 DEF Sweep
    <2> QED
      BY <2>1, <2>2
  <1>6. ASSUME NEW p \in Proc, Restart(p) PROVE HasJob' \/ Failing' \/ Swept'
    BY <1>6 DEF Restart
  <1>7. ASSUME NEW t \in Token, SettlePause(t) PROVE HasJob' \/ Failing' \/ Swept'
    <2>1. CASE HasJob /\ t = u
      BY <1>j, <1>7, <2>1 DEF SettlePause, Settles, Current, Holds
    <2>2. CASE HasJob /\ t # u
      BY <1>j, <1>7, <2>2 DEF SettlePause, Settles, Current, Holds, NoRun, RunInv, RunsAreOfJobs
    <2>3. CASE Failing
      BY <1>7, <2>3 DEF SettlePause, Settles
    <2>4. CASE Swept
      BY <1>7, <2>4 DEF SettlePause
    <2> QED
      BY <2>1, <2>2, <2>3, <2>4
  <1>8. ASSUME NEW t \in Token, SettleFinish(t) PROVE HasJob' \/ Failing' \/ Swept'
    <2>1. CASE HasJob
      <3>1. t # u
        BY <1>8, <2>1 DEF SettleFinish, Settles, Pause
      <3> QED
        BY <1>j, <1>8, <2>1, <3>1 DEF SettleFinish, Settles, Current, Holds, NoRun, RunInv, RunsAreOfJobs
    <2>2. CASE Failing
      BY <1>8, <2>2 DEF SettleFinish, Settles
    <2>3. CASE Swept
      BY <1>8, <2>3 DEF SettleFinish
    <2> QED
      BY <2>1, <2>2, <2>3
  <1>9. ASSUME NEW t \in Token, SettleRows(t) PROVE HasJob' \/ Failing' \/ Swept'
    <2>1. CASE Failing
      <3>1. t # u
        BY <1>9, <2>1 DEF SettleRows, InFlight, RowsOf, Owns
      <3> QED
        BY <1>9, <2>1, <3>1 DEF SettleRows
    <2>2. CASE HasJob \/ Swept
      BY <1>j, <1>9, <2>2 DEF SettleRows
    <2> QED
      BY <2>1, <2>2
  <1>10. ASSUME NEW t \in Token, Beat(t) PROVE HasJob' \/ Failing' \/ Swept'
    BY <1>10 DEF Beat
  <1>11. ASSUME NEW t \in Token, NEW w \in Worker, Work(t, w)
         PROVE  HasJob' \/ Failing' \/ Swept'
    <2>1. UNCHANGED <<status, token, phase, runJob, sweeping>>
          /\ \A v \in Token : pause[v] # "none" => pause'[v] # "none"
      BY <1>11 DEF Work, WorkerFrame, Check, Claim, Look, RunOutcome,
                   RunUnavailable, Release, Record, Write
    <2>2. rowToken'[r] = rowToken[r]
      BY <1>11 DEF Work, WorkerFrame, Check, Claim, Claimable, Look, RunOutcome,
                   RunUnavailable, Release, Record, Write
    <2> QED
      BY <2>1, <2>2
  <1>12. CASE UNCHANGED vars
    BY <1>12 DEF vars
  <1>13. ASSUME \/ \E p \in Proc, i \in Job, what \in {"create", "continue"} :
                      AnnounceFails(p, i, what)
                \/ \E p \in Proc, i \in Job, t \in Token : StartUnbuilt(p, i, t)
                \/ \E i \in Job : Cancel(i)
                \/ \E p \in Proc : SweepFails(p) \/ Stop(p)
                \/ \E t \in Token : SettleFails(t)
         PROVE  FALSE
    <2>1. ~ \E i \in Job : Cancel(i)
      BY DEF Cancel, Call
    <2>2. Fault
      BY <1>13, <2>1 DEF AnnounceFails, StartUnbuilt, SweepFails, Stop, SettleFails
    <2> QED
      BY <1>f, <2>2
  <1> HIDE DEF TypeOK, HasJob, Failing, Swept
  <1> QED
    BY <1>f, <1>1, <1>2, <1>3, <1>4, <1>5, <1>6, <1>7, <1>8, <1>9, <1>10, <1>11, <1>12, <1>13
    DEF Next, Kick, Settle

\* A process begins to stop only by a stop.
LEMMA StopsAreStops ==
    ASSUME TypeOK, [Next]_vars, NEW p \in Proc,
           proc'[p] = "stopping", proc[p] # "stopping"
    PROVE  Stop(p)
  <1> USE DEF TypeOK, procVars
  <1>1. ASSUME NEW q \in Proc, NEW j \in Job,
               \/ Create(q, j) \/ CreateRevert(q, j) \/ Resume(q, j) \/ Retry(q, j)
               \/ EndElevation(q, j) \/ Announce(q, j) \/ Kick(q, j)
               \/ SweepRows(q, j)
               \/ \E what \in {"create", "continue"} : AnnounceFails(q, j, what)
               \/ \E t \in Token : StartUnbuilt(q, j, t)
        PROVE  FALSE
    BY <1>1 DEF Create, CreateRevert, Store, Resume, Retry, Continue, EndElevation,
                Announce, AnnounceOk, AnnounceFails, Kick, StartNothing, StartRun,
                StartUnbuilt, SweepRows
  <1>2. ASSUME NEW j \in Job, PlanRevert(j) \/ Cancel(j) \/ Lapse(j) PROVE FALSE
    BY <1>2 DEF PlanRevert, Cancel, Lapse
  <1>3. ASSUME NEW q \in Proc,
               Sweep(q) \/ SweepFails(q) \/ Stop(q) \/ End(q) \/ Restart(q)
        PROVE  Stop(p)
    BY <1>3 DEF Sweep, SweepFails, Stop, End, Restart
  <1>4. ASSUME NEW t \in Token, Settle(t) \/ SettleFails(t) \/ Beat(t) PROVE FALSE
    BY <1>4 DEF Settle, SettlePause, SettleFinish, SettleRows, SettleFails, Beat
  <1>5. ASSUME NEW t \in Token, NEW w \in Worker, Work(t, w) \/ WorkerFails(t, w)
        PROVE  FALSE
    BY <1>5 DEF Work, WorkerFails, WorkerFrame, Check, Claim, Look, RunOutcome,
                RunUnavailable, Release, Record, Write
  <1>6. CASE UNCHANGED vars
    BY <1>6 DEF vars
  <1> HIDE DEF TypeOK
  <1> QED
    BY <1>1, <1>2, <1>3, <1>4, <1>5, <1>6 DEF Next

\* Every step keeps the invariant of rows in flight.
LEMMA StrandStep ==
    RunInv /\ FinishInv /\ StrandInv /\ [Next]_vars => StrandInv'
  <1> SUFFICES ASSUME RunInv, FinishInv, StrandInv, [Next]_vars PROVE StrandInv'
    OBVIOUS
  <1>t. TypeOK /\ TypeOK' /\ Counts
    BY TypeStep, CountsGrow DEF RunInv
  <1>n. /\ calls \in Nat /\ faults \in Nat /\ lapses \in Nat
        /\ calls' \in Nat /\ faults' \in Nat /\ lapses' \in Nat
        /\ calls' >= calls /\ faults' >= faults /\ lapses' >= lapses
    BY <1>t DEF TypeOK, Counts
  <1>s. StopsCounted
    BY DEF StrandInv
  <1>p. ASSUME NEW p \in Proc, proc'[p] = "stopping"
        PROVE  proc[p] = "stopping" \/ (Stop(p) /\ faults' = faults + 1)
    BY <1>t, <1>p, StopsAreStops DEF Stop, Fault
  <1>e. ASSUME NEW p \in Proc, End(p)
        PROVE  /\ faults' = faults + 1 \/ (proc[p] = "stopping" /\ faults' = faults)
               /\ faults' >= 1 /\ proc'[p] = "down"
               /\ \A q \in Proc \ {p} : proc'[q] = proc[q]
    BY <1>t, <1>n, <1>s, <1>e DEF End, Fault, StopsCounted, TypeOK
  <1>1. StopsCounted'
    <2>1. \A p \in Proc : Stop(p) => \A q \in Proc \ {p} : proc'[q] = proc[q]
      BY <1>t DEF Stop, TypeOK
    <2> QED
      BY <1>n, <1>s, <1>p, <2>1 DEF StopsCounted
  <1>2. ASSUME faults' = 0, NEW r \in Row, rowStatus'[r] = "running" PROVE Held(r)'
    <2>1. faults = 0
      BY <1>n, <1>2
    <2>2. \A t \in Token, w \in Worker : ~ WorkerFails(t, w)
      BY <1>n, <1>2 DEF WorkerFails, Fault
    <2>3. \A p \in Proc : ~ End(p)
      BY <1>e, <1>2
    <2> QED
      BY <1>2, <2>1, <2>2, <2>3, HeldKept DEF StrandInv
  <1>3. ASSUME Quiet' PROVE Quiet /\ calls' = calls /\ lapses' = lapses
    BY <1>3, <1>n DEF Quiet
  <1>4. ASSUME Quiet', Unharmed' PROVE Smooth'
    <2>1. Unharmed
      BY <1>3, <1>4, <1>n, <1>p DEF Quiet, Unharmed
    <2>2. \A p \in Proc : ~ End(p)
      <3> SUFFICES ASSUME NEW p \in Proc, End(p) PROVE FALSE
        OBVIOUS
      <3>1. PICK q \in Proc : proc'[q] = "stopping"
        BY <1>4, <1>e DEF Unharmed
      <3>2. q # p /\ proc[q] = "stopping"
        BY <3>1, <1>e
      <3> QED
        BY <1>4, <1>n, <1>s, <1>e, <3>2 DEF StopsCounted, Quiet
    <2>3. faults' = faults \/ \E p \in Proc : Stop(p)
      <3> SUFFICES ASSUME faults' # faults PROVE \E p \in Proc : Stop(p)
        OBVIOUS
      <3>1. faults = 0 /\ faults' = 1
        BY <1>4, <1>n DEF Quiet
      <3>2. PICK p \in Proc : proc'[p] = "stopping"
        BY <1>4, <3>1 DEF Unharmed
      <3> QED
        BY <1>n, <1>s, <1>p, <3>1, <3>2 DEF StopsCounted
    <2> QED
      BY <1>3, <1>4, <2>1, <2>2, <2>3, SmoothStep DEF StrandInv
  <1>5. ASSUME Quiet', NEW r \in Row, rowStatus'[r] = "running" PROVE InHand(r)'
    <2>1. CASE Unharmed
      BY <1>3, <1>5, <2>1, SmoothBroken DEF StrandInv
    <2>2. CASE ~ Unharmed
      <3>1. faults = 1 /\ faults' = faults
        BY <1>5, <1>n, <2>2 DEF Unharmed, Quiet
      <3>2. \A p \in Proc : ~ End(p)
        BY <1>e, <1>n, <2>2, <3>1 DEF Unharmed
      <3>3. rowStatus[r] = "running" => InHand(r)
        BY <1>3, <1>5 DEF StrandInv
      <3> QED
        BY <1>3, <1>5, <3>1, <3>2, <3>3, InHandStep
    <2> QED
      BY <2>1, <2>2
  <1> QED
    BY <1>1, <1>2, <1>4, <1>5 DEF StrandInv

\* One crash, stop, failed statement, late heartbeat or call strands no row in
\* flight: its worker, its run or a sweep still ends it.
THEOREM OneFaultStrandsNoRow == Spec => []OneFaultStrandsNone
  <1>1. RunInv /\ StrandInv => OneFaultStrandsNone
    <2> SUFFICES ASSUME RunInv, StrandInv, calls + faults + lapses <= 1,
                        NEW r \in Row, rowStatus[r] = "running"
                 PROVE  Tended(r)
      BY DEF OneFaultStrandsNone
    <2>1. Held(r) => Tended(r)
      BY DEF Held, Holder, Tended, Writing, Busy, Results, RunInv, WorkersWork
    <2>2. InHand(r) => Tended(r)
      BY <2>1, ConstantsOK DEF InHand, Tended, RunInv, OneRunHolds
    <2>3. faults = 0 \/ Quiet
      BY DEF RunInv, TypeOK, Quiet
    <2> QED
      BY <2>1, <2>2, <2>3 DEF StrandInv
  <1> QED
    BY RunInit, RunStep, FinishInit, FinishStep, StrandInit, StrandStep, <1>1, PTL DEF Spec
=============================================================================
