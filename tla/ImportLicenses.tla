--------------------------- MODULE ImportLicenses ---------------------------
(***************************************************************************)
(* The license check of one row of an import                               *)
(* (apps/api/src/services/importLicenses/service.ts and rules.ts, with     *)
(* services/sweepTimer.ts), in any number of API processes: whether the    *)
(* person has each license their groups grant, once Entra has them.        *)
(* Checks share nothing but Graph's throttling, so one is the whole story. *)
(*                                                                         *)
(* A sweep stops the check if it is overdue, claims it when it is due,     *)
(* finds the person in Entra, reads what is assigned, and records it if    *)
(* its claim still stands.  Every SQL statement and every call to Graph is *)
(* one step.  A run's token is the sweep itself.  Graph may answer         *)
(* anything, always.                                                       *)
(*                                                                         *)
(* Left out: the messages and error codes but one, licenses' errors (one   *)
(* with an error is listed), groups that grant several licenses.  Each     *)
(* group here grants one.                                                  *)
(*                                                                         *)
(* An operator directly above another of the same parameters is that one   *)
(* with a bug seeded in it, which the run's properties must notice.        *)
(***************************************************************************)
EXTENDS Naturals, FiniteSets

CONSTANTS
    Sweeper,          \* the sweep of each process
    Group,            \* the row's groups that grant a license
    NoRun,
    MaxCalls,         \* bound: retries of the row and changes made outside
    MaxFaults         \* bound: statements that fail, processes that die, and
                      \* leases that end under a run still at work

ASSUME ConstantsOK ==
    /\ NoRun \notin Sweeper /\ Group # {}
    /\ MaxCalls \in Nat /\ MaxFaults \in Nat

VARIABLES
    \* bulk_job_rows: status, and the groups after_json says were joined
    row, joined,
    \* import_license_checks: status, claim_token, next_attempt_at <= now(),
    \* whether started_at and synced_at are set, entra_user_id, the groups in
    \* licenses and those of them listed, and whether it stopped for no group
    check,
    \* a day from started_at, or else from the row's end or the job's, and
    \* two hours from synced_at, have passed
    syncOver, settleOver,
    on,               \* the feature is on for the directory
    \* Entra: the person (0: none), the ids given out, the groups whose
    \* license it lists, and history: those it ever listed
    entra, ids, granted, ever,
    \* a sweep: the await it is at, whether it read the feature as on, the
    \* check as it loaded it and what Entra listed, what came of its look
    pc, seen, answer,
    late,             \* sweeps whose time is up before the retry they recorded
    calls, faults

rowVars   == <<row, joined>>
timeVars  == <<syncOver, settleOver>>
entraVars == <<entra, ids, granted, ever>>
runVars   == <<pc, seen, answer>>
bounds    == <<calls, faults>>
vars == <<rowVars, check, timeVars, on, entraVars, runVars, late,
          bounds>>

Check == [status : {"waiting", "settled", "stopped"}, claim : Sweeper \cup {NoRun},
          due : BOOLEAN, started : BOOLEAN, synced : BOOLEAN, user : Nat,
          looked : SUBSET Group, listed : SUBSET Group, unjoined : BOOLEAN]
Seen == [on : BOOLEAN, groups : SUBSET Group, user : Nat, found : Nat,
         synced : BOOLEAN, listed : SUBSET Group]
Answer == {"none", "unjoined", "wait", "gone", "read"}
\* At work on a check it has claimed.
Working == {"load", "find", "read", "record"}
Steps   == {"idle", "select", "stop", "claim"} \cup Working

TypeOK ==
    /\ row \in {"open", "succeeded", "partial", "failed"} /\ joined \subseteq Group
    /\ check \in Check
    /\ check.status # "waiting" => check.claim = NoRun
    /\ syncOver \in BOOLEAN /\ settleOver \in BOOLEAN /\ on \in BOOLEAN
    /\ entra \in Nat /\ ids \in Nat /\ granted \subseteq Group /\ ever \subseteq Group
    /\ pc \in [Sweeper -> Steps] /\ seen \in [Sweeper -> Seen]
    /\ answer \in [Sweeper -> Answer]
    /\ late \subseteq Sweeper
    /\ calls \in Nat /\ faults \in Nat

NothingSeen == [on |-> FALSE, groups |-> {}, user |-> 0, found |-> 0,
                synced |-> FALSE, listed |-> {}]

\* storeLicenseChecks, in the transaction that stores the job.
Init ==
    /\ row = "open" /\ joined = {}
    /\ check = [status |-> "waiting", claim |-> NoRun, due |-> TRUE,
                started |-> FALSE, synced |-> FALSE, user |-> 0,
                looked |-> {}, listed |-> {}, unjoined |-> FALSE]
    /\ syncOver = FALSE /\ settleOver = FALSE /\ on = TRUE
    /\ entra = 0 /\ ids = 0 /\ granted = {} /\ ever = {}
    /\ pc = [s \in Sweeper |-> "idle"] /\ seen = [s \in Sweeper |-> NothingSeen]
    /\ answer = [s \in Sweeper |-> "none"]
    /\ late = {}
    /\ calls = 0 /\ faults = 0

Fault == faults < MaxFaults /\ faults' = faults + 1
Call  == calls < MaxCalls /\ calls' = calls + 1

-----------------------------------------------------------------------------
(***************************************************************************)
(* The import, Entra and time.                                             *)
(***************************************************************************)
\* A run of the row ends; a failed one may lose what the row had joined.
\* Until the check starts, its day counts from there.
RowEnds ==
    /\ row = "open"
    /\ \/ row' = "succeeded" /\ joined' = Group
       \/ row' = "partial" /\ joined' \in {g \in SUBSET Group : joined \subseteq g}
       \/ row' = "failed" /\ joined' \in {joined, {}}
    /\ syncOver' = (syncOver /\ check.started)
    /\ UNCHANGED <<check, settleOver, on, entraVars, runVars, late,
                   bounds>>

RowRetried ==
    /\ row \in {"partial", "failed"} /\ Call /\ row' = "open"
    /\ UNCHANGED <<joined, check, timeVars, on, entraVars, runVars, late, faults>>

\* Connect Sync brings the person.
Syncs ==
    /\ entra = 0 /\ entra' = ids + 1 /\ ids' = ids + 1
    /\ UNCHANGED <<rowVars, check, timeVars, on, granted, ever, runVars,
                   late, bounds>>

\* Entra lists a group's license on the person, assigned or with its error,
\* whoever put them in the group.
Lists(g) ==
    /\ entra # 0 /\ g \notin granted
    /\ granted' = granted \cup {g} /\ ever' = ever \cup {g}
    /\ UNCHANGED <<rowVars, check, timeVars, on, entra, ids, runVars, late, bounds>>

PersonGoes ==
    /\ entra # 0 /\ Call /\ entra' = 0 /\ granted' = {}
    /\ UNCHANGED <<rowVars, check, timeVars, on, ids, ever, runVars, late, faults>>

SetFeature ==
    /\ Call /\ on' = ~on
    /\ UNCHANGED <<rowVars, check, timeVars, entraVars, runVars, late, faults>>

SyncWindowEnds ==
    /\ ~syncOver /\ syncOver' = TRUE
    /\ UNCHANGED <<rowVars, check, settleOver, on, entraVars, runVars,
                   late, bounds>>

SettleWindowEnds ==
    /\ check.synced /\ ~settleOver /\ settleOver' = TRUE
    /\ UNCHANGED <<rowVars, check, syncOver, on, entraVars, runVars, late, bounds>>

\* A retry's wait is over, or a lease ends, under its run or after it.
DueComes ==
    /\ check.status = "waiting" /\ ~check.due
    /\ check' = [check EXCEPT !.due = TRUE]
    /\ IF check.claim # NoRun /\ pc[check.claim] \in Working
       THEN Fault
       ELSE UNCHANGED faults
    /\ UNCHANGED <<rowVars, timeVars, on, entraVars, runVars, late, calls>>

-----------------------------------------------------------------------------
(***************************************************************************)
(* A sweep: stopOverdue, claimDue.                                         *)
(***************************************************************************)
Goto(s, step) == pc' = [pc EXCEPT ![s] = step]
Finish(s) ==
    /\ Goto(s, "idle")
    /\ seen' = [seen EXCEPT ![s] = NothingSeen]
    /\ answer' = [answer EXCEPT ![s] = "none"]

SweepBegins(s) ==
    /\ pc[s] = "idle" /\ Goto(s, "select")
    /\ seen' = [seen EXCEPT ![s].on = on]
    /\ late' = late \ {s}
    /\ UNCHANGED <<rowVars, check, timeVars, on, entraVars, answer, bounds>>

\* Not claimed now: one whose lease has ended isn't.
Unclaimed == check.claim = NoRun \/ check.due
\* The query's deadline, and stopOf's.
DeadlineOfSync == syncOver /\ ~check.synced
Deadline == IF check.synced THEN settleOver ELSE syncOver
Overdue(s) == /\ check.status = "waiting" /\ Unclaimed
              /\ ~seen[s].on \/ Deadline

SelectOverdue(s) ==
    /\ pc[s] = "select" /\ Goto(s, IF Overdue(s) THEN "stop" ELSE "claim")
    /\ UNCHANGED <<rowVars, check, timeVars, on, entraVars, seen, answer,
                   late, bounds>>

StoppedClaimed(c) == [c EXCEPT !.status = "stopped"]
Stopped(c) == [c EXCEPT !.status = "stopped", !.claim = NoRun]
StopOverdue(s) ==
    /\ pc[s] = "stop" /\ Goto(s, "claim")
    /\ check' = IF check.status = "waiting" /\ Unclaimed THEN Stopped(check)
                ELSE check
    /\ UNCHANGED <<rowVars, timeVars, on, entraVars, seen, answer, late, bounds>>

\* Due, with its account made.
Claimable(s) ==
    /\ seen[s].on /\ check.status = "waiting" /\ check.due
    /\ row \in {"succeeded", "partial"}

\* The sweep ends with nothing to claim, or when its time is up, or because
\* Graph asked, about another check, not to be asked.
ClaimDue(s) ==
    /\ pc[s] = "claim"
    /\ \/ /\ Claimable(s) /\ s \notin late
          /\ check' = [check EXCEPT !.claim = s, !.due = FALSE, !.started = TRUE]
          /\ Goto(s, "load") /\ UNCHANGED <<seen, answer>>
       \/ Finish(s) /\ UNCHANGED check
    /\ UNCHANGED <<rowVars, timeVars, on, entraVars, late, bounds>>

-----------------------------------------------------------------------------
(***************************************************************************)
(* check: one look at a claimed check.                                     *)
(***************************************************************************)
Answers(s, a) == answer' = [answer EXCEPT ![s] = a] /\ Goto(s, "record")

\* Only groups the row joined can grant anything.
SomeJoinedAlways == TRUE
SomeJoined == joined # {}
Load(s) ==
    /\ pc[s] = "load"
    /\ seen' = [seen EXCEPT ![s].groups = joined, ![s].user = check.user,
                            ![s].found = check.user, ![s].synced = check.synced]
    /\ IF SomeJoined
       THEN Goto(s, IF check.user = 0 THEN "find" ELSE "read") /\ UNCHANGED answer
       ELSE Answers(s, "unjoined")
    /\ UNCHANGED <<rowVars, check, timeVars, on, entraVars, late, bounds>>

\* There are no credentials for Graph, or it or AD refuses or doesn't answer.
Refused(s) == Answers(s, "wait")

Find(s) ==
    /\ pc[s] = "find"
    /\ \/ /\ entra # 0 /\ Goto(s, "read")
          /\ seen' = [seen EXCEPT ![s].found = entra]
          /\ UNCHANGED answer
       \/ entra = 0 /\ Answers(s, "wait") /\ UNCHANGED seen
       \/ Refused(s) /\ UNCHANGED seen
    /\ UNCHANGED <<rowVars, check, timeVars, on, entraVars, late, bounds>>

\* What is listed of the person; one the check knew may be gone since.
Read(s) ==
    /\ pc[s] = "read"
    /\ \/ /\ entra = seen[s].found /\ Answers(s, "read")
          /\ seen' = [seen EXCEPT ![s].listed = granted \cap seen[s].groups]
       \/ /\ entra # seen[s].found /\ UNCHANGED seen
          /\ Answers(s, IF seen[s].user # 0 THEN "gone" ELSE "wait")
       \/ Refused(s) /\ UNCHANGED seen
    /\ UNCHANGED <<rowVars, check, timeVars, on, entraVars, late, bounds>>

Settles(s) == seen[s].groups = seen[s].listed

\* What record or update writes.
Recorded(s) ==
    CASE answer[s] = "unjoined" ->
           [check EXCEPT !.status = "stopped", !.due = TRUE, !.unjoined = TRUE]
      [] answer[s] = "wait" -> [check EXCEPT !.due = FALSE]
      [] answer[s] = "gone" -> [check EXCEPT !.user = 0, !.due = TRUE]
      [] answer[s] = "read" ->
           [check EXCEPT !.status = IF Settles(s) THEN "settled" ELSE "waiting",
                         !.due = Settles(s), !.synced = TRUE,
                         !.user = seen[s].found,
                         !.looked = seen[s].groups, !.listed = seen[s].listed]
      [] OTHER -> check

\* update: only while the claim is this run's, letting it go.
HoldsAnyway(s) == TRUE
Holds(s) == check.claim = s

\* The window to settle counts from the first look that found the person.
WindowRestarts(s) == answer[s] = "read"
WindowStarts(s) == answer[s] = "read" /\ ~seen[s].synced

\* A retry is due half a minute or more from its look's start.  The sweep that
\* looked has 25 seconds from stopOverdue's end to claim in: it won't claim
\* the check again.  Another may, the look having taken over five seconds.
Record(s) ==
    /\ pc[s] = "record"
    /\ IF Holds(s)
       THEN /\ check' = [Recorded(s) EXCEPT !.claim = NoRun]
            /\ settleOver' = (settleOver /\ ~WindowStarts(s))
            /\ late' = IF Recorded(s).due THEN late ELSE late \cup {s}
       ELSE UNCHANGED <<check, settleOver, late>>
    /\ \/ Finish(s)
       \/ /\ Goto(s, "claim") /\ answer' = [answer EXCEPT ![s] = "none"]
          /\ seen' = [seen EXCEPT ![s] = [NothingSeen EXCEPT !.on = seen[s].on]]
    /\ UNCHANGED <<rowVars, syncOver, on, entraVars, bounds>>

\* A statement or graph.build throws, or the process dies: the claim is left.
Throws(s) ==
    /\ pc[s] # "idle" /\ Fault /\ Finish(s)
    /\ UNCHANGED <<rowVars, check, timeVars, on, entraVars, late, calls>>

-----------------------------------------------------------------------------
Sweep(s) == SweepBegins(s) \/ SelectOverdue(s) \/ StopOverdue(s) \/ ClaimDue(s)
            \/ Load(s) \/ Find(s) \/ Read(s) \/ Record(s)
Windows == SyncWindowEnds \/ SettleWindowEnds
World == RowEnds \/ RowRetried \/ Syncs \/ PersonGoes \/ SetFeature
         \/ \E g \in Group : Lists(g)

Next ==
    \/ World \/ Windows \/ DueComes
    \/ \E s \in Sweeper : Sweep(s) \/ Throws(s)

Spec == Init /\ [][Next]_vars

\* Time passes, timers tick and awaits return; neither the import nor Entra
\* has to do anything.
Fairness ==
    /\ WF_vars(SyncWindowEnds) /\ WF_vars(SettleWindowEnds) /\ WF_vars(DueComes)
    /\ \A s \in Sweeper : WF_vars(Sweep(s))
FairSpec == Spec /\ Fairness

-----------------------------------------------------------------------------
(***************************************************************************)
(* Properties.                                                             *)
(***************************************************************************)
\* A check that has settled or stopped has for good: neither a run whose
\* lease ended nor another process's sweep changes it, or what it shows.
EndedForGood == [][check.status # "waiting" => check' = check]_vars

\* Whatever sweeps, leases, retries and faults do, the check only goes the
\* way CheckLifecycle says: of all the looks under way, in however many
\* processes, the one whose claim stands counts, once; what it records was so
\* after that claim, and nothing is recorded of a check that has ended.
Looker  == check.claim # NoRun /\ pc[check.claim] \in Working
Look(s) ==
    CASE pc[s] = "load" -> "begun"
      [] pc[s] \in {"find", "read"} -> "aimed"
      [] pc[s] = "record" /\ answer[s] = "unjoined" -> "unjoined"
      [] pc[s] = "record" /\ answer[s] = "read" -> "seen"
      [] OTHER -> "nothing"
AtLook   == IF Looker THEN Look(check.claim) ELSE "none"
AtGroups == IF AtLook \in {"aimed", "seen", "nothing"}
            THEN seen[check.claim].groups ELSE {}
AtSees   == IF AtLook = "seen" THEN seen[check.claim].listed ELSE {}
Lifecycle == INSTANCE CheckLifecycle
    WITH status <- check.status, looked <- check.looked, listed <- check.listed,
         look <- AtLook, groups <- AtGroups, sees <- AtSees,
         leased <- Looker /\ ~check.due
Implements == Lifecycle!Spec

\* A settled check had licenses to look for, and Entra did list each of them
\* on the person, whatever became of the runs that looked.
SettledIsTrue ==
    check.status = "settled" =>
        check.looked # {} /\ check.looked \subseteq check.listed \cap ever

\* A sweep is past its look for overdue checks, or between two looks, while
\* another's look holds this check.
Passed == Looker /\ \E s \in Sweeper \ {check.claim} : pc[s] = "claim"

\* Whatever Graph answers or the import does, the check ends by its deadline
\* (stopOverdue, service.ts:172-230), unless sweeps of two processes pass each
\* other by for ever.
ChecksEnd == <>(check.status # "waiting") \/ []<>Passed

\* "Every waiting check has a deadline each sweep enforces, whatever Graph
\* answers" (service.ts:15-16), in however many processes, which isn't so.
AllChecksEnd == <>(check.status # "waiting")

\* "A row's run has finished, so one that joined none never will"
\* (service.ts:314): an ended check knows of every group the row joins.  Not
\* so: a partial row is retried, and joins its groups then (README).
NoneJoinedLater ==
    check.status = "settled" \/ check.unjoined => joined \subseteq check.looked
=============================================================================
