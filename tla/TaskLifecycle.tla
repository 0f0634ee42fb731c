--------------------------- MODULE TaskLifecycle ---------------------------
(***************************************************************************)
(* What the sync scheduler promises to whoever reads a directory's task    *)
(* rows: one run at a time, each recorded by itself and counted once,      *)
(* without the processes, ticks, snapshots and lock that SyncScheduler     *)
(* needs to get there.                                                     *)
(***************************************************************************)
EXTENDS Naturals

CONSTANTS Task, NoTask

VARIABLES
    row, failures,    \* last_status and consecutive_failures of each
    task, stage       \* the run under way: its task, and how far it is

Init ==
    /\ row = [k \in Task |-> "never"] /\ failures = [k \in Task |-> 0]
    /\ task = NoTask /\ stage = "none"

Moves(from, to) == stage \in from /\ stage' = to /\ UNCHANGED task

\* A run begins when there is none, ...
Begin(k) ==
    /\ stage = "none" /\ stage' = "begun" /\ task' = k
    /\ UNCHANGED <<row, failures>>

\* ... says so in its row, ...
Start ==
    /\ Moves({"begun"}, "started")
    /\ row' = [row EXCEPT ![task] = "running"] /\ UNCHANGED failures

\* ... and throws, if it has not been recorded a failure already.
Throw ==
    /\ Moves({"begun", "started", "succeeded"}, "thrown")
    /\ UNCHANGED <<row, failures>>

\* Only a run that started succeeds, which ends its failures; ...
Succeed ==
    /\ Moves({"started"}, "succeeded")
    /\ row' = [row EXCEPT ![task] = "succeeded"]
    /\ failures' = [failures EXCEPT ![task] = 0]

\* ... a run that throws is one failure more.
Fail ==
    /\ Moves({"thrown"}, "failed")
    /\ row' = [row EXCEPT ![task] = "failed"]
    /\ failures' = [failures EXCEPT ![task] = @ + 1]

\* A run ends, recorded or not: it may have had nothing to do, or died.
End ==
    /\ stage # "none" /\ stage' = "none" /\ task' = NoTask
    /\ UNCHANGED <<row, failures>>

\* Rows that say `running` for too long are failed, and not counted.
Reset(k) ==
    /\ row[k] = "running" /\ row' = [row EXCEPT ![k] = "failed"]
    /\ UNCHANGED <<failures, task, stage>>

Next ==
    \/ Start \/ Throw \/ Succeed \/ Fail \/ End
    \/ \E k \in Task : Begin(k) \/ Reset(k)

Spec == Init /\ [][Next]_<<row, failures, task, stage>>
=============================================================================
