---------------------------- MODULE JobLifecycle ----------------------------
(***************************************************************************)
(* What bulk jobs promise to whoever reads the two tables: how a job and   *)
(* its rows go from state to state, without the processes, runs, workers,  *)
(* tokens, heartbeats and sessions that BulkJobs needs to get there.       *)
(*                                                                         *)
(* Jobs are independent of each other, and several may move at once.       *)
(***************************************************************************)
CONSTANTS
    Job, Row,
    JobOf,            \* a row's job
    Outcomes          \* how rows can end

VARIABLES
    job, row,         \* the status of each
    givenUp           \* rows failed while they may still be written

Kept    == {"queued", "running", "paused", "finished", "cancelled"}
RowsOf(j) == {r \in Row : JobOf[r] = j}

Init ==
    /\ job = [j \in Job |-> "absent"]
    /\ row = [r \in Row |-> "pending"]
    /\ givenUp = {}

RowsStay(j)  == \A r \in RowsOf(j) : row'[r] = row[r]
NoneGivenUp(j) == \A r \in RowsOf(j) : r \in givenUp' <=> r \in givenUp

-----------------------------------------------------------------------------
\* A job starts, ends, pauses and is continued; its rows stay as they are.
Turns ==
    {<<"absent", "queued">>, <<"queued", "running">>, <<"running", "finished">>,
     <<"queued", "paused">>, <<"running", "paused">>, <<"paused", "queued">>}

Turn(j) == <<job[j], job'[j]>> \in Turns /\ RowsStay(j) /\ NoneGivenUp(j)

\* A job that can't be audited is deleted.
Drop(j) == job[j] \in Kept /\ job'[j] = "deleted" /\ RowsStay(j) /\ NoneGivenUp(j)

\* Rows not yet started are skipped; rows in flight finish.
Stop(j) ==
    /\ job[j] \in {"queued", "running", "paused"} /\ job'[j] = "cancelled"
    /\ \A r \in RowsOf(j) :
        row'[r] = IF row[r] = "pending" THEN "skipped" ELSE row[r]
    /\ NoneGivenUp(j)

\* Rows that failed, if only in part, are run again, and no others.
Retry(j) ==
    /\ job[j] \in {"paused", "finished", "cancelled"} /\ job'[j] = "queued"
    /\ \E r \in RowsOf(j) : row[r] \in {"failed", "partial"}
    /\ \A r \in RowsOf(j) :
        row'[r] = IF row[r] \in {"failed", "partial"} THEN "pending" ELSE row[r]
    /\ NoneGivenUp(j)

\* A row is started only while its job is running.
Claim(j) ==
    /\ job[j] = "running" /\ job'[j] = job[j]
    /\ \E r \in RowsOf(j) :
        /\ row[r] = "pending" /\ row'[r] = "running"
        /\ \A s \in RowsOf(j) \ {r} : row'[s] = row[s]
    /\ NoneGivenUp(j)

\* A row in flight ends or is put back, whatever its job does meanwhile; one
\* that was given up may still, but not once it has succeeded.
Record(j) ==
    /\ job'[j] = job[j]
    /\ \E r \in RowsOf(j) :
        /\ row[r] = "running" \/ (r \in givenUp /\ row[r] # "succeeded")
        /\ row'[r] \in Outcomes \cup {"pending"}
        /\ \A s \in RowsOf(j) \ {r} : row'[s] = row[s]
    /\ NoneGivenUp(j)

\* Rows in flight are failed, given up or not.
GiveUp(j) ==
    /\ job'[j] = job[j]
    /\ \A r \in RowsOf(j) :
        /\ row'[r] = row[r] \/ (row[r] = "running" /\ row'[r] = "failed")
        /\ r \in givenUp => r \in givenUp'
        /\ r \in givenUp' \ givenUp => row[r] = "running" /\ row'[r] = "failed"

Stay(j) == job'[j] = job[j] /\ RowsStay(j) /\ NoneGivenUp(j)

Next == \A j \in Job :
    \/ Turn(j) \/ Drop(j) \/ Stop(j) \/ Retry(j)
    \/ Claim(j) \/ Record(j) \/ GiveUp(j) \/ Stay(j)

Spec == Init /\ [][Next]_<<job, row, givenUp>>
=============================================================================
