------------------------------ MODULE Imports ------------------------------
(***************************************************************************)
(* One row of an import, whatever runs it takes                            *)
(* (apps/api/src/services/bulkJobs/importRows.ts), and the password its    *)
(* job hands out (heldPasswords.ts, importResults.ts), beside the retry,   *)
(* the stop and the recovery of the job (bulkJobs/service.ts).  A job of   *)
(* one row is the whole story: rows share only the job's own facts.        *)
(*                                                                         *)
(* A run of the row takes up what an earlier one did: from the row, else   *)
(* from the audit log, else from an account that has the row's names.      *)
(* What's left it does in the order create, password, enable, then groups  *)
(* and manager.  Downloads take the held password at the same time.        *)
(* Every SQL statement or transaction and every call to AD is one step;    *)
(* those to the groups and the manager, which touch none of the rest, are  *)
(* one together.                                                           *)
(*                                                                         *)
(* Left out: a run that outlives its heartbeat (BulkJobs has it), an       *)
(* account that can't be read back or is deleted, the manager's own row,   *)
(* and how long a password is held: it may expire at any time, so that     *)
(* holdFromNow, which defers it, has no step.                              *)
(*                                                                         *)
(* An operator directly above another of the same parameters is that one   *)
(* with a bug seeded in it, which the run's properties must notice.        *)
(***************************************************************************)
EXTENDS Naturals, FiniteSets

CONSTANTS
    Download,         \* requests for the job's results
    Random,           \* any password nobody is shown
    Shared,           \* the one every row gets, in set mode
    NoPassword, NoProgress,
    MaxAttempts,      \* bound: runs of the row
    MaxChanges,       \* bound: renames, and names taken by someone else
    MaxFaults         \* bound: crashes, errors, lost answers

\* The generated ones: a run of the row makes at most one.
Password == {Random, Shared} \cup 1..MaxAttempts

ASSUME ConstantsOK ==
    /\ MaxAttempts \in Nat /\ MaxChanges \in Nat /\ MaxFaults \in Nat
    /\ Random # Shared /\ Random \notin Nat /\ Shared \notin Nat
    /\ NoPassword \notin Password

Step == {"create", "password", "enable"}
Account == {"ours", "theirs"}
Progress == [id : Account, completed : SUBSET Step, fallback : BOOLEAN]

ASSUME NoProgressOK == NoProgress \notin Progress

VARIABLES
    mode, enables,    \* the plan's password mode, and whether accounts are enabled
    \* bulk_jobs: status, with queued under running, and results_downloaded_at
    job, downloaded,
    \* bulk_job_rows: status, attempts and after_json
    row,
    audited,          \* completed of the job's last user.create event with a create
    \* AD: the account a run of the row made last, and one somebody else made:
    \* the steps done to it, the password a run set, whether it has the row's
    \* names, and whether it's from before the job, or made since and enabled
    \* by who made it, or made since and disabled
    account,
    made,             \* history: how many accounts the runs made
    \* history: renames, before the row's create was audited, of an account
    \* a run made, or of one made since the job that a run took or may take
    lost,
    held,             \* import_passwords: the password, unless it has expired
    \* the run: the await it is at, results_downloaded_at as it read it, its
    \* progress, the password it uses, the steps AD told it of and whether
    \* one failed, and its outcome
    pc, seen, progress, using, told, out,
    \* a download: where it is, results_downloaded_at as it read it, the
    \* password it took, and the one its CSV shows
    dl, shown,
    crossed,          \* history: downloads that a retry came in the middle of
    changes, faults

directory == <<account, made, lost>>
run == <<seen, progress, using, told, out>>
downloads == <<dl, shown, crossed>>
plan == <<mode, enables>>
kept == <<plan, job, downloaded, row, downloads, changes>>
vars == <<mode, enables, job, downloaded, row, audited, account, made, lost, held,
          pc, seen, progress, using, told, out, dl, shown, crossed, changes, faults>>

Pcs == {"off", "idle", "facts", "audit", "adopt", "find", "password", "hold",
        "write", "record", "rest", "outcome"}

NoAccount ==
    [steps |-> {}, password |-> NoPassword, named |-> FALSE, origin |-> "none"]
\* An account of the row's names that somebody else made.
Foreign(origin) ==
    [steps |-> IF origin = "enabled" THEN {"create", "enable"} ELSE {"create"},
     password |-> NoPassword, named |-> TRUE, origin |-> origin]
Nothing == [password |-> NoPassword, fallback |-> FALSE]
Untold == [completed |-> {}, failed |-> FALSE]
\* A bug: a row refused counts as one left alone.
FailedAsSkipped == [status |-> "skipped", after |-> NoProgress]
Failed == [status |-> "failed", after |-> NoProgress]

\* Set mode's one password is held from the start.  The names may be taken.
Init ==
    /\ mode \in {"random", "generate", "set"} /\ enables \in BOOLEAN
    /\ job = "running" /\ downloaded = FALSE
    /\ row = [status |-> "pending", attempts |-> 0, after |-> NoProgress]
    /\ audited = {}
    /\ \E theirs \in {NoAccount, Foreign("before")} :
          account = [id \in Account |-> IF id = "ours" THEN NoAccount ELSE theirs]
    /\ made = 0 /\ lost = 0
    /\ held = IF mode = "set" THEN Shared ELSE NoPassword
    /\ pc = "idle" /\ seen = FALSE /\ progress = NoProgress
    /\ using = Nothing /\ told = Untold /\ out = Failed
    /\ dl = [d \in Download |-> [at |-> "none", seen |-> FALSE, took |-> NoPassword]]
    /\ shown = [d \in Download |-> NoPassword] /\ crossed = {}
    /\ changes = 0 /\ faults = 0

-----------------------------------------------------------------------------
(***************************************************************************)
(* The job.                                                                *)
(***************************************************************************)
Claim ==
    /\ job = "running" /\ pc = "idle" /\ row.status = "pending"
    /\ row.attempts < MaxAttempts
    /\ row' = [row EXCEPT !.status = "running", !.attempts = @ + 1]
    /\ pc' = "facts"
    /\ UNCHANGED <<plan, job, downloaded, audited, directory, held, run,
                   downloads, changes, faults>>

\* A run ends as finished with no row left, and pauses with one or without:
\* the session ended, the process stops.
Settle ==
    /\ job = "running" /\ pc = "idle"
    /\ \/ job' = "finished" /\ row.status # "pending"
       \/ job' = "paused"
    /\ pc' = "off"
    /\ UNCHANGED <<plan, downloaded, row, audited, directory, held, run,
                   downloads, changes, faults>>

Resume ==
    /\ job = "paused" /\ pc = "off"
    /\ job' = "running" /\ pc' = "idle"
    /\ UNCHANGED <<plan, downloaded, row, audited, directory, held, run,
                   downloads, changes, faults>>

\* Downloads being answered.
Downloading == {d \in Download : dl[d].at \in {"look", "take", "csv"}}

Retry ==
    /\ job \in {"paused", "finished", "cancelled"} /\ pc = "off"
    /\ row.status \in {"failed", "partial"}
    /\ job' = "running" /\ pc' = "idle"
    /\ row' = [row EXCEPT !.status = "pending"]
    /\ crossed' = crossed \cup Downloading
    /\ UNCHANGED <<plan, downloaded, audited, directory, held, run, dl, shown,
                   changes, faults>>

\* A row in flight finishes.
Cancel ==
    /\ job \in {"running", "paused"}
    /\ job' = "cancelled"
    /\ row' = IF row.status = "pending" THEN [row EXCEPT !.status = "skipped"] ELSE row
    /\ pc' = IF pc = "idle" THEN "off" ELSE pc
    /\ UNCHANGED <<plan, downloaded, audited, directory, held, run, downloads,
                   changes, faults>>

Fault == faults < MaxFaults /\ faults' = faults + 1

\* What a run knows goes with it.
Forgets ==
    seen' = FALSE /\ progress' = NoProgress /\ using' = Nothing /\ told' = Untold
RunEnds == Forgets /\ out' = Failed

Crash ==
    /\ pc # "off" /\ Fault
    /\ pc' = "off" /\ RunEnds
    /\ UNCHANGED <<kept, audited, directory, held>>

RecoverStale ==
    /\ job = "running" /\ pc = "off"
    /\ job' = "paused"
    /\ row' = IF row.status = "running" THEN [row EXCEPT !.status = "failed"] ELSE row
    /\ UNCHANGED <<plan, downloaded, audited, directory, held, pc, run,
                   downloads, changes, faults>>
-----------------------------------------------------------------------------
(***************************************************************************)
(* A run of the row.                                                       *)
(***************************************************************************)
Planned == IF enables THEN Step ELSE Step \ {"enable"}

\* The steps a run can be told of or leave done: AD's order, none skipped.
Prefix == {{}, {"create"}, {"create", "password"}, Planned}

Had == IF progress = NoProgress THEN {} ELSE progress.completed

Found(p) == progress' = p /\ pc' = "find"

ReadFacts ==
    /\ pc = "facts"
    /\ seen' = downloaded
    /\ \/ row.after # NoProgress /\ Found(row.after)
       \/ row.after = NoProgress /\ progress' = NoProgress /\ pc' = "audit"
    /\ UNCHANGED <<kept, audited, directory, held, using, told, out, faults>>

\* A bug: the audit log isn't asked.
CreatedBeforeUnasked == {}
CreatedBefore == audited

\* What the last create event says of the account, if one says it was made.
AskAudit ==
    /\ pc = "audit"
    /\ \/ CreatedBefore # {} /\ Found([id |-> "ours", completed |-> CreatedBefore,
                                       fallback |-> FALSE])
       \/ CreatedBefore = {} /\ pc' = (IF row.attempts > 1 THEN "adopt" ELSE "password")
          /\ UNCHANGED progress
    /\ UNCHANGED <<kept, audited, directory, held, seen, using, told, out,
                   faults>>

\* A bug: an account from before the job is taken for the row's.
AdoptableAnyway(enabled, since) == ~enabled
Adoptable(enabled, since) == ~enabled /\ since

Adopts(id) ==
    /\ account[id].named
    /\ Adoptable("enable" \in account[id].steps, account[id].origin # "before")

\* The account of the planned names, made since the job and still disabled,
\* whoever made it.
Adopt ==
    /\ pc = "adopt"
    /\ \/ \E id \in Account :
            /\ Adopts(id)
            /\ Found([id |-> id, completed |-> {"create"}, fallback |-> FALSE])
       \/ /\ \A id \in Account : ~Adopts(id)
          /\ pc' = "password" /\ UNCHANGED progress
    /\ UNCHANGED <<kept, audited, directory, held, seen, using, told, out, faults>>

\* The account is found, by id if it's been renamed: the steps it is still to have.
FindCreated ==
    /\ pc = "find"
    /\ pc' = IF "password" \in Planned \ Had THEN "password"
             ELSE IF Planned \ Had # {} THEN "write" ELSE "rest"
    /\ using' = Nothing /\ told' = Untold
    /\ UNCHANGED <<kept, audited, directory, held, seen, progress, out,
                   faults>>

Use(password, fallback) == using' = [password |-> password, fallback |-> fallback]

\* The held password; failing it a random one, or in generate mode a new one.
PasswordFor ==
    /\ pc = "password"
    /\ \/ mode = "random" /\ Use(Random, FALSE) /\ pc' = "write"
       \/ mode # "random" /\ seen /\ Use(Random, TRUE) /\ pc' = "write"
       \/ /\ mode # "random" /\ ~seen /\ held # NoPassword
          /\ Use(held, FALSE) /\ pc' = "write"
       \/ /\ mode = "set" /\ ~seen /\ held = NoPassword
          /\ Use(Random, TRUE) /\ pc' = "write"
       \/ /\ mode = "generate" /\ ~seen /\ held = NoPassword
          /\ Use(row.attempts, FALSE) /\ pc' = "hold"
    /\ UNCHANGED <<kept, audited, directory, held, seen, progress, told, out,
                   faults>>

Hold ==
    /\ pc = "hold"
    /\ held' = using.password
    /\ pc' = "write"
    /\ UNCHANGED <<kept, audited, directory, run, faults>>

Taken == \E id \in Account : account[id].named

\* What a write leaves of an account that had what it had: setting a
\* password disables it until it is enabled.
SetUp(had, landed) ==
    LET new == landed \ Had IN
    [steps |-> IF new \cap {"create", "password"} # {} THEN landed
               ELSE had.steps \cup landed,
     password |-> IF "password" \in new THEN using.password
                  ELSE IF "create" \in new THEN NoPassword ELSE had.password,
     named |-> "create" \in new \/ had.named,
     origin |-> IF "create" \in new THEN "since" ELSE had.origin]

\* The account a run is about: with no progress, the one it is to make.
Its == IF progress = NoProgress THEN "ours" ELSE progress.id

\* createUser or finishUserCreate.  It stops at the first step that fails;
\* a step may be done and its answer lost.  A bind or a search that fails
\* does nothing, and names no step as failed.
Write ==
    /\ pc = "write"
    /\ \E landed, done \in Prefix, failed \in BOOLEAN :
         /\ Had \subseteq done /\ done \subseteq landed
         /\ Had = {} /\ Taken => landed = {}
         /\ told' = [completed |-> done, failed |-> failed]
         /\ done = Planned => ~failed
         /\ done # Planned /\ done # Had => failed
         /\ \/ done = landed /\ UNCHANGED faults
            \/ Cardinality(landed \ done) = 1 /\ failed /\ Fault
         /\ account' = [account EXCEPT ![Its] = SetUp(@, landed)]
         /\ made' = IF "create" \in landed \ Had THEN made + 1 ELSE made
    /\ pc' = "record"
    /\ UNCHANGED <<kept, audited, lost, held, seen, progress, using, out>>

\* A bug: every step a finish was to run counts as done.
MergedAll(had, done) == had \cup Planned
Merged(had, done) == had \cup done

Fell == using.fallback /\ "password" \in told.completed

\* The write's audit event, user.create or user.create.finish.
Record ==
    /\ pc = "record"
    /\ \/ /\ progress = NoProgress /\ "create" \in told.completed
          /\ audited' = told.completed
          /\ progress' = [id |-> "ours", completed |-> told.completed, fallback |-> Fell]
          /\ pc' = "rest" /\ UNCHANGED out
       \/ /\ progress = NoProgress /\ "create" \notin told.completed
          /\ out' = Failed /\ pc' = "outcome"
          /\ UNCHANGED <<audited, progress>>
       \/ /\ progress # NoProgress
          /\ progress' = [progress EXCEPT !.completed = Merged(@, told.completed),
                                          !.fallback = @ \/ Fell]
          /\ pc' = "rest" /\ UNCHANGED <<audited, out>>
    /\ UNCHANGED <<kept, directory, held, seen, using, told, faults>>

\* Groups and manager, all of them or not.
Rest ==
    /\ pc = "rest"
    /\ \E ok \in BOOLEAN :
         out' = [status |-> IF ok /\ ~told.failed THEN "succeeded" ELSE "partial",
                 after |-> progress]
    /\ pc' = "outcome" /\ Forgets
    /\ UNCHANGED <<kept, audited, directory, held, faults>>

RecordOutcome ==
    /\ pc = "outcome"
    /\ row' = [row EXCEPT !.status = out.status, !.after = out.after]
    /\ pc' = IF job = "running" THEN "idle" ELSE "off"
    /\ RunEnds
    /\ UNCHANGED <<plan, job, downloaded, audited, directory, held, downloads,
                   changes, faults>>

\* An error the run doesn't expect fails the row, and its progress goes.
Throws ==
    /\ pc \notin {"off", "idle", "outcome"} /\ Fault
    /\ pc' = "outcome" /\ RunEnds
    /\ UNCHANGED <<kept, audited, directory, held>>

Pauses == job' = IF job = "running" THEN "paused" ELSE job

\* No domain controller answers a read, the schema's before a create being
\* one: the row waits and the job pauses.
Unanswered ==
    /\ \/ pc \in {"adopt", "find", "rest"}
       \/ pc = "write" /\ progress = NoProgress
    /\ Fault
    /\ row' = [row EXCEPT !.status = "pending"]
    /\ Pauses /\ pc' = "off" /\ RunEnds
    /\ UNCHANGED <<plan, downloaded, audited, directory, held, downloads, changes>>

\* The row's outcome can't be recorded: the job pauses and fails the rows
\* it left in flight, unless it was stopped.
Unrecorded ==
    /\ pc = "outcome" /\ Fault
    /\ row' = IF job = "running" THEN [row EXCEPT !.status = "failed"] ELSE row
    /\ Pauses /\ pc' = "off" /\ RunEnds
    /\ UNCHANGED <<plan, downloaded, audited, directory, held, downloads, changes>>
-----------------------------------------------------------------------------
(***************************************************************************)
(* Downloads of the results.                                               *)
(***************************************************************************)
At(d, step) == dl' = [dl EXCEPT ![d].at = step]

\* The route loads the job, which must have stopped.
Ask(d) ==
    /\ dl[d].at = "none"
    /\ job \in {"finished", "cancelled"} /\ row.status # "running"
    /\ dl' = [dl EXCEPT ![d].at = "look", ![d].seen = downloaded]
    /\ UNCHANGED <<plan, job, downloaded, row, audited, directory, held, pc, run,
                   shown, crossed, changes, faults>>

\* With nothing to hand out, refused or answered without passwords.
Look(d) ==
    /\ dl[d].at = "look"
    /\ \E step \in {"take", "done"} :
         /\ step = "take" <=> mode # "random" /\ ~dl[d].seen /\ held # NoPassword
         /\ dl' = [dl EXCEPT ![d].at = step, ![d].seen = FALSE]
    /\ UNCHANGED <<plan, job, downloaded, row, audited, directory, held, pc, run,
                   shown, crossed, changes, faults>>

\* A bug: the results aren't marked.
Unmarked == FALSE
Marked == TRUE

\* One transaction: marked, and what is held deleted.
Take(d) ==
    /\ dl[d].at = "take"
    /\ \/ /\ ~downloaded
          /\ downloaded' = Marked /\ held' = NoPassword
          /\ dl' = [dl EXCEPT ![d].at = "csv", ![d].took = held]
       \/ downloaded /\ At(d, "done") /\ UNCHANGED <<downloaded, held>>
    /\ UNCHANGED <<plan, job, row, audited, directory, pc, run, shown, crossed,
                   changes, faults>>

PasswordSet == row.after # NoProgress /\ "password" \in row.after.completed

\* A bug: the CSV shows the password of a row that was never given it.
ShownAnyway == TRUE
Shows == PasswordSet

\* The CSV, with the rows as they are by now.
Csv(d) ==
    /\ dl[d].at = "csv"
    /\ At(d, "done")
    /\ shown' = IF Shows THEN [shown EXCEPT ![d] = dl[d].took] ELSE shown
    /\ UNCHANGED <<plan, job, downloaded, row, audited, directory, held, pc, run,
                   crossed, changes, faults>>

-----------------------------------------------------------------------------
(***************************************************************************)
(* Outside.                                                                *)
(***************************************************************************)
\* No query takes a password past its time, which the sweep deletes.
Expire ==
    /\ held # NoPassword
    /\ held' = NoPassword
    /\ UNCHANGED <<kept, audited, directory, pc, run, faults>>

Change == changes < MaxChanges /\ changes' = changes + 1

\* Someone renames an account that has the row's names.  Until the create is
\* audited, nothing but its names ties it to the row.
Rename(id) ==
    /\ account[id].named /\ Change
    /\ account' = [account EXCEPT ![id].named = FALSE]
    /\ lost' = IF audited = {} /\ account[id].origin = "since" THEN lost + 1
               ELSE lost
    /\ UNCHANGED <<plan, job, downloaded, row, audited, made, held, pc, run,
                   downloads, faults>>

\* Someone makes an account of those names, and enables it or doesn't.  One
\* such account there is.
TakeNames ==
    /\ ~Taken /\ account["theirs"] = NoAccount /\ Change
    /\ \E origin \in {"enabled", "since"} :
          account' = [account EXCEPT !["theirs"] = Foreign(origin)]
    /\ UNCHANGED <<plan, job, downloaded, row, audited, made, lost, held, pc, run,
                   downloads, faults>>

Runs ==
    \/ ReadFacts \/ AskAudit \/ Adopt \/ FindCreated \/ PasswordFor \/ Hold
    \/ Write \/ Record \/ Rest \/ RecordOutcome
    \/ Throws \/ Unanswered \/ Unrecorded

Downloads == \E d \in Download : Ask(d) \/ Look(d) \/ Take(d) \/ Csv(d)

Renames == \E id \in Account : Rename(id)

Next ==
    \/ Claim \/ Settle \/ Resume \/ Retry \/ Cancel \/ Crash \/ RecoverStale
    \/ Runs
    \/ Downloads
    \/ Expire
    \/ Renames \/ TakeNames

Spec == Init /\ [][Next]_vars

-----------------------------------------------------------------------------
(***************************************************************************)
(* Properties.                                                             *)
(***************************************************************************)
RowType == [status : {"pending", "running", "succeeded", "partial", "failed", "skipped"},
            attempts : 0..MaxAttempts, after : Progress \cup {NoProgress}]
AccountType == [steps : SUBSET Step, password : Password \cup {NoPassword},
                named : BOOLEAN, origin : {"none", "before", "enabled", "since"}]
UsingType == [password : Password \cup {NoPassword}, fallback : BOOLEAN]
ToldType == [completed : SUBSET Step, failed : BOOLEAN]
OutType == [status : {"succeeded", "partial", "failed"}, after : Progress \cup {NoProgress}]
DlType == [at : {"none", "look", "take", "csv", "done"}, seen : BOOLEAN,
           took : Password \cup {NoPassword}]

\* Every variable has its type (importRows.ts:116, heldPasswords.ts:42).
TypeOK ==
    /\ mode \in {"random", "generate", "set"} /\ enables \in BOOLEAN
    /\ job \in {"running", "paused", "finished", "cancelled"} /\ downloaded \in BOOLEAN
    /\ row \in RowType /\ audited \in SUBSET Step
    /\ account \in [Account -> AccountType] /\ made \in Nat /\ lost \in Nat
    /\ held \in Password \cup {NoPassword}
    /\ pc \in Pcs /\ seen \in BOOLEAN
    /\ progress \in Progress \cup {NoProgress}
    /\ using \in UsingType /\ told \in ToldType /\ out \in OutType
    /\ dl \in [Download -> DlType]
    /\ shown \in [Download -> Password \cup {NoPassword}] /\ crossed \subseteq Download
    /\ changes \in 0..MaxChanges /\ faults \in 0..MaxFaults

\* However its runs end, a row makes one account, and another one only for
\* each of lost: renamed before the create's audit event was recorded.  From
\* then on a rename leads to no second one (createdBefore, adopt,
\* importRows.ts:397-453).
CreatedOnce == made <= 1 + lost

\* "Never creates the account twice" (importRows.ts:5-6), which isn't so.
NeverTwice == made <= 1

\* The one account of somebody else's that runs set the password of was made
\* since the job and left disabled, and they do it only in place of their
\* own: each account they made had been renamed away (adoptable, adopt,
\* importRows.ts:166-187, 429-453).
ForeignUntouched ==
    account["theirs"].password # NoPassword =>
        account["theirs"].origin = "since" /\ made <= lost

\* "Anyone else's account fails the row" (importRows.ts:170), which isn't so.
OthersUntouched == account["theirs"].password = NoPassword

\* A step that the row or the create's audit event says was done has been
\* done to the account it names, and a retry may leave it out (mergeSteps,
\* remainingSteps).
ProgressTrue ==
    /\ audited \subseteq account["ours"].steps
    /\ row.after # NoProgress =>
         row.after.completed \subseteq account[row.after.id].steps

Works(d) == shown[d] \in {NoPassword, account[row.after.id].password}

\* The password a CSV shows for a row is its account's, unless the row says
\* it fell back to a random one (passwordOf, passwordFor), or a retry came
\* between the route's check and its answer: that run may have read that
\* nothing was downloaded, and set another.  Only such a download is off,
\* and one of a row that lost an account before its create was audited.
HandedWorks ==
    PasswordSet /\ ~row.after.fallback /\ lost = 0 =>
        \A d \in Download \ crossed : Works(d)

\* The same of every download, which isn't so.
AllHandedWorks ==
    PasswordSet /\ ~row.after.fallback /\ lost = 0 => \A d \in Download : Works(d)

\* Of all the downloads at once, one at most takes a password
\* (takePasswords, heldPasswords.ts:113-130).
HandedOnce ==
    \A d, e \in Download :
        dl[d].took # NoPassword /\ dl[e].took # NoPassword => d = e

\* A row that succeeded had its account steps done; one with a step failed
\* is partial (docs/security.md:69, runImportRow).
SucceededIsDone == row.status = "succeeded" => row.after.completed = Planned
=============================================================================
