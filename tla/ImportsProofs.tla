--------------------------- MODULE ImportsProofs ---------------------------
(***************************************************************************)
(* Proofs about a row of an import and its password, for any number of     *)
(* runs, downloads, faults and changes in the directory.                   *)
(***************************************************************************)
EXTENDS Imports, TLAPS

Active == pc \notin {"off", "idle"}
Late == pc \in {"find", "password", "hold", "write", "record", "rest"}

\* Progress says nothing of its account that isn't so, and nothing less than
\* the create's audit event.  Somebody else's account is one that a run took
\* with no such event, made since the job and left disabled.
Own(p) ==
    p # NoProgress =>
        /\ "create" \in p.completed /\ p.completed \subseteq account[p.id].steps
        /\ audited \subseteq p.completed
        /\ p.id = "theirs" => audited = {} /\ account["theirs"].origin = "since"

\* Accounts made since the job and left disabled: somebody else's, and
\* those that have the row's names, of which there's one at most.
FoundMade == IF account["theirs"].origin = "since" THEN 1 ELSE 0
Findable ==
    IF \E id \in Account : account[id].named /\ account[id].origin = "since" THEN 1 ELSE 0

\* Until the create is audited, an account that was made can be found by the
\* row's names, or has been lost.
MadeInv ==
    /\ \A id \in Account : account[id].named =>
         "create" \in account[id].steps /\ account[id].origin # "none"
    /\ account["theirs"].origin = "enabled" => "enable" \in account["theirs"].steps
    /\ ~(account["ours"].named /\ account["theirs"].named)
    /\ made = 0 => account["ours"] = NoAccount
    /\ account["ours"].origin = IF made = 0 THEN "none" ELSE "since"
    /\ IF audited = {} THEN made + FoundMade = lost + Findable ELSE made <= 1 + lost
    /\ audited # {} => "create" \in audited
    /\ audited \subseteq account["ours"].steps

\* A run without progress knows that neither the row nor the audit has any.
RunInv ==
    /\ Active => row.attempts >= 1 /\ row.status = "running"
    /\ pc = "idle" => job = "running"
    /\ pc \in {"find", "rest"} => progress # NoProgress
    /\ pc \in {"audit", "adopt"} => progress = NoProgress /\ row.after = NoProgress
    /\ pc = "adopt" => audited = {}
    /\ Late => /\ Own(progress)
               /\ progress = NoProgress => audited = {} /\ row.after = NoProgress
               /\ progress # NoProgress /\ row.after # NoProgress =>
                    row.after.completed \subseteq progress.completed
    /\ pc \in {"password", "hold"} => "password" \notin Had
    /\ pc = "record" => /\ Had \subseteq told.completed
                        /\ told.completed \subseteq account[Its].steps
                        /\ told.completed # {} => "create" \in told.completed
    /\ pc = "outcome" => Own(out.after)

TakenInv ==
    /\ \A d \in Download : dl[d].took # NoPassword => downloaded
    /\ HandedOnce

IInv ==
    /\ TypeOK
    /\ MadeInv
    /\ Own(row.after)
    /\ RunInv
    /\ ForeignUntouched
    /\ TakenInv

-----------------------------------------------------------------------------
(***************************************************************************)
(* A password that is shown.  A retry may cross a download, that is come   *)
(* between its check of the job and its answer; the run then has read that *)
(* nothing was downloaded, and that is no longer so.                       *)
(***************************************************************************)
\* What is held, was taken or was shown is the account's password.
Good(id) ==
    /\ held # NoPassword /\ ~downloaded => held = account[id].password
    /\ \A d \in Download \ crossed :
         dl[d].at = "csv" => dl[d].took \in {NoPassword, account[id].password}
    /\ \A d \in Download \ crossed : shown[d] \in {NoPassword, account[id].password}

Tells(p, id) ==
    p # NoProgress /\ p.id = id /\ "password" \in p.completed /\ ~p.fallback

\* The run was told the password is set, and not in place of one shown.
ToldSet ==
    /\ "password" \in told.completed
    /\ progress = NoProgress \/ ~(progress.fallback \/ using.fallback)

\* Something says that the password is set, and that it's the one shown.
Known(id) ==
    \/ id = "ours" /\ "password" \in audited
    \/ Tells(row.after, id)
    \/ Late /\ Tells(progress, id)
    \/ pc = "record" /\ ToldSet /\ id = Its
    \/ pc = "outcome" /\ Tells(out.after, id)

GoodInv == lost = 0 => \A id \in Account : Known(id) => Good(id)

\* What the password step is to set.
UsingInv ==
    /\ pc = "hold" => mode = "generate" /\ ~using.fallback /\ ~seen
    /\ pc = "write" /\ "password" \notin Had =>
         \/ mode = "random"
         \/ using.fallback /\ (downloaded \/ held = NoPassword)
         \/ /\ ~using.fallback /\ ~seen
            /\ downloaded \/ held \in {NoPassword, using.password}

\* The awaits of a run that has read its facts, up to its outcome.
Informed == Active /\ pc \notin {"facts", "outcome"}

\* While a download is answered that no retry crossed, the job is stopped.
ApartInv ==
    \A d \in Downloading \ crossed :
        pc = "off" /\ row.status # "running" /\ job \in {"finished", "cancelled"}

\* A run misses no download but one that it crossed.
MissedInv ==
    Informed =>
        /\ seen => downloaded
        /\ ~seen /\ downloaded =>
             \A d \in Download \ crossed : dl[d].took = NoPassword /\ shown[d] = NoPassword

ShownInv ==
    /\ mode = "random" => held = NoPassword
    /\ \A d \in Download :
         /\ dl[d].took # NoPassword => mode # "random"
         /\ shown[d] # NoPassword =>
              /\ downloaded /\ mode # "random"
              /\ made > 0 \/ account["theirs"].origin = "since"

HInv == IInv /\ GoodInv /\ UsingInv /\ ApartInv /\ MissedInv /\ ShownInv

-----------------------------------------------------------------------------
(***************************************************************************)
(* What steps leave alone.                                                 *)
(***************************************************************************)
\* Only writes, their audit event and what others do concern the accounts.
LEMMA AccountFrame ==
    ASSUME Next
    PROVE  Write \/ Record \/ Renames \/ TakeNames \/ UNCHANGED <<account, made, lost, audited>>
<1>1. CASE Claim \/ Settle \/ Resume \/ Retry \/ Cancel \/ Crash \/ RecoverStale
    BY <1>1 DEF Claim, Settle, Resume, Retry, Cancel, Crash, RecoverStale, directory
<1>2. CASE Runs
    BY <1>2 DEF Runs, ReadFacts, AskAudit, Adopt, FindCreated, PasswordFor, Hold, Rest,
                RecordOutcome, Throws, Unanswered, Unrecorded, directory
<1>3. CASE Downloads
    BY <1>3 DEF Downloads, Ask, Look, Take, Csv, directory
<1>4. CASE Expire
    BY <1>4 DEF Expire, directory
<1> QED BY <1>1, <1>2, <1>3, <1>4 DEF Next

\* What's taken and shown changes with a download alone.
LEMMA DownloadFrame ==
    Next => \/ UNCHANGED <<dl, shown, downloaded>> /\ crossed \subseteq crossed'
            \/ \E d \in Download : Ask(d) \/ Look(d) \/ Take(d) \/ Csv(d)
<1> SUFFICES ASSUME Next
             PROVE \/ UNCHANGED <<dl, shown, downloaded>> /\ crossed \subseteq crossed'
                   \/ \E d \in Download : Ask(d) \/ Look(d) \/ Take(d) \/ Csv(d)
    OBVIOUS
<1>1. CASE Claim \/ Settle \/ Resume \/ Retry \/ Cancel \/ Crash \/ RecoverStale
    BY <1>1 DEF Claim, Settle, Resume, Retry, Cancel, Crash, RecoverStale, downloads, kept
<1>2. CASE Runs
    BY <1>2 DEF Runs, ReadFacts, AskAudit, Adopt, FindCreated, PasswordFor, Hold, Write,
                Record, Rest, RecordOutcome, Throws, Unanswered, Unrecorded, downloads, kept
<1>3. CASE Downloads
    BY <1>3 DEF Downloads
<1>4. CASE Expire \/ Renames \/ TakeNames
    BY <1>4 DEF Expire, Renames, Rename, TakeNames, downloads, kept
<1> QED BY <1>1, <1>2, <1>3, <1>4 DEF Next

-----------------------------------------------------------------------------
(***************************************************************************)
(* Types.                                                                  *)
(***************************************************************************)
LEMMA Forgotten ==
    ASSUME Forgets
    PROVE  /\ seen' \in BOOLEAN /\ progress' \in Progress \cup {NoProgress}
           /\ using' \in UsingType /\ told' \in ToldType
BY DEF Forgets, Nothing, Untold, UsingType, ToldType

LEMMA EndedRun ==
    ASSUME RunEnds
    PROVE  Forgets /\ out' \in OutType
BY DEF RunEnds, Failed, OutType

LEMMA TypeStep == IInv /\ Next => TypeOK'
<1> SUFFICES ASSUME IInv, Next PROVE TypeOK'
    OBVIOUS
<1>t. TypeOK
    BY DEF IInv
<1>j. job \in {"running", "paused", "finished", "cancelled"}
    BY <1>t DEF TypeOK
<1>r. row \in RowType
    BY <1>t DEF TypeOK
<1>h. held \in Password \cup {NoPassword}
    BY <1>t DEF TypeOK
<1>a. audited \in SUBSET Step /\ progress \in Progress \cup {NoProgress}
    BY <1>t DEF TypeOK
<1>u. using \in UsingType /\ told \in ToldType /\ out \in OutType
    BY <1>t DEF TypeOK
<1>o. account \in [Account -> AccountType] /\ made \in Nat /\ lost \in Nat
    BY <1>t DEF TypeOK
<1>f. faults \in 0..MaxFaults /\ changes \in 0..MaxChanges
    BY <1>t DEF TypeOK
<1>d. dl \in [Download -> DlType] /\ shown \in [Download -> Password \cup {NoPassword}]
    BY <1>t DEF TypeOK
<1> USE ConstantsOK
<1>1. CASE Claim
  <2>1. row.attempts + 1 \in 0..MaxAttempts
    BY <1>r, <1>1 DEF Claim, RowType
  <2>2. row' \in RowType
    BY <1>r, <1>1, <2>1 DEF Claim, RowType
  <2> QED BY <1>t, <1>1, <2>2 DEF Claim, TypeOK, Pcs, plan, directory, run, downloads
<1>2. CASE Settle \/ Resume
  <2>1. job' \in {"running", "paused", "finished", "cancelled"} /\ pc' \in Pcs
    BY <1>2 DEF Settle, Resume, Pcs
  <2> QED BY <1>t, <1>2, <2>1 DEF Settle, Resume, TypeOK, plan, directory, run, downloads
<1>3. CASE Retry
  <2>1. row' \in RowType
    BY <1>r, <1>3 DEF Retry, RowType
  <2>2. crossed' \subseteq Download
    BY <1>t, <1>3 DEF Retry, Downloading, TypeOK
  <2> QED BY <1>t, <1>3, <2>1, <2>2 DEF Retry, TypeOK, Pcs, plan, directory, run
<1>4. CASE Cancel
  <2>1. row' \in RowType
    <3>1. [row EXCEPT !.status = "skipped"] \in RowType
      BY <1>r DEF RowType
    <3> QED BY <1>r, <1>4, <3>1 DEF Cancel
  <2> QED BY <1>t, <1>4, <2>1 DEF Cancel, TypeOK, Pcs, plan, directory, run, downloads
<1>5. CASE Crash
  <2>1. faults' \in 0..MaxFaults
    BY <1>f, <1>5 DEF Crash, Fault
  <2>2. pc' \in Pcs
    BY <1>5 DEF Crash, Pcs
  <2>3. UNCHANGED <<mode, enables, job, downloaded, row, audited, account, made, lost, held,
                    dl, shown, crossed, changes>>
    BY <1>5 DEF Crash, kept, plan, directory, downloads
  <2>4. RunEnds
    BY <1>5 DEF Crash
  <2> QED BY <1>t, <2>1, <2>2, <2>3, <2>4, Forgotten, EndedRun DEF TypeOK
<1>6. CASE RecoverStale
  <2>1. row' \in RowType
    <3>1. [row EXCEPT !.status = "failed"] \in RowType
      BY <1>r DEF RowType
    <3> QED BY <1>r, <1>6, <3>1 DEF RecoverStale
  <2> QED BY <1>t, <1>6, <2>1 DEF RecoverStale, TypeOK, plan, directory, run, downloads
<1>7. CASE ReadFacts
  <2>1. progress' \in Progress \cup {NoProgress}
    BY <1>r, <1>7 DEF ReadFacts, Found, RowType
  <2> QED BY <1>t, <1>7, <2>1 DEF ReadFacts, Found, TypeOK, Pcs, kept, plan, directory, downloads
<1>8. CASE AskAudit
  <2>1. [id |-> "ours", completed |-> audited, fallback |-> FALSE] \in Progress
    BY <1>a DEF Progress, Account
  <2>2. progress' \in Progress \cup {NoProgress} /\ pc' \in Pcs
    BY <1>a, <1>8, <2>1 DEF AskAudit, CreatedBefore, Found, Pcs
  <2> QED BY <1>t, <1>8, <2>2 DEF AskAudit, TypeOK, kept, plan, directory, downloads
<1>9. CASE Adopt
  <2>1. \A id \in Account :
          [id |-> id, completed |-> {"create"}, fallback |-> FALSE] \in Progress
    BY DEF Progress, Account, Step
  <2>2. progress' \in Progress \cup {NoProgress} /\ pc' \in Pcs
    BY <1>a, <1>9, <2>1 DEF Adopt, Found, Pcs
  <2> QED BY <1>t, <1>9, <2>2 DEF Adopt, TypeOK, kept, plan, directory, downloads
<1>10. CASE FindCreated
  <2>1. using' \in UsingType /\ told' \in ToldType
    BY <1>10 DEF FindCreated, Nothing, Untold, UsingType, ToldType
  <2> QED BY <1>t, <1>10, <2>1 DEF FindCreated, TypeOK, Pcs, kept, plan, directory, downloads
<1>11. CASE PasswordFor
  <2>1. row.attempts \in Password
    BY <1>r, <1>11 DEF PasswordFor, IInv, RunInv, Active, Password, RowType
  <2>2. held \in Password \cup {NoPassword} /\ Random \in Password
    BY <1>h DEF Password
  <2>3. \E p \in Password \cup {NoPassword}, f \in BOOLEAN : Use(p, f)
    BY <1>11, <2>1, <2>2 DEF PasswordFor
  <2>4. using' \in UsingType
    BY <2>3 DEF Use, UsingType
  <2> QED BY <1>t, <1>11, <2>4 DEF PasswordFor, TypeOK, Pcs, kept, plan, directory, downloads
<1>12. CASE Hold
  <2>1. held' \in Password \cup {NoPassword}
    BY <1>u, <1>12 DEF Hold, UsingType
  <2> QED BY <1>t, <1>12, <2>1 DEF Hold, TypeOK, Pcs, kept, plan, directory, run, downloads
<1>13. CASE Write
  <2>1. PICK landed \in Prefix, done \in Prefix, failed \in BOOLEAN :
          /\ told' = [completed |-> done, failed |-> failed]
          /\ UNCHANGED faults \/ Fault
          /\ account' = [account EXCEPT ![Its] = SetUp(@, landed)]
          /\ made' = IF "create" \in landed \ Had THEN made + 1 ELSE made
    BY <1>13 DEF Write
  <2>2. landed \in SUBSET Step /\ done \in SUBSET Step
    BY DEF Prefix, Planned, Step
  <2>3. Its \in Account
    BY <1>a DEF Its, Progress, Account
  <2>4. SetUp(account[Its], landed) \in AccountType
    BY <1>o, <1>u, <2>2, <2>3 DEF SetUp, AccountType, UsingType
  <2>5. account' \in [Account -> AccountType] /\ made' \in Nat
    <3>1. account' \in [Account -> AccountType]
      BY <1>o, <2>1, <2>3, <2>4
    <3>2. made' \in Nat
      BY <1>o, <2>1
    <3> QED BY <3>1, <3>2
  <2>6. told' \in ToldType /\ faults' \in 0..MaxFaults
    BY <1>f, <2>1, <2>2 DEF Fault, ToldType
  <2>7. pc' = "record"
        /\ UNCHANGED <<mode, enables, job, downloaded, row, dl, shown, crossed, changes,
                       audited, lost, held, seen, progress, using, out>>
    BY <1>13 DEF Write, kept, plan, downloads
  <2> QED BY <1>t, <2>5, <2>6, <2>7 DEF TypeOK, Pcs
<1>14. CASE Record
  <2>1. Fell \in BOOLEAN /\ told.completed \in SUBSET Step
    BY <1>u DEF Fell, UsingType, ToldType
  <2>2. [id |-> "ours", completed |-> told.completed, fallback |-> Fell] \in Progress
    BY <2>1 DEF Progress, Account
  <2>3. ASSUME progress \in Progress
        PROVE  [progress EXCEPT !.completed = Merged(@, told.completed),
                                !.fallback = @ \/ Fell] \in Progress
    BY <2>1, <2>3 DEF Merged, Progress
  <2>4. progress' \in Progress \cup {NoProgress} /\ audited' \in SUBSET Step
    BY <1>a, <1>14, <2>1, <2>2, <2>3 DEF Record
  <2>5. out' \in OutType /\ pc' \in Pcs
    BY <1>u, <1>14 DEF Record, Failed, OutType, Pcs
  <2> QED BY <1>t, <1>14, <2>4, <2>5 DEF Record, TypeOK, kept, plan, directory, downloads
<1>15. CASE Rest
  <2>1. out' \in OutType
    BY <1>a, <1>15 DEF Rest, OutType
  <2>2. Forgets
    BY <1>15 DEF Rest
  <2> QED BY <1>t, <1>15, <2>1, <2>2, Forgotten
          DEF Rest, TypeOK, Pcs, kept, plan, directory, downloads
<1>16. CASE RecordOutcome
  <2>1. row' \in RowType
    BY <1>r, <1>u, <1>16 DEF RecordOutcome, RowType, OutType
  <2>2. RunEnds /\ pc' \in Pcs
    BY <1>16 DEF RecordOutcome, Pcs
  <2>3. UNCHANGED <<plan, job, downloaded, audited, directory, held, downloads, changes, faults>>
    BY <1>16 DEF RecordOutcome
  <2> QED BY <1>t, <2>1, <2>2, <2>3, Forgotten, EndedRun DEF TypeOK, plan, directory, downloads
<1>17. CASE Throws
  <2>1. Forgets /\ out' \in OutType
    BY <1>17, EndedRun DEF Throws
  <2>2. faults' \in 0..MaxFaults
    BY <1>f, <1>17 DEF Throws, Fault
  <2> QED BY <1>t, <1>17, <2>1, <2>2, Forgotten
          DEF Throws, TypeOK, Pcs, kept, plan, directory, downloads
<1>18. CASE Unanswered \/ Unrecorded
  <2>1. /\ [row EXCEPT !.status = "pending"] \in RowType
        /\ [row EXCEPT !.status = "failed"] \in RowType
    BY <1>r DEF RowType
  <2>2. row' \in RowType
    BY <1>r, <1>18, <2>1 DEF Unanswered, Unrecorded
  <2>3. job' \in {"running", "paused", "finished", "cancelled"}
    BY <1>j, <1>18 DEF Unanswered, Unrecorded, Pauses
  <2>4. faults' \in 0..MaxFaults
    BY <1>f, <1>18 DEF Unanswered, Unrecorded, Fault
  <2>5. RunEnds /\ pc' \in Pcs
    BY <1>18 DEF Unanswered, Unrecorded, Pcs
  <2>6. UNCHANGED <<plan, downloaded, audited, directory, held, downloads, changes>>
    BY <1>18 DEF Unanswered, Unrecorded
  <2> QED BY <1>t, <2>2, <2>3, <2>4, <2>5, <2>6, Forgotten, EndedRun
          DEF TypeOK, plan, directory, downloads
<1>19. CASE Downloads
  <2>1. PICK d \in Download : Ask(d) \/ Look(d) \/ Take(d) \/ Csv(d)
    BY <1>19 DEF Downloads
  <2>2. CASE Ask(d)
    <3>1. dl' \in [Download -> DlType]
      BY <1>t, <1>d, <2>2 DEF Ask, DlType, TypeOK
    <3> QED BY <1>t, <2>2, <3>1 DEF Ask, TypeOK, plan, directory, run
  <2>3. CASE Look(d)
    <3>1. PICK step \in {"take", "done"} :
            dl' = [dl EXCEPT ![d].at = step, ![d].seen = FALSE]
      BY <2>3 DEF Look
    <3>2. dl' \in [Download -> DlType]
      BY <1>d, <3>1 DEF DlType
    <3> QED BY <1>t, <2>3, <3>2 DEF Look, TypeOK, plan, directory, run
  <2>4. CASE Take(d)
    <3>1. dl' \in [Download -> DlType]
      BY <1>d, <1>h, <2>4 DEF Take, At, DlType
    <3>2. held' \in Password \cup {NoPassword}
      BY <1>h, <2>4 DEF Take
    <3>3. downloaded' \in BOOLEAN
      BY <1>t, <2>4 DEF Take, Marked, TypeOK
    <3> QED BY <1>t, <2>4, <3>1, <3>2, <3>3 DEF Take, TypeOK, plan, directory, run
  <2>5. CASE Csv(d)
    <3>1. dl' \in [Download -> DlType] /\ dl[d].took \in Password \cup {NoPassword}
      BY <1>d, <2>5 DEF Csv, At, DlType
    <3>2. shown' \in [Download -> Password \cup {NoPassword}]
      BY <1>d, <2>5, <3>1 DEF Csv
    <3> QED BY <1>t, <2>5, <3>1, <3>2 DEF Csv, TypeOK, plan, directory, run
  <2> QED BY <2>1, <2>2, <2>3, <2>4, <2>5
<1>20. CASE Expire
  <2>1. held' \in Password \cup {NoPassword}
    BY <1>20 DEF Expire
  <2> QED BY <1>t, <1>20, <2>1 DEF Expire, TypeOK, kept, plan, directory, run, downloads
<1>21. CASE Renames
  <2>1. PICK id \in Account : Rename(id)
    BY <1>21 DEF Renames
  <2>2. account' \in [Account -> AccountType]
    BY <1>o, <2>1 DEF Rename, AccountType
  <2>3. changes' \in 0..MaxChanges /\ lost' \in Nat
    BY <1>f, <1>o, <2>1 DEF Rename, Change
  <2> QED BY <1>t, <2>1, <2>2, <2>3 DEF Rename, TypeOK, plan, run, downloads
<1>22. CASE TakeNames
  <2>1. \A origin \in {"enabled", "since"} : Foreign(origin) \in AccountType
    BY DEF Foreign, AccountType, Step
  <2>2. account' \in [Account -> AccountType] /\ changes' \in 0..MaxChanges
    BY <1>o, <1>f, <1>22, <2>1 DEF TakeNames, Change, Account
  <2> QED BY <1>t, <1>22, <2>2 DEF TakeNames, TypeOK, plan, run, downloads
<1> QED BY <1>1, <1>2, <1>3, <1>4, <1>5, <1>6, <1>7, <1>8, <1>9, <1>10, <1>11, <1>12,
           <1>13, <1>14, <1>15, <1>16, <1>17, <1>18, <1>19, <1>20, <1>21, <1>22
        DEF Next, Runs

-----------------------------------------------------------------------------
(***************************************************************************)
(* The account, and what is known of it.                                   *)
(***************************************************************************)
\* The account a run is about is there, and some step of it is known of.
LEMMA HadIs ==
    ASSUME IInv, Late
    PROVE  /\ Its \in Account
           /\ progress # NoProgress => Had \subseteq account[Its].steps
           /\ audited \subseteq Had
           /\ Had # {} => "create" \in Had
           /\ Had = {} <=> progress = NoProgress
           /\ row.after # NoProgress =>
                progress # NoProgress /\ row.after.completed \subseteq Had
           /\ Its = "theirs" => audited = {} /\ account["theirs"].origin = "since"
<1>1. progress # NoProgress => progress \in Progress
    BY DEF IInv, TypeOK
<1>2. Its \in Account
    BY <1>1 DEF Its, Account, Progress
<1>3. /\ Own(progress)
      /\ progress = NoProgress => audited = {} /\ row.after = NoProgress
      /\ progress # NoProgress /\ row.after # NoProgress =>
           row.after.completed \subseteq progress.completed
    BY DEF IInv, RunInv
<1> QED BY <1>2, <1>3 DEF Own, Had, Its

\* What a write leaves of its account, and what the run is told.
LEMMA WriteIs ==
    ASSUME IInv, Write
    PROVE  \E landed \in Prefix, done \in Prefix :
             /\ Had \subseteq done /\ done \subseteq landed
             /\ Had = {} /\ Taken => landed = {}
             /\ landed # {} => "create" \in landed
             /\ done # {} => "create" \in done
             /\ told'.completed = done
             /\ account' = [account EXCEPT ![Its] = SetUp(@, landed)]
             /\ made' = IF "create" \in landed \ Had THEN made + 1 ELSE made
             /\ UNCHANGED <<audited, lost, row, progress, held, downloaded, dl, shown,
                            crossed, using, mode, seen>>
             /\ pc = "write" /\ pc' = "record" /\ Late
             /\ Its' = Its /\ Had' = Had
<1>1. UNCHANGED <<audited, lost, row, progress, held, downloaded, dl, shown, crossed, using,
                  mode, seen>>
    BY DEF Write, plan, downloads, kept
<1>2. Its' = Its /\ Had' = Had
    BY <1>1 DEF Its, Had
<1>3. \A steps \in Prefix : steps # {} => "create" \in steps
    BY DEF Prefix, Planned, Step
<1>4. pc = "write" /\ pc' = "record" /\ Late
    BY DEF Write, Late
<1>5. PICK landed \in Prefix, done \in Prefix, failed \in BOOLEAN :
        /\ Had \subseteq done /\ done \subseteq landed
        /\ Had = {} /\ Taken => landed = {}
        /\ told' = [completed |-> done, failed |-> failed]
        /\ account' = [account EXCEPT ![Its] = SetUp(@, landed)]
        /\ made' = IF "create" \in landed \ Had THEN made + 1 ELSE made
    BY DEF Write
<1>6. told'.completed = done
    BY <1>5
<1> QED BY <1>1, <1>2, <1>3, <1>4, <1>5, <1>6

\* A run without progress that makes an account: every one before it is lost.
LEMMA FirstOnly ==
    ASSUME IInv, pc = "write", progress = NoProgress, ~Taken
    PROVE  audited = {} /\ made + FoundMade = lost
<1>1. audited = {}
    BY DEF IInv, RunInv, Late
<1>2. Findable = 0
    BY DEF Findable, Taken
<1>3. lost \in Nat
    BY DEF IInv, TypeOK
<1> QED BY <1>1, <1>2, <1>3 DEF IInv, MadeInv

\* A write keeps what anything says was done to its account.
LEMMA WriteKeeps ==
    ASSUME IInv, Write
    PROVE  /\ Own(row.after)' /\ Own(progress)'
           /\ told'.completed \subseteq account'[Its].steps /\ Had' \subseteq told'.completed
           /\ told'.completed # {} => "create" \in told'.completed
<1>1. PICK landed \in Prefix, done \in Prefix :
        /\ Had \subseteq done /\ done \subseteq landed
        /\ done # {} => "create" \in done
        /\ told'.completed = done
        /\ account' = [account EXCEPT ![Its] = SetUp(@, landed)]
        /\ UNCHANGED <<audited, row, progress>>
        /\ Had' = Had /\ Late
    BY WriteIs
<1>2. /\ Its \in Account
      /\ progress # NoProgress => Had \subseteq account[Its].steps
      /\ Had # {} => "create" \in Had
      /\ Had = {} <=> progress = NoProgress
      /\ row.after # NoProgress => progress # NoProgress
    BY <1>1, HadIs
<1>3. account \in [Account -> AccountType]
    BY DEF IInv, TypeOK
<1>4. account'[Its] = SetUp(account[Its], landed)
    BY <1>1, <1>2, <1>3
<1>5. /\ landed \subseteq account'[Its].steps
      /\ progress # NoProgress => Had \subseteq account'[Its].steps
    BY <1>1, <1>2, <1>4 DEF SetUp
<1>6. \A id \in Account : id # Its => account'[id] = account[id]
    BY <1>1, <1>3
<1>7. progress # NoProgress => account'[Its].origin = account[Its].origin
    BY <1>2, <1>4 DEF SetUp
<1>8. ASSUME NEW p, p # NoProgress, progress # NoProgress, p \in Progress, Own(p),
             p.id = Its => p.completed \subseteq Had
      PROVE  /\ p.completed \subseteq account'[p.id].steps
             /\ p.id = "theirs" => account'["theirs"].origin = "since"
  <2>1. p.id \in Account
    BY <1>8 DEF Progress
  <2>2. CASE p.id = Its
    BY <1>5, <1>7, <1>8, <2>2 DEF Own
  <2>3. CASE p.id # Its
    BY <1>6, <1>8, <2>1, <2>3 DEF Own
  <2> QED BY <2>2, <2>3
<1>9. Own(row.after)'
  <2>1. row.after # NoProgress => row.after \in Progress /\ row.after.completed \subseteq Had
    BY <1>1, HadIs DEF IInv, TypeOK, RowType
  <2> QED BY <1>1, <1>2, <1>8, <2>1 DEF IInv, Own
<1>10. Own(progress)'
  <2>1. progress # NoProgress => progress \in Progress /\ progress.completed \subseteq Had
    BY DEF IInv, TypeOK, Had
  <2>2. Own(progress)
    BY <1>1 DEF IInv, RunInv
  <2> QED BY <1>1, <1>8, <2>1, <2>2 DEF Own
<1> QED BY <1>1, <1>5, <1>9, <1>10

\* An account that a write makes is one more that can be found.
LEMMA MadeWrite == ASSUME IInv, Write PROVE MadeInv' /\ ForeignUntouched'
<1>1. PICK landed \in Prefix, done \in Prefix :
        /\ Had \subseteq done /\ done \subseteq landed
        /\ Had = {} /\ Taken => landed = {}
        /\ landed # {} => "create" \in landed
        /\ account' = [account EXCEPT ![Its] = SetUp(@, landed)]
        /\ made' = IF "create" \in landed \ Had THEN made + 1 ELSE made
        /\ UNCHANGED <<audited, lost>>
        /\ pc = "write" /\ Late
    BY WriteIs
<1>2. /\ Its \in Account
      /\ progress # NoProgress => Had \subseteq account[Its].steps
      /\ audited \subseteq Had
      /\ Had # {} => "create" \in Had
      /\ Had = {} <=> progress = NoProgress
      /\ Its = "theirs" => audited = {} /\ account["theirs"].origin = "since"
    BY <1>1, HadIs
<1>3. account \in [Account -> AccountType] /\ made \in Nat /\ lost \in Nat
    BY DEF IInv, TypeOK
<1>4. account'[Its] = SetUp(account[Its], landed)
      /\ \A id \in Account : id # Its => account'[id] = account[id]
    BY <1>1, <1>2, <1>3
<1>5. MadeInv /\ ForeignUntouched
    BY DEF IInv
<1>6. Account = {"ours", "theirs"}
    BY DEF Account
<1>7. CASE progress = NoProgress /\ landed # {}
  <2>1. /\ Its = "ours" /\ Had = {} /\ ~Taken /\ audited = {} /\ made + FoundMade = lost
        /\ made' = made + 1
    BY <1>1, <1>2, <1>7, FirstOnly DEF Its
  <2>2. account'["ours"].steps = landed /\ account'["ours"].named
        /\ account'["ours"].origin = "since" /\ account'["theirs"] = account["theirs"]
    <3>1. "create" \in landed \ Had /\ account'["ours"] = SetUp(account["ours"], landed)
      BY <1>1, <1>4, <1>7, <2>1
    <3>2. account'["theirs"] = account["theirs"]
      BY <1>4, <1>6, <2>1
    <3>3. /\ SetUp(account["ours"], landed).steps = landed
          /\ SetUp(account["ours"], landed).named
          /\ SetUp(account["ours"], landed).origin = "since"
      BY <3>1, <2>1 DEF SetUp
    <3> QED BY <3>1, <3>2, <3>3
  <2>3. FoundMade' = FoundMade /\ Findable' = 1
    BY <1>6, <2>2 DEF FoundMade, Findable
  <2>4. FoundMade \in {0, 1} /\ (account["theirs"].origin = "since" => FoundMade = 1)
    BY DEF FoundMade
  <2>5. ForeignUntouched'
    BY <1>1, <1>3, <1>5, <2>1, <2>2, <2>4 DEF ForeignUntouched
  <2>6. \A id \in Account : account'[id].named =>
          "create" \in account'[id].steps /\ account'[id].origin # "none"
    BY <1>1, <1>5, <1>6, <1>7, <2>2 DEF MadeInv
  <2>7. ~account'["theirs"].named
    BY <1>6, <2>1, <2>2 DEF Taken
  <2>8. /\ audited' = {} /\ made' # 0
        /\ made' + FoundMade' = lost' + Findable'
    BY <1>1, <1>3, <2>1, <2>3, <2>4
  <2>9. account'["theirs"].origin = "enabled" => "enable" \in account'["theirs"].steps
    BY <1>5, <2>2 DEF MadeInv
  <2> QED BY <2>2, <2>5, <2>6, <2>7, <2>8, <2>9 DEF MadeInv
<1>8. CASE progress = NoProgress /\ landed = {}
  <2>1. Had = {} /\ account' = account /\ made' = made
    <3>1. SetUp(account[Its], {}) = account[Its]
      <4>1. SetUp(account[Its], {}) =
              [steps |-> account[Its].steps, password |-> account[Its].password,
               named |-> account[Its].named, origin |-> account[Its].origin]
        BY <1>2, <1>3, <1>8 DEF SetUp, AccountType
      <4> QED BY <1>2, <1>3, <4>1 DEF AccountType
    <3> QED BY <1>1, <1>2, <1>3, <1>8, <3>1
  <2> QED BY <1>1, <1>5, <2>1 DEF MadeInv, FoundMade, Findable, ForeignUntouched
<1>9. CASE progress # NoProgress
  <2>1. "create" \in Had /\ Had \subseteq account'[Its].steps /\ made' = made
    BY <1>1, <1>2, <1>4, <1>9 DEF SetUp
  <2>2. /\ account'[Its].named = account[Its].named
        /\ account'[Its].origin = account[Its].origin
    BY <1>3, <1>2, <1>4, <2>1 DEF SetUp, AccountType
  <2>3. \A id \in Account : /\ account'[id].named = account[id].named
                            /\ account'[id].origin = account[id].origin
    BY <1>4, <2>2
  <2>4. FoundMade' = FoundMade /\ Findable' = Findable
    BY <1>6, <2>3 DEF FoundMade, Findable
  <2>5. ForeignUntouched'
    <3>1. CASE Its = "theirs"
      <4>1. FoundMade = 1 /\ Findable \in {0, 1} /\ made + FoundMade = lost + Findable
        BY <1>2, <1>5, <3>1 DEF FoundMade, Findable, MadeInv
      <4> QED BY <1>1, <1>2, <1>3, <2>1, <2>2, <3>1, <4>1 DEF ForeignUntouched
    <3>2. CASE Its # "theirs"
      BY <1>1, <1>4, <1>5, <1>6, <2>1, <3>2 DEF ForeignUntouched
    <3> QED BY <3>1, <3>2
  <2>6. \A id \in Account : account'[id].named =>
          "create" \in account'[id].steps /\ account'[id].origin # "none"
    BY <1>4, <1>5, <2>1, <2>2 DEF MadeInv
  <2>7. audited \subseteq account'["ours"].steps
    BY <1>2, <1>4, <1>5, <1>6, <2>1 DEF MadeInv
  <2>8. made # 0 \/ Its # "ours"
    <3>1. Its = "ours" => account[Its] # NoAccount
      BY <1>2, <1>9, <2>1 DEF NoAccount
    <3> QED BY <1>5, <3>1 DEF MadeInv
  <2>9. made = 0 => account'["ours"] = NoAccount
    BY <1>4, <1>5, <1>6, <2>8 DEF MadeInv
  <2>10. account'["theirs"].origin = "enabled" => "enable" \in account'["theirs"].steps
    BY <1>2, <1>4, <1>5, <1>6, <2>2 DEF MadeInv
  <2> QED BY <1>1, <1>5, <1>6, <2>1, <2>3, <2>4, <2>5, <2>6, <2>7, <2>9, <2>10 DEF MadeInv
<1> QED BY <1>7, <1>8, <1>9

\* What others do leaves the steps done to the runs' accounts.
LEMMA OthersDo ==
    ASSUME IInv, Renames \/ TakeNames
    PROVE  /\ UNCHANGED <<made, audited, row, progress, pc, job, told, out>>
           /\ account'["ours"].steps = account["ours"].steps
           /\ account'["ours"].origin = account["ours"].origin
           /\ \A id \in Account :
                \/ /\ account'[id].steps = account[id].steps
                   /\ account'[id].origin = account[id].origin
                   /\ account'[id].password = account[id].password
                \/ id = "theirs" /\ account[id] = NoAccount
                   /\ account'[id].password = NoPassword
<1>t. account \in [Account -> AccountType] /\ Account = {"ours", "theirs"}
    BY DEF IInv, TypeOK, Account
<1>1. CASE Renames
    BY <1>t, <1>1 DEF Renames, Rename, run, AccountType
<1>2. CASE TakeNames
  <2>1. /\ account["theirs"] = NoAccount /\ account'["theirs"].password = NoPassword
        /\ account'["ours"] = account["ours"]
    BY <1>t, <1>2 DEF TakeNames, Foreign
  <2>2. UNCHANGED <<made, audited, row, progress, pc, job, told, out>>
    BY <1>2 DEF TakeNames, run
  <2> QED BY <1>t, <2>1, <2>2
<1> QED BY <1>1, <1>2

LEMMA MadeStep == IInv /\ Next => MadeInv' /\ ForeignUntouched'
<1> SUFFICES ASSUME IInv, Next PROVE MadeInv' /\ ForeignUntouched'
    OBVIOUS
<1>t. /\ account \in [Account -> AccountType] /\ made \in Nat /\ lost \in Nat
      /\ Account = {"ours", "theirs"}
    BY DEF IInv, TypeOK, Account
<1>i. MadeInv /\ ForeignUntouched
    BY DEF IInv
<1>1. CASE Write
    BY <1>1, MadeWrite
<1>2. CASE Record
  <2>1. pc = "record" /\ UNCHANGED <<account, made, lost>>
    BY <1>2 DEF Record, directory
  <2>2. \/ UNCHANGED audited
        \/ /\ audited' = told.completed /\ "create" \in told.completed
           /\ audited = {} /\ Its = "ours"
    BY <1>2, <2>1 DEF Record, IInv, RunInv, Late, Its
  <2>3. told.completed \subseteq account[Its].steps
    BY <2>1 DEF IInv, RunInv
  <2>4. made + FoundMade = lost + Findable => made <= 1 + lost
    BY <1>t DEF FoundMade, Findable
  <2>5. FoundMade' = FoundMade /\ Findable' = Findable
    BY <2>1 DEF FoundMade, Findable
  <2> QED BY <1>i, <2>1, <2>2, <2>3, <2>4, <2>5 DEF MadeInv, ForeignUntouched
<1>3. ASSUME NEW id \in Account, Rename(id)
      PROVE  MadeInv' /\ ForeignUntouched'
  <2>1. /\ account[id].named /\ UNCHANGED <<made, audited>>
        /\ lost' = IF audited = {} /\ account[id].origin = "since" THEN lost + 1 ELSE lost
        /\ account'[id].named = FALSE
        /\ \A i \in Account : /\ account'[i].steps = account[i].steps
                              /\ account'[i].origin = account[i].origin
                              /\ account'[i].password = account[i].password
                              /\ i # id => account'[i] = account[i]
    BY <1>3, <1>t DEF Rename, AccountType
  <2>2. FoundMade' = FoundMade
    BY <1>t, <2>1 DEF FoundMade
  <2>3. /\ Findable = IF account[id].origin = "since" THEN 1 ELSE 0
        /\ Findable' = 0
    BY <1>t, <1>i, <2>1 DEF Findable, MadeInv
  <2>4. made = 0 => account'["ours"] = NoAccount
    BY <1>t, <1>i, <2>1 DEF MadeInv, NoAccount
  <2>5. FoundMade \in {0, 1}
    BY DEF FoundMade
  <2>6. ForeignUntouched'
    BY <1>t, <1>i, <2>1 DEF ForeignUntouched
  <2>7. IF audited' = {} THEN made' + FoundMade' = lost' + Findable' ELSE made' <= 1 + lost'
    BY <1>t, <1>i, <2>1, <2>2, <2>3, <2>5 DEF MadeInv
  <2> QED BY <1>t, <1>i, <2>1, <2>4, <2>6, <2>7 DEF MadeInv
<1>4. CASE TakeNames
  <2>1. /\ ~Taken /\ account["theirs"] = NoAccount /\ UNCHANGED <<made, audited, lost>>
        /\ account'["ours"] = account["ours"]
    BY <1>4, <1>t DEF TakeNames
  <2>2. PICK origin \in {"enabled", "since"} : account'["theirs"] = Foreign(origin)
    BY <1>4, <1>t DEF TakeNames
  <2>3. /\ account'["theirs"].named /\ account'["theirs"].password = NoPassword
        /\ "create" \in account'["theirs"].steps /\ account'["theirs"].origin = origin
        /\ origin = "enabled" => "enable" \in account'["theirs"].steps
    BY <2>2 DEF Foreign
  <2>4. FoundMade = 0 /\ Findable = 0 /\ ~account["ours"].named
    BY <1>t, <2>1 DEF FoundMade, Findable, Taken, NoAccount
  <2>5. FoundMade' = Findable'
    BY <1>t, <2>1, <2>3, <2>4 DEF FoundMade, Findable
  <2>6. FoundMade' \in {0, 1}
    BY DEF FoundMade
  <2> QED BY <1>t, <1>i, <2>1, <2>3, <2>4, <2>5, <2>6 DEF MadeInv, ForeignUntouched
<1>5. CASE UNCHANGED <<account, made, lost, audited>>
    BY <1>5, <1>i DEF MadeInv, FoundMade, Findable, ForeignUntouched
<1> QED BY <1>1, <1>2, <1>3, <1>4, <1>5, AccountFrame DEF Renames

\* The audit event of a create is recorded when the row and the run knew of none.
LEMMA OwnKept ==
    ASSUME IInv, Record
    PROVE  \/ audited' = audited
           \/ audited = {} /\ row.after = NoProgress /\ progress = NoProgress
BY DEF Record, IInv, RunInv, Late

\* Progress says as much after others' changes.
LEMMA OwnStays ==
    ASSUME IInv, Renames \/ TakeNames, NEW p \in Progress \cup {NoProgress}, Own(p)
    PROVE  p # NoProgress =>
             /\ "create" \in p.completed /\ p.completed \subseteq account'[p.id].steps
             /\ audited' \subseteq p.completed
             /\ p.id = "theirs" => audited' = {} /\ account'["theirs"].origin = "since"
<1> SUFFICES ASSUME p # NoProgress
             PROVE  /\ "create" \in p.completed /\ p.completed \subseteq account'[p.id].steps
                    /\ audited' \subseteq p.completed
                    /\ p.id = "theirs" => audited' = {} /\ account'["theirs"].origin = "since"
    OBVIOUS
<1>1. p.id \in Account
    BY DEF Progress
<1>2. p.id = "theirs" => account["theirs"].origin = "since"
    BY DEF Own
<1>3. account[p.id] # NoAccount \/ p.id = "ours"
    BY <1>1, <1>2 DEF Account, NoAccount
<1>4. /\ account'[p.id].steps = account[p.id].steps
      /\ account'[p.id].origin = account[p.id].origin
    BY <1>1, <1>3, OthersDo
<1> QED BY <1>2, <1>4, OthersDo DEF Own

LEMMA RowStep == IInv /\ Next => Own(row.after)'
<1> SUFFICES ASSUME IInv, Next PROVE Own(row.after)'
    OBVIOUS
<1>1. CASE Write
    BY <1>1, WriteKeeps
<1>2. CASE Record
    BY <1>2, OwnKept DEF Record, Own, IInv, directory, kept
<1>3. CASE RecordOutcome
  <2>1. row'.after = out.after /\ UNCHANGED <<account, audited>>
    BY <1>3 DEF RecordOutcome, directory, IInv, TypeOK, RowType
  <2>2. Own(out.after)
    BY <1>3 DEF RecordOutcome, IInv, RunInv
  <2> QED BY <2>1, <2>2 DEF Own
<1>4. CASE Renames \/ TakeNames
  <2>1. row.after \in Progress \cup {NoProgress} /\ Own(row.after) /\ row' = row
    BY <1>4, OthersDo DEF IInv, TypeOK, RowType
  <2> QED BY <1>4, <2>1, OwnStays DEF Own
<1>5. CASE ~RecordOutcome /\ ~Write /\ ~Record /\ ~Renames /\ ~TakeNames
  <2>1. row'.after = row.after
    <3>1. CASE Claim \/ Settle \/ Resume \/ Retry \/ Cancel \/ Crash \/ RecoverStale
      BY <3>1 DEF Claim, Settle, Resume, Retry, Cancel, Crash, RecoverStale, kept,
                  IInv, TypeOK, RowType
    <3>2. CASE Runs
      BY <1>5, <3>2 DEF Runs, ReadFacts, AskAudit, Adopt, FindCreated, PasswordFor, Hold,
                        Rest, Throws, Unanswered, Unrecorded, kept, IInv, TypeOK, RowType
    <3>3. CASE Downloads
      BY <3>3 DEF Downloads, Ask, Look, Take, Csv
    <3>4. CASE Expire
      BY <3>4 DEF Expire, kept
    <3> QED BY <1>5, <3>1, <3>2, <3>3, <3>4 DEF Next
  <2>2. UNCHANGED <<account, audited>>
    BY <1>5, AccountFrame
  <2> QED BY <2>1, <2>2 DEF Own, IInv
<1> QED BY <1>1, <1>2, <1>3, <1>4, <1>5

LEMMA RunStep == IInv /\ Next => RunInv'
<1> SUFFICES ASSUME IInv, Next PROVE RunInv'
    OBVIOUS
<1>t. row \in RowType /\ account \in [Account -> AccountType]
    BY DEF IInv, TypeOK
<1>i. RunInv /\ MadeInv /\ Own(row.after)
    BY DEF IInv
<1>1. CASE Claim
  <2>1. row'.attempts = row.attempts + 1 /\ row.attempts \in Nat /\ row'.status = "running"
    BY <1>1, <1>t, ConstantsOK DEF Claim, RowType
  <2> QED BY <1>1, <2>1 DEF Claim, RunInv, Active, Late
<1>2. CASE Settle \/ Resume \/ Retry \/ Crash \/ RecoverStale
    BY <1>2 DEF Settle, Resume, Retry, Crash, RecoverStale, RunInv, Active, Late
<1>3. CASE Cancel
  <2>1. UNCHANGED <<seen, progress, told, out, audited, account>>
    BY <1>3 DEF Cancel, run, directory
  <2>2. CASE Active
    <3>1. row.status = "running"
      BY <1>i, <2>2 DEF RunInv
    <3>2. row' = row /\ pc' = pc /\ pc # "idle"
      BY <1>3, <2>2, <3>1 DEF Cancel, Active
    <3> QED BY <1>i, <2>1, <3>2 DEF RunInv, Active, Late, Own, Had, Its
  <2>3. CASE ~Active
    <3>1. pc' = "off"
      BY <1>3, <2>3 DEF Cancel, Active
    <3> QED BY <3>1 DEF RunInv, Active, Late
  <2> QED BY <2>2, <2>3
<1>4. CASE ReadFacts
  <2>1. UNCHANGED <<row, told, out, audited, account>> /\ pc = "facts"
        /\ \/ row.after # NoProgress /\ progress' = row.after /\ pc' = "find"
           \/ row.after = NoProgress /\ progress' = NoProgress /\ pc' = "audit"
    BY <1>4 DEF ReadFacts, Found, kept, directory
  <2> QED BY <1>i, <2>1 DEF RunInv, Active, Late, Own
<1>5. CASE AskAudit
  <2>1. /\ UNCHANGED <<row, told, out, audited, account>> /\ pc = "audit"
        /\ \/ /\ audited # {} /\ pc' = "find"
              /\ progress' = [id |-> "ours", completed |-> audited, fallback |-> FALSE]
           \/ audited = {} /\ pc' \in {"adopt", "password"} /\ UNCHANGED progress
    BY <1>5 DEF AskAudit, CreatedBefore, Found, kept, directory
  <2>2. row.attempts >= 1 /\ row.status = "running" /\ row.after = NoProgress
        /\ progress = NoProgress
    BY <1>i, <2>1 DEF RunInv, Active
  <2>3. CASE audited # {} /\ pc' = "find"
    <3>1. progress' = [id |-> "ours", completed |-> audited, fallback |-> FALSE]
      BY <2>1, <2>3
    <3>2. progress' \in Progress
      BY <3>1 DEF IInv, TypeOK, Progress, Account
    <3>3. progress'.id = "ours" /\ progress'.completed = audited /\ progress' # NoProgress
      BY <3>1, <3>2, NoProgressOK
    <3> QED BY <1>i, <2>1, <2>2, <2>3, <3>3 DEF RunInv, MadeInv, Active, Late, Own
  <2>4. CASE audited = {} /\ pc' \in {"adopt", "password"} /\ UNCHANGED progress
    BY <1>i, <2>1, <2>2, <2>4 DEF RunInv, Active, Late, Own, Had
  <2> QED BY <2>1, <2>3, <2>4
<1>6. CASE Adopt
  <2>1. /\ UNCHANGED <<row, told, out, audited, account>> /\ pc = "adopt"
        /\ \/ /\ pc' = "find"
              /\ \E id \in Account :
                   /\ Adopts(id)
                   /\ progress' = [id |-> id, completed |-> {"create"}, fallback |-> FALSE]
           \/ pc' = "password" /\ UNCHANGED progress
    BY <1>6 DEF Adopt, Found, kept, directory
  <2>2. /\ row.attempts >= 1 /\ row.status = "running" /\ row.after = NoProgress
        /\ progress = NoProgress /\ audited = {}
    BY <1>i, <2>1 DEF RunInv, Active
  <2>3. ASSUME pc' = "find", NEW id \in Account, Adopts(id),
               progress' = [id |-> id, completed |-> {"create"}, fallback |-> FALSE]
        PROVE  RunInv'
    <3>1. progress' \in Progress
      BY <2>3 DEF Progress, Step
    <3>2. progress'.id = id /\ progress'.completed = {"create"} /\ progress' # NoProgress
      BY <2>3, <3>1, NoProgressOK
    <3>3. "create" \in account[id].steps
      BY <1>i, <2>3 DEF MadeInv, Adopts
    <3>4. id = "theirs" => account["theirs"].origin = "since"
      BY <1>i, <1>t, <2>3 DEF MadeInv, Adopts, Adoptable, AccountType
    <3> QED BY <1>i, <2>1, <2>2, <2>3, <3>2, <3>3, <3>4 DEF RunInv, Active, Late, Own
  <2>4. CASE pc' = "password" /\ UNCHANGED progress
    BY <1>i, <2>1, <2>2, <2>4 DEF RunInv, Active, Late, Own, Had
  <2> QED BY <2>1, <2>3, <2>4
<1>7. CASE FindCreated \/ PasswordFor \/ Hold
  <2>1. UNCHANGED <<row, out, progress, audited, account>>
        /\ \/ /\ pc = "find" /\ pc' \in {"password", "write", "rest"}
              /\ pc' = "password" => "password" \notin Had
           \/ pc = "password" /\ pc' \in {"hold", "write"}
           \/ pc = "hold" /\ pc' = "write"
    BY <1>7 DEF FindCreated, PasswordFor, Hold, kept, directory, run
  <2> QED BY <1>i, <2>1 DEF RunInv, Active, Late, Own, Had
<1>8. CASE Write
  <2>1. pc = "write" /\ pc' = "record" /\ UNCHANGED <<row, progress, audited>> /\ Its' = Its
    BY <1>8, WriteIs
  <2> QED BY <1>8, <1>i, <2>1, WriteKeeps DEF RunInv, Active, Late, Had
<1>9. CASE Record
  <2>1. UNCHANGED <<row, account, using, told>> /\ pc = "record"
    BY <1>9 DEF Record, kept, directory
  <2>2. /\ Had \subseteq told.completed /\ told.completed \subseteq account[Its].steps
        /\ Own(progress)
    BY <1>i, <2>1 DEF RunInv, Late
  <2>3. CASE progress = NoProgress /\ "create" \in told.completed
    <3>1. /\ audited' = told.completed /\ pc' = "rest"
          /\ progress' = [id |-> "ours", completed |-> told.completed, fallback |-> Fell]
      BY <1>9, <2>3 DEF Record
    <3>2. row.after = NoProgress
      BY <1>i, <2>1, <2>3 DEF RunInv, Late
    <3>3. progress'.id = "ours" /\ progress'.completed = told.completed
      BY <3>1
    <3>4. progress' # NoProgress
      <4>1. Fell \in BOOLEAN /\ told.completed \in SUBSET Step
        BY DEF IInv, TypeOK, Fell, UsingType, ToldType
      <4>2. progress' \in Progress
        BY <3>1, <4>1 DEF Progress, Account
      <4> QED BY <4>2, NoProgressOK
    <3>5. row.attempts >= 1 /\ row.status = "running"
      BY <1>i, <2>1 DEF RunInv, Active
    <3> QED BY <2>1, <2>2, <2>3, <3>1, <3>2, <3>3, <3>4, <3>5
              DEF RunInv, Active, Late, Own, Its
  <2>4. CASE progress = NoProgress /\ "create" \notin told.completed
    <3>1. pc' = "outcome" /\ out' = Failed /\ UNCHANGED audited
      BY <1>9, <2>4 DEF Record
    <3> QED BY <1>i, <2>1, <3>1 DEF RunInv, Active, Late, Own, Failed
  <2>5. CASE progress # NoProgress
    <3>1. progress \in Progress
      BY <2>5 DEF IInv, TypeOK
    <3>2. /\ pc' = "rest" /\ UNCHANGED audited /\ progress'.id = progress.id
          /\ progress'.completed = progress.completed \cup told.completed
      BY <1>9, <2>5, <3>1 DEF Record, Merged, Progress
    <3>3. progress' # NoProgress
      <4>1. Fell \in BOOLEAN /\ told.completed \in SUBSET Step
        BY DEF IInv, TypeOK, Fell, UsingType, ToldType
      <4>2. progress' \in Progress
        BY <1>9, <2>5, <3>1, <4>1 DEF Record, Progress, Merged
      <4> QED BY <4>2, NoProgressOK
    <3> QED BY <1>i, <2>1, <2>2, <3>2, <3>3, <2>5 DEF RunInv, Active, Late, Own, Its
  <2> QED BY <2>3, <2>4, <2>5
<1>10. CASE Rest
  <2>1. out'.after = progress /\ pc = "rest" /\ pc' = "outcome" /\ UNCHANGED <<row, audited, account>>
    BY <1>10 DEF Rest, kept, directory
  <2> QED BY <1>i, <2>1 DEF RunInv, Active, Late, Own
<1>11. CASE RecordOutcome \/ Unanswered \/ Unrecorded
    BY <1>11, <1>i DEF RecordOutcome, Unanswered, Unrecorded, RunInv, Active, Late
<1>12. CASE Throws
  <2>1. /\ pc \notin {"off", "idle", "outcome"} /\ pc' = "outcome" /\ out' = Failed
        /\ UNCHANGED row
    BY <1>12 DEF Throws, RunEnds, kept
  <2> QED BY <1>i, <2>1 DEF RunInv, Active, Late, Own, Failed
<1>13. CASE Downloads \/ Expire
  <2>1. UNCHANGED <<job, row, pc, progress, told, out, audited, account>>
    <3>1. CASE Downloads
      BY <3>1 DEF Downloads, Ask, Look, Take, Csv, run, directory
    <3>2. CASE Expire
      BY <3>2 DEF Expire, run, kept, directory
    <3> QED BY <1>13, <3>1, <3>2
  <2> QED BY <1>i, <2>1 DEF RunInv, Active, Late, Own, Had, Its
<1>14. CASE Renames \/ TakeNames
  <2>1. UNCHANGED <<audited, row, progress, pc, job, told, out>>
    BY <1>14, OthersDo
  <2>2. Late => Own(progress)'
    BY <1>14, <1>i, <2>1, OwnStays DEF IInv, TypeOK, Own, RunInv
  <2>3. pc = "outcome" => Own(out.after)'
    BY <1>14, <1>i, <2>1, OwnStays DEF IInv, TypeOK, Own, RunInv, OutType
  <2>4. pc = "record" => account'[Its].steps = account[Its].steps
    <3>1. ASSUME pc = "record" PROVE Its \in Account /\ (Its = "theirs" => account[Its] # NoAccount)
      BY <3>1, HadIs DEF Late, NoAccount
    <3> QED BY <1>14, <3>1, OthersDo
  <2> QED BY <1>i, <2>1, <2>2, <2>3, <2>4 DEF RunInv, Active, Late, Had, Its
<1> QED BY <1>1, <1>2, <1>3, <1>4, <1>5, <1>6, <1>7, <1>8, <1>9, <1>10, <1>11, <1>12, <1>13, <1>14
        DEF Next, Runs

LEMMA TakenStep == IInv /\ Next => TakenInv'
<1> SUFFICES ASSUME IInv, Next PROVE TakenInv'
    OBVIOUS
<1>t. dl \in [Download -> DlType]
    BY DEF IInv, TypeOK
<1>i. TakenInv
    BY DEF IInv
<1>1. CASE UNCHANGED <<dl, shown, downloaded>>
    BY <1>1, <1>i DEF TakenInv, HandedOnce
<1>2. ASSUME NEW d \in Download, Ask(d) \/ Look(d) \/ Csv(d)
      PROVE  TakenInv'
  <2>1. downloaded' = downloaded /\ \A e \in Download : dl'[e].took = dl[e].took
    BY <1>t, <1>2 DEF Ask, Look, Csv, At, DlType
  <2> QED BY <1>i, <2>1 DEF TakenInv, HandedOnce
<1>3. ASSUME NEW d \in Download, Take(d)
      PROVE  TakenInv'
  <2>1. CASE ~downloaded
    <3>1. downloaded' = TRUE /\ \A e \in Download \ {d} : dl'[e].took = dl[e].took
      BY <1>t, <1>3, <2>1 DEF Take, Marked, DlType
    <3>2. \A e \in Download \ {d} : dl'[e].took = NoPassword
      BY <1>i, <2>1, <3>1 DEF TakenInv
    <3> QED BY <3>1, <3>2 DEF TakenInv, HandedOnce
  <2>2. CASE downloaded
    <3>1. downloaded' = downloaded /\ \A e \in Download : dl'[e].took = dl[e].took
      BY <1>t, <1>3, <2>2 DEF Take, At, DlType
    <3> QED BY <1>i, <3>1 DEF TakenInv, HandedOnce
  <2> QED BY <2>1, <2>2
<1> QED BY <1>1, <1>2, <1>3, DownloadFrame

-----------------------------------------------------------------------------
(***************************************************************************)
(* Theorems.                                                               *)
(***************************************************************************)
LEMMA InitIInv == Init => IInv
<1> SUFFICES ASSUME Init PROVE IInv
    OBVIOUS
<1>1. TypeOK
  <2>1. row \in RowType /\ account \in [Account -> AccountType]
    <3>1. row \in RowType
      BY ConstantsOK DEF Init, RowType
    <3>2. NoAccount \in AccountType /\ Foreign("before") \in AccountType
      BY DEF NoAccount, Foreign, AccountType, Step
    <3> QED BY <3>1, <3>2 DEF Init
  <2>2. /\ held \in Password \cup {NoPassword} /\ using \in UsingType
        /\ told \in ToldType /\ out \in OutType
    BY DEF Init, UsingType, ToldType, OutType, Nothing, Untold, Failed, Password
  <2>3. dl \in [Download -> DlType] /\ shown \in [Download -> Password \cup {NoPassword}]
    BY DEF Init, DlType
  <2>4. /\ mode \in {"random", "generate", "set"} /\ enables \in BOOLEAN
        /\ job = "running" /\ downloaded = FALSE /\ audited = {} /\ made = 0 /\ lost = 0
        /\ pc = "idle" /\ seen = FALSE /\ progress = NoProgress
        /\ crossed = {} /\ changes = 0 /\ faults = 0
    BY DEF Init
  <2>5. 0 \in 0..MaxChanges /\ 0 \in 0..MaxFaults
    BY ConstantsOK
  <2> QED BY <2>1, <2>2, <2>3, <2>4, <2>5 DEF TypeOK, Pcs
<1>2. Own(row.after) /\ RunInv /\ TakenInv
    BY DEF Init, Own, RunInv, Active, Late, TakenInv, HandedOnce
<1>3. MadeInv /\ ForeignUntouched
  <2>1. PICK theirs \in {NoAccount, Foreign("before")} :
          account = [id \in Account |-> IF id = "ours" THEN NoAccount ELSE theirs]
    BY DEF Init
  <2>2. /\ account["ours"] = NoAccount /\ account["theirs"] = theirs
        /\ theirs.origin \in {"none", "before"} /\ theirs.password = NoPassword
        /\ theirs.named => "create" \in theirs.steps /\ theirs.origin # "none"
    BY <2>1 DEF Account, NoAccount, Foreign
  <2>3. FoundMade = 0 /\ Findable = 0
    BY <2>2 DEF FoundMade, Findable, Account, NoAccount
  <2> QED BY <2>2, <2>3 DEF Init, MadeInv, ForeignUntouched, Account, NoAccount
<1> QED BY <1>1, <1>2, <1>3 DEF IInv

LEMMA IInvStep == IInv /\ [Next]_vars => IInv'
<1>1. IInv /\ Next => IInv'
    BY TypeStep, MadeStep, RowStep, RunStep, TakenStep DEF IInv
<1>2. IInv /\ UNCHANGED vars => IInv'
  <2> SUFFICES ASSUME IInv, UNCHANGED vars PROVE IInv'
    OBVIOUS
  <2>1. TypeOK' /\ TakenInv'
    BY DEF vars, IInv, TypeOK, TakenInv, HandedOnce
  <2>2. MadeInv' /\ ForeignUntouched'
    BY DEF vars, IInv, MadeInv, FoundMade, Findable, ForeignUntouched
  <2>3. Own(row.after)' /\ RunInv'
    BY DEF vars, IInv, Own, RunInv, Active, Late, Had, Its
  <2> QED BY <2>1, <2>2, <2>3 DEF IInv
<1> QED BY <1>1, <1>2

THEOREM Inductive == Spec => []IInv
BY InitIInv, IInvStep, PTL DEF Spec

\* The variables keep their types, whatever the runs meet.
THEOREM TypeCorrect == Spec => []TypeOK
<1>1. IInv => TypeOK
    BY DEF IInv
<1> QED BY <1>1, Inductive, PTL

\* However many runs a row takes, it makes one account, and one more at most
\* for each that was renamed before a create was audited (createdBefore,
\* adopt).
THEOREM OneAccount == Spec => []CreatedOnce
<1>1. IInv => CreatedOnce
  <2> SUFFICES ASSUME IInv PROVE CreatedOnce
    OBVIOUS
  <2>1. made \in Nat /\ lost \in Nat
    BY DEF IInv, TypeOK
  <2>2. FoundMade \in {0, 1} /\ Findable \in {0, 1}
    BY DEF FoundMade, Findable
  <2> QED BY <2>1, <2>2 DEF IInv, MadeInv, CreatedOnce
<1> QED BY <1>1, Inductive, PTL

\* The one account of somebody else's that runs set the password of was made
\* since the job and left disabled, and every account they made is lost
\* (adoptable).
THEOREM OthersLeftAlone == Spec => []ForeignUntouched
<1>1. IInv => ForeignUntouched
    BY DEF IInv
<1> QED BY <1>1, Inductive, PTL

\* A step that the row or the audit says was done has been done
\* (mergeSteps, remainingSteps).
THEOREM NothingSkipped == Spec => []ProgressTrue
<1>1. IInv => ProgressTrue
    BY DEF IInv, MadeInv, Own, ProgressTrue
<1> QED BY <1>1, Inductive, PTL

\* Of any number of downloads at once, one at most takes a password
\* (takePasswords).
THEOREM TakenOnce == Spec => []HandedOnce
<1>1. IInv => HandedOnce
    BY DEF IInv, TakenInv
<1> QED BY <1>1, Inductive, PTL


-----------------------------------------------------------------------------
(***************************************************************************)
(* What a CSV shows works.                                                 *)
(***************************************************************************)
\* What's held changes with a hold, a download and its own end.
LEMMA HeldFrame ==
    ASSUME Next
    PROVE  \/ UNCHANGED held
           \/ Hold
           \/ Expire
           \/ \E d \in Download : Take(d)
<1>1. CASE Claim \/ Settle \/ Resume \/ Retry \/ Cancel \/ Crash \/ RecoverStale
    BY <1>1 DEF Claim, Settle, Resume, Retry, Cancel, Crash, RecoverStale
<1>2. CASE Runs
    BY <1>2 DEF Runs, ReadFacts, AskAudit, Adopt, FindCreated, PasswordFor, Write,
                Record, Rest, RecordOutcome, Throws, Unanswered, Unrecorded
<1>3. CASE Downloads
    BY <1>3 DEF Downloads, Ask, Look, Csv
<1>4. CASE Expire \/ Renames \/ TakeNames
    BY <1>4 DEF Renames, Rename, TakeNames
<1> QED BY <1>1, <1>2, <1>3, <1>4 DEF Next

\* The plan never changes.
LEMMA ModeFrame == ASSUME Next PROVE mode' = mode
<1>1. CASE Claim \/ Settle \/ Resume \/ Retry \/ Cancel \/ Crash \/ RecoverStale
    BY <1>1 DEF Claim, Settle, Resume, Retry, Cancel, Crash, RecoverStale, kept, plan
<1>2. CASE Runs
    BY <1>2 DEF Runs, ReadFacts, AskAudit, Adopt, FindCreated, PasswordFor, Hold, Write,
                Record, Rest, RecordOutcome, Throws, Unanswered, Unrecorded, kept, plan
<1>3. CASE Downloads
    BY <1>3 DEF Downloads, Ask, Look, Take, Csv, plan
<1>4. CASE Expire \/ Renames \/ TakeNames
    BY <1>4 DEF Expire, Renames, Rename, TakeNames, kept, plan
<1> QED BY <1>1, <1>2, <1>3, <1>4 DEF Next

\* While a download is answered that no retry crossed, nothing runs.
LEMMA ApartStep == ASSUME HInv, Next PROVE ApartInv'
<1>t. dl \in [Download -> DlType] /\ row \in RowType
    BY DEF HInv, IInv, TypeOK
<1>i. ApartInv /\ RunInv
    BY DEF HInv, IInv
<1>1. CASE Retry
  <2>1. (Downloading \ crossed)' = {}
    BY <1>1 DEF Retry, Downloading
  <2> QED BY <2>1 DEF ApartInv
<1>2. CASE Claim \/ Settle \/ Resume \/ Cancel \/ Crash \/ RecoverStale
  <2>1. Downloading \ crossed = {}
    BY <1>2, <1>i DEF Claim, Settle, Resume, Cancel, Crash, RecoverStale, ApartInv
  <2>2. UNCHANGED <<dl, crossed>>
    BY <1>2 DEF Claim, Settle, Resume, Cancel, Crash, RecoverStale, kept, downloads
  <2> QED BY <2>1, <2>2 DEF ApartInv, Downloading
<1>3. CASE Runs
  <2>1. Active /\ UNCHANGED <<dl, crossed>>
    BY <1>3 DEF Runs, ReadFacts, AskAudit, Adopt, FindCreated, PasswordFor, Hold, Write,
                Record, Rest, RecordOutcome, Throws, Unanswered, Unrecorded, Active,
                kept, downloads
  <2>2. Downloading \ crossed = {}
    BY <1>i, <2>1 DEF ApartInv, Active
  <2> QED BY <2>1, <2>2 DEF ApartInv, Downloading
<1>4. ASSUME NEW d \in Download, Ask(d)
      PROVE  ApartInv'
  <2>1. pc = "off"
    BY <1>4, <1>i DEF Ask, RunInv, Active
  <2> QED BY <1>4, <2>1 DEF Ask, ApartInv
<1>5. ASSUME NEW d \in Download, Look(d) \/ Take(d) \/ Csv(d)
      PROVE  ApartInv'
  <2>1. UNCHANGED <<pc, row, job, crossed>>
    BY <1>5 DEF Look, Take, Csv
  <2>2. Downloading' \subseteq Downloading
    BY <1>t, <1>5 DEF Look, Take, Csv, At, Downloading, DlType
  <2> QED BY <1>i, <2>1, <2>2 DEF ApartInv
<1>6. CASE Expire \/ Renames \/ TakeNames
  <2>1. UNCHANGED <<dl, crossed, pc, row, job>>
    BY <1>6 DEF Expire, Renames, Rename, TakeNames, kept, downloads
  <2> QED BY <1>i, <2>1 DEF ApartInv, Downloading
<1> QED BY <1>1, <1>2, <1>3, <1>4, <1>5, <1>6 DEF Next, Downloads

\* A take in the middle of a run is a crossed download's, and the first.
LEMMA MissedStep == ASSUME HInv, Next PROVE MissedInv'
<1>t. /\ dl \in [Download -> DlType] /\ crossed \subseteq Download
      /\ shown \in [Download -> Password \cup {NoPassword}]
    BY DEF HInv, IInv, TypeOK
<1>i. MissedInv /\ ApartInv /\ TakenInv /\ ShownInv
    BY DEF HInv, IInv
<1>1. CASE Claim \/ Settle \/ Resume \/ Retry \/ Crash \/ RecoverStale
  <2>1. ~Informed'
    BY <1>1 DEF Claim, Settle, Resume, Retry, Crash, RecoverStale, Informed, Active
  <2> QED BY <2>1 DEF MissedInv
<1>2. CASE Cancel
  <2>1. UNCHANGED <<dl, shown, crossed, seen, downloaded>> /\ (Informed' => Informed)
    BY <1>2 DEF Cancel, downloads, run, Informed, Active
  <2> QED BY <1>i, <2>1 DEF MissedInv
<1>3. CASE ReadFacts
  <2>1. seen' = downloaded /\ downloaded' = downloaded
    BY <1>3 DEF ReadFacts, kept
  <2> QED BY <2>1 DEF MissedInv
<1>4. CASE Rest \/ RecordOutcome \/ Unanswered \/ Unrecorded \/ Throws
  <2>1. ~Informed'
    BY <1>4 DEF Rest, RecordOutcome, Unanswered, Unrecorded, Throws, Informed, Active
  <2> QED BY <2>1 DEF MissedInv
<1>5. CASE AskAudit \/ Adopt \/ FindCreated \/ PasswordFor \/ Hold \/ Write \/ Record
  <2>1. Informed /\ UNCHANGED <<dl, shown, crossed, seen, downloaded>>
    BY <1>5 DEF AskAudit, Adopt, FindCreated, PasswordFor, Hold, Write, Record, Informed,
                Active, kept, downloads, run
  <2> QED BY <1>i, <2>1 DEF MissedInv
<1>6. ASSUME NEW d \in Download, Ask(d) \/ Look(d)
      PROVE  MissedInv'
  <2>1. UNCHANGED <<pc, shown, crossed, seen, downloaded>>
        /\ \A e \in Download : dl'[e].took = dl[e].took
    BY <1>t, <1>6 DEF Ask, Look, At, DlType, run
  <2> QED BY <1>i, <2>1 DEF MissedInv, Informed, Active
<1>7. ASSUME NEW d \in Download, Take(d), Informed
      PROVE  MissedInv'
  <2>1. d \in crossed
    BY <1>i, <1>7 DEF Take, ApartInv, Downloading, Informed, Active
  <2>2. UNCHANGED <<pc, shown, crossed, seen>> /\ (downloaded => downloaded')
    BY <1>7 DEF Take, Marked, run
  <2>3. \A e \in Download \ {d} : dl'[e].took = dl[e].took
    BY <1>t, <1>7 DEF Take, At, DlType
  <2>4. ~downloaded => \A e \in Download : dl[e].took = NoPassword /\ shown[e] = NoPassword
    BY <1>i DEF TakenInv, ShownInv
  <2> QED BY <1>i, <1>7, <2>1, <2>2, <2>3, <2>4 DEF MissedInv, Informed, Active
<1>8. ASSUME NEW d \in Download, Csv(d), Informed
      PROVE  MissedInv'
  <2>1. d \in crossed
    BY <1>i, <1>8 DEF Csv, ApartInv, Downloading, Informed, Active
  <2>2. UNCHANGED <<pc, crossed, seen, downloaded>>
    BY <1>8 DEF Csv, run
  <2>3. \A e \in Download \ {d} : dl'[e].took = dl[e].took /\ shown'[e] = shown[e]
    BY <1>t, <1>8 DEF Csv, At, DlType
  <2> QED BY <1>i, <2>1, <2>2, <2>3 DEF MissedInv, Informed, Active
<1>9. ASSUME NEW d \in Download, Take(d) \/ Csv(d), ~Informed
      PROVE  MissedInv'
  <2>1. ~Informed'
    BY <1>9 DEF Take, Csv, Informed, Active
  <2> QED BY <2>1 DEF MissedInv
<1>10. CASE Expire \/ Renames \/ TakeNames
  <2>1. UNCHANGED <<dl, shown, crossed, pc, seen, downloaded>>
    BY <1>10 DEF Expire, Renames, Rename, TakeNames, kept, run, downloads
  <2> QED BY <1>i, <2>1 DEF MissedInv, Informed, Active
<1> QED BY <1>1, <1>2, <1>3, <1>4, <1>5, <1>6, <1>7, <1>8, <1>9, <1>10
        DEF Next, Runs, Downloads


LEMMA ShownStep == ASSUME HInv, Next PROVE ShownInv'
<1>t. dl \in [Download -> DlType] /\ shown \in [Download -> Password \cup {NoPassword}]
      /\ account \in [Account -> AccountType] /\ made \in Nat
    BY DEF HInv, IInv, TypeOK
<1>i. ShownInv /\ UsingInv /\ ApartInv /\ TakenInv
    BY DEF HInv, IInv
<1>m. mode' = mode
    BY ModeFrame
<1>h. mode = "random" => held' = NoPassword
  <2>1. CASE Hold
    BY <1>i, <2>1 DEF Hold, UsingInv
  <2>2. CASE Expire \/ \E d \in Download : Take(d)
    BY <1>i, <2>2 DEF Expire, Take, ShownInv
  <2> QED BY <1>i, <2>1, <2>2, HeldFrame DEF ShownInv
<1>n. made > 0 \/ account["theirs"].origin = "since" =>
        made' > 0 \/ account'["theirs"].origin = "since"
  <2>1. CASE Write
    <3>1. PICK landed \in Prefix, done \in Prefix :
            /\ Had \subseteq done /\ done \subseteq landed
            /\ account' = [account EXCEPT ![Its] = SetUp(@, landed)]
            /\ made' = IF "create" \in landed \ Had THEN made + 1 ELSE made
            /\ Late
      BY <2>1, WriteIs DEF HInv
    <3>2. Its = "theirs" => account'[Its].origin = account[Its].origin
      <4> SUFFICES ASSUME Its = "theirs" PROVE account'[Its].origin = account[Its].origin
        OBVIOUS
      <4>1. "create" \in Had
        BY <3>1, HadIs DEF HInv, Its
      <4> QED BY <1>t, <3>1, <4>1 DEF SetUp, Account
    <3>3. Its # "theirs" => account'["theirs"] = account["theirs"]
      BY <1>t, <3>1 DEF Account
    <3> QED BY <1>t, <3>1, <3>2, <3>3
  <2>2. CASE Renames \/ TakeNames
    BY <2>2, OthersDo DEF HInv, NoAccount, Account
  <2>3. CASE ~Write /\ ~Renames /\ ~TakeNames
    BY <2>3, AccountFrame DEF Record, directory
  <2> QED BY <2>1, <2>2, <2>3
<1>1. CASE UNCHANGED <<dl, shown, downloaded>>
    BY <1>1, <1>i, <1>m, <1>h, <1>n DEF ShownInv
<1>2. ASSUME NEW d \in Download, Ask(d) \/ Look(d)
      PROVE  ShownInv'
  <2>1. UNCHANGED <<shown, downloaded>> /\ \A e \in Download : dl'[e].took = dl[e].took
    BY <1>t, <1>2 DEF Ask, Look, At, DlType
  <2> QED BY <1>i, <1>m, <1>h, <1>n, <2>1 DEF ShownInv
<1>3. ASSUME NEW d \in Download, Take(d)
      PROVE  ShownInv'
  <2>1. shown' = shown /\ UNCHANGED <<made, account>> /\ (downloaded => downloaded')
    BY <1>3 DEF Take, Marked, directory
  <2>2. ASSUME NEW e \in Download, dl'[e].took # NoPassword
        PROVE  mode # "random"
    <3>1. dl'[e].took = dl[e].took \/ held # NoPassword
      BY <1>t, <1>3, <2>2 DEF Take, At, DlType
    <3> QED BY <1>i, <2>2, <3>1 DEF ShownInv
  <2> QED BY <1>i, <1>m, <1>h, <2>1, <2>2 DEF ShownInv
<1>4. ASSUME NEW d \in Download, Csv(d)
      PROVE  ShownInv'
  <2>1. /\ UNCHANGED <<downloaded, made, account>>
        /\ \A e \in Download : dl'[e].took = dl[e].took
    BY <1>t, <1>4 DEF Csv, At, DlType, directory
  <2>2. ASSUME NEW e \in Download, shown'[e] # NoPassword
        PROVE  /\ downloaded /\ mode # "random"
               /\ made > 0 \/ account["theirs"].origin = "since"
    <3>1. CASE shown'[e] = shown[e]
      BY <1>i, <2>2, <3>1 DEF ShownInv
    <3>2. CASE shown'[e] # shown[e]
      <4>1. PasswordSet /\ dl[d].took # NoPassword
        BY <1>t, <1>4, <2>2, <3>2 DEF Csv, Shows
      <4>2. /\ row.after \in Progress
            /\ row.after.completed \subseteq account[row.after.id].steps
            /\ row.after.id = "theirs" => account["theirs"].origin = "since"
        BY <4>1 DEF PasswordSet, HInv, IInv, Own, TypeOK, RowType
      <4>3. row.after.id = "ours" => made > 0
        <5> SUFFICES ASSUME row.after.id = "ours" PROVE made > 0
          OBVIOUS
        <5>1. account["ours"] # NoAccount
          BY <4>1, <4>2 DEF PasswordSet, NoAccount
        <5> QED BY <1>t, <5>1 DEF HInv, IInv, MadeInv
      <4>4. row.after.id \in {"ours", "theirs"}
        BY <4>2 DEF Progress, Account
      <4> QED BY <1>i, <4>1, <4>2, <4>3, <4>4 DEF ShownInv, TakenInv
    <3> QED BY <3>1, <3>2
  <2> QED BY <1>i, <1>m, <1>h, <2>1, <2>2 DEF ShownInv
<1> QED BY <1>1, <1>2, <1>3, <1>4, DownloadFrame

LEMMA UsingStep == ASSUME HInv, Next PROVE UsingInv'
<1>i. UsingInv /\ MissedInv
    BY DEF HInv
<1>m. mode' = mode
    BY ModeFrame
<1>1. CASE FindCreated
  <2>1. pc' = "write" => "password" \in Had'
    BY <1>1 DEF FindCreated, Planned, Step, Had
  <2>2. pc' # "hold"
    BY <1>1 DEF FindCreated
  <2> QED BY <2>1, <2>2 DEF UsingInv
<1>2. CASE PasswordFor
  <2>1. UNCHANGED <<held, downloaded, progress>> /\ pc = "password"
    BY <1>2 DEF PasswordFor, kept
  <2>2. (seen => downloaded) /\ seen' = seen
    BY <1>i, <1>2, <2>1 DEF MissedInv, Informed, Active, PasswordFor
  <2>3. CASE pc' = "hold"
    BY <1>2, <1>m, <2>1, <2>2, <2>3 DEF PasswordFor, Use, UsingInv
  <2>4. CASE pc' = "write"
    <3>1. \/ mode = "random"
          \/ using'.fallback /\ (seen \/ held = NoPassword)
          \/ ~using'.fallback /\ ~seen /\ using'.password = held
      BY <1>2, <2>4 DEF PasswordFor, Use
    <3> QED BY <1>m, <2>1, <2>2, <2>4, <3>1 DEF UsingInv
  <2> QED BY <1>2, <2>3, <2>4 DEF PasswordFor
<1>3. CASE Hold
  <2>1. /\ pc' = "write" /\ UNCHANGED <<using, seen>> /\ held' = using.password
        /\ ~using.fallback /\ ~seen
    BY <1>3, <1>i DEF Hold, run, kept, UsingInv
  <2> QED BY <2>1 DEF UsingInv
<1>4. CASE Expire
  <2>1. UNCHANGED <<pc, progress, using, seen, downloaded>> /\ held' = NoPassword
    BY <1>4 DEF Expire, run, kept
  <2> QED BY <1>i, <1>m, <2>1 DEF UsingInv, Had
<1>5. CASE \E d \in Download : Take(d)
  <2>1. /\ UNCHANGED <<pc, progress, using, seen>>
        /\ UNCHANGED <<held, downloaded>> \/ (held' = NoPassword /\ downloaded')
    BY <1>5 DEF Take, Marked, run
  <2> QED BY <1>i, <1>m, <2>1 DEF UsingInv, Had
<1>6. CASE ~FindCreated /\ ~PasswordFor /\ ~Hold /\ ~Expire
           /\ ~\E d \in Download : Take(d)
  <2>1. UNCHANGED held
    BY <1>6, HeldFrame
  <2>2. \/ pc' \notin {"hold", "write"}
        \/ UNCHANGED <<pc, progress, using, seen, downloaded>>
    <3>1. CASE Claim \/ Settle \/ Resume \/ Retry \/ Cancel \/ Crash \/ RecoverStale
      BY <3>1 DEF Claim, Settle, Resume, Retry, Cancel, Crash, RecoverStale, run, plan
    <3>2. CASE Runs
      BY <1>6, <3>2 DEF Runs, ReadFacts, Found, AskAudit, Adopt, Write, Record, Rest,
                        RecordOutcome, Throws, Unanswered, Unrecorded
    <3>3. CASE Downloads
      BY <1>6, <3>3 DEF Downloads, Ask, Look, Csv, run
    <3>4. CASE Renames \/ TakeNames
      BY <3>4 DEF Renames, Rename, TakeNames, run
    <3> QED BY <1>6, <3>1, <3>2, <3>3, <3>4 DEF Next
  <2> QED BY <1>i, <1>m, <2>1, <2>2 DEF UsingInv, Had
<1> QED BY <1>1, <1>2, <1>3, <1>4, <1>5, <1>6


\* A run whose account hasn't its password yet: nothing says that any has.
LEMMA UnknownYet ==
    ASSUME IInv, Late, "password" \notin Had, NEW id \in Account
    PROVE  "password" \notin audited /\ ~Tells(row.after, id) /\ ~Tells(progress, id)
<1>1. /\ audited \subseteq Had
      /\ row.after # NoProgress => row.after.completed \subseteq Had
    BY HadIs
<1> QED BY <1>1 DEF Tells, Had

\* Only a write makes known what wasn't.
LEMMA KnownBefore ==
    ASSUME IInv, Next, ~Write, NEW id \in Account, Known(id)'
    PROVE  Known(id)
<1>t. /\ row \in RowType /\ RunInv
      /\ progress \in Progress \cup {NoProgress}
    BY DEF IInv, TypeOK
<1>1. CASE Claim \/ Settle \/ Resume \/ Retry \/ Cancel \/ Crash \/ RecoverStale
  <2>1. /\ UNCHANGED audited /\ row'.after = row.after
        /\ \/ pc' \in {"facts", "off", "idle"}
           \/ UNCHANGED <<pc, progress, told, using, out>>
    BY <1>t, <1>1 DEF Claim, Settle, Resume, Retry, Cancel, Crash, RecoverStale, run, kept,
                      RowType
  <2> QED BY <2>1 DEF Known, Late, Tells, ToldSet, Its
<1>2. CASE ReadFacts
  <2>1. UNCHANGED <<audited, row>> /\ pc' \in {"find", "audit"}
        /\ progress' \in {row.after, NoProgress}
    BY <1>2 DEF ReadFacts, Found, kept
  <2> QED BY <2>1 DEF Known, Late, Tells
<1>3. CASE AskAudit \/ Adopt
  <2>1. UNCHANGED <<audited, row>> /\ pc' \in {"find", "adopt", "password"}
    BY <1>3 DEF AskAudit, Adopt, Found, kept
  <2>2. progress = NoProgress
    BY <1>t, <1>3 DEF AskAudit, Adopt, RunInv
  <2>3. \/ progress' = progress
        \/ progress'.completed = audited /\ progress'.id = "ours"
        \/ progress'.completed = {"create"}
    BY <1>3 DEF AskAudit, Adopt, CreatedBefore, Found
  <2> QED BY <2>1, <2>2, <2>3 DEF Known, Late, Tells
<1>4. CASE FindCreated \/ PasswordFor \/ Hold
  <2>1. /\ UNCHANGED <<audited, row, progress>> /\ Late
        /\ pc' \in {"password", "write", "rest", "hold"}
    BY <1>4 DEF FindCreated, PasswordFor, Hold, kept, run, Late
  <2> QED BY <2>1 DEF Known, Late, Tells
<1>5. CASE Record
  <2>1. UNCHANGED <<row, told, using>> /\ pc = "record" /\ Late
    BY <1>5 DEF Record, kept, Late
  <2>2. CASE progress = NoProgress /\ "create" \in told.completed
    <3>1. /\ audited' = told.completed /\ pc' = "rest"
          /\ progress'.completed = told.completed /\ progress'.id = "ours"
      BY <1>5, <2>2 DEF Record
    <3> QED BY <2>1, <2>2, <3>1 DEF Known, Late, Tells, ToldSet, Its
  <2>3. CASE progress = NoProgress /\ "create" \notin told.completed
    <3>1. UNCHANGED audited /\ out'.after = NoProgress /\ pc' = "outcome"
      BY <1>5, <2>3 DEF Record, Failed
    <3> QED BY <2>1, <3>1 DEF Known, Late, Tells
  <2>4. CASE progress # NoProgress
    <3>1. /\ UNCHANGED audited /\ pc' = "rest" /\ progress'.id = progress.id
          /\ progress'.completed = progress.completed \cup told.completed
          /\ progress'.fallback = (progress.fallback \/ Fell)
      BY <1>t, <1>5, <2>4 DEF Record, Merged, Progress
    <3>2. Had \subseteq told.completed
      BY <1>t, <2>1 DEF RunInv
    <3>3. ASSUME Tells(progress', id) PROVE ToldSet /\ id = Its
      <4>1. "password" \in told.completed
        BY <2>4, <3>1, <3>2, <3>3 DEF Tells, Had
      <4>2. ~progress.fallback /\ ~using.fallback
        BY <3>1, <3>3, <4>1 DEF Tells, Fell
      <4> QED BY <2>4, <3>1, <3>3, <4>1, <4>2 DEF ToldSet, Tells, Its
    <3> QED BY <2>1, <3>1, <3>3 DEF Known, Late, Tells
  <2> QED BY <2>2, <2>3, <2>4
<1>6. CASE Rest
    BY <1>6 DEF Rest, kept, Known, Late, Tells
<1>7. CASE RecordOutcome \/ Unanswered \/ Unrecorded
  <2>1. /\ UNCHANGED audited /\ pc' \in {"idle", "off"}
        /\ row'.after = row.after \/ (pc = "outcome" /\ row'.after = out.after)
    BY <1>t, <1>7 DEF RecordOutcome, Unanswered, Unrecorded, RowType
  <2> QED BY <2>1 DEF Known, Late, Tells
<1>8. CASE Throws
  <2>1. UNCHANGED <<audited, row>> /\ pc' = "outcome" /\ out'.after = NoProgress
    BY <1>8 DEF Throws, RunEnds, Failed, kept
  <2> QED BY <2>1 DEF Known, Late, Tells
<1>9. CASE Downloads \/ Expire \/ Renames \/ TakeNames
  <2>1. UNCHANGED <<audited, row, pc, progress, told, using, out>>
    <3>1. CASE Downloads
      BY <3>1 DEF Downloads, Ask, Look, Take, Csv, run
    <3>2. CASE Expire \/ Renames \/ TakeNames
      BY <3>2 DEF Expire, Renames, Rename, TakeNames, run, kept
    <3> QED BY <1>9, <3>1, <3>2
  <2> QED BY <2>1 DEF Known, Late, Tells, ToldSet, Its
<1> QED BY <1>1, <1>2, <1>3, <1>4, <1>5, <1>6, <1>7, <1>8, <1>9 DEF Next, Runs

\* A write sets what is held, or what was shown isn't told of again.
LEMMA GoodWrite ==
    ASSUME HInv, Write, lost = 0, NEW id \in Account, Known(id)'
    PROVE  Good(id)'
<1>i. GoodInv /\ UsingInv /\ ApartInv /\ MissedInv /\ ShownInv /\ IInv
    BY DEF HInv
<1>t. account \in [Account -> AccountType] /\ made \in Nat
    BY <1>i DEF IInv, TypeOK
<1>1. PICK landed \in Prefix, done \in Prefix :
        /\ Had \subseteq done /\ done \subseteq landed
        /\ Had = {} /\ Taken => landed = {}
        /\ told'.completed = done
        /\ account' = [account EXCEPT ![Its] = SetUp(@, landed)]
        /\ UNCHANGED <<audited, row, progress, held, downloaded, dl, shown, crossed, using,
                       mode>>
        /\ pc = "write" /\ pc' = "record" /\ Late /\ Its' = Its
    BY <1>i, WriteIs
<1>2. Informed /\ Active
    BY <1>1 DEF Informed, Active
<1>3. /\ Had # {} => "create" \in Had
      /\ Had = {} <=> progress = NoProgress
      /\ Its \in Account
    BY <1>1, <1>i, HadIs
<1>4. \A d \in Download \ crossed : dl[d].at # "csv"
    BY <1>i, <1>2 DEF ApartInv, Downloading, Active
<1>5. CASE id # Its
  <2>1. account'[id] = account[id]
    BY <1>1, <1>5, <1>t
  <2>2. Known(id)
    BY <1>1, <1>5 DEF Known, Late, Tells
  <2> QED BY <1>1, <1>i, <2>1, <2>2 DEF GoodInv, Good
<1>6. CASE id = Its /\ "password" \in Had
  <2>1. account'[id].password = account[id].password
    BY <1>1, <1>3, <1>6, <1>t DEF SetUp
  <2>2. Known(id)
    <3>1. ToldSet' => Tells(progress, id)
      BY <1>1, <1>3, <1>6 DEF ToldSet, Tells, Had, Its
    <3> QED BY <1>1, <3>1 DEF Known, Late, Tells
  <2> QED BY <1>1, <1>i, <2>1, <2>2 DEF GoodInv, Good
<1>7. CASE id = Its /\ "password" \notin Had
  <2>1. "password" \notin audited /\ ~Tells(row.after, id) /\ ~Tells(progress, id)
    BY <1>i, <1>1, <1>7, UnknownYet
  <2>2. ToldSet'
    BY <1>1, <2>1 DEF Known, Late, Tells
  <2>3. account'[id].password = using.password
    BY <1>1, <1>3, <1>7, <1>t, <2>2 DEF SetUp, ToldSet
  <2>4. /\ progress = NoProgress => \A d \in Download : shown[d] = NoPassword
        /\ progress # NoProgress => ~using.fallback
    <3>1. ASSUME progress = NoProgress PROVE \A d \in Download : shown[d] = NoPassword
      <4>1. ~Taken
        BY <1>1, <1>3, <2>2, <3>1 DEF ToldSet
      <4>2. made + FoundMade = 0
        BY <1>i, <1>1, <3>1, <4>1, FirstOnly
      <4>3. ~(made > 0) /\ account["theirs"].origin # "since"
        BY <1>t, <4>2 DEF FoundMade
      <4> QED BY <1>i, <4>3 DEF ShownInv
    <3>2. progress # NoProgress => ~using.fallback
      BY <1>1, <2>2 DEF ToldSet
    <3> QED BY <3>1, <3>2
  <2>5. CASE mode = "random"
    BY <1>1, <1>4, <1>i, <2>5 DEF ShownInv, Good
  <2>6. CASE using.fallback /\ (downloaded \/ held = NoPassword)
    BY <1>1, <1>4, <2>4, <2>6 DEF Good
  <2>7. CASE /\ ~using.fallback /\ ~seen
             /\ downloaded \/ held \in {NoPassword, using.password}
    <3>1. \A d \in Download \ crossed : shown[d] = NoPassword
      BY <1>i, <1>2, <2>7 DEF MissedInv, ShownInv
    <3> QED BY <1>1, <1>4, <2>3, <2>7, <3>1 DEF Good
  <2> QED BY <1>1, <1>7, <1>i, <2>5, <2>6, <2>7 DEF UsingInv
<1> QED BY <1>5, <1>6, <1>7

LEMMA LostGrows == ASSUME IInv, Next, lost' = 0 PROVE lost = 0
<1>1. lost \in Nat
    BY DEF IInv, TypeOK
<1>2. lost' \in {lost, lost + 1}
    BY AccountFrame DEF Write, Record, Renames, Rename, TakeNames, directory
<1> QED BY <1>1, <1>2

LEMMA GoodStep == ASSUME HInv, Next PROVE GoodInv'
<1> SUFFICES ASSUME lost' = 0, NEW id \in Account, Known(id)' PROVE Good(id)'
    BY DEF GoodInv
<1>t. /\ dl \in [Download -> DlType] /\ lost = 0
      /\ shown \in [Download -> Password \cup {NoPassword}]
    BY LostGrows DEF HInv, IInv, TypeOK
<1>1. CASE Write
    BY <1>1, <1>t, GoodWrite
<1>2. CASE Hold
  <2>1. /\ pc = "hold" /\ UNCHANGED <<audited, row, progress>> /\ pc' = "write"
    BY <1>2 DEF Hold, kept, run
  <2>2. Late /\ "password" \notin Had
    BY <2>1 DEF HInv, IInv, RunInv, Late
  <2>3. "password" \notin audited /\ ~Tells(row.after, id) /\ ~Tells(progress, id)
    BY <2>2, UnknownYet DEF HInv
  <2> QED BY <2>1, <2>3 DEF Known, Late, Tells
<1>3. CASE ~Write /\ ~Hold
  <2>1. Good(id)
    BY <1>3, <1>t, KnownBefore DEF HInv, GoodInv
  <2>2. account'[id].password = account[id].password
    <3>1. CASE Renames \/ TakeNames
      BY <3>1, OthersDo DEF HInv, NoAccount
    <3> QED BY <1>3, <3>1, AccountFrame DEF Record, directory
  <2>3. CASE \E d \in Download : Ask(d) \/ Look(d)
    <3>1. PICK d \in Download : Ask(d) \/ Look(d)
      BY <2>3
    <3>2. /\ UNCHANGED <<held, downloaded, shown, crossed>>
          /\ \A e \in Download : dl'[e].at = "csv" =>
               dl[e].at = "csv" /\ dl'[e].took = dl[e].took
      BY <1>t, <3>1 DEF Ask, Look, At, DlType
    <3> QED BY <2>1, <2>2, <3>2 DEF Good
  <2>4. ASSUME NEW d \in Download, Take(d)
        PROVE  Good(id)'
    <3>1. \A e \in Download : e # d => dl'[e] = dl[e]
      BY <1>t, <2>4 DEF Take, At, Marked
    <3>2. d \notin crossed /\ dl'[d].at = "csv" =>
            dl'[d].took \in {NoPassword, account[id].password}
      BY <1>t, <2>1, <2>4 DEF Take, At, Good, DlType
    <3>3. UNCHANGED <<shown, crossed>> /\ downloaded'
      BY <2>4 DEF Take, Marked
    <3> QED BY <2>1, <2>2, <3>1, <3>2, <3>3 DEF Good
  <2>5. ASSUME NEW d \in Download, Csv(d)
        PROVE  Good(id)'
    <3>1. /\ UNCHANGED <<held, downloaded, crossed>>
          /\ \A e \in Download : dl'[e].at = "csv" =>
               dl[e].at = "csv" /\ dl'[e].took = dl[e].took
      BY <1>t, <2>5 DEF Csv, At, DlType
    <3>2. \A e \in Download \ crossed : shown'[e] \in {NoPassword, account[id].password}
      BY <1>t, <2>1, <2>5 DEF Csv, Good
    <3> QED BY <2>1, <2>2, <3>1, <3>2 DEF Good
  <2>6. CASE Expire
    <3>1. held' = NoPassword /\ UNCHANGED <<downloaded, dl, shown, crossed>>
      BY <2>6 DEF Expire, kept, downloads
    <3> QED BY <2>1, <2>2, <3>1 DEF Good
  <2>7. CASE UNCHANGED <<dl, shown, downloaded, held>> /\ crossed \subseteq crossed'
    BY <2>1, <2>2, <2>7 DEF Good
  <2> QED BY <1>3, <2>3, <2>4, <2>5, <2>6, <2>7, DownloadFrame, HeldFrame DEF Take
<1> QED BY <1>1, <1>2, <1>3

LEMMA InitHInv == Init => HInv
<1> SUFFICES ASSUME Init PROVE HInv
    OBVIOUS
<1>1. /\ dl = [d \in Download |-> [at |-> "none", seen |-> FALSE, took |-> NoPassword]]
      /\ shown = [d \in Download |-> NoPassword] /\ pc = "idle"
    BY DEF Init
<1>2. \A d \in Download : dl[d].at = "none" /\ dl[d].took = NoPassword /\ shown[d] = NoPassword
    BY <1>1
<1>3. GoodInv
    BY <1>1 DEF Init, GoodInv, Known, Tells, Late
<1>4. UsingInv /\ ApartInv /\ MissedInv
    BY <1>1, <1>2 DEF UsingInv, ApartInv, Downloading, MissedInv, Informed, Active
<1>5. ShownInv
    BY <1>2 DEF Init, ShownInv
<1> QED BY <1>3, <1>4, <1>5, InitIInv DEF HInv

LEMMA HInvStep == HInv /\ [Next]_vars => HInv'
<1>1. HInv /\ Next => HInv'
    BY IInvStep, GoodStep, UsingStep, ApartStep, MissedStep, ShownStep DEF HInv
<1>2. HInv /\ UNCHANGED vars => HInv'
  <2> SUFFICES ASSUME HInv, UNCHANGED vars PROVE HInv'
    OBVIOUS
  <2>1. IInv'
    BY IInvStep DEF HInv
  <2>2. GoodInv'
    BY DEF vars, HInv, GoodInv, Known, Late, Tells, ToldSet, Good, Its
  <2>3. UsingInv' /\ ShownInv'
    BY DEF vars, HInv, UsingInv, Had, ShownInv
  <2>4. ApartInv' /\ MissedInv'
    BY DEF vars, HInv, ApartInv, Downloading, MissedInv, Informed, Active
  <2> QED BY <2>1, <2>2, <2>3, <2>4 DEF HInv
<1> QED BY <1>1, <1>2

\* What a CSV shows of a row is its account's password, unless a retry came
\* between the download's check of the job and its answer, or the row lost an
\* account before a create was audited (passwordFor, passwordOf).
THEOREM ShownWorks == Spec => []HandedWorks
<1>1. HInv => HandedWorks
  <2> SUFFICES ASSUME HInv, PasswordSet, ~row.after.fallback, lost = 0
               PROVE  \A d \in Download \ crossed : Works(d)
    BY DEF HandedWorks
  <2>1. row.after.id \in Account
    BY DEF PasswordSet, HInv, IInv, TypeOK, RowType, Progress
  <2>2. Known(row.after.id)
    BY DEF PasswordSet, Known, Tells
  <2> QED BY <2>1, <2>2 DEF HInv, GoodInv, Good, Works
<1>2. HInv /\ [Next]_vars => HInv'
    BY HInvStep
<1> QED BY <1>1, <1>2, InitHInv, PTL DEF Spec
=============================================================================
