---------------------------- MODULE ClassPasses ----------------------------
(***************************************************************************)
(* The Temporary Access Pass of one person of a class                      *)
(* (apps/api/src/services/classPasses/service.ts and rules.ts, with        *)
(* services/temporaryAccessPass.ts and services/sweepTimer.ts), in any     *)
(* number of API processes.  Passes share nothing but their class's        *)
(* authoriser, so one of them is the whole story.                          *)
(*                                                                         *)
(* A sweep stops holding what needn't be held, checks the authoriser, and  *)
(* claims due passes: one to make or one to check again.  An operator      *)
(* reveals, reissues, reschedules or takes over.  Whatever makes a pass    *)
(* deletes the one it replaces, makes it in Entra, and records it if its   *)
(* claim still stands.  Every SQL statement or transaction and every call  *)
(* to Graph or AD is one step.  A run's token is the run itself.           *)
(*                                                                         *)
(* Left out: how long a retry waits (it passes), the fields of a pass, the *)
(* tenant's policy, Graph throttling, and the quarter of an hour an        *)
(* authoriser's standing is remembered.  Entra keeps one pass per person,  *)
(* and making another replaces it.                                         *)
(*                                                                         *)
(* An operator directly above another of the same parameters is that one   *)
(* with a bug seeded in it, which the run's properties must notice.        *)
(***************************************************************************)
EXTENDS Naturals, FiniteSets

CONSTANTS
    Sweeper,          \* the sweep of each process
    Route,            \* operators' calls under way
    Method,           \* ids Entra gives passes
    Operator,         \* who may authorise the class's passes
    Importer,         \* the one who ran the import
    NoRun, NoPass,
    MaxCalls,         \* bound: operator calls and changes made outside
    MaxFaults,        \* bound: crashes, failed calls and statements
    MaxLapses         \* bound: leases that end under a run still at work

ASSUME ConstantsOK ==
    /\ Sweeper \cap Route = {} /\ NoRun \notin Sweeper \cup Route
    /\ NoPass \notin Method
    /\ Importer \in Operator
    /\ MaxCalls \in Nat /\ MaxFaults \in Nat /\ MaxLapses \in Nat

VARIABLES
    \* class_passes: status, claim_token, next_attempt_at <= now(),
    \* entra_method_id, stale_method_id, the pass pass_enc holds, and
    \* whether message says to delete the pass by hand
    row,
    \* import_classes: its authoriser, and authority_lapsed_at
    authoriser, lapsed,
    created,          \* the import has made the account
    over,             \* the class is over, and with it every pass for it
    on,               \* the feature is on for the directory
    admin,            \* the holder is an administrator
    able,             \* the operators who may issue passes
    \* Entra: the person's pass, whether it is used, the ids given out
    entra, used, ids,
    \* a run: the await it is at, the row as it loaded it, the pass it has
    \* made, and what came of its call
    pc, seen, made, answer,
    \* a process: observedSpent has the person, and liveStatus
    observed, live,
    wasUnable,        \* history: operators found unable to issue passes
    calls, faults, lapses

rowVars   == <<row, authoriser, lapsed>>
worldVars == <<created, over, on, admin, able>>
entraVars == <<entra, used, ids>>
runVars   == <<pc, seen, made, answer>>
procVars  == <<observed, live>>
bounds    == <<calls, faults, lapses>>
vars == <<rowVars, worldVars, entraVars, runVars, procVars, wasUnable, bounds>>

Run     == Sweeper \cup Route
Status  == {"waiting", "issued", "refused", "failed"}
MaybeId == Method \cup {NoPass}
Pass == [status : Status, claim : Run \cup {NoRun}, due : BOOLEAN,
         method : MaybeId, stale : MaybeId, value : MaybeId, told : BOOLEAN]
\* What a run has loaded of the row and its class, and of the feature.
Seen == [method : MaybeId, stale : MaybeId, held : BOOLEAN,
         authoriser : Operator, on : BOOLEAN]
Listed == [id : MaybeId, used : BOOLEAN]
\* What a run's call to AD or Graph came to, as record and recheck take it.
Answer == {"none", "wait", "refused", "failed", "spent", "keep", "unable",
           "able", "deleted", "kept"}
Making  == {"delete", "clear", "preflight", "post", "record", "undo", "undone",
            "settle"}
Steps   == {"idle", "authority", "pause", "claim", "load", "recheck",
            "rechecked", "revoke", "revoked", "reveal", "roster"}
           \cup Making

RowOK    == row \in Pass /\ authoriser \in Operator /\ lapsed \in BOOLEAN
WorldOK  == /\ created \in BOOLEAN /\ over \in BOOLEAN /\ on \in BOOLEAN
            /\ admin \in BOOLEAN /\ able \subseteq Operator
EntraOK  == entra \in MaybeId /\ used \in BOOLEAN /\ ids \subseteq Method
RunsOK   == /\ pc \in [Run -> Steps] /\ seen \in [Run -> Seen]
            /\ made \in [Run -> MaybeId] /\ answer \in [Run -> Answer]
ProcsOK  == /\ observed \subseteq Sweeper /\ live \in [Sweeper -> SUBSET Listed]
            /\ wasUnable \subseteq Operator
BoundsOK == calls \in Nat /\ faults \in Nat /\ lapses \in Nat
TypeOK == RowOK /\ WorldOK /\ EntraOK /\ RunsOK /\ ProcsOK /\ BoundsOK

NewPass == [status |-> "waiting", claim |-> NoRun, due |-> TRUE,
            method |-> NoPass, stale |-> NoPass, value |-> NoPass,
            told |-> FALSE]

NothingSeen == [method |-> NoPass, stale |-> NoPass, held |-> FALSE,
                authoriser |-> Importer, on |-> TRUE]

\* The import is stored with its class: no account exists yet.
Init ==
    /\ row = NewPass
    /\ authoriser = Importer /\ lapsed = FALSE
    /\ created = FALSE /\ over = FALSE /\ on = TRUE /\ admin = FALSE
    /\ able = Operator /\ wasUnable = {}
    /\ entra = NoPass /\ used = FALSE /\ ids = {}
    /\ pc = [r \in Run |-> "idle"]
    /\ seen = [r \in Run |-> NothingSeen]
    /\ made = [r \in Run |-> NoPass] /\ answer = [r \in Run |-> "none"]
    /\ observed = {} /\ live = [s \in Sweeper |-> {}]
    /\ calls = 0 /\ faults = 0 /\ lapses = 0

Fault == faults < MaxFaults /\ faults' = faults + 1
Call  == calls < MaxCalls /\ calls' = calls + 1

\* NO_PASS: the fields an issued pass has, cleared when it's gone.
NoneHeld(p) == [p EXCEPT !.method = NoPass, !.value = NoPass]
\* What a reissue or a reschedule leaves to delete.
StaleOf(p) == IF p.method # NoPass THEN p.method ELSE p.stale
\* An id Entra hasn't given out: which one says nothing.
NextId == CHOOSE m \in Method : m \notin ids
\* isHeld.
Held(p) == p.status = "issued" /\ p.value # NoPass /\ ~over
\* passSpent(current, issuedMethodId) of what Entra lists.
Spent(current, isUsed, method) ==
    /\ current # NoPass
    /\ current # method \/ isUsed
\* The first of Entra's list, and the one still live.
Current == IF over THEN NoPass ELSE entra
Live    == IF used THEN NoPass ELSE Current

-----------------------------------------------------------------------------
(***************************************************************************)
(* The world: the import, the clock, Entra's and AD's administrators.      *)
(***************************************************************************)
AccountCreated ==
    /\ ~created /\ created' = TRUE
    /\ UNCHANGED <<rowVars, over, on, admin, able, entraVars, runVars, procVars,
                   wasUnable, bounds>>

ClassEnds ==
    /\ ~over /\ Call /\ over' = TRUE
    /\ UNCHANGED <<rowVars, created, on, admin, able, entraVars, runVars,
                   procVars, wasUnable, faults, lapses>>

BecomesAdmin ==
    /\ Call /\ admin' = ~admin
    /\ UNCHANGED <<rowVars, created, over, on, able, entraVars, runVars,
                   procVars, wasUnable, faults, lapses>>

SetFeature ==
    /\ Call /\ on' = ~on
    /\ UNCHANGED <<rowVars, created, over, admin, able, entraVars, runVars,
                   procVars, wasUnable, faults, lapses>>

\* An operator's account is disabled or loses its role, or gets it back.
AbilityChanges(o) ==
    /\ Call
    /\ able' = IF o \in able THEN able \ {o} ELSE able \cup {o}
    /\ wasUnable' = wasUnable \cup (Operator \ able')
    /\ UNCHANGED <<rowVars, created, over, on, admin, entraVars, runVars,
                   procVars, faults, lapses>>

\* The person signs in with a pass usable once, ...
Used ==
    /\ Live # NoPass /\ Call /\ used' = TRUE
    /\ UNCHANGED <<rowVars, worldVars, entra, ids, runVars, procVars,
                   wasUnable, faults, lapses>>

\* ... or is given one outside the class.
GivenElsewhere ==
    /\ ids # Method /\ Call
    /\ entra' = NextId /\ used' = FALSE /\ ids' = ids \cup {NextId}
    /\ UNCHANGED <<rowVars, worldVars, runVars, procVars, wasUnable,
                   faults, lapses>>

\* A run at work on a row it has claimed.
UnderClaim(r) ==
    \/ pc[r] \in Making \cup {"load", "recheck", "rechecked"}
    \/ pc[r] \in {"revoke", "revoked"} /\ r \in Sweeper

\* next_attempt_at comes: a retry's wait or an issued pass's day is over, or
\* a claim's lease has ended, under its run or after the run has died.
DueComes ==
    /\ ~row.due /\ row' = [row EXCEPT !.due = TRUE]
    /\ IF row.claim # NoRun /\ UnderClaim(row.claim)
       THEN lapses < MaxLapses /\ lapses' = lapses + 1
       ELSE UNCHANGED lapses
    /\ UNCHANGED <<authoriser, lapsed, worldVars, entraVars, runVars, procVars,
                   wasUnable, calls, faults>>

\* What liveStatus says of them is a minute old.
StatusAges(s) ==
    /\ live[s] # {} /\ live' = [live EXCEPT ![s] = {}]
    /\ UNCHANGED <<rowVars, worldVars, entraVars, runVars, observed, wasUnable,
                   bounds>>

-----------------------------------------------------------------------------
(***************************************************************************)
(* A run's parts: going on, letting go, and changing a row it has claimed. *)
(***************************************************************************)
Goto(r, step) == pc' = [pc EXCEPT ![r] = step]
Answers(r, a) == answer' = [answer EXCEPT ![r] = a]

\* What a run knows of the row is its own, ...
Loads(r) == seen' = [seen EXCEPT ![r].method = row.method, ![r].stale = row.stale,
                                 ![r].held = (row.value # NoPass)]
Forgets(r) ==
    /\ seen' = [seen EXCEPT ![r] = [NothingSeen EXCEPT !.on = seen[r].on]]
    /\ made' = [made EXCEPT ![r] = NoPass]
    /\ Answers(r, "none")

\* ... and goes with it.  A sweep goes on to the next due pass, or its tick's time is up.
Finish(r) ==
    /\ \E step \in IF r \in Sweeper THEN {"claim", "idle"} ELSE {"idle"} :
           Goto(r, step)
    /\ Forgets(r)

\* update: only while the claim is this run's, letting it go.
UpdateUnguarded(r, p) == row' = [p EXCEPT !.claim = NoRun]
Update(r, p) == row' = IF row.claim = r THEN [p EXCEPT !.claim = NoRun] ELSE row

\* Delete a pass in Entra; gone already is as good.
DeleteInEntra(m) ==
    /\ entra' = IF entra = m THEN NoPass ELSE entra
    /\ used' = (used /\ entra # m)
    /\ UNCHANGED ids

-----------------------------------------------------------------------------
(***************************************************************************)
(* The sweep: stop holding, check the authoriser, claim what is due.       *)
(***************************************************************************)
Unheld(s) == row.value # NoPass /\ (over \/ ~on \/ s \in observed)
SweepBegins(s) ==
    /\ pc[s] = "idle" /\ Goto(s, "authority")
    /\ row' = IF Unheld(s) THEN [row EXCEPT !.value = NoPass] ELSE row
    /\ observed' = observed \ {s}
    /\ seen' = [seen EXCEPT ![s].on = on]
    /\ UNCHANGED <<authoriser, lapsed, worldVars, entraVars, made, answer, live,
                   wasUnable, bounds>>

\* checkAuthority reads a class with a pass to make, and asks AD of its
\* authoriser: an answer the class already bears needs no write ...
AuthorityRead(s) ==
    /\ pc[s] = "authority"
    /\ IF seen[s].on /\ row.status = "waiting" /\ lapsed # (authoriser \notin able)
       THEN /\ Goto(s, "pause")
            /\ seen' = [seen EXCEPT ![s].authoriser = authoriser]
            /\ Answers(s, IF authoriser \in able THEN "able" ELSE "unable")
       ELSE Goto(s, "claim") /\ UNCHANGED <<seen, answer>>
    /\ UNCHANGED <<rowVars, worldVars, entraVars, made, procVars, wasUnable,
                   bounds>>

\* ... which pauses or resumes the class, if it is still that operator's.
StillTheirsAnyone(s) == TRUE
StillTheirs(s) == authoriser = seen[s].authoriser
AuthorityWrites(s) ==
    /\ pc[s] = "pause" /\ Goto(s, "claim") /\ Answers(s, "none")
    /\ lapsed' = IF StillTheirs(s) THEN answer[s] = "unable" ELSE lapsed
    /\ UNCHANGED <<row, authoriser, worldVars, entraVars, seen, made, procVars,
                   wasUnable, bounds>>

\* claimDue's WHERE: a pass to make of a class not paused, whose account is
\* there, or an issued one to check again.
ClaimableUnleased(s) ==
    /\ row.due /\ row.claim = NoRun /\ seen[s].on
    /\ \/ row.status = "waiting" /\ ~lapsed /\ created
       \/ Held(row)
ClaimableToMake(s) ==
    row.due /\ seen[s].on /\ row.status = "waiting" /\ ~lapsed /\ created
Claimable(s) ==
    /\ row.due /\ seen[s].on
    /\ \/ row.status = "waiting" /\ ~lapsed /\ created
       \/ Held(row)
ClaimDue(s) ==
    /\ pc[s] = "claim"
    /\ IF Claimable(s)
       THEN Goto(s, "load") /\ row' = [row EXCEPT !.claim = s, !.due = FALSE]
       ELSE Goto(s, "idle") /\ UNCHANGED row
    /\ UNCHANGED <<authoriser, lapsed, worldVars, entraVars, seen, made, answer,
                   procVars, wasUnable, bounds>>

\* The row as it is now; a sweep checks again a pass it finds issued.
Load(r) ==
    /\ pc[r] = "load"
    /\ Loads(r)
    /\ Goto(r, IF r \in Sweeper /\ row.status = "issued" THEN "recheck"
               ELSE "delete")
    /\ UNCHANGED <<rowVars, worldVars, entraVars, made, answer, procVars,
                   wasUnable, bounds>>

-----------------------------------------------------------------------------
(***************************************************************************)
(* make, attempt and record.                                               *)
(***************************************************************************)
\* The pass replaced goes first; while it can't be deleted none is made.
DeleteStale(r) ==
    /\ pc[r] = "delete"
    /\ \/ /\ ~on /\ Goto(r, "settle") /\ Answers(r, "wait")
          /\ UNCHANGED <<entra, used, ids, bounds>>
       \/ /\ on /\ seen[r].stale = NoPass /\ Goto(r, "preflight")
          /\ UNCHANGED <<entra, used, ids, answer, bounds>>
       \/ /\ on /\ seen[r].stale # NoPass /\ Goto(r, "clear")
          /\ DeleteInEntra(seen[r].stale)
          /\ UNCHANGED <<answer, bounds>>
       \/ /\ on /\ seen[r].stale # NoPass /\ Goto(r, "settle")
          /\ Answers(r, "wait") /\ Fault
          /\ UNCHANGED <<entra, used, ids, calls, lapses>>
    /\ UNCHANGED <<rowVars, worldVars, seen, made, procVars, wasUnable>>

ClearStale(r) ==
    /\ pc[r] = "clear" /\ Goto(r, "preflight")
    /\ row' = IF row.claim = r THEN [row EXCEPT !.stale = NoPass] ELSE row
    /\ UNCHANGED <<authoriser, lapsed, worldVars, entraVars, seen, made, answer,
                   procVars, wasUnable, bounds>>

\* attempt up to the POST: the class, the person, and what Entra has.
Preflight(r) ==
    /\ pc[r] = "preflight"
    /\ \/ Fault /\ Answers(r, "wait") /\ Goto(r, "settle")
       \/ /\ UNCHANGED faults
          /\ IF over THEN Answers(r, "failed") /\ Goto(r, "settle")
             ELSE IF admin THEN Answers(r, "refused") /\ Goto(r, "settle")
             ELSE IF Live # NoPass /\ r \in Sweeper
             THEN Answers(r, "failed") /\ Goto(r, "settle")
             ELSE Goto(r, "post") /\ UNCHANGED answer
    /\ UNCHANGED <<rowVars, worldVars, entraVars, seen, made, procVars,
                   wasUnable, calls, lapses>>

\* The POST replaces the pass Entra has; its answer may be lost.
Post(r) ==
    /\ pc[r] = "post"
    /\ ids # Method
    /\ LET m == NextId IN
         /\ entra' = m /\ used' = FALSE
         /\ ids' = ids \cup {m}
         /\ \/ /\ made' = [made EXCEPT ![r] = m] /\ Goto(r, "record")
               /\ UNCHANGED <<answer, bounds>>
            \/ /\ Answers(r, "wait") /\ Goto(r, "settle") /\ Fault
               /\ UNCHANGED <<made, calls, lapses>>
    /\ UNCHANGED <<rowVars, worldVars, seen, procVars, wasUnable>>

\* A made pass is stored with its audit row, or neither is.
Issued(m) == [row EXCEPT !.status = "issued", !.method = m, !.value = m,
                         !.due = FALSE]
Record(r) ==
    /\ pc[r] = "record"
    /\ \/ /\ row.claim = r /\ Update(r, Issued(made[r])) /\ Finish(r)
          /\ UNCHANGED bounds
       \/ /\ row.claim # r /\ Goto(r, "undo")
          /\ UNCHANGED <<row, seen, made, answer, bounds>>
       \/ /\ row.claim = r /\ Goto(r, "undo") /\ Fault
          /\ UNCHANGED <<row, seen, made, answer, calls, lapses>>
    /\ UNCHANGED <<authoriser, lapsed, worldVars, entraVars, procVars, wasUnable>>

\* Nobody holds the pass just made: it mustn't stay live.
Undo(r) ==
    /\ pc[r] = "undo" /\ Goto(r, "undone")
    /\ \/ /\ DeleteInEntra(made[r]) /\ Answers(r, "deleted")
          /\ UNCHANGED bounds
       \/ /\ Fault /\ Answers(r, "kept")
          /\ UNCHANGED <<entraVars, calls, lapses>>
    /\ UNCHANGED <<rowVars, worldVars, seen, made, procVars, wasUnable>>

Undone(r) == [NoneHeld(row) EXCEPT
    !.status = "waiting", !.due = FALSE,
    !.stale = IF answer[r] = "deleted" THEN NoPass ELSE made[r]]
RecordUndone(r) ==
    /\ pc[r] = "undone" /\ Update(r, Undone(r)) /\ Finish(r)
    /\ UNCHANGED <<authoriser, lapsed, worldVars, entraVars, procVars, wasUnable,
                   bounds>>

\* record of everything but a made pass.
SettledByCode(r) == IF answer[r] = "wait" THEN [row EXCEPT !.due = FALSE]
    ELSE [NoneHeld(row) EXCEPT !.status = "other_pass"]
Settled(r) ==
    IF answer[r] = "wait" THEN [row EXCEPT !.status = "waiting", !.due = FALSE]
    ELSE [NoneHeld(row) EXCEPT !.status = answer[r], !.due = TRUE,
                               !.told = FALSE]
Settle(r) ==
    /\ pc[r] = "settle" /\ Update(r, Settled(r)) /\ Finish(r)
    /\ UNCHANGED <<authoriser, lapsed, worldVars, entraVars, procVars, wasUnable,
                   bounds>>

Make(r) == \/ DeleteStale(r) \/ ClearStale(r) \/ Preflight(r) \/ Post(r)
           \/ Record(r) \/ Undo(r) \/ RecordUndone(r) \/ Settle(r)

-----------------------------------------------------------------------------
(***************************************************************************)
(* recheck and revoke.                                                     *)
(***************************************************************************)
Recheck(r) ==
    /\ pc[r] = "recheck"
    /\ \/ ~on /\ Goto(r, "rechecked") /\ UNCHANGED <<answer, faults>>
       \/ on /\ Fault /\ Answers(r, "wait") /\ Goto(r, "rechecked")
       \/ /\ on /\ UNCHANGED faults
          /\ IF admin THEN Goto(r, "revoke") /\ UNCHANGED answer
             ELSE /\ Goto(r, "rechecked")
                  /\ Answers(r, IF Spent(Current, used, seen[r].method)
                                THEN "spent" ELSE "keep")
    /\ UNCHANGED <<rowVars, worldVars, entraVars, seen, made, procVars,
                   wasUnable, calls, lapses>>

Rechecked(r) ==
    [row EXCEPT !.value = IF answer[r] = "spent" THEN NoPass ELSE @,
                !.due = (answer[r] = "none")]
RecordRecheck(r) ==
    /\ pc[r] = "rechecked" /\ Update(r, Rechecked(r)) /\ Finish(r)
    /\ UNCHANGED <<authoriser, lapsed, worldVars, entraVars, procVars, wasUnable,
                   bounds>>

\* Deleted in Entra, its value deleted, the person refused: a recheck under
\* its claim, a reveal whatever the row has become.
RevokeDeletes(r) ==
    /\ pc[r] = "revoke" /\ Goto(r, "revoked")
    /\ \/ DeleteInEntra(seen[r].method) /\ Answers(r, "deleted")
          /\ UNCHANGED bounds
       \/ Fault /\ Answers(r, "kept") /\ UNCHANGED <<entraVars, calls, lapses>>
    /\ UNCHANGED <<rowVars, worldVars, seen, made, procVars, wasUnable>>

Revoked(r) == [NoneHeld(row) EXCEPT
    !.status = "refused", !.due = TRUE, !.told = (answer[r] = "kept")]
RecordRevoke(r) ==
    /\ pc[r] = "revoked" /\ Finish(r)
    /\ IF r \in Sweeper THEN Update(r, Revoked(r))
       ELSE UpdateUnguarded(r, Revoked(r))
    /\ UNCHANGED <<authoriser, lapsed, worldVars, entraVars, procVars, wasUnable,
                   bounds>>

-----------------------------------------------------------------------------
(***************************************************************************)
(* The operators' routes.                                                  *)
(***************************************************************************)
Reveal(r) ==
    /\ pc[r] = "idle" /\ Call
    /\ Held(row) /\ \E s \in Sweeper : s \notin observed
    /\ Loads(r) /\ Goto(r, "reveal")
    /\ UNCHANGED <<rowVars, worldVars, entraVars, made, answer, procVars,
                   wasUnable, faults, lapses>>

\* Handed over, refused unchecked, or taken away.
RevealChecks(r) ==
    /\ pc[r] = "reveal"
    /\ \/ ~admin /\ Finish(r) /\ UNCHANGED faults
       \/ ~on /\ Finish(r) /\ UNCHANGED faults
       \/ Fault /\ Finish(r)
       \/ on /\ admin /\ Goto(r, "revoke") /\ UNCHANGED <<seen, made, answer, faults>>
    /\ UNCHANGED <<rowVars, worldVars, entraVars, procVars, wasUnable, calls,
                   lapses>>

\* The roster loads the row, and shows how its pass stands, by Graph or by
\* what Graph said within the minute, noting one that is spent.
Roster(r) ==
    /\ pc[r] = "idle" /\ Call /\ on
    /\ row.status = "issued" /\ ~over
    /\ Loads(r) /\ Goto(r, "roster")
    /\ UNCHANGED <<rowVars, worldVars, entraVars, made, answer, procVars,
                   wasUnable, faults, lapses>>

LivePass(s) == IF live[s] # {} THEN live[s] ELSE {[id |-> Current, used |-> used]}
RosterAsks(r, s) ==
    /\ pc[r] = "roster" /\ Finish(r)
    /\ live' = [live EXCEPT ![s] = LivePass(s)]
    /\ observed' =
         IF seen[r].held
            /\ \E c \in LivePass(s) : Spent(c.id, c.used, seen[r].method)
         THEN observed \cup {s} ELSE observed
    /\ UNCHANGED <<rowVars, worldVars, entraVars, wasUnable, bounds>>

\* A claim whose lease has ended may be taken.
Free(p) == p.claim = NoRun \/ p.due
Reissued(r) == [NoneHeld(row) EXCEPT !.status = "waiting", !.claim = r,
                                     !.due = FALSE, !.stale = StaleOf(row),
                                     !.told = FALSE]
Reissue(r) ==
    /\ pc[r] = "idle" /\ Call /\ created /\ Free(row)
    /\ row' = Reissued(r)
    /\ Goto(r, "load")
    /\ UNCHANGED <<authoriser, lapsed, worldVars, entraVars, seen, made, answer,
                   procVars, wasUnable, faults, lapses>>

MovedAlone == [NoneHeld(row) EXCEPT !.status = "waiting", !.claim = NoRun,
                                    !.due = TRUE, !.told = FALSE]
Moved == [NoneHeld(row) EXCEPT !.status = "waiting", !.claim = NoRun,
                               !.due = TRUE, !.stale = StaleOf(row),
                               !.told = FALSE]
Reschedule(o) ==
    /\ Call /\ on /\ o \in able
    /\ row' = Moved /\ over' = FALSE
    /\ authoriser' = o /\ lapsed' = FALSE
    /\ UNCHANGED <<created, on, admin, able, entraVars, runVars, procVars,
                   wasUnable, faults, lapses>>

TakeOver(o) ==
    /\ Call /\ o \in able
    /\ authoriser' = o /\ lapsed' = FALSE
    /\ UNCHANGED <<row, worldVars, entraVars, runVars, procVars, wasUnable,
                   faults, lapses>>

\* A run dies with its process, and what the process remembered with it.
Crash(r) ==
    /\ pc[r] # "idle" /\ Fault /\ Goto(r, "idle")
    /\ Forgets(r)
    /\ observed' = observed \ {r}
    /\ live' = [s \in Sweeper |-> IF s = r THEN {} ELSE live[s]]
    /\ UNCHANGED <<rowVars, worldVars, entraVars, wasUnable, calls, lapses>>

-----------------------------------------------------------------------------
Sweep(s) == SweepBegins(s) \/ AuthorityRead(s) \/ AuthorityWrites(s) \/ ClaimDue(s)
Check(r) == Recheck(r) \/ RecordRecheck(r) \/ RevokeDeletes(r) \/ RecordRevoke(r)
Step(r) == Load(r) \/ Make(r) \/ Check(r)
Answered(r) == RevealChecks(r) \/ \E s \in Sweeper : RosterAsks(r, s)
Asked(r) == Reveal(r) \/ Roster(r) \/ Reissue(r)
World == AccountCreated \/ ClassEnds \/ BecomesAdmin \/ SetFeature \/ Used
         \/ GivenElsewhere

Next ==
    \/ World \/ DueComes
    \/ \E o \in Operator : AbilityChanges(o) \/ Reschedule(o) \/ TakeOver(o)
    \/ \E s \in Sweeper : StatusAges(s) \/ Sweep(s)
    \/ \E r \in Run : Step(r) \/ Crash(r)
    \/ \E r \in Route : Asked(r) \/ Answered(r)

Spec == Init /\ [][Next]_vars

\* Timers tick and awaits return; no operator, import or crash has to come.
Fairness ==
    /\ WF_vars(DueComes)
    /\ \A s \in Sweeper : WF_vars(Sweep(s))
    /\ \A r \in Run : WF_vars(Step(r))
FairSpec == Spec /\ Fairness

-----------------------------------------------------------------------------
(***************************************************************************)
(* Properties.                                                             *)
(***************************************************************************)
\* A pass that is issued is the one whose value is held, and the pass it
\* replaced is not left behind: "deleted in Entra before the new one is
\* made" (service.ts:14).  A person without an issued pass holds no value.
NoPassBehind ==
    IF row.status = "issued"
    THEN row.stale = NoPass /\ row.method # NoPass
         /\ row.value \in {NoPass, row.method}
    ELSE row.method = NoPass /\ row.value = NoPass

\* A class is paused for its authoriser's lapse, never for the lapse of one
\* an operator has taken over from while the check was under way.
PausedForAuthoriser == lapsed => authoriser \in wasUnable

\* A pass the row knows of (issued, or to be deleted) is only let go once it
\* is gone from Entra, or the person's message says to delete it there.
\* Out of scope: a reveal's revoke, which overwrites whatever the row is.
Known(p) == {p.method, p.stale} \ {NoPass}
ForgetsOnlyDead ==
    [][(\A r \in Route : ~RecordRevoke(r))
       => \A m \in Known(row) \ Known(row') : entra' # m \/ row'.told]_vars

\* A pass in Entra that no row or run knows of comes about in five ways, and
\* no other: it is given outside the class; the process dies, or the POST's
\* answer is lost; a run that lost its claim can't delete the one it made; a
\* reveal takes away whatever the row has become; or the person's message says
\* to delete it.  In particular a claim that passes from run to run, a reissue
\* or a reschedule never leaves one behind: "nobody holds" one "unused"
\* (service.ts:829).
Stray == entra # NoPass /\ entra \notin Known(row) \cup {made[r] : r \in Run}
AnswerLost(r) == Post(r) /\ made' = made
KeptUnrecorded(r) == RecordUndone(r) /\ answer[r] = "kept" /\ row.claim # r
StraysExplained ==
    [][~Stray /\ Stray'
       => \/ GivenElsewhere \/ row'.told
          \/ \E r \in Run : Crash(r) \/ AnswerLost(r) \/ KeptUnrecorded(r)
          \/ \E r \in Route : RecordRevoke(r)]_vars

\* A person waiting for a pass gets one or an answer, while their account is
\* there, the class isn't paused and the feature is on.
Workable == created /\ on /\ ~lapsed
WaitingSettles ==
    Workable /\ row.status = "waiting" ~> row.status # "waiting" \/ ~Workable

\* A holder who has become an administrator has their pass taken away.
AdminLosesPass ==
    admin /\ on /\ Held(row) ~> ~admin \/ ~on \/ ~Held(row)

\* A value is deleted once its pass expired, was used or replaced, or the
\* feature is off: "a pass Entra says is spent is shown as not held, and the
\* next sweep stops holding it".
HeldUntilSpent ==
    [][(row.value # NoPass /\ row' = [row EXCEPT !.value = NoPass])
       => over \/ ~on \/ Spent(Current, used, row.value)]_vars
=============================================================================
