------------------------------ MODULE Sessions ------------------------------
(***************************************************************************)
(* One operator's sign-in sessions, step-ups and cached password           *)
(* (apps/api/src/services/sessions.ts, credentialCache.ts and              *)
(* loginBackoff.ts, plugins/auth.ts, routes/auth.ts, and the sign-in that  *)
(* first-run setup makes, routes/setup.ts).  Passwords are cached in the    *)
(* API's memory, so there is one API process; it may end and start again.  *)
(*                                                                         *)
(* A request resolves its cookie, finds the elevated session and its       *)
(* password, notes activity, and does what it came for.  Every SQL         *)
(* statement and every bind is one step, and so is what runs in memory     *)
(* between two awaits.  A statement may fail, and the request with it; one  *)
(* that had its effect first fails as the request's next step.             *)
(* A sign-in session has at most one elevated session, made with it, so    *)
(* both bear its id.                                                       *)
(*                                                                         *)
(* Left out: capabilities (but for having none left), the settings' cache  *)
(* and changes of the timeouts, the audit rows, the addresses backoff keys *)
(* by (one operator at one address), and the time between resolve's SELECT *)
(* and the last_seen_at UPDATE it doesn't wait for.                        *)
(***************************************************************************)
EXTENDS Naturals, FiniteSets

CONSTANTS
    Request,
    Session,          \* ids of sign-in sessions
    NoSession, NoRequest,
    SessionLife,      \* session.absolute_timeout_hours
    SignInIdle,       \* session.idle_timeout_minutes
    ElevatedLife,     \* the elevated session's absolute lifetime
    IdleTimeout,      \* and its idle timeout
    Threshold,        \* failures that lock out
    LockTime,
    MaxNow,           \* bound: the clock
    MaxCalls,         \* bound: requests
    MaxFaults         \* bound: crashes and failed statements

ASSUME ConstantsOK ==
    /\ NoSession \notin Session /\ NoRequest \notin Request
    /\ SessionLife \in Nat /\ SignInIdle \in Nat \ {0}
    /\ ElevatedLife \in Nat /\ IdleTimeout \in Nat \ {0}
    /\ Threshold \in Nat \ {0} /\ LockTime \in Nat \ {0}
    /\ MaxNow \in Nat /\ MaxCalls \in Nat /\ MaxFaults \in Nat
    /\ IsFiniteSet(Request)

VARIABLES
    now,
    \* admin_sessions: state, the session it was rotated from, last_seen_at
    \* and expires_at
    admin,
    \* elevated_sessions: state, idle_expires_at and expires_at
    elevated,
    directories,      \* how many setup has made
    setupLock,        \* SETUP_LOCK_KEY
    \* the process: whether it's up, the end of each cached password (0: none
    \* is cached), and backoff's failures and lock (0: none)
    up, cache, fails, locked,
    known,            \* tokens the browser has been given
    \* a request: the await it is at, what it came for, its session, the
    \* session it makes, the idle end it holds, and whether its UPDATE ended
    \* the elevated session
    pc, kind, on, new, idle, hit,
    forgotten,        \* history: sessions whose password a request has wiped
    calls, faults

dbVars   == <<admin, elevated, directories, setupLock>>
procVars == <<up, cache, fails, locked>>
reqVars  == <<pc, kind, on, new, idle, hit>>
vars == <<now, dbVars, procVars, known, reqVars, forgotten, calls, faults>>

Kind  == {"call", "login", "setUp", "stepUp", "stepDown", "logout"}
Steps == {"idle", "resolve", "find", "activity", "extend", "bind", "lock",
          "look", "create", "mint", "elevate", "revoke", "drop", "wipe"}
State == {"none", "open", "revoked"}
MaybeSession == Session \cup {NoSession}

AdminRow    == [state : State, from : MaybeSession, seen : Nat, ends : Nat]
ElevatedRow == [state : State, idle : Nat, ends : Nat]

DbOK ==
    /\ admin \in [Session -> AdminRow] /\ elevated \in [Session -> ElevatedRow]
    /\ directories \in Nat /\ setupLock \in Request \cup {NoRequest}
ProcOK == up \in BOOLEAN /\ cache \in [Session -> Nat] /\ fails \in Nat /\ locked \in Nat
RequestOK ==
    /\ pc \in [Request -> Steps] /\ kind \in [Request -> Kind]
    /\ on \in [Request -> MaybeSession] /\ new \in [Request -> MaybeSession]
    /\ idle \in [Request -> Nat] /\ hit \in [Request -> {"no", "yes"}]
CountsOK == now \in Nat /\ known \subseteq Session /\ forgotten \subseteq Session
            /\ calls \in Nat /\ faults \in Nat

\* A request past its session's look-up has it; one that revokes acts on it.
OnSession == {"resolve", "find", "activity", "extend", "revoke", "drop"}
HasSession == \A r \in Request : pc[r] \in OnSession => on[r] \in known

TypeOK == DbOK /\ ProcOK /\ RequestOK /\ CountsOK /\ HasSession

NoAdmin    == [state |-> "none", from |-> NoSession, seen |-> 0, ends |-> 0]
NoElevated == [state |-> "none", idle |-> 0, ends |-> 0]

\* Before setup, or after it: nobody is signed in.
Init ==
    /\ now = 1
    /\ admin = [s \in Session |-> NoAdmin]
    /\ elevated = [s \in Session |-> NoElevated]
    /\ directories \in {0, 1} /\ setupLock = NoRequest
    /\ up = TRUE /\ cache = [s \in Session |-> 0] /\ fails = 0 /\ locked = 0
    /\ known = {}
    /\ pc = [r \in Request |-> "idle"] /\ kind = [r \in Request |-> "call"]
    /\ on = [r \in Request |-> NoSession] /\ new = [r \in Request |-> NoSession]
    /\ idle = [r \in Request |-> 0] /\ hit = [r \in Request |-> "no"]
    /\ forgotten = {}
    /\ calls = 0 /\ faults = 0

Fault == faults < MaxFaults /\ faults' = faults + 1
Least(a, b) == IF a < b THEN a ELSE b

\* An id not used yet: which one says nothing.
NextSession == CHOOSE s \in Session : admin[s].state = "none"
CanMint == \E s \in Session : admin[s].state = "none"

\* resolve: the session isn't revoked, over or idle.
Live(s) == /\ admin[s].state = "open" /\ now < admin[s].ends
           /\ now <= admin[s].seen + SignInIdle
\* findActiveElevated.
Active(s) == /\ elevated[s].state = "open"
             /\ now < elevated[s].idle /\ now < elevated[s].ends
\* elevationLimits: the idle timeout is capped by the sign-in session's.
ElevatedIdle == Least(IdleTimeout, SignInIdle)

-----------------------------------------------------------------------------
(***************************************************************************)
(* The clock, the timers, and a process's end and start.                   *)
(***************************************************************************)
Tick ==
    /\ now < MaxNow /\ now' = now + 1
    /\ UNCHANGED <<dbVars, procVars, known, reqVars, forgotten, calls, faults>>

\* The cache's sweep wipes what has ended.
SweptNone == cache
Swept == [s \in Session |-> IF cache[s] <= now THEN 0 ELSE cache[s]]
Sweep ==
    /\ cache # Swept /\ cache' = Swept
    /\ UNCHANGED <<now, dbVars, up, fails, locked, known, reqVars, forgotten,
                   calls, faults>>

\* Failures leave the observation window, and a lock that has ended goes.
FailuresAge ==
    /\ fails > 0
    /\ \/ (\E n \in 0 .. fails - 1 : fails' = n) /\ UNCHANGED locked
       \/ locked # 0 /\ locked <= now /\ fails' = 0 /\ locked' = 0
    /\ UNCHANGED <<now, dbVars, up, cache, known, reqVars, forgotten, calls,
                   faults>>

\* What a request knows goes with it.
Ends(R) ==
    /\ pc' = [r \in Request |-> IF r \in R THEN "idle" ELSE pc[r]]
    /\ kind' = [r \in Request |-> IF r \in R THEN "call" ELSE kind[r]]
    /\ on' = [r \in Request |-> IF r \in R THEN NoSession ELSE on[r]]
    /\ new' = [r \in Request |-> IF r \in R THEN NoSession ELSE new[r]]
    /\ idle' = [r \in Request |-> IF r \in R THEN 0 ELSE idle[r]]
    /\ hit' = [r \in Request |-> IF r \in R THEN "no" ELSE hit[r]]
Finish(r) == Ends({r})

Crash ==
    /\ up /\ Fault
    /\ up' = FALSE /\ cache' = [s \in Session |-> 0] /\ fails' = 0 /\ locked' = 0
    /\ setupLock' = NoRequest
    /\ Ends(Request)
    /\ UNCHANGED <<now, admin, elevated, directories, known, forgotten, calls>>

\* onReady: endOpenElevatedSessions, if it can; then requests are taken.
Start ==
    /\ ~up /\ up' = TRUE
    /\ \/ /\ elevated' = [s \in Session |->
                            IF Active(s)
                            THEN [elevated[s] EXCEPT !.state = "revoked"]
                            ELSE elevated[s]]
          /\ UNCHANGED faults
       \/ Fault /\ UNCHANGED elevated
    /\ UNCHANGED <<now, admin, directories, setupLock, cache, fails, locked,
                   known, reqVars, forgotten, calls>>

-----------------------------------------------------------------------------
(***************************************************************************)
(* Every request: plugins/auth.ts's onRequest.                             *)
(***************************************************************************)
Goto(r, step) == pc' = [pc EXCEPT ![r] = step]

Comes(r, k, step) ==
    /\ pc[r] = "idle" /\ up
    /\ calls < MaxCalls /\ calls' = calls + 1
    /\ Goto(r, step)
    /\ kind' = [kind EXCEPT ![r] = k]

\* A request with a token the browser has had, if only in another tab.
Sends(r, s, k) ==
    /\ s \in known /\ Comes(r, k, "resolve")
    /\ on' = [on EXCEPT ![r] = s]
    /\ UNCHANGED <<now, dbVars, procVars, known, new, idle, hit, forgotten,
                   faults>>

Resolve(r) ==
    /\ pc[r] = "resolve"
    /\ LET s == on[r] IN
         IF Live(s)
         THEN /\ admin' = [admin EXCEPT ![s].seen = now] /\ Goto(r, "find")
              /\ UNCHANGED <<kind, on, new, idle, hit>>
         ELSE UNCHANGED admin /\ Finish(r)
    /\ UNCHANGED <<now, elevated, directories, setupLock, procVars, known,
                   forgotten, calls, faults>>

\* check: a lock that has ended goes, with its failures.
Locked == locked > now
Checked ==
    /\ ~Locked
    /\ IF locked # 0 THEN fails' = 0 /\ locked' = 0
       ELSE UNCHANGED <<fails, locked>>

\* What the request came for, once it is known to be the operator's.
Handle(r) ==
    \/ kind[r] = "call" /\ Finish(r) /\ UNCHANGED <<fails, locked>>
    \/ kind[r] = "stepUp" /\ Locked /\ Finish(r) /\ UNCHANGED <<fails, locked>>
    \/ /\ \/ kind[r] = "stepUp" /\ Checked /\ Goto(r, "bind")
          \/ /\ \/ kind[r] = "stepDown" /\ Goto(r, "drop")
                \/ kind[r] = "logout" /\ Goto(r, "revoke")
             /\ UNCHANGED <<fails, locked>>
       /\ UNCHANGED <<kind, on, new, idle, hit>>

\* The elevated session counts only with its password.  A background request
\* is no activity.
Find(r) ==
    /\ pc[r] = "find"
    /\ LET s == on[r] IN
         \/ /\ Active(s) /\ cache[s] > now /\ UNCHANGED cache
            /\ \/ /\ Goto(r, "activity")
                  /\ idle' = [idle EXCEPT ![r] = elevated[s].idle]
                  /\ UNCHANGED <<kind, on, new, hit, fails, locked>>
               \/ Handle(r)
         \/ /\ Active(s) /\ cache[s] <= now /\ Handle(r)
            /\ cache' = [cache EXCEPT ![s] = 0]
         \/ ~Active(s) /\ Handle(r) /\ UNCHANGED cache
    /\ UNCHANGED <<now, dbVars, up, known, forgotten, calls, faults>>

\* recordElevatedActivity; failing to doesn't fail the request.
StillActiveUnguarded(s) == elevated[s].state = "open"
StillActive(s) == elevated[s].state = "open" /\ now < elevated[s].idle
Activity(r) ==
    /\ pc[r] = "activity"
    /\ LET s == on[r]
           next == Least(now + ElevatedIdle, elevated[s].ends) IN
         \/ /\ next = idle[r] /\ Goto(r, "extend")
            /\ UNCHANGED <<elevated, kind, on, new, idle, hit, fails, locked,
                           faults>>
         \/ /\ next # idle[r] /\ StillActive(s) /\ Goto(r, "extend")
            /\ elevated' = [elevated EXCEPT ![s].idle = next]
            /\ idle' = [idle EXCEPT ![r] = next]
            /\ UNCHANGED <<kind, on, new, hit, fails, locked, faults>>
         \/ /\ next # idle[r] /\ ~StillActive(s) /\ Handle(r)
            /\ UNCHANGED <<elevated, faults>>
         \/ /\ Fault /\ Goto(r, "extend")
            /\ UNCHANGED <<elevated, kind, on, new, idle, hit, fails, locked>>
    /\ UNCHANGED <<now, admin, directories, setupLock, up, cache, known,
                   forgotten, calls>>

\* extend moves an entry's end; one wiped meanwhile stays wiped.
ExtendedAnyway(s, end) == end
Extended(s, end) == IF cache[s] = 0 THEN 0 ELSE end
Extend(r) ==
    /\ pc[r] = "extend" /\ Handle(r)
    /\ cache' = [cache EXCEPT ![on[r]] = Extended(on[r], idle[r])]
    /\ UNCHANGED <<now, dbVars, up, known, forgotten, calls, faults>>

-----------------------------------------------------------------------------
(***************************************************************************)
(* Signing in, first-run setup, and the password's check for a step-up.    *)
(***************************************************************************)
Login(r) ==
    /\ directories > 0 /\ Checked /\ Comes(r, "login", "bind")
    /\ UNCHANGED <<now, dbVars, up, cache, known, on, new, idle, hit, forgotten,
                   faults>>

SetUp(r) ==
    /\ directories = 0 /\ Comes(r, "setUp", "bind")
    /\ UNCHANGED <<now, dbVars, procVars, known, on, new, idle, hit, forgotten,
                   faults>>

\* recordFailure.
LocksOutLate(n) == n > Threshold
LocksOut(n) == n >= Threshold
Failed ==
    /\ fails' = fails + 1
    /\ locked' = IF LocksOut(fails + 1) THEN now + LockTime ELSE locked

\* An operator with no capability left can't sign in, and stepping up signs
\* them out.
DeniedAlike(r) == Goto(r, "revoke") /\ UNCHANGED <<kind, on, new, idle, hit>>
Denied(r) ==
    \/ kind[r] = "login" /\ Finish(r)
    \/ /\ kind[r] = "stepUp" /\ Goto(r, "revoke")
       /\ UNCHANGED <<kind, on, new, idle, hit>>

\* A bind: refused, impossible to make, or good, which clears the failures.
Bind(r) ==
    /\ pc[r] = "bind"
    /\ \/ kind[r] # "setUp" /\ Failed /\ Finish(r)
       \/ Finish(r) /\ UNCHANGED <<fails, locked>>
       \/ /\ kind[r] # "setUp" /\ fails' = 0 /\ locked' = 0
          /\ \/ Goto(r, "mint") /\ UNCHANGED <<kind, on, new, idle, hit>>
             \/ Denied(r)
       \/ /\ kind[r] = "setUp" /\ Goto(r, "lock")
          /\ UNCHANGED <<fails, locked, kind, on, new, idle, hit>>
    /\ UNCHANGED <<now, dbVars, up, cache, known, forgotten, calls, faults>>

\* Setup waits for its advisory lock, ...
SetUpLocks(r) ==
    /\ pc[r] = "lock" /\ setupLock = NoRequest
    /\ setupLock' = r /\ Goto(r, "look")
    /\ UNCHANGED <<now, admin, elevated, directories, procVars, known, kind, on,
                   new, idle, hit, forgotten, calls, faults>>

\* ... looks again, ...
ConfiguredNever == FALSE
Configured == directories > 0
SetUpLooks(r) ==
    /\ pc[r] = "look"
    /\ \/ Configured /\ Finish(r) /\ setupLock' = NoRequest
       \/ /\ ~Configured /\ Goto(r, "create")
          /\ UNCHANGED <<setupLock, kind, on, new, idle, hit>>
    /\ UNCHANGED <<now, admin, elevated, directories, procVars, known,
                   forgotten, calls, faults>>

\* ... and makes the directory.
SetUpCreates(r) ==
    /\ pc[r] = "create" /\ Goto(r, "mint")
    /\ directories' = directories + 1 /\ setupLock' = NoRequest
    /\ UNCHANGED <<now, admin, elevated, procVars, known, kind, on, new, idle,
                   hit, forgotten, calls, faults>>

-----------------------------------------------------------------------------
(***************************************************************************)
(* rotateAndElevate and what follows it: a new session, its elevated       *)
(* session, the old ones' end, the cache.                                  *)
(***************************************************************************)
\* createAdminSession: no rotation outlasts the session it is from.
NotAfterAnyway(s) == now + SessionLife
NotAfter(s) == IF s = NoSession THEN now + SessionLife
               ELSE Least(now + SessionLife, admin[s].ends)
\* Bound: a sign-in is stored while the clock can still see it end.
ClockLeft(s) == s # NoSession \/ now + SessionLife <= MaxNow
Mint(r) ==
    /\ pc[r] = "mint" /\ CanMint /\ ClockLeft(on[r])
    /\ admin' = [admin EXCEPT ![NextSession] =
                   [state |-> "open", from |-> on[r], seen |-> now,
                    ends |-> NotAfter(on[r])]]
    /\ IF kind[r] = "login"
       THEN known' = known \cup {NextSession} /\ Finish(r)
       ELSE /\ Goto(r, "elevate") /\ new' = [new EXCEPT ![r] = NextSession]
            /\ UNCHANGED <<known, kind, on, idle, hit>>
    /\ UNCHANGED <<now, elevated, directories, setupLock, procVars, forgotten,
                   calls, faults>>

\* createElevatedSession: neither end outlasts the sign-in session.
AfterElevateAlike(k) == "wipe"
AfterElevate(k) == IF k = "setUp" THEN "wipe" ELSE "revoke"
Elevate(r) ==
    /\ pc[r] = "elevate"
    /\ LET s == new[r]
           end == Least(now + ElevatedLife, admin[s].ends)
           idleEnd == Least(now + ElevatedIdle, end) IN
         /\ elevated' = [elevated EXCEPT ![s] =
                           [state |-> "open", idle |-> idleEnd, ends |-> end]]
         /\ idle' = [idle EXCEPT ![r] = idleEnd]
    /\ Goto(r, AfterElevate(kind[r]))
    /\ UNCHANGED <<now, admin, directories, setupLock, procVars, known, kind,
                   on, new, hit, forgotten, calls, faults>>

\* revokeAdminSession, for a step-up, a logout, or a step-up that signs out.
RevokeAdmin(r) ==
    /\ pc[r] = "revoke" /\ Goto(r, "drop")
    /\ admin' = [admin EXCEPT ![on[r]].state = "revoked"]
    /\ UNCHANGED <<now, elevated, directories, setupLock, procVars, known, kind,
                   on, new, idle, hit, forgotten, calls, faults>>

\* Its elevated session; only an id this UPDATE revoked is returned.
DropElevated(r) ==
    /\ pc[r] = "drop" /\ Goto(r, "wipe")
    /\ IF elevated[on[r]].state = "open"
       THEN /\ elevated' = [elevated EXCEPT ![on[r]].state = "revoked"]
            /\ hit' = [hit EXCEPT ![r] = "yes"]
       ELSE UNCHANGED <<elevated, hit>>
    /\ UNCHANGED <<now, admin, directories, setupLock, procVars, known, kind,
                   on, new, idle, forgotten, calls, faults>>

\* The old password goes, the new one is cached, the answer is sent.
Wipe(r) ==
    /\ pc[r] = "wipe"
    /\ cache' = [s \in Session |->
                   IF s = new[r] THEN idle[r]
                   ELSE IF s = on[r] /\ hit[r] = "yes" THEN 0 ELSE cache[s]]
    /\ known' = known \cup ({new[r]} \ {NoSession})
    /\ forgotten' = IF hit[r] = "yes" THEN forgotten \cup {on[r]} ELSE forgotten
    /\ Finish(r)
    /\ UNCHANGED <<now, dbVars, up, fails, locked, calls, faults>>

\* A statement fails, and the request answers 500.
StatementFails(r) ==
    /\ pc[r] \in {"resolve", "find", "look", "create", "mint", "elevate", "revoke",
                  "drop", "wipe"}
    /\ Fault /\ Finish(r)
    /\ setupLock' = IF setupLock = r THEN NoRequest ELSE setupLock
    /\ UNCHANGED <<now, admin, elevated, directories, procVars, known, forgotten,
                   calls>>

-----------------------------------------------------------------------------
Step(r) ==
    \/ Resolve(r) \/ Find(r) \/ Activity(r) \/ Extend(r)
    \/ Bind(r) \/ SetUpLocks(r) \/ SetUpLooks(r) \/ SetUpCreates(r)
    \/ Mint(r) \/ Elevate(r)
    \/ RevokeAdmin(r) \/ DropElevated(r) \/ Wipe(r)

Next ==
    \/ Tick \/ Sweep \/ FailuresAge \/ Crash \/ Start
    \/ \E r \in Request : Step(r) \/ StatementFails(r) \/ Login(r) \/ SetUp(r)
    \/ \E r \in Request, s \in Session,
          k \in {"call", "stepUp", "stepDown", "logout"} : Sends(r, s, k)

Spec == Init /\ [][Next]_vars

\* Time passes, timers run and awaits return; no request has to come.
Fairness ==
    /\ WF_vars(Tick) /\ WF_vars(Sweep)
    /\ \A r \in Request : WF_vars(Step(r))
FairSpec == Spec /\ Fairness

-----------------------------------------------------------------------------
(***************************************************************************)
(* Properties.                                                             *)
(***************************************************************************)
\* However often a session is rotated, and whenever activity extends it, a
\* cached password ends with the sign-in it began as: "re-authenticating
\* never extends a session's absolute lifetime" (sessions.ts:56).
Rotated(s) == admin[s].from # NoSession
PasswordWithinSignIn ==
    \A s \in Session :
        /\ Rotated(s) => admin[s].ends <= admin[admin[s].from].ends
        /\ elevated[s].ends <= admin[s].ends
        /\ cache[s] <= elevated[s].ends

\* A session with a password to write with is never held beside the one it
\* was rotated from: "any leaked pre-elevation token is unusable after
\* elevation" (sessions.ts:171).
OldTokenDead ==
    \A s \in Session :
        cache[s] # 0 /\ Rotated(s) => admin[admin[s].from].state = "revoked"

\* A sign-in session that is over or revoked, and an elevated one that is
\* over, idle or revoked, has ended for good, whatever request had it in hand.
Over(s) == admin[s].state = "revoked" \/ now >= admin[s].ends
EndedStaysEnded ==
    [][\A s \in Session :
         /\ admin[s].state # "none" /\ Over(s) => Over(s)'
         /\ elevated[s].state # "none" /\ ~Active(s) => ~Active(s)']_vars

\* A password that a logout, a step-down or a step-up has wiped isn't put
\* back, as by a request of the same session that was extending its end.
WipedStaysWiped == \A s \in forgotten : cache[s] = 0

\* No more binds fail in the observation window than lock out and were under
\* way when the last of them did: check comes before the bind, recordFailure
\* after it.
FailuresBounded == fails <= Threshold - 1 + Cardinality(Request)

\* One first-run setup makes a directory: "two setups racing past the
\* anyConfigured() check above would each create a directory" (setup.ts:272).
OneSetup == directories <= 1

\* A password whose elevated session has ended leaves memory, "even if the
\* operator never comes back" (credentialCache.ts:14).
DeadPasswordGoes ==
    \A s \in Session : cache[s] # 0 /\ ~Active(s) ~> cache[s] = 0
=============================================================================
