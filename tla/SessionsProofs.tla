--------------------------- MODULE SessionsProofs ---------------------------
(***************************************************************************)
(* Proofs about sessions, step-ups and the cached password, for any        *)
(* sessions, concurrent requests, timeouts and bounds.                     *)
(***************************************************************************)
EXTENDS Sessions, FiniteSetTheorems, TLAPS

\* Ends are ordered, and what a rotation made is later than what it is from.
RowInv(s) ==
    /\ elevated[s].idle <= elevated[s].ends
    /\ elevated[s].ends <= admin[s].ends
    /\ cache[s] <= elevated[s].ends
    /\ admin[s].state = "none" => s \notin known /\ elevated[s].state = "none"
                                  /\ admin[s].from = NoSession
    /\ elevated[s].state = "none" => elevated[s].ends = 0
    /\ Rotated(s) => /\ admin[s].from \in known
                     /\ admin[s].ends <= admin[admin[s].from].ends
    /\ cache[s] # 0 /\ Rotated(s) => admin[admin[s].from].state = "revoked"
    /\ s \in forgotten => s \in known /\ cache[s] = 0

\* A session a request is making is nobody else's; its idle end is its
\* elevated session's; it is cached once the old one is revoked.
RequestInv(r) ==
    /\ on[r] # NoSession \/ pc[r] \in OnSession \/ kind[r] = "stepUp" =>
         on[r] \in known
    /\ new[r] # NoSession =>
         /\ pc[r] \in {"elevate", "revoke", "drop", "wipe"}
         /\ new[r] \notin known /\ admin[new[r]].state = "open"
         /\ admin[new[r]].from = on[r]
         /\ pc[r] # "elevate" => idle[r] <= elevated[new[r]].ends
    /\ pc[r] = "elevate" => /\ new[r] # NoSession
                            /\ elevated[new[r]].state = "none"
    /\ pc[r] \in {"activity", "extend"} => idle[r] <= elevated[on[r]].ends
    /\ pc[r] \in {"drop", "wipe"} /\ new[r] # NoSession /\ on[r] # NoSession =>
         admin[on[r]].state = "revoked"
    /\ hit[r] = "yes" => pc[r] = "wipe" /\ on[r] \in known

\* What a request at a step can have come for.
KindInv == \A r \in Request :
    /\ kind[r] = "setUp" \/ pc[r] = "idle" => on[r] = NoSession
    /\ pc[r] \in {"bind", "mint"} => kind[r] \in {"login", "setUp", "stepUp"}
    /\ pc[r] \in {"lock", "look", "create"} => kind[r] = "setUp"
    /\ pc[r] = "elevate" => kind[r] \in {"setUp", "stepUp"}

OwnNew == \A r, q \in Request :
            new[r] # NoSession /\ new[r] = new[q] => r = q

\* Setup looks and creates under its lock.
LockInv ==
    /\ \A r \in Request : /\ pc[r] \in {"look", "create"} => setupLock = r
                          /\ pc[r] = "create" => directories = 0
    /\ directories <= 1

\* Failures and the binds that may still fail.
Binding == {r \in Request : pc[r] = "bind" /\ kind[r] # "setUp"}
BackoffInv ==
    /\ locked = 0 => fails < Threshold
    /\ locked # 0 =>
         fails + Cardinality(Binding) <= Threshold - 1 + Cardinality(Request)

Types == DbOK /\ ProcOK /\ RequestOK /\ CountsOK
IInv ==
    /\ Types
    /\ \A s \in Session : RowInv(s)
    /\ \A r \in Request : RequestInv(r)
    /\ OwnNew /\ LockInv /\ BackoffInv

-----------------------------------------------------------------------------
(***************************************************************************)
(* What the parts of an action do to requests.                             *)
(***************************************************************************)
Same(q) == /\ pc'[q] = pc[q] /\ kind'[q] = kind[q] /\ on'[q] = on[q]
           /\ new'[q] = new[q] /\ idle'[q] = idle[q] /\ hit'[q] = hit[q]
Gone(q) == /\ pc'[q] = "idle" /\ on'[q] = NoSession /\ new'[q] = NoSession
           /\ hit'[q] = "no" /\ kind'[q] = "call"
Moved(q, steps) == /\ pc'[q] \in steps /\ kind'[q] = kind[q] /\ on'[q] = on[q]
                   /\ new'[q] = new[q] /\ idle'[q] = idle[q] /\ hit'[q] = hit[q]

LEMMA EndsDoes ==
    ASSUME RequestOK, NEW R, Ends(R)
    PROVE  /\ RequestOK'
           /\ \A q \in Request : (q \in R => Gone(q)) /\ (q \notin R => Same(q))
  <1>1. RequestOK'
    BY DEF RequestOK, Ends, Steps, Kind, MaybeSession
  <1>2. \A q \in Request : (q \in R => Gone(q)) /\ (q \notin R => Same(q))
    BY DEF RequestOK, Ends, Gone, Same
  <1> QED
    BY <1>1, <1>2

LEMMA FinishDoes ==
    ASSUME RequestOK, NEW r \in Request, Finish(r)
    PROVE  RequestOK' /\ Gone(r) /\ \A q \in Request \ {r} : Same(q)
  BY EndsDoes DEF Finish

LEMMA GotoDoes ==
    ASSUME RequestOK, NEW r \in Request, NEW step \in Steps, Goto(r, step),
           UNCHANGED <<kind, on, new, idle, hit>>
    PROVE  RequestOK' /\ Moved(r, {step}) /\ \A q \in Request \ {r} : Same(q)
  BY DEF RequestOK, Goto, Moved, Same

\* A look-up's request ends, or goes on to a bind or to revoking.
LEMMA HandleDoes ==
    ASSUME RequestOK, ProcOK, ConstantsOK, NEW r \in Request, Handle(r)
    PROVE  /\ RequestOK' /\ fails' \in Nat /\ locked' \in Nat
           /\ Gone(r) \/ Moved(r, {"bind", "drop", "revoke"})
           /\ \A q \in Request \ {r} : Same(q)
           /\ \/ pc'[r] # "bind" /\ UNCHANGED <<fails, locked>>
              \/ kind'[r] # "setUp" /\ Checked
  <1>0. {"bind", "drop", "revoke"} \subseteq Steps
    BY DEF Steps
  <1>1. CASE kind[r] = "call" /\ Finish(r) /\ UNCHANGED <<fails, locked>>
    BY <1>1, FinishDoes DEF ProcOK, Gone
  <1>2. CASE kind[r] = "stepUp" /\ Finish(r) /\ UNCHANGED <<fails, locked>>
    BY <1>2, FinishDoes DEF ProcOK, Gone
  <1>3. CASE /\ kind[r] = "stepUp" /\ Checked /\ Goto(r, "bind")
             /\ UNCHANGED <<kind, on, new, idle, hit>>
    <2>1. RequestOK' /\ Moved(r, {"bind"}) /\ \A q \in Request \ {r} : Same(q)
      BY <1>0, <1>3, GotoDoes
    <2>2. fails' \in Nat /\ locked' \in Nat
      BY <1>3 DEF Checked, ProcOK
    <2> QED
      BY <1>3, <2>1, <2>2 DEF Moved
  <1>4. CASE /\ Goto(r, "drop") /\ UNCHANGED <<fails, locked>>
             /\ UNCHANGED <<kind, on, new, idle, hit>>
    <2>1. RequestOK' /\ Moved(r, {"drop"}) /\ \A q \in Request \ {r} : Same(q)
      BY <1>0, <1>4, GotoDoes
    <2> QED
      BY <1>4, <2>1 DEF Moved, ProcOK
  <1>5. CASE /\ Goto(r, "revoke") /\ UNCHANGED <<fails, locked>>
             /\ UNCHANGED <<kind, on, new, idle, hit>>
    <2>1. RequestOK' /\ Moved(r, {"revoke"}) /\ \A q \in Request \ {r} : Same(q)
      BY <1>0, <1>5, GotoDoes
    <2> QED
      BY <1>5, <2>1 DEF Moved, ProcOK
  <1> QED
    BY <1>1, <1>2, <1>3, <1>4, <1>5 DEF Handle

\* What a request relies on and other requests' steps leave alone.
Steady(q) ==
    /\ known \subseteq known'
    /\ \A s \in known : /\ elevated'[s].ends = elevated[s].ends
                        /\ admin[s].state = "revoked" =>
                             admin'[s].state = "revoked"
    /\ new[q] # NoSession =>
         /\ new[q] \notin known'
         /\ admin'[new[q]].state = admin[new[q]].state
         /\ admin'[new[q]].from = admin[new[q]].from
         /\ elevated'[new[q]].ends = elevated[new[q]].ends
         /\ elevated[new[q]].state = "none" => elevated'[new[q]].state = "none"

LEMMA OthersKeep ==
    ASSUME Types, NEW q \in Request, RequestInv(q), Same(q), Steady(q)
    PROVE  RequestInv(q)'
  <1>1. on[q] # NoSession \/ pc[q] \in OnSession \/ kind[q] = "stepUp" =>
          on[q] \in known
    BY DEF RequestInv
  <1>2. (on[q] # NoSession \/ pc[q] \in OnSession \/ kind[q] = "stepUp" =>
           on[q] \in known)'
    BY <1>1 DEF Same, Steady, OnSession
  <1>3. (new[q] # NoSession =>
           /\ pc[q] \in {"elevate", "revoke", "drop", "wipe"}
           /\ new[q] \notin known /\ admin[new[q]].state = "open"
           /\ admin[new[q]].from = on[q]
           /\ pc[q] # "elevate" => idle[q] <= elevated[new[q]].ends)'
    BY DEF RequestInv, Same, Steady
  <1>4. (pc[q] = "elevate" => new[q] # NoSession /\ elevated[new[q]].state = "none")'
    BY DEF RequestInv, Same, Steady
  <1>8. on[q] \in known => /\ elevated'[on[q]].ends = elevated[on[q]].ends
                           /\ admin[on[q]].state = "revoked" =>
                                admin'[on[q]].state = "revoked"
    BY DEF Steady
  <1>5. (pc[q] \in {"activity", "extend"} => idle[q] <= elevated[on[q]].ends)'
    <2>1. pc[q] \in {"activity", "extend"} => idle[q] <= elevated[on[q]].ends
      BY DEF RequestInv
    <2> QED
      BY <1>1, <1>8, <2>1 DEF Same, OnSession
  <1>6. (pc[q] \in {"drop", "wipe"} /\ new[q] # NoSession /\ on[q] # NoSession =>
           admin[on[q]].state = "revoked")'
    <2>1. pc[q] \in {"drop", "wipe"} /\ new[q] # NoSession /\ on[q] # NoSession =>
            admin[on[q]].state = "revoked"
      BY DEF RequestInv
    <2> QED
      BY <1>1, <1>8, <2>1 DEF Same
  <1>7. (hit[q] = "yes" => pc[q] = "wipe" /\ on[q] \in known)'
    BY <1>1 DEF RequestInv, Same, Steady
  <1> QED
    BY <1>2, <1>3, <1>4, <1>5, <1>6, <1>7 DEF RequestInv

LEMMA GoneHolds ==
    ASSUME NEW q \in Request, Gone(q)
    PROVE  RequestInv(q)'
  BY DEF RequestInv, Gone, OnSession

LEMMA UntouchedIsSteady ==
    ASSUME Types, NEW q \in Request, RequestInv(q), UNCHANGED <<admin, elevated, known>>
    PROVE  Steady(q)
  BY DEF Steady, RequestInv

\* No request makes a session but by minting it.
LEMMA NewKept ==
    ASSUME OwnNew, \A q \in Request : Same(q) \/ Gone(q) \/ new'[q] = new[q]
    PROVE  OwnNew'
  BY DEF OwnNew, Same, Gone

-----------------------------------------------------------------------------
(***************************************************************************)
(* Each part of the invariant, where a step leaves it alone.               *)
(***************************************************************************)
LEMMA TypesFrame ==
    Types => /\ UNCHANGED dbVars => DbOK'
             /\ UNCHANGED procVars => ProcOK'
             /\ UNCHANGED reqVars => RequestOK'
             /\ UNCHANGED <<now, known, forgotten, calls, faults>> => CountsOK'
             /\ Fault /\ UNCHANGED <<now, known, forgotten, calls>> => CountsOK'
  BY DEF Types, DbOK, ProcOK, RequestOK, CountsOK, dbVars, procVars, reqVars,
         Fault

LEMMA RowsFrame ==
    ASSUME \A s \in Session : RowInv(s),
           UNCHANGED <<admin, elevated, cache, known, forgotten>>
    PROVE  \A s \in Session : RowInv(s)'
  BY DEF RowInv, Rotated

LEMMA RequestsFrame ==
    ASSUME \A q \in Request : RequestInv(q), OwnNew,
           UNCHANGED <<reqVars, admin, known>>,
           \A s \in Session : /\ elevated'[s].ends = elevated[s].ends
                              /\ elevated[s].state = "none" =>
                                   elevated'[s].state = "none",
           Types
    PROVE  (\A q \in Request : RequestInv(q)') /\ OwnNew'
  <1>1. \A q \in Request : Same(q)
    BY DEF Same, reqVars
  <1>2. \A q \in Request : Steady(q)
    BY DEF Steady, RequestInv, Types, CountsOK, RequestOK, MaybeSession
  <1>3. OwnNew'
    BY <1>1, NewKept
  <1> QED
    BY <1>1, <1>2, <1>3, OthersKeep

\* A request's step the others need not notice.
LEMMA OneMoves ==
    ASSUME Types, \A q \in Request : RequestInv(q), NEW r \in Request,
           \A q \in Request \ {r} : Same(q) /\ Steady(q), RequestInv(r)'
    PROVE  \A q \in Request : RequestInv(q)'
  BY OthersKeep

LEMMA LockFrame ==
    ASSUME LockInv, UNCHANGED <<setupLock, directories>>,
           \A q \in Request : Same(q) \/ pc'[q] \notin {"look", "create"}
    PROVE  LockInv'
  BY DEF LockInv, Same

LEMMA BindingFinite ==
    ASSUME ConstantsOK
    PROVE  /\ IsFiniteSet(Request) /\ IsFiniteSet(Binding)
           /\ Cardinality(Request) \in Nat /\ Cardinality(Binding) \in Nat
           /\ Cardinality(Binding) <= Cardinality(Request)
  BY FS_Subset, FS_CardinalityType DEF ConstantsOK, Binding

LEMMA BackoffFrame ==
    ASSUME BackoffInv, ConstantsOK, ProcOK, UNCHANGED <<fails, locked>>,
           \A q \in Request : \/ Same(q) \/ pc'[q] # "bind"
                              \/ kind'[q] = "setUp"
    PROVE  BackoffInv'
  <1>1. Binding' \subseteq Binding
    BY DEF Binding, Same
  <1>2. IsFiniteSet(Binding') /\ Cardinality(Binding') <= Cardinality(Binding)
        /\ Cardinality(Binding') \in Nat
    BY <1>1, BindingFinite, FS_Subset, FS_CardinalityType
  <1> QED
    BY <1>2, BindingFinite DEF BackoffInv, ConstantsOK, ProcOK

LEMMA CheckedUnlocks ==
    ASSUME BackoffInv, ConstantsOK, Checked \/ (fails' = 0 /\ locked' = 0)
    PROVE  BackoffInv'
  BY DEF BackoffInv, ConstantsOK, Checked

\* A look-up's request that is handled.
LEMMA HandleKeeps ==
    ASSUME IInv, ConstantsOK, NEW r \in Request, Handle(r),
           pc[r] \in {"find", "activity", "extend"},
           UNCHANGED <<directories, setupLock>>, known \subseteq known'
    PROVE  RequestInv(r)' /\ OwnNew' /\ LockInv' /\ BackoffInv'
  <1> USE DEF IInv, Types
  <1>1. on[r] \in known /\ new[r] = NoSession /\ hit[r] # "yes"
    BY DEF RequestInv, OnSession
  <1>2. /\ Gone(r) \/ Moved(r, {"bind", "drop", "revoke"})
        /\ \A q \in Request \ {r} : Same(q)
        /\ \/ pc'[r] # "bind" /\ UNCHANGED <<fails, locked>>
           \/ kind'[r] # "setUp" /\ Checked
    BY HandleDoes
  <1>3. RequestInv(r)'
    <2>1. CASE Gone(r)
      BY <2>1, GoneHolds
    <2>2. CASE Moved(r, {"bind", "drop", "revoke"})
      BY <1>1, <2>2 DEF RequestInv, Moved, OnSession
    <2> QED
      BY <1>2, <2>1, <2>2
  <1>4. OwnNew'
    BY <1>2, NewKept DEF Moved
  <1>5. LockInv'
    BY <1>2, LockFrame DEF Gone, Moved
  <1>6. BackoffInv'
    BY <1>2, BackoffFrame, CheckedUnlocks
  <1> QED
    BY <1>3, <1>4, <1>5, <1>6

-----------------------------------------------------------------------------
(***************************************************************************)
(* The steps nobody asked for.                                             *)
(***************************************************************************)
LEMMA Initial == Init => IInv
  <1> SUFFICES ASSUME Init PROVE IInv
    OBVIOUS
  <1> USE ConstantsOK
  <1>1. Types
    BY DEF Init, Types, DbOK, ProcOK, RequestOK, CountsOK, NoAdmin, NoElevated,
           AdminRow, ElevatedRow, State, Steps, Kind, MaybeSession
  <1>2. \A s \in Session : RowInv(s)
    BY DEF Init, RowInv, Rotated, NoAdmin, NoElevated
  <1>3. \A r \in Request : RequestInv(r)
    BY DEF Init, RequestInv, OnSession
  <1>4. OwnNew /\ LockInv
    BY DEF Init, OwnNew, LockInv
  <1>5. BackoffInv
    BY DEF Init, BackoffInv, ConstantsOK
  <1> QED
    BY <1>1, <1>2, <1>3, <1>4, <1>5 DEF IInv

LEMMA TimersStep == IInv /\ (Tick \/ Sweep \/ FailuresAge) => IInv'
  <1> SUFFICES ASSUME IInv, Tick \/ Sweep \/ FailuresAge PROVE IInv'
    OBVIOUS
  <1> USE ConstantsOK DEF IInv
  <1>1. CASE Tick
    <2>1. CountsOK'
      BY <1>1 DEF Types, CountsOK, Tick
    <2>2. Types' /\ (\A s \in Session : RowInv(s)')
      BY <1>1, <2>1, TypesFrame, RowsFrame DEF Tick, Types, dbVars, procVars
    <2>3. (\A q \in Request : RequestInv(q)') /\ OwnNew'
      BY <1>1, RequestsFrame DEF Tick, dbVars
    <2>4. LockInv' /\ BackoffInv'
      BY <1>1 DEF Tick, dbVars, procVars, reqVars, LockInv, BackoffInv, Binding
    <2> QED
      BY <2>2, <2>3, <2>4
  <1>2. CASE Sweep
    <2>1. ProcOK' /\ \A s \in Session : cache'[s] \in {0, cache[s]}
      BY <1>2 DEF Types, ProcOK, Sweep, Swept
    <2>2. Types'
      BY <1>2, <2>1, TypesFrame DEF Sweep, Types
    <2>3. \A s \in Session : RowInv(s)'
      BY <1>2, <2>1 DEF Sweep, dbVars, RowInv, Rotated, Types, DbOK, ElevatedRow,
                        ProcOK
    <2>4. (\A q \in Request : RequestInv(q)') /\ OwnNew'
      BY <1>2, RequestsFrame DEF Sweep, dbVars
    <2>5. LockInv' /\ BackoffInv'
      BY <1>2 DEF Sweep, dbVars, procVars, reqVars, LockInv, BackoffInv, Binding
    <2> QED
      BY <2>2, <2>3, <2>4, <2>5
  <1>3. CASE FailuresAge
    <2>1. /\ fails' \in Nat /\ locked' \in Nat /\ fails' <= fails
          /\ locked' = locked \/ (fails' = 0 /\ locked' = 0)
      BY <1>3 DEF FailuresAge, Types, ProcOK
    <2>2. ProcOK'
      BY <1>3, <2>1 DEF FailuresAge, Types, ProcOK
    <2>3. Types' /\ (\A s \in Session : RowInv(s)')
      BY <1>3, <2>2, TypesFrame, RowsFrame DEF FailuresAge, Types, dbVars
    <2>4. (\A q \in Request : RequestInv(q)') /\ OwnNew'
      BY <1>3, RequestsFrame DEF FailuresAge, dbVars
    <2>5. LockInv' /\ UNCHANGED Binding
      BY <1>3 DEF FailuresAge, dbVars, reqVars, LockInv, Binding
    <2>6. BackoffInv'
      BY <2>1, <2>5, BindingFinite DEF BackoffInv, ConstantsOK, Types, ProcOK
    <2> QED
      BY <2>3, <2>4, <2>5, <2>6
  <1> QED
    BY <1>1, <1>2, <1>3

LEMMA RestartStep == IInv /\ (Crash \/ Start) => IInv'
  <1> SUFFICES ASSUME IInv, Crash \/ Start PROVE IInv'
    OBVIOUS
  <1> USE ConstantsOK DEF IInv
  <1>1. CASE Crash
    <2>1. RequestOK' /\ \A q \in Request : Gone(q)
      BY <1>1, EndsDoes DEF Crash, Types
    <2>2. DbOK' /\ ProcOK' /\ CountsOK'
      <3>1. DbOK'
        BY <1>1 DEF Crash, Types, DbOK
      <3>2. ProcOK'
        BY <1>1 DEF Crash, Types, ProcOK
      <3>3. CountsOK'
        BY <1>1 DEF Crash, Types, CountsOK, Fault
      <3> QED
        BY <3>1, <3>2, <3>3
    <2>3. \A s \in Session : RowInv(s)'
      BY <1>1 DEF Crash, RowInv, Rotated, Types, DbOK, ElevatedRow
    <2>4. \A q \in Request : RequestInv(q)'
      BY <2>1, GoneHolds
    <2>5. OwnNew' /\ LockInv'
      BY <1>1, <2>1, NewKept DEF Crash, LockInv, Gone
    <2>6. BackoffInv'
      BY <1>1, CheckedUnlocks DEF Crash
    <2> QED
      BY <2>1, <2>2, <2>3, <2>4, <2>5, <2>6 DEF Types
  <1>2. CASE Start
    <2>1. /\ elevated' \in [Session -> ElevatedRow]
          /\ \A s \in Session : /\ elevated'[s].ends = elevated[s].ends
                                /\ elevated'[s].idle = elevated[s].idle
                                /\ elevated'[s].state = "none" <=>
                                     elevated[s].state = "none"
      <3>1. CASE UNCHANGED elevated
        BY <3>1 DEF Types, DbOK
      <3>2. CASE elevated' = [s \in Session |->
                                IF Active(s)
                                THEN [elevated[s] EXCEPT !.state = "revoked"]
                                ELSE elevated[s]]
        BY <3>2 DEF Types, DbOK, ElevatedRow, Active, State
      <3> QED
        BY <1>2, <3>1, <3>2 DEF Start
    <2>2. DbOK' /\ ProcOK' /\ CountsOK'
      BY <1>2, <2>1 DEF Start, Types, DbOK, ProcOK, CountsOK, Fault
    <2>3. Types'
      BY <1>2, <2>2, TypesFrame DEF Start, Types
    <2>4. \A s \in Session : RowInv(s)'
      BY <1>2, <2>1 DEF Start, RowInv, Rotated
    <2>5. (\A q \in Request : RequestInv(q)') /\ OwnNew'
      BY <1>2, <2>1, RequestsFrame DEF Start
    <2>6. LockInv' /\ BackoffInv'
      BY <1>2 DEF Start, reqVars, LockInv, BackoffInv, Binding
    <2> QED
      BY <2>3, <2>4, <2>5, <2>6
  <1> QED
    BY <1>1, <1>2

-----------------------------------------------------------------------------
(***************************************************************************)
(* A request's steps.                                                      *)
(***************************************************************************)
\* A step that only sends a request on, ends it or begins it.
LEMMA OnlyMoves ==
    ASSUME IInv, ConstantsOK, NEW r \in Request,
           UNCHANGED <<now, admin, elevated, cache, known, forgotten, up>>,
           \A q \in Request \ {r} : Same(q), RequestOK', CountsOK',
           RequestInv(r)', new'[r] \in {new[r], NoSession}
    PROVE  /\ \A s \in Session : RowInv(s)'
           /\ \A q \in Request : RequestInv(q)'
           /\ OwnNew'
  <1> USE DEF IInv
  <1>1. \A s \in Session : RowInv(s)'
    BY RowsFrame
  <1>2. \A q \in Request : Steady(q)
    BY UntouchedIsSteady
  <1>3. \A q \in Request : RequestInv(q)'
    BY <1>2, OneMoves
  <1>4. OwnNew'
    BY DEF OwnNew, Same
  <1> QED
    BY <1>1, <1>3, <1>4

LEMMA ComesDoes ==
    ASSUME IInv, NEW r \in Request, NEW k \in Kind, NEW step \in Steps,
           Comes(r, k, step)
    PROVE  /\ pc[r] = "idle" /\ new[r] = NoSession /\ hit[r] = "no"
           /\ pc' \in [Request -> Steps] /\ kind' \in [Request -> Kind]
           /\ calls' \in Nat /\ pc'[r] = step /\ kind'[r] = k
           /\ \A q \in Request \ {r} : pc'[q] = pc[q] /\ kind'[q] = kind[q]
  <1>1. new[r] = NoSession /\ hit[r] = "no"
    BY DEF IInv, RequestInv, Comes, Types, RequestOK
  <1> QED
    BY <1>1 DEF IInv, Types, RequestOK, CountsOK, Comes, Goto

LEMMA SendsStep ==
    ASSUME IInv, ConstantsOK, NEW r \in Request, NEW s \in Session,
           NEW k \in {"call", "stepUp", "stepDown", "logout"}, Sends(r, s, k)
    PROVE  IInv'
  <1> USE DEF IInv
  <1>0. k \in Kind /\ "resolve" \in Steps
    BY DEF Kind, Steps
  <1>1. /\ pc[r] = "idle" /\ new[r] = NoSession /\ hit[r] = "no"
        /\ pc' \in [Request -> Steps] /\ kind' \in [Request -> Kind]
        /\ calls' \in Nat /\ pc'[r] = "resolve" /\ kind'[r] = k
        /\ \A q \in Request \ {r} : pc'[q] = pc[q] /\ kind'[q] = kind[q]
    BY <1>0, ComesDoes DEF Sends
  <1>2. RequestOK' /\ CountsOK' /\ on'[r] = s
        /\ \A q \in Request \ {r} : Same(q)
    BY <1>1 DEF Sends, Types, RequestOK, CountsOK, MaybeSession, Same
  <1>3. Types'
    BY <1>2, TypesFrame DEF Sends, Types
  <1>4. RequestInv(r)'
    BY <1>1, <1>2 DEF Sends, RequestInv, OnSession
  <1>5. /\ \A t \in Session : RowInv(t)'
        /\ \A q \in Request : RequestInv(q)'
        /\ OwnNew'
    BY <1>2, <1>4, OnlyMoves DEF Sends, dbVars, procVars
  <1>6. LockInv'
    BY <1>1, <1>2, LockFrame DEF Sends, dbVars
  <1>7. BackoffInv'
    BY <1>1, <1>2, BackoffFrame DEF Sends, procVars, Types
  <1> QED
    BY <1>3, <1>5, <1>6, <1>7

LEMMA LoginStep ==
    ASSUME IInv, ConstantsOK, NEW r \in Request, Login(r) \/ SetUp(r)
    PROVE  IInv'
  <1> USE DEF IInv
  <1>0. "login" \in Kind /\ "setUp" \in Kind /\ "bind" \in Steps
    BY DEF Kind, Steps
  <1>1. /\ pc[r] = "idle" /\ new[r] = NoSession /\ hit[r] = "no"
        /\ pc' \in [Request -> Steps] /\ kind' \in [Request -> Kind]
        /\ calls' \in Nat /\ pc'[r] = "bind" /\ kind'[r] \in {"login", "setUp"}
        /\ \A q \in Request \ {r} : pc'[q] = pc[q] /\ kind'[q] = kind[q]
    BY <1>0, ComesDoes DEF Login, SetUp
  <1>2. RequestOK' /\ CountsOK' /\ \A q \in Request \ {r} : Same(q)
    BY <1>1 DEF Login, SetUp, Types, RequestOK, CountsOK, Same
  <1>3. ProcOK'
    BY DEF Login, SetUp, Checked, procVars, Types, ProcOK
  <1>4. Types'
    BY <1>2, <1>3, TypesFrame DEF Login, SetUp, Types
  <1>5. RequestInv(r)'
    BY <1>1, <1>2 DEF Login, SetUp, RequestInv, OnSession
  <1>6. /\ \A t \in Session : RowInv(t)'
        /\ \A q \in Request : RequestInv(q)'
        /\ OwnNew'
    BY <1>2, <1>5, OnlyMoves DEF Login, SetUp, dbVars, procVars
  <1>7. LockInv'
    BY <1>1, <1>2, LockFrame DEF Login, SetUp, dbVars
  <1>8. BackoffInv'
    <2>1. CASE Login(r)
      BY <2>1, CheckedUnlocks DEF Login
    <2>2. CASE SetUp(r)
      BY <1>1, <1>2, <2>2, <1>0, BackoffFrame, ComesDoes DEF SetUp, procVars, Types
    <2> QED
      BY <2>1, <2>2
  <1> QED
    BY <1>4, <1>6, <1>7, <1>8

LEMMA ResolveStep ==
    ASSUME IInv, ConstantsOK, NEW r \in Request, Resolve(r)
    PROVE  IInv'
  <1> USE DEF IInv
  <1>1. on[r] \in known /\ on[r] \in Session /\ new[r] = NoSession /\ hit[r] = "no"
    BY DEF Resolve, RequestInv, OnSession, Types, CountsOK, RequestOK
  <1>2. /\ RequestOK' /\ \A q \in Request \ {r} : Same(q)
        /\ Gone(r) \/ Moved(r, {"find"})
    <2>1. CASE Finish(r)
      BY <2>1, FinishDoes DEF Types
    <2>2. CASE Goto(r, "find") /\ UNCHANGED <<kind, on, new, idle, hit>>
      BY <2>2, GotoDoes DEF Types, Steps
    <2> QED
      BY <2>1, <2>2 DEF Resolve
  <1>3. /\ admin' \in [Session -> AdminRow]
        /\ \A s \in Session : /\ admin'[s].state = admin[s].state
                              /\ admin'[s].from = admin[s].from
                              /\ admin'[s].ends = admin[s].ends
    BY <1>1 DEF Resolve, Types, DbOK, AdminRow, CountsOK
  <1>4. Types'
    BY <1>2, <1>3, TypesFrame DEF Resolve, Types, DbOK
  <1>5. \A s \in Session : RowInv(s)'
    BY <1>3 DEF Resolve, procVars, RowInv, Rotated, Types, DbOK, AdminRow,
                MaybeSession
  <1>6. \A q \in Request : Steady(q)
    BY <1>3 DEF Resolve, Steady, RequestInv, Types, CountsOK, RequestOK, MaybeSession
  <1>7. RequestInv(r)'
    <2>1. CASE Gone(r)
      BY <2>1, GoneHolds
    <2>2. CASE Moved(r, {"find"})
      BY <1>1, <2>2 DEF RequestInv, Moved, OnSession, Resolve
    <2> QED
      BY <1>2, <2>1, <2>2
  <1>8. (\A q \in Request : RequestInv(q)') /\ OwnNew'
    BY <1>2, <1>6, <1>7, OneMoves, NewKept DEF Moved
  <1>9. LockInv' /\ BackoffInv'
    BY <1>2, LockFrame, BackoffFrame DEF Resolve, procVars, Gone, Moved, Types
  <1> QED
    BY <1>4, <1>5, <1>8, <1>9

LEMMA FindStep ==
    ASSUME IInv, ConstantsOK, NEW r \in Request, Find(r)
    PROVE  IInv'
  <1> USE DEF IInv
  <1> DEFINE ToActivity == /\ Goto(r, "activity")
                           /\ idle' = [idle EXCEPT ![r] = elevated[on[r]].idle]
                           /\ UNCHANGED <<kind, on, new, hit, fails, locked>>
  <1>1. on[r] \in known /\ on[r] \in Session /\ new[r] = NoSession /\ hit[r] = "no"
    BY DEF Find, RequestInv, OnSession, Types, CountsOK, RequestOK
  <1>2. /\ Handle(r) \/ ToActivity
        /\ cache' = cache \/ cache' = [cache EXCEPT ![on[r]] = 0]
        /\ UNCHANGED <<now, dbVars, up, known, forgotten, calls, faults>>
        /\ pc[r] = "find"
    BY DEF Find
  <1>3. ASSUME ToActivity
        PROVE  RequestOK' /\ RequestInv(r)' /\ OwnNew' /\ LockInv' /\ BackoffInv'
               /\ fails' \in Nat /\ locked' \in Nat
               /\ \A q \in Request \ {r} : Same(q)
    <2>1. elevated[on[r]].idle \in Nat
      BY <1>1 DEF Types, DbOK, ElevatedRow
    <2>2. /\ RequestOK' /\ pc'[r] = "activity" /\ idle'[r] = elevated[on[r]].idle
          /\ on'[r] = on[r] /\ new'[r] = NoSession /\ hit'[r] = "no"
          /\ \A q \in Request \ {r} : Same(q)
      BY <1>1, <1>3, <2>1 DEF Types, RequestOK, Goto, Steps, Same
    <2>3. RequestInv(r)'
      BY <1>1, <1>2, <2>2 DEF RequestInv, OnSession, RowInv, dbVars
    <2>4. OwnNew'
      BY <1>1, <1>3, <2>2, NewKept
    <2>5. LockInv' /\ BackoffInv'
      BY <1>2, <1>3, <2>2, LockFrame, BackoffFrame DEF dbVars, Types
    <2> QED
      BY <1>3, <2>2, <2>3, <2>4, <2>5 DEF Types, ProcOK
  <1>4. ASSUME Handle(r)
        PROVE  RequestOK' /\ RequestInv(r)' /\ OwnNew' /\ LockInv' /\ BackoffInv'
               /\ fails' \in Nat /\ locked' \in Nat
               /\ \A q \in Request \ {r} : Same(q)
    BY <1>2, <1>4, HandleKeeps, HandleDoes DEF dbVars, Types
  <1>5. cache' \in [Session -> Nat] /\ \A s \in Session : cache'[s] \in {0, cache[s]}
    BY <1>1, <1>2 DEF Types, ProcOK
  <1>6. Types'
    BY <1>2, <1>3, <1>4, <1>5, TypesFrame DEF Types, ProcOK
  <1>7. \A s \in Session : RowInv(s)'
    BY <1>2, <1>5 DEF dbVars, RowInv, Rotated, Types, DbOK, ElevatedRow, ProcOK
  <1>8. \A q \in Request : RequestInv(q)'
    <2>1. \A q \in Request : Steady(q)
      BY <1>2, UntouchedIsSteady DEF dbVars
    <2> QED
      BY <1>2, <1>3, <1>4, <2>1, OneMoves
  <1> QED
    BY <1>2, <1>3, <1>4, <1>6, <1>7, <1>8

LEMMA ExtendStep ==
    ASSUME IInv, ConstantsOK, NEW r \in Request, Extend(r)
    PROVE  IInv'
  <1> USE DEF IInv
  <1>1. /\ on[r] \in known /\ on[r] \in Session
        /\ idle[r] \in Nat /\ idle[r] <= elevated[on[r]].ends
    BY DEF Extend, RequestInv, OnSession, Types, CountsOK, RequestOK
  <1>2. RequestOK' /\ RequestInv(r)' /\ OwnNew' /\ LockInv' /\ BackoffInv'
        /\ fails' \in Nat /\ locked' \in Nat
        /\ \A q \in Request \ {r} : Same(q)
    BY HandleKeeps, HandleDoes DEF Extend, dbVars, Types
  <1>3. /\ cache' \in [Session -> Nat]
        /\ \A s \in Session : \/ cache'[s] = cache[s]
                              \/ s = on[r] /\ cache[s] # 0 /\ cache'[s] = idle[r]
    BY <1>1 DEF Extend, Extended, Types, ProcOK
  <1>4. Types'
    BY <1>2, <1>3, TypesFrame DEF Extend, Types, ProcOK
  <1>5. \A s \in Session : RowInv(s)'
    BY <1>1, <1>3 DEF Extend, dbVars, RowInv, Rotated
  <1>6. \A q \in Request : RequestInv(q)'
    <2>1. \A q \in Request : Steady(q)
      BY UntouchedIsSteady DEF Extend, dbVars
    <2> QED
      BY <1>2, <2>1, OneMoves
  <1> QED
    BY <1>2, <1>4, <1>5, <1>6

LEMMA ActivityStep ==
    ASSUME IInv, ConstantsOK, NEW r \in Request, Activity(r)
    PROVE  IInv'
  <1> USE DEF IInv
  <1> DEFINE next == Least(now + ElevatedIdle, elevated[on[r]].ends)
  <1>1. /\ on[r] \in known /\ on[r] \in Session /\ new[r] = NoSession /\ hit[r] = "no"
        /\ idle[r] \in Nat /\ idle[r] <= elevated[on[r]].ends
    BY DEF Activity, RequestInv, OnSession, Types, CountsOK, RequestOK
  <1>2. next \in Nat /\ next <= elevated[on[r]].ends
    BY <1>1 DEF Types, CountsOK, DbOK, ElevatedRow, Least, ElevatedIdle, ConstantsOK
  <1>3. /\ elevated' \in [Session -> ElevatedRow]
        /\ \A s \in Session : /\ elevated'[s].state = elevated[s].state
                              /\ elevated'[s].ends = elevated[s].ends
                              /\ elevated'[s].idle <= elevated'[s].ends
    <2>1. CASE UNCHANGED elevated
      BY <2>1 DEF Types, DbOK, RowInv
    <2>2. CASE elevated' = [elevated EXCEPT ![on[r]].idle = next]
      BY <1>1, <1>2, <2>2 DEF Types, DbOK, ElevatedRow, RowInv
    <2> QED
      BY <2>1, <2>2 DEF Activity
  <1>4. ASSUME Goto(r, "extend"), UNCHANGED <<kind, on, new, hit, fails, locked>>,
               idle' = idle \/ idle' = [idle EXCEPT ![r] = next]
        PROVE  RequestOK' /\ RequestInv(r)' /\ OwnNew' /\ LockInv' /\ BackoffInv'
               /\ fails' \in Nat /\ locked' \in Nat
               /\ \A q \in Request \ {r} : Same(q)
    <2>1. /\ RequestOK' /\ pc'[r] = "extend" /\ idle'[r] \in {idle[r], next}
          /\ on'[r] = on[r] /\ new'[r] = NoSession /\ hit'[r] = "no"
          /\ \A q \in Request \ {r} : Same(q)
      BY <1>1, <1>2, <1>4 DEF Types, RequestOK, Goto, Steps, Same
    <2>2. RequestInv(r)'
      BY <1>1, <1>2, <1>3, <2>1 DEF RequestInv, OnSession, Activity
    <2>3. OwnNew'
      BY <1>1, <2>1, NewKept
    <2>4. LockInv' /\ BackoffInv'
      BY <1>4, <2>1, LockFrame, BackoffFrame DEF Activity, Types
    <2> QED
      BY <1>4, <2>1, <2>2, <2>3, <2>4 DEF Types, ProcOK
  <1>5. ASSUME Handle(r)
        PROVE  RequestOK' /\ RequestInv(r)' /\ OwnNew' /\ LockInv' /\ BackoffInv'
               /\ fails' \in Nat /\ locked' \in Nat
               /\ \A q \in Request \ {r} : Same(q)
    BY <1>5, HandleKeeps, HandleDoes DEF Activity, Types
  <1>6. RequestOK' /\ RequestInv(r)' /\ OwnNew' /\ LockInv' /\ BackoffInv'
        /\ fails' \in Nat /\ locked' \in Nat
        /\ \A q \in Request \ {r} : Same(q)
    BY <1>4, <1>5 DEF Activity
  <1>7. Types'
    <2>1. faults' \in Nat
      BY DEF Activity, Fault, Types, CountsOK
    <2> QED
      BY <1>3, <1>6, <2>1 DEF Activity, Types, DbOK, ProcOK, CountsOK
  <1>8. \A s \in Session : RowInv(s)'
    BY <1>3 DEF Activity, RowInv, Rotated
  <1>9. \A q \in Request : RequestInv(q)'
    <2>1. \A q \in Request : Steady(q)
      BY <1>3 DEF Activity, Steady, RequestInv, Types, CountsOK, RequestOK,
                  MaybeSession
    <2> QED
      BY <1>6, <2>1, OneMoves
  <1> QED
    BY <1>6, <1>7, <1>8, <1>9

LEMMA BindStep ==
    ASSUME IInv, ConstantsOK, NEW r \in Request, Bind(r)
    PROVE  IInv'
  <1> USE DEF IInv
  <1>0. {"mint", "revoke", "lock"} \subseteq Steps
    BY DEF Steps
  <1>1. new[r] = NoSession /\ hit[r] # "yes" /\ pc[r] = "bind"
    BY DEF Bind, RequestInv, OnSession
  <1>2. /\ RequestOK' /\ \A q \in Request \ {r} : Same(q)
        /\ \/ Gone(r)
           \/ Moved(r, {"mint"})
           \/ Moved(r, {"lock"})
           \/ Moved(r, {"revoke"}) /\ kind[r] = "stepUp"
    <2>1. CASE Finish(r)
      BY <2>1, FinishDoes DEF Types
    <2>2. CASE Goto(r, "mint") /\ UNCHANGED <<kind, on, new, idle, hit>>
      BY <1>0, <2>2, GotoDoes DEF Types
    <2>3. CASE Goto(r, "lock") /\ UNCHANGED <<kind, on, new, idle, hit>>
      BY <1>0, <2>3, GotoDoes DEF Types
    <2>4. CASE /\ kind[r] = "stepUp" /\ Goto(r, "revoke")
               /\ UNCHANGED <<kind, on, new, idle, hit>>
      BY <1>0, <2>4, GotoDoes DEF Types
    <2> QED
      BY <2>1, <2>2, <2>3, <2>4 DEF Bind, Denied
  <1>3. RequestInv(r)'
    <2>1. CASE Gone(r)
      BY <2>1, GoneHolds
    <2>2. CASE Moved(r, {"mint"}) \/ Moved(r, {"lock"})
      BY <1>1, <2>2 DEF RequestInv, Moved, OnSession, Bind, dbVars
    <2>3. CASE Moved(r, {"revoke"}) /\ kind[r] = "stepUp"
      BY <1>1, <2>3 DEF RequestInv, Moved, OnSession, Bind, dbVars
    <2> QED
      BY <1>2, <2>1, <2>2, <2>3
  <1>4. ProcOK'
    BY DEF Bind, Failed, Types, ProcOK, CountsOK, ConstantsOK
  <1>5. Types'
    BY <1>2, <1>4, TypesFrame DEF Bind, Types
  <1>6. /\ \A t \in Session : RowInv(t)'
        /\ \A q \in Request : RequestInv(q)'
        /\ OwnNew'
    BY <1>2, <1>3, <1>5, OnlyMoves DEF Bind, dbVars, Types, Gone, Moved
  <1>7. LockInv'
    BY <1>2, LockFrame DEF Bind, dbVars, Gone, Moved
  <1>8. BackoffInv'
    <2>1. pc'[r] # "bind"
      BY <1>2 DEF Gone, Moved
    <2>2. CASE UNCHANGED <<fails, locked>>
      BY <1>2, <2>1, <2>2, BackoffFrame DEF Types
    <2>3. CASE fails' = 0 /\ locked' = 0
      BY <2>3, CheckedUnlocks
    <2>4. CASE Failed /\ kind[r] # "setUp"
      <3>1. r \in Binding /\ Binding' \subseteq Binding \ {r}
        BY <1>1, <1>2, <2>1, <2>4 DEF Binding, Same
      <3>2. /\ IsFiniteSet(Binding \ {r})
            /\ Cardinality(Binding \ {r}) = Cardinality(Binding) - 1
        BY <3>1, BindingFinite, FS_RemoveElement
      <3>3. /\ Cardinality(Binding') <= Cardinality(Binding) - 1
            /\ Cardinality(Binding') \in Nat
        BY <3>1, <3>2, FS_Subset, FS_CardinalityType
      <3>4. fails \in Nat /\ locked \in Nat /\ now + LockTime \in Nat \ {0}
        BY DEF Types, ProcOK, CountsOK, ConstantsOK
      <3> QED
        BY <2>4, <3>3, <3>4, BindingFinite DEF Failed, LocksOut, BackoffInv,
           ConstantsOK
    <2> QED
      BY <2>2, <2>3, <2>4 DEF Bind
  <1> QED
    BY <1>5, <1>6, <1>7, <1>8

LEMMA SetUpStep ==
    ASSUME IInv, ConstantsOK, NEW r \in Request,
           SetUpLocks(r) \/ SetUpLooks(r) \/ SetUpCreates(r)
    PROVE  IInv'
  <1> USE DEF IInv
  <1>0. {"look", "create", "mint"} \subseteq Steps
    BY DEF Steps
  <1>1. new[r] = NoSession /\ hit[r] # "yes" /\ pc[r] \in {"lock", "look", "create"}
    BY DEF SetUpLocks, SetUpLooks, SetUpCreates, RequestInv
  <1>2. /\ RequestOK' /\ \A q \in Request \ {r} : Same(q)
        /\ \/ Gone(r) /\ SetUpLooks(r) /\ setupLock' = NoRequest
           \/ Moved(r, {"look"}) /\ SetUpLocks(r)
           \/ /\ Moved(r, {"create"}) /\ SetUpLooks(r) /\ ~Configured
              /\ UNCHANGED setupLock
           \/ Moved(r, {"mint"}) /\ SetUpCreates(r)
    <2>1. CASE Finish(r) /\ SetUpLooks(r) /\ setupLock' = NoRequest
      BY <2>1, FinishDoes DEF Types
    <2>2. CASE SetUpLocks(r)
      BY <1>0, <2>2, GotoDoes DEF Types, SetUpLocks
    <2>3. CASE /\ SetUpLooks(r) /\ Goto(r, "create") /\ ~Configured
               /\ UNCHANGED <<setupLock, kind, on, new, idle, hit>>
      BY <1>0, <2>3, GotoDoes DEF Types
    <2>4. CASE SetUpCreates(r)
      BY <1>0, <2>4, GotoDoes DEF Types, SetUpCreates
    <2> QED
      BY <2>1, <2>2, <2>3, <2>4 DEF SetUpLooks
  <1>3. RequestInv(r)'
    <2>1. CASE Gone(r)
      BY <2>1, GoneHolds
    <2>2. CASE Moved(r, {"look", "create", "mint"})
      BY <1>1, <2>2 DEF RequestInv, Moved, OnSession, SetUpLocks, SetUpLooks,
                        SetUpCreates
    <2> QED
      BY <1>2, <2>1, <2>2 DEF Moved
  <1>4. DbOK'
    BY DEF SetUpLocks, SetUpLooks, SetUpCreates, Types, DbOK
  <1>5. Types'
    BY <1>2, <1>4, TypesFrame DEF SetUpLocks, SetUpLooks, SetUpCreates, Types
  <1>6. /\ \A t \in Session : RowInv(t)'
        /\ \A q \in Request : RequestInv(q)'
        /\ OwnNew'
    BY <1>2, <1>3, <1>5, OnlyMoves DEF SetUpLocks, SetUpLooks, SetUpCreates,
       procVars, Types, Gone, Moved
  <1>7. LockInv'
    <2>1. CASE Gone(r) /\ SetUpLooks(r) /\ setupLock' = NoRequest
      BY <1>2, <2>1 DEF LockInv, SetUpLooks, Gone, Same
    <2>2. CASE Moved(r, {"look"}) /\ SetUpLocks(r)
      BY <1>2, <2>2, ConstantsOK DEF LockInv, SetUpLocks, Moved, Same
    <2>3. CASE /\ Moved(r, {"create"}) /\ SetUpLooks(r) /\ ~Configured
               /\ UNCHANGED setupLock
      BY <1>2, <2>3 DEF LockInv, SetUpLooks, Moved, Same, Configured, Types, DbOK
    <2>4. CASE Moved(r, {"mint"}) /\ SetUpCreates(r)
      BY <1>2, <2>4 DEF LockInv, SetUpCreates, Moved, Same
    <2> QED
      BY <1>2, <2>1, <2>2, <2>3, <2>4
  <1>8. BackoffInv'
    BY <1>2, BackoffFrame DEF SetUpLocks, SetUpLooks, SetUpCreates, procVars,
       Types, Gone, Moved
  <1> QED
    BY <1>5, <1>6, <1>7, <1>8

LEMMA FailsStep ==
    ASSUME IInv, ConstantsOK, NEW r \in Request, StatementFails(r)
    PROVE  IInv'
  <1> USE DEF IInv
  <1>1. RequestOK' /\ Gone(r) /\ \A q \in Request \ {r} : Same(q)
    BY FinishDoes DEF StatementFails, Types
  <1>2. DbOK' /\ CountsOK'
    BY DEF StatementFails, Types, DbOK, CountsOK, Fault
  <1>3. Types'
    BY <1>1, <1>2, TypesFrame DEF StatementFails, Types
  <1>4. /\ \A t \in Session : RowInv(t)'
        /\ \A q \in Request : RequestInv(q)'
        /\ OwnNew'
    <2>1. RequestInv(r)'
      BY <1>1, GoneHolds
    <2> QED
      BY <1>1, <1>2, <2>1, OnlyMoves DEF StatementFails, procVars, Gone
  <1>5. LockInv'
    BY <1>1 DEF LockInv, StatementFails, Gone, Same
  <1>6. BackoffInv'
    BY <1>1, BackoffFrame DEF StatementFails, procVars, Types, Gone
  <1> QED
    BY <1>3, <1>4, <1>5, <1>6

LEMMA NextSessionFree ==
    ASSUME CanMint
    PROVE  NextSession \in Session /\ admin[NextSession].state = "none"
  BY DEF CanMint, NextSession

LEMMA MintStep ==
    ASSUME IInv, ConstantsOK, NEW r \in Request, Mint(r)
    PROVE  IInv'
  <1> USE DEF IInv
  <1>0. PICK s \in Session : s = NextSession
    BY NextSessionFree DEF Mint
  <1> DEFINE made == [state |-> "open", from |-> on[r], seen |-> now,
                     ends |-> NotAfter(on[r])]
  <1>1. /\ s \in Session /\ admin[s].state = "none" /\ s \notin known
        /\ s # NoSession
    BY <1>0, NextSessionFree DEF Mint, RowInv, ConstantsOK
  <1>2. /\ new[r] = NoSession /\ hit[r] # "yes" /\ on[r] \in MaybeSession
        /\ on[r] # NoSession => on[r] \in known /\ on[r] # s
        /\ \A q \in Request : new[q] # s
    BY <1>1 DEF Mint, RequestInv, Types, RequestOK
  <1>3. /\ made \in AdminRow
        /\ on[r] # NoSession => made.ends <= admin[on[r]].ends
    <2>1. on[r] # NoSession => on[r] \in Session /\ admin[on[r]].ends \in Nat
      BY <1>2 DEF MaybeSession, Types, DbOK, AdminRow
    <2>2. NotAfter(on[r]) \in Nat
          /\ (on[r] # NoSession => NotAfter(on[r]) <= admin[on[r]].ends)
      BY <2>1 DEF NotAfter, Least, Types, CountsOK, ConstantsOK
    <2> QED
      BY <1>2, <2>2 DEF AdminRow, State, Types, CountsOK
  <1>4. /\ admin' \in [Session -> AdminRow] /\ admin'[s] = made
        /\ \A t \in Session \ {s} : admin'[t] = admin[t]
    BY <1>0, <1>3 DEF Mint, Types, DbOK
  <1>5. /\ RequestOK' /\ \A q \in Request \ {r} : Same(q)
        /\ \/ Gone(r) /\ known' = known \cup {s}
           \/ /\ pc'[r] = "elevate" /\ new'[r] = s /\ on'[r] = on[r]
              /\ hit'[r] = hit[r] /\ UNCHANGED known
    <2>1. CASE Finish(r) /\ known' = known \cup {s}
      BY <2>1, FinishDoes DEF Types
    <2>2. CASE /\ Goto(r, "elevate") /\ new' = [new EXCEPT ![r] = s]
               /\ UNCHANGED <<known, kind, on, idle, hit>>
      BY <1>1, <2>2 DEF Types, RequestOK, Goto, Steps, MaybeSession, Same
    <2> QED
      BY <1>0, <2>1, <2>2 DEF Mint
  <1>6. Types'
    BY <1>1, <1>4, <1>5, TypesFrame DEF Mint, Types, DbOK, CountsOK
  <1>7. \A t \in Session : RowInv(t)'
    <2>1. elevated[s].state = "none" /\ elevated[s].ends = 0
          /\ elevated[s].idle <= 0 /\ cache[s] <= 0 /\ cache[s] = 0
      BY <1>1 DEF RowInv, Types, DbOK, ElevatedRow, ProcOK
    <2>2. RowInv(s)'
      <3>1. made.ends \in Nat /\ made.from = on[r] /\ made.state = "open"
        BY <1>3 DEF AdminRow
      <3>2. on[r] # NoSession => /\ on[r] \in known'
                                 /\ admin'[on[r]] = admin[on[r]]
        BY <1>2, <1>4, <1>5 DEF Types, CountsOK
      <3>3. s \notin forgotten
        BY <1>1 DEF RowInv
      <3>4. UNCHANGED <<elevated, cache, forgotten>>
        BY DEF Mint, procVars
      <3>5. elevated[s].idle <= elevated[s].ends
        BY <1>1 DEF RowInv
      <3> QED
        BY <1>3, <1>4, <2>1, <3>1, <3>2, <3>3, <3>4, <3>5 DEF RowInv, Rotated
    <2>3. ASSUME NEW t \in Session \ {s}
          PROVE  RowInv(t)'
      <3>1. RowInv(t) /\ admin'[t] = admin[t]
            /\ (t \in known' <=> t \in known) /\ known \subseteq known'
        BY <1>4, <1>5
      <3>2. Rotated(t) => admin'[admin[t].from] = admin[admin[t].from]
        BY <1>1, <1>4, <3>1 DEF RowInv, Types, CountsOK
      <3>3. UNCHANGED <<elevated, cache, forgotten>>
        BY DEF Mint, procVars
      <3> QED
        BY <3>1, <3>2, <3>3 DEF RowInv, Rotated
    <2> QED
      BY <2>2, <2>3
  <1>8. \A q \in Request \ {r} : Steady(q)
    <2>1. UNCHANGED elevated
      BY DEF Mint
    <2>2. ASSUME NEW q \in Request \ {r}
          PROVE  Steady(q)
      <3>1. \A t \in known : admin'[t] = admin[t]
        BY <1>1, <1>4 DEF Types, CountsOK
      <3>2. new[q] # NoSession => new[q] \notin known' /\ admin'[new[q]] = admin[new[q]]
        BY <1>2, <1>4, <1>5 DEF RequestInv, Types, RequestOK, MaybeSession
      <3> QED
        BY <1>5, <2>1, <3>1, <3>2 DEF Steady
    <2> QED
      BY <2>2
  <1>9. RequestInv(r)'
    <2>1. CASE Gone(r)
      BY <2>1, GoneHolds
    <2>2. CASE /\ pc'[r] = "elevate" /\ new'[r] = s /\ on'[r] = on[r]
               /\ hit'[r] = hit[r] /\ UNCHANGED known
      <3>1. kind'[r] = kind[r] /\ UNCHANGED elevated
        BY <2>2 DEF Mint, Gone, Finish, Ends, RequestOK, Types, Goto
      <3>2. elevated[s].state = "none"
        BY <1>1 DEF RowInv
      <3>3. on[r] # NoSession \/ kind[r] = "stepUp" => on[r] \in known
        BY DEF RequestInv
      <3> QED
        BY <1>1, <1>2, <1>4, <2>2, <3>1, <3>2, <3>3 DEF RequestInv, OnSession
    <2> QED
      BY <1>5, <2>1, <2>2
  <1>10. \A q \in Request : RequestInv(q)'
    BY <1>5, <1>8, <1>9, OneMoves
  <1>11. OwnNew'
    BY <1>2, <1>5 DEF OwnNew, Same, Gone
  <1>12. LockInv' /\ BackoffInv'
    BY <1>5, LockFrame, BackoffFrame DEF Mint, procVars, Gone, Types
  <1> QED
    BY <1>6, <1>7, <1>10, <1>11, <1>12

LEMMA ElevateStep ==
    ASSUME IInv, KindInv, ConstantsOK, NEW r \in Request, Elevate(r)
    PROVE  IInv'
  <1> USE DEF IInv
  <1> DEFINE n == new[r]
             end == Least(now + ElevatedLife, admin[n].ends)
             idleEnd == Least(now + ElevatedIdle, end)
             row == [state |-> "open", idle |-> idleEnd, ends |-> end]
  <1>1. /\ n \in Session /\ n \notin known /\ n # NoSession
        /\ elevated[n].state = "none" /\ elevated[n].ends = 0 /\ cache[n] <= 0
        /\ admin[n].state = "open" /\ admin[n].from = on[r]
        /\ hit[r] # "yes" /\ pc[r] = "elevate"
        /\ \A q \in Request \ {r} : new[q] # n
    <2>1. /\ n \in Session /\ n \notin known /\ n # NoSession
          /\ elevated[n].state = "none"
          /\ admin[n].state = "open" /\ admin[n].from = on[r]
          /\ hit[r] # "yes" /\ pc[r] = "elevate"
      BY DEF Elevate, RequestInv, Types, RequestOK, MaybeSession
    <2>2. elevated[n].ends = 0 /\ cache[n] <= elevated[n].ends
      BY <2>1 DEF RowInv
    <2> QED
      BY <2>1, <2>2 DEF OwnNew
  <1>2. /\ end \in Nat /\ idleEnd \in Nat /\ row \in ElevatedRow
        /\ idleEnd <= end /\ end <= admin[n].ends
    <2>1. now \in Nat /\ admin[n].ends \in Nat /\ ElevatedIdle \in Nat
      BY <1>1 DEF Types, CountsOK, DbOK, AdminRow, ElevatedIdle, Least, ConstantsOK
    <2>2. end \in Nat /\ end <= admin[n].ends
      BY <2>1 DEF Least, ConstantsOK
    <2>3. idleEnd \in Nat /\ idleEnd <= end
      BY <2>1, <2>2 DEF Least
    <2> QED
      BY <2>2, <2>3 DEF ElevatedRow, State
  <1>3. /\ elevated' \in [Session -> ElevatedRow] /\ elevated'[new[r]] = row
        /\ \A t \in Session \ {new[r]} : elevated'[t] = elevated[t]
    BY <1>1, <1>2 DEF Elevate, Types, DbOK
  <1>4. /\ RequestOK' /\ \A q \in Request \ {r} : Same(q)
        /\ pc'[r] \in {"wipe", "revoke"} /\ idle'[r] = idleEnd
        /\ pc'[r] = "wipe" <=> kind[r] = "setUp"
        /\ kind'[r] = kind[r] /\ on'[r] = on[r] /\ new'[r] = new[r]
        /\ hit'[r] = hit[r]
    BY <1>2 DEF Elevate, AfterElevate, Goto, Types, RequestOK, Steps, Same
  <1>5. Types'
    BY <1>3, <1>4, TypesFrame DEF Elevate, Types, DbOK
  <1>6. \A t \in Session : RowInv(t)'
    <2>1. ASSUME NEW t \in Session, t = new[r]
          PROVE  RowInv(t)'
      <3>1. elevated'[t].state = "open" /\ elevated'[t].ends = end
            /\ elevated'[t].idle = idleEnd
        BY <1>3, <2>1
      <3>2. cache[t] <= end /\ cache[t] = 0
        BY <1>1, <1>2, <2>1 DEF Types, ProcOK
      <3>3. UNCHANGED <<admin, cache, known, forgotten>>
        BY DEF Elevate, procVars
      <3>4. admin[t].state = "open" /\ RowInv(t) /\ end <= admin[t].ends
        BY <1>1, <1>2, <2>1
      <3> QED
        BY <1>2, <3>1, <3>2, <3>3, <3>4 DEF RowInv, Rotated
    <2>2. ASSUME NEW t \in Session, t # new[r]
          PROVE  RowInv(t)'
      BY <1>3, <2>2 DEF Elevate, procVars, RowInv, Rotated
    <2> QED
      BY <2>1, <2>2
  <1>7. \A q \in Request \ {r} : Steady(q)
    <2>1. ASSUME NEW q \in Request \ {r}
          PROVE  Steady(q)
      <3>1. \A t \in known : elevated'[t] = elevated[t]
        BY <1>1, <1>3 DEF Types, CountsOK
      <3>2. new[q] # NoSession => new[q] \notin known /\ elevated'[new[q]] = elevated[new[q]]
        BY <1>1, <1>3 DEF RequestInv, Types, RequestOK, MaybeSession
      <3> QED
        BY <3>1, <3>2 DEF Elevate, Steady
    <2> QED
      BY <2>1
  <1>8. RequestInv(r)'
    <2>1. /\ on[r] # NoSession \/ kind[r] = "stepUp" => on[r] \in known
          /\ kind[r] = "setUp" => on[r] = NoSession
          /\ kind[r] \in {"setUp", "stepUp"}
      BY <1>1 DEF RequestInv, KindInv
    <2>2. UNCHANGED <<admin, known>>
      BY DEF Elevate
    <2>3. elevated'[new[r]].ends = end
      BY <1>3
    <2> QED
      BY <1>1, <1>2, <1>4, <2>1, <2>2, <2>3 DEF RequestInv, OnSession
  <1>9. \A q \in Request : RequestInv(q)'
    BY <1>4, <1>7, <1>8, OneMoves
  <1>10. OwnNew'
    BY <1>4, NewKept
  <1>11. LockInv' /\ BackoffInv'
    BY <1>4, LockFrame, BackoffFrame DEF Elevate, procVars, Types
  <1> QED
    BY <1>5, <1>6, <1>9, <1>10, <1>11

LEMMA RevokeStep ==
    ASSUME IInv, ConstantsOK, NEW r \in Request, RevokeAdmin(r)
    PROVE  IInv'
  <1> USE DEF IInv
  <1>1. /\ on[r] \in known /\ on[r] \in Session /\ hit[r] # "yes"
        /\ admin[on[r]].state # "none"
        /\ \A q \in Request : new[q] # NoSession => new[q] # on[r]
    BY DEF RevokeAdmin, RequestInv, OnSession, Types, CountsOK, RowInv
  <1>2. /\ admin' \in [Session -> AdminRow]
        /\ \A t \in Session : /\ admin'[t].from = admin[t].from
                              /\ admin'[t].ends = admin[t].ends
                              /\ t # on[r] => admin'[t] = admin[t]
        /\ admin'[on[r]].state = "revoked"
    BY <1>1 DEF RevokeAdmin, Types, DbOK, AdminRow, State
  <1>3. RequestOK' /\ Moved(r, {"drop"}) /\ \A q \in Request \ {r} : Same(q)
    BY GotoDoes DEF RevokeAdmin, Types, Steps
  <1>4. Types'
    BY <1>2, <1>3, TypesFrame DEF RevokeAdmin, Types, DbOK
  <1>5. \A t \in Session : RowInv(t)'
    <2>1. ASSUME NEW t \in Session
          PROVE  RowInv(t)'
      <3>1. /\ admin'[t].from = admin[t].from /\ admin'[t].ends = admin[t].ends
            /\ admin'[t].state = "none" => admin[t].state = "none"
        BY <1>1, <1>2
      <3>2. Rotated(t) => /\ admin[t].from \in known
                          /\ admin[t].from \in Session
        BY DEF RowInv, Types, CountsOK
      <3>3. Rotated(t) => /\ admin'[admin[t].from].ends = admin[admin[t].from].ends
                          /\ admin[admin[t].from].state = "revoked" =>
                               admin'[admin[t].from].state = "revoked"
        BY <1>2, <3>2
      <3>4. UNCHANGED <<elevated, cache, known, forgotten>>
        BY DEF RevokeAdmin, procVars
      <3>5. RowInv(t)
        OBVIOUS
      <3> QED
        BY <3>1, <3>2, <3>3, <3>4, <3>5 DEF RowInv, Rotated
    <2> QED
      BY <2>1
  <1>6. \A q \in Request \ {r} : Steady(q)
    <2>1. ASSUME NEW q \in Request \ {r}
          PROVE  Steady(q)
      <3>1. \A t \in known : admin[t].state = "revoked" => admin'[t].state = "revoked"
        BY <1>2 DEF Types, CountsOK
      <3>2. new[q] # NoSession => new[q] \notin known /\ admin'[new[q]] = admin[new[q]]
        BY <1>1, <1>2 DEF RequestInv, Types, RequestOK, MaybeSession
      <3>3. UNCHANGED <<elevated, known>>
        BY DEF RevokeAdmin
      <3> QED
        BY <3>1, <3>2, <3>3 DEF Steady
    <2> QED
      BY <2>1
  <1>7. RequestInv(r)'
    <2>1. UNCHANGED <<elevated, known>> /\ pc[r] = "revoke"
      BY DEF RevokeAdmin
    <2>2. new[r] # NoSession => /\ new[r] \in Session /\ new[r] # on[r]
                                /\ admin'[new[r]] = admin[new[r]]
      BY <1>1, <1>2 DEF Types, RequestOK, MaybeSession
    <2> QED
      BY <1>1, <1>2, <1>3, <2>1, <2>2 DEF RequestInv, Moved, OnSession
  <1>8. (\A q \in Request : RequestInv(q)') /\ OwnNew'
    BY <1>3, <1>6, <1>7, OneMoves, NewKept DEF Moved
  <1>9. LockInv' /\ BackoffInv'
    BY <1>3, LockFrame, BackoffFrame DEF RevokeAdmin, procVars, Moved, Types
  <1> QED
    BY <1>4, <1>5, <1>8, <1>9

LEMMA DropStep ==
    ASSUME IInv, ConstantsOK, NEW r \in Request, DropElevated(r)
    PROVE  IInv'
  <1> USE DEF IInv
  <1>1. /\ on[r] \in known /\ on[r] \in Session /\ pc[r] = "drop"
    BY DEF DropElevated, RequestInv, OnSession, Types, CountsOK
  <1>2. /\ elevated' \in [Session -> ElevatedRow]
        /\ \A t \in Session : /\ elevated'[t].idle = elevated[t].idle
                              /\ elevated'[t].ends = elevated[t].ends
                              /\ elevated'[t].state = "none" <=>
                                   elevated[t].state = "none"
    <2>1. CASE UNCHANGED elevated
      BY <2>1 DEF Types, DbOK
    <2>2. CASE /\ elevated[on[r]].state = "open"
               /\ elevated' = [elevated EXCEPT ![on[r]].state = "revoked"]
      BY <1>1, <2>2 DEF Types, DbOK, ElevatedRow, State
    <2> QED
      BY <2>1, <2>2 DEF DropElevated
  <1>3. /\ RequestOK' /\ \A q \in Request \ {r} : Same(q)
        /\ pc'[r] = "wipe" /\ on'[r] = on[r] /\ new'[r] = new[r]
        /\ kind'[r] = kind[r] /\ idle'[r] = idle[r]
    BY DEF DropElevated, Goto, Types, RequestOK, Steps, Same
  <1>4. Types'
    BY <1>2, <1>3, TypesFrame DEF DropElevated, Types, DbOK
  <1>5. \A t \in Session : RowInv(t)'
    BY <1>2 DEF DropElevated, procVars, RowInv, Rotated
  <1>6. \A q \in Request \ {r} : Steady(q)
    BY <1>2 DEF DropElevated, Steady, RequestInv, Types, CountsOK, RequestOK,
                MaybeSession
  <1>7. RequestInv(r)'
    BY <1>1, <1>2, <1>3 DEF DropElevated, RequestInv, OnSession, Types, RequestOK,
                            MaybeSession
  <1>8. (\A q \in Request : RequestInv(q)') /\ OwnNew'
    BY <1>3, <1>6, <1>7, OneMoves, NewKept
  <1>9. LockInv' /\ BackoffInv'
    BY <1>3, LockFrame, BackoffFrame DEF DropElevated, procVars, Types
  <1> QED
    BY <1>4, <1>5, <1>8, <1>9

LEMMA WipeStep ==
    ASSUME IInv, ConstantsOK, NEW r \in Request, Wipe(r)
    PROVE  IInv'
  <1> USE DEF IInv
  <1>1. RequestOK' /\ Gone(r) /\ \A q \in Request \ {r} : Same(q)
    BY FinishDoes DEF Wipe, Types
  <1>2. /\ idle[r] \in Nat /\ new[r] \in MaybeSession /\ on[r] \in MaybeSession
        /\ hit[r] = "yes" => on[r] \in known /\ on[r] \in Session
        /\ pc[r] = "wipe"
    BY DEF Wipe, RequestInv, Types, RequestOK, CountsOK
  <1>3. cache' \in [Session -> Nat]
    BY <1>2 DEF Wipe, Types, ProcOK
  <1>4. known' \subseteq Session /\ known \subseteq known'
        /\ forgotten' \subseteq Session
    BY <1>2 DEF Wipe, Types, CountsOK, MaybeSession
  <1>5. Types'
    BY <1>1, <1>3, <1>4, TypesFrame DEF Wipe, Types, ProcOK, CountsOK
  <1>6. \A t \in Session : RowInv(t)'
    <2>1. ASSUME NEW t \in Session, t = new[r]
          PROVE  RowInv(t)'
      <3>1. /\ t \notin known /\ admin[t].state = "open" /\ admin[t].from = on[r]
            /\ idle[r] <= elevated[t].ends
            /\ on[r] # NoSession => admin[on[r]].state = "revoked"
        BY <1>2, <2>1, ConstantsOK DEF RequestInv
      <3>2. cache'[t] = idle[r]
        BY <2>1 DEF Wipe
      <3>3. t \notin forgotten' /\ UNCHANGED <<admin, elevated>>
        BY <1>2, <3>1 DEF Wipe, dbVars, RowInv
      <3> QED
        BY <1>4, <3>1, <3>2, <3>3 DEF RowInv, Rotated
    <2>2. ASSUME NEW t \in Session, t # new[r]
          PROVE  RowInv(t)'
      <3>1. UNCHANGED <<admin, elevated>> /\ (t \in known' <=> t \in known)
        BY <2>2 DEF Wipe, dbVars
      <3>2. cache'[t] = IF t = on[r] /\ hit[r] = "yes" THEN 0 ELSE cache[t]
        BY <2>2 DEF Wipe
      <3>3. t \in forgotten' => t \in forgotten \/ (t = on[r] /\ hit[r] = "yes")
        BY DEF Wipe
      <3>4. elevated[t].ends \in Nat /\ RowInv(t)
        BY DEF Types, DbOK, ElevatedRow
      <3>5. cache'[t] <= elevated[t].ends /\ (cache'[t] # 0 => cache'[t] = cache[t])
        BY <3>2, <3>4 DEF RowInv
      <3>6. t \in forgotten' => t \in known /\ cache'[t] = 0
        BY <1>2, <3>2, <3>3, <3>4 DEF RowInv
      <3> QED
        BY <1>4, <3>1, <3>4, <3>5, <3>6 DEF RowInv, Rotated
    <2> QED
      BY <2>1, <2>2
  <1>7. \A q \in Request \ {r} : Steady(q)
    <2>1. ASSUME NEW q \in Request \ {r}
          PROVE  Steady(q)
      <3>1. new[q] # NoSession => new[q] \notin known /\ new[q] # new[r]
        BY DEF RequestInv, OwnNew
      <3>2. new[q] # NoSession => new[q] \notin known'
        BY <3>1 DEF Wipe
      <3> QED
        BY <1>4, <3>2 DEF Wipe, dbVars, Steady
    <2> QED
      BY <2>1
  <1>8. (\A q \in Request : RequestInv(q)') /\ OwnNew'
    BY <1>1, <1>7, GoneHolds, OneMoves, NewKept
  <1>9. LockInv' /\ BackoffInv'
    BY <1>1, LockFrame, BackoffFrame DEF Wipe, dbVars, Gone, Types
  <1> QED
    BY <1>5, <1>6, <1>8, <1>9

\* What a request came for stays with it.
LEMMA KindStep ==
    ASSUME IInv, KindInv, ConstantsOK, [Next]_vars
    PROVE  KindInv'
  <1> DEFINE K(q) ==
               /\ kind[q] = "setUp" \/ pc[q] = "idle" => on[q] = NoSession
               /\ pc[q] \in {"bind", "mint"} => kind[q] \in {"login", "setUp", "stepUp"}
               /\ pc[q] \in {"lock", "look", "create"} => kind[q] = "setUp"
               /\ pc[q] = "elevate" => kind[q] \in {"setUp", "stepUp"}
  <1>0. Types /\ RequestOK /\ \A q \in Request : K(q)
    BY DEF IInv, Types, KindInv
  <1>a. \A q \in Request : Same(q) => K(q)'
    BY <1>0 DEF Same
  <1>b. \A q \in Request : Gone(q) => K(q)'
    BY DEF Gone
  <1>1. CASE UNCHANGED reqVars
    BY <1>1 DEF KindInv, reqVars
  <1>2. CASE Crash
    BY <1>0, <1>2, <1>b, EndsDoes DEF Crash, KindInv
  <1>3. ASSUME NEW r \in Request, Handle(r), pc[r] \in {"find", "activity", "extend"}
        PROVE  KindInv'
    <2>1. /\ Gone(r) \/ Moved(r, {"bind", "drop", "revoke"})
          /\ \A q \in Request \ {r} : Same(q)
      BY <1>0, <1>3, HandleDoes DEF Types
    <2>2. pc'[r] = "bind" => kind'[r] = "stepUp"
      BY <1>0, <1>3 DEF Handle, Goto, RequestOK, Finish, Ends
    <2>3. K(r)'
      BY <1>0, <1>b, <2>1, <2>2 DEF Moved
    <2> QED
      BY <1>a, <2>1, <2>3 DEF KindInv
  <1>4. ASSUME NEW r \in Request, Finish(r)
        PROVE  KindInv'
    BY <1>0, <1>4, <1>a, <1>b, FinishDoes DEF KindInv
  <1>5. ASSUME NEW r \in Request, NEW step \in Steps, Goto(r, step),
               UNCHANGED <<kind, on>>,
               step # "idle",
               step \in {"bind", "mint"} => kind[r] \in {"login", "setUp", "stepUp"},
               step \in {"lock", "look", "create"} => kind[r] = "setUp",
               step = "elevate" => kind[r] \in {"setUp", "stepUp"}
        PROVE  KindInv'
    BY <1>0, <1>5 DEF KindInv, RequestOK, Goto
  <1>6. ASSUME NEW r \in Request, Find(r) \/ Activity(r) \/ Extend(r)
        PROVE  KindInv'
    <2>1. CASE Handle(r)
      BY <1>3, <1>6, <2>1 DEF Find, Activity, Extend
    <2>2. CASE \/ Goto(r, "activity") /\ UNCHANGED <<kind, on>>
               \/ Goto(r, "extend") /\ UNCHANGED <<kind, on>>
      BY <1>5, <2>2 DEF Steps
    <2> QED
      BY <1>6, <2>1, <2>2 DEF Find, Activity, Extend
  <1>7. ASSUME NEW r \in Request, Bind(r)
        PROVE  KindInv'
    <2>1. kind[r] \in {"login", "setUp", "stepUp"}
      BY <1>0, <1>7 DEF Bind
    <2>2. CASE Finish(r)
      BY <1>4, <2>2
    <2>3. CASE \/ Goto(r, "mint") /\ UNCHANGED <<kind, on>>
               \/ Goto(r, "revoke") /\ UNCHANGED <<kind, on>>
               \/ kind[r] = "setUp" /\ Goto(r, "lock") /\ UNCHANGED <<kind, on>>
      BY <1>5, <2>1, <2>3 DEF Steps
    <2> QED
      BY <1>7, <2>2, <2>3 DEF Bind, Denied
  <1>8. ASSUME NEW r \in Request,
               Resolve(r) \/ SetUpLocks(r) \/ SetUpLooks(r) \/ SetUpCreates(r)
        PROVE  KindInv'
    <2>1. CASE Finish(r)
      BY <1>4, <2>1
    <2>2. pc[r] \in {"lock", "look", "create"} => kind[r] = "setUp"
      BY <1>0
    <2>3. CASE \/ pc[r] = "resolve" /\ Goto(r, "find") /\ UNCHANGED <<kind, on>>
               \/ pc[r] = "lock" /\ Goto(r, "look") /\ UNCHANGED <<kind, on>>
               \/ pc[r] = "look" /\ Goto(r, "create") /\ UNCHANGED <<kind, on>>
               \/ pc[r] = "create" /\ Goto(r, "mint") /\ UNCHANGED <<kind, on>>
      BY <1>5, <2>2, <2>3 DEF Steps
    <2> QED
      BY <1>8, <2>1, <2>3 DEF Resolve, SetUpLocks, SetUpLooks, SetUpCreates
  <1>9. ASSUME NEW r \in Request, Mint(r)
        PROVE  KindInv'
    <2>1. CASE Finish(r)
      BY <1>4, <2>1
    <2>2. CASE kind[r] # "login" /\ Goto(r, "elevate") /\ UNCHANGED <<kind, on>>
      <3>1. kind[r] \in {"login", "setUp", "stepUp"}
        BY <1>0, <1>9 DEF Mint
      <3> QED
        BY <1>5, <2>2, <3>1 DEF Steps
    <2> QED
      BY <1>9, <2>1, <2>2 DEF Mint
  <1>10. ASSUME NEW r \in Request, Elevate(r) \/ RevokeAdmin(r) \/ DropElevated(r)
         PROVE  KindInv'
    <2>1. /\ \/ Goto(r, "wipe") \/ Goto(r, "revoke") \/ Goto(r, "drop")
          /\ UNCHANGED <<kind, on>>
      BY <1>10 DEF Elevate, AfterElevate, RevokeAdmin, DropElevated
    <2> QED
      BY <1>5, <2>1 DEF Steps
  <1>11. ASSUME NEW r \in Request, Wipe(r) \/ StatementFails(r)
         PROVE  KindInv'
    BY <1>4, <1>11 DEF Wipe, StatementFails
  <1>12. ASSUME NEW r \in Request, Login(r) \/ SetUp(r)
         PROVE  KindInv'
    <2>1. /\ pc'[r] = "bind" /\ kind'[r] \in {"login", "setUp"} /\ pc[r] = "idle"
          /\ \A q \in Request \ {r} : pc'[q] = pc[q] /\ kind'[q] = kind[q]
          /\ UNCHANGED on
      BY <1>0, <1>12 DEF Login, SetUp, Comes, Goto, RequestOK
    <2> QED
      BY <1>0, <2>1 DEF KindInv
  <1>13. ASSUME NEW r \in Request, NEW s \in Session,
                NEW k \in {"call", "stepUp", "stepDown", "logout"}, Sends(r, s, k)
         PROVE  KindInv'
    <2>1. /\ pc'[r] = "resolve" /\ kind'[r] = k
          /\ \A q \in Request \ {r} : pc'[q] = pc[q] /\ kind'[q] = kind[q]
                                      /\ on'[q] = on[q]
      BY <1>0, <1>13 DEF Sends, Comes, Goto, RequestOK
    <2> QED
      BY <1>0, <2>1 DEF KindInv
  <1> QED
    BY <1>1, <1>2, <1>6, <1>7, <1>8, <1>9, <1>10, <1>11, <1>12, <1>13
    DEF Next, Step, vars, Tick, Sweep, FailuresAge, Start

Inductive == IInv /\ KindInv

LEMMA Started == Init => Inductive
  <1>1. Init => KindInv
    BY DEF Init, KindInv
  <1> QED
    BY <1>1, Initial DEF Inductive

LEMMA Stepped == Inductive /\ [Next]_vars => Inductive'
  <1> SUFFICES ASSUME Inductive, [Next]_vars PROVE Inductive'
    OBVIOUS
  <1> USE ConstantsOK DEF Inductive
  <1>1. KindInv'
    BY KindStep
  <1>2. CASE Tick \/ Sweep \/ FailuresAge \/ Crash \/ Start
    BY <1>1, <1>2, TimersStep, RestartStep
  <1>3. ASSUME NEW r \in Request,
               Step(r) \/ StatementFails(r) \/ Login(r) \/ SetUp(r)
        PROVE  IInv'
    BY <1>3, ResolveStep, FindStep, ActivityStep, ExtendStep, BindStep, SetUpStep,
       MintStep, ElevateStep, RevokeStep, DropStep, WipeStep, FailsStep, LoginStep
    DEF Step
  <1>4. ASSUME NEW r \in Request, NEW s \in Session,
               NEW k \in {"call", "stepUp", "stepDown", "logout"}, Sends(r, s, k)
        PROVE  IInv'
    BY <1>4, SendsStep
  <1>5. CASE UNCHANGED vars
    <2>1. Types'
      BY <1>5, TypesFrame DEF IInv, Types, vars
    <2>2. (\A s \in Session : RowInv(s)') /\ (\A q \in Request : RequestInv(q)')
          /\ OwnNew'
      BY <1>5, RowsFrame, RequestsFrame DEF IInv, vars, dbVars, procVars
    <2>3. LockInv' /\ BackoffInv'
      BY <1>5 DEF IInv, vars, dbVars, procVars, reqVars, LockInv, BackoffInv, Binding
    <2> QED
      BY <1>1, <2>1, <2>2, <2>3 DEF IInv
  <1> QED
    BY <1>1, <1>2, <1>3, <1>4, <1>5 DEF Next

LEMMA Always == Spec => []Inductive
  BY Started, Stepped, PTL DEF Spec

-----------------------------------------------------------------------------
(***************************************************************************)
(* The properties the runs check.                                          *)
(***************************************************************************)
\* The variables keep their types, and a request that acts on a session has
\* one it was given.
THEOREM TypeCorrect == Spec => []TypeOK
  <1>1. Inductive => TypeOK
    BY DEF Inductive, IInv, Types, TypeOK, HasSession, RequestInv
  <1> QED
    BY <1>1, Always, PTL

\* However sessions are rotated and extended, a cached password ends with the
\* sign-in it began as (createAdminSession's notAfter, createElevatedSession's).
THEOREM PasswordsEnd == Spec => []PasswordWithinSignIn
  <1>1. Inductive => PasswordWithinSignIn
    BY DEF Inductive, IInv, RowInv, PasswordWithinSignIn
  <1> QED
    BY <1>1, Always, PTL

\* rotateAndElevate: no password is cached beside the session it was rotated
\* from.
THEOREM OldTokensDie == Spec => []OldTokenDead
  <1>1. Inductive => OldTokenDead
    BY DEF Inductive, IInv, RowInv, OldTokenDead
  <1> QED
    BY <1>1, Always, PTL

\* A password a logout, a step-down or a step-up wiped isn't put back.
THEOREM NothingPutBack == Spec => []WipedStaysWiped
  <1>1. Inductive => WipedStaysWiped
    BY DEF Inductive, IInv, Types, CountsOK, RowInv, WipedStaysWiped
  <1> QED
    BY <1>1, Always, PTL

\* loginBackoff: failures stay within the threshold and the binds under way.
THEOREM FewFailures == Spec => []FailuresBounded
  <1>1. Inductive => FailuresBounded
    BY ConstantsOK, BindingFinite DEF Inductive, IInv, Types, ProcOK, BackoffInv,
       FailuresBounded, ConstantsOK
  <1> QED
    BY <1>1, Always, PTL

\* withSetupLock: however many set up at once, one directory is made.
THEOREM OneSetupOnly == Spec => []OneSetup
  <1>1. Inductive => OneSetup
    BY DEF Inductive, IInv, LockInv, OneSetup
  <1> QED
    BY <1>1, Always, PTL

\* What has ended stays so: no step moves a session's end, gives a revoked one
\* back, or makes an elevated session active again.
LEMMA EndsForGood ==
    ASSUME IInv, ConstantsOK, [Next]_vars, NEW s \in Session
    PROVE  /\ admin[s].state # "none" /\ Over(s) => Over(s)'
           /\ elevated[s].state # "none" /\ ~Active(s) => ~Active(s)'
  <1> USE DEF IInv
  <1>1. now' \in Nat /\ now \in Nat /\ now <= now'
    <2>1. UNCHANGED now \/ Tick
      BY DEF Next, vars, Sweep, FailuresAge, Crash, Start, Step, Resolve, Find,
         Activity, Extend, Bind, SetUpLocks, SetUpLooks, SetUpCreates, Mint,
         Elevate, RevokeAdmin, DropElevated, Wipe, StatementFails, Login, SetUp,
         Sends
    <2>2. now \in Nat
      BY DEF Types, CountsOK
    <2> QED
      BY <2>1, <2>2 DEF Tick
  <1>2. admin[s].ends \in Nat /\ elevated[s].ends \in Nat /\ elevated[s].idle \in Nat
    BY DEF Types, DbOK, AdminRow, ElevatedRow
  <1>3. admin[s].state # "none" =>
          admin'[s].ends = admin[s].ends /\ admin'[s].state \in {admin[s].state, "revoked"}
    <2>1. CASE UNCHANGED admin
      BY <2>1
    <2>2. ASSUME NEW r \in Request, Resolve(r)
          PROVE  admin'[s].ends = admin[s].ends /\ admin'[s].state = admin[s].state
      BY <2>2 DEF Resolve, Types, DbOK, AdminRow
    <2>3. ASSUME NEW r \in Request, RevokeAdmin(r)
          PROVE  /\ admin'[s].ends = admin[s].ends
                 /\ admin'[s].state \in {admin[s].state, "revoked"}
      BY <2>3 DEF RevokeAdmin, Types, DbOK, AdminRow
    <2>4. ASSUME NEW r \in Request, Mint(r), admin[s].state # "none"
          PROVE  admin'[s] = admin[s]
      BY <2>4, NextSessionFree DEF Mint, Types, DbOK
    <2> QED
      BY <2>1, <2>2, <2>3, <2>4 DEF Next, vars, dbVars, Tick, Sweep, FailuresAge,
         Crash, Start, Step, Find, Activity, Extend, Bind, SetUpLocks, SetUpLooks,
         SetUpCreates, Elevate, DropElevated, Wipe, StatementFails, Login, SetUp,
         Sends
  <1>4. Over(s) /\ admin[s].state # "none" => Over(s)'
    BY <1>1, <1>2, <1>3 DEF Over
  <1>5. elevated[s].state # "none" /\ ~Active(s) =>
          \/ elevated'[s].state = "revoked"
          \/ elevated'[s] = elevated[s]
          \/ now >= elevated[s].ends /\ elevated'[s].ends = elevated[s].ends
    <2>1. CASE UNCHANGED elevated
      BY <2>1
    <2>2. ASSUME Start, ~Active(s)
          PROVE  elevated'[s] = elevated[s]
      BY <2>2 DEF Start
    <2>3. ASSUME NEW r \in Request, Activity(r), elevated[s].state # "none", ~Active(s)
          PROVE  \/ elevated'[s] = elevated[s]
                 \/ now >= elevated[s].ends /\ elevated'[s].ends = elevated[s].ends
      BY <1>1, <1>2, <2>3 DEF Activity, StillActive, Active, Types, DbOK, ElevatedRow
    <2>4. ASSUME NEW r \in Request, Elevate(r), elevated[s].state # "none"
          PROVE  elevated'[s] = elevated[s]
      BY <2>4 DEF Elevate, RequestInv, Types, DbOK
    <2>5. ASSUME NEW r \in Request, DropElevated(r)
          PROVE  elevated'[s] = elevated[s] \/ elevated'[s].state = "revoked"
      BY <2>5 DEF DropElevated, Types, DbOK, ElevatedRow
    <2> QED
      BY <2>1, <2>2, <2>3, <2>4, <2>5 DEF Next, vars, dbVars, Tick, Sweep,
         FailuresAge, Crash, Step, Resolve, Find, Extend, Bind, SetUpLocks,
         SetUpLooks, SetUpCreates, Mint, RevokeAdmin, Wipe, StatementFails, Login,
         SetUp, Sends
  <1>6. elevated[s].state # "none" /\ ~Active(s) => ~Active(s)'
    BY <1>1, <1>2, <1>5 DEF Active
  <1> QED
    BY <1>4, <1>6

\* resolve, findActiveElevated, recordElevatedActivity: what has ended stays so.
THEOREM EndedForGood == Spec => EndedStaysEnded
  <1>1. Inductive /\ [Next]_vars =>
          [\A s \in Session :
             /\ admin[s].state # "none" /\ Over(s) => Over(s)'
             /\ elevated[s].state # "none" /\ ~Active(s) => ~Active(s)']_vars
    BY ConstantsOK, EndsForGood DEF Inductive
  <1> QED
    BY <1>1, Always, PTL DEF Spec, EndedStaysEnded
=============================================================================
