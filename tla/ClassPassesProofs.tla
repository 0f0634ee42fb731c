------------------------- MODULE ClassPassesProofs -------------------------
(***************************************************************************)
(* Proofs about a class pass, for any processes, operators' calls, ids and *)
(* bounds.                                                                 *)
(***************************************************************************)
EXTENDS ClassPasses, TLAPS

\* An id not given out yet is one.
LEMMA NextIdFresh ==
    ASSUME ids # Method, ids \subseteq Method
    PROVE  NextId \in Method /\ NextId \notin ids
  <1>1. \E m \in Method : m \notin ids
    OBVIOUS
  <1> QED
    BY <1>1 DEF NextId

\* Rows the actions write are rows.
LEMMA RowTypes ==
    ASSUME TypeOK, NEW r \in Run
    PROVE  /\ made[r] \in MaybeId => Issued(made[r]) \in Pass
           /\ Undone(r) \in Pass
           /\ answer[r] \in {"wait", "refused", "failed"} => Settled(r) \in Pass
           /\ Rechecked(r) \in Pass /\ Revoked(r) \in Pass
           /\ Reissued(r) \in Pass
  <1>1. /\ row \in Pass /\ made[r] \in MaybeId
        /\ NoneHeld(row) \in Pass /\ StaleOf(row) \in MaybeId
    BY DEF TypeOK, RowOK, RunsOK, Pass, NoneHeld, StaleOf, MaybeId
  <1>2. made[r] \in MaybeId => Issued(made[r]) \in Pass
    BY <1>1 DEF Issued, Pass, Status
  <1>3. Undone(r) \in Pass
    BY <1>1 DEF Undone, Pass, Status, MaybeId
  <1>4. answer[r] \in {"wait", "refused", "failed"} => Settled(r) \in Pass
    BY <1>1 DEF Settled, Pass, Status
  <1>5. Rechecked(r) \in Pass /\ Revoked(r) \in Pass
    <2>1. Rechecked(r) \in Pass
      BY <1>1 DEF Rechecked, Pass, Status, MaybeId
    <2>2. Revoked(r) \in Pass
      BY <1>1 DEF Revoked, Pass, Status
    <2> QED
      BY <2>1, <2>2
  <1>6. Reissued(r) \in Pass
    BY <1>1 DEF Reissued, Pass, Status
  <1> QED
    BY <1>2, <1>3, <1>4, <1>5, <1>6

LEMMA MovedType == RowOK => Moved \in Pass
  <1>1. RowOK => NoneHeld(row) \in Pass /\ StaleOf(row) \in MaybeId
    BY DEF RowOK, Pass, NoneHeld, StaleOf, MaybeId
  <1> QED
    BY <1>1 DEF Moved, Pass, Status

USE DEF Goto, Answers

\* What finishing, or dying, does to a run's own variables.
LEMMA FinishTypes ==
    ASSUME RunsOK, NEW r \in Run
    PROVE  /\ Forgets(r) => /\ seen' \in [Run -> Seen]
                            /\ made' \in [Run -> MaybeId]
                            /\ answer' \in [Run -> Answer]
           /\ Finish(r) => RunsOK' /\ pc'[r] \in {"claim", "idle"}
                                   /\ \A q \in Run \ {r} : pc'[q] = pc[q]
                                          /\ made'[q] = made[q]
                                          /\ answer'[q] = answer[q]
  <1>1. ASSUME Forgets(r)
        PROVE  /\ seen' \in [Run -> Seen]
               /\ made' \in [Run -> MaybeId] /\ answer' \in [Run -> Answer]
    <2>1. [NothingSeen EXCEPT !.on = seen[r].on] \in Seen
      BY ConstantsOK DEF RunsOK, NothingSeen, Seen, MaybeId
    <2> QED
      BY <1>1, <2>1 DEF RunsOK, Forgets, MaybeId, Answer
  <1>2. Finish(r) => pc' \in [Run -> Steps] /\ pc'[r] \in {"claim", "idle"}
    BY DEF RunsOK, Finish, Steps
  <1>3. Finish(r) => \A q \in Run \ {r} : pc'[q] = pc[q] /\ made'[q] = made[q]
                                          /\ answer'[q] = answer[q]
    BY DEF RunsOK, Finish, Forgets
  <1> QED
    BY <1>1, <1>2, <1>3 DEF RunsOK, Finish

\* What the parts of an action do.
LEMMA LoadsType ==
    ASSUME RowOK, RunsOK, NEW r \in Run, Loads(r)
    PROVE  seen' \in [Run -> Seen]
  <1>1. [seen[r] EXCEPT !.method = row.method, !.stale = row.stale,
                        !.held = (row.value # NoPass)] \in Seen
    BY DEF RowOK, RunsOK, Seen, Pass
  <1>2. seen' = [seen EXCEPT ![r] =
                   [seen[r] EXCEPT !.method = row.method, !.stale = row.stale,
                                   !.held = (row.value # NoPass)]]
    BY DEF Loads, RunsOK, Seen
  <1> QED
    BY <1>1, <1>2 DEF RunsOK

LEMMA DeleteType ==
    ASSUME EntraOK, NEW m, DeleteInEntra(m)
    PROVE  EntraOK'
  <1>1. entra' \in MaybeId /\ ids' \subseteq Method
    BY DEF EntraOK, DeleteInEntra, MaybeId
  <1>2. used' \in BOOLEAN
    BY DEF EntraOK, DeleteInEntra
  <1> QED
    BY <1>1, <1>2 DEF EntraOK

LEMMA UpdateType ==
    ASSUME row \in Pass, NEW p \in Pass, NEW r \in Run
    PROVE  /\ Update(r, p) => row' \in Pass
           /\ UpdateUnguarded(r, p) => row' \in Pass
  BY DEF Update, UpdateUnguarded, Pass

\* What record takes is anything but a made pass; a sweep rechecks.
Settling == \A r \in Run :
    /\ pc[r] = "settle" => answer[r] \in {"wait", "refused", "failed"}
    /\ pc[r] = "record" => made[r] # NoPass
    /\ pc[r] \in {"recheck", "rechecked"} => r \in Sweeper

TypeInv == TypeOK /\ Settling

\* A part no variable of which changes stays as it is.
LEMMA Frame ==
    TypeInv => /\ UNCHANGED rowVars => RowOK'
               /\ UNCHANGED worldVars => WorldOK'
               /\ UNCHANGED entraVars => EntraOK'
               /\ UNCHANGED runVars => RunsOK' /\ Settling'
               /\ UNCHANGED <<procVars, wasUnable>> => ProcsOK'
               /\ UNCHANGED bounds => BoundsOK'
               /\ Call /\ UNCHANGED <<faults, lapses>> => BoundsOK'
               /\ Fault /\ UNCHANGED <<calls, lapses>> => BoundsOK'
  BY DEF TypeInv, TypeOK, RowOK, WorldOK, EntraOK, RunsOK, ProcsOK, BoundsOK,
         Settling, rowVars, worldVars, entraVars, runVars, procVars, bounds,
         Call, Fault

\* Every action keeps the types, and what Settling says.
LEMMA TypeStep == TypeInv /\ [Next]_vars => TypeInv'
  <1> SUFFICES ASSUME TypeInv, [Next]_vars PROVE TypeInv'
    OBVIOUS
  <1> USE ConstantsOK DEF TypeInv, TypeOK, Run
  <1>1. CASE AccountCreated
    BY <1>1, Frame DEF AccountCreated, WorldOK
  <1>2. CASE ClassEnds
    <2>1. WorldOK'
      BY <1>2 DEF ClassEnds, WorldOK
    <2> QED
      BY <1>2, <2>1, Frame DEF ClassEnds
  <1>3. CASE BecomesAdmin
    <2>1. WorldOK'
      BY <1>3 DEF BecomesAdmin, WorldOK
    <2> QED
      BY <1>3, <2>1, Frame DEF BecomesAdmin
  <1>4. CASE SetFeature
    <2>1. WorldOK'
      BY <1>4 DEF SetFeature, WorldOK
    <2> QED
      BY <1>4, <2>1, Frame DEF SetFeature
  <1>5. CASE Used
    <2>1. EntraOK'
      BY <1>5 DEF Used, EntraOK
    <2> QED
      BY <1>5, <2>1, Frame DEF Used
  <1>6. CASE GivenElsewhere
    <2>1. EntraOK'
      BY <1>6, NextIdFresh DEF GivenElsewhere, EntraOK, MaybeId
    <2> QED
      BY <1>6, <2>1, Frame DEF GivenElsewhere
  <1>7. CASE DueComes
    <2>1. RowOK'
      BY <1>7 DEF DueComes, RowOK, Pass
    <2>2. BoundsOK'
      BY <1>7 DEF DueComes, BoundsOK
    <2> QED
      BY <1>7, <2>1, <2>2, Frame DEF DueComes
  <1>8. ASSUME NEW o \in Operator, AbilityChanges(o) PROVE TypeInv'
    <2>1. WorldOK'
      BY <1>8 DEF AbilityChanges, WorldOK
    <2>2. ProcsOK'
      BY <1>8 DEF AbilityChanges, ProcsOK, procVars
    <2> QED
      BY <1>8, <2>1, <2>2, Frame DEF AbilityChanges
  <1>9. ASSUME NEW o \in Operator, Reschedule(o) PROVE TypeInv'
    <2>1. RowOK'
      BY <1>9, MovedType DEF Reschedule, RowOK
    <2>2. WorldOK'
      BY <1>9 DEF Reschedule, WorldOK
    <2> QED
      BY <1>9, <2>1, <2>2, Frame DEF Reschedule
  <1>10. ASSUME NEW o \in Operator, TakeOver(o) PROVE TypeInv'
    <2>1. RowOK'
      BY <1>10 DEF TakeOver, RowOK
    <2> QED
      BY <1>10, <2>1, Frame DEF TakeOver
  <1>11. ASSUME NEW q \in Sweeper, StatusAges(q) PROVE TypeInv'
    BY <1>11, Frame DEF StatusAges, ProcsOK
  <1>12. ASSUME NEW q \in Sweeper, SweepBegins(q) PROVE TypeInv'
    <2>1. RowOK'
      BY <1>12 DEF SweepBegins, RowOK, Pass, MaybeId
    <2>2. RunsOK'
      BY <1>12 DEF SweepBegins, RunsOK, WorldOK, MaybeId, Steps, Seen
    <2>3. Settling'
      BY <1>12 DEF SweepBegins, RunsOK, Settling, Steps
    <2>4. ProcsOK'
      BY <1>12 DEF SweepBegins, ProcsOK, MaybeId
    <2> QED
      BY <1>12, <2>1, <2>2, <2>3, <2>4, Frame DEF SweepBegins
  <1>13. ASSUME NEW q \in Sweeper, AuthorityRead(q) PROVE TypeInv'
    <2>1. RunsOK'
      BY <1>13 DEF AuthorityRead, RunsOK, Steps, Answer, Seen, RowOK
    <2>2. Settling'
      BY <1>13 DEF AuthorityRead, RunsOK, Settling, Steps
    <2> QED
      BY <1>13, <2>1, <2>2, Frame DEF AuthorityRead
  <1>14. ASSUME NEW q \in Sweeper, AuthorityWrites(q) PROVE TypeInv'
    <2>1. RowOK'
      BY <1>14 DEF AuthorityWrites, RowOK
    <2>2. RunsOK'
      BY <1>14 DEF AuthorityWrites, RunsOK, Steps, Answer
    <2>3. Settling'
      BY <1>14 DEF AuthorityWrites, RunsOK, Settling, Steps
    <2> QED
      BY <1>14, <2>1, <2>2, <2>3, Frame DEF AuthorityWrites
  <1>15. ASSUME NEW q \in Sweeper, ClaimDue(q) PROVE TypeInv'
    <2>1. RowOK'
      BY <1>15 DEF ClaimDue, RowOK, Pass
    <2>2. RunsOK'
      BY <1>15 DEF ClaimDue, RunsOK, Steps
    <2>3. Settling'
      BY <1>15 DEF ClaimDue, RunsOK, Settling, Steps
    <2> QED
      BY <1>15, <2>1, <2>2, <2>3, Frame DEF ClaimDue
  <1>16. ASSUME NEW r \in Run, Load(r) PROVE TypeInv'
    <2>1. RunsOK'
      BY <1>16 DEF Load, RunsOK, Loads, RowOK, Pass, Seen, Steps, Making
    <2>2. Settling'
      BY <1>16 DEF Load, RunsOK, Settling, Steps, Making
    <2> QED
      BY <1>16, <2>1, <2>2, Frame DEF Load
  <1>17. ASSUME NEW r \in Run, DeleteStale(r) PROVE TypeInv'
    <2>1. EntraOK'
      BY <1>17 DEF DeleteStale, EntraOK, DeleteInEntra, MaybeId
    <2>2. RunsOK'
      BY <1>17 DEF DeleteStale, RunsOK, MaybeId, Steps, Making, Answer
    <2>3. Settling'
      BY <1>17 DEF DeleteStale, RunsOK, Settling, Steps, Making
    <2> QED
      BY <1>17, <2>1, <2>2, <2>3, Frame DEF DeleteStale
  <1>18. ASSUME NEW r \in Run, ClearStale(r) PROVE TypeInv'
    <2>1. RowOK'
      BY <1>18 DEF ClearStale, RowOK, Pass, MaybeId
    <2>2. RunsOK'
      BY <1>18 DEF ClearStale, RunsOK, MaybeId, Steps, Making
    <2>3. Settling'
      BY <1>18 DEF ClearStale, RunsOK, Settling, Steps, Making
    <2> QED
      BY <1>18, <2>1, <2>2, <2>3, Frame DEF ClearStale
  <1>19. ASSUME NEW r \in Run, Preflight(r) PROVE TypeInv'
    <2>1. RunsOK'
      BY <1>19 DEF Preflight, RunsOK, Steps, Making, Answer
    <2>2. Settling'
      BY <1>19 DEF Preflight, RunsOK, Settling, Steps, Making
    <2> QED
      BY <1>19, <2>1, <2>2, Frame DEF Preflight, bounds
  <1>20. ASSUME NEW r \in Run, Post(r) PROVE TypeInv'
    <2>1. EntraOK'
      BY <1>20, NextIdFresh DEF Post, EntraOK, MaybeId
    <2>2. RunsOK'
      BY <1>20, NextIdFresh DEF Post, EntraOK, RunsOK, MaybeId, Steps,
         Making, Answer
    <2>3. Settling'
      BY <1>20, NextIdFresh DEF Post, EntraOK, RunsOK, Settling, Steps,
         Making
    <2> QED
      BY <1>20, <2>1, <2>2, <2>3, Frame DEF Post
  <1>21. ASSUME NEW r \in Run, Record(r) PROVE TypeInv'
    <2>1. RowOK'
      BY <1>21, RowTypes, UpdateType DEF Record, RowOK, RunsOK
    <2>2. RunsOK'
      BY <1>21, FinishTypes DEF Record, RunsOK, Forgets, Steps, Making
    <2>3. Settling'
      BY <1>21, FinishTypes DEF Record, RunsOK, Settling, Steps, Making
    <2> QED
      BY <1>21, <2>1, <2>2, <2>3, Frame DEF Record
  <1>22. ASSUME NEW r \in Run, Undo(r) PROVE TypeInv'
    <2>1. EntraOK'
      BY <1>22, DeleteType, Frame DEF Undo
    <2>2. RunsOK'
      BY <1>22 DEF Undo, RunsOK, MaybeId, Steps, Making, Answer
    <2>3. Settling'
      BY <1>22 DEF Undo, RunsOK, Settling, Steps, Making
    <2> QED
      BY <1>22, <2>1, <2>2, <2>3, Frame DEF Undo
  <1>23. ASSUME NEW r \in Run, RecordUndone(r) PROVE TypeInv'
    <2>1. RowOK'
      BY <1>23, RowTypes DEF RecordUndone, RowOK, Update, Pass
    <2>2. RunsOK'
      BY <1>23, FinishTypes DEF RecordUndone, RunsOK, Forgets
    <2>3. Settling'
      BY <1>23, FinishTypes DEF RecordUndone, RunsOK, Settling
    <2> QED
      BY <1>23, <2>1, <2>2, <2>3, Frame DEF RecordUndone
  <1>24. ASSUME NEW r \in Run, Settle(r) PROVE TypeInv'
    <2>1. RowOK'
      BY <1>24, RowTypes, UpdateType DEF Settle, RowOK, Settling
    <2>2. RunsOK'
      BY <1>24, FinishTypes DEF Settle, RunsOK, Forgets
    <2>3. Settling'
      BY <1>24, FinishTypes DEF Settle, RunsOK, Settling
    <2> QED
      BY <1>24, <2>1, <2>2, <2>3, Frame DEF Settle
  <1>25. ASSUME NEW r \in Run, Recheck(r) PROVE TypeInv'
    <2>1. RunsOK'
      BY <1>25 DEF Recheck, RunsOK, Steps, Answer
    <2>2. Settling'
      BY <1>25 DEF Recheck, RunsOK, Settling, Steps
    <2> QED
      BY <1>25, <2>1, <2>2, Frame DEF Recheck, bounds
  <1>26. ASSUME NEW r \in Run, RecordRecheck(r) PROVE TypeInv'
    <2>1. RowOK'
      BY <1>26, RowTypes DEF RecordRecheck, RowOK, Update, Pass
    <2>2. RunsOK'
      BY <1>26, FinishTypes DEF RecordRecheck, RunsOK, Forgets
    <2>3. Settling'
      BY <1>26, FinishTypes DEF RecordRecheck, RunsOK, Settling
    <2> QED
      BY <1>26, <2>1, <2>2, <2>3, Frame DEF RecordRecheck
  <1>27. ASSUME NEW r \in Run, RevokeDeletes(r) PROVE TypeInv'
    <2>1. EntraOK'
      BY <1>27, DeleteType, Frame DEF RevokeDeletes
    <2>2. RunsOK'
      BY <1>27 DEF RevokeDeletes, RunsOK, MaybeId, Steps, Answer
    <2>3. Settling'
      BY <1>27 DEF RevokeDeletes, RunsOK, Settling, Steps
    <2> QED
      BY <1>27, <2>1, <2>2, <2>3, Frame DEF RevokeDeletes
  <1>28. ASSUME NEW r \in Run, RecordRevoke(r) PROVE TypeInv'
    <2>1. RowOK'
      BY <1>28, RowTypes DEF RecordRevoke, RowOK, Update, UpdateUnguarded,
         Pass
    <2>2. RunsOK'
      BY <1>28, FinishTypes DEF RecordRevoke, RunsOK, Forgets
    <2>3. Settling'
      BY <1>28, FinishTypes DEF RecordRevoke, RunsOK, Settling
    <2> QED
      BY <1>28, <2>1, <2>2, <2>3, Frame DEF RecordRevoke
  <1>29. ASSUME NEW r \in Run, Crash(r) PROVE TypeInv'
    <2>1. RunsOK'
      BY <1>29, FinishTypes DEF Crash, RunsOK, Forgets, Steps, NothingSeen,
         Seen, MaybeId, Answer
    <2>2. Settling'
      BY <1>29 DEF Crash, Forgets, RunsOK, Settling, Steps
    <2>3. ProcsOK'
      BY <1>29 DEF Crash, ProcsOK, Forgets, MaybeId
    <2> QED
      BY <1>29, <2>1, <2>2, <2>3, Frame DEF Crash
  <1>30. ASSUME NEW r \in Route, Reveal(r) PROVE TypeInv'
    <2>1. RunsOK'
      BY <1>30, LoadsType DEF Reveal, RunsOK, Steps
    <2>2. Settling'
      BY <1>30 DEF Reveal, RunsOK, Settling, Steps
    <2> QED
      BY <1>30, <2>1, <2>2, Frame DEF Reveal
  <1>31. ASSUME NEW r \in Route, Roster(r) PROVE TypeInv'
    <2>1. RunsOK'
      BY <1>31, LoadsType DEF Roster, RunsOK, Steps
    <2>2. Settling'
      BY <1>31 DEF Roster, RunsOK, Settling, Steps
    <2> QED
      BY <1>31, <2>1, <2>2, Frame DEF Roster
  <1>32. ASSUME NEW r \in Route, Reissue(r) PROVE TypeInv'
    <2>1. RowOK'
      BY <1>32, RowTypes DEF Reissue, RowOK
    <2>2. RunsOK'
      BY <1>32 DEF Reissue, RunsOK, Steps
    <2>3. Settling'
      BY <1>32 DEF Reissue, RunsOK, Settling, Steps
    <2> QED
      BY <1>32, <2>1, <2>2, <2>3, Frame DEF Reissue
  <1>33. ASSUME NEW r \in Route, RevealChecks(r) PROVE TypeInv'
    <2>1. RunsOK'
      BY <1>33, FinishTypes DEF RevealChecks, RunsOK, Forgets, Steps, Answer
    <2>2. Settling'
      BY <1>33, FinishTypes DEF RevealChecks, RunsOK, Settling, Steps
    <2> QED
      BY <1>33, <2>1, <2>2, Frame DEF RevealChecks, bounds
  <1>34. ASSUME NEW r \in Route, NEW q \in Sweeper, RosterAsks(r, q) PROVE TypeInv'
    <2>1. RunsOK'
      BY <1>34, FinishTypes DEF RosterAsks, RunsOK, Forgets, MaybeId, EntraOK,
         WorldOK
    <2>2. Settling'
      BY <1>34, FinishTypes DEF RosterAsks, RunsOK, Settling
    <2>3. ProcsOK'
      BY <1>34 DEF RosterAsks, ProcsOK, Forgets, LivePass, Current, Listed,
         MaybeId, EntraOK, WorldOK
    <2> QED
      BY <1>34, <2>1, <2>2, <2>3, Frame DEF RosterAsks
  <1>35. CASE UNCHANGED vars
    BY <1>35, Frame DEF vars
  <1> QED
    BY <1>1, <1>2, <1>3, <1>4, <1>5, <1>6, <1>7, <1>8, <1>9, <1>10, <1>11,
       <1>12, <1>13, <1>14, <1>15, <1>16, <1>17, <1>18, <1>19, <1>20, <1>21,
       <1>22, <1>23, <1>24, <1>25, <1>26, <1>27, <1>28, <1>29, <1>30, <1>31,
       <1>32, <1>33, <1>34, <1>35 DEF Next, World, Sweep, Step, Make, Check,
       Asked, Answered

\* Entra gives an id once, so what the row and the runs know of is nothing
\* it may still give.
IdsGiven ==
    /\ Known(row) \subseteq ids /\ entra \in ids \cup {NoPass}
    /\ \A r \in Run : {seen[r].method, seen[r].stale, made[r]}
                          \subseteq ids \cup {NoPass}

\* A run whose claim stands knows what the row is.
Remaking == {"preflight", "post", "record", "undo", "undone"}
ClaimStands == \A r \in Run : row.claim = r =>
    /\ pc[r] \in Making => row.status = "waiting"
    /\ pc[r] = "load" => row.status = "waiting"
                         \/ (r \in Sweeper /\ row.status = "issued")
    /\ pc[r] = "delete" => seen[r].stale = row.stale
    /\ pc[r] = "clear" => /\ seen[r].stale = row.stale
                          /\ row.stale # NoPass /\ entra # row.stale
    /\ pc[r] \in Remaking => row.stale = NoPass
    /\ pc[r] \in {"recheck", "rechecked", "revoke", "revoked"} /\ r \in Sweeper
       => row.status = "issued" /\ row.method = seen[r].method
    /\ pc[r] = "revoked" /\ r \in Sweeper
       => answer[r] \in {"deleted", "kept"}
          /\ (answer[r] = "deleted" => entra # row.method)

\* What a sweep has been told of an authoriser was so.
LapseSeen ==
    /\ Operator \ able \subseteq wasUnable
    /\ \A s \in Sweeper : pc[s] = "pause" /\ answer[s] = "unable"
                          => seen[s].authoriser \in wasUnable

Safe == IdsGiven /\ NoPassBehind /\ ClaimStands /\ LapseSeen
        /\ PausedForAuthoriser
IInv == TypeInv /\ Safe

\* A conjunct whose variables stay as they are stays true.
LEMMA Framed ==
    Safe => /\ UNCHANGED <<row, entra, ids, seen, made>> => IdsGiven'
            /\ UNCHANGED row => NoPassBehind'
            /\ UNCHANGED <<row, entra, pc, seen, answer>> => ClaimStands'
            /\ UNCHANGED <<able, wasUnable, pc, seen, answer>> => LapseSeen'
            /\ UNCHANGED <<authoriser, lapsed, wasUnable>>
                 => PausedForAuthoriser'
  BY DEF Safe, IdsGiven, Known, NoPassBehind, ClaimStands, Making, Remaking,
         LapseSeen, PausedForAuthoriser

\* What deleting, recording and revoking do.
LEMMA Deleted ==
    ASSUME NEW m, DeleteInEntra(m)
    PROVE  /\ entra' = entra \/ entra' = NoPass
           /\ m # NoPass => entra' # m
  BY DEF DeleteInEntra

LEMMA FinishDoes ==
    ASSUME RunsOK, NEW r \in Run, Finish(r)
    PROVE  /\ pc'[r] \in {"claim", "idle"}
           /\ seen'[r].method = NoPass /\ seen'[r].stale = NoPass
           /\ made'[r] = NoPass
           /\ \A q \in Run \ {r} :
                 pc'[q] = pc[q] /\ seen'[q] = seen[q] /\ made'[q] = made[q]
                 /\ answer'[q] = answer[q]
  BY DEF RunsOK, Finish, Forgets, NothingSeen, Steps

LEMMA RecordDoes ==
    ASSUME TypeInv, IdsGiven, ClaimStands, NEW r \in Run, Record(r)
    PROVE  \/ /\ row.claim = r /\ row'.status = "issued" /\ row'.claim = NoRun
              /\ row'.method = made[r] /\ row'.value = made[r]
              /\ made[r] # NoPass /\ made[r] \in ids
              /\ row'.stale = NoPass /\ row.stale = NoPass
              /\ row.status = "waiting"
              /\ entraVars' = entraVars /\ NoRun \notin Run
              /\ \A q \in Run : {seen'[q].method, seen'[q].stale, made'[q]}
                                    \subseteq ids \cup {NoPass}
           \/ /\ row' = row /\ seen' = seen /\ made' = made /\ answer' = answer
              /\ pc' = [pc EXCEPT ![r] = "undo"] /\ pc[r] = "record"
              /\ entraVars' = entraVars
  <1> USE ConstantsOK DEF TypeInv, TypeOK, Run
  <1>1. CASE row.claim = r /\ Update(r, Issued(made[r])) /\ Finish(r)
    <2>1. row' = [Issued(made[r]) EXCEPT !.claim = NoRun]
      BY <1>1 DEF Update
    <2>2. /\ row'.status = "issued" /\ row'.claim = NoRun
          /\ row'.method = made[r] /\ row'.value = made[r]
          /\ row'.stale = row.stale
      BY <2>1 DEF Issued, RowOK, Pass
    <2>3. row.stale = NoPass /\ row.status = "waiting" /\ made[r] # NoPass
          /\ made[r] \in ids
      BY <1>1 DEF Record, ClaimStands, Making, Remaking, Settling, IdsGiven
    <2>4. \A q \in Run : {seen'[q].method, seen'[q].stale, made'[q]}
                             \subseteq ids \cup {NoPass}
      BY <1>1, FinishDoes DEF IdsGiven
    <2> QED
      BY <1>1, <2>2, <2>3, <2>4 DEF Record
  <1> QED
    BY <1>1 DEF Record

LEMMA RevokeDoes ==
    ASSUME TypeInv, NEW r \in Run, RecordRevoke(r)
    PROVE  \/ row' = row
           \/ /\ row'.stale = row.stale /\ row'.method = NoPass
              /\ row'.claim = NoRun /\ NoRun \notin Run
  BY ConstantsOK DEF RecordRevoke, Update, UpdateUnguarded, Revoked, NoneHeld,
     TypeInv, TypeOK, RowOK, Pass, Run

\* Every action keeps the rest.
LEMMA SafeStep == IInv /\ [Next]_vars => Safe'
  <1> SUFFICES ASSUME IInv, [Next]_vars PROVE Safe'
    OBVIOUS
  <1> USE ConstantsOK DEF IInv, TypeInv, TypeOK, Safe, Run
  <1>1. CASE AccountCreated
    BY <1>1, Framed DEF AccountCreated, rowVars, worldVars, entraVars, runVars
  <1>2. CASE ClassEnds
    BY <1>2, Framed DEF ClassEnds, rowVars, worldVars, entraVars, runVars
  <1>3. CASE BecomesAdmin
    BY <1>3, Framed DEF BecomesAdmin, rowVars, worldVars, entraVars, runVars
  <1>4. CASE SetFeature
    BY <1>4, Framed DEF SetFeature, rowVars, worldVars, entraVars, runVars
  <1>5. CASE Used
    BY <1>5, Framed DEF Used, rowVars, worldVars, entraVars, runVars
  <1>6. CASE GivenElsewhere
    <2>1. IdsGiven'
      BY <1>6, NextIdFresh DEF GivenElsewhere, IdsGiven, Known, RowOK,
         EntraOK, RunsOK, rowVars, entraVars, runVars
    <2>2. ClaimStands'
      BY <1>6, NextIdFresh DEF GivenElsewhere, ClaimStands, Making,
         Remaking, RowOK, EntraOK, RunsOK, IdsGiven, Known, rowVars,
         entraVars, runVars
    <2> QED
      BY <1>6, <2>1, <2>2, Framed DEF GivenElsewhere, rowVars, worldVars,
         entraVars, runVars
  <1>7. CASE DueComes
    <2>1. IdsGiven'
      BY <1>7 DEF DueComes, IdsGiven, Known, RowOK, EntraOK, RunsOK,
         Pass, rowVars, entraVars, runVars
    <2>2. NoPassBehind'
      BY <1>7 DEF DueComes, NoPassBehind, RowOK, Pass, ClaimStands,
         Making, Remaking
    <2>3. ClaimStands'
      BY <1>7 DEF DueComes, ClaimStands, Making, Remaking, RowOK,
         EntraOK, RunsOK, Pass, IdsGiven, Known, rowVars, entraVars, runVars
    <2> QED
      BY <1>7, <2>1, <2>2, <2>3, Framed DEF DueComes, rowVars, worldVars,
         entraVars, runVars
  <1>8. ASSUME NEW o \in Operator, AbilityChanges(o) PROVE Safe'
    <2>1. LapseSeen'
      BY <1>8 DEF AbilityChanges, LapseSeen, RunsOK, runVars
    <2>2. PausedForAuthoriser'
      BY <1>8 DEF AbilityChanges, PausedForAuthoriser, LapseSeen,
         rowVars
    <2> QED
      BY <1>8, <2>1, <2>2, Framed DEF AbilityChanges, rowVars, worldVars,
         entraVars, runVars
  <1>9. ASSUME NEW o \in Operator, Reschedule(o) PROVE Safe'
    <2>1. IdsGiven'
      BY <1>9 DEF Reschedule, IdsGiven, Known, RowOK, EntraOK, RunsOK,
         Moved, NoneHeld, StaleOf, Pass, rowVars, entraVars, runVars
    <2>2. NoPassBehind'
      BY <1>9 DEF Reschedule, NoPassBehind, RowOK, Pass, Moved,
         NoneHeld, StaleOf, ClaimStands, Making, Remaking
    <2>3. ClaimStands'
      BY <1>9 DEF Reschedule, ClaimStands, Making, Remaking, RowOK,
         EntraOK, RunsOK, Moved, NoneHeld, StaleOf, Pass, IdsGiven, Known,
         rowVars, entraVars, runVars
    <2>4. PausedForAuthoriser'
      BY <1>9 DEF Reschedule, PausedForAuthoriser, LapseSeen, rowVars
    <2> QED
      BY <1>9, <2>1, <2>2, <2>3, <2>4, Framed DEF Reschedule, rowVars,
         worldVars, entraVars, runVars
  <1>10. ASSUME NEW o \in Operator, TakeOver(o) PROVE Safe'
    <2>1. PausedForAuthoriser'
      BY <1>10 DEF TakeOver, PausedForAuthoriser, LapseSeen, rowVars
    <2> QED
      BY <1>10, <2>1, Framed DEF TakeOver, rowVars, worldVars, entraVars,
         runVars
  <1>11. ASSUME NEW q \in Sweeper, StatusAges(q) PROVE Safe'
    BY <1>11, Framed DEF StatusAges, rowVars, worldVars, entraVars, runVars
  <1>12. ASSUME NEW q \in Sweeper, SweepBegins(q) PROVE Safe'
    <2>1. IdsGiven'
      BY <1>12 DEF SweepBegins, IdsGiven, Known, RowOK, EntraOK,
         RunsOK, Pass, rowVars, entraVars, runVars
    <2>2. NoPassBehind'
      BY <1>12 DEF SweepBegins, NoPassBehind, RowOK, Pass,
         ClaimStands, Making, Remaking
    <2>3. ClaimStands'
      BY <1>12 DEF SweepBegins, ClaimStands, Making, Remaking, RowOK,
         EntraOK, RunsOK, Pass, IdsGiven, Known, rowVars, entraVars, runVars
    <2>4. LapseSeen'
      BY <1>12 DEF SweepBegins, LapseSeen, RunsOK, worldVars
    <2> QED
      BY <1>12, <2>1, <2>2, <2>3, <2>4, Framed DEF SweepBegins, rowVars,
         worldVars, entraVars, runVars
  <1>13. ASSUME NEW q \in Sweeper, AuthorityRead(q) PROVE Safe'
    <2>1. IdsGiven'
      BY <1>13 DEF AuthorityRead, IdsGiven, Known, RunsOK, Seen, rowVars,
         entraVars
    <2>2. ClaimStands'
      BY <1>13 DEF AuthorityRead, ClaimStands, Making, Remaking,
         RowOK, EntraOK, RunsOK, IdsGiven, Known, rowVars, entraVars, runVars
    <2>3. LapseSeen'
      BY <1>13 DEF AuthorityRead, LapseSeen, RunsOK, worldVars, RowOK, Seen
    <2> QED
      BY <1>13, <2>1, <2>2, <2>3, Framed DEF AuthorityRead, rowVars,
         worldVars, entraVars, runVars
  <1>14. ASSUME NEW q \in Sweeper, AuthorityWrites(q) PROVE Safe'
    <2>1. ClaimStands'
      BY <1>14 DEF AuthorityWrites, ClaimStands, Making, Remaking,
         RowOK, EntraOK, RunsOK, IdsGiven, Known, rowVars, entraVars, runVars
    <2>2. LapseSeen'
      BY <1>14 DEF AuthorityWrites, LapseSeen, RunsOK, worldVars
    <2>3. PausedForAuthoriser'
      BY <1>14 DEF AuthorityWrites, StillTheirs, PausedForAuthoriser, LapseSeen,
         rowVars
    <2> QED
      BY <1>14, <2>1, <2>2, <2>3, Framed DEF AuthorityWrites, rowVars,
         worldVars, entraVars, runVars
  <1>15. ASSUME NEW q \in Sweeper, ClaimDue(q) PROVE Safe'
    <2>1. IdsGiven'
      BY <1>15 DEF ClaimDue, IdsGiven, Known, RowOK, EntraOK, RunsOK,
         Claimable, Held, Pass, rowVars, entraVars, runVars
    <2>2. NoPassBehind'
      BY <1>15 DEF ClaimDue, NoPassBehind, RowOK, Pass, Claimable,
         Held, ClaimStands, Making, Remaking
    <2>3. ClaimStands'
      <3>1. CASE Claimable(q)
        <4>1. row.status \in {"waiting", "issued"}
          BY <3>1 DEF Claimable, Held
        <4>2. row'.claim = q /\ row'.status = row.status /\ pc'[q] = "load"
          BY <1>15, <3>1 DEF ClaimDue, RowOK, RunsOK, Pass
        <4> QED
          BY <4>1, <4>2 DEF ClaimStands, Making, Remaking
      <3>2. CASE ~Claimable(q)
        BY <1>15, <3>2 DEF ClaimDue, ClaimStands, Making, Remaking, RunsOK,
           entraVars
      <3> QED
        BY <3>1, <3>2
    <2>4. LapseSeen'
      BY <1>15 DEF ClaimDue, LapseSeen, RunsOK, worldVars
    <2> QED
      BY <1>15, <2>1, <2>2, <2>3, <2>4, Framed DEF ClaimDue, rowVars,
         worldVars, entraVars, runVars
  <1>16. ASSUME NEW r \in Run, Load(r) PROVE Safe'
    <2>1. IdsGiven'
      BY <1>16 DEF Load, IdsGiven, Known, RowOK, EntraOK, RunsOK,
         Loads, Pass, rowVars, entraVars, runVars
    <2>2. ClaimStands'
      BY <1>16 DEF Load, ClaimStands, Making, Remaking, RowOK,
         EntraOK, RunsOK, Loads, Pass, IdsGiven, Known, rowVars, entraVars,
         runVars
    <2>3. LapseSeen'
      BY <1>16 DEF Load, LapseSeen, RunsOK, Loads, worldVars
    <2> QED
      BY <1>16, <2>1, <2>2, <2>3, Framed DEF Load, rowVars, worldVars,
         entraVars, runVars
  <1>17. ASSUME NEW r \in Run, DeleteStale(r) PROVE Safe'
    <2>1. IdsGiven'
      BY <1>17 DEF DeleteStale, IdsGiven, Known, RowOK, EntraOK,
         RunsOK, DeleteInEntra, rowVars, entraVars, runVars
    <2>2. ClaimStands'
      <3>1. entra' = entra \/ entra' = NoPass
        BY <1>17, Deleted DEF DeleteStale
      <3>3. CASE seen[r].stale # NoPass /\ pc'[r] = "clear"
        <4>1. entra' # seen[r].stale
          BY <1>17, <3>3, Deleted DEF DeleteStale, RunsOK, Steps
        <4> QED
          BY <1>17, <3>1, <3>3, <4>1
             DEF NoPassBehind, DeleteStale, ClaimStands, Making, Remaking,
               RunsOK, rowVars
      <3>4. CASE seen[r].stale = NoPass /\ pc'[r] = "preflight"
        BY <1>17, <3>1, <3>4
           DEF NoPassBehind, DeleteStale, ClaimStands, Making, Remaking,
               RunsOK, rowVars
      <3>5. CASE pc'[r] = "settle"
        BY <1>17, <3>1, <3>5
           DEF NoPassBehind, DeleteStale, ClaimStands, Making, Remaking,
               RunsOK, rowVars
      <3> QED
        BY <1>17, <3>3, <3>4, <3>5 DEF DeleteStale, RunsOK
    <2>3. LapseSeen'
      BY <1>17 DEF DeleteStale, LapseSeen, RunsOK, worldVars
    <2> QED
      BY <1>17, <2>1, <2>2, <2>3, Framed DEF DeleteStale, rowVars, worldVars,
         entraVars, runVars
  <1>18. ASSUME NEW r \in Run, ClearStale(r) PROVE Safe'
    <2>1. IdsGiven'
      BY <1>18 DEF ClearStale, IdsGiven, Known, RowOK, EntraOK,
         RunsOK, Pass, rowVars, entraVars, runVars
    <2>2. NoPassBehind'
      BY <1>18 DEF ClearStale, NoPassBehind, RowOK, Pass, ClaimStands,
         Making, Remaking
    <2>3. ClaimStands'
      BY <1>18 DEF ClearStale, ClaimStands, Making, Remaking, RowOK,
         EntraOK, RunsOK, Pass, IdsGiven, Known, rowVars, entraVars, runVars
    <2>4. LapseSeen'
      BY <1>18 DEF ClearStale, LapseSeen, RunsOK, worldVars
    <2> QED
      BY <1>18, <2>1, <2>2, <2>3, <2>4, Framed DEF ClearStale, rowVars,
         worldVars, entraVars, runVars
  <1>19. ASSUME NEW r \in Run, Preflight(r) PROVE Safe'
    <2>1. ClaimStands'
      BY <1>19 DEF Preflight, ClaimStands, Making, Remaking, RowOK,
         EntraOK, RunsOK, IdsGiven, Known, rowVars, entraVars, runVars
    <2>2. LapseSeen'
      BY <1>19 DEF Preflight, LapseSeen, RunsOK, worldVars
    <2> QED
      BY <1>19, <2>1, <2>2, Framed DEF Preflight, rowVars, worldVars,
         entraVars, runVars
  <1>20. ASSUME NEW r \in Run, Post(r) PROVE Safe'
    <2>1. IdsGiven'
      BY <1>20, NextIdFresh DEF Post, IdsGiven, Known, RowOK, EntraOK,
         RunsOK, rowVars, entraVars, runVars
    <2>2. ClaimStands'
      BY <1>20, NextIdFresh DEF Post, ClaimStands, Making, Remaking,
         RowOK, EntraOK, RunsOK, IdsGiven, Known, rowVars, entraVars, runVars
    <2>3. LapseSeen'
      BY <1>20, NextIdFresh DEF Post, LapseSeen, RunsOK, worldVars
    <2> QED
      BY <1>20, <2>1, <2>2, <2>3, Framed DEF Post, rowVars, worldVars,
         entraVars, runVars
  <1>21. ASSUME NEW r \in Run, Record(r) PROVE Safe'
    <2>1. IdsGiven'
      BY <1>21, RecordDoes DEF IdsGiven, Known, entraVars
    <2>2. NoPassBehind'
      BY <1>21, RecordDoes DEF NoPassBehind
    <2>3. ClaimStands'
      BY <1>21, RecordDoes DEF ClaimStands, Making, Remaking, entraVars, RunsOK
    <2>4. LapseSeen'
      BY <1>21 DEF Record, LapseSeen, RunsOK, Finish, Forgets,
         NothingSeen, worldVars
    <2> QED
      BY <1>21, <2>1, <2>2, <2>3, <2>4, Framed DEF Record, rowVars, worldVars,
         entraVars, runVars
  <1>22. ASSUME NEW r \in Run, Undo(r) PROVE Safe'
    <2>1. IdsGiven'
      BY <1>22 DEF Undo, IdsGiven, Known, RowOK, EntraOK, RunsOK,
         DeleteInEntra, rowVars, entraVars, runVars, NoPassBehind,
         ClaimStands, Making
    <2>2. ClaimStands'
      <3>1. entra' = entra \/ entra' = NoPass
        BY <1>22, Deleted DEF Undo, entraVars
      <3> QED
        BY <1>22, <3>1
           DEF NoPassBehind, Undo, ClaimStands, Making, Remaking, RunsOK, rowVars, IdsGiven,
               Known
    <2>3. LapseSeen'
      BY <1>22 DEF Undo, LapseSeen, RunsOK, worldVars
    <2> QED
      BY <1>22, <2>1, <2>2, <2>3, Framed DEF Undo, rowVars, worldVars,
         entraVars, runVars
  <1>23. ASSUME NEW r \in Run, RecordUndone(r) PROVE Safe'
    <2>1. IdsGiven'
      BY <1>23 DEF RecordUndone, IdsGiven, Known, RowOK, EntraOK,
         RunsOK, Undone, NoneHeld, Update, Finish, Forgets, NothingSeen, Pass,
         rowVars, entraVars, runVars
    <2>2. NoPassBehind'
      BY <1>23 DEF RecordUndone, NoPassBehind, RowOK, Pass, Undone,
         NoneHeld, Update, ClaimStands, Making, Remaking
    <2>3. ClaimStands'
      BY <1>23 DEF RecordUndone, ClaimStands, Making, Remaking, RowOK,
         EntraOK, RunsOK, Undone, NoneHeld, Update, Finish, Forgets,
         NothingSeen, Pass, IdsGiven, Known, rowVars, entraVars, runVars
    <2>4. LapseSeen'
      BY <1>23 DEF RecordUndone, LapseSeen, RunsOK, Finish, Forgets,
         NothingSeen, worldVars
    <2> QED
      BY <1>23, <2>1, <2>2, <2>3, <2>4, Framed DEF RecordUndone, rowVars,
         worldVars, entraVars, runVars
  <1>24. ASSUME NEW r \in Run, Settle(r) PROVE Safe'
    <2>1. IdsGiven'
      BY <1>24 DEF Settle, IdsGiven, Known, RowOK, EntraOK, RunsOK,
         Settled, NoneHeld, Update, Finish, Forgets, NothingSeen, Pass,
         rowVars, entraVars, runVars
    <2>2. NoPassBehind'
      BY <1>24 DEF Settle, NoPassBehind, RowOK, Pass, Settled, NoneHeld, Update,
         ClaimStands, Making, Settling
    <2>3. ClaimStands'
      BY <1>24 DEF Settle, ClaimStands, Making, Remaking, RowOK,
         EntraOK, RunsOK, Settled, NoneHeld, Update, Finish, Forgets,
         NothingSeen, Pass, IdsGiven, Known, rowVars, entraVars, runVars
    <2>4. LapseSeen'
      BY <1>24 DEF Settle, LapseSeen, RunsOK, Finish, Forgets,
         NothingSeen, worldVars
    <2> QED
      BY <1>24, <2>1, <2>2, <2>3, <2>4, Framed DEF Settle, rowVars, worldVars,
         entraVars, runVars
  <1>25. ASSUME NEW r \in Run, Recheck(r) PROVE Safe'
    <2>1. ClaimStands'
      BY <1>25 DEF Recheck, ClaimStands, Making, Remaking, RowOK,
         EntraOK, RunsOK, IdsGiven, Known, rowVars, entraVars, runVars
    <2>2. LapseSeen'
      BY <1>25 DEF Recheck, LapseSeen, RunsOK, worldVars
    <2> QED
      BY <1>25, <2>1, <2>2, Framed DEF Recheck, rowVars, worldVars, entraVars,
         runVars
  <1>26. ASSUME NEW r \in Run, RecordRecheck(r) PROVE Safe'
    <2>1. IdsGiven'
      BY <1>26 DEF RecordRecheck, IdsGiven, Known, RowOK, EntraOK,
         RunsOK, Rechecked, Update, Finish, Forgets, NothingSeen, Pass,
         rowVars, entraVars, runVars
    <2>2. NoPassBehind'
      BY <1>26 DEF RecordRecheck, NoPassBehind, RowOK, Pass,
         Rechecked, Update, ClaimStands, Making, Remaking
    <2>3. ClaimStands'
      BY <1>26 DEF RecordRecheck, ClaimStands, Making, Remaking,
         RowOK, EntraOK, RunsOK, Rechecked, Update, Finish, Forgets,
         NothingSeen, Pass, IdsGiven, Known, rowVars, entraVars, runVars
    <2>4. LapseSeen'
      BY <1>26 DEF RecordRecheck, LapseSeen, RunsOK, Finish, Forgets,
         NothingSeen, worldVars
    <2> QED
      BY <1>26, <2>1, <2>2, <2>3, <2>4, Framed DEF RecordRecheck, rowVars,
         worldVars, entraVars, runVars
  <1>27. ASSUME NEW r \in Run, RevokeDeletes(r) PROVE Safe'
    <2>1. IdsGiven'
      BY <1>27 DEF RevokeDeletes, IdsGiven, Known, RowOK, EntraOK,
         RunsOK, DeleteInEntra, rowVars, entraVars, runVars
    <2>2. ClaimStands'
      <3>1. entra' = entra \/ entra' = NoPass
        BY <1>27, Deleted DEF RevokeDeletes, entraVars
      <3>2. /\ answer'[r] \in {"deleted", "kept"}
            /\ answer'[r] = "deleted" /\ seen[r].method # NoPass
               => entra' # seen[r].method
        BY <1>27, Deleted DEF RevokeDeletes, RunsOK
      <3>3. row.status = "issued" => row.method # NoPass
        BY DEF NoPassBehind
      <3> QED
        BY <1>27, <3>1, <3>2, <3>3
           DEF RevokeDeletes, ClaimStands, Making, Remaking, RunsOK, rowVars
    <2>3. LapseSeen'
      BY <1>27 DEF RevokeDeletes, LapseSeen, RunsOK, worldVars
    <2> QED
      BY <1>27, <2>1, <2>2, <2>3, Framed DEF RevokeDeletes, rowVars,
         worldVars, entraVars, runVars
  <1>28. ASSUME NEW r \in Run, RecordRevoke(r) PROVE Safe'
    <2>1. IdsGiven'
      BY <1>28, RevokeDoes, FinishDoes DEF RecordRevoke, IdsGiven, Known,
         entraVars
    <2>2. NoPassBehind'
      BY <1>28 DEF RecordRevoke, NoPassBehind, RowOK, Pass, Revoked,
         NoneHeld, Update, UpdateUnguarded, ClaimStands, Making, Remaking
    <2>3. ClaimStands'
      BY <1>28, RevokeDoes, FinishDoes
         DEF RecordRevoke, ClaimStands, Making, Remaking, entraVars
    <2>4. LapseSeen'
      BY <1>28 DEF RecordRevoke, LapseSeen, RunsOK, Finish, Forgets,
         NothingSeen, worldVars
    <2> QED
      BY <1>28, <2>1, <2>2, <2>3, <2>4, Framed DEF RecordRevoke, rowVars,
         worldVars, entraVars, runVars
  <1>29. ASSUME NEW r \in Run, Crash(r) PROVE Safe'
    <2>1. IdsGiven'
      BY <1>29 DEF Crash, IdsGiven, Known, RowOK, EntraOK, RunsOK,
         Forgets, NothingSeen, rowVars, entraVars, runVars
    <2>2. ClaimStands'
      BY <1>29 DEF Crash, ClaimStands, Making, Remaking, RowOK,
         EntraOK, RunsOK, Forgets, NothingSeen, IdsGiven, Known, rowVars,
         entraVars, runVars
    <2>3. LapseSeen'
      BY <1>29 DEF Crash, LapseSeen, RunsOK, Forgets, NothingSeen,
         worldVars
    <2> QED
      BY <1>29, <2>1, <2>2, <2>3, Framed DEF Crash, rowVars, worldVars,
         entraVars, runVars
  <1>30. ASSUME NEW r \in Route, Reveal(r) PROVE Safe'
    <2>1. IdsGiven'
      BY <1>30 DEF Reveal, IdsGiven, Known, RowOK, EntraOK, RunsOK,
         Loads, Pass, rowVars, entraVars, runVars
    <2>2. ClaimStands'
      BY <1>30 DEF Reveal, ClaimStands, Making, Remaking, RowOK,
         EntraOK, RunsOK, Loads, IdsGiven, Known, rowVars, entraVars, runVars
    <2>3. LapseSeen'
      BY <1>30 DEF Reveal, LapseSeen, RunsOK, Loads, worldVars
    <2> QED
      BY <1>30, <2>1, <2>2, <2>3, Framed DEF Reveal, rowVars, worldVars,
         entraVars, runVars
  <1>31. ASSUME NEW r \in Route, Roster(r) PROVE Safe'
    <2>1. IdsGiven'
      BY <1>31 DEF Roster, IdsGiven, Known, RowOK, EntraOK, RunsOK,
         Loads, Pass, rowVars, entraVars, runVars
    <2>2. ClaimStands'
      BY <1>31 DEF Roster, ClaimStands, Making, Remaking, RowOK,
         EntraOK, RunsOK, Loads, IdsGiven, Known, rowVars, entraVars, runVars
    <2>3. LapseSeen'
      BY <1>31 DEF Roster, LapseSeen, RunsOK, Loads, worldVars
    <2> QED
      BY <1>31, <2>1, <2>2, <2>3, Framed DEF Roster, rowVars, worldVars,
         entraVars, runVars
  <1>32. ASSUME NEW r \in Route, Reissue(r) PROVE Safe'
    <2>1. IdsGiven'
      BY <1>32 DEF Reissue, IdsGiven, Known, RowOK, EntraOK, RunsOK,
         Reissued, NoneHeld, StaleOf, Pass, rowVars, entraVars, runVars
    <2>2. NoPassBehind'
      BY <1>32 DEF Reissue, NoPassBehind, RowOK, Pass, Reissued,
         NoneHeld, StaleOf, ClaimStands, Making, Remaking
    <2>3. ClaimStands'
      BY <1>32 DEF Reissue, ClaimStands, Making, Remaking, RowOK,
         EntraOK, RunsOK, Reissued, NoneHeld, StaleOf, Pass, IdsGiven, Known,
         rowVars, entraVars, runVars
    <2>4. LapseSeen'
      BY <1>32 DEF Reissue, LapseSeen, RunsOK, worldVars
    <2> QED
      BY <1>32, <2>1, <2>2, <2>3, <2>4, Framed DEF Reissue, rowVars,
         worldVars, entraVars, runVars
  <1>33. ASSUME NEW r \in Route, RevealChecks(r) PROVE Safe'
    <2>1. IdsGiven'
      BY <1>33 DEF RevealChecks, IdsGiven, Known, RowOK, EntraOK,
         RunsOK, Finish, Forgets, NothingSeen, rowVars, entraVars, runVars
    <2>2. ClaimStands'
      BY <1>33 DEF RevealChecks, ClaimStands, Making, Remaking, RowOK,
         EntraOK, RunsOK, Finish, Forgets, NothingSeen, IdsGiven, Known,
         rowVars, entraVars, runVars
    <2>3. LapseSeen'
      BY <1>33 DEF RevealChecks, LapseSeen, RunsOK, Finish, Forgets,
         NothingSeen, worldVars
    <2> QED
      BY <1>33, <2>1, <2>2, <2>3, Framed DEF RevealChecks, rowVars, worldVars,
         entraVars, runVars
  <1>34. ASSUME NEW r \in Route, NEW q \in Sweeper, RosterAsks(r, q) PROVE Safe'
    <2>1. IdsGiven'
      BY <1>34 DEF RosterAsks, IdsGiven, Known, RowOK, EntraOK,
         RunsOK, Finish, Forgets, NothingSeen, rowVars, entraVars, runVars
    <2>2. ClaimStands'
      BY <1>34 DEF RosterAsks, ClaimStands, Making, Remaking, RowOK,
         EntraOK, RunsOK, Finish, Forgets, NothingSeen, IdsGiven, Known,
         rowVars, entraVars, runVars
    <2>3. LapseSeen'
      BY <1>34 DEF RosterAsks, LapseSeen, RunsOK, Finish, Forgets,
         NothingSeen, worldVars
    <2> QED
      BY <1>34, <2>1, <2>2, <2>3, Framed DEF RosterAsks, rowVars, worldVars,
         entraVars, runVars
  <1>35. CASE UNCHANGED vars
    BY <1>35, Framed DEF vars, rowVars, worldVars, entraVars, runVars
  <1> QED
    BY <1>1, <1>2, <1>3, <1>4, <1>5, <1>6, <1>7, <1>8, <1>9, <1>10, <1>11,
       <1>12, <1>13, <1>14, <1>15, <1>16, <1>17, <1>18, <1>19, <1>20, <1>21,
       <1>22, <1>23, <1>24, <1>25, <1>26, <1>27, <1>28, <1>29, <1>30, <1>31,
       <1>32, <1>33, <1>34, <1>35 DEF Next, World, Sweep, Step, Make, Check,
       Asked, Answered

\* What a step lets go of is dead, or the message tells of it.
LetGo == \A m \in Known(row) \ Known(row') : entra' # m \/ row'.told

LEMMA LetGoStep ==
    ASSUME IInv, [Next]_vars, \A r \in Route : ~RecordRevoke(r)
    PROVE  LetGo
  <1> USE ConstantsOK DEF IInv, TypeInv, TypeOK, Safe, Run
  <1>0. row \in Pass
    BY DEF RowOK
  <1>1. CASE row'.method = row.method /\ row'.stale = row.stale
    BY <1>1 DEF LetGo, Known
  <1>2. CASE row.method = NoPass /\ row.stale = NoPass
    BY <1>2 DEF LetGo, Known
  <1>3. CASE row.method = NoPass /\ row'.stale = row.stale
    BY <1>3 DEF LetGo, Known
  <1>4. ASSUME NEW r \in Run, ClearStale(r) PROVE LetGo
    BY <1>0, <1>4 DEF ClearStale, ClaimStands, Making, LetGo, Known, Pass,
       entraVars
  <1>5. ASSUME NEW r \in Run, Record(r) PROVE LetGo
    BY <1>1, <1>2, <1>5, RecordDoes DEF NoPassBehind
  <1>6. ASSUME NEW r \in Run, RecordUndone(r) PROVE LetGo
    <2>1. CASE row.claim = r
      BY <1>2, <1>6, <2>1
         DEF RecordUndone, ClaimStands, Making, Remaking, NoPassBehind
    <2>2. CASE row.claim # r
      BY <1>1, <1>6, <2>2 DEF RecordUndone, Update
    <2> QED
      BY <2>1, <2>2
  <1>7. ASSUME NEW r \in Run, Settle(r) PROVE LetGo
    <2>1. row'.stale = row.stale
      BY <1>0, <1>7 DEF Settle, Update, Settled, NoneHeld, Pass
    <2>2. row.claim = r => row.method = NoPass
      BY <1>7 DEF Settle, ClaimStands, Making, NoPassBehind
    <2>3. row.claim # r => row' = row
      BY <1>7 DEF Settle, Update
    <2> QED
      BY <1>1, <1>3, <2>1, <2>2, <2>3
  <1>8. ASSUME NEW r \in Sweeper, RecordRevoke(r) PROVE LetGo
    <2>1. CASE row.claim # r
      BY <1>1, <1>8, <2>1 DEF RecordRevoke, Update
    <2>2. CASE row.claim = r
      <3>1. entra' = entra
        BY <1>8 DEF RecordRevoke, entraVars
      <3>2. row'.stale = row.stale /\ row'.told = (answer[r] = "kept")
        BY <1>0, <1>8, <2>2 DEF RecordRevoke, Update, Revoked, NoneHeld, Pass
      <3>3. answer[r] = "kept" \/ entra # row.method
        BY <1>8, <2>2 DEF RecordRevoke, ClaimStands
      <3> QED
        BY <3>1, <3>2, <3>3 DEF LetGo, Known
    <2> QED
      BY <2>1, <2>2
  <1>9. ASSUME NEW r \in Run, RecordRecheck(r) PROVE LetGo
    BY <1>0, <1>1, <1>9 DEF RecordRecheck, Update, Rechecked, Pass
  <1>10. row.method # NoPass => row.stale = NoPass
    BY DEF NoPassBehind
  <1>11. ASSUME NEW r \in Route, Reissue(r) PROVE LetGo
    <2>1. row'.stale = StaleOf(row)
      BY <1>0, <1>11 DEF Reissue, Reissued, NoneHeld, Pass
    <2> QED
      BY <1>10, <2>1 DEF StaleOf, LetGo, Known
  <1>12. ASSUME NEW o \in Operator, Reschedule(o) PROVE LetGo
    <2>1. row'.stale = StaleOf(row)
      BY <1>0, <1>12 DEF Reschedule, Moved, NoneHeld, Pass
    <2> QED
      BY <1>10, <2>1 DEF StaleOf, LetGo, Known
  <1>13. CASE DueComes
    BY <1>0, <1>1, <1>13 DEF DueComes, Pass
  <1>14. ASSUME NEW s \in Sweeper, SweepBegins(s) PROVE LetGo
    BY <1>0, <1>1, <1>14 DEF SweepBegins, Pass
  <1>15. ASSUME NEW s \in Sweeper, ClaimDue(s) PROVE LetGo
    BY <1>0, <1>1, <1>15 DEF ClaimDue, Pass
  <1>16. CASE row' = row
    BY <1>1, <1>16
  <1>17. CASE World \/ UNCHANGED vars
    BY <1>16, <1>17 DEF World, AccountCreated, ClassEnds, BecomesAdmin,
       SetFeature, Used, GivenElsewhere, vars, rowVars
  <1>18. ASSUME NEW o \in Operator, AbilityChanges(o) \/ TakeOver(o)
         PROVE LetGo
    BY <1>16, <1>18 DEF AbilityChanges, TakeOver, rowVars
  <1>19. ASSUME NEW s \in Sweeper,
                StatusAges(s) \/ AuthorityRead(s) \/ AuthorityWrites(s)
         PROVE LetGo
    BY <1>16, <1>19 DEF StatusAges, AuthorityRead, AuthorityWrites, rowVars
  <1>20. ASSUME NEW r \in Run, Load(r) \/ DeleteStale(r) \/ Preflight(r)
                               \/ Post(r) \/ Undo(r)
         PROVE LetGo
    BY <1>16, <1>20 DEF Load, DeleteStale, Preflight, Post, Undo, rowVars
  <1>21. ASSUME NEW r \in Run, Recheck(r) \/ RevokeDeletes(r) \/ Crash(r)
         PROVE LetGo
    BY <1>16, <1>21 DEF Recheck, RevokeDeletes, Crash, rowVars
  <1>22. ASSUME NEW r \in Route,
                Reveal(r) \/ Roster(r) \/ RevealChecks(r)
                \/ \E s \in Sweeper : RosterAsks(r, s)
         PROVE LetGo
    BY <1>16, <1>22 DEF Reveal, Roster, RevealChecks, RosterAsks, rowVars
  <1>23. ASSUME NEW r \in Run, RecordRevoke(r) PROVE LetGo
    BY <1>8, <1>23
  <1>24. ASSUME NEW r \in Run, Step(r) \/ Crash(r) PROVE LetGo
    BY <1>4, <1>5, <1>6, <1>7, <1>9, <1>20, <1>21, <1>23, <1>24
       DEF Step, Make, Check
  <1>25. ASSUME NEW s \in Sweeper, StatusAges(s) \/ Sweep(s) PROVE LetGo
    BY <1>14, <1>15, <1>19, <1>25 DEF Sweep
  <1>26. ASSUME NEW r \in Route, Asked(r) \/ Answered(r) PROVE LetGo
    BY <1>11, <1>22, <1>26 DEF Asked, Answered
  <1> QED
    BY <1>12, <1>13, <1>17, <1>18, <1>24, <1>25, <1>26 DEF Next

LEMMA Initially == Init => IInv
  <1> SUFFICES ASSUME Init PROVE IInv
    OBVIOUS
  <1> USE ConstantsOK DEF Init
  <1>1. RowOK
    BY DEF RowOK, NewPass, Pass, Status, MaybeId
  <1>2. WorldOK /\ EntraOK /\ BoundsOK
    BY DEF WorldOK, EntraOK, BoundsOK, MaybeId
  <1>3. RunsOK
    BY DEF RunsOK, NothingSeen, Seen, MaybeId, Steps, Answer
  <1>4. ProcsOK /\ Settling
    BY DEF ProcsOK, Settling
  <1>5. IdsGiven /\ NoPassBehind
    BY DEF IdsGiven, Known, NothingSeen, NewPass, NoPassBehind
  <1>6. ClaimStands /\ LapseSeen /\ PausedForAuthoriser
    BY DEF ClaimStands, NewPass, Run, Making, Remaking, LapseSeen,
           PausedForAuthoriser
  <1> QED
    BY <1>1, <1>2, <1>3, <1>4, <1>5, <1>6 DEF IInv, TypeInv, TypeOK, Safe

LEMMA Invariant == Spec => []IInv
  BY Initially, TypeStep, SafeStep, PTL DEF Spec, IInv

\* Types hold, whatever the bounds.
THEOREM TypeCorrect == Spec => []TypeOK
  BY Invariant, PTL DEF IInv, TypeInv

\* An issued pass is the one held and no pass is left behind: a claim is a
\* token written with the row, so what a run that lost it has deleted, made
\* or recorded never reaches a row that became someone else's.
THEOREM NothingLeftBehind == Spec => []NoPassBehind
  BY Invariant, PTL DEF IInv, Safe

\* checkAuthority's update names the authoriser it asked AD about, so a
\* class taken over in between is not paused for the one before.
THEOREM PausedForItsOwn == Spec => []PausedForAuthoriser
  BY Invariant, PTL DEF IInv, Safe

\* However runs lose their claims, die or have their calls fail, no pass is
\* forgotten while it can still be used and nobody is told of it.
THEOREM OnlyDeadForgotten == Spec => ForgetsOnlyDead
  <1>1. IInv /\ [Next]_vars
        => [(\A r \in Route : ~RecordRevoke(r))
            => \A m \in Known(row) \ Known(row') : entra' # m \/ row'.told]_vars
    BY LetGoStep DEF LetGo
  <1> QED
    BY <1>1, Invariant, PTL DEF Spec, ForgetsOnlyDead

-----------------------------------------------------------------------------
\* A pass a run has made is the one its next calls are about.
MadeHolds(r) ==
    /\ made[r] # NoPass <=> pc[r] \in {"record", "undo", "undone"}
    /\ pc[r] = "undone" => /\ answer[r] \in {"deleted", "kept"}
                           /\ answer[r] = "deleted" => entra # made[r]
MadeInv == \A r \in Run : MadeHolds(r)

\* Entra's pass only becomes none or a new one.
LEMMA EntraMoves ==
    ASSUME IInv, [Next]_vars
    PROVE  \/ entra' \in {entra, NoPass}
           \/ entra' \notin ids \cup {NoPass}
              /\ (GivenElsewhere \/ \E r \in Run : Post(r))
  <1> DEFINE Goal == \/ entra' \in {entra, NoPass}
                     \/ entra' \notin ids \cup {NoPass}
                        /\ (GivenElsewhere \/ \E r \in Run : Post(r))
  <1> USE DEF Run
  <1>1. NextId \notin ids \cup {NoPass} \/ ids = Method
    BY ConstantsOK, NextIdFresh DEF IInv, TypeInv, TypeOK, EntraOK
  <1>2. CASE World \/ DueComes \/ UNCHANGED vars
    BY <1>1, <1>2 DEF World, AccountCreated, ClassEnds, BecomesAdmin,
       SetFeature, Used, GivenElsewhere, DueComes, vars, entraVars
  <1>3. ASSUME NEW o \in Operator,
               AbilityChanges(o) \/ Reschedule(o) \/ TakeOver(o)
        PROVE Goal
    BY <1>3 DEF AbilityChanges, Reschedule, TakeOver, entraVars
  <1>4. ASSUME NEW s \in Sweeper, StatusAges(s) \/ Sweep(s) PROVE Goal
    BY <1>4 DEF StatusAges, Sweep, SweepBegins, AuthorityRead, AuthorityWrites,
       ClaimDue, entraVars
  <1>5. ASSUME NEW r \in Run, Post(r) PROVE Goal
    BY <1>1, <1>5 DEF Post
  <1>6. ASSUME NEW r \in Run, DeleteStale(r) \/ Undo(r) \/ RevokeDeletes(r)
        PROVE Goal
    BY <1>6 DEF DeleteStale, Undo, RevokeDeletes, DeleteInEntra, entraVars
  <1>7. ASSUME NEW r \in Run, Load(r) \/ ClearStale(r) \/ Preflight(r)
                              \/ Record(r) \/ RecordUndone(r) \/ Settle(r)
        PROVE Goal
    BY <1>7 DEF Load, ClearStale, Preflight, Record, RecordUndone, Settle,
       entraVars
  <1>8. ASSUME NEW r \in Run, Recheck(r) \/ RecordRecheck(r) \/ RecordRevoke(r)
                              \/ Crash(r)
        PROVE Goal
    BY <1>8 DEF Recheck, RecordRecheck, RecordRevoke, Crash, entraVars
  <1>9. ASSUME NEW r \in Run, Step(r) \/ Crash(r) PROVE Goal
    BY <1>5, <1>6, <1>7, <1>8, <1>9 DEF Step, Make, Check
  <1>10. ASSUME NEW r \in Route, Asked(r) \/ Answered(r) PROVE Goal
    BY <1>10 DEF Asked, Answered, Reveal, Roster, Reissue, RevealChecks,
       RosterAsks, entraVars
  <1> QED
    BY <1>2, <1>3, <1>4, <1>9, <1>10 DEF Next

\* What a run has made is its own, and is only let go by its recording it,
\* undoing it or dying.
LEMMA MadeMoves ==
    ASSUME IInv, MadeInv, [Next]_vars, NEW q \in Run
    PROVE  \/ pc'[q] = pc[q] /\ made'[q] = made[q] /\ answer'[q] = answer[q]
           \/ made[q] # NoPass /\ made'[q] = made[q] /\ pc'[q] = "undo"
           \/ made[q] = NoPass /\ made'[q] = NoPass
              /\ pc'[q] \notin {"record", "undo", "undone"}
           \/ Post(q) /\ made'[q] = entra' /\ pc'[q] = "record"
           \/ Undo(q) /\ made'[q] = made[q]
           \/ Record(q) /\ Finish(q) /\ row.claim = q
           \/ RecordUndone(q) \/ Crash(q)
  <1> DEFINE Goal ==
        \/ pc'[q] = pc[q] /\ made'[q] = made[q] /\ answer'[q] = answer[q]
        \/ made[q] # NoPass /\ made'[q] = made[q] /\ pc'[q] = "undo"
        \/ made[q] = NoPass /\ made'[q] = NoPass
           /\ pc'[q] \notin {"record", "undo", "undone"}
        \/ Post(q) /\ made'[q] = entra' /\ pc'[q] = "record"
        \/ Undo(q) /\ made'[q] = made[q]
        \/ Record(q) /\ Finish(q) /\ row.claim = q
        \/ RecordUndone(q) \/ Crash(q)
  <1>0. RunsOK /\ MadeHolds(q) /\ Sweeper \subseteq Run /\ Route \subseteq Run
    BY DEF IInv, TypeInv, TypeOK, MadeInv, Run
  <1> HIDE DEF Goal
  <1>1. ASSUME pc'[q] = pc[q] /\ made'[q] = made[q] /\ answer'[q] = answer[q]
        PROVE Goal
    BY <1>1 DEF Goal
  <1>2. ASSUME UNCHANGED runVars PROVE Goal
    BY <1>1, <1>2 DEF runVars
  <1>3. ASSUME World \/ DueComes \/ UNCHANGED vars PROVE Goal
    BY <1>2, <1>3 DEF World, AccountCreated, ClassEnds, BecomesAdmin,
       SetFeature, Used, GivenElsewhere, DueComes, vars
  <1>4. ASSUME NEW o \in Operator,
               AbilityChanges(o) \/ Reschedule(o) \/ TakeOver(o)
        PROVE Goal
    BY <1>2, <1>4 DEF AbilityChanges, Reschedule, TakeOver
  <1>5. ASSUME NEW s \in Sweeper, StatusAges(s) PROVE Goal
    BY <1>2, <1>5 DEF StatusAges
  <1>6. ASSUME NEW s \in Run, s # q, Finish(s) PROVE Goal
    BY <1>0, <1>1, <1>6, FinishDoes
  <1>7. ASSUME made[q] = NoPass, Finish(q) PROVE Goal
    BY <1>0, <1>7, FinishDoes DEF Goal
  <1>8. ASSUME NEW s \in Sweeper, Sweep(s) PROVE Goal
    <2>1. CASE s # q
      BY <1>0, <1>1, <1>8, <2>1 DEF Sweep, SweepBegins, AuthorityRead,
         AuthorityWrites, ClaimDue, RunsOK
    <2>2. CASE s = q
      <3>1. made[q] = NoPass
        BY <1>0, <1>8, <2>2 DEF Sweep, SweepBegins, AuthorityRead,
           AuthorityWrites, ClaimDue, MadeHolds
      <3>2. made' = made /\ pc'[q] \notin {"record", "undo", "undone"}
        BY <1>0, <1>8, <2>2 DEF Sweep, SweepBegins, AuthorityRead,
           AuthorityWrites, ClaimDue, RunsOK
      <3> QED
        BY <3>1, <3>2 DEF Goal
    <2> QED
      BY <2>1, <2>2
  <1>9. ASSUME NEW r \in Run, Load(r) \/ DeleteStale(r) \/ ClearStale(r)
                              \/ Preflight(r) \/ Recheck(r) \/ RevokeDeletes(r)
        PROVE Goal
    <2>1. /\ made' = made /\ \A p \in Run : p # r => pc'[p] = pc[p]
          /\ \A p \in Run : p # r => answer'[p] = answer[p]
      BY <1>0, <1>9 DEF Load, DeleteStale, ClearStale, Preflight, Recheck,
         RevokeDeletes, RunsOK
    <2>2. pc'[r] \notin {"record", "undo", "undone"}
      BY <1>0, <1>9 DEF Load, DeleteStale, ClearStale, Preflight, Recheck,
         RevokeDeletes, RunsOK
    <2>3. r = q => made[q] = NoPass
      BY <1>0, <1>9 DEF Load, DeleteStale, ClearStale, Preflight, Recheck,
         RevokeDeletes, MadeHolds
    <2> QED
      BY <2>1, <2>2, <2>3 DEF Goal
  <1>10. ASSUME NEW r \in Run, Post(r) PROVE Goal
    <2>1. CASE r # q
      BY <1>0, <1>1, <1>10, <2>1 DEF Post, RunsOK
    <2>2. CASE r = q /\ made' = made
      BY <1>0, <1>10, <2>2 DEF Post, RunsOK, MadeHolds, Goal
    <2>3. CASE r = q /\ made' # made
      BY <1>0, <1>10, <2>3 DEF Post, RunsOK, Goal
    <2> QED
      BY <2>1, <2>2, <2>3
  <1>11. ASSUME NEW r \in Run, Record(r) PROVE Goal
    <2>1. CASE Finish(r) /\ row.claim = r
      BY <1>6, <1>11, <2>1 DEF Goal
    <2>2. CASE made' = made /\ answer' = answer
               /\ pc' = [pc EXCEPT ![r] = "undo"]
      <3>1. CASE r # q
        BY <1>0, <1>1, <2>2, <3>1 DEF RunsOK
      <3>2. CASE r = q
        BY <1>0, <1>11, <2>2, <3>2 DEF Record, MadeHolds, RunsOK, Goal
      <3> QED
        BY <3>1, <3>2
    <2> QED
      BY <1>11, <2>1, <2>2 DEF Record
  <1>12. ASSUME NEW r \in Run, Undo(r) PROVE Goal
    BY <1>0, <1>1, <1>12 DEF Undo, RunsOK, Goal
  <1>13. ASSUME NEW r \in Run, RecordUndone(r) PROVE Goal
    BY <1>6, <1>13 DEF RecordUndone, Goal
  <1>14. ASSUME NEW r \in Run, Settle(r) \/ RecordRecheck(r) \/ RecordRevoke(r)
         PROVE Goal
    <2>1. Finish(r) /\ pc[r] \in {"settle", "rechecked", "revoked"}
      BY <1>14 DEF Settle, RecordRecheck, RecordRevoke
    <2> QED
      BY <1>0, <1>6, <1>7, <2>1 DEF MadeHolds
  <1>15. ASSUME NEW r \in Run, Crash(r) PROVE Goal
    BY <1>0, <1>1, <1>15 DEF Crash, Forgets, RunsOK, Goal
  <1>16. ASSUME NEW r \in Route, Reveal(r) \/ Roster(r) \/ Reissue(r) PROVE Goal
    BY <1>0, <1>1, <1>16 DEF Reveal, Roster, Reissue, MadeHolds, RunsOK, Goal
  <1>17. ASSUME NEW r \in Route,
                RevealChecks(r) \/ \E s \in Sweeper : RosterAsks(r, s)
         PROVE Goal
    <2>1. pc[r] \in {"reveal", "roster"}
      BY <1>17 DEF RevealChecks, RosterAsks
    <2>2. CASE Finish(r)
      BY <1>0, <1>6, <1>7, <2>1, <2>2 DEF MadeHolds
    <2>3. CASE RevealChecks(r) /\ ~Finish(r)
      BY <1>0, <1>1, <2>1, <2>3 DEF RevealChecks, MadeHolds, RunsOK, Goal
    <2> QED
      BY <1>17, <2>2, <2>3 DEF RosterAsks
  <1>18. ASSUME NEW r \in Run, Step(r) \/ Crash(r) PROVE Goal
    BY <1>9, <1>10, <1>11, <1>12, <1>13, <1>14, <1>15, <1>18
       DEF Step, Make, Check
  <1>19. ASSUME NEW r \in Route, Asked(r) \/ Answered(r) PROVE Goal
    BY <1>16, <1>17, <1>19 DEF Asked, Answered
  <1>20. Goal
    BY <1>3, <1>4, <1>5, <1>8, <1>18, <1>19 DEF Next
  <1> QED
    BY <1>20 DEF Goal

LEMMA MadeStep == IInv /\ MadeInv /\ [Next]_vars => MadeInv'
  <1> SUFFICES ASSUME IInv, MadeInv, [Next]_vars, NEW q \in Run
               PROVE  MadeHolds(q)'
    BY DEF MadeInv
  <1>1. /\ MadeHolds(q) /\ RunsOK /\ made[q] \in ids \cup {NoPass}
        /\ made[q] # NoPass => made[q] \in ids
    BY DEF MadeInv, IInv, Safe, IdsGiven, TypeInv, TypeOK
  <1>2. entra' \in {entra, NoPass} \/ entra' \notin ids \cup {NoPass}
    BY EntraMoves
  <1>3. CASE pc'[q] = pc[q] /\ made'[q] = made[q] /\ answer'[q] = answer[q]
    BY <1>1, <1>2, <1>3 DEF MadeHolds
  <1>4. CASE Undo(q) /\ made'[q] = made[q]
    BY <1>1, <1>4, Deleted DEF Undo, RunsOK, MadeHolds
  <1>5. CASE Crash(q)
    BY <1>1, <1>5 DEF Crash, Forgets, RunsOK, MadeHolds
  <1>6. CASE Finish(q)
    BY <1>1, <1>6, FinishDoes DEF MadeHolds
  <1>7. CASE Post(q) /\ made'[q] = entra' /\ pc'[q] = "record"
    <2>1. entra' # NoPass
      BY <1>7, NextIdFresh, ConstantsOK DEF Post, IInv, TypeInv, TypeOK, EntraOK
    <2> QED
      BY <1>7, <2>1 DEF MadeHolds
  <1>8. CASE \/ made[q] # NoPass /\ made'[q] = made[q] /\ pc'[q] = "undo"
             \/ made[q] = NoPass /\ made'[q] = NoPass
                /\ pc'[q] \notin {"record", "undo", "undone"}
    BY <1>8 DEF MadeHolds
  <1> QED
    BY <1>3, <1>4, <1>5, <1>6, <1>7, <1>8, MadeMoves DEF RecordUndone

LEMMA MadeInvariant == Spec => []MadeInv
  <1>1. Init => MadeInv
    BY DEF Init, MadeInv, MadeHolds
  <1> QED
    BY <1>1, MadeStep, Invariant, PTL DEF Spec

\* A pass some row or run knew of that none knows of now was let go by one
\* of StraysExplained's ways.
Explained == \/ GivenElsewhere \/ row'.told
             \/ \E r \in Run : Crash(r) \/ AnswerLost(r) \/ KeptUnrecorded(r)
             \/ \E r \in Route : RecordRevoke(r)

LEMMA StrayStep ==
    ASSUME IInv, MadeInv, [Next]_vars, ~Stray, Stray'
    PROVE  Explained
  <1> SUFFICES ASSUME ~Explained PROVE FALSE
    OBVIOUS
  <1>1. entra' # NoPass /\ entra' \notin Known(row)' /\ \A r \in Run : entra' # made'[r]
    BY DEF Stray
  <1>2. CASE \E r \in Run : Post(r)
    BY <1>1, <1>2 DEF Post, Explained, AnswerLost, IInv, TypeInv, TypeOK, RunsOK
  <1>3. CASE entra' = entra
    <2>1. entra \notin Known(row)
      <3>1. LetGo
        BY LetGoStep DEF Explained
      <3> QED
        BY <1>1, <1>3, <3>1 DEF LetGo, Known, Explained
    <2>2. PICK q \in Run : entra = made[q]
      BY <1>1, <1>3, <2>1 DEF Stray
    <2>3. made'[q] # made[q] /\ made[q] # NoPass
      BY <1>1, <1>3, <2>2
    <2>4. CASE Record(q) /\ Finish(q) /\ row.claim = q
      <3>1. row'.method = made[q]
        BY <2>3, <2>4, RecordDoes DEF IInv, Safe
      <3> QED
        BY <1>1, <1>3, <2>2, <3>1 DEF Known
    <2>5. CASE RecordUndone(q)
      <3>1. answer[q] = "kept"
        BY <1>3, <2>2, <2>5 DEF MadeInv, MadeHolds, RecordUndone
      <3>2. row.claim = q
        BY <2>5, <3>1 DEF Explained, KeptUnrecorded
      <3>3. row'.stale = made[q]
        BY <2>5, <3>1, <3>2 DEF RecordUndone, Update, Undone, NoneHeld, IInv,
           TypeInv, TypeOK, RowOK, Pass
      <3> QED
        BY <1>1, <1>3, <2>2, <3>3 DEF Known
    <2>6. CASE Post(q)
      BY <1>2, <2>6
    <2> QED
      BY <2>3, <2>4, <2>5, <2>6, MadeMoves DEF Explained
  <1> QED
    BY <1>1, <1>2, <1>3, EntraMoves DEF Explained

\* The ways a pass nobody knows of comes about are the ones the code can't
\* help, a reveal's unguarded revoke and the one the message tells of:
\* between them the claims, the id kept for deleting and the undoing of what
\* couldn't be recorded leave no pass behind, for any number of processes.
THEOREM NoOtherStrays == Spec => StraysExplained
  <1>1. IInv /\ MadeInv /\ [Next]_vars => [~Stray /\ Stray' => Explained]_vars
    BY StrayStep
  <1>2. (~Stray /\ Stray' => Explained)
        <=> (~Stray /\ Stray'
             => \/ GivenElsewhere \/ row'.told
                \/ \E r \in Run : Crash(r) \/ AnswerLost(r) \/ KeptUnrecorded(r)
                \/ \E r \in Route : RecordRevoke(r))
    BY DEF Explained
  <1> QED
    BY <1>1, <1>2, Invariant, MadeInvariant, PTL DEF Spec, StraysExplained

=============================================================================
