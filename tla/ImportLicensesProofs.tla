------------------------ MODULE ImportLicensesProofs ------------------------
(***************************************************************************)
(* Proofs about a license check, for any processes, groups and bounds.     *)
(***************************************************************************)
EXTENDS ImportLicenses, TLAPS

USE DEF Goto, Answers, Refused

\* What a run records is a check, and an ended one bears no claim.
LEMMA RecordedType ==
    ASSUME TypeOK, NEW s \in Sweeper
    PROVE  [Recorded(s) EXCEPT !.claim = NoRun] \in Check
  <1>1. check \in Check /\ seen[s] \in Seen /\ answer[s] \in Answer
    BY DEF TypeOK
  <1>2. Settles(s) \in BOOLEAN
    BY DEF Settles
  <1>3. Recorded(s) \in [status : {"waiting", "settled", "stopped"},
                         claim : Sweeper \cup {NoRun}, due : BOOLEAN,
                         started : BOOLEAN, synced : BOOLEAN, user : Nat,
                         looked : SUBSET Group, listed : SUBSET Group,
                         unjoined : BOOLEAN]
    <2>1. CASE answer[s] = "unjoined"
      BY <1>1, <2>1 DEF Recorded, Check
    <2>2. CASE answer[s] = "wait"
      BY <1>1, <2>2 DEF Recorded, Check
    <2>3. CASE answer[s] = "gone"
      BY <1>1, <2>3 DEF Recorded, Check
    <2>4. CASE answer[s] = "read"
      BY <1>1, <1>2, <2>4 DEF Recorded, Check, Seen
    <2>5. CASE answer[s] = "none"
      BY <1>1, <2>5 DEF Recorded, Check
    <2> QED
      BY <1>1, <2>1, <2>2, <2>3, <2>4, <2>5 DEF Answer
  <1> QED
    BY <1>3 DEF Check

\* What the end of a sweep does to its own variables.
LEMMA FinishType ==
    ASSUME TypeOK, NEW s \in Sweeper, Finish(s)
    PROVE  /\ pc' \in [Sweeper -> Steps] /\ seen' \in [Sweeper -> Seen]
           /\ answer' \in [Sweeper -> Answer]
           /\ pc'[s] = "idle"
           /\ \A q \in Sweeper \ {s} : /\ pc'[q] = pc[q] /\ seen'[q] = seen[q]
                                       /\ answer'[q] = answer[q]
  <1>1. NothingSeen \in Seen
    BY DEF NothingSeen, Seen
  <1> QED
    BY <1>1 DEF TypeOK, Finish, Steps, Answer

\* What a check may be, and who may hold it, is kept by every step.
LEMMA TypeStep == ASSUME TypeOK, [Next]_vars PROVE TypeOK'
  <1>1. CASE World \/ Windows \/ DueComes
    <2>1. CASE RowEnds
      BY <2>1 DEF TypeOK, RowEnds, Check, entraVars, runVars, bounds
    <2>2. CASE RowRetried
      BY <2>2 DEF TypeOK, RowRetried, Call, timeVars, entraVars, runVars
    <2>3. CASE Syncs
      BY <2>3 DEF TypeOK, Syncs, rowVars, timeVars, runVars, bounds
    <2>4. CASE PersonGoes
      BY <2>4 DEF TypeOK, PersonGoes, Call, rowVars, timeVars, runVars
    <2>5. CASE SetFeature
      BY <2>5 DEF TypeOK, SetFeature, Call, rowVars, timeVars, entraVars, runVars
    <2>6. CASE \E g \in Group : Lists(g)
      BY <2>6 DEF TypeOK, Lists, rowVars, timeVars, runVars, bounds
    <2>7. CASE Windows
      BY <2>7 DEF TypeOK, Windows, SyncWindowEnds, SettleWindowEnds, rowVars,
                  entraVars, runVars, bounds
    <2>8. CASE DueComes
      <3>1. check' \in Check /\ check'.status = check.status
        BY <2>8 DEF TypeOK, DueComes, Check
      <3>2. faults' \in Nat
        BY <2>8 DEF TypeOK, DueComes, Fault
      <3> QED
        BY <2>8, <3>1, <3>2
        DEF TypeOK, DueComes, rowVars, timeVars, entraVars, runVars
    <2> QED
      BY <1>1, <2>1, <2>2, <2>3, <2>4, <2>5, <2>6, <2>7, <2>8 DEF World
  <1>2. ASSUME NEW s \in Sweeper, Sweep(s) \/ Throws(s)
        PROVE  TypeOK'
    <2>1. CASE SweepBegins(s)
      <3>1. [seen[s] EXCEPT !.on = on] \in Seen
        BY DEF TypeOK, Seen
      <3> QED
        BY <2>1, <3>1
        DEF TypeOK, SweepBegins, Steps, rowVars, timeVars, entraVars, bounds
    <2>2. CASE SelectOverdue(s)
      BY <2>2 DEF TypeOK, SelectOverdue, Steps, rowVars, timeVars, entraVars, bounds
    <2>3. CASE StopOverdue(s)
      <3>1. check' \in Check /\ (check'.status # "waiting" => check'.claim = NoRun)
        BY <2>3 DEF TypeOK, StopOverdue, Stopped, Check
      <3> QED
        BY <2>3, <3>1
        DEF TypeOK, StopOverdue, Steps, rowVars, timeVars, entraVars, bounds
    <2>4. CASE ClaimDue(s)
      <3>1. CASE Finish(s) /\ UNCHANGED check
        BY <2>4, <3>1, FinishType
        DEF TypeOK, ClaimDue, rowVars, timeVars, entraVars, bounds
      <3>2. CASE ~(Finish(s) /\ UNCHANGED check)
        <4>1. /\ check' \in Check /\ check'.status = "waiting"
              /\ pc' \in [Sweeper -> Steps] /\ UNCHANGED <<seen, answer>>
          BY <2>4, <3>2 DEF TypeOK, ClaimDue, Claimable, Check, Steps, Working
        <4> QED
          BY <2>4, <4>1 DEF TypeOK, ClaimDue, rowVars, timeVars, entraVars, bounds
      <3> QED
        BY <3>1, <3>2
    <2>5. CASE Load(s)
      <3>1. [seen[s] EXCEPT !.groups = joined, !.user = check.user,
                            !.found = check.user, !.synced = check.synced] \in Seen
        <4>1. /\ seen[s] \in Seen /\ joined \subseteq Group
              /\ check.user \in Nat /\ check.synced \in BOOLEAN
          BY DEF TypeOK, Check
        <4> QED
          BY <4>1 DEF Seen
      <3>2. seen' = [seen EXCEPT ![s] =
               [seen[s] EXCEPT !.groups = joined, !.user = check.user,
                               !.found = check.user, !.synced = check.synced]]
        BY <2>5 DEF Load, TypeOK, Seen
      <3> QED
        BY <2>5, <3>1, <3>2
        DEF TypeOK, Load, Steps, Working, Answer, rowVars, timeVars, entraVars, bounds
    <2>6. CASE Find(s)
      <3>1. [seen[s] EXCEPT !.found = entra] \in Seen
        BY DEF TypeOK, Seen
      <3> QED
        BY <2>6, <3>1
        DEF TypeOK, Find, Steps, Working, Answer, rowVars, timeVars, entraVars, bounds
    <2>7. CASE Read(s)
      <3>1. [seen[s] EXCEPT !.listed = granted \cap seen[s].groups] \in Seen
        BY DEF TypeOK, Seen
      <3> QED
        BY <2>7, <3>1
        DEF TypeOK, Read, Steps, Working, Answer, rowVars, timeVars, entraVars, bounds
    <2>8. CASE Record(s)
      <3>1. check' \in Check /\ (check'.status # "waiting" => check'.claim = NoRun)
        BY <2>8, RecordedType DEF TypeOK, Record, Check
      <3>2. settleOver' \in BOOLEAN /\ late' \subseteq Sweeper
        <4>1. /\ settleOver' \in {settleOver, settleOver /\ ~WindowStarts(s)}
              /\ late' \in {late, late \cup {s}}
          BY <2>8, Zenon DEF Record
        <4> QED
          BY <4>1 DEF TypeOK, WindowStarts
      <3>3. /\ pc' \in [Sweeper -> Steps] /\ seen' \in [Sweeper -> Seen]
            /\ answer' \in [Sweeper -> Answer]
        <4>1. [NothingSeen EXCEPT !.on = seen[s].on] \in Seen
          BY DEF TypeOK, NothingSeen, Seen
        <4> QED
          BY <2>8, <4>1, FinishType DEF TypeOK, Record, Steps, Answer
      <3> QED
        BY <2>8, <3>1, <3>2, <3>3 DEF TypeOK, Record, rowVars, entraVars, bounds
    <2>9. CASE Throws(s)
      BY <2>9, FinishType
      DEF TypeOK, Throws, Fault, rowVars, timeVars, entraVars
    <2> QED
      BY <1>2, <2>1, <2>2, <2>3, <2>4, <2>5, <2>6, <2>7, <2>8, <2>9 DEF Sweep
  <1>3. CASE UNCHANGED vars
    BY <1>3 DEF TypeOK, vars, rowVars, timeVars, entraVars, runVars, bounds
  <1> QED
    BY <1>1, <1>2, <1>3 DEF Next

LEMMA TypeInit == Init => TypeOK
  <1>1. NothingSeen \in Seen
    BY DEF NothingSeen, Seen
  <1>2. Init => check \in Check /\ (check.status # "waiting" => check.claim = NoRun)
    BY DEF Init, Check
  <1>3. Init => /\ pc \in [Sweeper -> Steps] /\ seen \in [Sweeper -> Seen]
                /\ answer \in [Sweeper -> Answer]
    BY <1>1 DEF Init, Steps, Answer
  <1>4. Init => syncOver \in BOOLEAN /\ settleOver \in BOOLEAN /\ on \in BOOLEAN
    BY DEF Init
  <1>5. Init => /\ row \in {"open", "succeeded", "partial", "failed"}
                /\ joined \subseteq Group /\ granted \subseteq Group
                /\ ever \subseteq Group /\ late \subseteq Sweeper
                /\ entra \in Nat /\ ids \in Nat /\ calls \in Nat /\ faults \in Nat
    BY DEF Init
  <1> QED
    BY <1>2, <1>3, <1>4, <1>5 DEF TypeOK

\* The types of the state; and an ended check bears no claim, so that no run
\* of claimDue's can still hold it.
THEOREM TypeCorrect == Spec => []TypeOK
  <1>1. Init => TypeOK
    BY TypeInit
  <1>2. TypeOK /\ [Next]_vars => TypeOK'
    BY TypeStep
  <1> QED
    BY <1>1, <1>2, PTL DEF Spec

-----------------------------------------------------------------------------
\* A check that has settled or stopped is never written again: stopOverdue
\* and claimDue look at waiting ones, and update at ones its run still holds.
THEOREM EndedStays == Spec => EndedForGood
  <1>1. ASSUME TypeOK, [Next]_vars, check.status # "waiting"
        PROVE  check' = check
    <2>1. CASE World
      BY <2>1 DEF World, RowEnds, RowRetried, Syncs, PersonGoes, SetFeature, Lists
    <2>2. CASE Windows \/ DueComes
      BY <1>1, <2>2 DEF Windows, SyncWindowEnds, SettleWindowEnds, DueComes
    <2>3. ASSUME NEW s \in Sweeper, Sweep(s) \/ Throws(s)
          PROVE  check' = check
      <3>1. ~Holds(s)
        BY <1>1, ConstantsOK DEF TypeOK, Holds
      <3>2. CASE Record(s)
        BY <3>1, <3>2 DEF Record
      <3>3. CASE StopOverdue(s) \/ ClaimDue(s)
        BY <1>1, <3>3 DEF StopOverdue, ClaimDue, Claimable
      <3> QED
        BY <2>3, <3>2, <3>3
        DEF Sweep, SweepBegins, SelectOverdue, Load, Find, Read, Throws
    <2>4. CASE UNCHANGED vars
      BY <2>4 DEF vars
    <2> QED
      BY <1>1, <2>1, <2>2, <2>3, <2>4 DEF Next
  <1>2. TypeOK /\ [Next]_vars => [check.status # "waiting" => check' = check]_vars
    BY <1>1
  <1> QED
    BY <1>2, TypeCorrect, PTL DEF Spec, EndedForGood

-----------------------------------------------------------------------------
\* A run that got past SomeJoined looks for some groups, and what it read of
\* them Entra has listed.
Looking ==
    \A s \in Sweeper :
        /\ pc[s] \in {"find", "read"} => seen[s].groups # {}
        /\ pc[s] = "record" /\ answer[s] = "read" =>
              seen[s].groups # {} /\ seen[s].listed \subseteq ever

IInv == TypeOK /\ granted \subseteq ever /\ Looking /\ SettledIsTrue

\* Recording a look settles a check only on what Entra has listed.
LEMMA RecordsTruth ==
    ASSUME IInv, NEW s \in Sweeper, Record(s)
    PROVE  SettledIsTrue'
  <1>1. check \in Check /\ answer[s] \in Answer
    BY DEF IInv, TypeOK
  <1>2. ever' = ever
    BY DEF Record, entraVars
  <1>3. CASE ~Holds(s)
    BY <1>2, <1>3 DEF Record, IInv, SettledIsTrue
  <1>4. CASE Holds(s) /\ answer[s] = "read"
    <2>1. /\ check'.status = (IF Settles(s) THEN "settled" ELSE "waiting")
          /\ check'.looked = seen[s].groups /\ check'.listed = seen[s].listed
      BY <1>1, <1>4 DEF Record, Recorded, Check
    <2>2. seen[s].groups # {} /\ seen[s].listed \subseteq ever
      BY <1>4 DEF Record, IInv, Looking
    <2> QED
      BY <1>2, <2>1, <2>2 DEF SettledIsTrue, Settles
  <1>5. CASE Holds(s) /\ answer[s] = "unjoined"
    <2>1. check'.status = "stopped"
      BY <1>1, <1>5 DEF Record, Recorded, Check
    <2> QED
      BY <2>1 DEF SettledIsTrue
  <1>6. CASE Holds(s) /\ answer[s] \notin {"read", "unjoined"}
    <2>1. /\ check'.status = check.status /\ check'.looked = check.looked
          /\ check'.listed = check.listed
      BY <1>1, <1>6 DEF Record, Recorded, Check, Answer
    <2> QED
      BY <1>2, <2>1 DEF IInv, SettledIsTrue
  <1> QED
    BY <1>3, <1>4, <1>5, <1>6

LEMMA SettledStep == ASSUME IInv, [Next]_vars PROVE IInv'
  <1>1. TypeOK'
    BY TypeStep DEF IInv
  <1> USE DEF IInv, Looking, SettledIsTrue
  <1>2. CASE World \/ Windows
    BY <1>1, <1>2
    DEF World, Windows, RowEnds, RowRetried, Syncs, PersonGoes, SetFeature, Lists,
        SyncWindowEnds, SettleWindowEnds, entraVars, runVars
  <1>3. CASE DueComes
    BY <1>1, <1>3 DEF TypeOK, Check, DueComes, entraVars, runVars
  <1>4. ASSUME NEW s \in Sweeper, Sweep(s) \/ Throws(s)
        PROVE  IInv'
    <2>1. CASE SweepBegins(s) \/ SelectOverdue(s)
      BY <1>1, <2>1 DEF TypeOK, Seen, SweepBegins, SelectOverdue, entraVars
    <2>2. CASE StopOverdue(s)
      BY <1>1, <2>2 DEF TypeOK, Check, StopOverdue, Stopped, entraVars
    <2>3. CASE ClaimDue(s)
      <3>1. SettledIsTrue'
        BY <2>3 DEF TypeOK, Check, ClaimDue, Claimable, entraVars
      <3>2. Looking'
        BY <2>3, FinishType DEF TypeOK, ClaimDue, entraVars
      <3> QED
        BY <1>1, <2>3, <3>1, <3>2 DEF ClaimDue, entraVars
    <2>4. CASE Load(s)
      BY <1>1, <2>4 DEF TypeOK, Seen, Load, SomeJoined, entraVars
    <2>5. CASE Find(s)
      <3>1. SettledIsTrue' /\ granted' \subseteq ever'
        BY <2>5 DEF Find, entraVars
      <3>2. Looking'
        BY <2>5 DEF TypeOK, Seen, Find, entraVars
      <3> QED
        BY <1>1, <3>1, <3>2
    <2>6. CASE Read(s)
      <3>1. SettledIsTrue' /\ granted' \subseteq ever'
        BY <2>6 DEF Read, entraVars
      <3>2. Looking'
        BY <2>6 DEF TypeOK, Seen, Read, entraVars
      <3> QED
        BY <1>1, <3>1, <3>2
    <2>7. CASE Record(s)
      <3>1. SettledIsTrue'
        BY <2>7, RecordsTruth
      <3>2. Looking' /\ granted' \subseteq ever'
        BY <2>7, FinishType DEF TypeOK, Record, entraVars
      <3> QED
        BY <1>1, <3>1, <3>2
    <2>8. CASE Throws(s)
      BY <1>1, <2>8, FinishType DEF TypeOK, Throws, entraVars
    <2> QED
      BY <1>4, <2>1, <2>2, <2>3, <2>4, <2>5, <2>6, <2>7, <2>8 DEF Sweep
  <1>5. CASE UNCHANGED vars
    BY <1>1, <1>5 DEF vars, entraVars, runVars
  <1> QED
    BY <1>2, <1>3, <1>4, <1>5 DEF Next

\* A settled check looked for some license, and Entra listed each of them on
\* the person: what stopped runs read, or read of others, doesn't settle it.
THEOREM SettledTrue == Spec => []SettledIsTrue
  <1>1. Init => IInv
    BY TypeInit DEF Init, IInv, Looking, SettledIsTrue
  <1>2. IInv /\ [Next]_vars => IInv'
    BY SettledStep
  <1>3. IInv => SettledIsTrue
    BY DEF IInv
  <1> QED
    BY <1>1, <1>2, <1>3, PTL DEF Spec

-----------------------------------------------------------------------------
(***************************************************************************)
(* The check implements CheckLifecycle.                                    *)
(***************************************************************************)
Leased == Looker /\ ~check.due

\* What CheckLifecycle sees of a look under way, and of none.
LEMMA LookSeen ==
    /\ Looker => /\ AtLook = Look(check.claim)
                 /\ AtLook \in {"begun", "aimed", "unjoined", "seen", "nothing"}
    /\ Looker' => AtLook' = Look(check.claim)'
  BY DEF AtLook, Look, Looker, Working

LEMMA NoneSeen ==
    /\ ~Looker => AtLook = "none" /\ AtGroups = {} /\ AtSees = {} /\ ~Leased
    /\ ~Looker' => AtLook' = "none" /\ AtGroups' = {} /\ AtSees' = {} /\ ~Leased'
  BY DEF AtLook, AtGroups, AtSees, Leased

\* A step that leaves the check, and the look that counts, as they are.
LEMMA LookGoesOn ==
    ASSUME /\ check'.status = check.status /\ check'.looked = check.looked
           /\ check'.listed = check.listed /\ check'.claim = check.claim,
           Looker' = Looker,
           Looker => /\ pc'[check.claim] = pc[check.claim]
                     /\ seen'[check.claim].groups = seen[check.claim].groups
                     /\ seen'[check.claim].listed = seen[check.claim].listed
                     /\ answer'[check.claim] = answer[check.claim],
           Leased' = Leased
    PROVE  Lifecycle!Elsewhere
  <1>1. AtLook' = AtLook /\ AtGroups' = AtGroups /\ AtSees' = AtSees
    <2>1. CASE Looker
      <3>1. Look(check.claim)' = Look(check.claim)
        BY <2>1 DEF Look
      <3> QED
        BY <2>1, <3>1, LookSeen DEF AtGroups, AtSees
    <2>2. CASE ~Looker
      BY <2>2, NoneSeen
    <2> QED
      BY <2>1, <2>2
  <1>2. (Looker /\ ~check.due)' = (Looker /\ ~check.due)
    BY DEF Leased
  <1>3. Lifecycle!atWork' = Lifecycle!atWork
    BY <1>1, <1>2, Zenon DEF Lifecycle!atWork
  <1>4. Lifecycle!check' = Lifecycle!check
    BY DEF Lifecycle!check, Lifecycle!found
  <1> QED
    BY <1>3, <1>4, Zenon DEF Lifecycle!Elsewhere

\* The steps of the sweep whose claim stands.
LEMMA LoadAims ==
    ASSUME TypeOK, NEW s \in Sweeper, Load(s), check.claim = s
    PROVE  Lifecycle!Aim
  <1>1. Looker /\ Looker' /\ UNCHANGED <<row, joined, granted, check>>
    BY ConstantsOK DEF Load, Looker, Working, TypeOK, rowVars, entraVars
  <1>2. seen'[s].groups = joined
    BY DEF Load, TypeOK, Seen
  <1>3. AtLook = "begun" /\ AtGroups = {} /\ AtSees = {}
    BY <1>1, LookSeen DEF Load, Look, AtGroups, AtSees
  <1>4. AtLook' = IF joined = {} THEN "unjoined" ELSE "aimed"
    <2>1. Look(s)' = IF joined = {} THEN "unjoined" ELSE "aimed"
      BY DEF Load, SomeJoined, Look, TypeOK
    <2> QED
      BY <1>1, <2>1, LookSeen
  <1>5. AtGroups' = joined /\ AtSees' = {}
    BY <1>1, <1>2, <1>4 DEF AtGroups, AtSees
  <1> QED
    BY <1>1, <1>3, <1>4, <1>5
    DEF Lifecycle!Aim, Lifecycle!world, Lifecycle!check, Lifecycle!found, Leased

LEMMA ReadSees ==
    ASSUME TypeOK, NEW s \in Sweeper, Find(s) \/ Read(s), check.claim = s
    PROVE  Lifecycle!Elsewhere \/ Lifecycle!See
  <1>1. /\ Looker /\ Looker' /\ UNCHANGED <<row, joined, granted, check>>
        /\ seen'[s].groups = seen[s].groups
    BY ConstantsOK
    DEF Find, Read, Looker, Working, TypeOK, Seen, rowVars, entraVars
  <1>2. /\ AtLook = "aimed" /\ AtLook' = Look(s)'
        /\ AtGroups = seen[s].groups /\ AtSees = {}
    BY <1>1, LookSeen DEF Find, Read, Look, AtGroups, AtSees
  <1>3. CASE Look(s)' \in {"aimed", "nothing"}
    <2>1. AtGroups' = AtGroups /\ AtSees' = {}
      BY <1>1, <1>2, <1>3 DEF AtGroups, AtSees
    <2> QED
      BY <1>1, <1>2, <1>3, <2>1
      DEF Lifecycle!Elsewhere, Lifecycle!See, Lifecycle!world, Lifecycle!check,
          Lifecycle!found, Lifecycle!atWork, Leased
  <1>4. CASE Look(s)' = "seen"
    <2>1. seen'[s].listed = granted \cap seen[s].groups
      BY <1>4 DEF Find, Read, Look, TypeOK, Seen
    <2>2. AtGroups' = AtGroups /\ AtSees' = granted \cap AtGroups
      BY <1>1, <1>2, <1>4, <2>1 DEF AtGroups, AtSees
    <2> QED
      BY <1>1, <1>2, <1>4, <2>2
      DEF Lifecycle!See, Lifecycle!world, Lifecycle!check, Lifecycle!found, Leased
  <1>5. Look(s)' \in {"aimed", "nothing", "seen"}
    BY DEF Find, Read, Look, TypeOK
  <1> QED
    BY <1>3, <1>4, <1>5

LEMMA RecordRecords ==
    ASSUME TypeOK, NEW s \in Sweeper, Record(s), check.claim = s
    PROVE  Lifecycle!Record
  <1>1. /\ check \in Check /\ check.status = "waiting" /\ answer[s] \in Answer
        /\ UNCHANGED <<row, joined, granted>>
    BY ConstantsOK DEF Record, TypeOK, rowVars, entraVars
  <1>2. Looker /\ AtLook = Look(s)
    BY LookSeen, ConstantsOK DEF Record, Looker, Working
  <1>3. /\ check'.claim = NoRun /\ check'.status = Recorded(s).status
        /\ check'.looked = Recorded(s).looked /\ check'.listed = Recorded(s).listed
    <2>1. check' = [Recorded(s) EXCEPT !.claim = NoRun]
      BY DEF Record, Holds
    <2>2. check' \in Check
      BY <2>1, RecordedType
    <2> QED
      BY <1>1, <2>1, <2>2 DEF Recorded, Check, Answer
  <1>4. Lifecycle!Ends
    BY <1>3, NoneSeen DEF Lifecycle!Ends, Looker, Leased
  <1>5. CASE answer[s] = "read"
    <2>1. AtLook = "seen" /\ AtGroups = seen[s].groups /\ AtSees = seen[s].listed
      BY <1>2, <1>5 DEF Record, Look, AtGroups, AtSees
    <2>2. /\ check'.looked = seen[s].groups /\ check'.listed = seen[s].listed
          /\ check'.status = IF seen[s].groups = seen[s].listed
                             THEN "settled" ELSE "waiting"
      BY <1>1, <1>3, <1>5 DEF Recorded, Settles, Check
    <2> QED
      BY <1>1, <1>4, <2>1, <2>2 DEF Lifecycle!Record, Lifecycle!world
  <1>6. CASE answer[s] = "unjoined"
    <2>1. AtLook = "unjoined"
      BY <1>2, <1>6 DEF Record, Look
    <2>2. /\ check'.looked = check.looked /\ check'.listed = check.listed
          /\ check'.status = "stopped"
      BY <1>1, <1>3, <1>6 DEF Recorded, Check
    <2> QED
      BY <1>1, <1>4, <2>1, <2>2
      DEF Lifecycle!Record, Lifecycle!world, Lifecycle!found
  <1>7. CASE answer[s] \notin {"read", "unjoined"}
    <2>1. AtLook = "nothing"
      BY <1>2, <1>7 DEF Record, Look
    <2>2. /\ check'.looked = check.looked /\ check'.listed = check.listed
          /\ check'.status = check.status
      BY <1>1, <1>3, <1>7 DEF Recorded, Check, Answer
    <2> QED
      BY <1>1, <1>4, <2>1, <2>2
      DEF Lifecycle!Record, Lifecycle!world, Lifecycle!check, Lifecycle!found
  <1> QED
    BY <1>5, <1>6, <1>7

\* Each step, with what it is of CheckLifecycle's.
LEMMA LifecycleStep == ASSUME TypeOK, [Next]_vars PROVE Lifecycle!Next
  <1> DEFINE Quiet ==
        /\ check' = check
        /\ Looker' = Looker
        /\ Looker => /\ pc'[check.claim] = pc[check.claim]
                     /\ seen'[check.claim].groups = seen[check.claim].groups
                     /\ seen'[check.claim].listed = seen[check.claim].listed
                     /\ answer'[check.claim] = answer[check.claim]
  <1> USE DEF Lifecycle!Next
  <1>0. ASSUME Quiet PROVE Lifecycle!Elsewhere
    <2>1. Leased' = Leased
      BY <1>0 DEF Leased
    <2> QED
      BY <1>0, <2>1, LookGoesOn
  <1>1. CASE World \/ Windows \/ UNCHANGED vars
    <2>1. UNCHANGED <<check, pc, seen, answer>>
      BY <1>1
      DEF World, Windows, RowEnds, RowRetried, Syncs, PersonGoes, SetFeature, Lists,
          SyncWindowEnds, SettleWindowEnds, runVars, vars
    <2> QED
      BY <1>0, <2>1 DEF Looker
  <1>2. CASE DueComes
    <2>1. /\ check'.due = TRUE /\ check'.claim = check.claim
          /\ check'.status = check.status /\ check'.looked = check.looked
          /\ check'.listed = check.listed
          /\ UNCHANGED <<row, joined, granted, pc, seen, answer>> /\ ~check.due
      BY <1>2 DEF DueComes, TypeOK, Check, rowVars, entraVars, runVars
    <2>2. Looker' = Looker /\ ~Leased'
      BY <2>1 DEF Looker, Leased
    <2>3. CASE ~Looker
      BY <2>1, <2>2, <2>3, LookGoesOn DEF Leased
    <2>4. CASE Looker
      <3>1. AtLook' = AtLook
        BY <2>1, <2>2, <2>4, LookSeen DEF Look
      <3>2. AtGroups' = AtGroups /\ AtSees' = AtSees
        BY <2>1, <3>1 DEF AtGroups, AtSees
      <3>3. Lifecycle!LeaseEnds
        BY <2>1, <2>2, <2>4, <3>1, <3>2
        DEF Lifecycle!LeaseEnds, Lifecycle!world, Lifecycle!check, Lifecycle!found, Leased
      <3> QED
        BY <3>3
    <2> QED
      BY <2>3, <2>4
  <1>3. ASSUME NEW s \in Sweeper, Sweep(s) \/ Throws(s) PROVE Lifecycle!Next
    <2>0. s # NoRun
      BY ConstantsOK
    \* A sweep that isn't at work before or after its step isn't the look.
    <2>k. ASSUME check' = check, pc[s] \notin Working, pc'[s] \notin Working,
                 \A q \in Sweeper \ {s} : /\ pc'[q] = pc[q] /\ seen'[q] = seen[q]
                                           /\ answer'[q] = answer[q]
          PROVE  Quiet
      <3>1. check.claim \in Sweeper \cup {NoRun}
        BY DEF TypeOK, Check
      <3>2. CASE check.claim = s
        BY <2>k, <3>2 DEF Looker
      <3>3. CASE check.claim # s
        BY <2>k, <3>1, <3>3 DEF Looker
      <3> QED
        BY <3>2, <3>3
    <2>1. CASE SweepBegins(s) \/ SelectOverdue(s)
      <3>1. Quiet
        BY <2>1, <2>k DEF SweepBegins, SelectOverdue, TypeOK, Working
      <3> QED
        BY <1>0, <3>1
    <2>2. CASE StopOverdue(s)
      <3>1. CASE check.status = "waiting" /\ Unclaimed
        <4>1. /\ check'.status = "stopped" /\ check'.claim = NoRun
              /\ check'.looked = check.looked /\ check'.listed = check.listed
              /\ UNCHANGED <<row, joined, granted>>
          BY <2>2, <3>1 DEF StopOverdue, Stopped, TypeOK, Check, rowVars, entraVars
        <4>2. ~Looker'
          BY <4>1 DEF Looker
        <4>3. Lifecycle!Ends
          BY <4>2, NoneSeen DEF Lifecycle!Ends, Leased
        <4>4. ~Leased
          BY <3>1 DEF Unclaimed, Leased, Looker
        <4>5. Lifecycle!Stop
          BY <3>1, <4>1, <4>3, <4>4
          DEF Lifecycle!Stop, Lifecycle!world, Lifecycle!found, Leased
        <4> QED
          BY <4>5
      <3>2. CASE ~(check.status = "waiting" /\ Unclaimed)
        <4>1. Quiet
          BY <2>0, <2>2, <3>2 DEF StopOverdue, TypeOK, Looker, Working
        <4> QED
          BY <1>0, <4>1
      <3> QED
        BY <3>1, <3>2
    <2>3. CASE ClaimDue(s)
      <3>1. CASE Finish(s) /\ UNCHANGED check
        <4>1. Quiet
          BY <2>3, <2>k, <3>1, FinishType DEF ClaimDue, Working
        <4> QED
          BY <1>0, <4>1
      <3>2. CASE ~(Finish(s) /\ UNCHANGED check)
        <4>1. /\ check.status = "waiting" /\ check.due
              /\ row \in {"succeeded", "partial"}
              /\ check'.status = check.status /\ check'.claim = s /\ ~check'.due
              /\ check'.looked = check.looked /\ check'.listed = check.listed
              /\ pc'[s] = "load" /\ UNCHANGED <<row, joined, granted>>
          BY <2>3, <3>2
          DEF ClaimDue, Claimable, TypeOK, Check, rowVars, entraVars
        <4>2. Looker' /\ Leased' /\ ~Leased
          BY <2>0, <4>1 DEF Looker, Working, Leased
        <4>3. AtLook' = "begun" /\ AtGroups' = {} /\ AtSees' = {}
          BY <4>1, <4>2, LookSeen DEF Look, AtGroups, AtSees
        <4>4. Lifecycle!Begin
          BY <4>1, <4>2, <4>3
          DEF Lifecycle!Begin, Lifecycle!world, Lifecycle!check, Lifecycle!found, Leased
        <4> QED
          BY <4>4
      <3> QED
        BY <3>1, <3>2
    <2>4. CASE /\ Load(s) \/ Find(s) \/ Read(s) \/ Record(s)
               /\ check.claim # s
      <3>1. check' = check
        BY <2>4 DEF Load, Find, Read, Record, Holds
      <3>2. \A q \in Sweeper \ {s} : /\ pc'[q] = pc[q] /\ seen'[q] = seen[q]
                                     /\ answer'[q] = answer[q]
        BY <2>4, FinishType DEF Load, Find, Read, Record, TypeOK
      <3>3. check.claim \in Sweeper \cup {NoRun}
        BY DEF TypeOK, Check
      <3>4. Quiet
        BY <2>4, <3>1, <3>2, <3>3 DEF Looker
      <3> QED
        BY <1>0, <3>4
    <2>5. CASE Throws(s)
      <3>1. CASE Looker /\ check.claim = s
        <4>1. ~Looker' /\ UNCHANGED <<check, row, joined, granted>>
          BY <2>5, <3>1, FinishType DEF Throws, Looker, Working, rowVars, entraVars
        <4>2. AtLook # "none"
          BY <3>1, LookSeen
        <4>3. Lifecycle!Dies
          BY <4>1, <4>2, NoneSeen
          DEF Lifecycle!Dies, Lifecycle!Ends, Lifecycle!world, Lifecycle!check,
              Lifecycle!found, Leased
        <4> QED
          BY <4>3
      <3>2. CASE ~(Looker /\ check.claim = s)
        <4>1. check.claim \in Sweeper \cup {NoRun}
          BY DEF TypeOK, Check
        <4>2. Quiet
          BY <2>5, <3>2, <4>1, FinishType DEF Throws, Looker, Working
        <4> QED
          BY <1>0, <4>2
      <3> QED
        BY <3>1, <3>2
    <2> QED
      BY <1>3, <2>1, <2>2, <2>3, <2>4, <2>5, LoadAims, ReadSees, RecordRecords
      DEF Sweep
  <1> QED
    BY <1>1, <1>2, <1>3 DEF Next

\* The check is what CheckLifecycle says: a look counts only while its claim
\* stands, and once, and tells what was so after it was claimed (claimDue,
\* record, update, stopOverdue).
THEOREM ChecksImplementLifecycle == Spec => Implements
  <1>1. Init => Lifecycle!Init
    BY NoneSeen DEF Init, Lifecycle!Init, Looker, Leased
  <1>2. TypeOK /\ [Next]_vars
          => [Lifecycle!Next]_<<Lifecycle!world, Lifecycle!check, Lifecycle!atWork>>
    BY LifecycleStep
  <1> QED
    BY <1>1, <1>2, TypeCorrect, PTL DEF Spec, Implements, Lifecycle!Spec

-----------------------------------------------------------------------------
\* No look at a check that has ended counts, and it shows what it showed.
NoLookAfter == check.status # "waiting" => AtLook = "none"
ShownForGood ==
    [][check.status # "waiting" => UNCHANGED Lifecycle!check]_(Lifecycle!check)

\* What CheckLifecycle alone gives a reader of the check: that an ended one,
\* settled by record or stopped by stopOverdue, is so for good.  So the
\* sweeps have it from Implements.
THEOREM LifecycleEnds == Lifecycle!Spec => []NoLookAfter /\ ShownForGood
  <1>1. Lifecycle!Init => NoLookAfter
    BY DEF Lifecycle!Init, NoLookAfter
  <1>2. ASSUME NoLookAfter, Lifecycle!Next
        PROVE  /\ NoLookAfter'
               /\ check.status # "waiting" => UNCHANGED Lifecycle!check
    BY <1>2
    DEF Lifecycle!Next, Lifecycle!Elsewhere, Lifecycle!Begin, Lifecycle!Aim,
        Lifecycle!See, Lifecycle!Record, Lifecycle!Dies, Lifecycle!LeaseEnds,
        Lifecycle!Stop, Lifecycle!Ends, Lifecycle!check, Lifecycle!found,
        Lifecycle!atWork, NoLookAfter
  <1>3. ASSUME NoLookAfter, UNCHANGED <<Lifecycle!world, Lifecycle!check, Lifecycle!atWork>>
        PROVE  NoLookAfter'
    BY <1>3 DEF Lifecycle!check, Lifecycle!atWork, NoLookAfter
  <1>4. NoLookAfter
            /\ [Lifecycle!Next]_<<Lifecycle!world, Lifecycle!check, Lifecycle!atWork>>
          => NoLookAfter'
    BY <1>2, <1>3
  <1>5. NoLookAfter
            /\ [Lifecycle!Next]_<<Lifecycle!world, Lifecycle!check, Lifecycle!atWork>>
          => [check.status # "waiting" => UNCHANGED Lifecycle!check]_(Lifecycle!check)
    BY <1>2
  <1> QED
    BY <1>1, <1>4, <1>5, PTL DEF Lifecycle!Spec, ShownForGood
=============================================================================
