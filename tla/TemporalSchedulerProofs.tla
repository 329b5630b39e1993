----------------------- MODULE TemporalSchedulerProofs -----------------------
(***************************************************************************)
(* Proofs about TemporalScheduler for every set of fires, every request    *)
(* set and every bound on time, crashes and errors.                        *)
(***************************************************************************)
EXTENDS TemporalScheduler, TLAPS

\* The await points at which the loop holds a row.
HoldingPCs == {"rec_mark", "rec_follow", "publish", "mark", "follow",
               "skip_mark", "suppress"}

\* The types are inductive only with the fact that cur is set exactly there.
Typed == TypeOK /\ (cur # None <=> pc \in HoldingPCs)

\* Every action of the specification and every table update keep the types of
\* all variables: the loop never holds a row that is not a fire and a row never
\* leaves the five statuses its columns can encode.
LEMMA TypeStep == Typed /\ [Next]_vars => Typed'
<1> SUFFICES ASSUME Typed, [Next]_vars PROVE Typed'
    OBVIOUS
<1> USE SchedulerAssumption, NoneAssumption DEF Typed, HoldingPCs, TypeOK, TableTypeOK, Status, PCs
<1>1. CASE Environment
  <2>1. ASSUME NEW i \in FireIds, NEW sp \in Requests, Schedule(i, sp) PROVE Typed'
      BY <2>1 DEF Schedule, Insert, loopVars, histVars, faultVars
  <2>2. ASSUME NEW m \in SUBSET Prefixes, Cancel(m) PROVE Typed'
      BY <2>2 DEF Cancel, CancelByPrefix, DeleteUnfired, Withdraw, loopVars, faultVars
  <2>3. CASE Tick
      BY <2>3 DEF Tick, tableVars, loopVars, histVars, faultVars
  <2>4. CASE Shutdown
      BY <2>4 DEF Shutdown, tableVars, loopVars, histVars, faultVars
  <2> QED BY <1>1, <2>1, <2>2, <2>3, <2>4 DEF Environment
<1>2. CASE Start
    BY <1>2 DEF Start, tableVars, loopVars, faultVars
<1>3. CASE Recovery
  <2>1. CASE RecoverList
      BY <2>1 DEF RecoverList, ListInFlight, tableVars, histVars, faultVars
  <2>2. ASSUME NEW i \in FireIds, RecoverPublish(i) PROVE Typed'
      BY <2>2 DEF RecoverPublish, PublishAlarmFired, tableVars, faultVars
  <2>3. CASE RecoverMark
      BY <2>3 DEF RecoverMark, MarkFired, loopVars, histVars, faultVars
  <2>4. CASE RecoverDone
      BY <2>4 DEF RecoverDone, tableVars, loopVars, histVars, faultVars
  <2> QED BY <1>3, <2>1, <2>2, <2>3, <2>4 DEF Recovery
<1>4. CASE ProcessDue
  <2>1. CASE BeginPass
      BY <2>1 DEF BeginPass, ListPendingUpTo, tableVars, histVars, faultVars
  <2>2. ASSUME NEW i \in FireIds, FireClaim(i) PROVE Typed'
      BY <2>2 DEF FireClaim, Claim, BeginFiring, tableVars, histVars, faultVars
  <2>3. ASSUME NEW i \in FireIds, SkipClaim(i) PROVE Typed'
      BY <2>3 DEF SkipClaim, Claim, BeginFiring, tableVars, histVars, faultVars
  <2>4. ASSUME NEW i \in FireIds, CoalesceBegin(i) PROVE Typed'
      BY <2>4 DEF CoalesceBegin, tableVars, faultVars
  <2>5. ASSUME NEW i \in FireIds, LoserClaim(i) PROVE Typed'
      BY <2>5 DEF LoserClaim, Claim, BeginFiring, tableVars, histVars, faultVars
  <2>6. CASE DispatchPublish
    <3>1. cur \in FireIds
        BY <2>6 DEF DispatchPublish
    <3> QED BY <2>6, <3>1 DEF DispatchPublish, PublishAlarmFired, tableVars, loopVars, faultVars
  <2>7. CASE DispatchMark
      BY <2>7 DEF DispatchMark, MarkFired, loopVars, histVars, faultVars
  <2>8. CASE SkipMark
      BY <2>8 DEF SkipMark, MarkFired, histVars, faultVars
  <2>9. CASE LoserSuppress
      BY <2>9 DEF LoserSuppress, MarkSuppressed, loopVars, histVars, faultVars
  <2>10. CASE WinnerClaim
      BY <2>10 DEF WinnerClaim, Claim, BeginFiring, tableVars, histVars, faultVars
  <2>11. CASE EndPass
      BY <2>11 DEF EndPass, tableVars, faultVars
  <2> QED BY <1>4, <2>1, <2>2, <2>3, <2>4, <2>5, <2>6, <2>7, <2>8, <2>9, <2>10, <2>11
          DEF ProcessDue
<1>5. CASE NoFollowUp
    BY <1>5 DEF NoFollowUp, tableVars, loopVars, histVars, faultVars
<1>6. CASE ExitOnShutdown
    BY <1>6 DEF ExitOnShutdown, tableVars, loopVars, histVars, faultVars
<1>7. CASE Faults
  <2>1. CASE RecoverMarkFails
      BY <2>1 DEF RecoverMarkFails, tableVars, loopVars
  <2>2. CASE DbError
      BY <2>2 DEF DbError, Abandon, tableVars
  <2>3. CASE Crash
      BY <2>3 DEF Crash, Abandon, tableVars
  <2> QED BY <1>7, <2>1, <2>2, <2>3 DEF Faults
<1>8. CASE UNCHANGED vars
    BY <1>8 DEF vars, tableVars, loopVars, histVars, faultVars
<1> QED BY <1>1, <1>2, <1>3, <1>4, <1>5, <1>6, <1>7, <1>8 DEF Next, Loop

\* The initial state is well typed.
LEMMA TypedInit == Init => Typed
<1> SUFFICES ASSUME Init PROVE Typed
    OBVIOUS
<1>1. TableTypeOK
    BY DEF Init, TableInit, TableTypeOK, Status
<1>2. firedAt \in [FireIds -> SUBSET (0..MaxTime)] /\ announced \in [FireIds -> Nat]
    BY DEF Init
<1>3. now \in 0..MaxTime /\ passNow \in 0..MaxTime
    BY SchedulerAssumption DEF Init
<1>4. crashes \in 0..MaxCrashes /\ errors \in 0..MaxErrors
    BY SchedulerAssumption DEF Init
<1> QED BY <1>1, <1>2, <1>3, <1>4 DEF Init, Typed, TypeOK, HoldingPCs, PCs

\* The types hold in every reachable state.
THEOREM TypeCorrect == Spec => []TypeOK
<1>1. Typed => TypeOK
    BY DEF Typed
<1> QED BY <1>1, TypedInit, TypeStep, PTL DEF Spec

-----------------------------------------------------------------------------
(***************************************************************************)
(* The claim protocol.  AtMostOncePerBoot and WithdrawnNeverAnnounced are   *)
(* not inductive by themselves: what makes them hold is that begin_firing  *)
(* matches pending rows only, and a pending row is one that was never      *)
(* announced and never withdrawn.                                          *)
(***************************************************************************)
ClaimInv ==
    /\ AtMostOncePerBoot
    /\ pc = "listing" => \A i \in FireIds : announced[i] = 0
    /\ \A i \in FireIds : announced[i] > 0 \/ firedAt[i] # {} =>
            status[i] \in {"firing", "fired", "deleted"}
    /\ toRecover # {} => pc \in {"recovering", "rec_mark", "rec_follow"}
    /\ \A i \in toRecover : /\ status[i] \in {"firing", "deleted"}
                            /\ announced[i] = 0
                            /\ i \notin withdrawn
    /\ cur \notin toRecover
    /\ pc \in HoldingPCs => /\ status[cur] \in {"firing", "fired", "deleted"}
                            /\ cur \notin withdrawn
    /\ pc = "publish" => announced[cur] = 0
    /\ \A i \in withdrawn : status[i] = "deleted" /\ firedAt[i] = {}

\* Each action preserves the claim protocol's invariant.
LEMMA ClaimStep == Typed /\ ClaimInv /\ [Next]_vars => ClaimInv'
<1> SUFFICES ASSUME Typed, ClaimInv, [Next]_vars PROVE ClaimInv'
    OBVIOUS
<1> USE NoneAssumption DEF Typed, HoldingPCs, TypeOK, TableTypeOK, Status, PCs,
                           ClaimInv, AtMostOncePerBoot
<1>1. CASE Environment
  <2>1. ASSUME NEW i \in FireIds, NEW sp \in Requests, Schedule(i, sp) PROVE ClaimInv'
      BY <2>1 DEF Schedule, Insert, loopVars, histVars
  <2>2. ASSUME NEW m \in SUBSET Prefixes, Cancel(m) PROVE ClaimInv'
      BY <2>2 DEF Cancel, CancelByPrefix, DeleteUnfired, Withdraw, Unfired, loopVars
  <2>3. CASE Tick
      BY <2>3 DEF Tick, tableVars, loopVars, histVars
  <2>4. CASE Shutdown
      BY <2>4 DEF Shutdown, tableVars, loopVars, histVars
  <2> QED BY <1>1, <2>1, <2>2, <2>3, <2>4 DEF Environment
<1>2. CASE Start
    BY <1>2 DEF Start, tableVars, loopVars
<1>3. CASE Recovery
  <2>1. CASE RecoverList
      BY <2>1 DEF RecoverList, ListInFlight, tableVars, histVars
  <2>2. ASSUME NEW i \in FireIds, RecoverPublish(i) PROVE ClaimInv'
      BY <2>2 DEF RecoverPublish, PublishAlarmFired, tableVars
  <2>3. CASE RecoverMark
      BY <2>3 DEF RecoverMark, MarkFired, loopVars, histVars
  <2>4. CASE RecoverDone
      BY <2>4 DEF RecoverDone, tableVars, loopVars, histVars
  <2> QED BY <1>3, <2>1, <2>2, <2>3, <2>4 DEF Recovery
<1>4. CASE ProcessDue
  <2>1. CASE BeginPass
      BY <2>1 DEF BeginPass, tableVars, histVars
  <2>2. ASSUME NEW i \in FireIds, FireClaim(i) PROVE ClaimInv'
      BY <2>2 DEF FireClaim, Claim, BeginFiringMatches, BeginFiring, tableVars, histVars
  <2>3. ASSUME NEW i \in FireIds, SkipClaim(i) PROVE ClaimInv'
      BY <2>3 DEF SkipClaim, Claim, BeginFiringMatches, BeginFiring, tableVars, histVars
  <2>4. ASSUME NEW i \in FireIds, CoalesceBegin(i) PROVE ClaimInv'
      BY <2>4 DEF CoalesceBegin, tableVars
  <2>5. ASSUME NEW i \in FireIds, LoserClaim(i) PROVE ClaimInv'
      BY <2>5 DEF LoserClaim, Claim, BeginFiringMatches, BeginFiring, tableVars, histVars
  <2>6. CASE DispatchPublish
      BY <2>6 DEF DispatchPublish, PublishAlarmFired, tableVars, loopVars
  <2>7. CASE DispatchMark
      BY <2>7 DEF DispatchMark, MarkFired, loopVars, histVars
  <2>8. CASE SkipMark
      BY <2>8 DEF SkipMark, MarkFired, histVars
  <2>9. CASE LoserSuppress
      BY <2>9 DEF LoserSuppress, MarkSuppressed, Unfired, loopVars, histVars
  <2>10. CASE WinnerClaim
      BY <2>10 DEF WinnerClaim, Claim, BeginFiringMatches, BeginFiring, tableVars, histVars
  <2>11. CASE EndPass
      BY <2>11 DEF EndPass, tableVars
  <2> QED BY <1>4, <2>1, <2>2, <2>3, <2>4, <2>5, <2>6, <2>7, <2>8, <2>9, <2>10, <2>11 DEF ProcessDue
<1>5. CASE NoFollowUp
    BY <1>5 DEF NoFollowUp, tableVars, loopVars, histVars
<1>6. CASE ExitOnShutdown
    BY <1>6 DEF ExitOnShutdown, tableVars, loopVars, histVars
<1>7. CASE Faults
  <2>1. CASE RecoverMarkFails
      BY <2>1 DEF RecoverMarkFails, tableVars, loopVars
  <2>2. CASE DbError
      BY <2>2 DEF DbError, Abandon, tableVars
  <2>3. CASE Crash
      BY <2>3 DEF Crash, Abandon, tableVars
  <2> QED BY <1>7, <2>1, <2>2, <2>3 DEF Faults
<1>8. CASE UNCHANGED vars
    BY <1>8 DEF vars, tableVars, loopVars, histVars
<1> QED BY <1>1, <1>2, <1>3, <1>4, <1>5, <1>6, <1>7, <1>8 DEF Next, Loop

\* The claim protocol holds in every reachable state.
LEMMA ClaimCorrect == Spec => [](Typed /\ ClaimInv)
<1>1. Init => Typed /\ ClaimInv
  <2> SUFFICES ASSUME Init PROVE Typed /\ ClaimInv
      OBVIOUS
  <2>1. Typed
      BY TypedInit
  <2>2. ClaimInv
      BY DEF Init, ClaimInv, AtMostOncePerBoot, HoldingPCs, TableInit
  <2> QED BY <2>1, <2>2
<1>2. (Typed /\ ClaimInv) /\ [Next]_vars => (Typed /\ ClaimInv)'
    BY TypeStep, ClaimStep
<1> QED BY <1>1, <1>2, PTL DEF Spec

\* No fire is announced twice within one boot, however many listings show its
\* claimed row and whether or not recovery could mark it.
THEOREM AnnouncedAtMostOncePerBoot == Spec => []AtMostOncePerBoot
<1>1. ClaimInv => AtMostOncePerBoot
    BY DEF ClaimInv
<1> QED BY <1>1, ClaimCorrect, PTL

\* A cancel that removes an unclaimed row wins against a pass that has already
\* listed the row as due.
THEOREM WithdrawnStaysSilent == Spec => []WithdrawnNeverAnnounced
<1>1. ClaimInv => WithdrawnNeverAnnounced
    BY DEF ClaimInv, WithdrawnNeverAnnounced
<1> QED BY <1>1, ClaimCorrect, PTL

-----------------------------------------------------------------------------
(***************************************************************************)
(* Fires and the clock.  A row reaches the loop only through a listing     *)
(* whose cutoff was the clock, so whatever the loop holds is due at        *)
(* passNow; what a crash leaves claimed was due at some earlier passNow.   *)
(***************************************************************************)
InLoop(i) == \/ i \in toRecover \cup toFire \cup toSkip \cup toCoalesce \cup losers
             \/ i = winner
             \/ i = cur

DueInv ==
    /\ passNow <= now
    /\ \A i \in FireIds : status[i] # "unused" => spec[i] \in FireSpec
    /\ \A i \in FireIds : InLoop(i) => status[i] # "unused" /\ spec[i].fire_at <= passNow
    /\ \A i \in FireIds : status[i] = "firing" => spec[i].fire_at <= now
    /\ \A i \in FireIds : status[i] = "unused" => firedAt[i] = {}
    /\ NeverEarly

\* A row of the table carries a time the clock can be compared with.
LEMMA FireAtNat ==
    ASSUME NEW sp \in FireSpec
    PROVE  sp.fire_at \in Nat
BY TimesAssumption DEF FireSpec

\* Each action preserves the clock invariant.
LEMMA DueStep == Typed /\ DueInv /\ [Next]_vars => DueInv'
<1> SUFFICES ASSUME Typed, DueInv, [Next]_vars PROVE DueInv'
    OBVIOUS
<1>a. \A i \in FireIds : status[i] # "unused" => spec[i].fire_at \in Nat
    BY FireAtNat DEF DueInv
<1>b. Requests \subseteq FireSpec /\ MaxTime \in Nat
    BY SchedulerAssumption
<1> USE <1>a, <1>b, NoneAssumption
    DEF Typed, HoldingPCs, TypeOK, TableTypeOK, Status, PCs, DueInv, InLoop, NeverEarly
<1>1. CASE Environment
  <2>1. ASSUME NEW i \in FireIds, NEW sp \in Requests, Schedule(i, sp) PROVE DueInv'
      BY <2>1 DEF Schedule, Insert, loopVars, histVars
  <2>2. ASSUME NEW m \in SUBSET Prefixes, Cancel(m) PROVE DueInv'
      BY <2>2 DEF Cancel, CancelByPrefix, DeleteUnfired, Withdraw, Unfired, loopVars
  <2>3. CASE Tick
      BY <2>3 DEF Tick, tableVars, loopVars, histVars
  <2>4. CASE Shutdown
      BY <2>4 DEF Shutdown, tableVars, loopVars, histVars
  <2> QED BY <1>1, <2>1, <2>2, <2>3, <2>4 DEF Environment
<1>2. CASE Start
    BY <1>2 DEF Start, tableVars, loopVars
<1>3. CASE Recovery
  <2>1. CASE RecoverList
      BY <2>1 DEF RecoverList, ListInFlight, tableVars, histVars
  <2>2. ASSUME NEW i \in FireIds, RecoverPublish(i) PROVE DueInv'
      BY <2>2 DEF RecoverPublish, PublishAlarmFired, tableVars
  <2>3. CASE RecoverMark
      BY <2>3 DEF RecoverMark, MarkFired, loopVars, histVars
  <2>4. CASE RecoverDone
      BY <2>4 DEF RecoverDone, tableVars, loopVars, histVars
  <2> QED BY <1>3, <2>1, <2>2, <2>3, <2>4 DEF Recovery
<1>4. CASE ProcessDue
  <2>1. CASE BeginPass
      BY <2>1 DEF BeginPass, tableVars, histVars, ListPendingUpTo, Unfired
  <2>2. ASSUME NEW i \in FireIds, FireClaim(i) PROVE DueInv'
    <3>1. spec[i].fire_at <= passNow /\ passNow <= now
        BY <2>2 DEF FireClaim, Oldest
    <3>2. CASE BeginFiringMatches(i)
        BY <2>2, <3>1, <3>2 DEF FireClaim, Claim, BeginFiringMatches, BeginFiring, histVars
    <3>3. CASE ~BeginFiringMatches(i)
        BY <2>2, <3>3 DEF FireClaim, Claim, tableVars, histVars
    <3> QED BY <3>2, <3>3
  <2>3. ASSUME NEW i \in FireIds, SkipClaim(i) PROVE DueInv'
    <3>1. spec[i].fire_at <= passNow /\ passNow <= now
        BY <2>3 DEF SkipClaim, Oldest
    <3>2. CASE BeginFiringMatches(i)
        BY <2>3, <3>1, <3>2 DEF SkipClaim, Claim, BeginFiringMatches, BeginFiring, histVars
    <3>3. CASE ~BeginFiringMatches(i)
        BY <2>3, <3>3 DEF SkipClaim, Claim, tableVars, histVars
    <3> QED BY <3>2, <3>3
  <2>4. ASSUME NEW i \in FireIds, CoalesceBegin(i) PROVE DueInv'
      BY <2>4 DEF CoalesceBegin, tableVars
  <2>5. ASSUME NEW i \in FireIds, LoserClaim(i) PROVE DueInv'
    <3>1. spec[i].fire_at <= passNow /\ passNow <= now
        BY <2>5 DEF LoserClaim, Oldest
    <3>2. CASE BeginFiringMatches(i)
        BY <2>5, <3>1, <3>2 DEF LoserClaim, Claim, BeginFiringMatches, BeginFiring, histVars
    <3>3. CASE ~BeginFiringMatches(i)
        BY <2>5, <3>3 DEF LoserClaim, Claim, tableVars, histVars
    <3> QED BY <3>2, <3>3
  <2>6. CASE DispatchPublish
      BY <2>6 DEF DispatchPublish, PublishAlarmFired, tableVars, loopVars
  <2>7. CASE DispatchMark
      BY <2>7 DEF DispatchMark, MarkFired, loopVars, histVars
  <2>8. CASE SkipMark
      BY <2>8 DEF SkipMark, MarkFired, histVars
  <2>9. CASE LoserSuppress
      BY <2>9 DEF LoserSuppress, MarkSuppressed, Unfired, loopVars, histVars
  <2>10. CASE WinnerClaim
      BY <2>10 DEF WinnerClaim, Claim, BeginFiringMatches, BeginFiring, tableVars,
                   histVars
  <2>11. CASE EndPass
      BY <2>11 DEF EndPass, tableVars
  <2> QED BY <1>4, <2>1, <2>2, <2>3, <2>4, <2>5, <2>6, <2>7, <2>8, <2>9, <2>10, <2>11 DEF ProcessDue
<1>5. CASE NoFollowUp
    BY <1>5 DEF NoFollowUp, tableVars, loopVars, histVars
<1>6. CASE ExitOnShutdown
    BY <1>6 DEF ExitOnShutdown, tableVars, loopVars, histVars
<1>7. CASE Faults
  <2>1. CASE RecoverMarkFails
      BY <2>1 DEF RecoverMarkFails, tableVars, loopVars
  <2>2. CASE DbError
      BY <2>2 DEF DbError, Abandon, tableVars
  <2>3. CASE Crash
      BY <2>3 DEF Crash, Abandon, tableVars
  <2> QED BY <1>7, <2>1, <2>2, <2>3 DEF Faults
<1>8. CASE UNCHANGED vars
    BY <1>8 DEF vars, tableVars, loopVars, histVars
<1> QED BY <1>1, <1>2, <1>3, <1>4, <1>5, <1>6, <1>7, <1>8 DEF Next, Loop

\* No fire is ever announced before its fire_at, across crashes and restarts.
THEOREM FiresAreNeverEarly == Spec => []NeverEarly
<1>1. Init => Typed /\ DueInv
  <2> SUFFICES ASSUME Init PROVE DueInv
      BY TypedInit
  <2> QED BY NoneAssumption DEF Init, TableInit, DueInv, InLoop, NeverEarly
<1>2. (Typed /\ DueInv) /\ [Next]_vars => (Typed /\ DueInv)'
    BY TypeStep, DueStep
<1>3. DueInv => NeverEarly
    BY DEF DueInv
<1> QED BY <1>1, <1>2, <1>3, PTL DEF Spec

-----------------------------------------------------------------------------
(***************************************************************************)
(* Phase two.  A claimed row is in the loop's hand, still to be recovered, *)
(* given up by recovery, or left behind by a loop that is gone; and a      *)
(* fired row has been accounted for, at the latest by the report at the    *)
(* end of the pass.                                                        *)
(***************************************************************************)
SettleInv ==
    /\ \A i \in FireIds : status[i] = "firing" =>
            \/ i = cur
            \/ i \in toRecover \cup unmarked
            \/ pc \in {"down", "listing", "exited"}
    /\ pc \in {"follow", "rec_follow"} => status[cur] # "firing"
    /\ pc \in {"mark", "rec_mark"} => firedAt[cur] # {}
    /\ missed # {} => pc \in {"pass", "publish", "mark", "follow", "skip_mark", "suppress"}
    /\ losers # {} \/ pc = "suppress" => winner # None
    /\ \A i \in FireIds : status[i] = "fired" =>
            \/ firedAt[i] # {}
            \/ suppressed_by[i] # None
            \/ i \in reported \cup dropped \cup missed

\* Each action preserves the settlement invariant.
LEMMA SettleStep == Typed /\ ClaimInv /\ SettleInv /\ [Next]_vars => SettleInv'
<1> SUFFICES ASSUME Typed, ClaimInv, SettleInv, [Next]_vars PROVE SettleInv'
    OBVIOUS
<1>a. toRecover # {} => pc \in {"recovering", "rec_mark", "rec_follow"}
    BY DEF ClaimInv
<1> USE <1>a, NoneAssumption
    DEF Typed, HoldingPCs, TypeOK, TableTypeOK, Status, PCs, SettleInv
<1>1. CASE Environment
  <2>1. ASSUME NEW i \in FireIds, NEW sp \in Requests, Schedule(i, sp) PROVE SettleInv'
      BY <2>1 DEF Schedule, Insert, loopVars, histVars
  <2>2. ASSUME NEW m \in SUBSET Prefixes, Cancel(m) PROVE SettleInv'
      BY <2>2 DEF Cancel, CancelByPrefix, DeleteUnfired, Withdraw, Unfired, loopVars
  <2>3. CASE Tick
      BY <2>3 DEF Tick, tableVars, loopVars, histVars
  <2>4. CASE Shutdown
      BY <2>4 DEF Shutdown, tableVars, loopVars, histVars
  <2> QED BY <1>1, <2>1, <2>2, <2>3, <2>4 DEF Environment
<1>2. CASE Start
    BY <1>2 DEF Start, tableVars, loopVars
<1>3. CASE Recovery
  <2>1. CASE RecoverList
      BY <2>1 DEF RecoverList, ListInFlight, tableVars, histVars
  <2>2. ASSUME NEW i \in FireIds, RecoverPublish(i) PROVE SettleInv'
      BY <2>2 DEF RecoverPublish, PublishAlarmFired, tableVars
  <2>3. CASE RecoverMark
      BY <2>3 DEF RecoverMark, MarkFired, loopVars, histVars
  <2>4. CASE RecoverDone
      BY <2>4 DEF RecoverDone, tableVars, loopVars, histVars
  <2> QED BY <1>3, <2>1, <2>2, <2>3, <2>4 DEF Recovery
<1>4. CASE ProcessDue
  <2>1. CASE BeginPass
      BY <2>1 DEF BeginPass, tableVars, histVars, ListPendingUpTo, Unfired
  <2>2. ASSUME NEW i \in FireIds, FireClaim(i) PROVE SettleInv'
      BY <2>2 DEF FireClaim, Claim, BeginFiringMatches, BeginFiring, tableVars,
                  histVars
  <2>3. ASSUME NEW i \in FireIds, SkipClaim(i) PROVE SettleInv'
      BY <2>3 DEF SkipClaim, Claim, BeginFiringMatches, BeginFiring, tableVars,
                  histVars
  <2>4. ASSUME NEW i \in FireIds, CoalesceBegin(i) PROVE SettleInv'
      BY <2>4 DEF CoalesceBegin, tableVars
  <2>5. ASSUME NEW i \in FireIds, LoserClaim(i) PROVE SettleInv'
      BY <2>5 DEF LoserClaim, Claim, BeginFiringMatches, BeginFiring, tableVars,
                  histVars
  <2>6. CASE DispatchPublish
      BY <2>6 DEF DispatchPublish, PublishAlarmFired, tableVars, loopVars
  <2>7. CASE DispatchMark
      BY <2>7 DEF DispatchMark, MarkFired, loopVars, histVars
  <2>8. CASE SkipMark
      BY <2>8 DEF SkipMark, MarkFired, histVars
  <2>9. CASE LoserSuppress
      BY <2>9 DEF LoserSuppress, MarkSuppressed, Unfired, loopVars, histVars
  <2>10. CASE WinnerClaim
      BY <2>10 DEF WinnerClaim, Claim, BeginFiringMatches, BeginFiring, tableVars,
                   histVars
  <2>11. CASE EndPass
      BY <2>11 DEF EndPass, tableVars
  <2> QED BY <1>4, <2>1, <2>2, <2>3, <2>4, <2>5, <2>6, <2>7, <2>8, <2>9, <2>10, <2>11 DEF ProcessDue
<1>5. CASE NoFollowUp
    BY <1>5 DEF NoFollowUp, tableVars, loopVars, histVars
<1>6. CASE ExitOnShutdown
    BY <1>6 DEF ExitOnShutdown, tableVars, loopVars, histVars
<1>7. CASE Faults
  <2>1. CASE RecoverMarkFails
      BY <2>1 DEF RecoverMarkFails, tableVars, loopVars
  <2>2. CASE DbError
      BY <2>2 DEF DbError, Abandon, tableVars
  <2>3. CASE Crash
      BY <2>3 DEF Crash, Abandon, tableVars
  <2> QED BY <1>7, <2>1, <2>2, <2>3 DEF Faults
<1>8. CASE UNCHANGED vars
    BY <1>8 DEF vars, tableVars, loopVars, histVars
<1> QED BY <1>1, <1>2, <1>3, <1>4, <1>5, <1>6, <1>7, <1>8 DEF Next, Loop

\* The settlement invariant holds in every reachable state.
LEMMA SettleCorrect == Spec => [](Typed /\ ClaimInv /\ SettleInv)
<1>1. Init => SettleInv
    BY DEF Init, TableInit, SettleInv
<1>2. (Typed /\ ClaimInv /\ SettleInv) /\ [Next]_vars => SettleInv'
    BY SettleStep
<1> QED BY <1>1, <1>2, ClaimCorrect, PTL DEF Spec

\* The loop never goes to sleep with a claim it has not completed, except the
\* rows this boot's recovery failed to mark.
THEOREM NothingInFlightWhileAsleep == Spec => []IdleLeavesNothingInFlight
<1>1. Typed /\ ClaimInv /\ SettleInv => IdleLeavesNothingInFlight
    BY NoneAssumption
       DEF Typed, HoldingPCs, ClaimInv, SettleInv, IdleLeavesNothingInFlight, ListInFlight
<1> QED BY <1>1, SettleCorrect, PTL

\* No row becomes fired without a trace: announced, suppressed or reported, or
\* listed in a report that a crash or an error discarded.
THEOREM FiresAreAccounted == Spec => []EveryFireAccounted
<1>1. SettleInv => EveryFireAccounted
    BY DEF SettleInv, EveryFireAccounted
<1> QED BY <1>1, SettleCorrect, PTL

-----------------------------------------------------------------------------
(***************************************************************************)
(* Coalescing.  The losers of the group in hand rank below its winner, and *)
(* a loser is claimed from "pending", so it was never announced.           *)
(***************************************************************************)
RanksBelow(i, w) == /\ i # w
                    /\ SameGroup(i, w)
                    /\ spec[i].fire_at <= spec[w].fire_at

GroupInv ==
    /\ losers # {} \/ pc = "suppress" => winner # None
    /\ \A i \in losers : RanksBelow(i, winner)
    /\ pc = "suppress" => RanksBelow(cur, winner) /\ firedAt[cur] = {}
    /\ pc = "publish" => status[cur] # "fired"
    /\ \A i \in FireIds : suppressed_by[i] # None =>
            /\ status[i] = "fired"
            /\ status[suppressed_by[i]] # "unused"
            /\ firedAt[i] = {}
            /\ RanksBelow(i, suppressed_by[i])

\* Each action preserves the coalescing invariant.
LEMMA GroupStep ==
    Typed /\ ClaimInv /\ DueInv /\ GroupInv /\ [Next]_vars => GroupInv'
<1> SUFFICES ASSUME Typed, ClaimInv, DueInv, GroupInv, [Next]_vars PROVE GroupInv'
    OBVIOUS
<1>a. \A i \in toRecover : status[i] \in {"firing", "deleted"}
    BY DEF ClaimInv
<1>b. \A i \in FireIds : firedAt[i] # {} => status[i] \in {"firing", "fired", "deleted"}
    BY DEF ClaimInv
<1>c. \A i \in FireIds :
         i \in losers \/ i \in toCoalesce \/ i = winner \/ i = cur => status[i] # "unused"
    BY DEF DueInv, InLoop
<1> USE <1>a, <1>b, <1>c, NoneAssumption
    DEF Typed, HoldingPCs, TypeOK, TableTypeOK, Status, PCs, GroupInv, RanksBelow, SameGroup
<1>1. CASE Environment
  <2>1. ASSUME NEW i \in FireIds, NEW sp \in Requests, Schedule(i, sp) PROVE GroupInv'
      BY <2>1 DEF Schedule, Insert, loopVars, histVars
  <2>2. ASSUME NEW m \in SUBSET Prefixes, Cancel(m) PROVE GroupInv'
      BY <2>2 DEF Cancel, CancelByPrefix, DeleteUnfired, Withdraw, Unfired, loopVars
  <2>3. CASE Tick
      BY <2>3 DEF Tick, tableVars, loopVars, histVars
  <2>4. CASE Shutdown
      BY <2>4 DEF Shutdown, tableVars, loopVars, histVars
  <2> QED BY <1>1, <2>1, <2>2, <2>3, <2>4 DEF Environment
<1>2. CASE Start
    BY <1>2 DEF Start, tableVars, loopVars
<1>3. CASE Recovery
  <2>1. CASE RecoverList
      BY <2>1 DEF RecoverList, ListInFlight, tableVars, histVars
  <2>2. ASSUME NEW i \in FireIds, RecoverPublish(i) PROVE GroupInv'
      BY <2>2 DEF RecoverPublish, PublishAlarmFired, tableVars
  <2>3. CASE RecoverMark
      BY <2>3 DEF RecoverMark, MarkFired, loopVars, histVars
  <2>4. CASE RecoverDone
      BY <2>4 DEF RecoverDone, tableVars, loopVars, histVars
  <2> QED BY <1>3, <2>1, <2>2, <2>3, <2>4 DEF Recovery
<1>4. CASE ProcessDue
  <2>1. CASE BeginPass
      BY <2>1 DEF BeginPass, tableVars, histVars
  <2>2. ASSUME NEW i \in FireIds, FireClaim(i) PROVE GroupInv'
      BY <2>2 DEF FireClaim, Claim, BeginFiringMatches, BeginFiring, tableVars,
                  histVars
  <2>3. ASSUME NEW i \in FireIds, SkipClaim(i) PROVE GroupInv'
      BY <2>3 DEF SkipClaim, Claim, BeginFiringMatches, BeginFiring, tableVars,
                  histVars
  <2>4. ASSUME NEW i \in FireIds, CoalesceBegin(i) PROVE GroupInv'
      BY <2>4 DEF CoalesceBegin, tableVars, MostRecent, SameGroup
  <2>5. ASSUME NEW i \in FireIds, LoserClaim(i) PROVE GroupInv'
    <3>1. RanksBelow(i, winner)
        BY <2>5 DEF LoserClaim, Oldest
    <3>2. CASE BeginFiringMatches(i)
      <4>1. firedAt[i] = {}
          BY <3>2 DEF BeginFiringMatches
      <4> QED BY <2>5, <3>1, <3>2, <4>1
              DEF LoserClaim, Claim, BeginFiringMatches, BeginFiring, histVars
    <3>3. CASE ~BeginFiringMatches(i)
        BY <2>5, <3>3 DEF LoserClaim, Claim, tableVars, histVars
    <3> QED BY <3>2, <3>3
  <2>6. CASE DispatchPublish
      BY <2>6 DEF DispatchPublish, PublishAlarmFired, tableVars, loopVars
  <2>7. CASE DispatchMark
      BY <2>7 DEF DispatchMark, MarkFired, loopVars, histVars
  <2>8. CASE SkipMark
      BY <2>8 DEF SkipMark, MarkFired, histVars
  <2>9. CASE LoserSuppress
      BY <2>9 DEF LoserSuppress, MarkSuppressed, Unfired, loopVars, histVars
  <2>10. CASE WinnerClaim
      BY <2>10 DEF WinnerClaim, Claim, BeginFiringMatches, BeginFiring, tableVars,
                   histVars
  <2>11. CASE EndPass
      BY <2>11 DEF EndPass, tableVars
  <2> QED BY <1>4, <2>1, <2>2, <2>3, <2>4, <2>5, <2>6, <2>7, <2>8, <2>9, <2>10, <2>11 DEF ProcessDue
<1>5. CASE NoFollowUp
    BY <1>5 DEF NoFollowUp, tableVars, loopVars, histVars
<1>6. CASE ExitOnShutdown
    BY <1>6 DEF ExitOnShutdown, tableVars, loopVars, histVars
<1>7. CASE Faults
  <2>1. CASE RecoverMarkFails
      BY <2>1 DEF RecoverMarkFails, tableVars, loopVars
  <2>2. CASE DbError
      BY <2>2 DEF DbError, Abandon, tableVars
  <2>3. CASE Crash
      BY <2>3 DEF Crash, Abandon, tableVars
  <2> QED BY <1>7, <2>1, <2>2, <2>3 DEF Faults
<1>8. CASE UNCHANGED vars
    BY <1>8 DEF vars, tableVars, loopVars, histVars
<1> QED BY <1>1, <1>2, <1>3, <1>4, <1>5, <1>6, <1>7, <1>8 DEF Next, Loop

\* The due and coalescing invariants hold in every reachable state.
LEMMA GroupCorrect == Spec => []GroupInv
<1>1. Init => Typed /\ DueInv /\ GroupInv
  <2> SUFFICES ASSUME Init PROVE DueInv /\ GroupInv
      BY TypedInit
  <2> QED BY NoneAssumption
          DEF Init, TableInit, DueInv, InLoop, NeverEarly, GroupInv
<1>2. Typed /\ ClaimInv /\ DueInv /\ GroupInv /\ [Next]_vars => DueInv' /\ GroupInv'
    BY DueStep, GroupStep
<1> QED BY <1>1, <1>2, ClaimCorrect, PTL DEF Spec

\* A suppressed row was never announced, and its suppressor is another row of
\* its group at least as recent.
THEOREM SuppressionIsForNewer == Spec => []SuppressedForNewer
<1>1. GroupInv => SuppressedForNewer
    BY DEF GroupInv, RanksBelow, SuppressedForNewer
<1> QED BY <1>1, GroupCorrect, PTL

-----------------------------------------------------------------------------
(***************************************************************************)
(* TemporalScheduler implements FireContract, for every value of the       *)
(* constants: the initial states map to the contract's, and every step of  *)
(* the scheduler, its environment or a fault maps to a step of the         *)
(* contract or to none.                                                    *)
(***************************************************************************)
Phases == [i \in FireIds |-> Phase(i)]
Heard == {i \in FireIds : firedAt[i] # {}}
HeardNow == {i \in FireIds : announced[i] > 0}

ContractVars == <<Phases, Heard, HeardNow>>

RefInv == Typed /\ ClaimInv /\ GroupInv

\* A step that leaves status and the history of cancels alone keeps all phases.
LEMMA SamePhases ==
    ASSUME UNCHANGED <<status, withdrawn>>
    PROVE  UNCHANGED Phases
BY DEF Phases, Phase

\* A step that leaves the announcements alone keeps what was heard.
LEMMA SameHeard ==
    ASSUME UNCHANGED <<firedAt, announced>>
    PROVE  UNCHANGED <<Heard, HeardNow>>
BY DEF Heard, HeardNow

\* A step that moves one row to the status s changes that row's phase only.
LEMMA OnePhase ==
    ASSUME TableTypeOK, NEW i \in FireIds, NEW s \in Status \ {"deleted"},
           status' = [status EXCEPT ![i] = s], UNCHANGED withdrawn
    PROVE  Phases' = [Phases EXCEPT ![i] =
               CASE s = "unused"  -> "absent"
                 [] s = "pending" -> "accepted"
                 [] s = "firing"  -> "taken"
                 [] s = "fired"   -> "settled"]
BY DEF Phases, Phase, Status, TableTypeOK

\* begin_firing is the contract's Take, or nothing.
LEMMA ClaimTakes ==
    ASSUME RefInv, NEW i \in FireIds, NEW next, Claim(i, next),
           UNCHANGED <<withdrawn, firedAt, announced>>
    PROVE  Contract!Take(i) \/ UNCHANGED ContractVars
<1>1. UNCHANGED <<Heard, HeardNow>>
    BY SameHeard
<1>2. CASE BeginFiringMatches(i)
  <2>1. status[i] = "pending" /\ status' = [status EXCEPT ![i] = "firing"]
      BY <1>2 DEF Claim, BeginFiringMatches, BeginFiring
  <2>2. Phases' = [Phases EXCEPT ![i] = "taken"]
      BY <2>1, OnePhase DEF RefInv, Typed, TypeOK, Status
  <2>3. Phases[i] = "accepted"
      BY <2>1 DEF Phases, Phase
  <2> QED BY <1>1, <2>2, <2>3 DEF Contract!Take, Phases, Heard, HeardNow
<1>3. CASE ~BeginFiringMatches(i)
  <2>1. UNCHANGED <<status, withdrawn>>
      BY <1>3 DEF Claim, tableVars
  <2> QED BY <1>1, <2>1, SamePhases DEF ContractVars
<1> QED BY <1>2, <1>3

\* mark_fired and mark_suppressed are the contract's Settle, or nothing when
\* the row was recalled or is fired already.
LEMMA MarkSettles ==
    ASSUME RefInv, NEW i \in FireIds, status[i] \in {"firing", "fired", "deleted"},
           \/ status' = [status EXCEPT ![i] = "fired"] /\ status[i] # "deleted"
           \/ UNCHANGED status,
           UNCHANGED <<withdrawn, firedAt, announced>>
    PROVE  Contract!Settle(i) \/ UNCHANGED ContractVars
<1>1. UNCHANGED <<Heard, HeardNow>>
    BY SameHeard
<1>2. CASE status[i] = "firing" /\ status' = [status EXCEPT ![i] = "fired"]
  <2>2. Phases' = [Phases EXCEPT ![i] = "settled"]
      BY <1>2, OnePhase DEF RefInv, Typed, TypeOK, Status
  <2>3. Phases[i] = "taken"
      BY <1>2 DEF Phases, Phase
  <2> QED BY <1>1, <2>2, <2>3 DEF Contract!Settle, Phases, Heard, HeardNow
<1>3. CASE UNCHANGED status
    BY <1>1, <1>3, SamePhases DEF ContractVars
<1>4. CASE status[i] = "fired" /\ status' = [status EXCEPT ![i] = "fired"]
  <2>1. UNCHANGED status
      BY <1>4 DEF RefInv, Typed, TypeOK, TableTypeOK
  <2> QED BY <1>1, <2>1, SamePhases DEF ContractVars
<1> QED BY <1>2, <1>3, <1>4

\* publish_alarm(AlarmFired) is the contract's Announce.
LEMMA PublishAnnounces ==
    ASSUME RefInv, NEW i \in FireIds, status[i] \in {"firing", "deleted"},
           i \notin withdrawn, announced[i] = 0, PublishAlarmFired(i), UNCHANGED status
    PROVE  Contract!Announce(i)
<1>1. Phases[i] \in {"taken", "recalled"}
    BY DEF Phases, Phase
<1>2. UNCHANGED Phases
    BY SamePhases DEF PublishAlarmFired
<1>3. Heard' = Heard \cup {i}
    BY DEF PublishAlarmFired, Heard, RefInv, Typed, TypeOK
<1>4. HeardNow' = HeardNow \cup {i}
    BY DEF PublishAlarmFired, HeardNow, RefInv, Typed, TypeOK
<1>5. i \notin HeardNow
    BY DEF HeardNow
<1> QED BY <1>1, <1>2, <1>3, <1>4, <1>5 DEF Contract!Announce, Phases, Heard, HeardNow

-----------------------------------------------------------------------------
\* Steps that touch neither the table nor the bus are invisible.
LEMMA Invisible ==
    ASSUME UNCHANGED <<status, withdrawn, firedAt, announced>>
    PROVE  UNCHANGED ContractVars
BY SamePhases, SameHeard DEF ContractVars

ContractStep == Contract!Next \/ UNCHANGED ContractVars

\* An insert is the contract's Accept.
LEMMA InsertAccepts ==
    ASSUME RefInv, NEW i \in FireIds, NEW f, Insert(i, f),
           UNCHANGED <<withdrawn, firedAt, announced>>
    PROVE  ContractStep
<1>1. status[i] = "unused" /\ status' = [status EXCEPT ![i] = "pending"]
    BY DEF Insert
<1>2. Phases' = [Phases EXCEPT ![i] = "accepted"]
    BY <1>1, OnePhase DEF RefInv, Typed, TypeOK, Status
<1>3. Phases[i] = "absent"
    BY <1>1 DEF Phases, Phase
<1>4. Contract!Accept(i)
    BY <1>2, <1>3, SameHeard DEF Contract!Accept, Phases, Heard, HeardNow
<1> QED BY <1>4 DEF ContractStep, Contract!Next

\* A cancel, by prefix or by kind and ref, is the contract's Withdraw of the
\* rows it deletes.
LEMMA CancelWithdraws ==
    ASSUME RefInv, NEW sel, DeleteUnfired(sel), Withdraw,
           UNCHANGED <<firedAt, announced>>
    PROVE  ContractStep
<1> DEFINE S == {i \in FireIds : Unfired(i) /\ status'[i] = "deleted"}
<1>a. TableTypeOK
    BY DEF RefInv, Typed, TypeOK
<1>1. \A i \in FireIds \ S : status'[i] = status[i] /\ (i \in withdrawn' <=> i \in withdrawn)
    BY DEF DeleteUnfired, Withdraw, Unfired
<1>2. \A i \in S : /\ status[i] \in {"pending", "firing"}
                   /\ i \in withdrawn' <=> status[i] = "pending"
    BY DEF Withdraw, Unfired, RefInv, ClaimInv
<1>3. \A i \in S : Phases[i] \in {"accepted", "taken"}
    BY <1>2 DEF Phases, Phase
<1>4. Phases' = [i \in FireIds |-> IF i \notin S THEN Phases[i]
                                   ELSE IF Phases[i] = "accepted" THEN "withdrawn"
                                   ELSE "recalled"]
  <2>1. ASSUME NEW i \in FireIds \ S PROVE Phases'[i] = Phases[i]
    <3>1. /\ status[i] \in Status /\ status'[i] = status[i]
          /\ i \in withdrawn' <=> i \in withdrawn
        BY <1>a, <1>1 DEF TableTypeOK
    <3>2. Phase(i)' = Phase(i)
        BY <3>1 DEF Phase, Status
    <3> QED BY <3>2 DEF Phases
  <2>2. ASSUME NEW i \in S
        PROVE  Phases'[i] = IF Phases[i] = "accepted" THEN "withdrawn" ELSE "recalled"
      BY <1>2 DEF Phases, Phase
  <2> QED BY <2>1, <2>2 DEF Phases
<1>5. UNCHANGED <<Heard, HeardNow>>
    BY SameHeard
<1>6. Contract!Withdraw(S)
    BY <1>3, <1>4, <1>5 DEF Contract!Withdraw, Phases, Heard, HeardNow
<1> QED BY <1>6 DEF ContractStep, Contract!Next

\* Every step of the specification is a contract step or invisible.
LEMMA StepRefines == RefInv /\ RefInv' /\ [Next]_vars => ContractStep
<1> SUFFICES ASSUME RefInv, RefInv', [Next]_vars PROVE ContractStep
    OBVIOUS
<1>a. TypeOK /\ TableTypeOK /\ (cur # None <=> pc \in HoldingPCs)
    BY DEF RefInv, Typed, TypeOK
<1>b. pc \in HoldingPCs => /\ cur \in FireIds
                           /\ status[cur] \in {"firing", "fired", "deleted"}
                           /\ cur \notin withdrawn
    BY <1>a DEF TypeOK, RefInv, ClaimInv
<1>c. \A i \in FireIds : Contract!Take(i) \/ Contract!Settle(i) \/ Contract!Announce(i)
                            => ContractStep
    BY DEF ContractStep, Contract!Next
<1>1. CASE Environment
  <2>1. ASSUME NEW i \in FireIds, NEW sp \in Requests, Schedule(i, sp) PROVE ContractStep
      BY <2>1, InsertAccepts DEF Schedule, histVars
  <2>2. ASSUME NEW m \in SUBSET Prefixes, Cancel(m) PROVE ContractStep
      BY <2>2, CancelWithdraws DEF Cancel, CancelByPrefix
  <2>3. CASE Tick
      BY <2>3, Invisible DEF Tick, tableVars, histVars, ContractStep
  <2>4. CASE Shutdown
      BY <2>4, Invisible DEF Shutdown, tableVars, histVars, ContractStep
  <2> QED BY <1>1, <2>1, <2>2, <2>3, <2>4 DEF Environment
<1>2. CASE Start
  <2>1. UNCHANGED Phases
      BY <1>2, SamePhases DEF Start, tableVars
  <2>2. Heard' = Heard /\ HeardNow' = {}
      BY <1>2 DEF Start, Heard, HeardNow
  <2>3. Contract!Reboot
      BY <2>1, <2>2 DEF Contract!Reboot, Phases, Heard, HeardNow
  <2> QED BY <2>3 DEF ContractStep, Contract!Next
<1>3. CASE Recovery
  <2>1. CASE RecoverList
      BY <2>1, Invisible DEF RecoverList, tableVars, histVars, ContractStep
  <2>2. ASSUME NEW i \in FireIds, RecoverPublish(i) PROVE ContractStep
    <3>1. /\ status[i] \in {"firing", "deleted"} /\ i \notin withdrawn /\ announced[i] = 0
          /\ PublishAlarmFired(i) /\ UNCHANGED status
        BY <2>2 DEF RecoverPublish, RefInv, ClaimInv, tableVars
    <3> QED BY <1>c, <3>1, PublishAnnounces
  <2>3. CASE RecoverMark
    <3>1. /\ cur \in FireIds /\ UNCHANGED <<withdrawn, firedAt, announced>>
          /\ \/ status' = [status EXCEPT ![cur] = "fired"] /\ status[cur] # "deleted"
             \/ UNCHANGED status
        BY <1>a, <1>b, <2>3 DEF RecoverMark, MarkFired, histVars, HoldingPCs, TableTypeOK
    <3> QED BY <1>b, <1>c, <2>3, <3>1, MarkSettles DEF ContractStep, RecoverMark, HoldingPCs
  <2>4. CASE RecoverDone
      BY <2>4, Invisible DEF RecoverDone, tableVars, histVars, ContractStep
  <2> QED BY <1>3, <2>1, <2>2, <2>3, <2>4 DEF Recovery
<1>4. CASE ProcessDue
  <2>1. CASE BeginPass
      BY <2>1, Invisible DEF BeginPass, tableVars, histVars, ContractStep
  <2>2. ASSUME NEW i \in FireIds, FireClaim(i) PROVE ContractStep
      BY <1>c, <2>2, ClaimTakes DEF FireClaim, histVars, ContractStep
  <2>3. ASSUME NEW i \in FireIds, SkipClaim(i) PROVE ContractStep
      BY <1>c, <2>3, ClaimTakes DEF SkipClaim, histVars, ContractStep
  <2>4. ASSUME NEW i \in FireIds, CoalesceBegin(i) PROVE ContractStep
      BY <2>4, Invisible DEF CoalesceBegin, tableVars, ContractStep
  <2>5. ASSUME NEW i \in FireIds, LoserClaim(i) PROVE ContractStep
      BY <1>c, <2>5, ClaimTakes DEF LoserClaim, histVars, ContractStep
  <2>6. CASE DispatchPublish
    <3>1. /\ cur \in FireIds
          /\ status[cur] \in {"firing", "deleted"} /\ cur \notin withdrawn /\ announced[cur] = 0
          /\ PublishAlarmFired(cur) /\ UNCHANGED status
        BY <1>b, <2>6 DEF DispatchPublish, RefInv, ClaimInv, GroupInv, tableVars, HoldingPCs
    <3> QED BY <1>c, <3>1, PublishAnnounces
  <2>7. CASE DispatchMark
    <3>1. /\ cur \in FireIds /\ UNCHANGED <<withdrawn, firedAt, announced>>
          /\ \/ status' = [status EXCEPT ![cur] = "fired"] /\ status[cur] # "deleted"
             \/ UNCHANGED status
        BY <1>a, <1>b, <2>7 DEF DispatchMark, MarkFired, histVars, HoldingPCs, TableTypeOK
    <3> QED BY <1>b, <1>c, <2>7, <3>1, MarkSettles DEF ContractStep, DispatchMark, HoldingPCs
  <2>8. CASE SkipMark
    <3>1. /\ cur \in FireIds /\ UNCHANGED <<withdrawn, firedAt, announced>>
          /\ \/ status' = [status EXCEPT ![cur] = "fired"] /\ status[cur] # "deleted"
             \/ UNCHANGED status
        BY <1>a, <1>b, <2>8 DEF SkipMark, MarkFired, histVars, HoldingPCs, TableTypeOK
    <3> QED BY <1>b, <1>c, <2>8, <3>1, MarkSettles DEF ContractStep, SkipMark, HoldingPCs
  <2>9. CASE LoserSuppress
    <3>1. /\ cur \in FireIds /\ UNCHANGED <<withdrawn, firedAt, announced>>
          /\ \/ status' = [status EXCEPT ![cur] = "fired"] /\ status[cur] # "deleted"
             \/ UNCHANGED status
        BY <1>a, <1>b, <2>9
           DEF LoserSuppress, MarkSuppressed, Unfired, histVars, HoldingPCs, TableTypeOK
    <3> QED BY <1>b, <1>c, <2>9, <3>1, MarkSettles DEF ContractStep, LoserSuppress, HoldingPCs
  <2>10. CASE WinnerClaim
      BY <1>a, <1>c, <2>10, ClaimTakes DEF WinnerClaim, histVars, ContractStep, TypeOK
  <2>11. CASE EndPass
      BY <2>11, Invisible DEF EndPass, tableVars, ContractStep
  <2> QED BY <1>4, <2>1, <2>2, <2>3, <2>4, <2>5, <2>6, <2>7, <2>8, <2>9, <2>10, <2>11
          DEF ProcessDue
<1>5. CASE NoFollowUp
    BY <1>5, Invisible DEF NoFollowUp, tableVars, histVars, ContractStep
<1>6. CASE ExitOnShutdown
    BY <1>6, Invisible DEF ExitOnShutdown, tableVars, histVars, ContractStep
<1>7. CASE Faults
  <2>1. CASE RecoverMarkFails
      BY <2>1, Invisible DEF RecoverMarkFails, tableVars, ContractStep
  <2>2. CASE DbError
      BY <2>2, Invisible DEF DbError, Abandon, tableVars, ContractStep
  <2>3. CASE Crash
      BY <2>3, Invisible DEF Crash, Abandon, tableVars, ContractStep
  <2> QED BY <1>7, <2>1, <2>2, <2>3 DEF Faults
<1>8. CASE UNCHANGED vars
    BY <1>8, Invisible DEF vars, tableVars, histVars, ContractStep
<1> QED BY <1>1, <1>2, <1>3, <1>4, <1>5, <1>6, <1>7, <1>8 DEF Next, Loop

\* The scheduler implements its contract: a fire is taken before it is heard
\* of, heard of at most once per boot, and settled for good.
THEOREM SchedulerImplementsContract == Spec => ImplementsContract
<1>1. Init => Contract!Init
    BY DEF Init, TableInit, Contract!Init, Phase
<1>2. RefInv /\ RefInv' /\ [Next]_vars => [Contract!Next]_ContractVars
    BY StepRefines DEF ContractStep
<1>3. Spec => []RefInv
    BY ClaimCorrect, GroupCorrect, PTL DEF RefInv
<1> QED BY <1>1, <1>2, <1>3, PTL
        DEF Spec, ImplementsContract, Contract!Spec, ContractVars, Phases, Heard, HeardNow
=============================================================================
