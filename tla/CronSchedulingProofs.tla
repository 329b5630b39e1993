------------------------- MODULE CronSchedulingProofs -------------------------
(***************************************************************************)
(* Proofs about CronScheduling, for every set of jobs, fires, schedules    *)
(* and handlers and every bound: the guarantees of the loop and its        *)
(* contract survive the bridge, fires keep their distance and stop after a *)
(* disable.                                                                *)
(***************************************************************************)
EXTENDS CronScheduling, TemporalSchedulerProofs, FiniteSetTheorems

\* The job a fire belongs to.
Job(i) == spec[i].ref_id

\* Every row is a cron fire of some job.
RowsInv ==
    \A i \in FireIds : status[i] # "unused" => /\ spec[i] \in FireSpec
                                               /\ spec[i].kind = "cron_job"
                                               /\ Job(i) \in Refs

\* Which steps a task can be at, given boot and the loop.
TaskInv ==
    /\ Alive => boot = "ready"
    /\ boot = "init" => task["boot"] \in {"list", "each", "schedule"}
    /\ boot # "init" => task["boot"] = "off"
    /\ op["boot"] = "none"
    /\ \A h \in Handlers : /\ task[h] \notin {"cancel", "advanced"}
                           /\ ~Alive => task[h] = "off"
    /\ task["scheduler"] \in {"off", "cancel", "schedule", "advanced"}
    /\ task["scheduler"] # "off" => pc \in {"follow", "rec_follow"}
    /\ task["scheduler"] \in {"cancel", "schedule"} => hand["scheduler"] = Job(cur)

\* What a task holds at each step.
HoldInv ==
    \A t \in Tasks :
        /\ hand[t] \in Refs <=> task[t] \in {"cancel", "schedule"}
        /\ task[t] \notin {"each", "schedule"} \/ t = "scheduler" => todoOn[t] = {} /\ todoOff[t] = {}
        /\ todoOn[t] \cap todoOff[t] = {}
        /\ hand[t] \notin todoOn[t] \cup todoOff[t]
        /\ task[t] \in {"read", "replace"} => target[t] \in Refs
        /\ task[t] = "read" => readRow[t] \in JobRow

\* A job with a row, or in somebody's hands, was created, and its schedule is
\* the one cron_run read.
FiresCreated == \A i \in FireIds : status[i] # "unused" => jobs[Job(i)].state # "unused"

HeldCreated(t) == /\ hand[t] \in Refs => jobs[hand[t]].state # "unused"
                  /\ \A j \in todoOn[t] \cup todoOff[t] : jobs[j].state # "unused"

ReadCreated(t) == task[t] = "read" => /\ readRow[t].state = "live"
                                      /\ readRow[t].schedule = jobs[target[t]].schedule
                                      /\ jobs[target[t]].state # "unused"

JobsInv == FiresCreated /\ \A t \in Tasks : HeldCreated(t) /\ ReadCreated(t)

\* A deleted job that no task can bring back or cancel the fires of.
Gone(j) ==
    /\ jobs[j].state = "deleted"
    /\ \A t \in Tasks : /\ task[t] = "read" => target[t] # j
                        /\ j \notin todoOff[t]

\* What recovery finds in flight belongs to deleted jobs: the reconcile at
\* start-up cancelled the claimed rows of all others.
RecoverInv ==
    /\ boot = "init" /\ task["boot"] \in {"each", "schedule"} =>
            \A i \in FireIds : status[i] = "firing" /\ Live(Job(i)) =>
                Job(i) \in todoOn["boot"] \cup todoOff["boot"]
    /\ boot = "ready" /\ pc = "down" =>
            \A i \in FireIds : status[i] = "firing" => ~Live(Job(i))
    /\ pc = "listing" => \A i \in FireIds : status[i] = "firing" => Gone(Job(i))
    /\ \A i \in toRecover : Gone(Job(i))

\* The fires of j that may still be announced for the first time.
Unheard(j) ==
    {i \in FireIds : /\ status[i] # "unused" /\ Job(i) = j
                     /\ firedAt[i] = {}
                     /\ Unfired(i) \/ i \in toRecover \/ (pc = "publish" /\ i = cur)}

\* The tasks that may still schedule j.
Schedulers(j) == {t \in Tasks : j \in todoOn[t] \/ hand[t] = j}

\* A disabled job's late fires are bounded with those that may still come.
Late(j) ==
    /\ lateFires[j] >= -1
    /\ jobs[j].state = "unused" => lateFires[j] = -1
    /\ lateFires[j] >= 0 =>
          /\ ~jobs[j].enabled
          /\ IsFiniteSet(Unheard(j))
          /\ lateFires[j] + Cardinality(Unheard(j)) + Cardinality(Schedulers(j))
                <= Cardinality(Handlers)

LateInv == \A j \in Refs : Late(j)

On(j) == Live(j) /\ jobs[j].enabled

\* An untouched job that has a fire, or is to get one, is live and enabled.
UntouchedInv ==
    /\ \A j \in Refs : jobs[j].state = "deleted" => j \in touched
    /\ \A i \in FireIds : status[i] # "unused" /\ Job(i) \notin touched => On(Job(i))
    /\ \A t \in Tasks : \A j \in todoOn[t] \cup {hand[t]} : j \in Refs \ touched => On(j)

\* The pending fires of j are cancelled before another one is announced: by
\* advance, or by the reconcile of the next start.
Excused(j) ==
    \/ pc = "mark" /\ Job(cur) = j
    \/ pc = "follow" /\ Job(cur) = j /\ task["scheduler"] \in {"off", "cancel"}
    \/ /\ pc = "down"
       /\ \/ boot \in {"off", "failed"}
          \/ boot = "init" /\ (task["boot"] = "list" \/ j \in todoOn["boot"])

\* A fire that the loop may announce.
Coming(k) == status[k] = "pending" \/ (pc = "publish" /\ k = cur)

Repeating(j) == j \notin touched /\ jobs[j].schedule.type = "every"

\* A fire to come is a period away from each announcement of its job.
SpaceInv ==
    /\ \A i \in FireIds : \A t \in firedAt[i] : t <= passNow
    /\ errors = 0 =>
        \A i, k \in FireIds : \A t \in firedAt[i] :
            (Coming(k) /\ i # k /\ Job(i) = Job(k) /\ Repeating(Job(k)))
                => \/ spec[k].fire_at >= t + jobs[Job(k)].schedule.arg
                   \/ Excused(Job(k))
-----------------------------------------------------------------------------
(***************************************************************************)
(* What a step of the running application is to the scheduler's own state: *)
(* a step of the scheduler, a cancel or an insert of the bridge, the end   *)
(* of advance, a crash before the loop runs, or nothing but an error.      *)
(***************************************************************************)

\* The steps of the loop that may call the bridge next, or not at all.
LoopTakes == Recovery \/ ProcessDue \/ RecoverMarkFails \/ DbError

\* The scheduler's steps the application takes; its producers' are not.
SchedulerSteps == LoopTakes \/ Start \/ Tick \/ Crash \/ UNCHANGED vars

\* A cancel by the bridge.
BridgeCancels == /\ \E j \in Refs : CancelJob(j)
                 /\ UNCHANGED <<pc, cur>>
                 /\ LoopUntouched

\* The insert of the fire of a job.
BridgeInserts == /\ \E j \in Refs, i \in FireIds, t \in FireTimes : Insert(i, CronFire(j, t))
                 /\ UNCHANGED <<now, pc, cur, loopVars, passNow, shutdown, histVars,
                                faultVars>>

\* The end of advance.
AdvanceEnds == /\ pc \in {"follow", "rec_follow"}
               /\ pc' = IF pc = "follow" THEN "pass" ELSE "recovering"
               /\ cur' = None
               /\ UNCHANGED <<tableVars, now, loopVars, passNow, shutdown, histVars,
                              faultVars>>

\* A fault the loop does not see.
FaultBeside == /\ errors' \in 0..MaxErrors /\ crashes' \in 0..MaxCrashes
               /\ UNCHANGED <<tableVars, now, pc, cur, loopVars, passNow, shutdown,
                              histVars>>

\* The types of the bridge's own variables.
BridgeTypes ==
    /\ jobs \in [Refs -> JobRow]
    /\ boot \in {"off", "init", "ready", "failed"}
    /\ task \in [Tasks -> {"off", "read", "replace", "list", "each", "cancel",
                           "schedule", "wake", "advanced"}]
    /\ op \in [Tasks -> {"none", "enable", "disable", "run", "delete", "create", "update"}]
    /\ target \in [Tasks -> Refs \cup {None}]
    /\ replacement \in [Tasks -> Refs \cup {None}]
    /\ readRow \in [Tasks -> JobRow \cup {None}]
    /\ todoOn \in [Tasks -> SUBSET Refs]
    /\ todoOff \in [Tasks -> SUBSET Refs]
    /\ hand \in [Tasks -> Refs \cup {None}]
    /\ edits \in 0..MaxEdits
    /\ lateFires \in [Refs -> Int]
    /\ touched \subseteq Refs

LoopSafe == Typed /\ ClaimInv /\ DueInv /\ RowsInv

BridgeSafe == BridgeTypes /\ TaskInv /\ HoldInv

\* Every step of the application is one of these for the scheduler.
LEMMA LoopView ==
    ASSUME LoopSafe, BridgeSafe, [CronNext]_allVars
    PROVE  \/ SchedulerSteps
           \/ BridgeCancels
           \/ BridgeInserts /\ \E t \in Tasks, i \in FireIds : EnsureSchedule(t, i)
           \/ AdvanceEnds
           \/ FaultBeside
<1> USE DEF LoopSafe, BridgeSafe, Typed, TypeOK, BridgeTypes, TaskInv, HoldInv, Tasks
<1>a. errors \in 0..MaxErrors /\ crashes \in 0..MaxCrashes /\ MaxErrors \in Nat /\ MaxCrashes \in Nat
    BY SchedulerAssumption
<1>1. CASE LoopAlone
    BY <1>1 DEF LoopAlone, SchedulerSteps, LoopTakes
<1>2. ASSUME NEW t \in Tasks, Bridge(t)
      PROVE  \/ vars' = vars
             \/ BridgeCancels
             \/ BridgeInserts /\ \E i \in FireIds : EnsureSchedule(t, i)
  <2>1. CASE ReconcileList(t)
      BY <2>1 DEF ReconcileList
  <2>2. ASSUME NEW j \in Refs, ReconcileDisabled(t, j) PROVE BridgeCancels
      BY <2>2 DEF ReconcileDisabled, BridgeCancels
  <2>3. ASSUME NEW j \in Refs, ReconcileEnabled(t, j) PROVE BridgeCancels
      BY <2>3 DEF ReconcileEnabled, BridgeCancels
  <2>4. ASSUME NEW i \in FireIds, EnsureSchedule(t, i) PROVE BridgeInserts
      BY <2>4 DEF EnsureSchedule, BridgeInserts
  <2>5. CASE EnsureFails(t)
      BY <2>5 DEF EnsureFails
  <2>6. CASE ReconcileDone(t)
      BY <2>6 DEF ReconcileDone
  <2> QED BY <1>2, <2>1, <2>2, <2>3, <2>4, <2>5, <2>6 DEF Bridge
<1>3. CASE AdvanceCall
  <2>1. CASE Advance
      BY <2>1 DEF Advance, SchedulerSteps
  <2>2. CASE AdvanceCancel
      BY <2>2 DEF AdvanceCancel, BridgeCancels
  <2>3. CASE AdvanceDone
      BY <2>3 DEF AdvanceDone, AdvanceEnds
  <2> QED BY <1>3, <2>1, <2>2, <2>3 DEF AdvanceCall
<1>4. ASSUME NEW h \in Handlers, Handler(h) PROVE vars' = vars
    BY <1>4 DEF Handler, CronRunWrite, CronRunWake, CronUpdateInsert, CronUpdateDelete
<1>5. CASE StartLoop
    BY <1>5 DEF StartLoop, SchedulerSteps
<1>6. ASSUME NEW h \in Handlers, Request(h) PROVE vars' = vars
    BY <1>6 DEF Request, Begins, CronEnable, CronCreate, CronDelete, CronRead
<1>7. CASE Launch
    BY <1>7 DEF Launch, SchedulerSteps
<1>8. CASE ProcessCrash
  <2>1. CASE Alive
      BY <1>8, <2>1 DEF ProcessCrash, SchedulerSteps
  <2>2. CASE ~Alive
      BY <1>8, <2>2, <1>a DEF ProcessCrash, FaultBeside
  <2> QED BY <2>1, <2>2
<1>9. CASE LoopFault
    BY <1>9 DEF LoopFault, SchedulerSteps, LoopTakes
<1>10. ASSUME NEW t \in Tasks, BridgeDbError(t) PROVE FaultBeside
    BY <1>10, <1>a DEF BridgeDbError, FaultBeside
<1>11. CASE Clock
    BY <1>11 DEF Clock, SchedulerSteps
<1>12. CASE UNCHANGED allVars
    BY <1>12 DEF allVars, SchedulerSteps
<1> QED BY <1>1, <1>2, <1>3, <1>4, <1>5, <1>6, <1>7, <1>8, <1>9, <1>10, <1>11, <1>12
        DEF CronNext, Program, SchedulerSteps

\* The fire the bridge builds is one the table takes.
LEMMA CronFireType ==
    ASSUME NEW j \in Refs, NEW t \in FireTimes
    PROVE  /\ CronFire(j, t) \in FireSpec
           /\ CronFire(j, t).kind = "cron_job"
           /\ CronFire(j, t).ref_id = j
           /\ CronFire(j, t).fire_at = t
BY CronAssumption DEF CronFire, FireSpec

\* A cancel of the bridge keeps what the scheduler's proofs rest on.
LEMMA CancelKeeps == LoopSafe /\ BridgeCancels => LoopSafe'
<1> SUFFICES ASSUME LoopSafe, BridgeCancels PROVE LoopSafe'
    OBVIOUS
<1> USE DEF LoopSafe, BridgeCancels, CancelJob, CancelByKindRef, DeleteUnfired, Withdraw,
            LoopUntouched, Unfired
<1>1. Typed'
    BY NoneAssumption DEF Typed, HoldingPCs, TypeOK, TableTypeOK, Status, PCs, loopVars, faultVars
<1>2. ClaimInv'
    BY NoneAssumption DEF Typed, HoldingPCs, TypeOK, TableTypeOK, Status, PCs, ClaimInv,
       AtMostOncePerBoot, loopVars
<1>3. DueInv'
    BY NoneAssumption DEF Typed, HoldingPCs, TypeOK, TableTypeOK, Status, PCs, DueInv, InLoop,
       NeverEarly, loopVars
<1>4. RowsInv'
    BY DEF RowsInv, Job, Typed, TypeOK, TableTypeOK
<1> QED BY <1>1, <1>2, <1>3, <1>4

\* An insert of the bridge keeps it.
LEMMA InsertKeeps == LoopSafe /\ BridgeInserts => LoopSafe'
<1> SUFFICES ASSUME LoopSafe, BridgeInserts PROVE LoopSafe'
    OBVIOUS
<1>0. PICK j \in Refs, i \in FireIds, t \in FireTimes : Insert(i, CronFire(j, t))
    BY DEF BridgeInserts
<1> DEFINE f == CronFire(j, t)
<1>f. f \in FireSpec /\ f.kind = "cron_job" /\ f.ref_id = j /\ Insert(i, f)
    BY <1>0, CronFireType
<1> HIDE DEF f
<1> USE <1>f DEF LoopSafe, BridgeInserts, Insert
<1>1. Typed'
    BY NoneAssumption DEF Typed, HoldingPCs, TypeOK, TableTypeOK, Status, PCs, loopVars, faultVars,
       histVars
<1>2. ClaimInv'
    BY NoneAssumption DEF Typed, HoldingPCs, TypeOK, TableTypeOK, Status, PCs, ClaimInv,
       AtMostOncePerBoot, loopVars, histVars
<1>3. DueInv'
    BY NoneAssumption DEF Typed, HoldingPCs, TypeOK, TableTypeOK, Status, PCs, DueInv, InLoop,
       NeverEarly, loopVars, histVars
<1>4. RowsInv'
    BY DEF RowsInv, Job, Typed, TypeOK, TableTypeOK
<1> QED BY <1>1, <1>2, <1>3, <1>4

\* The end of advance keeps it.
LEMMA AdvanceKeeps == LoopSafe /\ AdvanceEnds => LoopSafe'
<1> SUFFICES ASSUME LoopSafe, AdvanceEnds PROVE LoopSafe'
    OBVIOUS
<1> USE DEF LoopSafe, AdvanceEnds, tableVars, loopVars, histVars, faultVars
<1>1. Typed'
    BY NoneAssumption DEF Typed, HoldingPCs, TypeOK, TableTypeOK, PCs
<1>2. ClaimInv'
    BY NoneAssumption DEF Typed, HoldingPCs, TypeOK, TableTypeOK, PCs, ClaimInv, AtMostOncePerBoot
<1>3. DueInv'
    BY NoneAssumption DEF Typed, HoldingPCs, TypeOK, TableTypeOK, DueInv, InLoop, NeverEarly
<1>4. RowsInv'
    BY DEF RowsInv, Job
<1> QED BY <1>1, <1>2, <1>3, <1>4

\* So does a fault beside the loop.
LEMMA FaultKeeps == LoopSafe /\ FaultBeside => LoopSafe'
<1> SUFFICES ASSUME LoopSafe, FaultBeside PROVE LoopSafe'
    OBVIOUS
<1> USE DEF LoopSafe, FaultBeside, tableVars, loopVars, histVars, faultVars
<1>1. Typed'
    BY DEF Typed, HoldingPCs, TypeOK, TableTypeOK
<1>2. ClaimInv'
    BY DEF HoldingPCs, ClaimInv, AtMostOncePerBoot
<1>3. DueInv'
    BY DEF DueInv, InLoop, NeverEarly
<1>4. RowsInv'
    BY DEF RowsInv, Job
<1> QED BY <1>1, <1>2, <1>3, <1>4

\* The loop announces i, in a pass or in recovery.
Announces(i) ==
    /\ firedAt' = [firedAt EXCEPT ![i] = @ \cup {passNow}]
    /\ status' = status /\ passNow' = passNow
    /\ \/ pc = "publish" /\ i = cur /\ toRecover' = toRecover
       \/ pc = "recovering" /\ i \in toRecover /\ toRecover' = toRecover \ {i}

\* What a step of the loop does to the rows, its place and the announcements.
LoopEffect ==
    /\ spec' = spec /\ now' = now
    /\ \A i \in FireIds :
        /\ status'[i] = "unused" <=> status[i] = "unused"
        /\ status'[i] = "pending" => status[i] = "pending"
        /\ status'[i] = "firing" => status[i] = "firing" \/ (status[i] = "pending" /\ pc = "pass")
    /\ toRecover' \subseteq toRecover \cup {i \in FireIds : pc = "listing" /\ status[i] = "firing"}
    /\ pc \notin {"down", "follow", "rec_follow"}
    /\ pc' \notin {"down", "listing", "rec_follow"} \/ (pc = "rec_mark" /\ pc' = "rec_follow")
    /\ pc' = "publish" => /\ pc = "pass"
                          /\ cur' \in FireIds /\ status[cur'] = "pending"
    /\ pc = "publish" => pc' = "mark"
    /\ pc' = "mark" => pc = "publish" /\ cur' = cur
    /\ pc = "mark" => \/ pc' = "follow" /\ cur' = cur
                      \/ pc' = "exited" /\ errors' > 0
    /\ passNow <= passNow'
    /\ errors' = 0 => errors = 0
    /\ \/ firedAt' = firedAt /\ pc # "publish"
       \/ \E i \in FireIds : Announces(i)

\* Each step of the loop has this effect.
LEMMA LoopDoes == LoopSafe /\ LoopTakes => LoopEffect
<1> SUFFICES ASSUME LoopSafe, LoopTakes PROVE LoopEffect
    OBVIOUS
<1>a. passNow \in Nat /\ now \in Nat /\ passNow <= now /\ errors \in Nat
    BY SchedulerAssumption DEF LoopSafe, Typed, TypeOK, DueInv
<1> USE <1>a, NoneAssumption
    DEF LoopSafe, Typed, HoldingPCs, TypeOK, TableTypeOK, Status, PCs, LoopEffect, tableVars,
        loopVars, histVars, faultVars
<1>1. CASE Recovery
  <2>1. CASE RecoverList
      BY <2>1 DEF RecoverList, ListInFlight
  <2>2. ASSUME NEW i \in FireIds, RecoverPublish(i) PROVE LoopEffect
    <3>1. Announces(i)
        BY <2>2 DEF RecoverPublish, PublishAlarmFired, Announces
    <3>2. /\ spec' = spec /\ now' = now /\ pc = "recovering" /\ pc' = "rec_mark"
          /\ errors' = errors /\ status' = status /\ passNow' = passNow
          /\ toRecover' \subseteq toRecover
        BY <2>2 DEF RecoverPublish
    <3> QED BY <3>1, <3>2
  <2>3. CASE RecoverMark
      BY <2>3 DEF RecoverMark, MarkFired, ClaimInv
  <2>4. CASE RecoverDone
      BY <2>4 DEF RecoverDone
  <2> QED BY <1>1, <2>1, <2>2, <2>3, <2>4 DEF Recovery
<1>2. CASE ProcessDue
  <2>1. CASE BeginPass
      BY <2>1 DEF BeginPass
  <2>2. ASSUME NEW i \in FireIds, FireClaim(i) PROVE LoopEffect
      BY <2>2 DEF FireClaim, Claim, BeginFiringMatches, BeginFiring
  <2>3. ASSUME NEW i \in FireIds, SkipClaim(i) PROVE LoopEffect
      BY <2>3 DEF SkipClaim, Claim, BeginFiringMatches, BeginFiring
  <2>4. ASSUME NEW i \in FireIds, CoalesceBegin(i) PROVE LoopEffect
      BY <2>4 DEF CoalesceBegin
  <2>5. ASSUME NEW i \in FireIds, LoserClaim(i) PROVE LoopEffect
      BY <2>5 DEF LoserClaim, Claim, BeginFiringMatches, BeginFiring
  <2>6. CASE DispatchPublish
    <3>1. Announces(cur)
        BY <2>6 DEF DispatchPublish, PublishAlarmFired, Announces
    <3>2. /\ spec' = spec /\ now' = now /\ pc = "publish" /\ pc' = "mark" /\ cur' = cur
          /\ errors' = errors /\ status' = status /\ passNow' = passNow
          /\ toRecover' = toRecover
        BY <2>6 DEF DispatchPublish
    <3>3. cur \in FireIds
        BY <3>2
    <3> QED BY <3>1, <3>2, <3>3
  <2>7. CASE DispatchMark
      BY <2>7 DEF DispatchMark, MarkFired, ClaimInv
  <2>8. CASE SkipMark
      BY <2>8 DEF SkipMark, MarkFired, ClaimInv
  <2>9. CASE LoserSuppress
      BY <2>9 DEF LoserSuppress, MarkSuppressed, Unfired, ClaimInv
  <2>10. CASE WinnerClaim
      BY <2>10 DEF WinnerClaim, Claim, BeginFiringMatches, BeginFiring
  <2>11. CASE EndPass
      BY <2>11 DEF EndPass
  <2> QED BY <1>2, <2>1, <2>2, <2>3, <2>4, <2>5, <2>6, <2>7, <2>8, <2>9, <2>10, <2>11
          DEF ProcessDue
<1>3. CASE RecoverMarkFails
    BY <1>3 DEF RecoverMarkFails
<1>4. CASE DbError
    BY <1>4 DEF DbError, Abandon
<1> QED BY <1>1, <1>2, <1>3, <1>4 DEF LoopTakes

\* The scheduler's own steps keep what its proofs rest on, and the rows.
LEMMA SchedulerKeeps == LoopSafe /\ SchedulerSteps => LoopSafe'
<1> SUFFICES ASSUME LoopSafe, SchedulerSteps PROVE LoopSafe'
    OBVIOUS
<1>1. [Next]_vars
    BY DEF SchedulerSteps, LoopTakes, Next, Loop, Faults, Environment
<1>2. Typed' /\ ClaimInv' /\ DueInv'
    BY <1>1, TypeStep, ClaimStep, DueStep DEF LoopSafe
<1>3. RowsInv'
  <2>1. CASE LoopTakes
    <3>1. LoopEffect
        BY <2>1, LoopDoes
    <3> QED BY <3>1 DEF LoopEffect, LoopSafe, RowsInv, Job
  <2>2. CASE Start \/ Tick \/ Crash \/ UNCHANGED vars
      BY <2>2 DEF Start, Tick, Crash, vars, tableVars, LoopSafe, RowsInv, Job
  <2> QED BY <2>1, <2>2 DEF SchedulerSteps
<1> QED BY <1>2, <1>3 DEF LoopSafe

\* What the scheduler's proofs rest on survives the bridge, the handlers and
\* the start of the application.
LEMMA LoopStaysSafe == LoopSafe /\ BridgeSafe /\ [CronNext]_allVars => LoopSafe'
BY LoopView, SchedulerKeeps, CancelKeeps, InsertKeeps, AdvanceKeeps, FaultKeeps
-----------------------------------------------------------------------------
(***************************************************************************)
(* The tasks.  What follows about jobs and fires rests on where each task  *)
(* can be: handlers only next to a live process, advance only while the    *)
(* loop waits for it, start-up only before the loop.                       *)
(***************************************************************************)

\* A step that leaves the bridge alone and keeps the loop's place.
LEMMA BridgeStill ==
    ASSUME BridgeSafe, UNCHANGED cronVars,
           lateFires' \in [Refs -> Int], touched' \subseteq Refs,
           Alive' <=> Alive,
           task["scheduler"] # "off" => pc' = pc /\ cur' = cur /\ Job(cur)' = Job(cur)
    PROVE  BridgeSafe'
BY DEF BridgeSafe, BridgeTypes, TaskInv, HoldInv, cronVars, bridgeVars, Tasks

\* A job's row stays one when it is enabled, disabled or deleted.
LEMMA RowEdit ==
    ASSUME NEW r \in JobRow
    PROVE  /\ \A on \in BOOLEAN : [r EXCEPT !.enabled = on] \in JobRow
           /\ [r EXCEPT !.state = "deleted"] \in JobRow
BY DEF JobRow

\* Every step keeps the types and the places of the tasks.
LEMMA BridgeStep == LoopSafe /\ BridgeSafe /\ [CronNext]_allVars => BridgeSafe'
<1> SUFFICES ASSUME LoopSafe, BridgeSafe, [CronNext]_allVars PROVE BridgeSafe'
    OBVIOUS
<1>a. /\ cur \in FireIds => status[cur] # "unused" /\ Job(cur) \in Refs
      /\ pc \in {"follow", "rec_follow"} => cur \in FireIds
    BY NoneAssumption DEF LoopSafe, Typed, TypeOK, ClaimInv, HoldingPCs, RowsInv, Status
<1>b. /\ "boot" \in Tasks /\ "scheduler" \in Tasks /\ Handlers \subseteq Tasks
      /\ "boot" \notin Handlers /\ "scheduler" \notin Handlers
    BY CronAssumption DEF Tasks
<1>c. None \notin Refs /\ None \notin FireIds
    BY NoneAssumption
<1>d. CASE LoopAlone \/ LoopFault
  <2>1. LoopTakes /\ UNCHANGED cronVars
      BY <1>d DEF LoopAlone, LoopFault, LoopTakes
  <2>2. LoopEffect
      BY <2>1, LoopDoes
  <2>3. lateFires' \in [Refs -> Int] /\ touched' \subseteq Refs
      BY <1>d DEF LoopAlone, LoopFault, cronHist, BridgeSafe, BridgeTypes
  <2>4. task["scheduler"] = "off" /\ (Alive' <=> Alive)
      BY <2>2 DEF LoopEffect, BridgeSafe, TaskInv, Alive
  <2> QED BY <2>1, <2>3, <2>4, BridgeStill
<1>e. CASE Clock \/ UNCHANGED allVars
  <2>1. UNCHANGED cronVars /\ UNCHANGED cronHist /\ pc' = pc /\ cur' = cur /\ Job(cur)' = Job(cur)
      BY <1>e DEF Clock, Tick, allVars, vars, tableVars, Job
  <2> QED BY <2>1, BridgeStill DEF cronHist, BridgeSafe, BridgeTypes, Alive
<1>f. CASE StartLoop
    BY <1>f DEF StartLoop, Start, cronVars, bridgeVars, cronHist, BridgeSafe, BridgeTypes,
       TaskInv, HoldInv, Tasks, Alive
<1>g. CASE ProcessCrash
  <2>1. pc' = "down"
      BY <1>g DEF ProcessCrash, Crash, Alive
  <2>2. BridgeTypes'
      BY <1>g DEF ProcessCrash, DropTasks, cronHist, BridgeSafe, BridgeTypes
  <2>3. TaskInv'
      BY <2>1, <1>b, <1>g DEF ProcessCrash, DropTasks, TaskInv, Alive
  <2>4. HoldInv'
      BY <1>b, <1>c, <1>g DEF ProcessCrash, DropTasks, HoldInv
  <2> QED BY <2>2, <2>3, <2>4 DEF BridgeSafe
<1>h. CASE Launch
  <2>1. pc' = pc /\ cur' = cur /\ Job(cur)' = Job(cur)
      BY <1>h DEF Launch, vars, tableVars, Job
  <2>2. BridgeTypes'
      BY <1>h, <1>b DEF Launch, cronHist, BridgeSafe, BridgeTypes
  <2>3. TaskInv'
      BY <2>1, <1>b, <1>h DEF Launch, BridgeSafe, BridgeTypes, TaskInv, Alive
  <2>4. HoldInv'
      BY <1>b, <1>h DEF Launch, BridgeSafe, BridgeTypes, TaskInv, HoldInv
  <2> QED BY <2>2, <2>3, <2>4 DEF BridgeSafe
<1>i. CASE AdvanceCall
  <2> USE <1>a, <1>b, <1>c
  <2>1. CASE Advance
    <3>1. pc' = pc /\ cur' = cur /\ Job(cur)' = Job(cur)
        BY <2>1 DEF Advance, vars, tableVars, Job
    <3>2. BridgeTypes'
        BY <2>1 DEF Advance, cronHist, BridgeSafe, BridgeTypes, Job
    <3>3. TaskInv'
        BY <2>1, <3>1 DEF Advance, BridgeSafe, BridgeTypes, TaskInv, Alive, Job
    <3>4. HoldInv'
        BY <2>1 DEF Advance, BridgeSafe, BridgeTypes, HoldInv, Job
    <3> QED BY <3>2, <3>3, <3>4 DEF BridgeSafe
  <2>2. CASE AdvanceCancel
    <3>1. pc' = pc /\ cur' = cur /\ Job(cur)' = Job(cur)
        BY <2>2 DEF AdvanceCancel, CancelJob, CancelByKindRef, DeleteUnfired, Job
    <3>2. BridgeTypes'
        BY <2>2 DEF AdvanceCancel, cronHist, BridgeSafe, BridgeTypes
    <3>3. TaskInv'
        BY <2>2, <3>1 DEF AdvanceCancel, BridgeSafe, BridgeTypes, TaskInv, Alive
    <3>4. HoldInv'
        BY <2>2 DEF AdvanceCancel, BridgeSafe, BridgeTypes, HoldInv
    <3> QED BY <3>2, <3>3, <3>4 DEF BridgeSafe
  <2>3. CASE AdvanceDone
    <3>1. Alive' /\ Alive
        BY <2>3 DEF AdvanceDone, Alive, BridgeSafe, TaskInv
    <3>2. BridgeTypes'
        BY <2>3 DEF AdvanceDone, cronHist, BridgeSafe, BridgeTypes
    <3>3. TaskInv'
        BY <2>3, <3>1 DEF AdvanceDone, BridgeSafe, BridgeTypes, TaskInv
    <3>4. HoldInv'
        BY <2>3 DEF AdvanceDone, BridgeSafe, BridgeTypes, HoldInv
    <3> QED BY <3>2, <3>3, <3>4 DEF BridgeSafe
  <2> QED BY <1>i, <2>1, <2>2, <2>3 DEF AdvanceCall
<1>j. ASSUME NEW t \in Tasks, Bridge(t) PROVE BridgeSafe'
  <2> USE <1>b, <1>c
  <2>1. CASE ReconcileList(t)
    <3>1. pc' = pc /\ cur' = cur /\ Job(cur)' = Job(cur)
        BY <2>1 DEF ReconcileList, vars, tableVars, Job
    <3>2. BridgeTypes'
        BY <2>1 DEF ReconcileList, cronHist, BridgeSafe, BridgeTypes
    <3>3. TaskInv'
        BY <2>1, <3>1 DEF ReconcileList, BridgeSafe, BridgeTypes, TaskInv, Alive, Tasks
    <3>4. HoldInv'
        BY <2>1 DEF ReconcileList, BridgeSafe, BridgeTypes, TaskInv, HoldInv
    <3> QED BY <3>2, <3>3, <3>4 DEF BridgeSafe
  <2>2. ASSUME NEW j \in Refs, ReconcileDisabled(t, j) PROVE BridgeSafe'
    <3>1. pc' = pc /\ cur' = cur /\ Job(cur)' = Job(cur)
        BY <2>2 DEF ReconcileDisabled, CancelJob, CancelByKindRef, DeleteUnfired, Job
    <3>2. BridgeTypes'
        BY <2>2 DEF ReconcileDisabled, BridgeSafe, BridgeTypes
    <3>3. TaskInv'
        BY <2>2, <3>1 DEF ReconcileDisabled, BridgeSafe, BridgeTypes, TaskInv, Alive
    <3>4. HoldInv'
        BY <2>2 DEF ReconcileDisabled, BridgeSafe, BridgeTypes, HoldInv
    <3> QED BY <3>2, <3>3, <3>4 DEF BridgeSafe
  <2>3. ASSUME NEW j \in Refs, ReconcileEnabled(t, j) PROVE BridgeSafe'
    <3>1. pc' = pc /\ cur' = cur /\ Job(cur)' = Job(cur)
        BY <2>3 DEF ReconcileEnabled, CancelJob, CancelByKindRef, DeleteUnfired, Job
    <3>2. BridgeTypes'
        BY <2>3 DEF ReconcileEnabled, cronHist, BridgeSafe, BridgeTypes
    <3>3. TaskInv'
        BY <2>3, <3>1 DEF ReconcileEnabled, BridgeSafe, BridgeTypes, TaskInv, Alive, Tasks
    <3>4. HoldInv'
        BY <2>3 DEF ReconcileEnabled, BridgeSafe, BridgeTypes, TaskInv, HoldInv
    <3> QED BY <3>2, <3>3, <3>4 DEF BridgeSafe
  <2>4. ASSUME NEW i \in FireIds, EnsureSchedule(t, i) PROVE BridgeSafe'
    <3>1. pc' = pc /\ cur' = cur /\ (cur \in FireIds => Job(cur)' = Job(cur))
        BY <2>4, <1>a DEF EnsureSchedule, Insert, Job, LoopSafe, Typed, TypeOK, TableTypeOK
    <3>2. BridgeTypes'
        BY <2>4 DEF EnsureSchedule, cronHist, BridgeSafe, BridgeTypes
    <3>3. TaskInv'
        BY <2>4, <3>1, <1>a DEF EnsureSchedule, BridgeSafe, BridgeTypes, TaskInv, Alive, Tasks
    <3>4. HoldInv'
        BY <2>4 DEF EnsureSchedule, BridgeSafe, BridgeTypes, TaskInv, HoldInv
    <3> QED BY <3>2, <3>3, <3>4 DEF BridgeSafe
  <2>5. CASE EnsureFails(t)
    <3>1. pc' = pc /\ cur' = cur /\ Job(cur)' = Job(cur)
        BY <2>5 DEF EnsureFails, vars, tableVars, Job
    <3>2. BridgeTypes'
        BY <2>5 DEF EnsureFails, CallFails, cronHist, BridgeSafe, BridgeTypes
    <3>3. TaskInv'
        BY <2>5, <3>1 DEF EnsureFails, CallFails, BridgeSafe, BridgeTypes, TaskInv, Alive, Tasks
    <3>4. HoldInv'
        BY <2>5 DEF EnsureFails, CallFails, BridgeSafe, BridgeTypes, HoldInv
    <3> QED BY <3>2, <3>3, <3>4 DEF BridgeSafe
  <2>6. CASE ReconcileDone(t)
    <3>1. pc' = pc /\ cur' = cur /\ Job(cur)' = Job(cur)
        BY <2>6 DEF ReconcileDone, vars, tableVars, Job
    <3>2. BridgeTypes'
        BY <2>6 DEF ReconcileDone, CallReturns, cronHist, BridgeSafe, BridgeTypes
    <3>3. TaskInv'
        BY <2>6, <3>1 DEF ReconcileDone, CallReturns, BridgeSafe, BridgeTypes, TaskInv, Alive, Tasks
    <3>4. HoldInv'
        BY <2>6 DEF ReconcileDone, CallReturns, BridgeSafe, BridgeTypes, HoldInv
    <3> QED BY <3>2, <3>3, <3>4 DEF BridgeSafe
  <2> QED BY <1>j, <2>1, <2>2, <2>3, <2>4, <2>5, <2>6 DEF Bridge
<1>k. ASSUME NEW t \in Tasks, BridgeDbError(t) PROVE BridgeSafe'
  <2> USE <1>b, <1>c
  <2>1. pc' = pc /\ cur' = cur /\ Job(cur)' = Job(cur)
      BY <1>k DEF BridgeDbError, tableVars, Job
  <2>2. BridgeTypes'
      BY <1>k DEF BridgeDbError, CallFails, cronHist, BridgeSafe, BridgeTypes
  <2>3. TaskInv'
      BY <1>k, <2>1 DEF BridgeDbError, CallFails, BridgeSafe, BridgeTypes, TaskInv, Alive, Tasks
  <2>4. HoldInv'
      BY <1>k DEF BridgeDbError, CallFails, BridgeSafe, BridgeTypes, HoldInv
  <2> QED BY <2>2, <2>3, <2>4 DEF BridgeSafe
<1>l. ASSUME NEW h \in Handlers, Handler(h) PROVE BridgeSafe'
  <2> USE <1>b, <1>c
  <2>1. pc' = pc /\ cur' = cur /\ Job(cur)' = Job(cur)
      BY <1>l DEF Handler, CronRunWrite, CronRunWake, CronUpdateInsert, CronUpdateDelete, vars,
         tableVars, Job
  <2>2. CASE CronRunWrite(h)
    <3>1. BridgeTypes'
        BY <2>2 DEF CronRunWrite, Continue, BridgeSafe, BridgeTypes, HoldInv
    <3>2. TaskInv'
        BY <2>2, <2>1 DEF CronRunWrite, Continue, BridgeSafe, BridgeTypes, TaskInv, Alive
    <3>3. HoldInv'
        BY <2>2 DEF CronRunWrite, Continue, BridgeSafe, BridgeTypes, HoldInv
    <3> QED BY <3>1, <3>2, <3>3 DEF BridgeSafe
  <2>3. CASE CronRunWake(h)
    <3>1. BridgeTypes'
        BY <2>3 DEF CronRunWake, CallReturns, Continue, cronHist, BridgeSafe, BridgeTypes
    <3>2. TaskInv'
        BY <2>3, <2>1 DEF CronRunWake, CallReturns, Continue, BridgeSafe, BridgeTypes, TaskInv, Alive
    <3>3. HoldInv'
        BY <2>3 DEF CronRunWake, CallReturns, Continue, BridgeSafe, BridgeTypes, HoldInv
    <3> QED BY <3>1, <3>2, <3>3 DEF BridgeSafe
  <2>4. ASSUME NEW k \in Refs, NEW s \in Schedules, CronUpdateInsert(h, k, s) PROVE BridgeSafe'
    <3>1. BridgeTypes'
        BY <2>4 DEF CronUpdateInsert, Continue, cronHist, BridgeSafe, BridgeTypes, HoldInv, JobRow
    <3>2. TaskInv'
        BY <2>4, <2>1 DEF CronUpdateInsert, Continue, BridgeSafe, BridgeTypes, TaskInv, Alive
    <3>3. HoldInv'
        BY <2>4 DEF CronUpdateInsert, Continue, BridgeSafe, BridgeTypes, HoldInv
    <3> QED BY <3>1, <3>2, <3>3 DEF BridgeSafe
  <2>5. CASE CronUpdateDelete(h)
    <3>1. BridgeTypes'
      <4>1. jobs' \in [Refs -> JobRow] /\ touched' \subseteq Refs
          BY <2>5, RowEdit DEF CronUpdateDelete, BridgeSafe, BridgeTypes, HoldInv
      <4> QED BY <2>5, <4>1 DEF CronUpdateDelete, Continue, BridgeSafe, BridgeTypes
    <3>2. TaskInv'
        BY <2>5, <2>1 DEF CronUpdateDelete, Continue, BridgeSafe, BridgeTypes, TaskInv, Alive
    <3>3. HoldInv'
        BY <2>5 DEF CronUpdateDelete, Continue, BridgeSafe, BridgeTypes, HoldInv
    <3> QED BY <3>1, <3>2, <3>3 DEF BridgeSafe
  <2> QED BY <1>l, <2>2, <2>3, <2>4, <2>5 DEF Handler
<1>m. ASSUME NEW h \in Handlers, Request(h) PROVE BridgeSafe'
  <2> USE <1>b, <1>c
  <2>1. pc' = pc /\ cur' = cur /\ Job(cur)' = Job(cur)
      BY <1>m DEF Request, CronEnable, CronCreate, CronDelete, CronRead, Begins, vars, tableVars, Job
  <2>a. edits < MaxEdits /\ edits' = edits + 1 => edits' \in 0..MaxEdits
      BY CronAssumption DEF BridgeSafe, BridgeTypes
  <2>2. PICK j \in Refs :
           \/ \E on \in BOOLEAN : CronEnable(h, j, on)
           \/ \E s \in Schedules : CronCreate(h, j, s)
           \/ CronDelete(h, j)
           \/ \E name \in {"run", "update"} : CronRead(h, name, j)
      BY <1>m DEF Request
  <2>3. ASSUME NEW on \in BOOLEAN, CronEnable(h, j, on) PROVE BridgeSafe'
    <3>1. BridgeTypes'
      <4>1. jobs[j] \in JobRow
          BY DEF BridgeSafe, BridgeTypes
      <4>2. [jobs[j] EXCEPT !.enabled = on] \in JobRow
          BY <4>1, RowEdit
      <4>3. jobs' = [jobs EXCEPT ![j] = [jobs[j] EXCEPT !.enabled = on]]
          BY <2>3 DEF CronEnable, BridgeSafe, BridgeTypes
      <4>4. jobs' \in [Refs -> JobRow]
          BY <4>2, <4>3 DEF BridgeSafe, BridgeTypes
      <4>5. touched' \subseteq Refs /\ lateFires' \in [Refs -> Int]
          BY <2>3 DEF CronEnable, BridgeSafe, BridgeTypes
      <4> QED BY <2>3, <2>a, <4>4, <4>5 DEF CronEnable, Begins, Continue, BridgeSafe, BridgeTypes
    <3>2. TaskInv'
        BY <2>3, <2>1 DEF CronEnable, Begins, Continue, BridgeSafe, BridgeTypes, TaskInv, Alive
    <3>3. HoldInv'
        BY <2>3 DEF CronEnable, Begins, Continue, BridgeSafe, BridgeTypes, HoldInv
    <3> QED BY <3>1, <3>2, <3>3 DEF BridgeSafe
  <2>4. ASSUME NEW s \in Schedules, CronCreate(h, j, s) PROVE BridgeSafe'
    <3>1. BridgeTypes'
        BY <2>4, <2>a DEF CronCreate, Begins, Continue, cronHist, BridgeSafe, BridgeTypes, JobRow
    <3>2. TaskInv'
        BY <2>4, <2>1 DEF CronCreate, Begins, Continue, BridgeSafe, BridgeTypes, TaskInv, Alive
    <3>3. HoldInv'
        BY <2>4 DEF CronCreate, Begins, Continue, BridgeSafe, BridgeTypes, HoldInv
    <3> QED BY <3>1, <3>2, <3>3 DEF BridgeSafe
  <2>5. CASE CronDelete(h, j)
    <3>1. BridgeTypes'
        BY <2>5, <2>a, SMTT(30) DEF CronDelete, Begins, Continue, BridgeSafe, BridgeTypes, JobRow
    <3>2. TaskInv'
        BY <2>5, <2>1 DEF CronDelete, Begins, Continue, BridgeSafe, BridgeTypes, TaskInv, Alive
    <3>3. HoldInv'
        BY <2>5 DEF CronDelete, Begins, Continue, BridgeSafe, BridgeTypes, HoldInv
    <3> QED BY <3>1, <3>2, <3>3 DEF BridgeSafe
  <2>6. ASSUME NEW name \in {"run", "update"}, CronRead(h, name, j) PROVE BridgeSafe'
    <3>1. BridgeTypes'
        BY <2>6, <2>a DEF CronRead, Begins, Continue, cronHist, BridgeSafe, BridgeTypes
    <3>2. TaskInv'
        BY <2>6, <2>1 DEF CronRead, Begins, Continue, BridgeSafe, BridgeTypes, TaskInv, Alive
    <3>3. HoldInv'
        BY <2>6 DEF CronRead, Begins, Continue, BridgeSafe, BridgeTypes, HoldInv
    <3> QED BY <3>1, <3>2, <3>3 DEF BridgeSafe
  <2> QED BY <2>2, <2>3, <2>4, <2>5, <2>6
<1> QED BY <1>d, <1>e, <1>f, <1>g, <1>h, <1>i, <1>j, <1>k, <1>l, <1>m DEF CronNext, Program
\* The initial state is safe.
LEMMA CronInitSafe == CronInit => LoopSafe /\ BridgeSafe
<1> SUFFICES ASSUME CronInit PROVE LoopSafe /\ BridgeSafe
    OBVIOUS
<1> USE DEF CronInit, Init, TableInit, TasksIdle
<1>1. Typed
    BY TypedInit
<1>2. ClaimInv
    BY DEF ClaimInv, AtMostOncePerBoot, HoldingPCs
<1>d. DueInv
    BY NoneAssumption DEF DueInv, InLoop, NeverEarly
<1>r. RowsInv
    BY DEF RowsInv
<1>3. BridgeTypes
  <2>1. [state |-> "unused", enabled |-> FALSE, schedule |-> NoSchedule] \in JobRow
      BY DEF JobRow
  <2>2. jobs \in [Refs -> JobRow]
      BY <2>1
  <2>3. edits \in 0..MaxEdits /\ lateFires \in [Refs -> Int] /\ touched \subseteq Refs
      BY CronAssumption
  <2> QED BY <2>2, <2>3 DEF BridgeTypes
<1>4. TaskInv /\ HoldInv
    BY NoneAssumption, CronAssumption DEF TaskInv, HoldInv, Tasks, Alive
<1> QED BY <1>1, <1>2, <1>d, <1>r, <1>3, <1>4 DEF LoopSafe, BridgeSafe

\* Every reachable state is safe.
LEMMA CronStaysSafe == CronSpec => [](LoopSafe /\ BridgeSafe)
<1>1. (LoopSafe /\ BridgeSafe) /\ [CronNext]_allVars => (LoopSafe /\ BridgeSafe)'
    BY LoopStaysSafe, BridgeStep
<1> QED BY <1>1, CronInitSafe, PTL DEF CronSpec

\* Every variable of the application keeps its type: no task ever holds, at any
\* await, a job or a row that is not one.
THEOREM CronTypeCorrect == CronSpec => []CronTypeOK
<1>1. LoopSafe /\ BridgeSafe => CronTypeOK
    BY DEF LoopSafe, Typed, BridgeSafe, BridgeTypes, CronTypeOK
<1> QED BY <1>1, CronStaysSafe, PTL

\* The bridge's cancels and inserts, at whatever moment, never make the loop
\* announce a fire twice within one boot.
THEOREM CronAnnouncedAtMostOnce == CronSpec => []AtMostOncePerBoot
<1>1. LoopSafe => AtMostOncePerBoot
    BY DEF LoopSafe, ClaimInv
<1> QED BY <1>1, CronStaysSafe, PTL

\* A fire that a reconcile or an advance cancelled before its claim is never
\* announced.
THEOREM CronWithdrawnStaysSilent == CronSpec => []WithdrawnNeverAnnounced
<1>1. LoopSafe => WithdrawnNeverAnnounced
    BY DEF LoopSafe, ClaimInv, WithdrawnNeverAnnounced
<1> QED BY <1>1, CronStaysSafe, PTL

-----------------------------------------------------------------------------
(***************************************************************************)
(* The contract.  The scheduler implements FireContract also with the      *)
(* bridge at work: a reconcile or an advance is to the contract a producer *)
(* that withdraws and accepts fires.                                       *)
(***************************************************************************)

SettleSafe == LoopSafe /\ SettleInv /\ GroupInv

\* The steps of the bridge keep every claim accounted for and every group
\* intact, as the scheduler's own do.
LEMMA BridgeSettles ==
    SettleSafe /\ (BridgeCancels \/ BridgeInserts \/ AdvanceEnds \/ FaultBeside)
        => SettleInv' /\ GroupInv'
<1> SUFFICES ASSUME SettleSafe, BridgeCancels \/ BridgeInserts \/ AdvanceEnds \/ FaultBeside
             PROVE  SettleInv' /\ GroupInv'
    OBVIOUS
<1>a. \A i \in FireIds :
         i \in losers \/ i \in toCoalesce \/ i = winner \/ i = cur => status[i] # "unused"
    BY DEF SettleSafe, LoopSafe, DueInv, InLoop
<1>b. \A i \in FireIds : firedAt[i] # {} => status[i] \in {"firing", "fired", "deleted"}
    BY DEF SettleSafe, LoopSafe, ClaimInv
<1> USE <1>a, <1>b, NoneAssumption
    DEF SettleSafe, LoopSafe, Typed, HoldingPCs, TypeOK, TableTypeOK, Status, PCs, RanksBelow,
        SameGroup
<1>1. CASE BridgeCancels
  <2> USE <1>1 DEF BridgeCancels, CancelJob, CancelByKindRef, DeleteUnfired, Withdraw, Unfired,
                   LoopUntouched, loopVars
  <2>1. SettleInv'
      BY DEF SettleInv
  <2>2. GroupInv'
      BY DEF GroupInv
  <2> QED BY <2>1, <2>2
<1>2. CASE BridgeInserts
  <2>0. PICK j \in Refs, i \in FireIds, t \in FireTimes : Insert(i, CronFire(j, t))
      BY <1>2 DEF BridgeInserts
  <2> DEFINE f == CronFire(j, t)
  <2>f. Insert(i, f)
      BY <2>0
  <2> HIDE DEF f
  <2> USE <1>2, <2>f DEF BridgeInserts, Insert, loopVars, histVars
  <2>1. SettleInv'
      BY DEF SettleInv
  <2>2. GroupInv'
      BY DEF GroupInv
  <2> QED BY <2>1, <2>2
<1>3. CASE AdvanceEnds
  <2>1. SettleInv'
      BY <1>3 DEF AdvanceEnds, SettleInv, tableVars, loopVars, histVars
  <2>2. GroupInv'
      BY <1>3 DEF AdvanceEnds, GroupInv, tableVars, loopVars, histVars
  <2> QED BY <2>1, <2>2
<1>4. CASE FaultBeside
  <2>1. SettleInv'
      BY <1>4 DEF FaultBeside, SettleInv, tableVars, loopVars, histVars
  <2>2. GroupInv'
      BY <1>4 DEF FaultBeside, GroupInv, tableVars, loopVars, histVars
  <2> QED BY <2>1, <2>2
<1> QED BY <1>1, <1>2, <1>3, <1>4

\* The application's steps that are the scheduler's own.
LEMMA SchedulerNext == SchedulerSteps => [Next]_vars
BY DEF SchedulerSteps, LoopTakes, Next, Loop, Faults, Environment

\* Every step keeps every claim accounted for.
LEMMA CronSettles == SettleSafe /\ BridgeSafe /\ [CronNext]_allVars => SettleSafe'
<1> SUFFICES ASSUME SettleSafe, BridgeSafe, [CronNext]_allVars PROVE SettleSafe'
    OBVIOUS
<1>1. LoopSafe'
    BY LoopStaysSafe DEF SettleSafe
<1>2. CASE SchedulerSteps
  <2>1. SettleInv' /\ GroupInv'
      BY <1>2, SchedulerNext, SettleStep, GroupStep DEF SettleSafe, LoopSafe
  <2> QED BY <1>1, <2>1 DEF SettleSafe
<1>3. CASE BridgeCancels \/ BridgeInserts \/ AdvanceEnds \/ FaultBeside
    BY <1>1, <1>3, BridgeSettles DEF SettleSafe
<1> QED BY <1>2, <1>3, LoopView DEF SettleSafe

\* So it does in every reachable state.
LEMMA CronStaysSettled == CronSpec => [](SettleSafe /\ BridgeSafe)
<1>1. CronInit => SettleSafe /\ BridgeSafe
  <2> SUFFICES ASSUME CronInit PROVE SettleInv /\ GroupInv
      BY CronInitSafe DEF SettleSafe
  <2> QED BY NoneAssumption DEF CronInit, Init, TableInit, SettleInv, GroupInv
<1>2. (SettleSafe /\ BridgeSafe) /\ [CronNext]_allVars => (SettleSafe /\ BridgeSafe)'
    BY CronSettles, BridgeStep DEF SettleSafe
<1> QED BY <1>1, <1>2, PTL DEF CronSpec

\* When the loop sleeps, every claim was completed, whatever the bridge
\* cancelled under it.
THEOREM CronNothingInFlightWhileAsleep == CronSpec => []IdleLeavesNothingInFlight
<1>1. SettleSafe => IdleLeavesNothingInFlight
    BY NoneAssumption
       DEF SettleSafe, LoopSafe, Typed, HoldingPCs, ClaimInv, SettleInv,
           IdleLeavesNothingInFlight, ListInFlight
<1> QED BY <1>1, CronStaysSettled, PTL

\* No cron fire becomes fired without a trace.
THEOREM CronFiresAreAccounted == CronSpec => []EveryFireAccounted
<1>1. SettleSafe => EveryFireAccounted
    BY DEF SettleSafe, SettleInv, EveryFireAccounted
<1> QED BY <1>1, CronStaysSettled, PTL

\* What the application does to the scheduler is a step of the contract.
LEMMA CronStepRefines ==
    /\ SettleSafe /\ BridgeSafe
    /\ SettleSafe'
    /\ [CronNext]_allVars
    => ContractStep
<1> SUFFICES ASSUME SettleSafe, BridgeSafe, SettleSafe', [CronNext]_allVars PROVE ContractStep
    OBVIOUS
<1>a. RefInv /\ RefInv'
    BY DEF SettleSafe, LoopSafe, RefInv
<1>1. CASE SchedulerSteps
    BY <1>a, <1>1, SchedulerNext, StepRefines
<1>2. CASE BridgeCancels
  <2>1. PICK j \in Refs : CancelByKindRef("cron_job", j) /\ Withdraw
      BY <1>2 DEF BridgeCancels, CancelJob
  <2>2. UNCHANGED <<firedAt, announced>>
      BY <1>2 DEF BridgeCancels, LoopUntouched
  <2> QED BY <1>a, <2>1, <2>2, CancelWithdraws DEF CancelByKindRef
<1>3. CASE BridgeInserts
  <2>1. PICK j \in Refs, i \in FireIds, t \in FireTimes : Insert(i, CronFire(j, t))
      BY <1>3 DEF BridgeInserts
  <2>2. UNCHANGED <<withdrawn, firedAt, announced>>
      BY <1>3 DEF BridgeInserts, histVars
  <2> QED BY <1>a, <2>1, <2>2, InsertAccepts
<1>4. CASE AdvanceEnds
    BY <1>4, Invisible DEF AdvanceEnds, tableVars, histVars, ContractStep
<1>5. CASE FaultBeside
    BY <1>5, Invisible DEF FaultBeside, tableVars, histVars, ContractStep
<1>6. LoopSafe
    BY DEF SettleSafe
<1> QED BY <1>1, <1>2, <1>3, <1>4, <1>5, <1>6, LoopView

\* The scheduler with its cron jobs, request handlers and start-up implements
\* the contract of the scheduler.
THEOREM CronImplementsContract == CronSpec => ImplementsContract
<1>1. CronInit => Contract!Init
    BY DEF CronInit, Init, TableInit, Contract!Init, Phase
<1>2. /\ SettleSafe /\ BridgeSafe
      /\ SettleSafe'
      /\ [CronNext]_allVars
      => [Contract!Next]_ContractVars
    BY CronStepRefines DEF ContractStep
<1> QED BY <1>1, <1>2, CronStaysSettled, PTL
        DEF CronSpec, ImplementsContract, Contract!Spec, ContractVars, Phases, Heard, HeardNow

-----------------------------------------------------------------------------
(***************************************************************************)
(* Jobs.  Whatever task holds a job, or whatever fire belongs to one, the  *)
(* job was created before; a created job keeps its schedule.               *)
(***************************************************************************)

\* No job is forgotten, and its schedule never changes.
JobsKept == \A j \in Refs : jobs[j].state # "unused" =>
                /\ jobs'[j].state # "unused"
                /\ jobs'[j].schedule = jobs[j].schedule

Safe == LoopSafe /\ BridgeSafe /\ JobsInv

\* A write to the table of jobs replaces no schedule but under a fresh id.
LEMMA JobsGrow == Safe /\ [CronNext]_allVars => JobsKept
<1> SUFFICES ASSUME Safe, [CronNext]_allVars PROVE JobsKept
    OBVIOUS
<1>b. Handlers \subseteq Tasks
    BY DEF Tasks
<1>t. jobs \in [Refs -> JobRow] /\ target \in [Tasks -> Refs \cup {None}]
    BY DEF Safe, BridgeSafe, BridgeTypes
<1>1. CASE jobs' = jobs
    BY <1>1 DEF JobsKept
<1>2. ASSUME NEW h \in Handlers, Handler(h) PROVE JobsKept
  <2>1. CASE CronRunWrite(h)
    <3>1. /\ target[h] \in Refs /\ readRow[h].state = "live"
          /\ readRow[h].schedule = jobs[target[h]].schedule
        BY <2>1, <1>b DEF CronRunWrite, Safe, BridgeSafe, HoldInv, JobsInv, ReadCreated
    <3> QED BY <2>1, <3>1, <1>t DEF CronRunWrite, JobsKept
  <2>2. CASE CronRunWake(h)
      BY <2>2, <1>1 DEF CronRunWake
  <2>3. ASSUME NEW k \in Refs, NEW s \in Schedules, CronUpdateInsert(h, k, s) PROVE JobsKept
      BY <2>3, <1>t DEF CronUpdateInsert, JobsKept
  <2>4. CASE CronUpdateDelete(h)
      BY <2>4, <1>t DEF CronUpdateDelete, JobsKept, JobRow
  <2> QED BY <1>2, <2>1, <2>2, <2>3, <2>4 DEF Handler
<1>3. ASSUME NEW h \in Handlers, Request(h) PROVE JobsKept
  <2>1. ASSUME NEW j \in Refs, NEW on \in BOOLEAN, CronEnable(h, j, on) PROVE JobsKept
      BY <2>1, <1>t DEF CronEnable, JobsKept, JobRow
  <2>2. ASSUME NEW j \in Refs, NEW s \in Schedules, CronCreate(h, j, s) PROVE JobsKept
      BY <2>2, <1>t DEF CronCreate, JobsKept
  <2>3. ASSUME NEW j \in Refs, CronDelete(h, j) PROVE JobsKept
      BY <2>3, <1>t DEF CronDelete, JobsKept, JobRow
  <2>4. ASSUME NEW j \in Refs, NEW name \in {"run", "update"}, CronRead(h, name, j) PROVE JobsKept
      BY <2>4, <1>1 DEF CronRead
  <2> QED BY <1>3, <2>1, <2>2, <2>3, <2>4 DEF Request
<1>4. CASE LoopAlone \/ LoopFault \/ Clock \/ StartLoop \/ UNCHANGED allVars
    BY <1>4, <1>1 DEF LoopAlone, LoopFault, Clock, StartLoop, cronVars, allVars
<1>5. CASE Launch \/ ProcessCrash \/ AdvanceCall
    BY <1>5, <1>1 DEF Launch, ProcessCrash, AdvanceCall, Advance, AdvanceCancel, AdvanceDone
<1>6. ASSUME NEW t \in Tasks, Bridge(t) \/ BridgeDbError(t) PROVE JobsKept
    BY <1>6, <1>1 DEF Bridge, ReconcileList, ReconcileDisabled, ReconcileEnabled, EnsureSchedule,
       EnsureFails, CallFails, ReconcileDone, BridgeDbError
<1> QED BY <1>2, <1>3, <1>4, <1>5, <1>6 DEF CronNext, Program

\* Rows are never forgotten, and only ensure_scheduled adds one.
RowsKept == \A i \in FireIds : status[i] # "unused" => status'[i] # "unused" /\ spec'[i] = spec[i]

NoNewRow == \A i \in FireIds : status[i] = "unused" => status'[i] = "unused"

LEMMA RowsGrow ==
    ASSUME LoopSafe, BridgeSafe, [CronNext]_allVars
    PROVE  /\ RowsKept
           /\ NoNewRow \/ \E t \in Tasks, i \in FireIds : EnsureSchedule(t, i)
<1>t. status \in [FireIds -> Status] /\ spec \in [FireIds -> FireSpec \cup {None}]
    BY DEF LoopSafe, Typed, TypeOK, TableTypeOK
<1>1. CASE SchedulerSteps
  <2>1. CASE LoopTakes
      BY <2>1, LoopDoes DEF LoopEffect, RowsKept, NoNewRow
  <2>2. CASE Start \/ Tick \/ Crash \/ UNCHANGED vars
      BY <2>2 DEF Start, Tick, Crash, vars, tableVars, RowsKept, NoNewRow
  <2> QED BY <1>1, <2>1, <2>2 DEF SchedulerSteps
<1>2. CASE BridgeCancels
    BY <1>2, <1>t DEF BridgeCancels, CancelJob, CancelByKindRef, DeleteUnfired, RowsKept, NoNewRow,
       Unfired
<1>3. CASE BridgeInserts /\ \E t \in Tasks, i \in FireIds : EnsureSchedule(t, i)
  <2>1. PICK j \in Refs, i \in FireIds, t \in FireTimes : Insert(i, CronFire(j, t))
      BY <1>3 DEF BridgeInserts
  <2>2. RowsKept
      BY <2>1, <1>t DEF Insert, RowsKept
  <2> QED BY <1>3, <2>2
<1>4. CASE AdvanceEnds \/ FaultBeside
    BY <1>4 DEF AdvanceEnds, FaultBeside, tableVars, RowsKept, NoNewRow
<1> QED BY LoopView, <1>1, <1>2, <1>3, <1>4

\* Everything a step leads to was created.
LEMMA JobsStep == Safe /\ [CronNext]_allVars => JobsInv'
<1> SUFFICES ASSUME Safe, [CronNext]_allVars PROVE JobsInv'
    OBVIOUS
<1>a. JobsKept /\ RowsKept
    BY JobsGrow, RowsGrow DEF Safe
<1>b. Handlers \subseteq Tasks
    BY DEF Tasks
<1>r. \A i \in FireIds : status[i] # "unused" => Job(i) \in Refs
    BY DEF Safe, LoopSafe, RowsInv
<1>h. \A t \in Tasks :
        /\ task[t] = "read" => target[t] \in Refs
        /\ task[t] = "schedule" => hand[t] \in Refs
        /\ todoOn[t] \subseteq Refs
        /\ todoOff[t] \subseteq Refs
    BY DEF Safe, BridgeSafe, HoldInv, BridgeTypes
<1>t. /\ status \in [FireIds -> Status] /\ spec \in [FireIds -> FireSpec \cup {None}]
      /\ BridgeTypes
    BY DEF Safe, LoopSafe, Typed, TypeOK, TableTypeOK, BridgeSafe
<1>c. pc \in {"follow", "rec_follow"} => cur \in FireIds /\ status[cur] # "unused"
    BY NoneAssumption DEF Safe, LoopSafe, Typed, TypeOK, ClaimInv, HoldingPCs, Status
<1>y. FiresCreated /\ \A t \in Tasks : HeldCreated(t) /\ ReadCreated(t)
    BY DEF Safe, JobsInv
<1>1. ASSUME NoNewRow PROVE FiresCreated'
    BY <1>1, <1>a, <1>r, <1>y DEF FiresCreated, JobsKept, RowsKept, NoNewRow, Job
<1>2. ASSUME NEW t \in Tasks, hand'[t] = hand[t] \/ hand'[t] = None,
             todoOn'[t] \subseteq todoOn[t], todoOff'[t] \subseteq todoOff[t]
      PROVE  HeldCreated(t)'
    BY <1>2, <1>a, <1>h, <1>y, NoneAssumption DEF JobsKept, HeldCreated
<1>3. ASSUME NEW t \in Tasks,
             task'[t] = "read" => /\ task[t] = "read" /\ readRow'[t] = readRow[t]
                                  /\ target'[t] = target[t]
      PROVE  ReadCreated(t)'
    BY <1>3, <1>a, <1>h, <1>y DEF JobsKept, ReadCreated
<1>4. CASE \E t \in Tasks, i \in FireIds : EnsureSchedule(t, i)
  <2>1. PICK t \in Tasks, i \in FireIds : EnsureSchedule(t, i)
      BY <1>4
  <2>2. /\ task[t] = "schedule" /\ jobs' = jobs
        /\ status[i] = "unused" /\ status' = [status EXCEPT ![i] = "pending"]
        /\ spec' = [spec EXCEPT ![i] = CronFire(hand[t], NextFireFor(hand[t]))]
      BY <2>1 DEF EnsureSchedule, Insert
  <2>3. spec'[i].ref_id = hand[t]
      BY <2>2, <1>t DEF BridgeTypes, CronFire
  <2>4. FiresCreated'
      BY <2>2, <2>3, <1>t, <1>h, <1>y DEF FiresCreated, HeldCreated, Job
  <2>5. ASSUME NEW u \in Tasks PROVE HeldCreated(u)' /\ ReadCreated(u)'
    <3>1. /\ hand'[u] = hand[u] \/ hand'[u] = None
          /\ todoOn' = todoOn /\ todoOff' = todoOff
          /\ readRow' = readRow /\ target' = target
          /\ task'[u] = "read" => task[u] = "read"
        BY <2>1, <1>t DEF EnsureSchedule, BridgeTypes
    <3> QED BY <3>1, <1>2, <1>3
  <2> QED BY <2>4, <2>5 DEF JobsInv
<1>5. CASE NoNewRow /\ ~\E t \in Tasks, i \in FireIds : EnsureSchedule(t, i)
  <2> SUFFICES ASSUME NEW u \in Tasks PROVE HeldCreated(u)' /\ ReadCreated(u)'
      BY <1>1, <1>5 DEF JobsInv
  <2>1. ASSUME UNCHANGED cronVars PROVE HeldCreated(u)' /\ ReadCreated(u)'
      BY <2>1, <1>2, <1>3 DEF cronVars, bridgeVars
  <2>2. CASE LoopAlone \/ LoopFault \/ Clock \/ StartLoop \/ UNCHANGED allVars
      BY <2>1, <2>2 DEF LoopAlone, LoopFault, Clock, StartLoop, allVars
  <2>3. CASE Launch \/ AdvanceDone \/ AdvanceCancel
    <3>1. /\ hand' = hand /\ todoOn' = todoOn /\ todoOff' = todoOff
          /\ readRow' = readRow /\ target' = target
          /\ task'[u] = "read" => task[u] = "read"
        BY <2>3, <1>t DEF BridgeTypes, Launch, AdvanceDone, AdvanceCancel
    <3> QED BY <3>1, <1>2, <1>3
  <2>4. CASE Advance
    <3>1. /\ todoOn' = todoOn /\ todoOff' = todoOff
          /\ readRow' = readRow /\ target' = target
          /\ task'[u] = "read" => task[u] = "read"
          /\ hand'[u] = hand[u] \/ hand'[u] = Job(cur)
        BY <2>4, <1>t DEF BridgeTypes, Advance, Job
    <3>2. jobs[Job(cur)].state # "unused" /\ jobs' = jobs
        BY <2>4, <1>c, <1>y DEF Advance, FiresCreated
    <3>3. HeldCreated(u)'
        BY <3>1, <3>2, <1>y DEF HeldCreated
    <3> QED BY <3>1, <3>3, <1>3
  <2>5. CASE ProcessCrash
      BY <2>5, NoneAssumption DEF ProcessCrash, DropTasks, HeldCreated, ReadCreated
  <2>6. ASSUME NEW t \in Tasks, ReconcileList(t) PROVE HeldCreated(u)' /\ ReadCreated(u)'
    <3>1. /\ hand' = hand /\ readRow' = readRow /\ target' = target /\ jobs' = jobs
          /\ task'[u] = "read" => task[u] = "read"
        BY <2>6, <1>t DEF BridgeTypes, ReconcileList
    <3>2. \A j \in (todoOn[u] \cup todoOff[u])' : j \in todoOn[u] \cup todoOff[u] \/ Live(j)
        BY <2>6, <1>t DEF BridgeTypes, ReconcileList
    <3>3. HeldCreated(u)'
        BY <3>1, <3>2, <1>y DEF HeldCreated, Live
    <3> QED BY <3>1, <3>3, <1>3
  <2>7. ASSUME NEW t \in Tasks, NEW j \in Refs, ReconcileDisabled(t, j)
        PROVE  HeldCreated(u)' /\ ReadCreated(u)'
    <3>1. /\ hand' = hand /\ readRow' = readRow /\ target' = target /\ task' = task
          /\ todoOn' = todoOn /\ todoOff'[u] \subseteq todoOff[u]
        BY <2>7, <1>t DEF BridgeTypes, ReconcileDisabled
    <3> QED BY <3>1, <1>2, <1>3
  <2>8. ASSUME NEW t \in Tasks, NEW j \in Refs, ReconcileEnabled(t, j)
        PROVE  HeldCreated(u)' /\ ReadCreated(u)'
    <3>1. /\ readRow' = readRow /\ target' = target /\ jobs' = jobs
          /\ task'[u] = "read" => task[u] = "read"
          /\ todoOn'[u] \subseteq todoOn[u] /\ todoOff' = todoOff
          /\ hand'[u] = hand[u] \/ (hand'[u] = j /\ j \in todoOn[u])
        BY <2>8, <1>t DEF BridgeTypes, ReconcileEnabled
    <3>2. HeldCreated(u)'
        BY <3>1, <1>y DEF HeldCreated
    <3> QED BY <3>1, <3>2, <1>3
  <2>9. ASSUME NEW t \in Tasks, CallFails(t) PROVE HeldCreated(u)' /\ ReadCreated(u)'
    <3>1. /\ u # t => readRow'[u] = readRow[u] /\ target'[u] = target[u]
          /\ task'[u] = "read" => task[u] = "read" /\ u # t
          /\ todoOn'[u] \subseteq todoOn[u] /\ todoOff'[u] \subseteq todoOff[u]
          /\ hand'[u] = hand[u] \/ hand'[u] = None
        BY <2>9, <1>t DEF BridgeTypes, CallFails
    <3> QED BY <3>1, <1>2, <1>3
  <2>10. ASSUME NEW t \in Tasks, ReconcileDone(t) PROVE HeldCreated(u)' /\ ReadCreated(u)'
    <3>1. /\ hand' = hand /\ readRow' = readRow /\ (target'[u] = target[u] \/ u = t)
          /\ task'[u] = "read" => task[u] = "read" /\ u # t
          /\ todoOn' = todoOn /\ todoOff' = todoOff
        BY <2>10, <1>t DEF BridgeTypes, ReconcileDone, CallReturns
    <3> QED BY <3>1, <1>2, <1>3
  <2>11. ASSUME NEW h \in Handlers, Handler(h) PROVE HeldCreated(u)' /\ ReadCreated(u)'
    <3>1. /\ hand' = hand /\ todoOn' = todoOn /\ todoOff' = todoOff
          /\ task'[u] = "read" => /\ task[u] = "read" /\ readRow'[u] = readRow[u]
                                  /\ target'[u] = target[u]
        BY <2>11, <1>b, <1>t DEF BridgeTypes, Handler, CronRunWrite, CronRunWake, CronUpdateInsert,
           CronUpdateDelete, Continue, CallReturns
    <3> QED BY <3>1, <1>2, <1>3
  <2>12. ASSUME NEW h \in Handlers, NEW j \in Refs, NEW name \in {"run", "update"},
                CronRead(h, name, j)
         PROVE  HeldCreated(u)' /\ ReadCreated(u)'
    <3>1. /\ hand' = hand /\ todoOn' = todoOn /\ todoOff' = todoOff /\ jobs' = jobs
          /\ \/ task'[u] = task[u] /\ readRow'[u] = readRow[u] /\ target'[u] = target[u]
             \/ readRow'[u] = jobs[j] /\ target'[u] = j /\ jobs[j].state = "live"
        BY <2>12, <1>b, <1>t DEF BridgeTypes, CronRead, Begins, Continue, Live
    <3>2. ReadCreated(u)'
        BY <3>1, <1>y DEF ReadCreated
    <3> QED BY <3>1, <3>2, <1>2
  <2>13. ASSUME NEW h \in Handlers, NEW j \in Refs, NEW s \in Schedules,
                CronCreate(h, j, s)
         PROVE  HeldCreated(u)' /\ ReadCreated(u)'
    <3>1. /\ hand' = hand /\ todoOn' = todoOn /\ todoOff' = todoOff /\ readRow' = readRow
          /\ task'[u] = "read" => task[u] = "read" /\ target'[u] = target[u]
        BY <2>13, <1>b, <1>t DEF BridgeTypes, CronCreate, Begins, Continue
    <3> QED BY <3>1, <1>2, <1>3
  <2>14. ASSUME NEW h \in Handlers, NEW j \in Refs,
                (\E on \in BOOLEAN : CronEnable(h, j, on)) \/ CronDelete(h, j)
         PROVE  HeldCreated(u)' /\ ReadCreated(u)'
    <3>1. /\ hand' = hand /\ todoOn' = todoOn /\ todoOff' = todoOff /\ readRow' = readRow
          /\ task'[u] = "read" => task[u] = "read" /\ target'[u] = target[u]
        BY <2>14, <1>b, <1>t DEF BridgeTypes, CronEnable, CronDelete, Begins, Continue
    <3> QED BY <3>1, <1>2, <1>3
  <2>15. ASSUME NEW t \in Tasks, Bridge(t) \/ BridgeDbError(t), ~\E i \in FireIds : EnsureSchedule(t, i)
         PROVE  HeldCreated(u)' /\ ReadCreated(u)'
      BY <2>6, <2>7, <2>8, <2>9, <2>10, <2>15 DEF Bridge, EnsureFails, BridgeDbError
  <2>16. ASSUME NEW h \in Handlers, Request(h) PROVE HeldCreated(u)' /\ ReadCreated(u)'
    <3>1. PICK j \in Refs :
             \/ \E on \in BOOLEAN : CronEnable(h, j, on)
             \/ \E s \in Schedules : CronCreate(h, j, s)
             \/ CronDelete(h, j)
             \/ \E name \in {"run", "update"} : CronRead(h, name, j)
        BY <2>16 DEF Request
    <3>2. CASE (\E on \in BOOLEAN : CronEnable(h, j, on)) \/ CronDelete(h, j)
        BY <3>2, <2>14
    <3>3. CASE \E s \in Schedules : CronCreate(h, j, s)
        BY <3>3, <2>13
    <3>4. CASE \E name \in {"run", "update"} : CronRead(h, name, j)
        BY <3>4, <2>12
    <3> QED BY <3>1, <3>2, <3>3, <3>4
  <2> QED BY <1>5, <2>2, <2>3, <2>4, <2>5, <2>11, <2>15, <2>16 DEF CronNext, Program, AdvanceCall
<1> QED BY <1>4, <1>5, RowsGrow DEF Safe
-----------------------------------------------------------------------------
(***************************************************************************)
(* Start-up.  The reconcile before the loop cancels what a crash left in   *)
(* flight, except for jobs that are gone, and these stay gone.             *)
(***************************************************************************)

\* A job that is gone stays gone.
LEMMA GoneStays ==
    ASSUME Safe, [CronNext]_allVars, NEW j \in Refs, Gone(j)
    PROVE  Gone(j)'
<1>t. BridgeTypes /\ Handlers \subseteq Tasks
    BY DEF Safe, BridgeSafe, Tasks
<1>g. /\ jobs[j].state = "deleted"
      /\ \A u \in Tasks : (task[u] = "read" => target[u] # j) /\ j \notin todoOff[u]
    BY DEF Gone
<1>1. ASSUME jobs'[j].state = "deleted", todoOff' = todoOff,
             \A u \in Tasks : task'[u] = "read" => task[u] = "read" /\ target'[u] = target[u]
      PROVE  Gone(j)'
    BY <1>1, <1>g DEF Gone
<1>2. CASE LoopAlone \/ LoopFault \/ Clock \/ StartLoop \/ UNCHANGED allVars
    BY <1>1, <1>2, <1>g DEF LoopAlone, LoopFault, Clock, StartLoop, allVars, cronVars, bridgeVars
<1>3. CASE Launch \/ AdvanceCall
  <2>1. /\ jobs' = jobs /\ todoOff' = todoOff /\ target' = target
        /\ \A u \in Tasks : task'[u] = "read" => task[u] = "read"
      BY <1>3, <1>t DEF Launch, AdvanceCall, Advance, AdvanceDone, AdvanceCancel, BridgeTypes
  <2> QED BY <2>1, <1>1, <1>g
<1>4. CASE ProcessCrash
    BY <1>4, <1>g DEF ProcessCrash, DropTasks, Gone
<1>5. ASSUME NEW t \in Tasks, Bridge(t) \/ BridgeDbError(t) PROVE Gone(j)'
  <2>1. jobs' = jobs
      BY <1>5 DEF Bridge, ReconcileList, ReconcileDisabled, ReconcileEnabled, EnsureSchedule,
         EnsureFails, CallFails, ReconcileDone, BridgeDbError
  <2>2. \A u \in Tasks : task'[u] = "read" => task[u] = "read" /\ target'[u] = target[u]
    <3>1. CASE ReconcileList(t) \/ \E k \in Refs : ReconcileDisabled(t, k) \/ ReconcileEnabled(t, k)
        BY <3>1, <1>t DEF ReconcileList, ReconcileDisabled, ReconcileEnabled, BridgeTypes
    <3>2. CASE \E i \in FireIds : EnsureSchedule(t, i)
        BY <3>2, <1>t DEF EnsureSchedule, BridgeTypes
    <3>3. CASE CallFails(t)
        BY <3>3, <1>t DEF CallFails, BridgeTypes
    <3>4. CASE ReconcileDone(t)
        BY <3>4, <1>t DEF ReconcileDone, CallReturns, BridgeTypes
    <3> QED BY <1>5, <3>1, <3>2, <3>3, <3>4 DEF Bridge, BridgeDbError, EnsureFails
  <2>3. \A u \in Tasks : todoOff'[u] \subseteq todoOff[u] \/ ReconcileList(t)
    <3>1. CASE \E k \in Refs : ReconcileDisabled(t, k) \/ ReconcileEnabled(t, k)
        BY <3>1, <1>t DEF ReconcileDisabled, ReconcileEnabled, BridgeTypes
    <3>2. CASE \E i \in FireIds : EnsureSchedule(t, i)
        BY <3>2, <1>t DEF EnsureSchedule, BridgeTypes
    <3>3. CASE CallFails(t)
        BY <3>3, <1>t DEF CallFails, BridgeTypes
    <3>4. CASE ReconcileDone(t)
        BY <3>4, <1>t DEF ReconcileDone, BridgeTypes
    <3> QED BY <1>5, <3>1, <3>2, <3>3, <3>4 DEF Bridge, BridgeDbError, EnsureFails
  <2>4. ~Live(j)
      BY <1>g DEF Live
  <2>5. ASSUME NEW u \in Tasks PROVE j \notin todoOff'[u]
    <3>1. CASE ReconcileList(t)
        BY <3>1, <2>4, <1>g, <1>t DEF ReconcileList, BridgeTypes
    <3> QED BY <3>1, <2>3, <1>g
  <2> QED BY <2>1, <2>2, <2>5, <1>g DEF Gone
<1>6. ASSUME NEW h \in Handlers, Handler(h) PROVE Gone(j)'
  <2>1. /\ todoOff' = todoOff
        /\ \A u \in Tasks : task'[u] = "read" => task[u] = "read" /\ target'[u] = target[u]
      BY <1>6, <1>t DEF Handler, CronRunWrite, CronRunWake, CronUpdateInsert, CronUpdateDelete,
         Continue, CallReturns, BridgeTypes
  <2>2. jobs'[j].state = "deleted"
    <3>1. CASE CronRunWrite(h)
        BY <3>1, <1>g, <1>t DEF CronRunWrite, BridgeTypes
    <3>2. CASE CronRunWake(h)
        BY <3>2, <1>g DEF CronRunWake
    <3>3. ASSUME NEW k \in Refs, NEW s \in Schedules, CronUpdateInsert(h, k, s)
          PROVE  jobs'[j].state = "deleted"
        BY <3>3, <1>g, <1>t DEF CronUpdateInsert, BridgeTypes
    <3>4. CASE CronUpdateDelete(h)
        BY <3>4, <1>g, <1>t DEF CronUpdateDelete, BridgeTypes, JobRow
    <3> QED BY <1>6, <3>1, <3>2, <3>3, <3>4 DEF Handler
  <2> QED BY <2>1, <2>2, <1>1
<1>7. ASSUME NEW h \in Handlers, Request(h) PROVE Gone(j)'
  <2>1. PICK k \in Refs :
           \/ \E on \in BOOLEAN : CronEnable(h, k, on)
           \/ \E s \in Schedules : CronCreate(h, k, s)
           \/ CronDelete(h, k)
           \/ \E name \in {"run", "update"} : CronRead(h, name, k)
      BY <1>7 DEF Request
  <2>2. k # j /\ todoOff' = todoOff
      BY <2>1, <1>g DEF CronEnable, CronCreate, CronDelete, CronRead, Begins, Live
  <2>3. jobs'[j] = jobs[j]
      BY <2>1, <2>2, <1>t DEF CronEnable, CronCreate, CronDelete, CronRead, BridgeTypes
  <2>4. \A u \in Tasks : target'[u] = target[u] \/ target'[u] = k
      BY <2>1, <1>t DEF CronEnable, CronCreate, CronDelete, CronRead, Begins, BridgeTypes
  <2>5. \A u \in Tasks : task'[u] = "read" => task[u] = "read" \/ target'[u] = k
      BY <2>1, <1>t DEF CronEnable, CronCreate, CronDelete, CronRead, Begins, Continue, BridgeTypes
  <2> QED BY <2>2, <2>3, <2>4, <2>5, <1>g DEF Gone
<1> QED BY <1>2, <1>3, <1>4, <1>5, <1>6, <1>7 DEF CronNext, Program

\* Rows are claimed in a pass, and only then.
LEMMA ClaimedInPass ==
    ASSUME LoopSafe, BridgeSafe, [CronNext]_allVars, NEW i \in FireIds, status'[i] = "firing"
    PROVE  status[i] = "firing" \/ pc = "pass"
<1>t. status \in [FireIds -> Status]
    BY DEF LoopSafe, Typed, TypeOK, TableTypeOK
<1>1. CASE SchedulerSteps
  <2>1. CASE LoopTakes
      BY <2>1, LoopDoes DEF LoopEffect
  <2>2. CASE Start \/ Tick \/ Crash \/ UNCHANGED vars
      BY <2>2 DEF Start, Tick, Crash, vars, tableVars
  <2> QED BY <1>1, <2>1, <2>2 DEF SchedulerSteps
<1>2. CASE BridgeCancels
    BY <1>2, <1>t DEF BridgeCancels, CancelJob, CancelByKindRef, DeleteUnfired
<1>3. CASE BridgeInserts
    BY <1>3, <1>t DEF BridgeInserts, Insert
<1>4. CASE AdvanceEnds \/ FaultBeside
    BY <1>4 DEF AdvanceEnds, FaultBeside, tableVars
<1> QED BY LoopView, <1>1, <1>2, <1>3, <1>4

\* What recovery has still to handle was in flight when it listed.
LEMMA RecoveredWasInFlight ==
    ASSUME LoopSafe, BridgeSafe, [CronNext]_allVars, NEW i \in toRecover'
    PROVE  i \in toRecover \/ (i \in FireIds /\ pc = "listing" /\ status[i] = "firing")
<1>1. CASE SchedulerSteps
  <2>1. CASE LoopTakes
      BY <2>1, LoopDoes DEF LoopEffect
  <2>2. CASE Start \/ Tick \/ Crash \/ UNCHANGED vars
      BY <2>2 DEF Start, Tick, Crash, Abandon, vars, loopVars
  <2> QED BY <1>1, <2>1, <2>2 DEF SchedulerSteps
<1>2. CASE BridgeCancels
    BY <1>2 DEF BridgeCancels, LoopUntouched, loopVars
<1>3. CASE BridgeInserts
    BY <1>3 DEF BridgeInserts, loopVars
<1>4. CASE AdvanceEnds \/ FaultBeside
    BY <1>4 DEF AdvanceEnds, FaultBeside, loopVars
<1> QED BY LoopView, <1>1, <1>2, <1>3, <1>4

\* The loop starts to list only in a new process.
LEMMA ListingStarts ==
    ASSUME LoopSafe, BridgeSafe, [CronNext]_allVars, pc' = "listing"
    PROVE  pc = "listing" \/ (StartLoop /\ pc = "down" /\ boot = "ready")
<1>1. CASE LoopAlone \/ LoopFault
  <2>1. LoopEffect
      BY <1>1, LoopDoes DEF LoopAlone, LoopFault, LoopTakes
  <2> QED BY <2>1 DEF LoopEffect
<1>2. CASE StartLoop
    BY <1>2 DEF StartLoop, Start
<1>3. CASE ProcessCrash
    BY <1>3 DEF ProcessCrash, Crash
<1>4. CASE AdvanceDone
    BY <1>4 DEF AdvanceDone
<1>5. CASE pc' = pc
    BY <1>5
<1>6. CASE Clock \/ Launch \/ Advance \/ AdvanceCancel \/ UNCHANGED allVars
    BY <1>6, <1>5 DEF Clock, Tick, Launch, Advance, AdvanceCancel, allVars, vars
<1>7. ASSUME NEW t \in Tasks, Bridge(t) \/ BridgeDbError(t) PROVE pc' = pc
    BY <1>7 DEF Bridge, ReconcileList, ReconcileDisabled, ReconcileEnabled, EnsureSchedule,
         EnsureFails, ReconcileDone, BridgeDbError, vars
<1>8. ASSUME NEW h \in Handlers, Handler(h) \/ Request(h) PROVE pc' = pc
    BY <1>8 DEF Handler, CronRunWrite, CronRunWake, CronUpdateInsert, CronUpdateDelete,
       Request, CronEnable, CronCreate, CronDelete, CronRead, Begins, vars
<1> QED BY <1>1, <1>2, <1>3, <1>4, <1>5, <1>6, <1>7, <1>8 DEF CronNext, Program, AdvanceCall
\* While the process does not run the loop, nobody edits jobs.
LEMMA JobsRest ==
    ASSUME LoopSafe, BridgeSafe, [CronNext]_allVars, ~Alive
    PROVE  jobs' = jobs
<1>1. \A h \in Handlers : task[h] = "off"
    BY DEF BridgeSafe, TaskInv
<1>2. ASSUME NEW h \in Handlers, Handler(h) \/ Request(h) PROVE FALSE
    BY <1>1, <1>2 DEF Handler, CronRunWrite, CronRunWake, CronUpdateInsert, CronUpdateDelete,
       Request, CronEnable, CronCreate, CronDelete, CronRead, Begins
<1>3. CASE LoopAlone \/ LoopFault \/ Clock \/ StartLoop \/ UNCHANGED allVars
    BY <1>3 DEF LoopAlone, LoopFault, Clock, StartLoop, cronVars, allVars
<1>4. CASE Launch \/ ProcessCrash \/ AdvanceCall
    BY <1>4 DEF Launch, ProcessCrash, AdvanceCall, Advance, AdvanceCancel, AdvanceDone
<1>5. ASSUME NEW t \in Tasks, Bridge(t) \/ BridgeDbError(t) PROVE jobs' = jobs
    BY <1>5 DEF Bridge, ReconcileList, ReconcileDisabled, ReconcileEnabled, EnsureSchedule,
       EnsureFails, CallFails, ReconcileDone, BridgeDbError
<1> QED BY <1>2, <1>3, <1>4, <1>5 DEF CronNext, Program

\* Only the launch, its own steps and a crash move start-up.
LEMMA BootMoves ==
    ASSUME LoopSafe, BridgeSafe, [CronNext]_allVars
    PROVE  \/ /\ boot' = boot /\ task'["boot"] = task["boot"]
              /\ todoOn'["boot"] = todoOn["boot"] /\ todoOff'["boot"] = todoOff["boot"]
           \/ boot' = "init" /\ task'["boot"] = "list"
           \/ boot' \in {"off", "failed"}
           \/ ReconcileList("boot") \/ ReconcileDone("boot")
           \/ \E j \in Refs : ReconcileDisabled("boot", j) \/ ReconcileEnabled("boot", j)
           \/ \E i \in FireIds : EnsureSchedule("boot", i)
<1>t. /\ BridgeTypes /\ "boot" \in Tasks /\ "boot" \notin Handlers
      /\ Handlers \subseteq Tasks /\ "scheduler" \in Tasks
    BY CronAssumption DEF BridgeSafe, Tasks
<1> DEFINE Still == /\ boot' = boot /\ task'["boot"] = task["boot"]
                    /\ todoOn'["boot"] = todoOn["boot"] /\ todoOff'["boot"] = todoOff["boot"]
<1>1. CASE LoopAlone \/ LoopFault \/ Clock \/ StartLoop \/ UNCHANGED allVars
  <2>1. Still
      BY <1>1 DEF LoopAlone, LoopFault, Clock, StartLoop, cronVars, bridgeVars, allVars
  <2> QED BY <2>1
<1>2. CASE AdvanceCall
  <2>1. Still
      BY <1>2, <1>t DEF AdvanceCall, Advance, AdvanceCancel, AdvanceDone, BridgeTypes
  <2> QED BY <2>1
<1>3. CASE Launch
    BY <1>3, <1>t DEF Launch, BridgeTypes
<1>4. CASE ProcessCrash
    BY <1>4 DEF ProcessCrash
<1>5. ASSUME NEW h \in Handlers, Handler(h) \/ Request(h) PROVE Still
    BY <1>5, <1>t DEF Handler, CronRunWrite, CronRunWake, CronUpdateInsert, CronUpdateDelete,
       Request, CronEnable, CronCreate, CronDelete, CronRead, Begins, Continue, BridgeTypes
<1>6. ASSUME NEW t \in Tasks \ {"boot"}, Bridge(t) \/ BridgeDbError(t) PROVE Still
  <2>1. CASE ReconcileList(t)
      BY <2>1, <1>t DEF ReconcileList, BridgeTypes
  <2>2. CASE \E j \in Refs : ReconcileDisabled(t, j) \/ ReconcileEnabled(t, j)
      BY <2>2, <1>t DEF ReconcileDisabled, ReconcileEnabled, BridgeTypes
  <2>3. CASE \E i \in FireIds : EnsureSchedule(t, i)
      BY <2>3, <1>t DEF EnsureSchedule, BridgeTypes
  <2>4. CASE CallFails(t)
      BY <2>4, <1>t DEF CallFails, BridgeTypes
  <2>5. CASE ReconcileDone(t)
      BY <2>5, <1>t DEF ReconcileDone, BridgeTypes
  <2> QED BY <1>6, <2>1, <2>2, <2>3, <2>4, <2>5 DEF Bridge, BridgeDbError, EnsureFails
<1>7. CASE Bridge("boot") \/ BridgeDbError("boot")
  <2>1. CASE CallFails("boot")
      BY <2>1 DEF CallFails
  <2> QED BY <1>7, <2>1 DEF Bridge, BridgeDbError, EnsureFails
<1> HIDE DEF Still
<1>8. ASSUME NEW t \in Tasks, Bridge(t) \/ BridgeDbError(t)
      PROVE  Still \/ Bridge("boot") \/ BridgeDbError("boot")
    BY <1>6, <1>8
<1>9. \/ Still \/ Launch \/ ProcessCrash
      \/ LoopAlone \/ LoopFault \/ Clock \/ StartLoop \/ UNCHANGED allVars \/ AdvanceCall
      \/ Bridge("boot") \/ BridgeDbError("boot")
    BY <1>5, <1>8 DEF CronNext, Program
<1> USE DEF Still
<1> QED BY <1>9, <1>1, <1>2, <1>3, <1>4, <1>7

\* A cancel of the bridge leaves no row of the job in flight.
LEMMA CancelClears ==
    ASSUME LoopSafe, NEW j \in Refs, CancelJob(j), NEW i \in FireIds,
           status'[i] \in {"pending", "firing"}
    PROVE  Job(i) # j /\ status'[i] = status[i] /\ spec' = spec
<1> DEFINE sel == {k \in FireIds : spec[k] # None /\ spec[k].kind = "cron_job" /\ spec[k].ref_id = j}
<1>1. /\ status' = [k \in FireIds |-> IF k \in sel /\ Unfired(k) THEN "deleted" ELSE status[k]]
      /\ spec' = spec
    BY DEF CancelJob, CancelByKindRef, DeleteUnfired
<1>2. status'[i] = status[i] /\ ~(i \in sel /\ Unfired(i))
    BY <1>1
<1>3. Unfired(i)
    BY <1>2 DEF Unfired
<1>4. spec[i] \in FireSpec /\ spec[i].kind = "cron_job"
    BY <1>3 DEF LoopSafe, RowsInv, Unfired
<1>5. spec[i] # None
    BY <1>4, AbsentAssumption
<1>6. spec[i].ref_id # j
    BY <1>2, <1>3, <1>4, <1>5
<1> QED BY <1>1, <1>2, <1>6 DEF Job

\* What recovery finds in flight belongs to jobs that are gone.
LEMMA RecoverStep == Safe /\ RecoverInv /\ [CronNext]_allVars => RecoverInv'
<1> SUFFICES ASSUME Safe, RecoverInv, [CronNext]_allVars PROVE RecoverInv'
    OBVIOUS
<1>s. LoopSafe /\ BridgeSafe
    BY DEF Safe
<1>k. /\ RowsKept
      /\ NoNewRow \/ \E t \in Tasks, i \in FireIds : EnsureSchedule(t, i)
    BY <1>s, RowsGrow
<1>t. /\ BridgeTypes /\ "boot" \in Tasks /\ status \in [FireIds -> Status]
      /\ toRecover \subseteq FireIds
    BY DEF Safe, BridgeSafe, LoopSafe, Typed, TypeOK, TableTypeOK, Tasks
<1>j. \A i \in FireIds : status[i] # "unused" => Job(i) \in Refs /\ Job(i)' = Job(i)
    BY <1>k DEF Safe, LoopSafe, RowsInv, RowsKept, Job
<1>r. \A i \in toRecover : i \in FireIds /\ status[i] # "unused"
    BY <1>t DEF Safe, LoopSafe, ClaimInv
<1>1. ASSUME NEW i \in toRecover' PROVE Gone(Job(i))'
  <2>1. i \in FireIds /\ status[i] # "unused" /\ Gone(Job(i))
      BY <1>s, <1>1, <1>r, RecoveredWasInFlight DEF RecoverInv
  <2>2. PICK j \in Refs : j = Job(i) /\ Job(i)' = j
      BY <2>1, <1>j
  <2>3. Gone(j)'
      BY <2>1, <2>2, GoneStays
  <2> QED BY <2>2, <2>3 DEF Gone
<1>2. ASSUME pc' = "listing", NEW i \in FireIds, status'[i] = "firing" PROVE Gone(Job(i))'
  <2>1. CASE pc = "listing"
    <3>1. status[i] = "firing"
        BY <1>s, <1>2, <2>1, ClaimedInPass
    <3>2. PICK j \in Refs : j = Job(i) /\ Job(i)' = j
        BY <3>1, <1>j
    <3>3. Gone(j)'
        BY <3>1, <3>2, <2>1, GoneStays DEF RecoverInv
    <3> QED BY <3>2, <3>3 DEF Gone
  <2>2. CASE StartLoop /\ pc = "down" /\ boot = "ready"
    <3>1. status[i] = "firing" /\ UNCHANGED cronVars
        BY <1>s, <1>2, <2>2, ClaimedInPass DEF StartLoop
    <3>2. PICK j \in Refs : j = Job(i) /\ Job(i)' = j
        BY <3>1, <1>j
    <3>3. jobs[j].state = "deleted"
        BY <3>1, <3>2, <2>2, <1>t DEF RecoverInv, Live, Safe, JobsInv, FiresCreated, BridgeTypes,
           JobRow
    <3>4. \A u \in Tasks : task[u] = "off" /\ todoOff[u] = {}
        BY <2>2 DEF Safe, BridgeSafe, TaskInv, HoldInv, Alive, Tasks
    <3>5. Gone(j)'
        BY <3>1, <3>3, <3>4 DEF Gone, cronVars, bridgeVars
    <3> QED BY <3>2, <3>5 DEF Gone
  <2> QED BY <1>s, <1>2, <2>1, <2>2, ListingStarts
<1>3. ASSUME boot' = "ready", pc' = "down", NEW i \in FireIds, status'[i] = "firing"
      PROVE  ~Live(Job(i))'
  <2>1. pc = "down"
    <3>1. CASE LoopAlone \/ LoopFault
      <4>1. LoopEffect
          BY <1>s, <3>1, LoopDoes DEF LoopAlone, LoopFault, LoopTakes
      <4> QED BY <1>3, <4>1 DEF LoopEffect
    <3>2. CASE StartLoop \/ ProcessCrash \/ AdvanceDone
        BY <1>3, <3>2 DEF StartLoop, Start, ProcessCrash, AdvanceDone
    <3>3. CASE pc' = pc
        BY <1>3, <3>3
    <3>4. CASE Clock \/ Launch \/ Advance \/ AdvanceCancel \/ UNCHANGED allVars
        BY <3>4, <3>3 DEF Clock, Tick, Launch, Advance, AdvanceCancel, allVars, vars
    <3>5. ASSUME NEW t \in Tasks, Bridge(t) \/ BridgeDbError(t) PROVE pc' = pc
        BY <3>5 DEF Bridge, ReconcileList, ReconcileDisabled, ReconcileEnabled, EnsureSchedule,
             EnsureFails, ReconcileDone, BridgeDbError, vars
    <3>6. ASSUME NEW h \in Handlers, Handler(h) \/ Request(h) PROVE pc' = pc
        BY <3>6 DEF Handler, CronRunWrite, CronRunWake, CronUpdateInsert, CronUpdateDelete,
           Request, CronEnable, CronCreate, CronDelete, CronRead, Begins, vars
    <3> QED BY <3>1, <3>2, <3>3, <3>4, <3>5, <3>6 DEF CronNext, Program, AdvanceCall
  <2>2. status[i] = "firing" /\ jobs' = jobs /\ Job(i)' = Job(i)
      BY <1>s, <1>3, <2>1, <1>j, ClaimedInPass, JobsRest DEF Alive
  <2>3. CASE boot = "ready"
      BY <2>1, <2>2, <2>3 DEF RecoverInv, Live
  <2>4. CASE ReconcileDone("boot")
    <3>1. boot = "init" /\ task["boot"] = "each" /\ todoOn["boot"] = {} /\ todoOff["boot"] = {}
        BY <2>4 DEF ReconcileDone, Safe, BridgeSafe, TaskInv
    <3> QED BY <2>2, <3>1 DEF RecoverInv, Live
  <2>5. boot = "ready" \/ ReconcileDone("boot")
    <3>1. CASE \/ ReconcileList("boot")
               \/ \E j \in Refs : ReconcileDisabled("boot", j) \/ ReconcileEnabled("boot", j)
               \/ \E k \in FireIds : EnsureSchedule("boot", k)
        BY <1>3, <3>1 DEF ReconcileList, ReconcileDisabled, ReconcileEnabled, EnsureSchedule
    <3> QED BY <1>s, <1>3, <3>1, BootMoves
  <2> QED BY <2>3, <2>4, <2>5
<1>4. ASSUME boot' = "init", task'["boot"] \in {"each", "schedule"},
             NEW i \in FireIds, status'[i] = "firing", Live(Job(i))'
      PROVE  Job(i)' \in (todoOn["boot"] \cup todoOff["boot"])'
  <2>1. CASE /\ boot' = boot /\ task'["boot"] = task["boot"]
             /\ todoOn'["boot"] = todoOn["boot"] /\ todoOff'["boot"] = todoOff["boot"]
    <3>1. ~Alive /\ pc = "down"
        BY <1>4, <2>1 DEF Safe, BridgeSafe, TaskInv, Alive
    <3>2. status[i] = "firing" /\ jobs' = jobs /\ Job(i)' = Job(i)
        BY <1>s, <1>4, <3>1, <1>j, ClaimedInPass, JobsRest
    <3> QED BY <1>4, <2>1, <3>2 DEF RecoverInv, Live
  <2>2. ASSUME task["boot"] # "off"
        PROVE  /\ boot = "init" /\ pc = "down" /\ jobs' = jobs
               /\ status[i] = "firing" /\ Job(i)' = Job(i) /\ Live(Job(i)) /\ Job(i) \in Refs
    <3>1. boot = "init" /\ ~Alive /\ pc = "down"
        BY <2>2 DEF Safe, BridgeSafe, TaskInv, Alive
    <3>2. status[i] = "firing" /\ jobs' = jobs /\ Job(i)' = Job(i) /\ Job(i) \in Refs
        BY <1>s, <1>4, <3>1, <1>j, ClaimedInPass, JobsRest
    <3> QED BY <1>4, <3>1, <3>2 DEF Live
  <2>3. CASE ReconcileList("boot")
    <3>1. task["boot"] # "off"
        BY <2>3 DEF ReconcileList
    <3> QED BY <2>3, <3>1, <2>2, <1>t DEF ReconcileList, BridgeTypes
  <2>4. ASSUME NEW j \in Refs, ReconcileDisabled("boot", j) \/ ReconcileEnabled("boot", j)
        PROVE  Job(i)' \in (todoOn["boot"] \cup todoOff["boot"])'
    <3>1. task["boot"] = "each" /\ CancelJob(j)
        BY <2>4 DEF ReconcileDisabled, ReconcileEnabled
    <3>2. Job(i) # j
        BY <3>1, <1>4, <1>s, CancelClears
    <3>3. Job(i) \in todoOn["boot"] \cup todoOff["boot"]
        BY <3>1, <2>2 DEF RecoverInv
    <3>4. /\ todoOn["boot"] \subseteq todoOn'["boot"] \cup {j}
          /\ todoOff["boot"] \subseteq todoOff'["boot"] \cup {j}
        BY <2>4, <1>t DEF ReconcileDisabled, ReconcileEnabled, BridgeTypes
    <3> QED BY <3>1, <3>2, <3>3, <3>4, <2>2
  <2>5. ASSUME NEW k \in FireIds, EnsureSchedule("boot", k)
        PROVE  Job(i)' \in (todoOn["boot"] \cup todoOff["boot"])'
    <3>1. task["boot"] = "schedule" /\ todoOn' = todoOn /\ todoOff' = todoOff
        BY <2>5 DEF EnsureSchedule
    <3> QED BY <3>1, <2>2 DEF RecoverInv
  <2>6. ~ReconcileDone("boot")
      BY <1>4, <1>t DEF ReconcileDone
  <2> QED BY <1>s, <1>4, <2>1, <2>3, <2>4, <2>5, <2>6, BootMoves
<1> QED BY <1>1, <1>2, <1>3, <1>4 DEF RecoverInv
-----------------------------------------------------------------------------
(***************************************************************************)
(* Late fires.  When a reconcile cancels the fires of a disabled job, what *)
(* may still fire is the row in the loop's hands and what the other tasks  *)
(* are about to schedule: one each.  From then on these only turn into     *)
(* announcements.                                                          *)
(***************************************************************************)

\* Only ensure_scheduled adds a fire that may still be announced.
LEMMA UnheardShrinks ==
    ASSUME LoopSafe, BridgeSafe, [CronNext]_allVars, NEW j \in Refs,
           ~\E t \in Tasks, i \in FireIds : EnsureSchedule(t, i)
    PROVE  Unheard(j)' \subseteq Unheard(j)
<1>t. status \in [FireIds -> Status] /\ firedAt \in [FireIds -> SUBSET (0..MaxTime)]
    BY DEF LoopSafe, Typed, TypeOK, TableTypeOK
<1>1. CASE SchedulerSteps
  <2>1. CASE LoopTakes
    <3>1. LoopEffect
        BY <2>1, LoopDoes
    <3>2. ASSUME NEW i \in FireIds, firedAt'[i] = {} PROVE firedAt[i] = {}
        BY <3>1, <3>2, <1>t DEF LoopEffect, Announces
    <3>3. ASSUME NEW i \in FireIds, Unfired(i)' PROVE Unfired(i)
        BY <3>1, <3>3 DEF LoopEffect, Unfired
    <3> QED BY <3>1, <3>2, <3>3 DEF LoopEffect, Unheard, Job, Unfired
  <2>2. CASE Start \/ Tick \/ UNCHANGED vars
      BY <2>2 DEF Start, Tick, vars, tableVars, loopVars, histVars, Unheard, Job, Unfired
  <2>3. CASE Crash
      BY <2>3 DEF Crash, Abandon, tableVars, Unheard, Job, Unfired
  <2> QED BY <1>1, <2>1, <2>2, <2>3 DEF SchedulerSteps
<1>2. CASE BridgeCancels
    BY <1>2, <1>t DEF BridgeCancels, CancelJob, CancelByKindRef, DeleteUnfired, LoopUntouched,
       loopVars, Unheard, Job, Unfired
<1>3. CASE AdvanceEnds
    BY <1>3 DEF AdvanceEnds, tableVars, loopVars, histVars, Unheard, Job, Unfired
<1>4. CASE FaultBeside
    BY <1>4 DEF FaultBeside, tableVars, loopVars, histVars, Unheard, Job, Unfired
<1> QED BY LoopView, <1>1, <1>2, <1>3, <1>4

\* No task takes on a job that is off.
LEMMA SchedulersShrink ==
    ASSUME LoopSafe, BridgeSafe, [CronNext]_allVars, NEW j \in Refs, ~On(j)
    PROVE  Schedulers(j)' \subseteq Schedulers(j)
<1>t. /\ BridgeTypes /\ None \notin Refs
      /\ "boot" \in Tasks /\ "scheduler" \in Tasks /\ Handlers \subseteq Tasks
    BY NoneAssumption DEF BridgeSafe, Tasks
<1>0. SUFFICES ASSUME NEW u \in Tasks, j \in todoOn'[u] \/ hand'[u] = j
               PROVE  j \in todoOn[u] \/ hand[u] = j
    BY DEF Schedulers
<1>1. CASE UNCHANGED <<todoOn, hand>>
    BY <1>0, <1>1
<1>2. CASE LoopAlone \/ LoopFault \/ Clock \/ StartLoop \/ UNCHANGED allVars
    BY <1>1, <1>2 DEF LoopAlone, LoopFault, Clock, StartLoop, allVars, cronVars, bridgeVars
<1>3. CASE Launch \/ AdvanceCancel \/ AdvanceDone
    BY <1>1, <1>3 DEF Launch, AdvanceCancel, AdvanceDone
<1>4. CASE Advance
    BY <1>0, <1>4, <1>t DEF Advance, BridgeTypes, On
<1>5. CASE ProcessCrash
    BY <1>0, <1>5, <1>t DEF ProcessCrash, DropTasks
<1>6. ASSUME NEW t \in Tasks, CallFails(t) PROVE j \in todoOn[u] \/ hand[u] = j
    BY <1>0, <1>6, <1>t DEF CallFails, BridgeTypes
<1>7. ASSUME NEW t \in Tasks, Bridge(t) \/ BridgeDbError(t)
      PROVE  j \in todoOn[u] \/ hand[u] = j
  <2>1. CASE ReconcileList(t)
      BY <1>0, <2>1, <1>t DEF ReconcileList, BridgeTypes, On
  <2>2. ASSUME NEW k \in Refs, ReconcileDisabled(t, k) PROVE j \in todoOn[u] \/ hand[u] = j
      BY <2>2, <1>1 DEF ReconcileDisabled
  <2>3. ASSUME NEW k \in Refs, ReconcileEnabled(t, k) PROVE j \in todoOn[u] \/ hand[u] = j
      BY <1>0, <2>3, <1>t DEF ReconcileEnabled, BridgeTypes
  <2>4. ASSUME NEW i \in FireIds, EnsureSchedule(t, i) PROVE j \in todoOn[u] \/ hand[u] = j
      BY <1>0, <2>4, <1>t DEF EnsureSchedule, BridgeTypes
  <2>5. CASE ReconcileDone(t)
      BY <2>5, <1>1 DEF ReconcileDone
  <2> QED BY <1>6, <1>7, <2>1, <2>2, <2>3, <2>4, <2>5 DEF Bridge, BridgeDbError, EnsureFails
<1>8. ASSUME NEW h \in Handlers, Handler(h) \/ Request(h) PROVE j \in todoOn[u] \/ hand[u] = j
    BY <1>8, <1>1 DEF Handler, CronRunWrite, CronRunWake, CronUpdateInsert, CronUpdateDelete,
       Request, CronEnable, CronCreate, CronDelete, CronRead, Begins
<1> QED BY <1>2, <1>3, <1>4, <1>5, <1>7, <1>8 DEF CronNext, Program, AdvanceCall

\* How the count of a job moves.
LEMMA LateMoves ==
    ASSUME Safe, [CronNext]_allVars, NEW j \in Refs, Late(j)
    PROVE  \/ lateFires'[j] = -1
           \/ /\ lateFires[j] >= 0 /\ lateFires'[j] = lateFires[j]
              /\ ~jobs'[j].enabled
           \/ LoopAlone
           \/ \E t \in Tasks : ReconcileDisabled(t, j) /\ lateFires[j] = -1 /\ ~jobs[j].enabled
<1> DEFINE Goal == \/ lateFires'[j] = -1
                   \/ /\ lateFires[j] >= 0 /\ lateFires'[j] = lateFires[j]
                      /\ ~jobs'[j].enabled
<1>t. /\ BridgeTypes /\ Handlers \subseteq Tasks
      /\ jobs[j] \in JobRow /\ lateFires[j] \in Int
    BY DEF Safe, BridgeSafe, BridgeTypes, Tasks
<1>l. /\ lateFires[j] = -1 \/ (lateFires[j] >= 0 /\ ~jobs[j].enabled /\ jobs[j].state # "unused")
    BY <1>t DEF Late
<1>1. ASSUME lateFires'[j] = lateFires[j], jobs'[j].enabled = jobs[j].enabled PROVE Goal
    BY <1>l, <1>1
<1>2. CASE LoopFault \/ Clock \/ StartLoop \/ UNCHANGED allVars
  <2>1. UNCHANGED <<lateFires, jobs>>
      BY <1>2 DEF LoopFault, Clock, StartLoop, allVars, cronVars, cronHist
  <2> QED BY <2>1, <1>1
<1>3. CASE Launch \/ AdvanceCall \/ ProcessCrash
  <2>1. UNCHANGED <<lateFires, jobs>>
      BY <1>3 DEF Launch, AdvanceCall, Advance, AdvanceCancel, AdvanceDone, ProcessCrash, cronHist
  <2> QED BY <2>1, <1>1
<1>4. ASSUME NEW t \in Tasks, Bridge(t) \/ BridgeDbError(t), ~\E k \in Refs : ReconcileDisabled(t, k)
      PROVE  Goal
  <2>1. UNCHANGED <<lateFires, jobs>>
      BY <1>4 DEF Bridge, ReconcileList, ReconcileEnabled, EnsureSchedule, EnsureFails, CallFails,
         ReconcileDone, BridgeDbError, cronHist
  <2> QED BY <2>1, <1>1
<1>5. ASSUME NEW t \in Tasks, NEW k \in Refs, ReconcileDisabled(t, k)
      PROVE  Goal \/ (ReconcileDisabled(t, j) /\ lateFires[j] = -1 /\ ~jobs[j].enabled)
  <2>1. CASE k = j /\ lateFires[j] = -1 /\ ~jobs[j].enabled
      BY <1>5, <2>1
  <2>2. CASE ~(k = j /\ lateFires[j] = -1 /\ ~jobs[j].enabled)
    <3>1. jobs' = jobs /\ lateFires'[j] = lateFires[j]
        BY <1>5, <2>2, <1>t DEF ReconcileDisabled, BridgeTypes
    <3> QED BY <3>1, <1>1
  <2> QED BY <2>1, <2>2
<1>6. ASSUME NEW h \in Handlers, Handler(h) PROVE Goal
  <2>1. CASE CronRunWrite(h)
    <3>1. /\ lateFires' = IF readRow[h].enabled THEN [lateFires EXCEPT ![target[h]] = -1]
                          ELSE lateFires
          /\ jobs' = [jobs EXCEPT ![target[h]] = readRow[h]]
          /\ target[h] \in Refs
          /\ readRow[h].enabled \in BOOLEAN
        BY <2>1, <1>t DEF CronRunWrite, Safe, BridgeSafe, HoldInv, JobRow
    <3>2. CASE target[h] = j /\ readRow[h].enabled
        BY <3>1, <3>2, <1>t DEF BridgeTypes
    <3>3. CASE target[h] = j /\ ~readRow[h].enabled
        BY <3>1, <3>3, <1>t, <1>l DEF BridgeTypes
    <3>4. CASE target[h] # j
      <4>1. jobs'[j] = jobs[j] /\ lateFires'[j] = lateFires[j]
          BY <3>1, <3>4, <1>t DEF BridgeTypes
      <4> QED BY <4>1, <1>1
    <3> QED BY <3>2, <3>3, <3>4
  <2>2. CASE CronRunWake(h)
    <3>1. UNCHANGED <<lateFires, jobs>>
        BY <2>2 DEF CronRunWake, cronHist
    <3> QED BY <3>1, <1>1
  <2>3. ASSUME NEW k \in Refs, NEW s \in Schedules, CronUpdateInsert(h, k, s) PROVE Goal
    <3>1. lateFires'[j] = lateFires[j] /\ (k # j => jobs'[j] = jobs[j]) /\ jobs[k].state = "unused"
        BY <2>3, <1>t DEF CronUpdateInsert, cronHist, BridgeTypes
    <3> QED BY <3>1, <1>1, <1>l
  <2>4. CASE CronUpdateDelete(h)
    <3>1. lateFires'[j] = lateFires[j] /\ jobs'[j].enabled = jobs[j].enabled
        BY <2>4, <1>t DEF CronUpdateDelete, BridgeTypes, JobRow
    <3> QED BY <3>1, <1>1
  <2> QED BY <1>6, <2>1, <2>2, <2>3, <2>4 DEF Handler
<1>7. ASSUME NEW h \in Handlers, Request(h) PROVE Goal
  <2>1. ASSUME NEW k \in Refs, NEW on \in BOOLEAN, CronEnable(h, k, on) PROVE Goal
    <3>1. /\ jobs' = [jobs EXCEPT ![k].enabled = on]
          /\ lateFires' = IF on THEN [lateFires EXCEPT ![k] = -1] ELSE lateFires
        BY <2>1 DEF CronEnable
    <3>2. CASE k = j /\ on
        BY <3>1, <3>2, <1>t DEF BridgeTypes
    <3>3. CASE k = j /\ ~on
      <4>1. lateFires'[j] = lateFires[j] /\ ~jobs'[j].enabled
          BY <3>1, <3>3, <1>t DEF BridgeTypes, JobRow
      <4> QED BY <4>1, <1>l
    <3>4. CASE k # j
      <4>1. jobs'[j] = jobs[j] /\ lateFires'[j] = lateFires[j]
          BY <3>1, <3>4, <1>t DEF BridgeTypes
      <4> QED BY <4>1, <1>1
    <3> QED BY <3>2, <3>3, <3>4
  <2>2. ASSUME NEW k \in Refs, NEW s \in Schedules, CronCreate(h, k, s) PROVE Goal
    <3>1. lateFires'[j] = lateFires[j] /\ (k # j => jobs'[j] = jobs[j]) /\ jobs[k].state = "unused"
        BY <2>2, <1>t DEF CronCreate, cronHist, BridgeTypes
    <3> QED BY <3>1, <1>1, <1>l
  <2>3. ASSUME NEW k \in Refs, CronDelete(h, k) PROVE Goal
    <3>1. lateFires'[j] = lateFires[j] /\ jobs'[j].enabled = jobs[j].enabled
        BY <2>3, <1>t DEF CronDelete, BridgeTypes, JobRow
    <3> QED BY <3>1, <1>1
  <2>4. ASSUME NEW k \in Refs, NEW name \in {"run", "update"}, CronRead(h, name, k) PROVE Goal
    <3>1. UNCHANGED <<lateFires, jobs>>
        BY <2>4 DEF CronRead, cronHist
    <3> QED BY <3>1, <1>1
  <2> QED BY <1>7, <2>1, <2>2, <2>3, <2>4 DEF Request
<1> QED BY <1>2, <1>3, <1>4, <1>5, <1>6, <1>7 DEF CronNext, Program
\* The tasks that may schedule a job are finitely many.
LEMMA SchedulersFinite ==
    ASSUME NEW S \in SUBSET Tasks
    PROVE  IsFiniteSet(S) /\ Cardinality(S) \in Nat
<1>1. IsFiniteSet(Handlers \cup {"boot"})
    BY CronAssumption, FS_AddElement
<1>2. IsFiniteSet((Handlers \cup {"boot"}) \cup {"scheduler"})
    BY <1>1, FS_AddElement
<1>3. Tasks = (Handlers \cup {"boot"}) \cup {"scheduler"}
    BY DEF Tasks
<1>4. IsFiniteSet(S)
    BY <1>2, <1>3, FS_Subset
<1> QED BY <1>4, FS_CardinalityType

\* The bound as a statement about three quantities: the count n, the fires U
\* and the tasks S.
Within(n, U, S) ==
    /\ IsFiniteSet(U)
    /\ n + Cardinality(U) + Cardinality(S) <= Cardinality(Handlers)

\* Fewer fires and fewer tasks stay within the bound.
LEMMA FewerWithin ==
    ASSUME NEW n \in Nat, NEW U, NEW S \in SUBSET Tasks, Within(n, U, S),
           NEW V \in SUBSET U, NEW T \in SUBSET S
    PROVE  Within(n, V, T)
<1>1. IsFiniteSet(V) /\ Cardinality(V) <= Cardinality(U) /\ Cardinality(U) \in Nat
    BY FS_Subset, FS_CardinalityType DEF Within
<1>2. Cardinality(V) \in Nat
    BY <1>1, FS_CardinalityType
<1>3. IsFiniteSet(S) /\ Cardinality(S) \in Nat
    BY SchedulersFinite
<1>4. Cardinality(T) <= Cardinality(S) /\ IsFiniteSet(T)
    BY <1>3, FS_Subset
<1>5. Cardinality(T) \in Nat
    BY <1>4, FS_CardinalityType
<1>6. Cardinality(Handlers) \in Nat
    BY CronAssumption, FS_CardinalityType
<1> QED BY <1>1, <1>2, <1>3, <1>4, <1>5, <1>6 DEF Within

\* A fire announced leaves one less to come.
LEMMA AnnouncedWithin ==
    ASSUME NEW n \in Nat, NEW U, NEW S \in SUBSET Tasks, Within(n, U, S), NEW i \in U
    PROVE  Within(n + 1, U \ {i}, S)
<1>1. /\ IsFiniteSet(U \ {i}) /\ Cardinality(U \ {i}) = Cardinality(U) - 1
      /\ Cardinality(U) \in Nat
    BY FS_RemoveElement, FS_CardinalityType DEF Within
<1>2. Cardinality(S) \in Nat /\ Cardinality(Handlers) \in Nat
    BY SchedulersFinite, CronAssumption, FS_CardinalityType
<1> QED BY <1>1, <1>2 DEF Within

\* A task that schedules a fire is done.
LEMMA ScheduledWithin ==
    ASSUME NEW n \in Nat, NEW U, NEW S \in SUBSET Tasks, Within(n, U, S), NEW t \in S, NEW i
    PROVE  Within(n, U \cup {i}, S \ {t})
<1>0. IsFiniteSet(U) /\ Cardinality(U) \in Nat
    BY FS_CardinalityType DEF Within
<1>1. /\ IsFiniteSet(U \cup {i})
      /\ \/ Cardinality(U \cup {i}) = Cardinality(U)
         \/ Cardinality(U \cup {i}) = Cardinality(U) + 1
    BY <1>0, FS_AddElement
<1>2. IsFiniteSet(S) /\ Cardinality(S) \in Nat /\ Cardinality(Handlers) \in Nat
    BY SchedulersFinite, CronAssumption, FS_CardinalityType
<1>3. Cardinality(S \ {t}) = Cardinality(S) - 1
    BY <1>2, FS_RemoveElement
<1> QED BY <1>0, <1>1, <1>2, <1>3 DEF Within

\* The state's bound, in these terms.
LEMMA LateWithin ==
    ASSUME NEW j \in Refs
    PROVE  Late(j) <=> /\ lateFires[j] >= -1
                       /\ jobs[j].state = "unused" => lateFires[j] = -1
                       /\ lateFires[j] >= 0 =>
                            /\ ~jobs[j].enabled
                            /\ Within(lateFires[j], Unheard(j), Schedulers(j))
BY DEF Late, Within

\* A cancel of the fires of j leaves at most the row the loop is about to
\* announce.
LEMMA CancelledUnheard ==
    ASSUME Safe, RecoverInv, NEW j \in Refs, ~Gone(j), CancelJob(j), LoopUntouched,
           pc' = pc, cur' = cur, NEW i \in Unheard(j)'
    PROVE  pc = "publish" /\ i = cur
<1>1. /\ i \in FireIds /\ Job(i)' = j
      /\ Unfired(i)' \/ i \in toRecover \/ (pc = "publish" /\ i = cur)
    BY DEF Unheard, LoopUntouched, loopVars
<1>2. ASSUME Unfired(i)' PROVE FALSE
  <2>1. status'[i] \in {"pending", "firing"}
      BY <1>2 DEF Unfired
  <2>2. Job(i) # j /\ spec' = spec
      BY <1>1, <2>1, CancelClears DEF Safe
  <2> QED BY <1>1, <2>2 DEF Job
<1>3. ASSUME i \in toRecover PROVE FALSE
  <2>1. spec' = spec
      BY DEF CancelJob, CancelByKindRef, DeleteUnfired
  <2>2. Job(i) = j
      BY <1>1, <2>1 DEF Job
  <2> QED BY <1>3, <2>2 DEF RecoverInv
<1> QED BY <1>1, <1>2, <1>3

\* When a task cancels the fires of j as disabled, each other task has at most
\* one fire of j in hand.
LEMMA LateStarts ==
    ASSUME Safe, RecoverInv, NEW t \in Tasks, NEW j \in Refs, ReconcileDisabled(t, j),
           NEW U, U = Unheard(j)', NEW S, S = Schedulers(j)'
    PROVE  Within(0, U, S)
<1>a. task[t] = "each" /\ j \in todoOff[t] /\ t \in Tasks
    BY DEF ReconcileDisabled
<1>b. t \in Handlers \/ t = "boot"
    BY <1>a DEF Safe, BridgeSafe, TaskInv, Tasks
<1>u. U \subseteq {i \in FireIds : pc = "publish" /\ i = cur}
  <2>1. ~Gone(j)
      BY <1>a DEF Gone
  <2>2. CancelJob(j) /\ LoopUntouched /\ pc' = pc /\ cur' = cur
      BY DEF ReconcileDisabled
  <2>3. \A i \in Unheard(j)' : pc = "publish" /\ i = cur
      BY <2>1, <2>2, CancelledUnheard
  <2>4. Unheard(j)' \subseteq FireIds
      BY DEF Unheard
  <2> QED BY <2>3, <2>4
<1>s. S = {u \in Tasks : j \in todoOn[u] \/ hand[u] = j}
    BY DEF Schedulers, ReconcileDisabled
<1>h. \A u \in Tasks : j \in todoOn[u] \/ hand[u] = j => task[u] # "off"
    BY DEF Safe, BridgeSafe, HoldInv
<1>n. t \notin S
    BY <1>a, <1>s DEF Safe, BridgeSafe, HoldInv
<1>c. /\ IsFiniteSet(Handlers) /\ Cardinality(Handlers) \in Nat
      /\ "boot" \notin Handlers /\ "scheduler" \notin Handlers
    BY CronAssumption, FS_CardinalityType
<1>1. CASE t = "boot"
  <2>1. boot = "init"
      BY <1>1, <1>a DEF Safe, BridgeSafe, TaskInv
  <2>2. pc = "down" /\ \A h \in Handlers : task[h] = "off"
      BY <2>1 DEF Safe, BridgeSafe, TaskInv, Alive
  <2>3. task["scheduler"] = "off"
      BY <2>2 DEF Safe, BridgeSafe, TaskInv
  <2>4. U = {} /\ S = {}
      BY <1>u, <1>s, <1>h, <1>n, <1>1, <2>2, <2>3 DEF Tasks
  <2> QED BY <2>4, <1>c, FS_EmptySet DEF Within
<1>2. CASE t \in Handlers
  <2>1. boot # "init" /\ task["boot"] = "off"
      BY <1>2, <1>a DEF Safe, BridgeSafe, TaskInv, Alive
  <2>2. S \subseteq (Handlers \ {t}) \cup {"scheduler"}
      BY <1>s, <1>h, <1>n, <2>1 DEF Tasks
  <2>3. /\ IsFiniteSet(Handlers \ {t})
        /\ Cardinality(Handlers \ {t}) = Cardinality(Handlers) - 1
      BY <1>c, <1>2, FS_RemoveElement
  <2>4. /\ IsFiniteSet((Handlers \ {t}) \cup {"scheduler"})
        /\ Cardinality((Handlers \ {t}) \cup {"scheduler"}) = Cardinality(Handlers)
    <3>1. "scheduler" \notin Handlers \ {t}
        BY <1>c
    <3>2. /\ IsFiniteSet((Handlers \ {t}) \cup {"scheduler"})
          /\ Cardinality((Handlers \ {t}) \cup {"scheduler"}) = Cardinality(Handlers \ {t}) + 1
        BY <2>3, <3>1, FS_AddElement
    <3> QED BY <2>3, <3>2, <1>c
  <2>5. CASE pc = "publish"
    <3>1. "scheduler" \notin S
        BY <2>5, <1>s, <1>h DEF Safe, BridgeSafe, TaskInv
    <3>2. S \subseteq Handlers \ {t}
        BY <3>1, <2>2
    <3>3. IsFiniteSet(S) /\ Cardinality(S) <= Cardinality(Handlers) - 1
        BY <3>2, <2>3, FS_Subset
    <3>4. U \subseteq {cur}
        BY <1>u
    <3>5. IsFiniteSet({cur}) /\ Cardinality({cur}) = 1
        BY FS_Singleton
    <3>6. IsFiniteSet(U) /\ Cardinality(U) <= 1
        BY <3>4, <3>5, FS_Subset
    <3>7. Cardinality(U) \in Nat /\ Cardinality(S) \in Nat
        BY <3>3, <3>6, FS_CardinalityType
    <3> QED BY <3>3, <3>6, <3>7, <1>c DEF Within
  <2>6. CASE pc # "publish"
    <3>1. U = {}
        BY <1>u, <2>6
    <3>2. IsFiniteSet(S) /\ Cardinality(S) <= Cardinality(Handlers)
        BY <2>2, <2>4, FS_Subset
    <3>3. Cardinality(S) \in Nat
        BY <3>2, FS_CardinalityType
    <3> QED BY <3>1, <3>2, <3>3, <1>c, FS_EmptySet DEF Within
  <2> QED BY <2>5, <2>6
<1> QED BY <1>b, <1>1, <1>2
\* An announcement of the loop counts for its job when it is the first one.
LEMMA LoopAnnounces ==
    ASSUME Safe, LoopAlone, NEW j \in Refs, lateFires[j] >= 0
    PROVE  \/ lateFires'[j] = lateFires[j] /\ Unheard(j)' \subseteq Unheard(j)
           \/ /\ lateFires'[j] = lateFires[j] + 1
              /\ \E i \in Unheard(j) : Unheard(j)' \subseteq Unheard(j) \ {i}
<1>t. /\ status \in [FireIds -> Status] /\ firedAt \in [FireIds -> SUBSET (0..MaxTime)]
      /\ toRecover \subseteq FireIds
    BY DEF Safe, LoopSafe, Typed, TypeOK, TableTypeOK
<1>r. \A i \in FireIds : i \in toRecover \/ (pc = "publish" /\ i = cur) => status[i] # "unused"
    BY NoneAssumption DEF Safe, LoopSafe, Typed, TypeOK, ClaimInv, HoldingPCs, Status
<1>l. lateFires'[j] = IF j \in AnnouncedNow THEN lateFires[j] + 1 ELSE lateFires[j]
    BY DEF LoopAlone
<1>1. LoopEffect
    BY LoopDoes DEF LoopAlone, LoopTakes, Safe
<1>2. Unheard(j)' \subseteq Unheard(j)
  <2>1. [CronNext]_allVars
      BY DEF CronNext, Program
  <2>2. ~\E t \in Tasks, i \in FireIds : EnsureSchedule(t, i)
      BY <1>1, <1>t DEF LoopEffect, EnsureSchedule, Insert
  <2> QED BY <2>1, <2>2, UnheardShrinks DEF Safe
<1>3. CASE j \notin AnnouncedNow
    BY <1>2, <1>3, <1>l
<1>4. CASE j \in AnnouncedNow
  <2>1. PICK i \in FireIds : firedAt[i] = {} /\ firedAt'[i] # {} /\ Job(i) = j
      BY <1>4 DEF AnnouncedNow, Job
  <2>2. Announces(i)
      BY <1>1, <2>1, <1>t DEF LoopEffect, Announces
  <2>3. i \in Unheard(j)
      BY <2>1, <2>2, <1>r DEF Announces, Unheard
  <2>4. i \notin Unheard(j)'
      BY <2>1 DEF Unheard
  <2> QED BY <1>2, <1>4, <1>l, <2>3, <2>4
<1> QED BY <1>3, <1>4

\* A scheduled fire takes the place of the task that schedules it.
LEMMA TaskSchedules ==
    ASSUME Safe, NEW t \in Tasks, NEW i \in FireIds, EnsureSchedule(t, i), NEW j \in Refs
    PROVE  \/ Unheard(j)' \subseteq Unheard(j) /\ Schedulers(j)' \subseteq Schedulers(j)
           \/ /\ t \in Schedulers(j)
              /\ Unheard(j)' \subseteq Unheard(j) \cup {i}
              /\ Schedulers(j)' \subseteq Schedulers(j) \ {t}
<1>t. /\ BridgeTypes /\ None \notin Refs /\ status \in [FireIds -> Status]
      /\ spec \in [FireIds -> FireSpec \cup {None}]
    BY NoneAssumption DEF Safe, BridgeSafe, LoopSafe, Typed, TypeOK, TableTypeOK
<1>1. /\ task[t] = "schedule" /\ todoOn' = todoOn /\ hand' = [hand EXCEPT ![t] = None]
      /\ pc' = pc /\ cur' = cur /\ toRecover' = toRecover /\ firedAt' = firedAt
      /\ status' = [status EXCEPT ![i] = "pending"]
      /\ spec' = [spec EXCEPT ![i] = CronFire(hand[t], NextFireFor(hand[t]))]
    BY DEF EnsureSchedule, Insert, loopVars, histVars
<1>2. hand[t] \notin todoOn[t] /\ hand[t] \in Refs
    BY <1>1 DEF Safe, BridgeSafe, HoldInv
<1>3. spec'[i].ref_id = hand[t]
    BY <1>1, <1>t DEF CronFire
<1>4. Unheard(j)' \subseteq Unheard(j) \cup {i}
    BY <1>1, <1>t DEF Unheard, Job, Unfired
<1>5. Schedulers(j)' \subseteq Schedulers(j)
    BY <1>1, <1>t DEF Schedulers, BridgeTypes
<1>6. CASE hand[t] = j
  <2>1. t \in Schedulers(j) /\ t \notin Schedulers(j)'
      BY <1>1, <1>2, <1>6, <1>t DEF Schedulers, BridgeTypes
  <2> QED BY <1>4, <1>5, <2>1
<1>7. CASE hand[t] # j
  <2>1. i \notin Unheard(j)'
      BY <1>3, <1>7 DEF Unheard, Job
  <2> QED BY <1>4, <1>5, <2>1
<1> QED BY <1>6, <1>7
\* The bound on late fires is kept.
LEMMA LateStep == Safe /\ RecoverInv /\ LateInv /\ [CronNext]_allVars => LateInv'
<1> SUFFICES ASSUME Safe, RecoverInv, LateInv, [CronNext]_allVars, NEW j \in Refs
             PROVE  Late(j)'
    BY DEF LateInv
<1>s. LoopSafe /\ BridgeSafe /\ Late(j) /\ lateFires[j] \in Int
    BY DEF Safe, LateInv, BridgeSafe, BridgeTypes
<1>a. PICK n, U, S : n = lateFires[j] /\ U = Unheard(j) /\ S = Schedulers(j)
    BY <1>s
<1>b. PICK V, T : V = Unheard(j)' /\ T = Schedulers(j)'
    OBVIOUS
<1>t. S \in SUBSET Tasks /\ T \in SUBSET Tasks
    BY <1>a, <1>b DEF Schedulers
<1>w. n = -1 \/ (n \in Nat /\ ~jobs[j].enabled /\ jobs[j].state # "unused" /\ Within(n, U, S))
    BY <1>s, <1>a, LateWithin
<1>k. jobs[j].state # "unused" => jobs'[j].state # "unused"
    BY JobsGrow DEF JobsKept
<1>0. ASSUME lateFires'[j] = -1 PROVE Late(j)'
    BY <1>0 DEF Late
<1>1. ASSUME NEW m \in Nat, lateFires'[j] = m, jobs'[j].state # "unused", ~jobs'[j].enabled,
             Within(m, V, T)
      PROVE  Late(j)'
    BY <1>1, <1>b DEF Late, Within
<1>2. CASE LoopAlone
  <2>1. jobs' = jobs /\ todoOn' = todoOn /\ hand' = hand
      BY <1>2 DEF LoopAlone, cronVars, bridgeVars
  <2>2. CASE n = -1
    <3>1. lateFires'[j] = -1
        BY <1>2, <2>2, <1>a DEF LoopAlone
    <3> QED BY <3>1, <1>0
  <2>3. CASE n \in Nat
    <3>1. T \subseteq S
        BY <1>a, <1>b, <2>1 DEF Schedulers
    <3>2. CASE lateFires'[j] = n /\ V \subseteq U
        BY <1>1, <1>t, <1>w, <2>1, <2>3, <3>1, <3>2, FewerWithin
    <3>3. ASSUME lateFires'[j] = n + 1, NEW i \in U, V \subseteq U \ {i} PROVE Late(j)'
      <4>1. Within(n + 1, U \ {i}, S) /\ n + 1 \in Nat
          BY <1>t, <1>w, <2>3, AnnouncedWithin
      <4>2. Within(n + 1, V, T)
          BY <4>1, <1>t, <3>1, <3>3, FewerWithin
      <4> QED BY <1>1, <1>w, <2>1, <2>3, <3>3, <4>1, <4>2
    <3> QED BY <1>2, <1>a, <1>b, <2>3, <3>2, <3>3, LoopAnnounces
  <2> QED BY <1>w, <2>2, <2>3
<1>3. ASSUME NEW t \in Tasks, ReconcileDisabled(t, j), n = -1, ~jobs[j].enabled PROVE Late(j)'
  <2>1. lateFires'[j] = 0 /\ jobs' = jobs
      BY <1>3, <1>a, <1>s DEF ReconcileDisabled, BridgeSafe, BridgeTypes
  <2>2. jobs[j].state # "unused"
      BY <1>3 DEF ReconcileDisabled, Safe, JobsInv, HeldCreated
  <2>3. Within(0, V, T)
      BY <1>3, <1>b, LateStarts
  <2> QED BY <1>1, <1>3, <2>1, <2>2, <2>3
<1>4. CASE n \in Nat /\ lateFires'[j] = n /\ ~jobs'[j].enabled /\ ~LoopAlone
  <2>1. CASE \E t \in Tasks, i \in FireIds : EnsureSchedule(t, i)
    <3>1. PICK t \in Tasks, i \in FireIds : EnsureSchedule(t, i)
        BY <2>1
    <3>2. CASE V \subseteq U /\ T \subseteq S
        BY <1>1, <1>t, <1>w, <1>k, <1>4, <3>2, FewerWithin
    <3>3. CASE t \in S /\ V \subseteq U \cup {i} /\ T \subseteq S \ {t}
      <4>0. n \in Nat /\ S \in SUBSET Tasks /\ Within(n, U, S) /\ t \in S
          BY <1>t, <1>w, <1>4, <3>3
      <4>1. Within(n, U \cup {i}, S \ {t})
          BY <4>0, ScheduledWithin
      <4>2. Within(n, V, T)
          BY <4>1, <1>t, <1>4, <3>3, FewerWithin
      <4> QED BY <1>1, <1>w, <1>k, <1>4, <4>2
    <3> QED BY <1>a, <1>b, <3>1, <3>2, <3>3, TaskSchedules
  <2>2. CASE ~\E t \in Tasks, i \in FireIds : EnsureSchedule(t, i)
    <3>1. V \subseteq U
        BY <1>a, <1>b, <1>s, <2>2, UnheardShrinks
    <3>2. T \subseteq S
        BY <1>a, <1>b, <1>s, <1>w, <1>4, SchedulersShrink DEF On
    <3> QED BY <1>1, <1>t, <1>w, <1>k, <1>4, <3>1, <3>2, FewerWithin
  <2> QED BY <2>1, <2>2
<1> QED BY <1>a, <1>s, <1>0, <1>2, <1>3, <1>4, LateMoves
\* Everything so far holds at the start...
LEMMA CronInitLate == CronInit => Safe /\ RecoverInv /\ LateInv
<1> SUFFICES ASSUME CronInit PROVE Safe /\ RecoverInv /\ LateInv
    OBVIOUS
<1>1. LoopSafe /\ BridgeSafe
    BY CronInitSafe
<1>2. JobsInv
    BY NoneAssumption DEF CronInit, Init, TableInit, TasksIdle, JobsInv, FiresCreated, HeldCreated,
       ReadCreated
<1>3. RecoverInv
    BY DEF CronInit, Init, TableInit, RecoverInv
<1>4. LateInv
    BY DEF CronInit, LateInv, Late
<1> QED BY <1>1, <1>2, <1>3, <1>4 DEF Safe

\* ... and is kept.
LEMMA CronLateStep ==
    Safe /\ RecoverInv /\ LateInv /\ [CronNext]_allVars => (Safe /\ RecoverInv /\ LateInv)'
BY LoopStaysSafe, BridgeStep, JobsStep, RecoverStep, LateStep DEF Safe

\* Once a reconcile has cancelled a disabled job's fires, at most one more fire
\* per handler that may run is announced until the job is enabled again: a
\* disable always ends in silence, whatever was under way.
THEOREM CronDisableEndsInSilence == CronSpec => []LateFiresBounded
<1>1. BridgeTypes /\ LateInv => LateFiresBounded
  <2> SUFFICES ASSUME BridgeTypes, LateInv, NEW j \in Refs
               PROVE  lateFires[j] <= Cardinality(Handlers)
      BY DEF LateFiresBounded
  <2>1. Late(j) /\ lateFires[j] \in Int /\ Cardinality(Handlers) \in Nat
      BY CronAssumption, FS_CardinalityType DEF LateInv, BridgeTypes
  <2>2. ASSUME lateFires[j] >= 0 PROVE lateFires[j] <= Cardinality(Handlers)
    <3>1. Cardinality(Unheard(j)) \in Nat
        BY <2>1, <2>2, FS_CardinalityType DEF Late
    <3>2. Cardinality(Schedulers(j)) \in Nat
        BY SchedulersFinite DEF Schedulers
    <3> QED BY <2>1, <2>2, <3>1, <3>2 DEF Late
  <2> QED BY <2>1, <2>2
<1>2. Safe => BridgeTypes
    BY DEF Safe, BridgeSafe
<1> QED BY <1>1, <1>2, CronInitLate, CronLateStep, PTL DEF CronSpec
-----------------------------------------------------------------------------
(***************************************************************************)
(* Distance.  An untouched job has its fires cancelled after each          *)
(* announcement, before the next one can come: by the advance of that      *)
(* fire, or by the reconcile of the next start.                            *)
(***************************************************************************)

\* A job that no step disables or deletes stays on.
LEMMA OnStays ==
    ASSUME Safe, [CronNext]_allVars, NEW j \in Refs, j \notin touched'
    PROVE  /\ j \notin touched
           /\ On(j) => On(j)'
           /\ jobs'[j].state = "deleted" => jobs[j].state = "deleted"
<1> DEFINE Goal == /\ j \notin touched
                   /\ On(j) => On(j)'
                   /\ jobs'[j].state = "deleted" => jobs[j].state = "deleted"
<1>t. /\ BridgeTypes /\ Handlers \subseteq Tasks /\ jobs[j] \in JobRow
    BY DEF Safe, BridgeSafe, BridgeTypes, Tasks
<1>1. ASSUME touched \subseteq touched', jobs'[j] = jobs[j] PROVE Goal
    BY <1>1 DEF On, Live
<1>2. CASE UNCHANGED <<jobs, touched>>
    BY <1>1, <1>2
<1>3. CASE \/ LoopAlone \/ LoopFault \/ Clock \/ StartLoop \/ Launch \/ ProcessCrash
           \/ AdvanceCall \/ UNCHANGED allVars
    BY <1>2, <1>3 DEF LoopAlone, LoopFault, Clock, StartLoop, Launch, ProcessCrash, AdvanceCall,
       Advance, AdvanceCancel, AdvanceDone, allVars, cronVars, cronHist
<1>4. ASSUME NEW t \in Tasks, Bridge(t) \/ BridgeDbError(t) PROVE Goal
    BY <1>2, <1>4 DEF Bridge, ReconcileList, ReconcileDisabled, ReconcileEnabled, EnsureSchedule,
       EnsureFails, CallFails, ReconcileDone, BridgeDbError, cronHist
<1>5. ASSUME NEW h \in Handlers, Handler(h) PROVE Goal
  <2>1. CASE CronRunWrite(h)
    <3>1. /\ jobs' = [jobs EXCEPT ![target[h]] = readRow[h]]
          /\ touched' = IF readRow[h].enabled THEN touched ELSE touched \cup {target[h]}
          /\ readRow[h].state = "live"
        BY <2>1, <1>t DEF CronRunWrite, Safe, JobsInv, ReadCreated
    <3>2. CASE target[h] = j
      <4>1. readRow[h].enabled /\ jobs'[j] = readRow[h]
          BY <3>1, <3>2, <1>t DEF BridgeTypes
      <4>2. touched' = touched /\ On(j)' /\ jobs'[j].state = "live"
          BY <3>1, <4>1 DEF On, Live
      <4> QED BY <4>2
    <3>3. CASE target[h] # j
      <4>1. jobs'[j] = jobs[j] /\ touched \subseteq touched'
          BY <3>1, <3>3, <1>t DEF BridgeTypes
      <4> QED BY <4>1, <1>1
    <3> QED BY <3>2, <3>3
  <2>2. CASE CronRunWake(h)
      BY <2>2, <1>2 DEF CronRunWake, cronHist
  <2>3. ASSUME NEW k \in Refs, NEW s \in Schedules, CronUpdateInsert(h, k, s) PROVE Goal
    <3>1. /\ touched' = touched /\ jobs[k].state = "unused"
          /\ jobs' = [jobs EXCEPT ![k] = [state |-> "live", enabled |-> readRow[h].enabled,
                                          schedule |-> s]]
        BY <2>3 DEF CronUpdateInsert, cronHist
    <3>2. CASE k = j
      <4>1. jobs'[j].state = "live" /\ ~On(j)
          BY <3>1, <3>2, <1>t DEF On, Live, BridgeTypes
      <4> QED BY <4>1, <3>1
    <3>3. CASE k # j
      <4>1. jobs'[j] = jobs[j]
          BY <3>1, <3>3, <1>t DEF BridgeTypes
      <4> QED BY <4>1, <3>1, <1>1
    <3> QED BY <3>2, <3>3
  <2>4. CASE CronUpdateDelete(h)
    <3>1. target[h] # j /\ touched \subseteq touched'
        BY <2>4 DEF CronUpdateDelete
    <3>2. jobs'[j] = jobs[j]
        BY <2>4, <3>1, <1>t DEF CronUpdateDelete, BridgeTypes
    <3> QED BY <3>1, <3>2, <1>1
  <2> QED BY <1>5, <2>1, <2>2, <2>3, <2>4 DEF Handler
<1>6. ASSUME NEW h \in Handlers, Request(h) PROVE Goal
  <2>1. ASSUME NEW k \in Refs, NEW on \in BOOLEAN, CronEnable(h, k, on) PROVE Goal
    <3>1. /\ jobs' = [jobs EXCEPT ![k].enabled = on]
          /\ touched' = IF on THEN touched ELSE touched \cup {k}
        BY <2>1 DEF CronEnable
    <3>2. CASE k = j
      <4>1. on /\ touched' = touched
          BY <3>1, <3>2
      <4>2. jobs'[j].state = jobs[j].state /\ jobs'[j].enabled = on
          BY <3>1, <3>2, <1>t DEF BridgeTypes, JobRow
      <4> QED BY <4>1, <4>2 DEF On, Live
    <3>3. CASE k # j
      <4>1. jobs'[j] = jobs[j] /\ touched \subseteq touched'
          BY <3>1, <3>3, <1>t DEF BridgeTypes
      <4> QED BY <4>1, <1>1
    <3> QED BY <3>2, <3>3
  <2>2. ASSUME NEW k \in Refs, NEW s \in Schedules, CronCreate(h, k, s) PROVE Goal
    <3>1. /\ touched' = touched /\ jobs[k].state = "unused"
          /\ jobs' = [jobs EXCEPT ![k] = [state |-> "live", enabled |-> TRUE, schedule |-> s]]
        BY <2>2 DEF CronCreate, cronHist
    <3>2. CASE k = j
      <4>1. jobs'[j].state = "live" /\ ~On(j)
          BY <3>1, <3>2, <1>t DEF On, Live, BridgeTypes
      <4> QED BY <4>1, <3>1
    <3>3. CASE k # j
      <4>1. jobs'[j] = jobs[j]
          BY <3>1, <3>3, <1>t DEF BridgeTypes
      <4> QED BY <4>1, <3>1, <1>1
    <3> QED BY <3>2, <3>3
  <2>3. ASSUME NEW k \in Refs, CronDelete(h, k) PROVE Goal
    <3>1. k # j /\ touched \subseteq touched'
        BY <2>3 DEF CronDelete
    <3>2. jobs'[j] = jobs[j]
        BY <2>3, <3>1, <1>t DEF CronDelete, BridgeTypes
    <3> QED BY <3>1, <3>2, <1>1
  <2>4. ASSUME NEW k \in Refs, NEW name \in {"run", "update"}, CronRead(h, name, k) PROVE Goal
      BY <2>4, <1>2 DEF CronRead, cronHist
  <2> QED BY <1>6, <2>1, <2>2, <2>3, <2>4 DEF Request
<1> QED BY <1>3, <1>4, <1>5, <1>6 DEF CronNext, Program
\* The jobs nobody touched stay on as long as they have fires or are to get
\* one.
LEMMA UntouchedStep == Safe /\ UntouchedInv /\ [CronNext]_allVars => UntouchedInv'
<1> SUFFICES ASSUME Safe, UntouchedInv, [CronNext]_allVars PROVE UntouchedInv'
    OBVIOUS
<1>k. /\ RowsKept
      /\ NoNewRow \/ \E t \in Tasks, i \in FireIds : EnsureSchedule(t, i)
    BY RowsGrow DEF Safe
<1>t. BridgeTypes /\ spec \in [FireIds -> FireSpec \cup {None}] /\ status \in [FireIds -> Status]
    BY DEF Safe, BridgeSafe, LoopSafe, Typed, TypeOK, TableTypeOK
<1>j. \A i \in FireIds : status[i] # "unused" => Job(i) \in Refs /\ Job(i)' = Job(i)
    BY <1>k DEF Safe, LoopSafe, RowsInv, RowsKept, Job
<1>1. ASSUME NEW j \in Refs, jobs'[j].state = "deleted" PROVE j \in touched'
    BY <1>1, OnStays DEF UntouchedInv
<1>2. ASSUME NEW i \in FireIds, status'[i] # "unused", Job(i)' \notin touched' PROVE On(Job(i))'
  <2>1. CASE status[i] # "unused"
    <3>1. PICK j \in Refs : j = Job(i) /\ Job(i)' = j
        BY <2>1, <1>j
    <3>2. On(j)'
        BY <1>2, <2>1, <3>1, OnStays DEF UntouchedInv
    <3> QED BY <3>1, <3>2 DEF On, Live
  <2>2. CASE status[i] = "unused"
    <3>1. PICK t \in Tasks, k \in FireIds : EnsureSchedule(t, k)
        BY <1>2, <2>2, <1>k DEF NoNewRow
    <3>2. /\ task[t] = "schedule" /\ jobs' = jobs /\ touched' = touched
          /\ status' = [status EXCEPT ![k] = "pending"]
          /\ spec' = [spec EXCEPT ![k] = CronFire(hand[t], NextFireFor(hand[t]))]
        BY <3>1 DEF EnsureSchedule, Insert, cronHist
    <3>3. k = i
        BY <1>2, <2>2, <3>2, <1>t
    <3>4. Job(i)' = hand[t] /\ hand[t] \in Refs
        BY <3>2, <3>3, <1>t DEF Job, CronFire, Safe, BridgeSafe, HoldInv
    <3>5. On(hand[t])
        BY <1>2, <3>2, <3>4 DEF UntouchedInv
    <3> QED BY <3>2, <3>4, <3>5 DEF On, Live
  <2> QED BY <2>1, <2>2
<1>3. ASSUME NEW t \in Tasks, NEW j \in Refs \ touched', j \in todoOn'[t] \cup {hand'[t]} PROVE On(j)'
  <2>1. On(j)
    <3>1. CASE j \in todoOn[t] \cup {hand[t]}
        BY <1>3, <3>1, OnStays DEF UntouchedInv
    <3>2. CASE ~(j \in todoOn[t] \cup {hand[t]})
      <4>1. t \in Schedulers(j)' /\ t \notin Schedulers(j)
          BY <1>3, <3>2 DEF Schedulers
      <4> QED BY <4>1, SchedulersShrink DEF Safe
    <3> QED BY <3>1, <3>2
  <2> QED BY <2>1, <1>3, OnStays
<1> QED BY <1>1, <1>2, <1>3 DEF UntouchedInv

\* A fire that may be announced could already be before, or was just scheduled.
LEMMA ComingBefore ==
    ASSUME Safe, [CronNext]_allVars, NEW k \in FireIds, Coming(k)'
    PROVE  Coming(k) \/ \E t \in Tasks : EnsureSchedule(t, k)
<1>t. status \in [FireIds -> Status]
    BY DEF Safe, LoopSafe, Typed, TypeOK, TableTypeOK
<1>1. CASE SchedulerSteps
  <2>1. CASE LoopTakes
      BY <2>1, LoopDoes DEF LoopEffect, Coming, Safe
  <2>2. CASE Start \/ Tick \/ Crash \/ UNCHANGED vars
      BY <2>2 DEF Start, Tick, Crash, vars, tableVars, Coming
  <2> QED BY <1>1, <2>1, <2>2 DEF SchedulerSteps
<1>2. CASE BridgeCancels
    BY <1>2, <1>t DEF BridgeCancels, CancelJob, CancelByKindRef, DeleteUnfired, Coming
<1>3. CASE \E t \in Tasks, i \in FireIds : EnsureSchedule(t, i)
  <2>1. PICK t \in Tasks, i \in FireIds : EnsureSchedule(t, i)
      BY <1>3
  <2>2. status' = [status EXCEPT ![i] = "pending"] /\ pc' = pc /\ cur' = cur
      BY <2>1 DEF EnsureSchedule, Insert
  <2> QED BY <2>1, <2>2, <1>t DEF Coming
<1>4. CASE AdvanceEnds \/ FaultBeside
    BY <1>4 DEF AdvanceEnds, FaultBeside, tableVars, Coming
<1> QED BY LoopView, <1>1, <1>2, <1>3, <1>4 DEF Safe

\* Only the loop announces, one fire in a step.
LEMMA OnlyLoopAnnounces ==
    ASSUME Safe, [CronNext]_allVars
    PROVE  \/ firedAt' = firedAt /\ passNow <= passNow'
           \/ LoopAlone /\ LoopEffect /\ \E i \in FireIds : Announces(i)
<1>t. passNow \in Nat
    BY SchedulerAssumption DEF Safe, LoopSafe, Typed, TypeOK
<1>1. CASE LoopAlone
  <2>1. LoopEffect
      BY <1>1, LoopDoes DEF LoopAlone, LoopTakes, Safe
  <2> QED BY <1>1, <2>1 DEF LoopEffect
<1>2. CASE UNCHANGED <<firedAt, passNow>>
    BY <1>2, <1>t
<1>3. CASE LoopFault
    BY <1>2, <1>3 DEF LoopFault, RecoverMarkFails, DbError, Abandon
<1>4. CASE Clock \/ StartLoop \/ Launch \/ ProcessCrash \/ UNCHANGED allVars
    BY <1>2, <1>4 DEF Clock, Tick, StartLoop, Start, Launch, ProcessCrash, Crash, Abandon, allVars,
       vars, histVars
<1>5. CASE AdvanceCall
    BY <1>2, <1>5 DEF AdvanceCall, Advance, AdvanceCancel, AdvanceDone, LoopUntouched, vars, histVars
<1>6. ASSUME NEW t \in Tasks, Bridge(t) \/ BridgeDbError(t) PROVE UNCHANGED <<firedAt, passNow>>
    BY <1>6 DEF Bridge, ReconcileList, ReconcileDisabled, ReconcileEnabled, LoopUntouched,
       EnsureSchedule, EnsureFails, ReconcileDone, BridgeDbError, vars, histVars
<1>7. ASSUME NEW h \in Handlers, Handler(h) \/ Request(h) PROVE UNCHANGED <<firedAt, passNow>>
    BY <1>7 DEF Handler, CronRunWrite, CronRunWake, CronUpdateInsert, CronUpdateDelete,
       Request, CronEnable, CronCreate, CronDelete, CronRead, Begins, vars, histVars
<1> QED BY <1>1, <1>2, <1>3, <1>4, <1>5, <1>6, <1>7 DEF CronNext, Program
\* A step that moves neither the loop nor start-up keeps the excuse.
LEMMA ExcuseStill ==
    ASSUME NEW j, Excused(j), pc' = pc,
           pc \in {"mark", "follow"} => Job(cur)' = Job(cur),
           task'["scheduler"] = task["scheduler"],
           boot' = boot, task'["boot"] = task["boot"],
           j \in todoOn["boot"] => j \in todoOn'["boot"]
    PROVE  Excused(j)'
BY DEF Excused

\* The pending fires of an untouched repeating job stay excused until they are
\* cancelled.
LEMMA ExcuseKept ==
    ASSUME Safe, UntouchedInv, [CronNext]_allVars, NEW j \in Refs, Repeating(j), On(j),
           Excused(j), errors' = 0
    PROVE  Excused(j)' \/ (CancelJob(j) /\ pc' = pc)
<1>t. /\ BridgeTypes /\ "boot" \in Tasks /\ "scheduler" \in Tasks /\ errors \in Nat
      /\ Handlers \subseteq Tasks /\ "boot" \notin Handlers /\ "scheduler" \notin Handlers
      /\ spec \in [FireIds -> FireSpec \cup {None}]
    BY CronAssumption, SchedulerAssumption
    DEF Safe, BridgeSafe, LoopSafe, Typed, TypeOK, TableTypeOK, Tasks
<1>c. pc \in {"mark", "follow"} => cur \in FireIds /\ status[cur] # "unused"
    BY NoneAssumption DEF Safe, LoopSafe, Typed, TypeOK, ClaimInv, HoldingPCs, Status
<1>e. /\ pc \in {"mark", "follow", "down"}
      /\ pc = "mark" => Job(cur) = j
      /\ pc = "follow" => Job(cur) = j /\ task["scheduler"] \in {"off", "cancel"}
      /\ pc = "down" => \/ boot \in {"off", "failed"}
                        \/ boot = "init" /\ (task["boot"] = "list" \/ j \in todoOn["boot"])
    BY DEF Excused
<1>b. task["boot"] # "off" => boot = "init" /\ pc = "down"
    BY DEF Safe, BridgeSafe, TaskInv, Alive
<1>1. CASE LoopAlone
  <2>1. LoopEffect /\ UNCHANGED cronVars
      BY <1>1, LoopDoes DEF LoopAlone, LoopTakes, Safe
  <2>2. pc = "mark" /\ pc' = "follow" /\ cur' = cur /\ spec' = spec
      BY <1>e, <2>1 DEF LoopEffect
  <2>3. task'["scheduler"] = "off"
      BY <2>1, <2>2 DEF Safe, BridgeSafe, TaskInv, cronVars, bridgeVars
  <2> QED BY <1>e, <2>2, <2>3 DEF Excused, Job
<1>2. CASE LoopFault
    BY <1>2, <1>t DEF LoopFault, RecoverMarkFails, DbError
<1>3. CASE Clock \/ UNCHANGED allVars
  <2>1. /\ pc' = pc /\ Job(cur)' = Job(cur) /\ UNCHANGED <<task, boot, todoOn>>
      BY <1>3 DEF Clock, Tick, allVars, vars, tableVars, cronVars, bridgeVars, Job
  <2> QED BY <2>1, ExcuseStill
<1>4. CASE StartLoop
    BY <1>4, <1>e DEF StartLoop, Start
<1>5. CASE Launch
    BY <1>5, <1>t, <1>e, <1>b DEF Launch, Excused, BridgeTypes, vars, tableVars, Job, Safe,
       BridgeSafe, TaskInv, Alive
<1>6. CASE ProcessCrash
  <2>1. pc' = "down" /\ boot' = "off"
      BY <1>6 DEF ProcessCrash, Crash, Alive
  <2> QED BY <2>1 DEF Excused
<1>7. CASE Advance
  <2>1. pc = "follow" /\ Job(cur) = j
      BY <1>7, <1>e DEF Advance
  <2>2. On(j) /\ jobs[j].schedule.type = "every"
      BY DEF Repeating
  <2>3. task'["scheduler"] = "cancel"
      BY <1>7, <2>1, <2>2, <1>t DEF Advance, On, Job, BridgeTypes
  <2>4. pc' = pc /\ Job(cur)' = Job(cur)
      BY <1>7 DEF Advance, vars, tableVars, Job
  <2> QED BY <2>1, <2>3, <2>4 DEF Excused
<1>8. CASE AdvanceCancel
  <2>1. pc = "follow" /\ hand["scheduler"] = Job(cur)
      BY <1>8, <1>e DEF AdvanceCancel, Safe, BridgeSafe, TaskInv
  <2> QED BY <1>8, <1>e, <2>1 DEF AdvanceCancel
<1>9. CASE AdvanceDone
  <2>1. pc \in {"follow", "rec_follow"} /\ task["scheduler"] = "advanced"
      BY <1>9 DEF AdvanceDone, Safe, BridgeSafe, TaskInv
  <2> QED BY <1>e, <2>1
<1>10. ASSUME NEW t \in Tasks, Bridge(t) PROVE Excused(j)' \/ (CancelJob(j) /\ pc' = pc)
  <2>a. t = "boot" => boot = "init" /\ pc = "down" /\ task["boot"] # "off"
      BY <1>10, <1>b DEF Bridge, ReconcileList, ReconcileDisabled, ReconcileEnabled, EnsureSchedule,
         EnsureFails, ReconcileDone
  <2>1. CASE ReconcileList(t)
    <3>1. /\ pc' = pc /\ Job(cur)' = Job(cur) /\ boot' = boot
          /\ t # "scheduler" /\ task'["scheduler"] = task["scheduler"]
        BY <2>1, <1>t DEF ReconcileList, vars, tableVars, Job, Safe, BridgeSafe, TaskInv, BridgeTypes
    <3>2. CASE t = "boot"
      <4>1. j \in todoOn'["boot"]
          BY <2>1, <3>2, <1>t DEF ReconcileList, On, BridgeTypes
      <4> QED BY <3>1, <3>2, <4>1, <2>a DEF Excused
    <3>3. CASE t # "boot"
      <4>1. task'["boot"] = task["boot"] /\ todoOn'["boot"] = todoOn["boot"]
          BY <2>1, <3>3, <1>t DEF ReconcileList, BridgeTypes
      <4> QED BY <3>1, <4>1, ExcuseStill
    <3> QED BY <3>2, <3>3
  <2>2. ASSUME NEW k \in Refs, ReconcileDisabled(t, k) PROVE Excused(j)'
    <3>1. /\ pc' = pc /\ Job(cur)' = Job(cur) /\ UNCHANGED <<boot, task, todoOn>>
        BY <2>2 DEF ReconcileDisabled, CancelJob, CancelByKindRef, DeleteUnfired, Job
    <3> QED BY <3>1, ExcuseStill
  <2>3. ASSUME NEW k \in Refs \ {j}, ReconcileEnabled(t, k) PROVE Excused(j)'
    <3>1. /\ pc' = pc /\ Job(cur)' = Job(cur) /\ boot' = boot
          /\ t # "scheduler" /\ task'["scheduler"] = task["scheduler"]
          /\ todoOn["boot"] \subseteq todoOn'["boot"] \cup {k}
          /\ task'["boot"] = task["boot"] \/ t = "boot"
        BY <2>3, <1>t DEF ReconcileEnabled, CancelJob, CancelByKindRef, DeleteUnfired, Job, Safe,
           BridgeSafe, TaskInv, BridgeTypes
    <3>2. CASE t = "boot"
        BY <2>3, <3>1, <3>2, <2>a, <1>e DEF Excused, ReconcileEnabled
    <3>3. CASE t # "boot"
        BY <3>1, <3>3, ExcuseStill
    <3> QED BY <3>2, <3>3
  <2>4. CASE ReconcileEnabled(t, j)
      BY <2>4 DEF ReconcileEnabled
  <2>5. ASSUME NEW i \in FireIds, EnsureSchedule(t, i) PROVE Excused(j)'
    <3>1. /\ pc' = pc /\ (pc \in {"mark", "follow"} => Job(cur)' = Job(cur))
        BY <2>5, <1>c, <1>t DEF EnsureSchedule, Insert, Job
    <3>2. /\ boot' = boot /\ todoOn' = todoOn /\ task[t] = "schedule"
          /\ (t # "scheduler" => task'["scheduler"] = task["scheduler"])
          /\ (t # "boot" => task'["boot"] = task["boot"])
        BY <2>5, <1>t DEF EnsureSchedule, BridgeTypes
    <3>3. t # "scheduler" \/ pc \notin {"mark", "follow", "down"}
        BY <1>e, <3>2 DEF Safe, BridgeSafe, TaskInv
    <3>4. CASE t = "boot"
        BY <3>1, <3>2, <3>4, <2>a, <1>e DEF Excused
    <3> QED BY <1>e, <3>1, <3>2, <3>3, <3>4, ExcuseStill
  <2>6. CASE EnsureFails(t)
    <3>1. pc' = pc /\ Job(cur)' = Job(cur) /\ task[t] = "schedule"
        BY <2>6 DEF EnsureFails, vars, tableVars, Job
    <3>2. t # "scheduler"
        BY <1>e, <3>1 DEF Safe, BridgeSafe, TaskInv
    <3>3. CASE t = "boot"
      <4>1. boot' = "failed"
          BY <2>6, <3>3 DEF EnsureFails, CallFails
      <4> QED BY <3>1, <3>3, <4>1, <2>a DEF Excused
    <3>4. CASE t # "boot"
      <4>1. /\ boot' = boot /\ task'["scheduler"] = task["scheduler"]
            /\ task'["boot"] = task["boot"] /\ todoOn'["boot"] = todoOn["boot"]
          BY <2>6, <3>2, <3>4, <1>t DEF EnsureFails, CallFails, BridgeTypes
      <4> QED BY <3>1, <4>1, ExcuseStill
    <3> QED BY <3>3, <3>4
  <2>7. CASE ReconcileDone(t)
    <3>1. /\ pc' = pc /\ Job(cur)' = Job(cur) /\ task[t] = "each" /\ todoOn[t] = {}
          /\ todoOn' = todoOn
        BY <2>7 DEF ReconcileDone, vars, tableVars, Job
    <3>2. t # "scheduler" /\ t # "boot"
        BY <1>e, <3>1, <2>a DEF Safe, BridgeSafe, TaskInv
    <3>3. /\ boot' = boot /\ task'["scheduler"] = task["scheduler"]
          /\ task'["boot"] = task["boot"]
        BY <2>7, <3>2, <1>t DEF ReconcileDone, BridgeTypes
    <3> QED BY <3>1, <3>3, ExcuseStill
  <2> QED BY <1>10, <2>1, <2>2, <2>3, <2>4, <2>5, <2>6, <2>7 DEF Bridge
<1>11. ASSUME NEW t \in Tasks, BridgeDbError(t) PROVE FALSE
    BY <1>11, <1>t DEF BridgeDbError
<1>12. ASSUME NEW h \in Handlers, Handler(h) \/ Request(h) PROVE Excused(j)'
  <2>1. pc' = pc /\ Job(cur)' = Job(cur) /\ UNCHANGED <<boot, todoOn>>
      BY <1>12 DEF Handler, CronRunWrite, CronRunWake, CronUpdateInsert, CronUpdateDelete,
         Request, CronEnable, CronCreate, CronDelete, CronRead, Begins, vars, tableVars, Job
  <2>2. task'["scheduler"] = task["scheduler"] /\ task'["boot"] = task["boot"]
      BY <1>12, <1>t DEF Handler, CronRunWrite, CronRunWake, CronUpdateInsert, CronUpdateDelete,
         Request, CronEnable, CronCreate, CronDelete, CronRead, Begins, Continue, BridgeTypes
  <2> QED BY <2>1, <2>2, ExcuseStill
<1> QED BY <1>1, <1>2, <1>3, <1>4, <1>5, <1>6, <1>7, <1>8, <1>9, <1>10, <1>11, <1>12
        DEF CronNext, Program, AdvanceCall
\* Errors are never forgotten.
LEMMA ErrorsGrow ==
    ASSUME Safe, [CronNext]_allVars, errors' = 0
    PROVE  errors = 0
<1>t. errors \in Nat
    BY SchedulerAssumption DEF Safe, LoopSafe, Typed, TypeOK
<1>1. CASE LoopAlone \/ LoopFault
  <2>1. LoopEffect
      BY <1>1, LoopDoes DEF LoopAlone, LoopFault, LoopTakes, Safe
  <2> QED BY <2>1 DEF LoopEffect
<1>2. CASE Clock \/ StartLoop \/ Launch \/ ProcessCrash \/ UNCHANGED allVars
    BY <1>2 DEF Clock, Tick, StartLoop, Start, Launch, ProcessCrash, Crash, allVars, vars, faultVars
<1>3. CASE AdvanceCall
    BY <1>3 DEF AdvanceCall, Advance, AdvanceCancel, AdvanceDone, LoopUntouched, vars, faultVars
<1>4. ASSUME NEW t \in Tasks, Bridge(t) PROVE errors' = errors
    BY <1>4 DEF Bridge, ReconcileList, ReconcileDisabled, ReconcileEnabled, LoopUntouched,
       EnsureSchedule, EnsureFails, ReconcileDone, vars, faultVars
<1>5. ASSUME NEW t \in Tasks, BridgeDbError(t) PROVE FALSE
    BY <1>5, <1>t DEF BridgeDbError
<1>6. ASSUME NEW h \in Handlers, Handler(h) \/ Request(h) PROVE errors' = errors
    BY <1>6 DEF Handler, CronRunWrite, CronRunWake, CronUpdateInsert, CronUpdateDelete,
       Request, CronEnable, CronCreate, CronDelete, CronRead, Begins, vars, faultVars
<1> QED BY <1>1, <1>2, <1>3, <1>4, <1>5, <1>6 DEF CronNext, Program

\* A fire to come of a job that repeats belongs to a job that is on.
LEMMA ComingIsOn ==
    ASSUME Safe, UntouchedInv, NEW k \in FireIds, Coming(k), Job(k) \notin touched
    PROVE  status[k] # "unused" /\ Job(k) \in Refs /\ On(Job(k))
<1>1. status[k] # "unused"
    BY DEF Coming, Safe, LoopSafe, ClaimInv, HoldingPCs
<1> QED BY <1>1 DEF UntouchedInv, Safe, LoopSafe, RowsInv

\* The period of a repeating job is a number.
LEMMA PeriodNat ==
    ASSUME BridgeTypes, NEW j \in Refs, jobs[j].schedule.type = "every"
    PROVE  jobs[j].schedule.arg \in Nat
<1>1. jobs[j].schedule \in Schedules \cup {NoSchedule}
    BY DEF BridgeTypes, JobRow
<1> QED BY <1>1, CronAssumption DEF NoSchedule

\* A new announcement of an untouched job is that of a claimed row, in a pass.
LEMMA AnnouncedInPass ==
    ASSUME Safe, RecoverInv, UntouchedInv, NEW i \in FireIds, Announces(i), Job(i) \notin touched
    PROVE  pc = "publish" /\ i = cur
<1>1. ASSUME i \in toRecover PROVE FALSE
  <2>1. jobs[Job(i)].state = "deleted" /\ status[i] # "unused"
      BY <1>1 DEF RecoverInv, Gone, Safe, LoopSafe, ClaimInv
  <2>2. Job(i) \in Refs
      BY <2>1 DEF Safe, LoopSafe, RowsInv
  <2> QED BY <2>1, <2>2 DEF UntouchedInv
<1> QED BY <1>1 DEF Announces

\* What the job of a row is, and its period, does not change.
LEMMA RowStays ==
    ASSUME Safe, [CronNext]_allVars, NEW i \in FireIds, status[i] # "unused"
    PROVE  /\ Job(i) \in Refs /\ Job(i)' = Job(i) /\ spec'[i] = spec[i]
           /\ spec[i].fire_at \in Nat
           /\ \A j \in Refs : j = Job(i) =>
                  /\ jobs'[j].schedule = jobs[j].schedule
                  /\ Repeating(j)' => Repeating(j)
<1>1. spec'[i] = spec[i] /\ Job(i) \in Refs /\ spec[i] \in FireSpec
    BY RowsGrow DEF Safe, LoopSafe, RowsInv, RowsKept
<1>2. ASSUME NEW j \in Refs, j = Job(i)
      PROVE  jobs'[j].schedule = jobs[j].schedule /\ (Repeating(j)' => Repeating(j))
  <2>1. jobs[j].state # "unused"
      BY <1>2 DEF Safe, JobsInv, FiresCreated
  <2>2. jobs'[j].schedule = jobs[j].schedule
      BY <2>1, JobsGrow DEF JobsKept
  <2> QED BY <2>2, OnStays DEF Repeating
<1>3. Job(i)' = Job(i)
    BY <1>1 DEF Job
<1> QED BY <1>1, <1>2, <1>3, FireAtNat
\* A fire to come stays a period away from each announcement of its job.
LEMMA SpaceStep ==
    Safe /\ RecoverInv /\ UntouchedInv /\ SpaceInv /\ [CronNext]_allVars => SpaceInv'
<1> SUFFICES ASSUME Safe, RecoverInv, UntouchedInv, SpaceInv, [CronNext]_allVars PROVE SpaceInv'
    OBVIOUS
<1>t. /\ passNow \in Nat /\ now \in Nat /\ passNow <= now
      /\ firedAt \in [FireIds -> SUBSET (0..MaxTime)] /\ MaxTime \in Nat
      /\ status \in [FireIds -> Status] /\ spec \in [FireIds -> FireSpec \cup {None}]
      /\ BridgeTypes
    BY SchedulerAssumption
    DEF Safe, LoopSafe, Typed, TypeOK, TableTypeOK, DueInv, BridgeSafe
<1>f. \A i \in FireIds : firedAt[i] # {} => status[i] # "unused"
    BY DEF Safe, LoopSafe, DueInv
<1>1. ASSUME NEW i \in FireIds, NEW t \in firedAt'[i] PROVE t <= passNow'
  <2>1. CASE firedAt' = firedAt /\ passNow <= passNow'
    <3>1. t \in firedAt[i] /\ t \in Nat /\ t <= passNow
        BY <1>t, <2>1 DEF SpaceInv
    <3>2. passNow' \in Nat
        BY SchedulerAssumption, LoopStaysSafe DEF Safe, LoopSafe, Typed, TypeOK
    <3> QED BY <1>t, <2>1, <3>1, <3>2
  <2>2. ASSUME NEW k \in FireIds, Announces(k) PROVE t <= passNow'
      BY <1>t, <2>2 DEF Announces, SpaceInv
  <2> QED BY <2>1, <2>2, OnlyLoopAnnounces
<1>2. ASSUME errors' = 0, NEW i \in FireIds, NEW k \in FireIds, NEW t \in firedAt'[i],
             Coming(k)', i # k, NEW j \in Refs, Job(i)' = j, Job(k)' = j, Repeating(j)'
      PROVE  \/ spec'[k].fire_at >= t + jobs'[j].schedule.arg
             \/ Excused(j)'
  <2>e. errors = 0
      BY <1>2, ErrorsGrow
  <2>u. j \notin touched'
      BY <1>2 DEF Repeating
  <2>o. ASSUME t \in firedAt[i], Coming(k)
        PROVE  /\ Job(i) = j /\ Job(k) = j /\ Repeating(j) /\ On(j)
               /\ spec'[k] = spec[k] /\ jobs'[j].schedule = jobs[j].schedule
               /\ spec[k].fire_at >= t + jobs[j].schedule.arg \/ Excused(j)
    <3>1. status[i] # "unused" /\ status[k] # "unused"
        BY <1>f, <2>o, ComingBefore DEF Coming, Safe, LoopSafe, ClaimInv, HoldingPCs
    <3>2. Job(i) = j /\ Job(k) = j /\ spec'[k] = spec[k]
        BY <1>2, <3>1, RowStays
    <3>3. Repeating(j) /\ jobs'[j].schedule = jobs[j].schedule
        BY <1>2, <3>1, <3>2, RowStays
    <3>4. On(j)
        BY <2>o, <3>2, <3>3, ComingIsOn DEF Repeating
    <3>5. spec[k].fire_at >= t + jobs[j].schedule.arg \/ Excused(j)
        BY <1>2, <2>e, <2>o, <3>2, <3>3 DEF SpaceInv
    <3> QED BY <3>2, <3>3, <3>4, <3>5
  <2>1. CASE firedAt' = firedAt /\ Coming(k)
    <3>1. CASE spec[k].fire_at >= t + jobs[j].schedule.arg
        BY <2>o, <2>1, <3>1
    <3>2. CASE Excused(j)
      <4>1. CASE Excused(j)'
          BY <4>1
      <4>2. CASE CancelJob(j) /\ pc' = pc
        <5>1. pc # "publish"
            BY <3>2 DEF Excused
        <5>2. status'[k] = "pending"
            BY <1>2, <4>2, <5>1 DEF Coming
        <5>3. Job(k) # j
            BY <4>2, <5>2, CancelClears DEF Safe
        <5> QED BY <2>o, <2>1, <5>3
      <4> QED BY <1>2, <2>o, <2>1, <3>2, <4>1, <4>2, ExcuseKept
    <3> QED BY <2>o, <2>1, <3>1, <3>2
  <2>2. CASE firedAt' = firedAt /\ ~Coming(k)
    <3>1. PICK u \in Tasks : EnsureSchedule(u, k)
        BY <1>2, <2>2, ComingBefore
    <3>2. /\ task[u] = "schedule" /\ jobs' = jobs
          /\ spec' = [spec EXCEPT ![k] = CronFire(hand[u], NextFireFor(hand[u]))]
        BY <3>1 DEF EnsureSchedule, Insert
    <3>3. spec'[k] = CronFire(hand[u], NextFireFor(hand[u]))
        BY <3>2, <1>t
    <3>4. hand[u] = j
        BY <1>2, <3>3 DEF Job, CronFire
    <3>5. spec'[k].fire_at = now + jobs[j].schedule.arg
        BY <1>2, <3>2, <3>3, <3>4 DEF CronFire, NextFireFor, Repeating
    <3>6. t \in Nat /\ t <= passNow
        BY <1>t, <2>2 DEF SpaceInv
    <3>7. jobs[j].schedule.arg \in Nat
        BY <1>2, <1>t, <3>2, PeriodNat DEF Repeating
    <3> QED BY <1>t, <3>2, <3>5, <3>6, <3>7
  <2>3. ASSUME LoopAlone, LoopEffect, NEW a \in FireIds, Announces(a)
        PROVE  \/ spec'[k].fire_at >= t + jobs'[j].schedule.arg
               \/ Excused(j)'
    <3>1. Coming(k)
        BY <1>2, <2>3 DEF LoopEffect, Coming
    <3>2. CASE t \in firedAt[i]
      <4>1. ~Excused(j)
          BY <2>3 DEF Announces, Excused
      <4> QED BY <2>o, <3>1, <3>2, <4>1
    <3>3. CASE t \notin firedAt[i]
      <4>1. i = a
          BY <1>t, <2>3, <3>3 DEF Announces
      <4>2. Job(i) = j /\ touched' = touched
          BY <1>2, <2>3 DEF LoopEffect, LoopAlone, Job
      <4>3. pc = "publish" /\ i = cur
          BY <2>3, <2>u, <4>1, <4>2, AnnouncedInPass
      <4>4. pc' = "mark" /\ cur' = i
          BY <2>3, <4>3 DEF LoopEffect
      <4> QED BY <1>2, <4>4 DEF Excused, Job
    <3> QED BY <3>2, <3>3
  <2> QED BY <2>1, <2>2, <2>3, OnlyLoopAnnounces
<1>3. ASSUME errors' = 0, NEW i \in FireIds, NEW k \in FireIds, NEW t \in firedAt'[i],
             Coming(k)', i # k, Job(i)' = Job(k)', Repeating(Job(k))'
      PROVE  \/ spec'[k].fire_at >= t + jobs'[Job(k)'].schedule.arg
             \/ Excused(Job(k))'
  <2>1. Job(k)' \in Refs
    <3>1. status'[k] # "unused"
        BY <1>3, LoopStaysSafe DEF Coming, Safe, LoopSafe, ClaimInv, HoldingPCs
    <3> QED BY <3>1, LoopStaysSafe DEF Safe, LoopSafe, RowsInv
  <2>2. PICK j \in Refs : j = Job(k)'
      BY <2>1
  <2>3. Repeating(j)' /\ (Excused(j)' => Excused(Job(k))')
      BY <1>3, <2>2 DEF Repeating, Excused
  <2> QED BY <1>2, <1>3, <2>2, <2>3
<1> QED BY <1>1, <1>3 DEF SpaceInv
\* Two fires of an untouched repeating job stay a period apart: the one that is
\* announced was to come.
LEMMA SpacedStep ==
    Safe /\ RecoverInv /\ UntouchedInv /\ SpaceInv /\ FiresSpaced /\ [CronNext]_allVars
        => FiresSpaced'
<1> SUFFICES ASSUME Safe, RecoverInv, UntouchedInv, SpaceInv, FiresSpaced, [CronNext]_allVars,
                    errors' = 0, NEW i \in FireIds, NEW k \in FireIds,
                    NEW t \in firedAt'[i], NEW u \in firedAt'[k],
                    i # k, Job(i)' = Job(k)', Job(i)' \notin touched',
                    jobs'[Job(i)'].schedule.type = "every", t <= u
             PROVE  u - t >= jobs'[Job(i)'].schedule.arg
    BY DEF FiresSpaced, Job
<1>t. /\ passNow \in Nat /\ firedAt \in [FireIds -> SUBSET (0..MaxTime)] /\ MaxTime \in Nat
      /\ BridgeTypes
    BY SchedulerAssumption DEF Safe, LoopSafe, Typed, TypeOK, BridgeSafe
<1>e. errors = 0
    BY ErrorsGrow
<1>f. \A a \in FireIds : firedAt[a] # {} => status[a] # "unused"
    BY DEF Safe, LoopSafe, DueInv
<1>1. CASE firedAt' = firedAt
  <2>1. status[i] # "unused" /\ status[k] # "unused"
      BY <1>1, <1>f
  <2>2. PICK j \in Refs : j = Job(i) /\ j = Job(k) /\ Job(i)' = j
      BY <2>1, RowStays
  <2>3. Repeating(j) /\ jobs'[j].schedule = jobs[j].schedule
      BY <2>1, <2>2, RowStays DEF Repeating
  <2> QED BY <1>1, <1>e, <2>2, <2>3 DEF FiresSpaced, Repeating, Job
<1>2. ASSUME LoopAlone, LoopEffect, NEW a \in FireIds, Announces(a)
      PROVE  u - t >= jobs'[Job(i)'].schedule.arg
  <2>1. /\ spec' = spec /\ touched' = touched /\ jobs' = jobs
        /\ firedAt' = [firedAt EXCEPT ![a] = @ \cup {passNow}]
      BY <1>2 DEF LoopEffect, LoopAlone, cronVars, Announces
  <2>2. /\ Job(i)' = Job(i) /\ Job(k) = Job(i) /\ Job(i) \notin touched
        /\ jobs[Job(i)].schedule.type = "every"
      BY <2>1 DEF Job
  <2>a. status[a] # "unused"
      BY <1>2 DEF Announces, Safe, LoopSafe, ClaimInv, HoldingPCs
  <2>3. /\ t \in firedAt[i] \/ (i = a /\ t = passNow)
        /\ u \in firedAt[k] \/ (k = a /\ u = passNow)
      BY <2>1, <1>t
  <2>4. status[i] # "unused" /\ status[k] # "unused"
      BY <2>3, <2>a, <1>f
  <2>5. /\ Job(i) \in Refs /\ jobs[Job(i)].schedule.arg \in Nat
        /\ spec[i].fire_at \in Nat /\ spec[k].fire_at \in Nat
      BY <1>t, <2>2, <2>4, RowStays, PeriodNat
  <2>6. t \in Nat /\ u \in Nat /\ t <= passNow /\ u <= passNow
      BY <1>t, <2>3 DEF SpaceInv
  <2>7. ASSUME NEW x \in FireIds, x = a, Job(x) = Job(i), NEW y \in FireIds, y # x,
               Job(y) = Job(i), NEW s \in firedAt[y], s \in Nat, spec[x].fire_at \in Nat
        PROVE  s + jobs[Job(i)].schedule.arg <= passNow
    <3>1. pc = "publish" /\ x = cur
        BY <1>2, <2>2, <2>7, AnnouncedInPass
    <3>2. spec[x].fire_at <= passNow
        BY <3>1 DEF Safe, LoopSafe, DueInv, InLoop
    <3>3. Coming(x) /\ ~Excused(Job(x)) /\ Repeating(Job(x))
        BY <2>2, <2>7, <3>1 DEF Coming, Excused, Repeating
    <3>4. spec[x].fire_at >= s + jobs[Job(i)].schedule.arg
        BY <1>e, <2>7, <3>3 DEF SpaceInv
    <3> QED BY <1>t, <2>5, <2>7, <3>2, <3>4
  <2>8. CASE t \in firedAt[i] /\ u \in firedAt[k]
    <3>1. u - t >= jobs[Job(i)].schedule.arg
        BY <1>e, <2>2, <2>8 DEF FiresSpaced, Job
    <3> QED BY <3>1, <2>1, <2>2
  <2>9. CASE t \in firedAt[i] /\ k = a /\ u = passNow
    <3>1. t + jobs[Job(i)].schedule.arg <= passNow
        BY <2>2, <2>5, <2>6, <2>7, <2>9
    <3> QED BY <3>1, <2>1, <2>2, <2>5, <2>6, <2>9
  <2>10. CASE i = a /\ t = passNow /\ u \in firedAt[k]
    <3>1. u + jobs[Job(i)].schedule.arg <= passNow
        BY <2>2, <2>5, <2>6, <2>7, <2>10
    <3> QED BY <3>1, <2>1, <2>2, <2>5, <2>6, <2>10
  <2> QED BY <2>3, <2>8, <2>9, <2>10
<1> QED BY <1>1, <1>2, OnlyLoopAnnounces

\* While no statement fails, a repeating job that nobody disabled or deleted
\* never fires twice within its period, however many requests, reconciles and
\* crashes come between its fires.
THEOREM CronFiresSpaced == CronSpec => []FiresSpaced
<1> DEFINE Inv == Safe /\ RecoverInv /\ LateInv /\ UntouchedInv /\ SpaceInv /\ FiresSpaced
<1>1. CronInit => Inv
  <2>1. CronInit => UntouchedInv /\ SpaceInv /\ FiresSpaced
      BY NoneAssumption DEF CronInit, Init, TableInit, TasksIdle, UntouchedInv, SpaceInv, FiresSpaced
  <2> QED BY <2>1, CronInitLate
<1>2. Inv /\ [CronNext]_allVars => Inv'
    BY CronLateStep, UntouchedStep, SpaceStep, SpacedStep
<1> HIDE DEF Inv
<1>3. CronSpec => []Inv
    BY <1>1, <1>2, PTL DEF CronSpec
<1>4. Inv => FiresSpaced
    BY DEF Inv
<1> QED BY <1>3, <1>4, PTL
=============================================================================
