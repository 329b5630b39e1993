--------------------------- MODULE CronScheduling ---------------------------
(***************************************************************************)
(* Cron jobs on top of the scheduler: the cron_jobs table, the CronBridge  *)
(* that keeps scheduled_fires in step with it, the request handlers that   *)
(* edit jobs, and the start of the application.                            *)
(*                                                                         *)
(* Three kinds of tasks call the bridge, and nothing serialises them:      *)
(*   - "boot": TemporalPlugin::init runs reconcile_all before the loop is  *)
(*     started (and before its recovery of in-flight rows);                *)
(*   - a handler (cron_enable, cron_run, ...) runs reconcile_all after its *)
(*     own write to cron_jobs;                                             *)
(*   - "scheduler": the loop calls advance after each cron fire, in line.  *)
(* Each statement of such a call is one step of the task.  task[t] is:     *)
(*   "off"       no call in progress                                       *)
(*   "read"      cron_run read the row, its upsert is next                 *)
(*   "replace"   cron_update inserted the new row, the delete is next      *)
(*   "list"      reconcile_all is about to list the jobs                   *)
(*   "each"      reconcile_all is between two jobs                         *)
(*   "cancel"    advance is about to cancel the fires of hand              *)
(*   "schedule"  ensure_scheduled cancelled, its insert is next            *)
(*   "wake"      cron_run reconciled and is about to wake the scheduler    *)
(*   "advanced"  advance is over, the loop goes on                         *)
(* Producers of other kinds of fires are left out: they use other kinds    *)
(* and refs, so none of their statements selects a cron row.  Nothing in   *)
(* the application calls TemporalScheduler::shutdown.                      *)
(***************************************************************************)
EXTENDS TemporalScheduler

CONSTANTS
    Handlers,    \* request tasks that may run at the same time
    Schedules,   \* the CronSchedules jobs are created with
    MaxEdits     \* bound: handler calls

ASSUME CronAssumption ==
    /\ IsFiniteSet(Handlers) /\ Handlers \cap {"boot", "scheduler"} = {}
    /\ "cron_job" \in Kinds /\ Refs \subseteq Prefixes
    /\ \A s \in Schedules : s.type \in {"every", "at", "invalid"} /\ s.arg \in Nat
    /\ MaxEdits \in Nat

VARIABLES
    jobs,      \* [Refs -> JobRow]: cron_jobs, by id
    boot,      \* "off", "init" (plugin init), "ready" or "failed" (init returned Err)
    task,      \* [Tasks -> step], see above
    op,        \* [Tasks -> the handler's name]
    target,    \* [Tasks -> the handler's job, or None]
    replacement, \* [Tasks -> the new id of a cron_update, or None]
    readRow,   \* [Tasks -> the JobRow cron_run read, or None]
    todoOn,    \* [Tasks -> listed enabled jobs not yet reconciled]
    todoOff,   \* [Tasks -> listed disabled jobs not yet reconciled]
    hand,      \* [Tasks -> the job ensure_scheduled works on, or None]
    edits,
    \* History: fires of a job first announced since a reconcile cancelled its
    \* fires because it is disabled; -1 before, and from its next enable on.
    lateFires,
    touched    \* History: the jobs that were ever disabled or deleted.

bridgeVars == <<task, op, target, replacement, readRow, todoOn, todoOff, hand>>
cronVars == <<jobs, boot, bridgeVars, edits>>
cronHist == <<lateFires, touched>>
allVars == <<vars, cronVars, cronHist>>

Tasks == Handlers \cup {"boot", "scheduler"}

NoSchedule == [type |-> "none", arg |-> 0]

\* A cron_jobs row.  A job's schedule never changes under its id: cron_update
\* replaces the job by one with a fresh id.
JobRow == [state : {"unused", "live", "deleted"}, enabled : BOOLEAN,
           schedule : Schedules \cup {NoSchedule}]

\* The types of all variables.
CronTypeOK ==
    /\ TypeOK
    /\ jobs \in [Refs -> JobRow]
    /\ boot \in {"off", "init", "ready", "failed"}
    /\ task \in [Tasks -> {"off", "read", "replace", "list", "each", "cancel",
                           "schedule", "wake", "advanced"}]
    /\ op \in [Tasks -> {"none", "enable", "disable", "run", "delete", "create", "update"}]
    /\ target \in [Tasks -> Refs \cup {None}]
    /\ replacement \in [Tasks -> Refs \cup {None}]
    /\ readRow \in [Tasks -> JobRow \cup {None}]
    /\ todoOn \in [Tasks -> SUBSET Refs]
    /\ todoOff \in [Tasks -> SUBSET Refs]
    /\ hand \in [Tasks -> Refs \cup {None}]
    /\ edits \in 0..MaxEdits
    /\ lateFires \in [Refs -> Int]
    /\ touched \subseteq Refs

TasksIdle ==
    /\ task = [t \in Tasks |-> "off"]
    /\ op = [t \in Tasks |-> "none"]
    /\ target = [t \in Tasks |-> None]
    /\ replacement = [t \in Tasks |-> None]
    /\ readRow = [t \in Tasks |-> None]
    /\ todoOn = [t \in Tasks |-> {}]
    /\ todoOff = [t \in Tasks |-> {}]
    /\ hand = [t \in Tasks |-> None]

CronInit ==
    /\ Init
    /\ jobs = [j \in Refs |-> [state |-> "unused", enabled |-> FALSE,
                               schedule |-> NoSchedule]]
    /\ boot = "off"
    /\ TasksIdle
    /\ edits = 0
    /\ lateFires = [j \in Refs |-> -1]
    /\ touched = {}

-----------------------------------------------------------------------------
(* CronBridge.                                                             *)

Live(j) == jobs[j].state = "live"

\* The unfired fires of a job.
FiresOf(j) == {i \in FireIds : Unfired(i) /\ spec[i].ref_id = j}

\* next_fire_for: an Every (or Cron) job runs next after now, an At job at its
\* time even when that has passed.  An expression that does not parse is Err.
NextFireFor(j) == IF jobs[j].schedule.type = "every" THEN now + jobs[j].schedule.arg
                  ELSE jobs[j].schedule.arg

Parses(j) == jobs[j].schedule.type # "invalid"

\* The FireSpec ensure_scheduled builds: no misfire policy, no grace.
CronFire(j, t) == [fire_at |-> t, kind |-> "cron_job", ref_id |-> j,
                   dedup_prefix |-> j, misfire_policy |-> None, grace |-> None]

\* Mutant: the old fires stay.
CancelNothing(j) == UNCHANGED tableVars /\ Withdraw

\* cancel_by_kind_ref("cron_job", id), with its effect on the history.
CancelJob(j) == CancelByKindRef("cron_job", j) /\ Withdraw

\* What a bridge statement on scheduled_fires leaves alone.
LoopUntouched == UNCHANGED <<now, loopVars, passNow, shutdown, announced, firedAt,
                             reported, dropped, outranked, unmarked, faultVars>>

\* A handler's call returns.
CallReturns(h) ==
    /\ op' = [op EXCEPT ![h] = "none"]
    /\ target' = [target EXCEPT ![h] = None]

\* reconcile_all: SELECT * FROM cron_jobs.
ReconcileList(t) ==
    /\ task[t] = "list"
    /\ todoOn' = [todoOn EXCEPT ![t] = {j \in Refs : Live(j) /\ jobs[j].enabled}]
    /\ todoOff' = [todoOff EXCEPT ![t] = {j \in Refs : Live(j) /\ ~jobs[j].enabled}]
    /\ task' = [task EXCEPT ![t] = "each"]
    /\ UNCHANGED <<vars, jobs, boot, op, target, replacement, readRow, hand, edits,
                   cronHist>>

\* reconcile_all: the next listed job is disabled.  From the first such cancel
\* on its fires are late, unless it was enabled again since it was listed.
ReconcileDisabled(t, j) ==
    /\ task[t] = "each"
    /\ j \in todoOff[t]
    /\ CancelJob(j)
    /\ todoOff' = [todoOff EXCEPT ![t] = @ \ {j}]
    /\ lateFires' = IF ~jobs[j].enabled /\ lateFires[j] = -1
                      THEN [lateFires EXCEPT ![j] = 0] ELSE lateFires
    /\ LoopUntouched
    /\ UNCHANGED <<pc, cur, jobs, boot, task, op, target, replacement, readRow, todoOn,
                   hand, edits, touched>>

\* reconcile_all: the next listed job is enabled; ensure_scheduled cancels.
ReconcileEnabled(t, j) ==
    /\ task[t] = "each"
    /\ j \in todoOn[t]
    /\ CancelJob(j)
    /\ todoOn' = [todoOn EXCEPT ![t] = @ \ {j}]
    /\ hand' = [hand EXCEPT ![t] = j]
    /\ task' = [task EXCEPT ![t] = "schedule"]
    /\ LoopUntouched
    /\ UNCHANGED <<pc, cur, jobs, boot, op, target, replacement, readRow, todoOff,
                   edits, cronHist>>

\* ensure_scheduled: next_fire_for, then the insert.
EnsureSchedule(t, i) ==
    /\ task[t] = "schedule"
    /\ Parses(hand[t])
    /\ NextFireFor(hand[t]) \in FireTimes
    /\ Insert(i, CronFire(hand[t], NextFireFor(hand[t])))
    /\ hand' = [hand EXCEPT ![t] = None]
    /\ task' = [task EXCEPT ![t] = IF t = "scheduler" THEN "advanced" ELSE "each"]
    /\ UNCHANGED <<now, pc, cur, loopVars, passNow, shutdown, histVars, faultVars,
                   jobs, boot, op, target, replacement, readRow, todoOn, todoOff,
                   edits, cronHist>>

\* A statement or a bridge call returns Err.  The rest of a reconcile_all, or of
\* a handler, is skipped; at start-up the plugin's init fails with it; the loop
\* logs advance's error.
CallFails(t) ==
    /\ hand' = [hand EXCEPT ![t] = None]
    /\ todoOn' = [todoOn EXCEPT ![t] = {}]
    /\ todoOff' = [todoOff EXCEPT ![t] = {}]
    /\ task' = [task EXCEPT ![t] = IF t = "scheduler" THEN "advanced" ELSE "off"]
    /\ op' = [op EXCEPT ![t] = "none"]
    /\ target' = [target EXCEPT ![t] = None]
    /\ replacement' = [replacement EXCEPT ![t] = None]
    /\ readRow' = [readRow EXCEPT ![t] = None]
    /\ boot' = IF t = "boot" THEN "failed" ELSE boot
    /\ UNCHANGED <<jobs, edits, cronHist>>

\* ensure_scheduled: next_fire_for fails, after the cancel.
EnsureFails(t) ==
    /\ task[t] = "schedule"
    /\ ~Parses(hand[t])
    /\ CallFails(t)
    /\ UNCHANGED vars

\* A statement of the bridge fails, or the second one of a handler: the upsert
\* of cron_run or cron_update, or the delete of cron_update, which then leaves
\* the old job next to its replacement.
BridgeDbError(t) ==
    /\ \/ task[t] \in {"read", "replace", "list", "cancel", "schedule"}
       \/ task[t] = "each" /\ todoOn[t] \cup todoOff[t] # {}
    /\ errors < MaxErrors
    /\ errors' = errors + 1
    /\ CallFails(t)
    /\ UNCHANGED <<tableVars, now, pc, cur, loopVars, passNow, shutdown, histVars, crashes>>

\* reconcile_all returns Ok.
ReconcileDone(t) ==
    /\ task[t] = "each"
    /\ todoOn[t] = {} /\ todoOff[t] = {}
    /\ task' = [task EXCEPT ![t] = IF op[t] = "run" THEN "wake" ELSE "off"]
    /\ boot' = IF t = "boot" THEN "ready" ELSE boot
    /\ IF op[t] = "run" THEN UNCHANGED <<op, target>> ELSE CallReturns(t)
    /\ UNCHANGED <<vars, jobs, replacement, readRow, todoOn, todoOff, hand, edits,
                   cronHist>>

\* Mutant: advance reschedules without asking whether the job is still enabled.
AdvanceAlways ==
    /\ pc \in {"follow", "rec_follow"}
    /\ task["scheduler"] = "off"
    /\ LET j == spec[cur].ref_id IN
         IF jobs[j].schedule.type = "at"
           THEN /\ task' = [task EXCEPT !["scheduler"] = "advanced"]
                /\ UNCHANGED hand
           ELSE /\ task' = [task EXCEPT !["scheduler"] = "cancel"]
                /\ hand' = [hand EXCEPT !["scheduler"] = j]
    /\ UNCHANGED <<vars, jobs, boot, op, target, replacement, readRow, todoOn, todoOff,
                   edits, cronHist>>

\* Mutant: the dispatch of a cron fire does not call advance.
AdvanceForgotten ==
    /\ pc \in {"follow", "rec_follow"}
    /\ task["scheduler"] = "off"
    /\ task' = [task EXCEPT !["scheduler"] = "advanced"]
    /\ UNCHANGED <<vars, jobs, boot, op, target, replacement, readRow, todoOn, todoOff,
                   hand, edits, cronHist>>

\* advance: read the job; nothing to do when it is gone, disabled or one-shot.
Advance ==
    /\ pc \in {"follow", "rec_follow"}
    /\ task["scheduler"] = "off"
    /\ LET j == spec[cur].ref_id IN
         IF ~Live(j) \/ ~jobs[j].enabled \/ jobs[j].schedule.type = "at"
           THEN /\ task' = [task EXCEPT !["scheduler"] = "advanced"]
                /\ UNCHANGED hand
           ELSE /\ task' = [task EXCEPT !["scheduler"] = "cancel"]
                /\ hand' = [hand EXCEPT !["scheduler"] = j]
    /\ UNCHANGED <<vars, jobs, boot, op, target, replacement, readRow, todoOn, todoOff,
                   edits, cronHist>>

\* advance: ensure_scheduled cancels.
AdvanceCancel ==
    /\ task["scheduler"] = "cancel"
    /\ CancelJob(hand["scheduler"])
    /\ task' = [task EXCEPT !["scheduler"] = "schedule"]
    /\ LoopUntouched
    /\ UNCHANGED <<pc, cur, jobs, boot, op, target, replacement, readRow, todoOn,
                   todoOff, hand, edits, cronHist>>

\* advance returned, its error at most logged; the loop takes the next row.
AdvanceDone ==
    /\ task["scheduler"] = "advanced"
    /\ task' = [task EXCEPT !["scheduler"] = "off"]
    /\ pc' = IF pc = "follow" THEN "pass" ELSE "recovering"
    /\ cur' = None
    /\ UNCHANGED <<tableVars, now, loopVars, passNow, shutdown, histVars, faultVars,
                   jobs, boot, op, target, replacement, readRow, todoOn, todoOff, hand,
                   edits, cronHist>>

-----------------------------------------------------------------------------
(* The request handlers.  Each writes cron_jobs, then runs reconcile_all.  *)

\* A handler task takes a request on a live or new job.
Begins(h, name, j) ==
    /\ Alive /\ boot = "ready"
    /\ task[h] = "off"
    /\ edits < MaxEdits
    /\ edits' = edits + 1
    /\ op' = [op EXCEPT ![h] = name]
    /\ target' = [target EXCEPT ![h] = j]
    /\ UNCHANGED <<vars, boot, replacement, todoOn, todoOff, hand>>

Continue(h, step) == task' = [task EXCEPT ![h] = step]

\* cron_enable: set_enabled.
CronEnable(h, j, on) ==
    /\ Live(j)
    /\ Begins(h, IF on THEN "enable" ELSE "disable", j)
    /\ jobs' = [jobs EXCEPT ![j].enabled = on]
    /\ lateFires' = IF on THEN [lateFires EXCEPT ![j] = -1] ELSE lateFires
    /\ touched' = IF on THEN touched ELSE touched \cup {j}
    /\ Continue(h, "list")
    /\ UNCHANGED readRow

\* cron_create: the upsert of a row with a fresh id.
CronCreate(h, j, s) ==
    /\ jobs[j].state = "unused"
    /\ Begins(h, "create", j)
    /\ jobs' = [jobs EXCEPT ![j] = [state |-> "live", enabled |-> TRUE, schedule |-> s]]
    /\ Continue(h, "list")
    /\ UNCHANGED <<readRow, cronHist>>

\* cron_delete: the delete (system jobs are refused and not modelled).
CronDelete(h, j) ==
    /\ Live(j)
    /\ Begins(h, "delete", j)
    /\ jobs' = [jobs EXCEPT ![j].state = "deleted"]
    /\ touched' = touched \cup {j}
    /\ Continue(h, "list")
    /\ UNCHANGED <<readRow, lateFires>>

\* cron_run and cron_update: get_opt; the row is used after the await.
CronRead(h, name, j) ==
    /\ Live(j)
    /\ Begins(h, name, j)
    /\ readRow' = [readRow EXCEPT ![h] = jobs[j]]
    /\ Continue(h, "read")
    /\ UNCHANGED <<jobs, cronHist>>

\* cron_run: upsert of the row read, next_run_at_ms set to now.  The bridge
\* never reads that column, so it is not modelled.
CronRunWrite(h) ==
    /\ task[h] = "read" /\ op[h] = "run"
    /\ jobs' = [jobs EXCEPT ![target[h]] = readRow[h]]
    /\ readRow' = [readRow EXCEPT ![h] = None]
    /\ lateFires' = IF readRow[h].enabled THEN [lateFires EXCEPT ![target[h]] = -1]
                    ELSE lateFires
    /\ touched' = IF readRow[h].enabled THEN touched ELSE touched \cup {target[h]}
    /\ Continue(h, "list")
    /\ UNCHANGED <<vars, boot, op, target, replacement, todoOn, todoOff, hand, edits>>

\* cron_run: scheduler.wake(), after which the call returns.
CronRunWake(h) ==
    /\ task[h] = "wake"
    /\ Continue(h, "off")
    /\ CallReturns(h)
    /\ UNCHANGED <<vars, jobs, boot, replacement, readRow, todoOn, todoOff, hand, edits,
                   cronHist>>

\* cron_update: upsert of the new row under a fresh id.
CronUpdateInsert(h, k, s) ==
    /\ task[h] = "read" /\ op[h] = "update"
    /\ jobs[k].state = "unused"
    /\ jobs' = [jobs EXCEPT ![k] = [state |-> "live", enabled |-> readRow[h].enabled,
                                    schedule |-> s]]
    /\ replacement' = [replacement EXCEPT ![h] = k]
    /\ readRow' = [readRow EXCEPT ![h] = None]
    /\ Continue(h, "replace")
    /\ UNCHANGED <<vars, boot, op, target, todoOn, todoOff, hand, edits, cronHist>>

\* cron_update: delete of the old row.
CronUpdateDelete(h) ==
    /\ task[h] = "replace"
    /\ jobs' = [jobs EXCEPT ![target[h]].state = "deleted"]
    /\ replacement' = [replacement EXCEPT ![h] = None]
    /\ touched' = touched \cup {target[h]}
    /\ Continue(h, "list")
    /\ UNCHANGED <<vars, boot, op, target, readRow, todoOn, todoOff, hand, edits,
                   lateFires>>

-----------------------------------------------------------------------------
(* The application.                                                        *)

\* The app is launched (again): TemporalPlugin::init calls reconcile_all.
Launch ==
    /\ boot \in {"off", "failed"}
    /\ boot' = "init"
    /\ task' = [task EXCEPT !["boot"] = "list"]
    /\ UNCHANGED <<vars, jobs, op, target, replacement, readRow, todoOn, todoOff, hand,
                   edits, cronHist>>

\* start_temporal_scheduler, after all plugins are up.
StartLoop ==
    /\ boot = "ready"
    /\ Start
    /\ UNCHANGED <<cronVars, cronHist>>

\* A crash drops every call in progress.
DropTasks ==
    /\ task' = [t \in Tasks |-> "off"]
    /\ op' = [t \in Tasks |-> "none"]
    /\ target' = [t \in Tasks |-> None]
    /\ replacement' = [t \in Tasks |-> None]
    /\ readRow' = [t \in Tasks |-> None]
    /\ todoOn' = [t \in Tasks |-> {}]
    /\ todoOff' = [t \in Tasks |-> {}]
    /\ hand' = [t \in Tasks |-> None]

\* The process dies: loop, handlers and start-up alike.
ProcessCrash ==
    /\ boot \in {"init", "ready"}
    /\ IF Alive THEN Crash
       ELSE /\ crashes < MaxCrashes
            /\ crashes' = crashes + 1
            /\ UNCHANGED <<tableVars, now, pc, cur, loopVars, passNow, shutdown,
                           histVars, errors>>
    /\ boot' = "off"
    /\ DropTasks
    /\ UNCHANGED <<jobs, edits, cronHist>>

\* Jobs whose fire the current step announces for the first time.
AnnouncedNow ==
    {spec[i].ref_id : i \in {k \in FireIds : firedAt[k] = {} /\ firedAt'[k] # {}}}

\* A step of the loop that does not call the bridge.
LoopAlone ==
    /\ Recovery \/ ProcessDue
    /\ lateFires' = [j \in Refs |-> IF j \in AnnouncedNow /\ lateFires[j] >= 0
                                      THEN lateFires[j] + 1 ELSE lateFires[j]]
    /\ UNCHANGED touched
    /\ UNCHANGED cronVars

LoopFault == (RecoverMarkFails \/ DbError) /\ UNCHANGED <<cronVars, cronHist>>

Clock == Tick /\ UNCHANGED <<cronVars, cronHist>>

-----------------------------------------------------------------------------

\* The steps of a bridge call of task t.
Bridge(t) ==
    \/ ReconcileList(t)
    \/ \E j \in Refs : ReconcileDisabled(t, j) \/ ReconcileEnabled(t, j)
    \/ \E i \in FireIds : EnsureSchedule(t, i)
    \/ EnsureFails(t)
    \/ ReconcileDone(t)

AdvanceCall == Advance \/ AdvanceCancel \/ AdvanceDone

Request(h) ==
    \/ \E j \in Refs :
          \/ \E on \in BOOLEAN : CronEnable(h, j, on)
          \/ \E s \in Schedules : CronCreate(h, j, s)
          \/ CronDelete(h, j)
          \/ \E name \in {"run", "update"} : CronRead(h, name, j)

Handler(h) ==
    \/ CronRunWrite(h)
    \/ CronRunWake(h)
    \/ \E k \in Refs, s \in Schedules : CronUpdateInsert(h, k, s)
    \/ CronUpdateDelete(h)

\* What the running program does by itself.
Program ==
    \/ LoopAlone
    \/ \E t \in Tasks : Bridge(t)
    \/ AdvanceCall
    \/ \E h \in Handlers : Handler(h)
    \/ StartLoop

CronNext ==
    \/ Program
    \/ \E h \in Handlers : Request(h)
    \/ Launch
    \/ ProcessCrash
    \/ LoopFault
    \/ \E t \in Tasks : BridgeDbError(t)
    \/ Clock

CronSpec == CronInit /\ [][CronNext]_allVars

\* Every task that can run is run, and a stopped app is launched again.  Two
\* tasks need their own condition: one may not starve the other.
CronFairSpec ==
    /\ CronSpec
    /\ WF_allVars(LoopAlone \/ AdvanceCall \/ Bridge("scheduler"))
    /\ \A t \in Tasks \ {"scheduler"} : WF_allVars(Bridge(t))
    /\ \A h \in Handlers : WF_allVars(Handler(h))
    /\ WF_allVars(Launch) /\ WF_allVars(StartLoop)

-----------------------------------------------------------------------------
(* Properties.                                                             *)

\* While no statement fails, two different fires of a repeating job that was
\* never disabled or deleted are announced at least a period apart: a handler
\* and advance may both have scheduled the job, but the advance of the first
\* fire cancels the second.
FiresSpaced ==
    errors = 0 =>
    \A i, k \in FireIds : \A t \in firedAt[i], u \in firedAt[k] :
        (/\ i # k
         /\ spec[i].ref_id = spec[k].ref_id
         /\ spec[i].ref_id \notin touched
         /\ jobs[spec[i].ref_id].schedule.type = "every"
         /\ t <= u)
            => u - t >= jobs[spec[i].ref_id].schedule.arg

\* Once a reconcile cancelled the fires of a job that is disabled, and until
\* it is enabled again, each other task announces at most one more fire of it:
\* a handler one it schedules after having listed the job as enabled, the loop
\* one it had claimed or is scheduling in advance.
LateFiresBounded == \A j \in Refs : lateFires[j] <= Cardinality(Handlers)

\* While nothing goes stale or fails, an enabled repeating job without a fire
\* gets one, through fires, edits, crashes and restarts (or it is edited away,
\* or the bound on fires is reached).
StaysScheduled ==
    \A j \in Refs :
        (Live(j) /\ jobs[j].enabled /\ jobs[j].schedule.type = "every")
            ~> \/ FiresOf(j) # {}
               \/ ~Live(j) \/ ~jobs[j].enabled
               \/ \A i \in FireIds : status[i] # "unused"
=============================================================================
