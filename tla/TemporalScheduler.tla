-------------------------- MODULE TemporalScheduler --------------------------
(***************************************************************************)
(* TemporalScheduler::run: the one loop that turns rows of scheduled_fires *)
(* into AlarmFired events, together with the tasks that insert and cancel  *)
(* rows while it runs, the wall clock, database errors and crashes.        *)
(*                                                                         *)
(* pc is the await point the loop is suspended at:                         *)
(*   "down"        the process is not running                              *)
(*   "listing"     run() is about to query the in-flight rows              *)
(*   "recovering"  recover_in_flight, before the next row of toRecover     *)
(*   "rec_mark"    cur was published, mark_fired(cur) is next              *)
(*   "rec_follow"  cur is marked, the kind's follow-up is next             *)
(*   "idle"        asleep in select!                                       *)
(*   "pass"        process_due, before the next begin_firing               *)
(*   "publish"     cur was claimed, the AlarmFired event is next           *)
(*   "mark"        cur was published, mark_fired(cur) is next              *)
(*   "follow"      cur is marked, the kind's follow-up is next             *)
(*   "skip_mark"   the stale row cur was claimed, mark_fired is next       *)
(*   "suppress"    the loser cur was claimed, mark_suppressed is next      *)
(*   "exited"      run() returned; the rest of the process lives on        *)
(* The sleep before a pass lasts at most max_sleep and any wake() cuts it  *)
(* short, so a pass may begin at any time the loop is idle.                *)
(***************************************************************************)
EXTENDS ScheduledFires

CONSTANTS
    Requests,        \* the FireSpecs producers insert, a subset of FireSpec
    DefaultPolicy,   \* SchedulerConfig::default_misfire_policy
    DefaultGrace,    \* SchedulerConfig::default_grace_secs
    MaxTime,         \* bound: the last value of the wall clock
    MaxCrashes,      \* bound: process crashes
    MaxErrors        \* bound: database errors

ASSUME SchedulerAssumption ==
    /\ Requests \subseteq FireSpec
    /\ DefaultPolicy \in Policies
    /\ DefaultGrace \in Nat
    /\ MaxTime \in Nat
    /\ MaxCrashes \in Nat
    /\ MaxErrors \in Nat

VARIABLES
    now,        \* the wall clock
    pc,         \* see above
    cur,        \* the row in hand, or None
    toRecover,  \* rows recover_in_flight has still to handle
    toFire,     \* the "fire" bucket of the current pass
    toSkip,     \* the "skip" bucket
    toCoalesce, \* the rows of the coalesce groups not yet begun
    losers,     \* the rest of the current group's losers
    winner,     \* the current group's winner, or None
    missed,     \* the rows to report in MissedAlarms
    passNow,    \* the `now` the current pass or recovery captured
    shutdown,   \* the shutdown token is cancelled
    \* History: what the bus saw, and what the environment did.
    announced,  \* [FireIds -> Nat]: AlarmFired events in this boot
    firedAt,    \* [FireIds -> SUBSET Nat]: fired_at_ms of every AlarmFired
    reported,   \* ids in some MissedAlarms event
    dropped,    \* ids of a `missed` list that a crash or an error discarded
    withdrawn,  \* ids a cancel removed before any claim
    outranked,  \* ids some pass made the losers of a coalesce group
    unmarked,   \* ids whose mark_fired failed during recovery, in this boot
    crashes, errors

loopVars == <<toRecover, toFire, toSkip, toCoalesce, losers, winner, missed>>
histVars == <<announced, firedAt, reported, dropped, withdrawn,
              outranked, unmarked>>
faultVars == <<crashes, errors>>
vars == <<tableVars, now, pc, cur, loopVars, passNow, shutdown, histVars, faultVars>>

PCs == {"down", "listing", "recovering", "rec_mark", "rec_follow", "idle", "pass",
        "publish", "mark", "follow", "skip_mark", "suppress", "exited"}

\* The types of all variables.
TypeOK ==
    /\ TableTypeOK
    /\ now \in 0..MaxTime
    /\ pc \in PCs
    /\ cur \in FireIds \cup {None}
    /\ winner \in FireIds \cup {None}
    /\ toRecover \subseteq FireIds
    /\ toFire \subseteq FireIds
    /\ toSkip \subseteq FireIds
    /\ toCoalesce \subseteq FireIds
    /\ losers \subseteq FireIds
    /\ missed \subseteq FireIds
    /\ passNow \in 0..MaxTime
    /\ shutdown \in BOOLEAN
    /\ announced \in [FireIds -> Nat]
    /\ firedAt \in [FireIds -> SUBSET (0..MaxTime)]
    /\ reported \subseteq FireIds
    /\ dropped \subseteq FireIds
    /\ withdrawn \subseteq FireIds
    /\ outranked \subseteq FireIds
    /\ unmarked \subseteq FireIds
    /\ crashes \in 0..MaxCrashes
    /\ errors \in 0..MaxErrors

Init ==
    /\ TableInit
    /\ now = 0
    /\ pc = "down"
    /\ cur = None
    /\ winner = None
    /\ toRecover = {} /\ toFire = {} /\ toSkip = {} /\ toCoalesce = {}
    /\ losers = {} /\ missed = {}
    /\ passNow = 0
    /\ shutdown = FALSE
    /\ announced = [i \in FireIds |-> 0]
    /\ firedAt = [i \in FireIds |-> {}]
    /\ reported = {} /\ dropped = {} /\ withdrawn = {} /\ outranked = {} /\ unmarked = {}
    /\ crashes = 0 /\ errors = 0

-----------------------------------------------------------------------------
(* The misfire decision.                                                   *)

\* extract_misfire_params
MisfirePolicy(i) == IF spec[i].misfire_policy = None THEN DefaultPolicy
                    ELSE spec[i].misfire_policy

Grace(i) == IF spec[i].grace = None THEN DefaultGrace ELSE spec[i].grace

\* Mutant: strict rows go stale like the others.
ClassifyStrictAsStale(i, t) ==
    IF MisfirePolicy(i) = "coalesce" THEN "coalesce_later"
    ELSE IF t - spec[i].fire_at <= Grace(i) THEN "fire" ELSE "skip_stale"

\* Decision::classify; the grace is inclusive.
Classify(i, t) ==
    CASE MisfirePolicy(i) = "strict" -> "fire"
      [] MisfirePolicy(i) = "coalesce" -> "coalesce_later"
      [] MisfirePolicy(i) = "skip_if_stale" ->
            IF t - spec[i].fire_at <= Grace(i) THEN "fire" ELSE "skip_stale"

\* Where process_due puts a due row: a row to coalesce without a ref_id fires.
Bucket(i, t) ==
    IF Classify(i, t) = "coalesce_later" /\ spec[i].ref_id = None THEN "fire"
    ELSE Classify(i, t)

\* The coalesce HashMap's key is (ref_id, kind).
SameGroup(i, j) == /\ spec[i].ref_id = spec[j].ref_id
                   /\ spec[i].kind = spec[j].kind

\* list_due is ORDER BY fire_at_ms, and a group is sorted by it.
Oldest(i, S) == i \in S /\ \A j \in S : spec[i].fire_at <= spec[j].fire_at

MostRecent(i, S) == i \in S /\ \A j \in S : spec[j].fire_at <= spec[i].fire_at

\* Kinds whose dispatch calls back into CronBridge or RecurrenceEngine.
FollowUpKinds == {"cron_job", "recurrence_spawn"}

-----------------------------------------------------------------------------
(* The tasks around the loop.                                              *)

Alive == pc # "down"

\* FireStore::schedule by any producer.
Schedule(i, sp) ==
    /\ Alive
    /\ Insert(i, sp)
    /\ UNCHANGED <<now, pc, cur, loopVars, passNow, shutdown, histVars, faultVars>>

\* The ids a cancel removes before any claim.
Withdraw == withdrawn' = withdrawn \cup {i \in FireIds : /\ status[i] = "pending"
                                                        /\ status'[i] = "deleted"}

\* FireStore::cancel_by_prefix by any producer.
Cancel(matching) ==
    /\ Alive
    /\ CancelByPrefix(matching)
    /\ Withdraw
    /\ UNCHANGED <<now, pc, cur, loopVars, passNow, shutdown, announced, firedAt,
                   reported, dropped, outranked, unmarked, faultVars>>

\* The wall clock moves, whether the process runs or not.
Tick ==
    /\ now < MaxTime
    /\ now' = now + 1
    /\ UNCHANGED <<tableVars, pc, cur, loopVars, passNow, shutdown, histVars, faultVars>>

\* TemporalScheduler::shutdown
Shutdown ==
    /\ Alive /\ ~shutdown
    /\ shutdown' = TRUE
    /\ UNCHANGED <<tableVars, now, pc, cur, loopVars, passNow, histVars, faultVars>>

-----------------------------------------------------------------------------
(* Start and recovery.                                                     *)

\* start_background in a new process.
Start ==
    /\ pc = "down"
    /\ pc' = "listing"
    /\ shutdown' = FALSE
    /\ announced' = [i \in FireIds |-> 0]
    /\ unmarked' = {}
    /\ UNCHANGED <<tableVars, now, cur, loopVars, passNow, firedAt, reported,
                   dropped, withdrawn, outranked, faultVars>>

\* Mutant: the rows a crashed process left behind are not looked up.
RecoverNothing ==
    /\ pc = "listing"
    /\ pc' = "recovering"
    /\ passNow' = now
    /\ UNCHANGED <<tableVars, now, cur, loopVars, shutdown, histVars, faultVars>>

\* recover_in_flight: the query.
RecoverList ==
    /\ pc = "listing"
    /\ pc' = "recovering"
    /\ toRecover' = ListInFlight
    /\ passNow' = now
    /\ UNCHANGED <<tableVars, now, cur, toFire, toSkip, toCoalesce, losers, winner,
                   missed, shutdown, histVars, faultVars>>

\* publish_alarm(AlarmFired): every subscriber's broadcast queue gets it.
PublishAlarmFired(i) ==
    /\ announced' = [announced EXCEPT ![i] = @ + 1]
    /\ firedAt' = [firedAt EXCEPT ![i] = @ \cup {passNow}]
    /\ UNCHANGED <<reported, dropped, withdrawn, outranked, unmarked>>

\* recover_in_flight: publish the next row, without a new claim.
RecoverPublish(i) ==
    /\ pc = "recovering"
    /\ i \in toRecover
    /\ toRecover' = toRecover \ {i}
    /\ PublishAlarmFired(i)
    /\ cur' = i
    /\ pc' = "rec_mark"
    /\ UNCHANGED <<tableVars, now, toFire, toSkip, toCoalesce, losers, winner, missed,
                   passNow, shutdown, faultVars>>

RecoverMark ==
    /\ pc = "rec_mark"
    /\ MarkFired(cur)
    /\ pc' = "rec_follow"
    /\ UNCHANGED <<now, cur, loopVars, passNow, shutdown, histVars, faultVars>>

\* A failed mark_fired is logged; the row stays in flight and recovery goes on.
RecoverMarkFails ==
    /\ pc = "rec_mark"
    /\ errors < MaxErrors
    /\ errors' = errors + 1
    /\ unmarked' = unmarked \cup {cur}
    /\ cur' = None
    /\ pc' = "recovering"
    /\ UNCHANGED <<tableVars, now, loopVars, passNow, shutdown, announced, firedAt,
                   reported, dropped, withdrawn, outranked, crashes>>

RecoverDone ==
    /\ pc = "recovering"
    /\ toRecover = {}
    /\ pc' = "idle"
    /\ UNCHANGED <<tableVars, now, cur, loopVars, passNow, shutdown, histVars, faultVars>>

\* A kind without a follow-up: on to the next row.
NoFollowUp ==
    /\ pc \in {"rec_follow", "follow"}
    /\ spec[cur].kind \notin FollowUpKinds
    /\ pc' = IF pc = "follow" THEN "pass" ELSE "recovering"
    /\ cur' = None
    /\ UNCHANGED <<tableVars, now, loopVars, passNow, shutdown, histVars, faultVars>>

-----------------------------------------------------------------------------
(* One pass of process_due.                                                *)

\* The sleep ends (timeout or wake); the clock is read and the due rows are
\* listed and put into their buckets.
BeginPass ==
    /\ pc = "idle"
    /\ pc' = "pass"
    /\ passNow' = now
    /\ LET due == ListPendingUpTo(now)
       IN  /\ toFire' = {i \in due : Bucket(i, now) = "fire"}
           /\ toSkip' = {i \in due : Bucket(i, now) = "skip_stale"}
           /\ toCoalesce' = {i \in due : Bucket(i, now) = "coalesce_later"}
    /\ UNCHANGED <<tableVars, now, cur, toRecover, losers, winner, missed, shutdown,
                   histVars, faultVars>>

\* begin_firing(i): continue at `next` with the row in hand if the UPDATE
\* matched it; otherwise someone else has it or it is gone, and it is dropped.
Claim(i, next) ==
    IF BeginFiringMatches(i)
      THEN BeginFiring(i) /\ cur' = i /\ pc' = next
      ELSE UNCHANGED <<tableVars, cur, pc>>

\* dispatch(row) of the fire bucket.
FireClaim(i) ==
    /\ pc = "pass"
    /\ Oldest(i, toFire)
    /\ toFire' = toFire \ {i}
    /\ Claim(i, "publish")
    /\ UNCHANGED <<now, toRecover, toSkip, toCoalesce, losers, winner, missed,
                   passNow, shutdown, histVars, faultVars>>

DispatchPublish ==
    /\ pc = "publish"
    /\ PublishAlarmFired(cur)
    /\ pc' = "mark"
    /\ UNCHANGED <<tableVars, now, cur, loopVars, passNow, shutdown, faultVars>>

DispatchMark ==
    /\ pc = "mark"
    /\ MarkFired(cur)
    /\ pc' = "follow"
    /\ UNCHANGED <<now, cur, loopVars, passNow, shutdown, histVars, faultVars>>

SkipClaim(i) ==
    /\ pc = "pass"
    /\ toFire = {}
    /\ Oldest(i, toSkip)
    /\ toSkip' = toSkip \ {i}
    /\ Claim(i, "skip_mark")
    /\ UNCHANGED <<now, toRecover, toFire, toCoalesce, losers, winner, missed,
                   passNow, shutdown, histVars, faultVars>>

\* Mutant: the skipped row is marked fired but not remembered as missed.
SkipMarkSilently ==
    /\ pc = "skip_mark"
    /\ MarkFired(cur)
    /\ cur' = None
    /\ pc' = "pass"
    /\ UNCHANGED <<now, loopVars, passNow, shutdown, histVars, faultVars>>

SkipMark ==
    /\ pc = "skip_mark"
    /\ MarkFired(cur)
    /\ missed' = missed \cup {cur}
    /\ cur' = None
    /\ pc' = "pass"
    /\ UNCHANGED <<now, toRecover, toFire, toSkip, toCoalesce, losers, winner,
                   passNow, shutdown, histVars, faultVars>>

\* Mutant: the groups are formed by ref_id alone.
CoalesceBeginByRef(w) ==
    LET group == {i \in toCoalesce : spec[i].ref_id = spec[w].ref_id} IN
    /\ pc = "pass"
    /\ toFire = {} /\ toSkip = {} /\ winner = None
    /\ w \in toCoalesce
    /\ MostRecent(w, group)
    /\ winner' = w
    /\ losers' = group \ {w}
    /\ toCoalesce' = toCoalesce \ group
    /\ outranked' = outranked \cup (group \ {w})
    /\ UNCHANGED <<tableVars, now, pc, cur, toRecover, toFire, toSkip, missed, passNow,
                   shutdown, announced, firedAt, reported, dropped, withdrawn,
                   unmarked, faultVars>>

\* The next coalesce group, in any order, and its most recent row.
CoalesceBegin(w) ==
    LET group == {i \in toCoalesce : SameGroup(i, w)} IN
    /\ pc = "pass"
    /\ toFire = {} /\ toSkip = {} /\ winner = None
    /\ w \in toCoalesce
    /\ MostRecent(w, group)
    /\ winner' = w
    /\ losers' = group \ {w}
    /\ toCoalesce' = toCoalesce \ group
    /\ outranked' = outranked \cup (group \ {w})
    /\ UNCHANGED <<tableVars, now, pc, cur, toRecover, toFire, toSkip, missed, passNow,
                   shutdown, announced, firedAt, reported, dropped, withdrawn,
                   unmarked, faultVars>>

LoserClaim(i) ==
    /\ pc = "pass"
    /\ winner # None
    /\ Oldest(i, losers)
    /\ losers' = losers \ {i}
    /\ Claim(i, "suppress")
    /\ UNCHANGED <<now, toRecover, toFire, toSkip, toCoalesce, winner, missed,
                   passNow, shutdown, histVars, faultVars>>

LoserSuppress ==
    /\ pc = "suppress"
    /\ MarkSuppressed(cur, winner)
    /\ cur' = None
    /\ pc' = "pass"
    /\ UNCHANGED <<now, loopVars, passNow, shutdown, histVars, faultVars>>

\* Mutant: the group is done once its losers are suppressed.
WinnerForgotten ==
    /\ pc = "pass"
    /\ winner # None
    /\ losers = {}
    /\ winner' = None
    /\ UNCHANGED <<tableVars, now, pc, cur, toRecover, toFire, toSkip, toCoalesce,
                   losers, missed, passNow, shutdown, histVars, faultVars>>

WinnerClaim ==
    /\ pc = "pass"
    /\ winner # None
    /\ losers = {}
    /\ winner' = None
    /\ Claim(winner, "publish")
    /\ UNCHANGED <<now, toRecover, toFire, toSkip, toCoalesce, losers, missed,
                   passNow, shutdown, histVars, faultVars>>

\* A pass with nothing left to claim.
PassEmpty == toFire = {} /\ toSkip = {} /\ toCoalesce = {} /\ winner = None

\* emit_missed and back to sleep.
EndPass ==
    /\ pc = "pass"
    /\ PassEmpty
    /\ reported' = reported \cup missed
    /\ missed' = {}
    /\ pc' = "idle"
    /\ UNCHANGED <<tableVars, now, cur, toRecover, toFire, toSkip, toCoalesce, losers,
                   winner, passNow, shutdown, announced, firedAt, dropped,
                   withdrawn, outranked, unmarked, faultVars>>

\* select! sees the cancelled token and run() returns.
ExitOnShutdown ==
    /\ pc = "idle"
    /\ shutdown
    /\ pc' = "exited"
    /\ UNCHANGED <<tableVars, now, cur, loopVars, passNow, shutdown, histVars, faultVars>>

-----------------------------------------------------------------------------
(* Faults.                                                                 *)

\* The loop's local variables are lost.
Abandon ==
    /\ cur' = None /\ winner' = None
    /\ toRecover' = {} /\ toFire' = {} /\ toSkip' = {} /\ toCoalesce' = {}
    /\ losers' = {} /\ missed' = {}
    /\ dropped' = dropped \cup missed
    /\ UNCHANGED <<announced, firedAt, reported, withdrawn, outranked, unmarked>>

\* The statement the loop awaits fails and `?` ends run().
DbError ==
    /\ \/ pc \in {"listing", "idle", "mark", "skip_mark", "suppress"}
       \/ pc = "pass" /\ ~PassEmpty
    /\ errors < MaxErrors
    /\ errors' = errors + 1
    /\ pc' = "exited"
    /\ Abandon
    /\ UNCHANGED <<tableVars, now, passNow, shutdown, crashes>>

\* The process dies at any point; the table survives.
Crash ==
    /\ Alive
    /\ crashes < MaxCrashes
    /\ crashes' = crashes + 1
    /\ pc' = "down"
    /\ Abandon
    /\ UNCHANGED <<tableVars, now, passNow, shutdown, errors>>

-----------------------------------------------------------------------------

Recovery ==
    \/ RecoverList
    \/ \E i \in FireIds : RecoverPublish(i)
    \/ RecoverMark
    \/ RecoverDone

ProcessDue ==
    \/ BeginPass
    \/ \E i \in FireIds : FireClaim(i) \/ SkipClaim(i) \/ CoalesceBegin(i) \/ LoserClaim(i)
    \/ DispatchPublish \/ DispatchMark
    \/ SkipMark
    \/ LoserSuppress \/ WinnerClaim
    \/ EndPass

\* The steps the running loop takes by itself.
Loop == Recovery \/ ProcessDue \/ NoFollowUp \/ ExitOnShutdown

Faults == RecoverMarkFails \/ DbError \/ Crash

Environment ==
    \/ \E i \in FireIds, sp \in Requests : Schedule(i, sp)
    \/ \E m \in SUBSET Prefixes : Cancel(m)
    \/ Tick
    \/ Shutdown

Next == Environment \/ Start \/ Loop \/ Faults

Spec == Init /\ [][Next]_vars

\* The runtime polls a runnable task, and a stopped app is started again.
\* Nothing is assumed of producers, the clock, faults or the user.
FairSpec == Spec /\ WF_vars(Loop) /\ WF_vars(Start)

-----------------------------------------------------------------------------
(* Properties.                                                             *)

\* Within one boot of the process no fire is announced twice, although claimed
\* rows show up in every listing ("never double-dispatched", run()).
AtMostOncePerBoot == \A i \in FireIds : announced[i] <= 1

\* A fire cancelled before the loop claimed it is never announced, even when
\* the loop had already listed it as due.
WithdrawnNeverAnnounced == \A i \in withdrawn : firedAt[i] = {}

\* When the loop sleeps, every claim was followed by phase two, except rows
\* whose mark_fired failed during this boot's recovery.
IdleLeavesNothingInFlight == pc = "idle" => ListInFlight \subseteq unmarked

\* While the loop sleeps, every fired row was announced, was suppressed by a
\* newer one or was reported missed; only a crash or an error loses a report.
EveryFireAccounted ==
    pc = "idle" =>
        \A i \in FireIds : status[i] = "fired" =>
            \/ firedAt[i] # {}
            \/ suppressed_by[i] # None
            \/ i \in reported \cup dropped

\* A suppressed row was never announced, and what suppressed it is another row
\* of the same (ref_id, kind) that is at least as recent.
SuppressedForNewer ==
    \A i \in FireIds : suppressed_by[i] # None =>
        /\ firedAt[i] = {}
        /\ suppressed_by[i] # i
        /\ SameGroup(i, suppressed_by[i])
        /\ spec[i].fire_at <= spec[suppressed_by[i]].fire_at

\* No fire is announced before its time, by a pass or by a recovery.
NeverEarly == \A i \in FireIds : \A t \in firedAt[i] : spec[i].fire_at <= t

\* Every due row is eventually fired or deleted, and announced if its policy is
\* strict and nobody cancels it, through crashes and restarts, unless the loop is
\* shut down or a failing statement ends it.
DueSettles ==
    \A i \in FireIds :
        (Unfired(i) /\ spec[i].fire_at <= now)
            ~> \/ status[i] = "deleted" \/ shutdown \/ errors > 0
               \/ status[i] = "fired" /\ (MisfirePolicy(i) = "strict" => firedAt[i] # {})

\* Some row of i's group, at least as recent, was announced or cancelled.
GroupSpokeUp(i) ==
    \E j \in FireIds : /\ spec[i] # None /\ spec[j] # None
                       /\ SameGroup(i, j)
                       /\ spec[i].fire_at <= spec[j].fire_at
                       /\ firedAt[j] # {} \/ status[j] = "deleted"

\* Suppression never silences a whole group: a row at least as recent as the
\* suppressed one is announced, or was cancelled by its owner.
SuppressionNotLost ==
    \A i \in FireIds :
        suppressed_by[i] # None ~> (GroupSpokeUp(i) \/ shutdown \/ errors > 0)

(* The contract with the producers, implemented.                           *)

Phase(i) == CASE status[i] = "unused"  -> "absent"
              [] status[i] = "pending" -> "accepted"
              [] status[i] = "firing"  -> "taken"
              [] status[i] = "fired"   -> "settled"
              [] status[i] = "deleted" -> IF i \in withdrawn THEN "withdrawn"
                                          ELSE "recalled"

Contract == INSTANCE FireContract WITH
    phase <- [i \in FireIds |-> Phase(i)],
    heard <- {i \in FireIds : firedAt[i] # {}},
    heardNow <- {i \in FireIds : announced[i] > 0}

\* The scheduler implements FireContract: whatever the interleaving of passes,
\* cancels, crashes and errors, a producer sees only the contract's steps.
ImplementsContract == Contract!Spec
=============================================================================
