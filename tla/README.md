# A verification of KlyntBot

KlyntBot is a local-first personal agent for macOS: a Rust workspace of some sixty
crates (`crates/`) behind a Tauri desktop shell (`desktop-ui/`). This directory holds
TLA+ specifications of the parts of it whose correctness is a matter of ordering,
concurrency and failure, TLC configurations that check them on small instances, and
proofs checked by TLAPS.

All source paths below are relative to the repository; `scheduler.rs` and its siblings
are in `crates/scheduling/src/temporal/`.

## 1. Inventory

| Component | State | Operations | Interacts with | What makes it correct | Module |
|---|---|---|---|---|---|
| `scheduled_fires` store (`storage/src/repos/scheduled_fires.rs`, `fire_store.rs`) | one row per fire: time, kind, ref, prefix, payload, `fired`, `firing_started_at_ms`, `suppressed_by` | insert, list due, claim, mark fired, mark suppressed, list in flight, cancel by prefix, cancel by kind and ref | every producer of fires; the scheduler | a row is claimed once; nothing leaves the fired state | `ScheduledFires` |
| `TemporalScheduler` (`scheduler.rs`, `misfire.rs`) | the locals of one loop | sleep, recover, list, classify, claim, publish, mark, suppress, report missed | store, domain event bus, cron bridge, recurrence engine | no double announcement, nothing lost, nothing early, cancelled means silent | `TemporalScheduler` |
| Cron jobs (`cron_bridge.rs`, `app-core/src/handlers/cron.rs`, `storage/src/repos/cron.rs`) | `cron_jobs` rows and their fires | create, enable, disable, run, update, delete, reconcile, advance | store, scheduler, start-up | an enabled job has one next fire, a disabled one none | `CronScheduling` |
| Notification dispatcher (`notifications/`) | notification log, held notifications, their release fires | notify, hold, release, retry | event bus, store, desktop notifier | a notification is shown at most once per channel, and the log tells what came of it | `NotificationDelivery` |
| Sessions (`session/`, `storage/src/repos/session.rs`) | cached conversations, the rows of sessions and messages | load, append, save, compact, evict, reset, delete | agent loop, UI | no message is lost, no deleted one returns | `SessionCache` |
| Chat streams (`app-core/src/handlers/chat/`, `agent/src/agent_loop/`) | `active_streams`, `pending_interactions`, the events of a turn | send, relay, ask, answer, cancel, finish | agent loop, both buses, UI | a turn ends visibly, and the session is free again | `ChatStreams` |
| LLM providers (`providers/src/manager.rs`, `storage/src/circuit_breaker.rs`) | failure count, deadline of the open circuit, its row | call, retry, fail over, open, persist, restore | agent loop, start-up | a broken provider is left alone, then tried again | `ProviderFailover` |
| Task focus (`feature-tasks/src/focus_*.rs`, `alarm_side_effects.rs`) | focus and deadline of a task, its warning and expiry fires | focus, unfocus, complete, delete, re-arm, expire, poll | task tool, store, scheduler, bus | the fires are those of the focus; every focus ends, and only its own | `FocusDeadlines` |
| Autotuner (`agent/src/autotuner/`, `autotuner/`) | the champion, in memory, in the learning state and in the sink of live retrieval; trials | evaluate, promote, count regressions, roll back, revert | cron jobs, UI, retrieval | three copies of one champion agree | `ChampionTrials` |
| Cron executor (`cron_executor.rs`) | registered closures | subscribe, dispatch | event bus | one run per announced fire | - |
| Recurrence engine (`recurrence.rs`, `feature-tasks/src/recurrence_repo.rs`) | task templates, instances, spawn fires | materialise, edit scopes, cancel | store, scheduler, tasks | one instance per occurrence | - |
| Approval gate (`approval/`) | pending approvals, grants | request, decide, time out, grant | agent loop, UI | no tool runs without a decision that covers it | - |
| Agent loop (`agent/`) | a turn: messages, tool calls, budget | call model, run tools, compress | providers, tools, session | each tool call gets one result | in part in `ChatStreams`, `SessionCache` |
| Event bus (`bus/`) | bounded broadcast queues | publish, receive, lag | everything | order per receiver; loss is visible | in each composed module |
| Cognitive memory (`cognitive-*`, `context_engine/`) | facts, graphs, embeddings | extract, retrieve, decay | agent loop | statistical | - |
| Tools, MCP, skills, coding tools (`tools*`, `mcp*`, `skill-system`, `klynt-*`) | mostly none | execute | agent loop, operating system | formats, sandbox policy | - |
| Other features (`feature-*`), activity log, analytics | their tables | CRUD, producers of fires | store, bus | per feature | - |
| Channels, voice, platform, desktop, config | connections and devices | I/O | outside world | I/O | - |

What is hard in this program: everything runs as tasks of one tokio runtime on one
SQLite database. A statement is atomic and almost no operation is a transaction, so any
two operations may interleave between statements, and the process may die between any
two of them. Events travel over bounded broadcast channels, and several things are known in
two or three places at once (a row and a cache, a focus and its fires, a breaker and its
row, a champion and its sink). The list of hazards, each with its line and the properties
aimed at it, is in `PROJECT.json`.

## 2. Modules

| Module | What it is |
|---|---|
| `ScheduledFires` | the table and one operator per SQL statement |
| `TemporalScheduler` | the loop, its recovery, the producers around it, the clock, faults |
| `FireContract` | the abstract specification: what a producer of fires may rely on |
| `TemporalSchedulerProofs` | type correctness, six safety theorems, and that `TemporalScheduler` implements `FireContract` |
| `CronScheduling`, `CronSchedulingProofs` | `TemporalScheduler` composed with cron jobs, bridge, handlers and start-up; eight theorems, one of them that the composition still implements `FireContract` |
| `NotificationDelivery`, `NotificationDeliveryProofs` | the notification dispatcher composed with `FireContract`, and five theorems |
| `SessionCache`, `SessionCacheProofs` | the session cache, turns, resets and deletions over the tables; four theorems |
| `ChatStreams`, `ChatStreamsProofs` | turns of the desktop chat, their relays and questions; five theorems |
| `ProviderFailover`, `ProviderFailoverProofs` | retries, fail-over and the persistent circuit breaker; five theorems |
| `FocusDeadlines`, `FocusDeadlinesProofs` | focus on a task until a deadline; four theorems |
| `ChampionTrials`, `ChampionTrialsProofs` | the autotuner's champion and its rollback; three theorems |
| `MC...` | the constants of the model-checking instances |

### ScheduledFires

A row's two columns `fired` and `firing_started_at_ms` become one `status`; ids are
fresh UUIDs, so an id is used once. Each SQL statement is one operator and one atomic
step of whatever module uses it: `begin_firing` is `BeginFiringMatches` (its WHERE) and
`BeginFiring` (its SET); both cancels are `DeleteUnfired`, which, as in the code,
deletes claimed rows too because they only ask for `fired = 0`. The payload is reduced
to the two fields the scheduler reads.

### TemporalScheduler

`pc` is the `.await` at which `TemporalScheduler::run` is suspended; each action runs
from one await to the next. The three buckets of `process_due` and its group under way
are the loop's locals and are lost in a crash; the table is not. `RecoverList`,
`RecoverPublish`, `RecoverMark` are `recover_in_flight`; `BeginPass` is the end of the
sleep, `list_due` and the partition; `FireClaim`, `DispatchPublish`, `DispatchMark` are
`dispatch`; `SkipClaim`, `SkipMark` the stale rows; `CoalesceBegin`, `LoserClaim`,
`LoserSuppress`, `WinnerClaim` the groups; `EndPass` is `emit_missed`. A pass may begin
whenever the loop is idle: sleeping shorter is always allowed because `wake()` may come
at any time. Producers insert any of `Requests` and cancel any set of prefixes between
any two steps; the clock moves independently; statements fail and the process dies up
to a bound. Variables from `announced` on are history, written only to state properties.

The follow-up of a fire (`advance`, `on_spawn`) is a `pc` of its own, `follow`: in this
module only kinds without follow-up pass it; `CronScheduling` adds the cron kind.

### FireContract

Per fire a phase (absent, accepted, taken, settled, withdrawn, recalled) and whether it
was heard at all and in this boot. It says: a fire is heard only once taken or on
recovery, at most once per boot, never after being withdrawn, and it is settled
exactly once. Everything about passes, buckets, groups and recovery is hidden.

### CronScheduling

The module extends `TemporalScheduler`, takes its loop unchanged and adds the tasks that
run next to it: `boot` (`TemporalPlugin::init`), one per concurrent request (`Handlers`)
and the loop's own call of `advance`. `task[t]` is the await a bridge call stands at;
`reconcile_all` works from the list it read (`todoOn`, `todoOff`), `ensure_scheduled` is
two steps with anything in between. A job's row is `live`, `deleted` or `unused`;
`cron_run` and `cron_update` hold a copy of the row across an await, and `cron_update`
moves to a fresh id, as in the code. `BridgeDbError` is a failing statement of any call: the first
one of a handler changes nothing, a later one leaves what was done before it, so an update whose
delete fails ends with both the old job and its replacement, and no reconcile
(`handlers/cron.rs:308`). `Launch`, `StartLoop` and `ProcessCrash` are the
order of start-up: reconcile first, recovery later.

### NotificationDelivery

The dispatcher task, composed not with the scheduler itself but with `FireContract`, which
the scheduler is proved to implement: alarms and the releases of held notifications are its
fires, `FireAnnounced` puts an event in the dispatcher's receiver, and what the contract
leaves open (when, in which order, how often over several boots, or settled without a word
by the misfire policy) is left open here. That keeps the composition small and makes its
results hold for any scheduler that keeps the contract.

`pc` is again the await: `ReceiveAlarm` (the quiet hours gate and the choice of channels),
`HoldRow`, `HoldFire` (`HeldReleaseService::hold`), `ReceiveRelease`, `FindHeld`, `MarkReleased`
(`handle_held_release`), `TryInsert`, `DeliverOk`, `DeliverFails`, `RecordAck`, `RecordError`
(`dispatch_one`, once per channel of `todo`). The back-off sleeps are part of "deliver": the task
is sequential and nothing else of it can run. `deliver` returns Ok in two ways: a desktop channel has
shown the notification, and a channel of `Silent` has not. These are telegram, discord, slack and email,
because `OutboundChannel::deliver` sends only to the active chat in `last_active`, which
`plugins/notifications.rs:47` creates empty and nothing fills; and the tray, whose event
`TrayNotificationRequested` no receiver shows. `Shows` tells the two apart, `shown` counts what was
shown, and the log records an ack for both, as the code does; a silent channel never fails.
Shown means handed to the notification service of the operating system without an error; what that
makes of it, and the exit status of `osascript`, which the sender of a process without window does
not read (`common/src/notify.rs:48`), are outside the model. A log row is `absent`, `sent`, `acked` or
`error`; a held row and its companion fire share one value. The queue has no length bound of
its own: `BusOverruns` takes its oldest event at any time, because the bus carries the
traffic of the whole program. `lost` and `faulted` are history: they name what a fault took, so
that properties can say "unless". Nobody cancels the dispatcher's shutdown token; the process
just ends.

### SessionCache

A turn of the agent loop takes its session from the cache or loads it, adds the user's message,
asks the model and saves the answer; getting a session may evict another, whose clone is saved
first. `task[t].pc` is the await the turn stands at. What other tasks can hold is an
`Arc<Mutex<Session>>`, which outlives its place in the map, so sessions in memory live in `heap`
and `cache` and turns refer to them. A message is its timestamp and a session the set of them.
`Touch`, `Load`, `Create`, `CacheInsert` are `get_or_create`; `Snapshot`, `Upsert`, `Insert`,
`Count`, `Saved`, `SaveFailed` are the saves, also those of an eviction with its attempts and the
compaction; `ResetBegin`, `ResetDelete` are `/reset`, `DeleteThread` the deletion of a thread,
which does not touch the cache, as in the code. `log`, `removed`, `overtaken` and `final` are
history: what was said, what was deliberately taken away, what came to a session while it was
being evicted, what a reset with nothing next to it deleted.

### ChatStreams

`turn[t]` is the record of one `chat_send`: how far the call is, its relay, its agent, its
token, the question it waits for and what the user was shown. `Admit` and `Register` are apart
because the check for a running stream and the registration are many awaits apart.
`TakeEnd`, `ShowDone`, `DropGuard` are the relay's end, the guard coming last. Of the domain bus
only `Cancelled` matters: it carries no session, so every relay takes it (`Finish`). `Respond`,
`Expire`, `TakeQuestion` are the questions of the ask tool, `Cancel` is the user's cancel, reset
or deletion, and `Collect` the MCP bridge, which starts no relay.

### ProviderFailover

`stage[c]` is the await a call stands at. A deadline is the time left until it: `Tick` takes one
unit off the one in memory, the one in the row and those that spawned tasks have still to write;
that the monotonic and the wall clock advance alike is assumed. `WriteDeadline` and `ClearCount`
are the two halves of opening, on separate atomics, `Announce` the callback that spawns the
save, `Save` and `SaveFails` the spawned task, in any order. `Abandon` is a caller's timeout
dropping the call wherever it awaits (`query_rewriter.rs:536`). `ProcessCrash` and `Launch`
restore the breaker from its row. Health checks change nothing and are left out, as are the
events that tell the user of degradation. An open circuit asks the fallback once, without
retries. `MaxSaves` bounds the saves under way when a call enters.

### FocusDeadlines

`Focus` and `Unfocus` write the task and `Publish` sends `TaskFocusChanged` after further
awaits, so calls on one task may overtake each other; a call may also be dropped by the
timeout of tools before it has published (`CallFails`). `Receive`, `CancelRows`, `InsertRow` are
the handler in `focus_alarms`, one row per step. `FireRow` stands for the scheduler, whose own
module has the detail; `AlarmEnds` is `alarm_side_effects`, `Poll` and `WatcherEnds` are
`focus_watcher`. `nth` counts the focuses of a task and is carried by every message, as history,
to tell which focus it is about; the code carries only the task id. `disturbed` is history too:
tasks whose rows a fault or a race upset, cleared when the last change of the task is handled
in full. The comment at `focus_alarms.rs:4` that re-focusing replaces the warnings reliably
holds only with that exception. Deleting a task publishes nothing; completing one keeps its
focus, and the poll skips it. Time entries, the activity log and notifications are left out, and
so is `todo_overdue_check`, which nothing seeds.

### ChampionTrials

A champion is its trial and its count of regressions. `SavePrevious`, `Install`, `WriteSink` are
`update_champion`: the write lock is taken with the first and given back with the second, the
sink is written after it. `Evaluate`, `Judge` and the verdict (`CountRegression`,
`RollbackImpossible`, `RollbackStarts` to `Restore`, `ClearCount`) are `run_evaluation`;
`LoadPrevious`, `ReadCurrent`, `MarkReverted` are `autotuner_revert`. Two jobs evaluate every
night, on blocking threads of their own, and a job can also be run by hand, so two evaluations
may overlap. What the metrics say is a choice; only the default champion, which has no baseline,
cannot regress. The count saturates at `MaxDays` (255 in the code). Trials that are completed or
reverted are both `over`: neither is looked at again. No code ever writes the status
`promoted`, so the champion's own trial stays active and may be promoted over itself; the model
allows it.

## 3. Runs

Identities are model values or strings. `CHECK_DEADLOCK` is off where the bounds on clock,
fires, faults and edits let the system come to rest.

| Run | Instance | Shows |
|---|---|---|
| `temporal_scheduler` | 2 fires, 5 kinds of request, clock 0..2, 1 crash, 1 failing statement, fairness | the invariants of the loop, `ImplementsContract`; every due fire settles, a strict one by being heard; a coalesce group is not silenced |
| `cron_safety` | 1 job, 3 fires, 3 edits, 1 handler, clock 0..2, 1 crash, fairness | `FiresSpaced` by the period, after a disable `LateFiresBounded`; an enabled repeating job gets its next fire (`StaysScheduled`) |
| `cron_faults` | 2 jobs (one may not parse), 2 fires, 2 edits, 1 crash, 1 failing statement | the guarantees of the loop with the bridge attached and failing |
| `notification_delivery` | 1 alarm, 2 held rows, a channel that shows, a silent one and an unregistered one, 2 attempts, 1 crash, 1 failing statement, 1 lost event, fairness | an alarm shown at most once per channel, what a log row is worth on each kind of channel, no held row forgotten, releases complete; events answered with a recorded outcome |
| `session_cache` | 2 turns, 2 conversations, a cache for one, 3 old messages, 1 failing statement, 1 deletion or reset | a confirmed answer is stored, nothing is lost except what comes to a session being evicted, a reset that nothing overlaps is final |
| `eviction_loses_nothing` | the same without deletions | counterexample: the exception is needed |
| `chat_streams` | 2 sessions, 2 turns, 1 question each, fairness | sendable once the end is shown, an entry goes only with its own relay or cancel, no question without relay; every turn of the desktop is closed |
| `shown_cancelled_was_cancelled` | the same | counterexample: one cancel ends the relays of other sessions |
| `provider_failover` | 2 calls, threshold 2, reset after 2 ticks, 1 restart or dropped call, 1 save under way, fairness | the breaker opens only for what it counted, is acted on, survives a restart, and closes again |
| `focus_deadlines` | 1 task, 2 calls, 1 slot, 3 hours with 2 warnings, 2 changes, 2 faults, fairness | rows match the focus and are never those of two, nothing ends a focus it did not mean, an overdue focus ends |
| `champion_trials` | 2 evaluations, 1 revert, 1 trial, threshold 2, 1 fault, fairness | the row is the champion in use, the previous one is the one replaced, a regression is cleared or answered |
| `live_params_follow_champion` | 1 evaluation, threshold 3, no fault | counterexample: a rollback is not told to live retrieval |

Bounds. Two fires are what a coalesce group, a duplicate or a stale listing needs: no
statement relates three rows except a group with two losers, which are handled one after
the other in the same way. Times 0..2 with a grace of 0 or 1 give early, due, in grace and
stale. One crash reaches every await and one recovery after it; what a second crash adds
is a crash during recovery, which meets only claimed or fired rows, the same as a pass. One
failing statement ends the loop or leaves one row unmarked. For cron, three fires let a
job fire, be scheduled twice by a race, and meet an edit; three edits are create, race
and disable (two did not show that a fire doubled by a race is announced twice when the
job is disabled in between, which is why `FiresSpaced` speaks of jobs never disabled).

For notifications, one crash lets one alarm be announced twice and so be held twice, directly
delivered and released, or released twice, which is every way two dispatches can meet on one
log row; a second alarm shares with it only the queue, where the two releases already stand
for each other. The default list names an unregistered channel first, so that skipping a
channel and going on is exercised; the payload's own list has a channel that shows and a silent
one, so that each kind follows the other's success and failure. Two held rows are as many as the announcements of one
alarm, so no behaviour is cut short for want of an id.

For sessions, a cache for one of two conversations makes every change of conversation an
eviction, and three old messages bring one turn over the trimming and the compaction
threshold. For chat, all that turns share is a map entry, a question and the bus: two turns meet
in one session or next to each other. For providers, two calls open the circuit together, or
one meets it open, resets the count the other relies on, or opens it again; a threshold of two
is the least that can be half counted. For focus, two calls on one task race with each other
and with both ends; a second task adds only the slot count. For the champion, two evaluations
and a revert are three updates or verdicts in any order on one lock; with one trial the default
champion is the other party of every change, and a trial may also replace itself; a threshold of
two is the least with a count that is neither 0 nor at it.

Fairness. `FairSpec` has weak fairness of the loop and of `Start`: tokio polls a
runnable task, and the user of a desktop app starts it again after a crash. `CronFairSpec`
has it per task (loop with its advance, boot, each handler), because no task can
hold back another at an await. `FairSpec` of `NotificationDelivery` has it of the dispatcher task
and of the restart; it includes that a channel's `deliver` returns, which the code does not
enforce with a time-out. `ChatStreams` has it of the steps of relay, agent and tools, with the
model answering and questions expiring; `ProviderFailover` of each call, of the spawned saves and
of time, so a provider is assumed to answer with something; `FocusDeadlines` of the poll, of both
ends and of the scheduler's firing of what is due, which `DueSettles` and the refinement give;
`ChampionTrials` of each evaluation, including its daily start and the return of its queries, and
of a revert under way. Nothing is assumed of producers, requests, users, faults or the clock,
nor, for notifications, of the scheduler.

## 4. Proofs

All proofs hold for every value of the constants under the named ASSUMEs, which the runs
evaluate.

`TemporalSchedulerProofs`:

- `TypeCorrect` : `Spec => []TypeOK`, with `Typed`, which adds what `cur` and `winner` are
  where a step uses them.
- `AnnouncedAtMostOncePerBoot`, `WithdrawnStaysSilent` from `ClaimInv`: a fire that has
  been announced in this boot is fired, deleted, in hand between publish and mark, or one
  of the rows whose recovery mark failed; rows still to recover are firing and
  unannounced; a withdrawn row is deleted and was never in hand. AtMostOncePerBoot alone
  is not inductive because it does not say why a second claim must fail.
- `FiresAreNeverEarly` from `DueInv`: all rows in the loop's hands, and all claimed rows,
  are due at the `passNow` in use or before the clock. This one is proved only; no run
  lists it.
- `NothingInFlightWhileAsleep`, `FiresAreAccounted` from `SettleInv`: a claimed row is in
  hand, still to be recovered, unmarked, or the process is down; a fired row is accounted
  for or in `missed`.
- `SuppressionIsForNewer` from `GroupInv`: the losers under way belong to the winner's group,
  are not newer, and none was announced.
- `SchedulerImplementsContract`, `Spec => ImplementsContract`, step by step from the same
  invariants: a claim is the contract's Take, a mark its Settle, a publish its Announce, a
  start its Reboot, and everything else is invisible to it.

`CronSchedulingProofs`, for any jobs, schedules, fires, any finite set of handlers and any
bounds. `LoopView` splits every step of the application by what it is to the scheduler: a step
of the loop (which the lemmas above then cover), a cancel or an insert of the bridge, the end
of `advance`, or a fault beside the loop.

- `CronTypeCorrect`, `CronAnnouncedAtMostOnce`, `CronWithdrawnStaysSilent` from the invariants of
  the loop and `TaskInv`, `HoldInv`, which say where handlers, start-up and `advance` can
  stand given `boot` and `pc`, and what each holds there.
- `CronImplementsContract`, `CronNothingInFlightWhileAsleep`, `CronFiresAreAccounted`: to the contract
  the bridge is one more producer, whose cancels are withdrawals and whose inserts are accepted.
- `CronDisableEndsInSilence` (`LateFiresBounded`) from `LateInv`: the late fires announced, those
  that may still be announced and the tasks that may still schedule one are together never
  more than the handlers. A cancelling reconcile starts the count with one for each other
  task; from then on a task only turns into a fire and a fire into an announcement. It
  needs `RecoverInv`: what a recovery finds in flight belongs to deleted jobs that no task can
  bring back, because the reconcile at start-up comes before it. The bound on the
  property alone is not inductive because it does not count what is under way.
- `CronFiresSpaced` from `UntouchedInv` and `SpaceInv`: a fire that may still be announced is a
  period away from every announcement of its job, or it is cancelled before its turn comes, by
  the `advance` under way or by the reconcile of the next start. A failing statement can skip
  that cancel, which is why the property speaks of runs without.

`NotificationDeliveryProofs`, for any alarms, held rows, channels, payloads and configuration:

- `TypeCorrect`, from `Typed`, which adds what the locals hold at each await and that an alarm
  on the bus has a payload.
- `NotifiedAtMostOnce` and `LogIsTruthful` from `OutcomeInv`: the dispatcher attempts a delivery
  only with the pair's row in the state `sent` and nothing shown yet, and stands at an ack with the
  pair shown once, or never if the channel is silent. Neither property is inductive without
  it, because neither says who may deliver. `LogIsTruthful` does not say that an ack means a
  delivery: on a silent channel it means that nobody saw anything (section 5).
- `HeldIsNeverForgotten` from `HeldInv`: a row is dispatched by its own release, the dispatcher
  waits with empty hands, and a fire is not heard before the scheduler has it.
- `ReleasesAreDispatched` (`ReleasedWasDispatched`) from `ReleaseInv`: the dispatcher of a held row is at
  one place of the row's channel list, and every channel before that place has a log row or was
  skipped by an error.

Because the environment of these theorems is `FireContract` and `SchedulerImplementsContract` is
proved, they hold of the dispatcher behind the real scheduler. `CronImplementsContract` says that
the bridge does not break the contract it works under; that module has no other producers,
whose rows no statement of the bridge selects.

`SessionCacheProofs`, for any conversations and turns, any size of the cache and any thresholds:

- `TypeCorrect` from `Typed`, which says what a turn holds at each await and that the order of
  use lists each cached key once.
- `AnsweredCorrect` from `AnswerInv`, which follows an answer: first in the clone to be saved, then
  in the table, unless it was deleted for a reason.
- `LossCorrect` from `LossInv`: what was said is stored, cached, gone for a reason or in a turn's
  clone, and a clone after its insert, or of an evicted session, never has more than table and
  cache.
- `ResetCorrect` from `QuietInv` (between the two halves of a reset that nothing overlaps, nothing
  leads back to its key), `HeapUsed` (sessions in memory outside the cache are in a turn's
  hands) and `OwnInv` (no session, row or clone holds a message of another conversation, or one
  that is final).

`ChatStreamsProofs`: `TypeCorrect`, `SendableCorrect`, `QuestionCorrect`, `EntryCorrect` from
the invariant of `StreamsInv`: an entry belongs to a turn sent to its session, only a turn that was sent has a
relay or an end, the bridge has none, and an open question is one of its session whose
relay has not returned. Without the last two a guard could take what is not its own.

`ProviderFailoverProofs`: `BreakerInv`, `TypeCorrect`, `OpeningCorrect`, `ThresholdCorrect`, `RecordCorrect`. The
strengthening is `CountIsEarned` (the counter never exceeds the failures since the last
success, as far as these are counted) and that a call that sleeps has an attempt left.

`FocusDeadlinesProofs`: `TypeCorrect`, `FocusInv`, `RowsCorrect`, `EndsCorrect`. The inductive
invariant says where the last change of a task is at every moment (with its call, in the queue,
with the handler, in the rows) and that each of these, the first that is not empty, tells the
focus of a task that nothing upset; that whatever else is on its way is about an earlier
focus or has the right time left; and that the rows of a task, those the handler has still to
insert included, are of one focus (`OneFocus`), upset or not.

`ChampionTrialsProofs`: `TypeCorrect`, `RestartCorrect`, `PreviousCorrect`. The invariant ties the
lock to the awaits it is held across, and says that in the middle of an update the saved
previous champion is still the one in use: that is what the lock is for, and without it the
statement about the replaced champion is not inductive.

Every invariant and every action property of the passing runs is stated by a theorem. Only
model-checked are the liveness properties, because fairness and ENABLED are beyond the
prover: `DueSettles`, `SuppressionNotLost`, `StaysScheduled`, `AnnouncedIsAnswered`, `EveryTurnIsClosed`,
`PrimaryTriedAgain`, `OverdueEnds` and `RegressionSettles`.

Assumptions on the constants, beyond their types and the order of thresholds: `None` is not a
fire, an id, a prefix, a grace, an alarm, a channel or a row (`NoneAssumption`, `AbsentAssumption`,
`DispatcherAssumption`), alarms are not releases, the cron kind is one of the kinds and a job's id
is the prefix of its fires, and finitely many handlers run at a time (`CronAssumption`; the count
of late fires needs the last).

## 5. Disagreements between code and comments

Three are runs that TLC ends with a counterexample; the quoted lines are in `PROJECT.json` under
"findings": a message that comes to a session while it is saved for eviction is lost; one
cancel ends the turns of all sessions as far as the user can see; an automatic rollback of the
champion leaves its parameters in live retrieval.

Others are part of the models, mostly noted with their lines under "hazards", without a run of their
own:

- A cron fire found stale stops its job, because a skipped fire has no follow-up.
- A one-shot job fires again after any reconcile within its grace.
- "Run now" postpones the job: it sets a column the bridge does not read, and the reconcile it
  calls counts the period anew (`handlers/cron.rs:136`).
- A restart deletes in-flight cron fires before the recovery could announce them.
- One stored expression that does not parse ends the reconcile of all later jobs, and at
  start-up the start (`cron_bridge.rs:45`).
- An outbound notification channel with no active chat drops the text and returns Ok
  (`notifications/src/channel/outbound.rs:46`), and no chat is ever active for it
  (`app-core/src/plugins/notifications.rs:47`): telegram, discord, slack and email get an ack in
  the log with nothing shown. No comment or test says what an ack stands for, so this is a
  statement of `LogTellsTheOutcome`, not a run of its own.
- The tray channel, one of the two default channels, publishes `TrayNotificationRequested`, of
  which `notifications/src/channel/tray.rs:4` says that the desktop crate "listens for this event
  and updates the system-tray menu accordingly"; no receiver there asks for it
  (`desktop/src/tray_countdown.rs` does not, and the debug dashboard gets its name only). An ack of
  the tray is therefore worth as little as one of an outbound channel.
- An edit of a cron job whose delete of the old row fails leaves the old job and its replacement
  (`handlers/cron.rs:308`).
- The urgent override of quiet hours never applies: the gate reads a payload key no producer
  writes.
- A crash between claim and mark makes recovery announce rows that were to be skipped or
  suppressed; a failing statement ends the loop; the fire of a deleted job survives; handler
  and advance may schedule a job twice; a held notification whose release comes too late is
  dropped by the default misfire policy.
- A thread that is deleted while a turn works on it, or while it is cached, comes back with the
  next save.
- The MCP bridge starts no relay, so nothing removes the entry of its stream, and a second send
  with the same key is refused until a cancel (`klyntbot-server/src/bridge/agent.rs:79`).
- The verdict on one champion is applied to the next: a trial promoted by an evaluation that
  found the old champion regressed begins with a count of one. Two jobs evaluate each night, so
  the count of "days" (`config/src/schema/autotuner.rs:15`) grows by up to two a day; a revert
  brings back the count the champion had when it was replaced; and after a rollback the
  previous champion is the current one, so that a second rollback changes nothing.

What the code does wrong in the models is excused in the properties by name, and only that:
`lost` and `faulted` (notifications), `unmarked` and `dropped` (scheduler), `overdue` and `unrecorded`
(breaker), `disturbed` (focus), `displaced` (champion) are history variables set by the very
step that loses something. A property with such an excuse says that there is no other way to the
same loss; it does not show the loss to be absent. The hazards in `PROJECT.json` keep the
two apart: a hazard whose case is the excuse itself lists no property and says so in its note.

## 6. Plan

Done: the scheduler with its contract and refinement, cron jobs, notifications, sessions, chat
streams, providers, focus, the champion. What would come next:

1. An abstract specification of a conversation, and `SessionCache` shown to implement it outside
   evictions.
2. `Recurrence` and `ApprovalGate`, once the program reaches them (section 7).

## 7. Not modelled

The recurrence engine is not reached at this commit: nothing but its repository and tests
inserts `task_recurrence_templates` rows, so no spawn fire is ever stored. The approval gate is
idle: the application passes no approval channel, the runtime takes the fallback that
denies at once, and so no approval is ever pending and no grant is stored. The cron executor is a
stateless dispatch whose one hazard, the lagging receiver, is that of every module here.

Cognitive memory, context assembly, the scores of trials and analytics are heuristics without
a crisp correctness property. Channels, voice, platform bindings, MCP and tool implementations
are I/O. Desktop UI and the other request handlers pass calls through. Calendar arithmetic
of cron expressions and time zones is replaced by "some later time", and the quiet window by a
clock that may enter or leave it at any step. What a notification channel does is an
outcome (shown, failed, or acked without being shown), and so are the language models.
